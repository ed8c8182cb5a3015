--------------------------- MODULE IdentityToken ----------------------------
(***************************************************************************)
(* The signed identity tokens: the claims of claims_for_user that limit    *)
(* where and when a token counts, and decode_hs256, which accepts or       *)
(* refuses one.  An identity is issued a token by AuthNode's clock, in     *)
(* whole seconds, and presented to a verifier whose clock, with fractions, *)
(* may be off.  Time is counted in Grain-ths of a second.                  *)
(***************************************************************************)
EXTENDS Integers, FiniteSets

CONSTANTS
  Target,           \* services, each accepting its own audience
  DefaultAudience,  \* default_audience
  DefaultTTL,       \* token_ttl_seconds
  TTL,              \* lifetimes asked for, in seconds; 0: none given
  Grain,            \* ticks per second
  MaxSkew,          \* bound on how far the clocks are apart, in ticks
  Horizon,          \* bound on the clock, in ticks
  NoToken

ASSUME TokenAssumption ==
  /\ DefaultAudience \subseteq Target
  /\ DefaultTTL \in Nat \ {0}
  /\ TTL \subseteq Int
  /\ Grain \in Nat \ {0}
  /\ MaxSkew \in Nat
  /\ Horizon \in Nat

VARIABLES
  clock,   \* of AuthNode
  ahead,   \* the verifiers' clock minus AuthNode's
  token,   \* the token under consideration
  asked    \* when and how it was asked for

tokenVars == <<clock, ahead, token, asked>>

Margin == 5   \* seconds nbf lies before iat

Allowance == Margin * Grain

\* int(time.time()).
IssuedAt == clock \div Grain

\* ttl_seconds or config.token_ttl_seconds.
Lifetime(ttl) == IF ttl = 0 THEN DefaultTTL ELSE ttl

TokenInit ==
  /\ clock = 0
  /\ ahead \in -MaxSkew .. MaxSkew
  /\ token = NoToken
  /\ asked = NoToken

ClaimsFromNow(audience, ttl) ==
  [aud |-> audience, iat |-> IssuedAt, nbf |-> IssuedAt, exp |-> IssuedAt + Lifetime(ttl)]

ClaimsForAll(audience, ttl) ==
  [aud |-> audience \cup DefaultAudience, iat |-> IssuedAt, nbf |-> IssuedAt - Margin,
   exp |-> IssuedAt + Lifetime(ttl)]

Claims(audience, ttl) ==
  [aud |-> audience, iat |-> IssuedAt, nbf |-> IssuedAt - Margin,
   exp |-> IssuedAt + Lifetime(ttl)]

\* The audiences of a request that names none are the configured ones.
AudienceFor(audience) == IF audience = {} THEN DefaultAudience ELSE audience

Issue(audience, ttl) ==
  /\ token = NoToken
  /\ token' = Claims(AudienceFor(audience), ttl)
  /\ asked' = [audience |-> audience, ttl |-> ttl, at |-> clock]
  /\ UNCHANGED <<clock, ahead>>

Forget ==
  /\ token # NoToken
  /\ token' = NoToken
  /\ asked' = NoToken
  /\ UNCHANGED <<clock, ahead>>

Tick ==
  /\ clock < Horizon
  /\ clock' = clock + 1
  /\ UNCHANGED <<ahead, token, asked>>

TokenNext ==
  \/ \E audience \in SUBSET Target, ttl \in TTL : Issue(audience, ttl)
  \/ Forget
  \/ Tick

TokenSpec == TokenInit /\ [][TokenNext]_tokenVars

-----------------------------------------------------------------------------
(* decode_hs256 for the service target, by a verifier with the secret.     *)

InTimeOrAt(claims, t) == claims.nbf * Grain <= t /\ t <= claims.exp * Grain

InTime(claims, t) == claims.nbf * Grain <= t /\ t < claims.exp * Grain

AcceptedBy(target) ==
  /\ token # NoToken
  /\ target \in token.aud
  /\ InTime(token, clock + ahead)

-----------------------------------------------------------------------------

\* A token asked for some services is refused by every other one, and one asked
\* for none by all but the configured ones (identity.py:23-29, jwt.py:52-55).
AudienceSeparated ==
  \A target \in Target :
    AcceptedBy(target) =>
      \/ target \in asked.audience
      \/ asked.audience = {} /\ target \in DefaultAudience

\* When the verifier's clock is late by the five seconds of nbf at most, and
\* early by less than the lifetime, a token counts at once, although iat is
\* rounded down to a second (identity.py:21-28, jwt.py:55-60).
FreshIsAccepted ==
  token # NoToken /\ clock = asked.at /\ asked.ttl >= 0
    /\ ahead >= -Allowance
    /\ ahead <= (Lifetime(asked.ttl) - 1) * Grain
    => \A target \in token.aud : AcceptedBy(target)

\* No token counts longer than it was asked for, by AuthNode's clock and the
\* error of the verifier's; one asked for a time that is over counts nowhere
\* (identity.py:22-28, jwt.py:57).
DiesOnTime ==
  token # NoToken
    /\ clock - asked.at >= Lifetime(asked.ttl) * Grain - ahead
    => \A target \in Target : ~AcceptedBy(target)

=============================================================================
