------------------------ MODULE IdentityTokenProofs -------------------------
(***************************************************************************)
(* Proofs about IdentityToken: for any services, lifetimes, clocks and     *)
(* parts of a second.                                                      *)
(***************************************************************************)
EXTENDS IdentityToken, TLAPS

-----------------------------------------------------------------------------
(* A whole number of seconds, in ticks.                                    *)

\* iat is the last whole second: not later than the clock, and less than a
\* second earlier.
LEMMA RoundedDown ==
  ASSUME NEW c \in Nat
  PROVE  /\ c \div Grain \in Nat
         /\ (c \div Grain) * Grain <= c
         /\ c < (c \div Grain) * Grain + Grain
<1>1. Grain \in Nat /\ Grain > 0
  BY TokenAssumption
<1>2. /\ c \div Grain \in Int
      /\ c % Grain \in 0 .. Grain - 1
      /\ c = Grain * (c \div Grain) + (c % Grain)
  BY <1>1
<1>3. c \div Grain \in Nat
  BY <1>1
<1>4. Grain * (c \div Grain) = (c \div Grain) * Grain
  BY <1>1, <1>3
<1>5. (c \div Grain) * Grain \in Int
  BY <1>1, <1>3
<1> QED
  BY <1>1, <1>2, <1>3, <1>4, <1>5

LEMMA Distributed ==
  ASSUME NEW m \in Int, NEW n \in Int
  PROVE  /\ (m + n) * Grain = m * Grain + n * Grain
         /\ (m - n) * Grain = m * Grain - n * Grain
         /\ m * Grain \in Int
  BY TokenAssumption


-----------------------------------------------------------------------------
(* A token is what Claims made of it when it was asked for, and that was   *)
(* not later than now.                                                     *)

AsIssued ==
  /\ asked.at \in Nat
  /\ asked.at <= clock
  /\ asked.ttl \in TTL
  /\ token.aud = AudienceFor(asked.audience)
  /\ token.nbf = asked.at \div Grain - Margin
  /\ token.exp = asked.at \div Grain + Lifetime(asked.ttl)

TokenInv ==
  /\ clock \in Nat
  /\ ahead \in Int
  /\ token # NoToken => AsIssued

LEMMA InitToken == TokenInit => TokenInv
  BY TokenAssumption DEF TokenInit, TokenInv

LEMMA StepToken == TokenInv /\ [TokenNext]_tokenVars => TokenInv'
<1> SUFFICES ASSUME TokenInv, [TokenNext]_tokenVars PROVE TokenInv'
  OBVIOUS
<1>1. ASSUME NEW audience \in SUBSET Target, NEW ttl \in TTL, Issue(audience, ttl)
      PROVE  TokenInv'
  BY <1>1 DEF TokenInv, AsIssued, Issue, Claims, IssuedAt
<1>2. CASE Forget
  BY <1>2 DEF TokenInv, Forget
<1>3. CASE Tick
  BY <1>3 DEF TokenInv, AsIssued, Tick
<1>4. CASE UNCHANGED tokenVars
  BY <1>4 DEF TokenInv, AsIssued, tokenVars
<1> QED
  BY <1>1, <1>2, <1>3, <1>4 DEF TokenNext

LEMMA TokenInvariant == TokenSpec => []TokenInv
  BY InitToken, StepToken, PTL DEF TokenSpec

-----------------------------------------------------------------------------

\* No service accepts a token that was asked for others (identity.py:23-29,
\* jwt.py:52-55).
THEOREM AudiencesAreSeparated == TokenSpec => []AudienceSeparated
<1>1. TokenInv => AudienceSeparated
  BY DEF TokenInv, AsIssued, AudienceSeparated, AcceptedBy, AudienceFor
<1> QED
  BY <1>1, TokenInvariant, PTL

\* What the two theorems on time need of a token: iat is the last whole second,
\* and nbf and exp lie before and after it.
LEMMA TimesOfToken ==
  ASSUME TokenInv, token # NoToken
  PROVE  LET iat == (asked.at \div Grain) * Grain
             life == Lifetime(asked.ttl) * Grain
         IN /\ iat \in Int /\ iat <= asked.at /\ asked.at < iat + Grain
            /\ life \in Int
            /\ token.nbf * Grain = iat - Allowance
            /\ token.exp * Grain = iat + life
            /\ (Lifetime(asked.ttl) - 1) * Grain = life - Grain
            /\ Allowance \in Int /\ Grain \in Nat
<1>1. /\ asked.at \in Nat
      /\ token.nbf = asked.at \div Grain - Margin
      /\ token.exp = asked.at \div Grain + Lifetime(asked.ttl)
  BY DEF TokenInv, AsIssued
<1>2. Lifetime(asked.ttl) \in Int
  <2>1. asked.ttl \in TTL
    BY DEF TokenInv, AsIssued
  <2>2. TTL \subseteq Int
    BY TokenAssumption
  <2>3. asked.ttl \in Int
    BY <2>1, <2>2
  <2>4. DefaultTTL \in Int
    BY TokenAssumption
  <2> QED
    BY <2>3, <2>4 DEF Lifetime
<1>3. asked.at \div Grain \in Nat
  BY <1>1, RoundedDown
<1>4. /\ (asked.at \div Grain) * Grain \in Int
      /\ (asked.at \div Grain) * Grain <= asked.at
      /\ asked.at < (asked.at \div Grain) * Grain + Grain
  <2> DEFINE at == asked.at
  <2>1. at \in Nat
    BY <1>1
  <2> HIDE DEF at
  <2>2. /\ (at \div Grain) * Grain <= at
        /\ at < (at \div Grain) * Grain + Grain
        /\ (at \div Grain) \in Int
    BY <2>1, RoundedDown
  <2>3. (at \div Grain) * Grain \in Int
    BY <2>2, Distributed
  <2> QED
    BY <2>2, <2>3 DEF at
<1>5. /\ token.nbf * Grain = (asked.at \div Grain) * Grain - Allowance
      /\ Allowance \in Int
  BY <1>1, <1>3, Distributed DEF Margin, Allowance
<1>6. token.exp * Grain = (asked.at \div Grain) * Grain + Lifetime(asked.ttl) * Grain
  BY <1>1, <1>2, <1>3, Distributed
<1>7. (Lifetime(asked.ttl) - 1) * Grain = Lifetime(asked.ttl) * Grain - 1 * Grain
  BY <1>2, Distributed
<1>8. 1 * Grain = Grain /\ Grain \in Nat
  BY TokenAssumption
<1>9. Lifetime(asked.ttl) * Grain \in Int
  BY <1>2, Distributed
<1> QED
  BY <1>4, <1>5, <1>6, <1>7, <1>8, <1>9

\* Whatever the parts of a second, five seconds suffice for a clock that is late
\* by as much and for the rounding of iat (identity.py:21-28, jwt.py:55-60).
THEOREM FreshAreAccepted == TokenSpec => []FreshIsAccepted
<1>1. ASSUME TokenInv PROVE FreshIsAccepted
  <2> SUFFICES ASSUME token # NoToken, clock = asked.at,
                      ahead >= -Allowance,
                      ahead <= (Lifetime(asked.ttl) - 1) * Grain
               PROVE  InTime(token, clock + ahead)
    BY DEF FreshIsAccepted, AcceptedBy
  <2> DEFINE iat == (asked.at \div Grain) * Grain
             life == Lifetime(asked.ttl) * Grain
  <2>1. /\ iat \in Int /\ iat <= asked.at /\ asked.at < iat + Grain
        /\ life \in Int
        /\ token.nbf * Grain = iat - Allowance
        /\ token.exp * Grain = iat + life
        /\ ahead <= life - Grain
        /\ Allowance \in Int /\ Grain \in Nat
    BY <1>1, TimesOfToken
  <2>2. clock \in Nat /\ ahead \in Int
    BY <1>1 DEF TokenInv
  <2> HIDE DEF iat, life
  <2> QED
    BY <2>1, <2>2 DEF InTime
<1> QED
  BY <1>1, TokenInvariant, PTL

\* Nor does rounding prolong a token (identity.py:22-28, jwt.py:57).
THEOREM TokensDieOnTime == TokenSpec => []DiesOnTime
<1>1. ASSUME TokenInv PROVE DiesOnTime
  <2> SUFFICES ASSUME token # NoToken,
                      clock - asked.at >= Lifetime(asked.ttl) * Grain - ahead
               PROVE  ~InTime(token, clock + ahead)
    BY DEF DiesOnTime, AcceptedBy
  <2> DEFINE iat == (asked.at \div Grain) * Grain
             life == Lifetime(asked.ttl) * Grain
  <2>1. /\ iat \in Int /\ iat <= asked.at
        /\ life \in Int
        /\ token.exp * Grain = iat + life
        /\ clock - asked.at >= life - ahead
    BY <1>1, TimesOfToken
  <2>2. clock \in Nat /\ ahead \in Int /\ asked.at \in Nat
    BY <1>1 DEF TokenInv, AsIssued
  <2> HIDE DEF iat, life
  <2> QED
    BY <2>1, <2>2 DEF InTime
<1> QED
  BY <1>1, TokenInvariant, PTL

=============================================================================
