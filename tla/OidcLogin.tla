------------------------------ MODULE OidcLogin -----------------------------
(***************************************************************************)
(* The browser login of AuthNode with browser_login_provider = keycloak:   *)
(*                                                                         *)
(*   GET /login          issue an OIDC state, redirect to Keycloak         *)
(*   GET /oidc/callback  pop the state, exchange the grant for a token,    *)
(*                       verify it, issue a login code                     *)
(*                                                                         *)
(* States and the JWKS cache are in the memory of the process; the cache   *)
(* is filled by any thread, without a lock, from what Keycloak publishes.  *)
(* The nonce and the PKCE verifier are drawn with the state and kept in    *)
(* its entry, so the state stands for them too.                            *)
(*                                                                         *)
(* Keycloak is external: it answers an authorization request with a grant  *)
(* for the user who signs in, exchanges a grant once for a token signed    *)
(* with its current key, and rotates its keys.  That it refuses a grant    *)
(* whose PKCE verifier does not match is NOT assumed.                      *)
(***************************************************************************)
EXTENDS Naturals, Sequences

CONSTANTS
  Request,   \* server threads: bound on requests open at once
  OidcState, \* state parameters: bound on logins ever begun
  Account,   \* what the claims of a token can say
  Accepted,  \* those with user and tenant claims, of a tenant that is allowed
  Target,    \* downstream services
  Key,       \* Keycloak's signing keys: bound on rotations
  FirstKey,
  StateTTL,  \* the 600 seconds of issue_oidc_state
  NoState, NoToken, NoTarget

Grant == [state : OidcState, account : Account]

Token == [nonce : OidcState, account : Account, key : Key]

ASSUME OidcAssumption ==
  /\ Accepted \subseteq Account
  /\ FirstKey \in Key
  /\ StateTTL \in Nat
  /\ NoState \notin OidcState
  /\ NoToken \notin Token
  /\ NoTarget \notin Target

VARIABLES
  phase,     \* where the thread of a request stands
  held,      \* the state a request has issued or popped
  token,     \* the token a request has received
  jwks,      \* the keys a request has fetched
  stored,    \* keys of the dict oidc_states
  target,    \* the target a state was issued for
  left,      \* ticks until its "exp"
  sent,      \* states a browser was redirected to Keycloak with
  accepted,  \* per state, the targets a callback went on with
  logins,    \* per state, the accounts login codes were issued for
  cache,     \* OidcCache.jwks; {}: nothing cached
  grants,    \* Keycloak: grants that were not exchanged yet,
  signedIn,  \*   everyone who signed in for an authorization request,
  signing,   \*   the key tokens are signed with,
  published, \*   the keys of its JWKS document,
  withdrawn  \*   and those that were in it once

threadVars == <<phase, held, token, jwks>>
stateVars == <<stored, target, left, sent, accepted, logins>>
keycloakVars == <<grants, signedIn, signing, published, withdrawn>>
oidcVars == <<threadVars, stateVars, cache, keycloakVars>>

OidcPhase == {"idle", "authorize", "callback", "exchange",
              "key", "fetch", "fetched", "refetch", "refetched", "claims"}

OidcInit ==
  /\ phase = [r \in Request |-> "idle"]
  /\ held = [r \in Request |-> NoState]
  /\ token = [r \in Request |-> NoToken]
  /\ jwks = [r \in Request |-> {}]
  /\ stored = {}
  /\ target = [s \in OidcState |-> NoTarget]
  /\ left = [s \in OidcState |-> 0]
  /\ sent = {}
  /\ accepted = [s \in OidcState |-> <<>>]
  /\ logins = [s \in OidcState |-> <<>>]
  /\ cache = {}
  /\ grants = {}
  /\ signedIn = {}
  /\ signing = FirstKey
  /\ published = {FirstKey}
  /\ withdrawn = {}

MoveTo(r, p) == phase' = [phase EXCEPT ![r] = p]

Answer(r) ==
  /\ MoveTo(r, "idle")
  /\ held' = [held EXCEPT ![r] = NoState]
  /\ token' = [token EXCEPT ![r] = NoToken]
  /\ jwks' = [jwks EXCEPT ![r] = {}]

-----------------------------------------------------------------------------
(* GET /login *)

BeginLogin(r, s, t) ==
  /\ phase[r] = "idle"
  /\ target[s] = NoTarget
  /\ stored' = stored \cup {s}
  /\ target' = [target EXCEPT ![s] = t]
  /\ left' = [left EXCEPT ![s] = StateTTL]
  /\ held' = [held EXCEPT ![r] = s]
  /\ MoveTo(r, "authorize")
  /\ UNCHANGED <<token, jwks, sent, accepted, logins, cache, keycloakVars>>

\* authorization_url, which may have to fetch the discovery document first: a
\* failure is answered with 503 (Abort) and leaves the state in the dict.
RedirectToKeycloak(r) ==
  /\ phase[r] = "authorize"
  /\ sent' = sent \cup {held[r]}
  /\ Answer(r)
  /\ UNCHANGED <<stored, target, left, accepted, logins, cache, keycloakVars>>

-----------------------------------------------------------------------------
(* GET /oidc/callback *)

\* A browser may bring any state it has with any grant it has: two tabs of one
\* browser, an old page, a request sent twice.
PeekState(r, s) ==
  /\ phase[r] = "idle"
  /\ s \in stored \cap sent
  /\ held' = [held EXCEPT ![r] = s]
  /\ MoveTo(r, "callback")
  /\ UNCHANGED <<token, jwks, stateVars, cache, keycloakVars>>

\* consume_oidc_state pops under the lock; a state that is not there is
\* answered with 401 and changes nothing.
PopState(r, s) ==
  /\ phase[r] = "idle"
  /\ s \in stored \cap sent
  /\ stored' = stored \ {s}
  /\ held' = [held EXCEPT ![r] = s]
  /\ MoveTo(r, "callback")
  /\ UNCHANGED <<token, jwks, target, left, sent, accepted, logins, cache, keycloakVars>>

\* The expiry is compared after the lock is released.
AcceptState(r) ==
  /\ phase[r] = "callback"
  /\ left[held[r]] > 0
  /\ accepted' = [accepted EXCEPT ![held[r]] = Append(@, target[held[r]])]
  /\ MoveTo(r, "exchange")
  /\ UNCHANGED <<held, token, jwks, stored, target, left, sent, logins, cache, keycloakVars>>

RejectState(r) ==
  /\ phase[r] = "callback"
  /\ left[held[r]] = 0
  /\ Answer(r)
  /\ UNCHANGED <<stateVars, cache, keycloakVars>>

ExchangeUnchecked(r, g) ==
  /\ phase[r] = "exchange"
  /\ g \in grants
  /\ grants' = grants \ {g}
  /\ MoveTo(r, "key")
  /\ UNCHANGED <<held, token, jwks, stateVars, cache, signedIn, signing, published, withdrawn>>

\* exchange_code_for_identity up to the token endpoint's answer.
ExchangeGrant(r, g) ==
  /\ phase[r] = "exchange"
  /\ g \in grants
  /\ grants' = grants \ {g}
  /\ token' = [token EXCEPT ![r] = [nonce |-> g.state, account |-> g.account, key |-> signing]]
  /\ MoveTo(r, "key")
  /\ UNCHANGED <<held, jwks, stateVars, cache, signedIn, signing, published, withdrawn>>

\* _signing_key with what is cached; a key that is not there is fetched anew,
\* once.
UseCachedKey(r) ==
  /\ phase[r] = "key"
  /\ MoveTo(r, IF cache = {} THEN "fetch"
               ELSE IF token[r].key \in cache THEN "claims" ELSE "refetch")
  /\ UNCHANGED <<held, token, jwks, stateVars, cache, keycloakVars>>

RefetchFromCache(r) ==
  /\ phase[r] \in {"fetch", "refetch"}
  /\ jwks' = [jwks EXCEPT ![r] = IF cache = {} THEN published ELSE cache]
  /\ MoveTo(r, IF phase[r] = "fetch" THEN "fetched" ELSE "refetched")
  /\ UNCHANGED <<held, token, stateVars, cache, keycloakVars>>

\* Keycloak answers with the keys of this moment ...
FetchKeys(r) ==
  /\ phase[r] \in {"fetch", "refetch"}
  /\ jwks' = [jwks EXCEPT ![r] = published]
  /\ MoveTo(r, IF phase[r] = "fetch" THEN "fetched" ELSE "refetched")
  /\ UNCHANGED <<held, token, stateVars, cache, keycloakVars>>

\* ... and the thread stores them, over what others may have stored since.
StoreKeys(r) ==
  /\ phase[r] \in {"fetched", "refetched"}
  /\ cache' = jwks[r]
  /\ \/ /\ token[r].key \in jwks[r]
        /\ MoveTo(r, "claims")
        /\ UNCHANGED <<held, token, jwks>>
     \/ /\ token[r].key \notin jwks[r]
        /\ phase[r] = "fetched"
        /\ MoveTo(r, "refetch")
        /\ UNCHANGED <<held, token, jwks>>
     \/ /\ token[r].key \notin jwks[r]
        /\ phase[r] = "refetched"
        /\ Answer(r)
  /\ UNCHANGED <<stateVars, keycloakVars>>

AcceptableAnyNonce(r) == token[r].account \in Accepted

\* The nonce, then the claims.
Acceptable(r) ==
  /\ token[r].nonce = held[r]
  /\ token[r].account \in Accepted

\* issue_auth_code with the identity of the claims, and the redirect.
FinishLogin(r) ==
  /\ phase[r] = "claims"
  /\ Acceptable(r)
  /\ logins' = [logins EXCEPT ![held[r]] = Append(@, token[r].account)]
  /\ Answer(r)
  /\ UNCHANGED <<stored, target, left, sent, accepted, cache, keycloakVars>>

RefuseLogin(r) ==
  /\ phase[r] = "claims"
  /\ ~Acceptable(r)
  /\ Answer(r)
  /\ UNCHANGED <<stateVars, cache, keycloakVars>>

\* Keycloak does not answer within 15 seconds, answers with an error or with a
\* token that is not valid: the request ends, and the state it popped is gone.
Abort(r) ==
  /\ phase[r] \in {"authorize", "exchange", "key", "fetch", "refetch"}
  /\ Answer(r)
  /\ UNCHANGED <<stateVars, cache, keycloakVars>>

\* The process ends and starts again with empty dicts and an empty cache.
Restart ==
  /\ phase' = [r \in Request |-> "idle"]
  /\ held' = [r \in Request |-> NoState]
  /\ token' = [r \in Request |-> NoToken]
  /\ jwks' = [r \in Request |-> {}]
  /\ stored' = {}
  /\ cache' = {}
  /\ UNCHANGED <<target, left, sent, accepted, logins, keycloakVars>>

Tick ==
  /\ left' = [s \in OidcState |-> IF left[s] > 0 THEN left[s] - 1 ELSE 0]
  /\ UNCHANGED <<threadVars, stored, target, sent, accepted, logins, cache, keycloakVars>>

-----------------------------------------------------------------------------
(* Keycloak *)

\* Someone signs in for the authorization request of s.
SignIn(s, a) ==
  /\ s \in sent
  /\ [state |-> s, account |-> a] \notin signedIn
  /\ grants' = grants \cup {[state |-> s, account |-> a]}
  /\ signedIn' = signedIn \cup {[state |-> s, account |-> a]}
  /\ UNCHANGED <<threadVars, stateVars, cache, signing, published, withdrawn>>

RotateKey(k) ==
  /\ k \notin published \cup withdrawn
  /\ signing' = k
  /\ published' = published \cup {k}
  /\ UNCHANGED <<threadVars, stateVars, cache, grants, signedIn, withdrawn>>

WithdrawKey(k) ==
  /\ k \in published \ {signing}
  /\ published' = published \ {k}
  /\ withdrawn' = withdrawn \cup {k}
  /\ UNCHANGED <<threadVars, stateVars, cache, grants, signedIn, signing>>

-----------------------------------------------------------------------------

VerifyToken(r) ==
  \/ UseCachedKey(r)
  \/ FetchKeys(r)
  \/ StoreKeys(r)
  \/ FinishLogin(r)
  \/ RefuseLogin(r)

OidcNext ==
  \/ \E r \in Request :
       \/ \E s \in OidcState, t \in Target : BeginLogin(r, s, t)
       \/ RedirectToKeycloak(r)
       \/ \E s \in OidcState : PopState(r, s)
       \/ AcceptState(r)
       \/ RejectState(r)
       \/ \E g \in grants : ExchangeGrant(r, g)
       \/ VerifyToken(r)
       \/ Abort(r)
  \/ Restart
  \/ Tick
  \/ \E s \in OidcState, a \in Account : SignIn(s, a)
  \/ \E k \in Key : RotateKey(k) \/ WithdrawKey(k)

OidcSpec == OidcInit /\ [][OidcNext]_oidcVars

-----------------------------------------------------------------------------

\* Types; a request holds a state while it is at work, and a token from the
\* exchange on (oidc.py:107-109).
OidcTypeOK ==
  /\ phase \in [Request -> OidcPhase]
  /\ held \in [Request -> OidcState \cup {NoState}]
  /\ token \in [Request -> Token \cup {NoToken}]
  /\ jwks \in [Request -> SUBSET Key]
  /\ stored \subseteq OidcState
  /\ target \in [OidcState -> Target \cup {NoTarget}]
  /\ left \in [OidcState -> 0 .. StateTTL]
  /\ sent \subseteq OidcState
  /\ accepted \in [OidcState -> Seq(Target)]
  /\ logins \in [OidcState -> Seq(Account)]
  /\ cache \subseteq Key
  /\ grants \subseteq Grant
  /\ signedIn \subseteq Grant
  /\ signing \in Key
  /\ published \subseteq Key
  /\ withdrawn \subseteq Key
  /\ \A r \in Request :
       /\ held[r] = NoState <=> phase[r] = "idle"
       /\ token[r] = NoToken <=> phase[r] \in {"idle", "authorize", "callback", "exchange"}

\* Whoever is logged in through a state signed in at Keycloak for the
\* authorization request of that very state, and nobody else is logged in
\* through it, however states and grants of several logins are mixed up,
\* repeated or delayed (server.py:572-596, oidc.py:140-141).
LoginsMatch ==
  \A s \in OidcState :
    /\ Len(logins[s]) <= 1
    /\ \A i \in DOMAIN logins[s] : [state |-> s, account |-> logins[s][i]] \in signedIn

\* A token is refused for want of its key only when Keycloak has withdrawn the
\* key: neither a cache from before a rotation nor another thread that stores
\* older keys makes a login fail (oidc.py:201-234).
KeyFound ==
  \A r \in Request :
    phase[r] = "refetched" /\ token[r].key \notin jwks[r] => token[r].key \in withdrawn

StateLive(s) == s \in stored \/ \E r \in Request : held[r] = s /\ phase[r] = "callback"

\* What becomes of a state, seen as a ticket that is answered when a callback
\* goes on with it.
StateTicket(s) ==
  CASE target[s] = NoTarget -> "unissued"
    [] accepted[s] # <<>> -> "redeemed"
    [] target[s] # NoTarget /\ accepted[s] = <<>> /\ StateLive(s) -> "live"
    [] OTHER -> "void"

Tickets == INSTANCE OneTimeTicket WITH
  Ticket <- OidcState,
  Subject <- Target,
  NoSubject <- NoTarget,
  Lifetime <- StateTTL,
  state <- [s \in OidcState |-> StateTicket(s)],
  left <- [s \in OidcState |-> IF StateTicket(s) = "live" THEN left[s] ELSE 0],
  subject <- target,
  answers <- accepted

\* OIDC states are one-time tickets: of all callbacks that bring a state at
\* most one goes on, for the target the login began with and before the expiry,
\* and none after a refused callback or a restart (server.py:119-154).
StatesAreTickets == Tickets!TicketSpec

=============================================================================
