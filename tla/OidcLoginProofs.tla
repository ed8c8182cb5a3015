--------------------------- MODULE OidcLoginProofs --------------------------
(***************************************************************************)
(* Proofs about OidcLogin, for any number of requests, states and keys:    *)
(* its types, that logins match sign-ins, that keys are found, and that    *)
(* states are OneTimeTickets.                                              *)
(***************************************************************************)
EXTENDS OidcLogin, TLAPS

USE OidcAssumption DEF OidcAssumption

-----------------------------------------------------------------------------
(* The inductive invariants.  A callback is at work with a state that it   *)
(* alone has taken from the dict, and through which nobody is logged in    *)
(* yet; the token it holds is of somebody who signed in, for some state.   *)

AtWork(r) == phase[r] \notin {"idle", "authorize"}

StateInv ==
  /\ \A s \in OidcState : target[s] = NoTarget => s \notin stored /\ logins[s] = <<>>
  /\ \A s \in stored : logins[s] = <<>> /\ \A r \in Request : AtWork(r) => held[r] # s
  /\ \A r \in Request : AtWork(r) => target[held[r]] # NoTarget /\ logins[held[r]] = <<>>
  /\ \A r, q \in Request : AtWork(r) /\ AtWork(q) /\ held[r] = held[q] => r = q

SignedInFor(t) == [state |-> t.nonce, account |-> t.account] \in signedIn

TokenInv ==
  /\ grants \subseteq signedIn
  /\ \A r \in Request : token[r] # NoToken => SignedInFor(token[r])

\* Keycloak signs with a key it publishes or has published.
KeyInv ==
  /\ signing \in published
  /\ \A r \in Request : token[r] # NoToken => token[r].key \in published \cup withdrawn
  /\ KeyFound

OidcInv == OidcTypeOK /\ StateInv /\ TokenInv /\ KeyInv /\ LoginsMatch

LEMMA InitOidc == OidcInit => OidcInv
<1> SUFFICES ASSUME OidcInit PROVE OidcInv
  OBVIOUS
<1>1. left \in [OidcState -> 0 .. StateTTL]
  BY DEF OidcInit
<1>2. OidcTypeOK
  BY <1>1 DEF OidcInit, OidcTypeOK, OidcPhase
<1>3. StateInv /\ TokenInv
  BY DEF OidcInit, StateInv, TokenInv, AtWork
<1>4. KeyInv
  BY DEF OidcInit, KeyInv, KeyFound
<1>5. LoginsMatch
  BY DEF OidcInit, LoginsMatch
<1> QED
  BY <1>2, <1>3, <1>4, <1>5 DEF OidcInv

-----------------------------------------------------------------------------
(* One lemma per conjunct; each has one step per action.                   *)

LEMMA StepTypes ==
  ASSUME OidcTypeOK, StateInv, [OidcNext]_oidcVars
  PROVE  OidcTypeOK'
<1> USE DEF OidcTypeOK, OidcPhase, threadVars, stateVars, keycloakVars
<1>1. ASSUME NEW r \in Request, Answer(r),
             UNCHANGED <<stored, target, left, accepted, keycloakVars>>,
             sent' \subseteq OidcState, logins' \in [OidcState -> Seq(Account)], cache' \subseteq Key
      PROVE  OidcTypeOK'
  BY <1>1 DEF Answer, MoveTo
<1>2. ASSUME NEW r \in Request, NEW s \in OidcState, NEW t \in Target, BeginLogin(r, s, t)
      PROVE  OidcTypeOK'
  BY <1>2 DEF BeginLogin, MoveTo
<1>3. ASSUME NEW r \in Request, RedirectToKeycloak(r)
      PROVE  OidcTypeOK'
  <2>1. sent' \subseteq OidcState
    BY <1>3 DEF RedirectToKeycloak
  <2> QED
    BY <1>1, <1>3, <2>1 DEF RedirectToKeycloak
<1>4. ASSUME NEW r \in Request, NEW s \in OidcState, PopState(r, s)
      PROVE  OidcTypeOK'
  BY <1>4 DEF PopState, MoveTo
<1>5. ASSUME NEW r \in Request, AcceptState(r)
      PROVE  OidcTypeOK'
  <2>1. held[r] \in OidcState
    BY <1>5 DEF AcceptState
  <2>2. target[held[r]] # NoTarget
    <3>1. AtWork(r)
      BY <1>5 DEF AcceptState, AtWork
    <3> QED
      BY <3>1 DEF StateInv
  <2>3. target[held[r]] \in Target
    BY <2>1, <2>2
  <2> QED
    BY <1>5, <2>1, <2>3 DEF AcceptState, MoveTo
<1>6. ASSUME NEW r \in Request, RejectState(r) \/ RefuseLogin(r) \/ Abort(r)
      PROVE  OidcTypeOK'
  BY <1>1, <1>6 DEF RejectState, RefuseLogin, Abort
<1>7. ASSUME NEW r \in Request, NEW g \in grants, ExchangeGrant(r, g)
      PROVE  OidcTypeOK'
  <2>1. [nonce |-> g.state, account |-> g.account, key |-> signing] \in Token
    BY DEF Grant, Token
  <2> QED
    BY <1>7, <2>1 DEF ExchangeGrant, MoveTo
<1>8. ASSUME NEW r \in Request, UseCachedKey(r)
      PROVE  OidcTypeOK'
  BY <1>8 DEF UseCachedKey, MoveTo
<1>9. ASSUME NEW r \in Request, FetchKeys(r)
      PROVE  OidcTypeOK'
  BY <1>9 DEF FetchKeys, MoveTo
<1>10. ASSUME NEW r \in Request, StoreKeys(r)
       PROVE  OidcTypeOK'
  BY <1>10 DEF StoreKeys, Answer, MoveTo
<1>11. ASSUME NEW r \in Request, FinishLogin(r)
       PROVE  OidcTypeOK'
  <2>1. held[r] \in OidcState /\ token[r].account \in Account
    BY <1>11 DEF FinishLogin, Token
  <2>2. logins' \in [OidcState -> Seq(Account)]
    BY <1>11, <2>1 DEF FinishLogin
  <2> QED
    BY <1>1, <1>11, <2>2 DEF FinishLogin
<1>12. CASE Restart
  BY <1>12 DEF Restart
<1>13. CASE Tick
  BY <1>13 DEF Tick
<1>14. ASSUME NEW s \in OidcState, NEW a \in Account, SignIn(s, a)
       PROVE  OidcTypeOK'
  BY <1>14 DEF SignIn, Grant
<1>15. ASSUME NEW k \in Key, RotateKey(k) \/ WithdrawKey(k)
       PROVE  OidcTypeOK'
  BY <1>15 DEF RotateKey, WithdrawKey
<1>16. CASE UNCHANGED oidcVars
  BY <1>16 DEF oidcVars
<1> QED
  BY <1>2, <1>3, <1>4, <1>5, <1>6, <1>7, <1>8, <1>9, <1>10, <1>11, <1>12, <1>13, <1>14, <1>15,
     <1>16 DEF OidcNext, VerifyToken

\* Threads that stop working with their state, and states that are lost.
LEMMA FewerAtWork ==
  ASSUME OidcTypeOK, StateInv,
         stored' \subseteq stored, UNCHANGED <<target, logins>>,
         \A q \in Request : AtWork(q)' => AtWork(q) /\ held'[q] = held[q]
  PROVE  StateInv'
  BY DEF StateInv

LEMMA StepStates ==
  ASSUME OidcTypeOK, StateInv, [OidcNext]_oidcVars
  PROVE  StateInv'
<1> USE DEF threadVars, stateVars, keycloakVars
<1>0. /\ phase \in [Request -> OidcPhase]
      /\ held \in [Request -> OidcState \cup {NoState}]
      /\ \A r \in Request : AtWork(r) => held[r] \in OidcState
      /\ target \in [OidcState -> Target \cup {NoTarget}]
      /\ logins \in [OidcState -> Seq(Account)]
      /\ stored \subseteq OidcState
  BY DEF OidcTypeOK, AtWork
<1>1. ASSUME NEW r \in Request, Answer(r), UNCHANGED <<stored, target, logins>>
      PROVE  StateInv'
  <2>1. \A q \in Request : AtWork(q)' => AtWork(q) /\ held'[q] = held[q]
    BY <1>0, <1>1 DEF Answer, MoveTo, AtWork
  <2> QED
    BY <1>1, <2>1, FewerAtWork
<1>2. ASSUME NEW r \in Request, NEW p, AtWork(r), MoveTo(r, p),
             UNCHANGED <<held, stored, target, logins>>
      PROVE  StateInv'
  <2>1. \A q \in Request : AtWork(q)' => AtWork(q) /\ held'[q] = held[q]
    BY <1>0, <1>2 DEF MoveTo, AtWork
  <2> QED
    BY <1>2, <2>1, FewerAtWork
<1>3. ASSUME NEW r \in Request, NEW s \in OidcState, NEW t \in Target, BeginLogin(r, s, t)
      PROVE  StateInv'
  <2>1. /\ ~AtWork(r)'
        /\ \A q \in Request : AtWork(q)' => q # r /\ AtWork(q) /\ held'[q] = held[q]
    BY <1>0, <1>3 DEF BeginLogin, MoveTo, AtWork
  <2>2. \A q \in Request : AtWork(q) => held[q] # s
    BY <1>3 DEF BeginLogin, StateInv
  <2>3. /\ stored' = stored \cup {s}
        /\ logins' = logins /\ logins[s] = <<>>
        /\ \A x \in OidcState : target'[x] = IF x = s THEN t ELSE target[x]
    BY <1>0, <1>3 DEF BeginLogin, StateInv
  <2> QED
    BY <1>0, <2>1, <2>2, <2>3 DEF StateInv
<1>4. ASSUME NEW r \in Request, NEW s \in OidcState, PopState(r, s)
      PROVE  StateInv'
  <2>1. /\ held'[r] = s
        /\ \A q \in Request \ {r} : (AtWork(q)' <=> AtWork(q)) /\ held'[q] = held[q]
    BY <1>0, <1>4 DEF PopState, MoveTo, AtWork
  <2>2. /\ target[s] # NoTarget /\ logins[s] = <<>>
        /\ \A q \in Request : AtWork(q) => held[q] # s
    BY <1>4 DEF PopState, StateInv
  <2>3. stored' = stored \ {s} /\ UNCHANGED <<target, logins>>
    BY <1>4 DEF PopState
  <2>4. \A x \in OidcState : target'[x] = NoTarget => x \notin stored' /\ logins'[x] = <<>>
    BY <2>3 DEF StateInv
  <2>5. \A x \in stored' :
          logins'[x] = <<>> /\ \A q \in Request : AtWork(q)' => held'[q] # x
    BY <2>1, <2>3 DEF StateInv
  <2>6. \A q \in Request : AtWork(q)' => target'[held'[q]] # NoTarget /\ logins'[held'[q]] = <<>>
    BY <2>1, <2>2, <2>3 DEF StateInv
  <2>7. \A p, q \in Request : AtWork(p)' /\ AtWork(q)' /\ held'[p] = held'[q] => p = q
    BY <2>1, <2>2 DEF StateInv
  <2> QED
    BY <2>4, <2>5, <2>6, <2>7 DEF StateInv
<1>5. ASSUME NEW r \in Request, FinishLogin(r)
      PROVE  StateInv'
  <2>1. AtWork(r) /\ held[r] \in OidcState
    BY <1>0, <1>5 DEF FinishLogin, AtWork
  <2>2. \A q \in Request : AtWork(q)' => q # r /\ AtWork(q) /\ held'[q] = held[q]
    BY <1>0, <1>5 DEF FinishLogin, Answer, MoveTo, AtWork
  <2>3. /\ UNCHANGED <<stored, target>>
        /\ \A s \in OidcState : s # held[r] => logins'[s] = logins[s]
    BY <1>0, <1>5 DEF FinishLogin
  <2>4. /\ target[held[r]] # NoTarget /\ held[r] \notin stored
        /\ \A q \in Request : AtWork(q) /\ q # r => held[q] # held[r]
    BY <2>1 DEF StateInv
  <2>5. \A s \in OidcState : target'[s] = NoTarget => s \notin stored' /\ logins'[s] = <<>>
    BY <2>3, <2>4 DEF StateInv
  <2>6. \A s \in stored' :
          logins'[s] = <<>> /\ \A q \in Request : AtWork(q)' => held'[q] # s
    BY <1>0, <2>2, <2>3, <2>4 DEF StateInv
  <2>7. \A q \in Request : AtWork(q)' => target'[held'[q]] # NoTarget /\ logins'[held'[q]] = <<>>
    BY <1>0, <2>2, <2>3, <2>4 DEF StateInv
  <2>8. \A p, q \in Request : AtWork(p)' /\ AtWork(q)' /\ held'[p] = held'[q] => p = q
    BY <2>2 DEF StateInv
  <2> QED
    BY <2>5, <2>6, <2>7, <2>8 DEF StateInv
<1>6. ASSUME NEW r \in Request, RedirectToKeycloak(r) \/ RejectState(r) \/ RefuseLogin(r) \/ Abort(r)
      PROVE  StateInv'
  BY <1>1, <1>6 DEF RedirectToKeycloak, RejectState, RefuseLogin, Abort
<1>7. ASSUME NEW r \in Request,
             \/ AcceptState(r)
             \/ \E g \in grants : ExchangeGrant(r, g)
             \/ UseCachedKey(r)
             \/ FetchKeys(r)
      PROVE  StateInv'
  BY <1>2, <1>7 DEF AcceptState, ExchangeGrant, UseCachedKey, FetchKeys, AtWork
<1>8. ASSUME NEW r \in Request, StoreKeys(r)
      PROVE  StateInv'
  BY <1>1, <1>2, <1>8 DEF StoreKeys, AtWork
<1>9. CASE Restart
  <2>1. \A q \in Request : ~AtWork(q)'
    BY <1>9 DEF Restart, AtWork
  <2> QED
    BY <1>9, <2>1, FewerAtWork DEF Restart
<1>10. ASSUME UNCHANGED <<threadVars, stored, target, logins>>
       PROVE  StateInv'
  BY <1>10, FewerAtWork DEF AtWork
<1>11. CASE \/ Tick
            \/ \E s \in OidcState, a \in Account : SignIn(s, a)
            \/ \E k \in Key : RotateKey(k) \/ WithdrawKey(k)
            \/ UNCHANGED oidcVars
  BY <1>10, <1>11 DEF Tick, SignIn, RotateKey, WithdrawKey, oidcVars
<1> QED
  BY <1>3, <1>4, <1>5, <1>6, <1>7, <1>8, <1>9, <1>11 DEF OidcNext, VerifyToken

\* Tokens that a step leaves alone, or drops.
LEMMA TokensKept ==
  ASSUME OidcTypeOK, [OidcNext]_oidcVars,
         \A r \in Request, g \in grants : ~ExchangeGrant(r, g)
  PROVE  /\ \A q \in Request : token'[q] \in {token[q], NoToken}
         /\ grants \subseteq signedIn => grants' \subseteq signedIn'
         /\ signedIn \subseteq signedIn'
<1> USE DEF OidcTypeOK, threadVars, stateVars, keycloakVars
<1>1. ASSUME NEW r \in Request,
             \/ \E s \in OidcState, t \in Target : BeginLogin(r, s, t)
             \/ \E s \in OidcState : PopState(r, s)
             \/ AcceptState(r) \/ UseCachedKey(r) \/ FetchKeys(r)
      PROVE  UNCHANGED <<token, grants, signedIn>>
  BY <1>1 DEF BeginLogin, PopState, AcceptState, UseCachedKey, FetchKeys
<1>2. ASSUME NEW r \in Request,
             \/ RedirectToKeycloak(r) \/ RejectState(r) \/ StoreKeys(r)
             \/ FinishLogin(r) \/ RefuseLogin(r) \/ Abort(r)
      PROVE  /\ \A q \in Request : token'[q] \in {token[q], NoToken}
             /\ UNCHANGED <<grants, signedIn>>
  BY <1>2 DEF RedirectToKeycloak, RejectState, StoreKeys, FinishLogin, RefuseLogin, Abort, Answer
<1>3. CASE Restart
  BY <1>3 DEF Restart
<1>4. CASE Tick \/ (\E k \in Key : RotateKey(k) \/ WithdrawKey(k)) \/ UNCHANGED oidcVars
  BY <1>4 DEF Tick, RotateKey, WithdrawKey, oidcVars
<1>5. ASSUME NEW s \in OidcState, NEW a \in Account, SignIn(s, a)
      PROVE  /\ UNCHANGED token
             /\ grants \subseteq signedIn => grants' \subseteq signedIn'
             /\ signedIn \subseteq signedIn'
  BY <1>5 DEF SignIn
<1> QED
  BY <1>1, <1>2, <1>3, <1>4, <1>5 DEF OidcNext, VerifyToken

LEMMA StepTokens ==
  ASSUME OidcTypeOK, TokenInv, [OidcNext]_oidcVars
  PROVE  TokenInv'
<1>1. ASSUME NEW r \in Request, NEW g \in grants, ExchangeGrant(r, g)
      PROVE  TokenInv'
  <2>1. g \in signedIn /\ g = [state |-> g.state, account |-> g.account]
    BY DEF TokenInv, OidcTypeOK, Grant
  <2>2. SignedInFor([nonce |-> g.state, account |-> g.account, key |-> signing])
    BY <2>1 DEF SignedInFor
  <2>3. \A q \in Request :
          token'[q] = IF q = r THEN [nonce |-> g.state, account |-> g.account, key |-> signing]
                      ELSE token[q]
    BY <1>1 DEF ExchangeGrant, OidcTypeOK
  <2>4. grants' \subseteq grants /\ signedIn' = signedIn
    BY <1>1 DEF ExchangeGrant
  <2> QED
    BY <2>2, <2>3, <2>4 DEF TokenInv, SignedInFor
<1>2. CASE \A r \in Request, g \in grants : ~ExchangeGrant(r, g)
  BY <1>2, TokensKept DEF TokenInv, SignedInFor
<1> QED
  BY <1>1, <1>2

LEMMA StepLogins ==
  ASSUME OidcTypeOK, StateInv, TokenInv, LoginsMatch, [OidcNext]_oidcVars
  PROVE  LoginsMatch'
<1>1. ASSUME NEW r \in Request, FinishLogin(r)
      PROVE  LoginsMatch'
  <2>1. /\ held[r] \in OidcState /\ token[r] # NoToken
        /\ token[r].nonce = held[r] /\ logins[held[r]] = <<>>
    <3>1. AtWork(r) /\ phase[r] = "claims" /\ token[r].nonce = held[r]
      BY <1>1 DEF FinishLogin, Acceptable, AtWork
    <3>2. held[r] \in OidcState /\ token[r] # NoToken
      BY <3>1 DEF OidcTypeOK
    <3> QED
      BY <3>1, <3>2 DEF StateInv
  <2>2. [state |-> held[r], account |-> token[r].account] \in signedIn
    BY <2>1 DEF TokenInv, SignedInFor
  <2>3. /\ logins'[held[r]] = <<token[r].account>>
        /\ \A s \in OidcState : s # held[r] => logins'[s] = logins[s]
        /\ signedIn' = signedIn
    BY <1>1, <2>1 DEF FinishLogin, OidcTypeOK, keycloakVars
  <2>4. ASSUME NEW s \in OidcState, s # held[r]
        PROVE  /\ Len(logins'[s]) <= 1
               /\ \A i \in DOMAIN logins'[s] :
                    [state |-> s, account |-> logins'[s][i]] \in signedIn'
    BY <2>3, <2>4 DEF LoginsMatch
  <2>5. /\ Len(logins'[held[r]]) <= 1
        /\ \A i \in DOMAIN logins'[held[r]] :
             [state |-> held[r], account |-> logins'[held[r]][i]] \in signedIn'
    BY <2>2, <2>3
  <2> QED
    BY <2>4, <2>5 DEF LoginsMatch
<1>2. ASSUME UNCHANGED logins, signedIn \subseteq signedIn'
      PROVE  LoginsMatch'
  BY <1>2 DEF LoginsMatch
<1>3. CASE \E r \in Request, g \in grants : ExchangeGrant(r, g)
  BY <1>2, <1>3 DEF ExchangeGrant, stateVars
<1>4. ASSUME \A r \in Request : ~FinishLogin(r)
      PROVE  UNCHANGED logins
  BY <1>4 DEF OidcNext, VerifyToken, BeginLogin, RedirectToKeycloak, PopState, AcceptState,
     RejectState, ExchangeGrant, UseCachedKey, FetchKeys, StoreKeys, RefuseLogin, Abort, Restart,
     Tick, SignIn, RotateKey, WithdrawKey, oidcVars, stateVars
<1> QED
  BY <1>1, <1>2, <1>3, <1>4, TokensKept

LEMMA StepKeys ==
  ASSUME OidcTypeOK, KeyInv, [OidcNext]_oidcVars
  PROVE  KeyInv'
<1> USE DEF KeyInv, KeyFound, threadVars, stateVars, keycloakVars
<1>0. /\ phase \in [Request -> OidcPhase]
      /\ token \in [Request -> Token \cup {NoToken}]
      /\ jwks \in [Request -> SUBSET Key]
      /\ \A r \in Request :
           token[r] = NoToken <=> phase[r] \in {"idle", "authorize", "callback", "exchange"}
  BY DEF OidcTypeOK
<1>1. ASSUME NEW r \in Request, Answer(r), UNCHANGED <<signing, published, withdrawn>>
      PROVE  KeyInv'
  BY <1>0, <1>1 DEF Answer, MoveTo
<1>2. ASSUME NEW r \in Request, NEW p, p # "refetched", MoveTo(r, p),
             UNCHANGED <<token, jwks, signing, published, withdrawn>>
      PROVE  KeyInv'
  BY <1>0, <1>2 DEF MoveTo
<1>3. ASSUME NEW r \in Request, NEW s \in OidcState, NEW t \in Target, BeginLogin(r, s, t)
      PROVE  KeyInv'
  BY <1>2, <1>3 DEF BeginLogin
<1>4. ASSUME NEW r \in Request, NEW s \in OidcState, PopState(r, s)
      PROVE  KeyInv'
  BY <1>2, <1>4 DEF PopState
<1>5. ASSUME NEW r \in Request, AcceptState(r) \/ UseCachedKey(r)
      PROVE  KeyInv'
  BY <1>2, <1>5 DEF AcceptState, UseCachedKey
<1>6. ASSUME NEW r \in Request,
             RedirectToKeycloak(r) \/ RejectState(r) \/ FinishLogin(r) \/ RefuseLogin(r) \/ Abort(r)
      PROVE  KeyInv'
  BY <1>1, <1>6 DEF RedirectToKeycloak, RejectState, FinishLogin, RefuseLogin, Abort
<1>7. ASSUME NEW r \in Request, NEW g \in grants, ExchangeGrant(r, g)
      PROVE  KeyInv'
  BY <1>0, <1>7 DEF ExchangeGrant, MoveTo
<1>8. ASSUME NEW r \in Request, FetchKeys(r)
      PROVE  KeyInv'
  <2>1. token[r].key \in published \cup withdrawn
    BY <1>0, <1>8 DEF FetchKeys
  <2>2. /\ jwks'[r] = published
        /\ \A q \in Request \ {r} : phase'[q] = phase[q] /\ jwks'[q] = jwks[q]
        /\ UNCHANGED <<token, signing, published, withdrawn>>
    BY <1>0, <1>8 DEF FetchKeys, MoveTo
  <2> QED
    BY <2>1, <2>2
<1>9. ASSUME NEW r \in Request, StoreKeys(r)
      PROVE  KeyInv'
  BY <1>1, <1>2, <1>9 DEF StoreKeys
<1>10. CASE Restart
  BY <1>10 DEF Restart
<1>11. ASSUME NEW k \in Key, RotateKey(k) \/ WithdrawKey(k)
       PROVE  KeyInv'
  BY <1>11 DEF RotateKey, WithdrawKey
<1>12. CASE Tick \/ (\E s \in OidcState, a \in Account : SignIn(s, a)) \/ UNCHANGED oidcVars
  BY <1>12 DEF Tick, SignIn, oidcVars
<1> QED
  BY <1>3, <1>4, <1>5, <1>6, <1>7, <1>8, <1>9, <1>10, <1>11, <1>12 DEF OidcNext, VerifyToken

LEMMA OidcInvariant == OidcSpec => []OidcInv
<1>1. OidcInv /\ [OidcNext]_oidcVars => OidcInv'
  BY StepTypes, StepStates, StepTokens, StepLogins, StepKeys DEF OidcInv
<1> QED
  BY InitOidc, <1>1, PTL DEF OidcSpec

-----------------------------------------------------------------------------

\* The types of OidcLogin.
THEOREM OidcTypeCorrect == OidcSpec => []OidcTypeOK
<1>1. OidcInv => OidcTypeOK
  BY DEF OidcInv
<1> QED
  BY <1>1, OidcInvariant, PTL

\* However callbacks bring the states and grants of several logins, and whatever
\* repeats, fails or restarts: one login per state at most, of somebody who
\* signed in for that state.
THEOREM LoginsAreSignIns == OidcSpec => []LoginsMatch
<1>1. OidcInv => LoginsMatch
  BY DEF OidcInv
<1> QED
  BY <1>1, OidcInvariant, PTL

\* However threads overwrite each other's key cache, a key is missed only after
\* Keycloak has withdrawn it.
THEOREM KeysAreFound == OidcSpec => []KeyFound
<1>1. OidcInv => KeyFound
  BY DEF OidcInv, KeyInv
<1> QED
  BY <1>1, OidcInvariant, PTL

-----------------------------------------------------------------------------
(* States as tickets.  What OidcInv does not say of them: a state that a    *)
(* callback went on with is not live any more.                             *)

AcceptInv ==
  \A s \in OidcState : accepted[s] # <<>> => target[s] # NoTarget /\ ~StateLive(s)

TicketLeft == [s \in OidcState |-> IF StateTicket(s) = "live" THEN left[s] ELSE 0]

LEMMA TicketOf ==
  ASSUME OidcTypeOK, StateInv, AcceptInv, NEW s \in OidcState
  PROVE  /\ target[s] = NoTarget => StateTicket(s) = "unissued"
         /\ accepted[s] # <<>> => StateTicket(s) = "redeemed"
         /\ StateLive(s) => StateTicket(s) = "live"
         /\ target[s] # NoTarget /\ accepted[s] = <<>> /\ ~StateLive(s) => StateTicket(s) = "void"
<1>1. StateLive(s) => target[s] # NoTarget
  BY DEF StateLive, StateInv, AtWork
<1>2. accepted[s] # <<>> => target[s] # NoTarget /\ ~StateLive(s)
  BY DEF AcceptInv
<1> QED
  BY <1>1, <1>2 DEF StateTicket

LEMMA InitTickets == OidcInit => AcceptInv /\ Tickets!TicketInit
<1> SUFFICES ASSUME OidcInit PROVE AcceptInv /\ Tickets!TicketInit
  OBVIOUS
<1>1. \A s \in OidcState : StateTicket(s) = "unissued"
  BY DEF OidcInit, StateTicket
<1> QED
  BY <1>1 DEF OidcInit, AcceptInv, Tickets!TicketInit

\* The states in T, and no others, are live no more.
Lost(T) ==
  /\ \A s \in T : StateLive(s)
  /\ \A s \in OidcState : StateLive(s)' <=> StateLive(s) /\ s \notin T
  /\ UNCHANGED <<target, left, accepted>>

\* The steps of the login, as the states see them.
LEMMA StepKinds ==
  ASSUME OidcTypeOK, StateInv, [OidcNext]_oidcVars
  PROVE  \/ \E T \in SUBSET OidcState : Lost(T)
         \/ \E r \in Request, s \in OidcState, t \in Target : BeginLogin(r, s, t)
         \/ \E r \in Request : AcceptState(r)
         \/ Tick
<1> USE DEF threadVars, stateVars, keycloakVars
<1>0. /\ phase \in [Request -> OidcPhase]
      /\ held \in [Request -> OidcState \cup {NoState}]
  BY DEF OidcTypeOK
<1>1. ASSUME UNCHANGED <<stored, target, left, accepted>>,
             \A q \in Request :
               (phase'[q] = "callback" <=> phase[q] = "callback")
                 /\ (phase[q] = "callback" => held'[q] = held[q])
      PROVE  Lost({})
  BY <1>1 DEF Lost, StateLive
<1>2. ASSUME NEW r \in Request, Answer(r), phase[r] # "callback",
             UNCHANGED <<stored, target, left, accepted>>
      PROVE  Lost({})
  <2>1. \A q \in Request :
          (phase'[q] = "callback" <=> phase[q] = "callback")
            /\ (phase[q] = "callback" => held'[q] = held[q])
    BY <1>0, <1>2 DEF Answer, MoveTo
  <2> QED
    BY <1>1, <1>2, <2>1
<1>3. ASSUME NEW r \in Request, NEW p, p # "callback", MoveTo(r, p), phase[r] # "callback",
             UNCHANGED <<held, stored, target, left, accepted>>
      PROVE  Lost({})
  <2>1. \A q \in Request : phase'[q] = "callback" <=> phase[q] = "callback"
    BY <1>0, <1>3 DEF MoveTo
  <2> QED
    BY <1>1, <1>3, <2>1
<1>4. ASSUME NEW r \in Request, NEW s \in OidcState, PopState(r, s)
      PROVE  Lost({})
  <2>1. /\ phase[r] = "idle" /\ phase'[r] = "callback" /\ held'[r] = s
        /\ \A q \in Request \ {r} : phase'[q] = phase[q] /\ held'[q] = held[q]
    BY <1>0, <1>4 DEF PopState, MoveTo
  <2>2. s \in stored /\ stored' = stored \ {s} /\ UNCHANGED <<target, left, accepted>>
    BY <1>4 DEF PopState
  <2>3. \A x \in OidcState : StateLive(x)' <=> StateLive(x)
    BY <2>1, <2>2 DEF StateLive
  <2> QED
    BY <2>2, <2>3 DEF Lost
<1>5. ASSUME NEW r \in Request, RejectState(r)
      PROVE  Lost({held[r]})
  <2>1. AtWork(r) /\ phase[r] = "callback" /\ held[r] \notin stored
    BY <1>5 DEF RejectState, AtWork, StateInv
  <2>2. /\ phase'[r] # "callback"
        /\ \A q \in Request \ {r} : phase'[q] = phase[q] /\ held'[q] = held[q]
    BY <1>0, <1>5 DEF RejectState, Answer, MoveTo
  <2>3. \A q \in Request \ {r} : phase[q] = "callback" => held[q] # held[r]
    BY <2>1 DEF AtWork, StateInv
  <2>4. UNCHANGED <<stored, target, left, accepted>>
    BY <1>5 DEF RejectState
  <2> QED
    BY <2>1, <2>2, <2>3, <2>4 DEF Lost, StateLive
<1>6. ASSUME NEW r \in Request, phase[r] = "callback" PROVE held[r] \in OidcState
  BY <1>6 DEF OidcTypeOK
<1>7. ASSUME NEW r \in Request,
             RedirectToKeycloak(r) \/ FinishLogin(r) \/ RefuseLogin(r) \/ Abort(r)
      PROVE  Lost({})
  BY <1>2, <1>7 DEF RedirectToKeycloak, FinishLogin, RefuseLogin, Abort
<1>8. ASSUME NEW r \in Request,
             (\E g \in grants : ExchangeGrant(r, g)) \/ UseCachedKey(r) \/ FetchKeys(r)
      PROVE  Lost({})
  BY <1>3, <1>8 DEF ExchangeGrant, UseCachedKey, FetchKeys
<1>9. ASSUME NEW r \in Request, StoreKeys(r)
      PROVE  Lost({})
  BY <1>2, <1>3, <1>9 DEF StoreKeys
<1>10. CASE Restart
  <2>1. \A s \in OidcState : ~StateLive(s)'
    BY <1>10 DEF Restart, StateLive
  <2>2. Lost({s \in OidcState : StateLive(s)})
    BY <1>10, <2>1 DEF Restart, Lost
  <2> QED
    BY <2>2
<1>11. CASE \/ \E s \in OidcState, a \in Account : SignIn(s, a)
            \/ \E k \in Key : RotateKey(k) \/ WithdrawKey(k)
            \/ UNCHANGED oidcVars
  BY <1>1, <1>11 DEF SignIn, RotateKey, WithdrawKey, oidcVars
<1> QED
  BY <1>4, <1>5, <1>6, <1>7, <1>8, <1>9, <1>10, <1>11 DEF OidcNext, VerifyToken, RejectState

\* A callback goes on with the state it alone has taken.
LEMMA StateAccepted ==
  ASSUME OidcTypeOK, StateInv, AcceptInv, NEW r \in Request, AcceptState(r),
         NEW s \in OidcState, s = held[r]
  PROVE  /\ target[s] \in Target
         /\ StateLive(s) /\ ~StateLive(s)'
         /\ accepted'[s] = <<target[s]>>
         /\ \A x \in OidcState \ {s} :
              (StateLive(x)' <=> StateLive(x)) /\ accepted'[x] = accepted[x]
<1>1. AtWork(r) /\ phase[r] = "callback"
  BY DEF AcceptState, AtWork
<1>2. s \notin stored /\ target[s] \in Target
  BY <1>1 DEF StateInv, OidcTypeOK
<1>3. \A q \in Request \ {r} : phase[q] = "callback" => held[q] # s
  BY <1>1 DEF AtWork, StateInv
<1>4. /\ phase'[r] # "callback" /\ UNCHANGED <<held, stored>>
      /\ \A q \in Request \ {r} : phase'[q] = phase[q]
  BY DEF AcceptState, MoveTo, OidcTypeOK
<1>5. StateLive(s) /\ accepted[s] = <<>>
  BY <1>1 DEF AcceptInv, StateLive
<1>6. /\ accepted'[s] = <<target[s]>>
      /\ \A x \in OidcState \ {s} : accepted'[x] = accepted[x]
  BY <1>5 DEF AcceptState, OidcTypeOK
<1>7. ~StateLive(s)'
  BY <1>2, <1>3, <1>4 DEF StateLive
<1>8. \A x \in OidcState \ {s} : StateLive(x)' <=> StateLive(x)
  BY <1>4 DEF StateLive
<1> QED
  BY <1>2, <1>5, <1>6, <1>7, <1>8

LEMMA CallbackHolds ==
  ASSUME OidcTypeOK, NEW r \in Request, AcceptState(r)
  PROVE  held[r] \in OidcState
  BY DEF OidcTypeOK, AcceptState

LEMMA StateBegun ==
  ASSUME OidcTypeOK, NEW r \in Request, NEW s \in OidcState, NEW t \in Target, BeginLogin(r, s, t)
  PROVE  /\ StateLive(s)'
         /\ \A x \in OidcState \ {s} : StateLive(x)' <=> StateLive(x)
<1>1. /\ stored' = stored \cup {s} /\ phase[r] # "callback" /\ phase'[r] # "callback"
      /\ \A q \in Request \ {r} : phase'[q] = phase[q] /\ held'[q] = held[q]
  BY DEF BeginLogin, MoveTo, OidcTypeOK
<1> QED
  BY <1>1 DEF StateLive

LEMMA TimeKeepsStates == Tick => \A s \in OidcState : StateLive(s)' <=> StateLive(s)
  BY DEF Tick, StateLive, threadVars

LEMMA StepAccept ==
  ASSUME OidcTypeOK, StateInv, AcceptInv, [OidcNext]_oidcVars
  PROVE  AcceptInv'
<1>1. ASSUME NEW T \in SUBSET OidcState, Lost(T) PROVE AcceptInv'
  BY <1>1 DEF Lost, AcceptInv
<1>2. ASSUME NEW r \in Request, NEW s \in OidcState, NEW t \in Target, BeginLogin(r, s, t)
      PROVE  AcceptInv'
  <2>1. accepted[s] = <<>> /\ UNCHANGED accepted
    BY <1>2 DEF BeginLogin, AcceptInv
  <2>2. \A x \in OidcState \ {s} : target'[x] = target[x]
    BY <1>2 DEF BeginLogin, OidcTypeOK
  <2> QED
    BY <1>2, <2>1, <2>2, StateBegun DEF AcceptInv, StateLive
<1>3. ASSUME NEW r \in Request, AcceptState(r) PROVE AcceptInv'
  <2>1. UNCHANGED target
    BY <1>3 DEF AcceptState
  <2>2. PICK s \in OidcState : s = held[r]
    BY <1>3, CallbackHolds
  <2>3. /\ target[s] \in Target /\ ~StateLive(s)'
        /\ \A x \in OidcState \ {s} :
             (StateLive(x)' <=> StateLive(x)) /\ accepted'[x] = accepted[x]
    BY <1>3, <2>2, StateAccepted
  <2> QED
    BY <2>1, <2>3 DEF AcceptInv, StateLive
<1>4. CASE Tick
  BY <1>4, TimeKeepsStates DEF Tick, AcceptInv
<1> QED
  BY <1>1, <1>2, <1>3, <1>4, StepKinds

LEMMA StepTickets ==
  ASSUME OidcInv, AcceptInv, OidcInv', AcceptInv', [OidcNext]_oidcVars
  PROVE  Tickets!TicketNext
<1>0. OidcTypeOK /\ StateInv /\ OidcTypeOK' /\ StateInv'
  BY DEF OidcInv
<1>1. ASSUME NEW s \in OidcState,
             target'[s] = target[s], accepted'[s] = accepted[s], StateLive(s)' <=> StateLive(s)
      PROVE  StateTicket(s)' = StateTicket(s)
  BY <1>1 DEF StateTicket, StateLive
<1>2. ASSUME NEW T \in SUBSET OidcState, Lost(T) PROVE Tickets!GiveUp(T)
  <2>1. \A s \in T : StateTicket(s) = "live"
    BY <1>0, <1>2, TicketOf DEF Lost
  <2>2. \A s \in T : StateTicket(s)' = "void"
    <3>1. ASSUME NEW s \in T
          PROVE  target'[s] # NoTarget /\ accepted'[s] = <<>> /\ ~StateLive(s)'
      BY <1>0, <1>2 DEF Lost, StateInv, AcceptInv, StateLive, AtWork
    <3> QED
      BY <3>1 DEF StateTicket
  <2>3. \A s \in OidcState \ T : StateTicket(s)' = StateTicket(s)
    BY <1>1, <1>2 DEF Lost, StateLive, StateTicket
  <2> QED
    BY <1>2, <2>1, <2>2, <2>3 DEF Lost, Tickets!GiveUp
<1>3. ASSUME NEW r \in Request, NEW s \in OidcState, NEW t \in Target, BeginLogin(r, s, t)
      PROVE  Tickets!Issue(s, t)
  <2>1. StateTicket(s) = "unissued"
    BY <1>0, <1>3, TicketOf DEF BeginLogin
  <2>2. StateTicket(s)' = "live"
    <3>1. accepted'[s] = <<>> /\ target'[s] # NoTarget /\ StateLive(s)'
      BY <1>0, <1>3, StateBegun DEF BeginLogin, AcceptInv, OidcTypeOK, StateLive
    <3> QED
      BY <3>1 DEF StateTicket
  <2>3. \A x \in OidcState \ {s} : target'[x] = target[x] /\ left'[x] = left[x]
    BY <1>0, <1>3 DEF BeginLogin, OidcTypeOK
  <2>4. \A x \in OidcState \ {s} : StateTicket(x)' = StateTicket(x)
    <3>1. ASSUME NEW x \in OidcState \ {s}
          PROVE  /\ target'[x] = target[x] /\ accepted'[x] = accepted[x]
                 /\ StateLive(x)' <=> StateLive(x)
      <4>1. UNCHANGED accepted
        BY <1>3 DEF BeginLogin
      <4>2. StateLive(x)' <=> StateLive(x)
        BY <1>0, <1>3, StateBegun
      <4> QED
        BY <2>3, <4>1, <4>2
    <3> QED
      BY <3>1 DEF StateTicket, StateLive
  <2>5. left'[s] = StateTTL
    BY <1>0, <1>3 DEF BeginLogin, OidcTypeOK
  <2>6. UNCHANGED accepted /\ target' = [target EXCEPT ![s] = t]
    BY <1>3 DEF BeginLogin
  <2> QED
    BY <2>1, <2>2, <2>3, <2>4, <2>5, <2>6 DEF Tickets!Issue
<1>4. ASSUME NEW r \in Request, AcceptState(r), NEW s \in OidcState, s = held[r]
      PROVE  Tickets!Redeem(s)
  <2>1. StateTicket(s) = "live" /\ left[s] > 0
    BY <1>0, <1>4, StateAccepted, TicketOf DEF AcceptState
  <2>2. StateTicket(s)' = "redeemed"
    <3>1. target'[s] # NoTarget /\ accepted'[s] # <<>>
      <4>1. target[s] \in Target /\ accepted'[s] = <<target[s]>> /\ UNCHANGED target
        BY <1>0, <1>4, StateAccepted DEF AcceptState
      <4> QED
        BY <4>1
    <3>2. ~StateLive(s)'
      BY <1>0, <1>4, StateAccepted
    <3> QED
      BY <3>1, <3>2 DEF StateTicket
  <2>3. UNCHANGED <<target, left>> /\ accepted' = [accepted EXCEPT ![s] = Append(@, target[s])]
    BY <1>4 DEF AcceptState
  <2>4. \A x \in OidcState \ {s} : StateTicket(x)' = StateTicket(x)
    BY <1>0, <1>1, <1>4, <2>3, StateAccepted DEF StateLive, StateTicket
  <2> QED
    BY <2>1, <2>2, <2>3, <2>4 DEF Tickets!Redeem
<1>5. CASE Tick
  <2>1. UNCHANGED <<target, accepted>>
        /\ left' = [s \in OidcState |-> IF left[s] > 0 THEN left[s] - 1 ELSE 0]
    BY <1>5 DEF Tick
  <2>2. \A s \in OidcState : StateTicket(s)' = StateTicket(s)
    BY <1>1, <1>5, <2>1, TimeKeepsStates DEF StateLive, StateTicket
  <2>3. \A s \in OidcState :
          (IF StateTicket(s) = "live" THEN left[s] ELSE 0)'
            = IF TicketLeft[s] > 0 THEN TicketLeft[s] - 1 ELSE 0
    BY <1>0, <2>1, <2>2 DEF TicketLeft, OidcTypeOK
  <2>4. TicketLeft' = [s \in OidcState |-> IF TicketLeft[s] > 0 THEN TicketLeft[s] - 1 ELSE 0]
    BY <2>3 DEF TicketLeft
  <2>5. Tickets!PassTime
    BY <2>1, <2>2, <2>4 DEF Tickets!PassTime, TicketLeft
  <2> QED
    BY <2>5 DEF Tickets!TicketNext
<1>6. ASSUME NEW r \in Request, AcceptState(r) PROVE Tickets!TicketNext
  <2>1. PICK s \in OidcState : s = held[r]
    BY <1>0, <1>6, CallbackHolds
  <2>2. Tickets!Redeem(s)
    BY <1>4, <1>6, <2>1
  <2> QED
    BY <2>2 DEF Tickets!TicketNext
<1> QED
  BY <1>0, <1>2, <1>3, <1>5, <1>6, StepKinds DEF Tickets!TicketNext

\* OIDC states implement one-time tickets: however callbacks that bring one
\* state race with each other, with failures, restarts and the clock, at most one
\* goes on, in time, for the target the login began with (server.py:119-154).
THEOREM StatesImplementTickets == OidcSpec => StatesAreTickets
<1>1. OidcInv /\ AcceptInv /\ [OidcNext]_oidcVars => AcceptInv'
  BY StepAccept DEF OidcInv
<1>2. OidcInv /\ AcceptInv /\ OidcInv' /\ AcceptInv' /\ [OidcNext]_oidcVars
        => [Tickets!TicketNext]_Tickets!ticketVars
  BY StepTickets
<1> QED
  BY <1>1, <1>2, InitTickets, OidcInvariant, PTL
     DEF OidcSpec, StatesAreTickets, Tickets!TicketSpec

=============================================================================
