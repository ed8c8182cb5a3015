------------------------ MODULE AdminSessionsProofs -------------------------
(***************************************************************************)
(* Proofs about AdminSessions, for any number of requests and sessions and *)
(* any lifetime: its types, that nobody administers unrecorded, and that   *)
(* it implements SessionLease.                                             *)
(***************************************************************************)
EXTENDS AdminSessions, TLAPS

USE AdminAssumption DEF AdminAssumption

-----------------------------------------------------------------------------
(* The inductive invariant: which session the thread of a request is at    *)
(* work with in each phase, and when its login was recorded.               *)

ThreadInv(r) ==
  /\ phase[r] \in {"idle", "revoked"} => cookie[r] = NoToken
  /\ phase[r] \in {"issued", "recorded", "admitted"} => cookie[r] \in drawn
  /\ phase[r] \in {"recorded", "admitted"} => cookie[r] \in audited

AdminInv ==
  /\ AdminTypeOK
  /\ browsers \subseteq audited
  /\ \A r \in Request : ThreadInv(r)

LEMMA InitInv == AdminInit => AdminInv
<1> SUFFICES ASSUME AdminInit PROVE AdminInv
  OBVIOUS
<1>1. left \in [Token -> 0 .. SessionTTL]
  BY DEF AdminInit
<1>2. AdminTypeOK
  BY <1>1 DEF AdminInit, AdminTypeOK, Phase
<1>. QED
  BY <1>2 DEF AdminInit, AdminInv, ThreadInv

LEMMA StepInv ==
  ASSUME AdminInv, [AdminNext]_adminVars
  PROVE  AdminInv'
<1> USE DEF AdminInv, AdminTypeOK, ThreadInv, Phase
<1>1. ASSUME NEW r \in Request, NEW t \in Token, IssueSession(r, t)
      PROVE  AdminInv'
  BY <1>1 DEF IssueSession, MoveTo
<1>2. ASSUME NEW r \in Request, NEW t \in Token, Admit(r, t)
      PROVE  AdminInv'
  BY <1>2 DEF Admit, MoveTo
<1>3. ASSUME NEW r \in Request, NEW t \in Token, Revoke(r, t)
      PROVE  AdminInv'
  BY <1>3 DEF Revoke, MoveTo
<1>4. ASSUME NEW r \in Request, RecordLogin(r)
      PROVE  AdminInv'
  BY <1>4 DEF RecordLogin, MoveTo
<1>5. ASSUME NEW r \in Request, SendCookie(r)
      PROVE  AdminInv'
  BY <1>5 DEF SendCookie, Answer, MoveTo
<1>6. ASSUME NEW r \in Request, Act(r) \/ RecordLogout(r) \/ Abort(r)
      PROVE  AdminInv'
  BY <1>6 DEF Act, RecordLogout, Abort, Answer, MoveTo
<1>7. ASSUME NEW t \in Token, DropExpired(t)
      PROVE  AdminInv'
  BY <1>7 DEF DropExpired
<1>8. CASE Crash
  BY <1>8 DEF Crash
<1>9. CASE Start
  BY <1>9 DEF Start
<1>10. CASE Tick
  BY <1>10 DEF Tick
<1>11. CASE UNCHANGED adminVars
  BY <1>11 DEF adminVars
<1>. QED
  BY <1>1, <1>2, <1>3, <1>4, <1>5, <1>6, <1>7, <1>8, <1>9, <1>10, <1>11 DEF AdminNext

LEMMA InvHolds == AdminSpec => []AdminInv
  BY InitInv, StepInv, PTL DEF AdminSpec

\* The types of AdminSessions.
THEOREM AdminTypeCorrect == AdminSpec => []AdminTypeOK
<1>1. AdminInv => AdminTypeOK
  BY DEF AdminInv
<1>. QED
  BY <1>1, InvHolds, PTL

\* However requests interleave, fail and crash, a browser has the cookie of a
\* session, and a request works with one, only after its login was recorded.
THEOREM NobodyUnrecorded == AdminSpec => []NoUnrecordedAdmin
<1>1. AdminInv => NoUnrecordedAdmin
  BY DEF AdminInv, ThreadInv, NoUnrecordedAdmin
<1>. QED
  BY <1>1, InvHolds, PTL

-----------------------------------------------------------------------------
(* The refinement.  The state of the abstract store, named once.           *)

Standing == [t \in Token |-> IF t \in stored THEN "open"
                             ELSE IF t \in drawn THEN "closed" ELSE "unopened"]

Left == [t \in Token |-> IF t \in stored THEN left[t] ELSE 0]

Holders == [t \in Token |-> {r \in Request : cookie[r] = t}]

LEMMA InitRefines == AdminInit => Lease!LeaseInit
  BY DEF AdminInit, Lease!LeaseInit

LEMMA CloseSome ==
  ASSUME NEW T \in SUBSET Token, NEW C \in SUBSET Request,
         AdminInv,
         \A t \in T : t \in stored,
         stored' = stored \ T, drawn' = drawn, left' = left,
         \A r \in Request : cookie'[r] = IF r \in C THEN NoToken ELSE cookie[r]
  PROVE  Lease!Close(T, C)
<1> USE DEF AdminInv, AdminTypeOK
<1>1. \A t \in T : Standing[t] = "open"
  BY DEF Standing
<1>2. Standing' = [t \in Token |-> IF t \in T THEN "closed" ELSE Standing[t]]
  BY DEF Standing
<1>3. Left' = [t \in Token |-> IF t \in T THEN 0 ELSE Left[t]]
  BY DEF Left
<1>4. Holders' = [t \in Token |-> Holders[t] \ C]
  BY DEF Holders
<1>. QED
  BY <1>1, <1>2, <1>3, <1>4 DEF Lease!Close, Standing, Left, Holders

LEMMA StepRefines ==
  ASSUME AdminInv, [AdminNext]_adminVars
  PROVE  [Lease!LeaseNext]_Lease!leaseVars
<1> USE DEF AdminInv, AdminTypeOK, ThreadInv
<1>1. ASSUME NEW r \in Request, NEW t \in Token, IssueSession(r, t)
      PROVE  Lease!LeaseNext
  <2>1. Standing[t] = "unopened" /\ Standing' = [Standing EXCEPT ![t] = "open"]
    BY <1>1 DEF IssueSession, Standing
  <2>2. Left' = [Left EXCEPT ![t] = SessionTTL]
    BY <1>1 DEF IssueSession, Left
  <2>3. \A s \in Token, q \in Request : cookie'[q] = s <=> (q = r /\ s = t) \/ (q # r /\ cookie[q] = s)
    BY <1>1 DEF IssueSession
  <2>4. ASSUME NEW q \in Request PROVE cookie[q] # t
    <3>1. phase[q] \in Phase /\ ThreadInv(q)
      OBVIOUS
    <3>2. cookie[q] \in drawn \/ cookie[q] = NoToken
      BY <3>1 DEF Phase
    <3>. QED
      BY <3>2, <1>1 DEF IssueSession
  <2>5. Holders' = [Holders EXCEPT ![t] = {r}]
    <3>0. cookie[r] = NoToken
      BY <1>1 DEF IssueSession
    <3>1. ASSUME NEW s \in Token
          PROVE  {q \in Request : cookie'[q] = s}
                   = IF s = t THEN {r} ELSE {q \in Request : cookie[q] = s}
      <4>1. CASE s = t
        BY <2>3, <2>4, <4>1
      <4>2. CASE s # t
        BY <2>3, <3>0, <4>2
      <4>. QED
        BY <4>1, <4>2
    <3>. QED
      BY <3>1 DEF Holders
  <2>. QED
    BY <2>1, <2>2, <2>5 DEF Lease!LeaseNext, Lease!Open, Standing, Left, Holders
<1>2. ASSUME NEW r \in Request, NEW t \in Token, Admit(r, t)
      PROVE  Lease!LeaseNext
  <2>1. Standing[t] = "open" /\ Left[t] > 0 /\ UNCHANGED <<Standing, Left>>
    BY <1>2 DEF Admit, Valid, Standing, Left
  <2>2. cookie[r] = NoToken
    BY <1>2 DEF Admit
  <2>3. Holders' = [Holders EXCEPT ![t] = @ \cup {r}]
    <3>1. \A s \in Token : {q \in Request : cookie'[q] = s}
            = IF s = t THEN {q \in Request : cookie[q] = s} \cup {r}
                       ELSE {q \in Request : cookie[q] = s}
      BY <1>2, <2>2 DEF Admit
    <3>2. Holders' = [s \in Token |-> IF s = t THEN Holders[s] \cup {r} ELSE Holders[s]]
      BY <3>1 DEF Holders
    <3>. QED
      BY <3>2 DEF Holders
  <2>. QED
    BY <2>1, <2>3 DEF Lease!LeaseNext, Lease!TakeUp, Standing, Left, Holders
<1>3. ASSUME NEW r \in Request, NEW t \in Token, Revoke(r, t)
      PROVE  Lease!LeaseNext
  <2>1. PICK T \in SUBSET Token : T = {t} \cap stored
    OBVIOUS
  <2>2. stored' = stored \ T /\ UNCHANGED <<drawn, left, cookie>>
    BY <1>3, <2>1 DEF Revoke
  <2>3. Lease!Close(T, {})
    BY <2>1, <2>2, CloseSome
  <2>. QED
    BY <2>3 DEF Lease!LeaseNext
<1>4. ASSUME NEW r \in Request, RecordLogin(r)
      PROVE  UNCHANGED Lease!leaseVars
  BY <1>4 DEF RecordLogin, Lease!leaseVars
<1>5. ASSUME NEW r \in Request, SendCookie(r) \/ Act(r) \/ RecordLogout(r) \/ Abort(r)
      PROVE  Lease!LeaseNext
  <2>1. \A q \in Request : cookie'[q] = IF q \in {r} THEN NoToken ELSE cookie[q]
    BY <1>5 DEF SendCookie, Act, RecordLogout, Abort, Answer
  <2>2. stored' = stored \ {} /\ drawn' = drawn /\ left' = left
    BY <1>5 DEF SendCookie, Act, RecordLogout, Abort
  <2>3. Lease!Close({}, {r})
    BY <2>1, <2>2, CloseSome
  <2>. QED
    BY <2>3 DEF Lease!LeaseNext
<1>6. ASSUME NEW t \in Token, DropExpired(t)
      PROVE  Lease!LeaseNext
  <2>1. t \in stored /\ stored' = stored \ {t} /\ UNCHANGED <<drawn, left, cookie>>
    BY <1>6 DEF DropExpired
  <2>2. Lease!Close({t}, {})
    BY <2>1, CloseSome
  <2>. QED
    BY <2>2 DEF Lease!LeaseNext
<1>7. ASSUME Crash
      PROVE  Lease!LeaseNext
  <2>1. PICK T \in SUBSET Token : T = stored
    OBVIOUS
  <2>2. stored' = stored \ T /\ drawn' = drawn /\ left' = left
    BY <1>7, <2>1 DEF Crash
  <2>3. \A q \in Request : cookie'[q] = IF q \in Request THEN NoToken ELSE cookie[q]
    BY <1>7 DEF Crash
  <2>4. \A t \in T : t \in stored
    BY <2>1
  <2>5. Lease!Close(T, Request)
    BY <2>2, <2>3, <2>4, CloseSome
  <2>. QED
    BY <2>5 DEF Lease!LeaseNext
<1>8. ASSUME Start \/ UNCHANGED adminVars
      PROVE  UNCHANGED Lease!leaseVars
  BY <1>8 DEF Start, adminVars, Lease!leaseVars
<1>9. ASSUME Tick
      PROVE  Lease!LeaseNext
  <2>1. Left' = [t \in Token |-> IF Left[t] > 0 THEN Left[t] - 1 ELSE 0]
    BY <1>9 DEF Tick, Left
  <2>2. UNCHANGED <<Standing, Holders>>
    BY <1>9 DEF Tick, Standing, Holders
  <2>. QED
    BY <2>1, <2>2 DEF Lease!LeaseNext, Lease!PassTime, Standing, Left, Holders
<1>. QED
  BY <1>1, <1>2, <1>3, <1>4, <1>5, <1>6, <1>7, <1>8, <1>9 DEF AdminNext

\* Admin sessions implement SessionLease: once ended, by logout, expiry or with
\* the process, a session is taken up by no further request.
THEOREM AdminSessionsLease == AdminSpec => AdminSessionsAreLeases
  BY InitRefines, StepRefines, InvHolds, PTL
     DEF AdminSpec, AdminSessionsAreLeases, Lease!LeaseSpec

=============================================================================
