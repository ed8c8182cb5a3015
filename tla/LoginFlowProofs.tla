-------------------------- MODULE LoginFlowProofs ---------------------------
(***************************************************************************)
(* Proofs about LoginFlow, and about LoginWitness, which adds a history    *)
(* variable to it, for every value of the constants; and that the login    *)
(* flow implements its three abstract specifications: codes are            *)
(* OneTimeTickets, sessions are SessionLeases, and the whole login is a    *)
(* LoginLimiter.                                                           *)
(***************************************************************************)
EXTENDS LoginWitness, FiniteSetTheorems, TLAPS

USE SeedAssumption, FlowAssumption

-----------------------------------------------------------------------------
(* The inductive invariant behind the types: what the thread of a request   *)
(* holds in each phase, and where a code may be.                            *)

HasAsk(r) ==
  phase[r] \in LimitedPhase \cup {"limit"} => ask[r] \in Ask /\ failAge[r] = OutOfWindow

HasRow(r) ==
  phase[r] \in {"credential", "verify", "session", "code"} => local[r].row \in Identity

HasTarget(r) ==
  phase[r] \in LimitedPhase \cup {"limit", "session", "code"} => local[r].target \in Target

HasCookie(r) == phase[r] = "code" => local[r].cookie \in Session

HoldsCode(r) == phase[r] = "redeem" <=> local[r].held # NoCode

ThreadInv(r) == HasAsk(r) /\ HasRow(r) /\ HasTarget(r) /\ HasCookie(r) /\ HoldsCode(r)

RequestInv == \A r \in Request : ThreadInv(r)

\* Only a typed login can have failed.
FailureInv == \A r \in Request : ask[r] = NoAsk => failAge[r] = OutOfWindow

Held(c) == \E r \in Request : local[r].held = c

\* A code that is stored or held by a thread was issued and not yet answered,
\* and it is in one place.
CodeInv ==
  /\ \A c \in stored : payload[c] # NoPayload /\ tokens[c] = <<>>
  /\ \A c \in Code : Held(c) => payload[c] # NoPayload /\ tokens[c] = <<>> /\ c \notin stored
  /\ \A c \in Code : payload[c] = NoPayload => tokens[c] = <<>>
  /\ \A r, q \in Request : local[r].held = local[q].held /\ r # q => local[r].held = NoCode

FlowInv == FlowTypeOK /\ RequestInv /\ FailureInv /\ CodeInv

-----------------------------------------------------------------------------

LEMMA DirectoryStepTypes ==
  ASSUME DirectoryTypeOK, DirectoryNext \/ Seed
  PROVE  DirectoryTypeOK'
<1> USE DEF DirectoryTypeOK, Status, Upsert, SetFlag
<1>1. ASSUME NEW t \in Tenant, CreateTenant(t) \/ DisableTenant(t) \/ EnableTenant(t)
      PROVE  DirectoryTypeOK'
  BY <1>1 DEF CreateTenant, DisableTenant, EnableTenant
<1>2. ASSUME NEW u \in User, NEW p \in Password \cup {NoPassword}, CreateUser(u, p)
      PROVE  DirectoryTypeOK'
  BY <1>2 DEF CreateUser
<1>3. ASSUME NEW u \in User, DisableUser(u) \/ EnableUser(u)
      PROVE  DirectoryTypeOK'
  BY <1>3 DEF DisableUser, EnableUser
<1>4. ASSUME NEW u \in User, NEW p \in Password, SetPassword(u, p)
      PROVE  DirectoryTypeOK'
  BY <1>4 DEF SetPassword
<1>5. ASSUME NEW u \in User, NEW t \in Tenant, AddMembership(u, t) \/ RemoveMembership(u, t)
      PROVE  DirectoryTypeOK'
  BY <1>5 DEF AddMembership, RemoveMembership, Identity
<1>6. CASE Seed
  BY <1>6 DEF Seed, SeedUsers, Identity
<1> QED
  BY <1>1, <1>2, <1>3, <1>4, <1>5, <1>6 DEF DirectoryNext

\* The fields of a thread's locals change one at a time, or all to their start.
LEMMA LocalTypes ==
  \A x \in Local :
    /\ \A id \in Identity : [x EXCEPT !.row = id] \in Local
    /\ \A h \in Password \cup {NoPassword} : [x EXCEPT !.hash = h] \in Local
    /\ \A s \in Session : [x EXCEPT !.cookie = s] \in Local
    /\ \A c \in Code : [x EXCEPT !.held = c] \in Local
    /\ \A t \in Target \cup {NoTarget} : [x EXCEPT !.target = t] \in Local
  BY DEF Local

LEMMA NoLocalsType == NoLocals \in Local
  BY DEF Local, NoLocals

LEMMA InitFlowInv == FlowInit => FlowInv
<1> SUFFICES ASSUME FlowInit PROVE FlowInv
  OBVIOUS
<1> USE DEF FlowInit
<1>1. DirectoryTypeOK /\ up \in BOOLEAN
  BY DEF DirectoryTypeOK, DirectoryInit, Status
<1>2. RequestTypes
  BY NoLocalsType DEF RequestTypes, Phase
<1>3. AuditTypes
  BY DEF AuditTypes, OutOfWindow
<1>4. SessionTypes
  BY DEF SessionTypes
<1>5. CodeTypes
  BY DEF CodeTypes
<1>6. RequestInv
  BY DEF RequestInv, ThreadInv, HasAsk, HasRow, HasTarget, HasCookie, HoldsCode, LimitedPhase, NoLocals
<1>7. FailureInv
  BY DEF FailureInv
<1>8. CodeInv
  BY DEF CodeInv, Held, NoLocals
<1> QED
  BY <1>1, <1>2, <1>3, <1>4, <1>5, <1>6, <1>7, <1>8 DEF FlowInv, FlowTypeOK

\* What a step leaves alone keeps its type.
LEMMA TypeFrame ==
  ASSUME FlowTypeOK
  PROVE  /\ UNCHANGED directoryVars => DirectoryTypeOK'
         /\ UNCHANGED up => (up \in BOOLEAN)'
         /\ UNCHANGED requestVars => RequestTypes'
         /\ UNCHANGED auditVars => AuditTypes'
         /\ UNCHANGED sessionVars => SessionTypes'
         /\ UNCHANGED codeVars => CodeTypes'
BY DEF FlowTypeOK, directoryVars, requestVars, auditVars, sessionVars, codeVars,
       DirectoryTypeOK, RequestTypes, AuditTypes, SessionTypes, CodeTypes

\* A thread that moves, and one that has answered.
LEMMA MoveTypes ==
  ASSUME RequestTypes, NEW r \in Request
  PROVE  /\ \A p \in Phase : MoveTo(r, p) /\ local' \in [Request -> Local] => RequestTypes'
         /\ Answer(r) => RequestTypes'
<1>1. ASSUME NEW p \in Phase, MoveTo(r, p), local' \in [Request -> Local]
      PROVE  RequestTypes'
  BY <1>1 DEF MoveTo, RequestTypes
<1>2. ASSUME Answer(r)
      PROVE  RequestTypes'
  <2>1. local' \in [Request -> Local]
    BY <1>2, NoLocalsType DEF Answer, RequestTypes
  <2>2. "idle" \in Phase
    BY DEF Phase
  <2> QED
    BY <1>1, <1>2, <2>1, <2>2 DEF Answer
<1> QED
  BY <1>1, <1>2

-----------------------------------------------------------------------------
(* One lemma per conjunct of FlowInv; each has one step per action.         *)

LEMMA StepTypes ==
  ASSUME FlowInv, [FlowNext]_vars
  PROVE  FlowTypeOK'
<1> USE DEF FlowInv
<1>0. /\ RequestTypes /\ AuditTypes /\ SessionTypes /\ CodeTypes /\ DirectoryTypeOK
      /\ local \in [Request -> Local]
      /\ Phase = {"idle", "limit", "session", "code", "redeem",
                  "lookup", "credential", "verify", "failing"}
  BY DEF FlowTypeOK, RequestTypes, Phase, LimitedPhase
<1>1. ASSUME NEW r \in Request, NEW login \in Login, NEW p \in Password, NEW t \in Target,
             SubmitLogin(r, login, p, t)
      PROVE  FlowTypeOK'
  <2>1. local' \in [Request -> Local]
    BY <1>0, <1>1, LocalTypes DEF SubmitLogin
  <2>2. RequestTypes'
    BY <1>0, <1>1, <2>1, MoveTypes DEF SubmitLogin
  <2>3. AuditTypes'
    BY <1>0, <1>1 DEF SubmitLogin, AuditTypes, Ask
  <2> QED
    BY <1>1, <2>2, <2>3, TypeFrame DEF SubmitLogin, FlowTypeOK
<1>2. ASSUME NEW r \in Request, RefuseLimited(r)
      PROVE  FlowTypeOK'
  <2>1. RequestTypes'
    BY <1>0, <1>2, MoveTypes DEF RefuseLimited
  <2>2. AuditTypes'
    BY <1>0, <1>2 DEF RefuseLimited, AuditTypes
  <2> QED
    BY <1>2, <2>1, <2>2, TypeFrame DEF RefuseLimited, FlowTypeOK
<1>3. ASSUME NEW r \in Request, PassLimit(r)
      PROVE  FlowTypeOK'
  <2>1. RequestTypes'
    BY <1>0, <1>3, MoveTypes DEF PassLimit
  <2> QED
    BY <1>3, <2>1, TypeFrame DEF PassLimit, FlowTypeOK
<1>4. ASSUME NEW r \in Request, LookupIdentity(r)
      PROVE  FlowTypeOK'
  <2>1. IdentityOf[ask[r].login] \in Identity
    BY <1>4 DEF LookupIdentity, RequestInv, ThreadInv, HasAsk, Ask, Identity, LimitedPhase
  <2>2. CASE local' = [local EXCEPT ![r].row = IdentityOf[ask[r].login]] /\ MoveTo(r, "credential")
    <3>1. local' \in [Request -> Local]
      BY <1>0, <2>1, <2>2, LocalTypes
    <3>2. RequestTypes'
      BY <1>0, <2>2, <3>1, MoveTypes
    <3> QED
      BY <1>4, <3>2, TypeFrame DEF LookupIdentity, FlowTypeOK
  <2>3. CASE UNCHANGED local /\ MoveTo(r, "failing")
    <3>1. RequestTypes'
      BY <1>0, <2>3, MoveTypes
    <3> QED
      BY <1>4, <3>1, TypeFrame DEF LookupIdentity, FlowTypeOK
  <2> QED
    BY <1>4, <2>2, <2>3 DEF LookupIdentity
<1>5. ASSUME NEW r \in Request, ReadCredential(r)
      PROVE  FlowTypeOK'
  <2>1. local[r].row[1] \in User
    BY <1>5 DEF ReadCredential, RequestInv, ThreadInv, HasRow, Identity
  <2>2. credentials[local[r].row[1]] \in Password \cup {NoPassword}
    BY <1>0, <2>1 DEF DirectoryTypeOK
  <2>3. local' \in [Request -> Local]
    BY <1>0, <1>5, <2>2, LocalTypes DEF ReadCredential
  <2>4. \E p \in Phase : MoveTo(r, p)
    BY <1>0, <1>5 DEF ReadCredential
  <2>5. RequestTypes'
    BY <1>0, <2>3, <2>4, MoveTypes
  <2> QED
    BY <1>5, <2>5, TypeFrame DEF ReadCredential, FlowTypeOK
<1>6. ASSUME NEW r \in Request, RecordFailure(r)
      PROVE  FlowTypeOK'
  <2>1. RequestTypes'
    BY <1>0, <1>6, MoveTypes DEF RecordFailure
  <2>2. AuditTypes'
    BY <1>0, <1>6 DEF RecordFailure, AuditTypes, OutOfWindow
  <2> QED
    BY <1>6, <2>1, <2>2, TypeFrame DEF RecordFailure, FlowTypeOK
<1>7. ASSUME NEW r \in Request, RecordSuccess(r)
      PROVE  FlowTypeOK'
  <2>1. RequestTypes'
    BY <1>0, <1>7, MoveTypes DEF RecordSuccess
  <2>2. local[r].row \in Identity
    BY <1>7 DEF RecordSuccess, RequestInv, ThreadInv, HasRow
  <2>3. AuditTypes'
    BY <1>0, <1>7, <2>2 DEF RecordSuccess, AuditTypes
  <2> QED
    BY <1>7, <2>1, <2>3, TypeFrame DEF RecordSuccess, FlowTypeOK
<1>8. ASSUME NEW r \in Request, NEW s \in Session, CreateSession(r, s)
      PROVE  FlowTypeOK'
  <2>1. local' \in [Request -> Local]
    BY <1>0, <1>8, LocalTypes DEF CreateSession
  <2>2. RequestTypes'
    BY <1>0, <1>8, <2>1, MoveTypes DEF CreateSession
  <2>3. local[r].row \in Identity
    BY <1>8 DEF CreateSession, RequestInv, ThreadInv, HasRow
  <2>4. SessionTypes'
    BY <1>0, <1>8, <2>3 DEF CreateSession, SessionTypes
  <2> QED
    BY <1>8, <2>2, <2>4, TypeFrame DEF CreateSession, FlowTypeOK
<1>9. ASSUME NEW r \in Request, NEW c \in Code, IssueCode(r, c)
      PROVE  FlowTypeOK'
  <2>1. RequestTypes'
    BY <1>0, <1>9, MoveTypes DEF IssueCode
  <2>2. local[r].cookie \in Session
    BY <1>9 DEF IssueCode, RequestInv, ThreadInv, HasCookie
  <2>3. SessionTypes'
    BY <1>0, <1>9, <2>2 DEF IssueCode, SessionTypes
  <2>4. [identity |-> local[r].row, target |-> local[r].target] \in Payload
    BY <1>9 DEF IssueCode, RequestInv, ThreadInv, HasRow, HasTarget, Payload
  <2>5. CodeTypes'
    BY <1>0, <1>9, <2>4 DEF IssueCode, CodeTypes
  <2> QED
    BY <1>9, <2>1, <2>3, <2>5, TypeFrame DEF IssueCode, FlowTypeOK
<1>10. ASSUME NEW r \in Request, NEW s \in Session, NEW t \in Target, ContinueSession(r, s, t)
       PROVE  FlowTypeOK'
  <2>1. sessionOwner[s] \in Identity
    BY <1>0, <1>10 DEF ContinueSession, SessionValid, SessionTypes
  <2>2. [local[r] EXCEPT !.row = sessionOwner[s], !.cookie = s, !.target = t] \in Local
    BY <1>0, <2>1, LocalTypes
  <2>3. local' = [local EXCEPT ![r] = [local[r] EXCEPT !.row = sessionOwner[s], !.cookie = s, !.target = t]]
    BY <1>0, <1>10 DEF ContinueSession
  <2>4. local' \in [Request -> Local]
    BY <1>0, <2>2, <2>3
  <2>5. RequestTypes'
    BY <1>0, <1>10, <2>4, MoveTypes DEF ContinueSession
  <2> QED
    BY <1>10, <2>5, TypeFrame DEF ContinueSession, FlowTypeOK
<1>11. ASSUME NEW r \in Request, NEW c \in Code, NEW t \in Target \cup {NoTarget}, PopCode(r, c, t)
       PROVE  FlowTypeOK'
  <2>1. [local[r] EXCEPT !.held = c, !.target = t] \in Local
    BY <1>0, LocalTypes
  <2>2. local' = [local EXCEPT ![r] = [local[r] EXCEPT !.held = c, !.target = t]]
    BY <1>0, <1>11 DEF PopCode
  <2>3. local' \in [Request -> Local]
    BY <1>0, <2>1, <2>2
  <2>4. RequestTypes'
    BY <1>0, <1>11, <2>3, MoveTypes DEF PopCode
  <2>5. CodeTypes'
    BY <1>0, <1>11 DEF PopCode, CodeTypes
  <2> QED
    BY <1>11, <2>4, <2>5, TypeFrame DEF PopCode, FlowTypeOK
<1>12. ASSUME NEW r \in Request, phase[r] = "redeem"
       PROVE  local[r].held \in Code /\ payload[local[r].held] \in Payload
  <2>1. local[r].held \in Code
    BY <1>0, <1>12 DEF RequestInv, ThreadInv, HoldsCode, Local
  <2>2. payload[local[r].held] # NoPayload
    BY <2>1 DEF CodeInv, Held
  <2> QED
    BY <1>0, <2>1, <2>2 DEF CodeTypes
<1>13. ASSUME NEW r \in Request, GrantToken(r)
       PROVE  FlowTypeOK'
  <2>1. RequestTypes'
    BY <1>0, <1>13, MoveTypes DEF GrantToken
  <2>2. local[r].held \in Code /\ payload[local[r].held] \in Payload
    BY <1>12, <1>13 DEF GrantToken
  <2>3. tokens' \in [Code -> Seq(Payload)]
    BY <1>0, <1>13, <2>2 DEF GrantToken, CodeTypes
  <2>4. CodeTypes'
    BY <1>0, <1>13, <2>3 DEF GrantToken, CodeTypes
  <2> QED
    BY <1>13, <2>1, <2>4, TypeFrame DEF GrantToken, FlowTypeOK
<1>14. ASSUME NEW r \in Request, RejectCode(r)
       PROVE  FlowTypeOK'
  <2>1. RequestTypes'
    BY <1>0, <1>14, MoveTypes DEF RejectCode
  <2>2. CodeTypes'
    BY <1>0, <1>14 DEF RejectCode, CodeTypes, codeVars
  <2> QED
    BY <1>14, <2>1, <2>2, TypeFrame DEF RejectCode, FlowTypeOK
<1>15. ASSUME NEW R \in SUBSET Request, EndRequests(R)
       PROVE  RequestTypes' /\ ask' \in [Request -> Ask \cup {NoAsk}]
  <2>1. local' \in [Request -> Local]
    BY <1>0, <1>15, NoLocalsType DEF EndRequests
  <2>2. phase' \in [Request -> Phase]
    BY <1>0, <1>15 DEF EndRequests, RequestTypes
  <2> QED
    BY <1>0, <1>15, <2>1, <2>2 DEF EndRequests, RequestTypes, AuditTypes
<1>16. ASSUME NEW r \in Request, Abort(r)
       PROVE  FlowTypeOK'
  <2>1. RequestTypes' /\ AuditTypes'
    BY <1>0, <1>15, <1>16 DEF Abort, AuditTypes
  <2>2. CodeTypes'
    BY <1>0, <1>16 DEF Abort, CodeTypes, codeVars
  <2> QED
    BY <1>16, <2>1, <2>2, TypeFrame DEF Abort, FlowTypeOK
<1>17. ASSUME NEW s \in Session, Logout(s)
       PROVE  FlowTypeOK'
  <2>1. SessionTypes'
    BY <1>0, <1>17 DEF Logout, SessionTypes
  <2> QED
    BY <1>17, <2>1, TypeFrame DEF Logout, FlowTypeOK
<1>18. CASE Crash
  <2>1. RequestTypes' /\ AuditTypes'
    BY <1>0, <1>15, <1>18 DEF Crash, AuditTypes
  <2>2. CodeTypes'
    BY <1>0, <1>18 DEF Crash, CodeTypes
  <2> QED
    BY <1>18, <2>1, <2>2, TypeFrame DEF Crash, FlowTypeOK
<1>19. CASE Start
  BY <1>0, <1>19, DirectoryStepTypes, TypeFrame DEF Start, FlowTypeOK
<1>20. CASE Administer
  BY <1>0, <1>20, DirectoryStepTypes, TypeFrame DEF Administer, flowVars, FlowTypeOK
<1>21. CASE Tick
  <2>1. AuditTypes'
    BY <1>0, <1>21 DEF Tick, AuditTypes, OutOfWindow
  <2>2. SessionTypes'
    BY <1>0, <1>21 DEF Tick, SessionTypes, Countdown
  <2>3. CodeTypes'
    BY <1>0, <1>21 DEF Tick, CodeTypes, Countdown
  <2> QED
    BY <1>21, <2>1, <2>2, <2>3, TypeFrame DEF Tick, FlowTypeOK
<1>22. CASE UNCHANGED vars
  BY <1>22, TypeFrame DEF vars, flowVars, FlowTypeOK
<1> QED
  BY <1>1, <1>2, <1>3, <1>4, <1>5, <1>6, <1>7, <1>8, <1>9, <1>10, <1>11, <1>13, <1>14,
     <1>16, <1>17, <1>18, <1>19, <1>20, <1>21, <1>22 DEF FlowNext, Authenticate

\* A thread no action has touched, and one that has answered or ended.
LEMMA UntouchedThread ==
  ASSUME RequestInv, NEW q \in Request,
         phase'[q] = phase[q], local'[q] = local[q],
         ask'[q] = ask[q], failAge'[q] = failAge[q]
  PROVE  ThreadInv(q)'
BY DEF RequestInv, ThreadInv, HasAsk, HasRow, HasTarget, HasCookie, HoldsCode

LEMMA AnsweredThread ==
  ASSUME NEW q \in Request, phase'[q] = "idle", local'[q] = NoLocals
  PROVE  ThreadInv(q)'
BY DEF ThreadInv, HasAsk, HasRow, HasTarget, HasCookie, HoldsCode, NoLocals, LimitedPhase

\* The actions of one request leave the others alone.
Touches(r) ==
  \A q \in Request \ {r} :
    /\ phase'[q] = phase[q]
    /\ local'[q] = local[q]
    /\ ask'[q] = ask[q]
    /\ failAge'[q] = failAge[q]

LEMMA OneThread ==
  ASSUME RequestInv, NEW r \in Request, Touches(r), ThreadInv(r)'
  PROVE  RequestInv'
<1>1. ASSUME NEW q \in Request \ {r} PROVE ThreadInv(q)'
  BY UntouchedThread DEF Touches
<1> QED
  BY <1>1 DEF RequestInv

LEMMA StepRequests ==
  ASSUME FlowInv, [FlowNext]_vars
  PROVE  RequestInv'
<1>0. /\ phase \in [Request -> Phase]
      /\ local \in [Request -> Local]
      /\ ask \in [Request -> Ask \cup {NoAsk}]
      /\ failAge \in [Request -> 0 .. OutOfWindow]
      /\ RequestInv
      /\ FailureInv
  BY DEF FlowInv, FlowTypeOK, RequestTypes, AuditTypes
<1> USE DEF ThreadInv, HasAsk, HasRow, HasTarget, HasCookie, HoldsCode, LimitedPhase
<1>1. ASSUME NEW r \in Request, NEW login \in Login, NEW p \in Password, NEW t \in Target,
             SubmitLogin(r, login, p, t)
      PROVE  RequestInv'
  <2>1. Touches(r)
    BY <1>0, <1>1 DEF SubmitLogin, MoveTo, Touches, auditVars
  <2>2. ThreadInv(r)'
    BY <1>0, <1>1 DEF SubmitLogin, MoveTo, Ask, RequestInv, FailureInv
  <2> QED
    BY <1>0, <2>1, <2>2, OneThread
<1>2. ASSUME NEW r \in Request, RefuseLimited(r) PROVE RequestInv'
  <2>1. Touches(r)
    BY <1>0, <1>2 DEF RefuseLimited, Answer, MoveTo, Touches
  <2>2. ThreadInv(r)'
    BY <1>0, <1>2, AnsweredThread DEF RefuseLimited, Answer, MoveTo
  <2> QED
    BY <1>0, <2>1, <2>2, OneThread
<1>3. ASSUME NEW r \in Request, PassLimit(r) PROVE RequestInv'
  <2>1. Touches(r)
    BY <1>0, <1>3 DEF PassLimit, MoveTo, Touches, auditVars
  <2>2. ThreadInv(r)'
    BY <1>0, <1>3 DEF PassLimit, MoveTo, RequestInv, auditVars
  <2> QED
    BY <1>0, <2>1, <2>2, OneThread
<1>4. ASSUME NEW r \in Request, LookupIdentity(r) PROVE RequestInv'
  <2>1. Touches(r)
    BY <1>0, <1>4 DEF LookupIdentity, MoveTo, Touches, auditVars
  <2>2. IdentityOf[ask[r].login] \in Identity
    BY <1>0, <1>4 DEF LookupIdentity, RequestInv, Ask, Identity
  <2>3. ASSUME phase'[r] = "credential", local' = [local EXCEPT ![r].row = IdentityOf[ask[r].login]]
        PROVE  ThreadInv(r)'
    BY <1>0, <1>4, <2>2, <2>3 DEF LookupIdentity, RequestInv, auditVars, Local
  <2>4. ASSUME phase'[r] = "failing", UNCHANGED local
        PROVE  ThreadInv(r)'
    BY <1>0, <1>4, <2>4 DEF LookupIdentity, RequestInv, auditVars
  <2> QED
    BY <1>0, <1>4, <2>1, <2>3, <2>4, OneThread DEF LookupIdentity, MoveTo
<1>5. ASSUME NEW r \in Request, ReadCredential(r) PROVE RequestInv'
  <2>1. Touches(r)
    BY <1>0, <1>5 DEF ReadCredential, MoveTo, Touches, auditVars
  <2>2. ThreadInv(r)'
    BY <1>0, <1>5 DEF ReadCredential, MoveTo, RequestInv, auditVars
  <2> QED
    BY <1>0, <2>1, <2>2, OneThread
<1>6. ASSUME NEW r \in Request, RecordFailure(r) PROVE RequestInv'
  <2>1. Touches(r)
    BY <1>0, <1>6 DEF RecordFailure, Answer, MoveTo, Touches
  <2>2. ThreadInv(r)'
    BY <1>0, <1>6, AnsweredThread DEF RecordFailure, Answer, MoveTo
  <2> QED
    BY <1>0, <2>1, <2>2, OneThread
<1>7. ASSUME NEW r \in Request, RecordSuccess(r) PROVE RequestInv'
  <2>1. Touches(r)
    BY <1>0, <1>7 DEF RecordSuccess, MoveTo, Touches
  <2>2. ThreadInv(r)'
    BY <1>0, <1>7 DEF RecordSuccess, MoveTo, RequestInv
  <2> QED
    BY <1>0, <2>1, <2>2, OneThread
<1>8. ASSUME NEW r \in Request, NEW s \in Session, CreateSession(r, s) PROVE RequestInv'
  <2>1. Touches(r)
    BY <1>0, <1>8 DEF CreateSession, MoveTo, Touches, auditVars
  <2>2. ThreadInv(r)'
    BY <1>0, <1>8 DEF CreateSession, MoveTo, RequestInv, auditVars
  <2> QED
    BY <1>0, <2>1, <2>2, OneThread
<1>9. ASSUME NEW r \in Request, NEW c \in Code, IssueCode(r, c) PROVE RequestInv'
  <2>1. Touches(r)
    BY <1>0, <1>9 DEF IssueCode, Answer, MoveTo, Touches, auditVars
  <2>2. ThreadInv(r)'
    BY <1>0, <1>9, AnsweredThread DEF IssueCode, Answer, MoveTo
  <2> QED
    BY <1>0, <2>1, <2>2, OneThread
<1>10. ASSUME NEW r \in Request, NEW s \in Session, NEW t \in Target, ContinueSession(r, s, t)
       PROVE  RequestInv'
  <2>1. Touches(r)
    BY <1>0, <1>10 DEF ContinueSession, MoveTo, Touches, auditVars
  <2>2. sessionOwner[s] \in Identity
    BY <1>10 DEF ContinueSession, SessionValid, FlowInv, FlowTypeOK, SessionTypes
  <2>3. local[r].held = NoCode
    BY <1>0, <1>10 DEF ContinueSession, RequestInv
  <2>4. /\ local'[r].row = sessionOwner[s]
        /\ local'[r].cookie = s
        /\ local'[r].target = t
        /\ local'[r].held = NoCode
    BY <1>0, <1>10, <2>3 DEF ContinueSession, Local
  <2>5. phase'[r] = "code"
    BY <1>0, <1>10 DEF ContinueSession, MoveTo
  <2>6. ThreadInv(r)'
    BY <2>2, <2>4, <2>5
  <2> QED
    BY <1>0, <2>1, <2>6, OneThread
<1>11. ASSUME NEW r \in Request, NEW c \in Code, NEW t \in Target \cup {NoTarget}, PopCode(r, c, t)
       PROVE  RequestInv'
  <2>1. Touches(r)
    BY <1>0, <1>11 DEF PopCode, MoveTo, Touches, auditVars
  <2>2. phase'[r] = "redeem" /\ local'[r].held = c
    BY <1>0, <1>11 DEF PopCode, MoveTo, Local
  <2>3. ThreadInv(r)'
    BY <2>2
  <2> QED
    BY <1>0, <2>1, <2>3, OneThread
<1>12. ASSUME NEW r \in Request, GrantToken(r) \/ RejectCode(r) PROVE RequestInv'
  <2>1. Touches(r)
    BY <1>0, <1>12 DEF GrantToken, RejectCode, Answer, MoveTo, Touches, auditVars
  <2>2. ThreadInv(r)'
    BY <1>0, <1>12, AnsweredThread DEF GrantToken, RejectCode, Answer, MoveTo
  <2> QED
    BY <1>0, <2>1, <2>2, OneThread
<1>13. ASSUME NEW R \in SUBSET Request, EndRequests(R), UNCHANGED failAge
       PROVE  RequestInv'
  <2>1. ASSUME NEW q \in R PROVE ThreadInv(q)'
    BY <1>13, <2>1, AnsweredThread DEF EndRequests
  <2>2. ASSUME NEW q \in Request \ R PROVE ThreadInv(q)'
    BY <1>0, <1>13, UntouchedThread DEF EndRequests
  <2> QED
    BY <2>1, <2>2 DEF RequestInv
<1>14. ASSUME NEW r \in Request, Abort(r) PROVE RequestInv'
  BY <1>13, <1>14 DEF Abort
<1>15. CASE Crash
  BY <1>13, <1>15 DEF Crash
<1>16. CASE Tick
  <2>1. ASSUME NEW q \in Request PROVE ThreadInv(q)'
    <3>1. phase'[q] = phase[q] /\ local'[q] = local[q]
      BY <1>16 DEF Tick, requestVars
    <3>2. failAge[q] = OutOfWindow => failAge'[q] = OutOfWindow /\ ask'[q] = ask[q]
      BY <1>16 DEF Tick, OutOfWindow
    <3> QED
      BY <1>0, <3>1, <3>2 DEF RequestInv
  <2> QED
    BY <2>1 DEF RequestInv
<1>17. ASSUME UNCHANGED <<requestVars, auditVars>> PROVE RequestInv'
  BY <1>0, <1>17 DEF RequestInv, requestVars, auditVars
<1>18. ASSUME NEW s \in Session, Logout(s) PROVE RequestInv'
  BY <1>17, <1>18 DEF Logout
<1>19. CASE Start \/ Administer \/ UNCHANGED vars
  BY <1>17, <1>19 DEF Start, Administer, vars, flowVars
<1> QED
  BY <1>1, <1>2, <1>3, <1>4, <1>5, <1>6, <1>7, <1>8, <1>9, <1>10, <1>11, <1>12, <1>14,
     <1>15, <1>16, <1>18, <1>19 DEF FlowNext, Authenticate

LEMMA StepFailures ==
  ASSUME FlowInv, [FlowNext]_vars
  PROVE  FailureInv'
<1>0. /\ ask \in [Request -> Ask \cup {NoAsk}]
      /\ failAge \in [Request -> 0 .. OutOfWindow]
      /\ RequestInv
      /\ FailureInv
  BY DEF FlowInv, FlowTypeOK, AuditTypes
<1> USE <1>0 DEF FailureInv
<1>1. ASSUME NEW r \in Request, NEW login \in Login, NEW p \in Password, NEW t \in Target,
             SubmitLogin(r, login, p, t)
      PROVE  FailureInv'
  BY <1>1 DEF SubmitLogin
<1>2. ASSUME NEW r \in Request, phase[r] \in {"limit"} \cup LimitedPhase
      PROVE  ask[r] # NoAsk /\ failAge[r] = OutOfWindow
  BY <1>2 DEF RequestInv, ThreadInv, HasAsk
<1>3. ASSUME NEW r \in Request, RefuseLimited(r) PROVE FailureInv'
  BY <1>2, <1>3 DEF RefuseLimited
<1>4. ASSUME NEW r \in Request, RecordFailure(r) PROVE FailureInv'
  BY <1>2, <1>4 DEF RecordFailure, LimitedPhase
<1>5. ASSUME NEW r \in Request, RecordSuccess(r) PROVE FailureInv'
  BY <1>2, <1>5 DEF RecordSuccess, LimitedPhase
<1>6. ASSUME NEW R \in SUBSET Request, EndRequests(R), UNCHANGED failAge PROVE FailureInv'
  BY <1>6 DEF EndRequests
<1>7. ASSUME NEW r \in Request, Abort(r) PROVE FailureInv'
  BY <1>6, <1>7 DEF Abort
<1>8. CASE Crash
  BY <1>6, <1>8 DEF Crash
<1>9. CASE Tick
  BY <1>9 DEF Tick, OutOfWindow
<1>10. ASSUME UNCHANGED auditVars PROVE FailureInv'
  BY <1>10 DEF auditVars
<1>11. ASSUME NEW r \in Request, PassLimit(r) \/ LookupIdentity(r) \/ ReadCredential(r)
              \/ GrantToken(r) \/ RejectCode(r)
       PROVE  FailureInv'
  BY <1>10, <1>11 DEF PassLimit, LookupIdentity, ReadCredential, GrantToken, RejectCode
<1>12. ASSUME NEW r \in Request, NEW s \in Session, CreateSession(r, s) PROVE FailureInv'
  BY <1>10, <1>12 DEF CreateSession
<1>13. ASSUME NEW r \in Request, NEW c \in Code, IssueCode(r, c) PROVE FailureInv'
  BY <1>10, <1>13 DEF IssueCode
<1>14. ASSUME NEW r \in Request, NEW s \in Session, NEW t \in Target, ContinueSession(r, s, t)
       PROVE  FailureInv'
  BY <1>10, <1>14 DEF ContinueSession
<1>15. ASSUME NEW r \in Request, NEW c \in Code, NEW t \in Target \cup {NoTarget}, PopCode(r, c, t)
       PROVE  FailureInv'
  BY <1>10, <1>15 DEF PopCode
<1>16. ASSUME NEW s \in Session, Logout(s) PROVE FailureInv'
  BY <1>10, <1>16 DEF Logout
<1>17. CASE Start \/ Administer \/ UNCHANGED vars
  BY <1>10, <1>17 DEF Start, Administer, vars, flowVars
<1> QED
  BY <1>1, <1>3, <1>4, <1>5, <1>7, <1>8, <1>9, <1>11, <1>12, <1>13, <1>14, <1>15, <1>16, <1>17
     DEF FlowNext, Authenticate

\* The codes and what the threads hold of them.
SameHeld == \A q \in Request : local'[q].held = local[q].held

LEMMA StepCodes ==
  ASSUME FlowInv, [FlowNext]_vars
  PROVE  CodeInv'
<1>0. /\ phase \in [Request -> Phase]
      /\ local \in [Request -> Local]
      /\ CodeTypes
      /\ RequestInv
      /\ CodeInv
  BY DEF FlowInv, FlowTypeOK, RequestTypes
<1>1. ASSUME SameHeld, UNCHANGED codeVars PROVE CodeInv'
  BY <1>0, <1>1 DEF CodeInv, Held, SameHeld, codeVars
<1>2. ASSUME NEW r \in Request, Answer(r), phase[r] # "redeem" PROVE SameHeld
  BY <1>0, <1>2 DEF Answer, SameHeld, NoLocals, RequestInv, ThreadInv, HoldsCode
<1>3. ASSUME NEW r \in Request, NEW login \in Login, NEW p \in Password, NEW t \in Target,
             SubmitLogin(r, login, p, t)
      PROVE  CodeInv'
  <2>1. SameHeld
    BY <1>0, <1>3 DEF SubmitLogin, SameHeld, Local
  <2> QED
    BY <1>1, <1>3, <2>1 DEF SubmitLogin
<1>4. ASSUME NEW r \in Request, RefuseLimited(r) PROVE CodeInv'
  BY <1>1, <1>2, <1>4 DEF RefuseLimited
<1>5. ASSUME NEW r \in Request, PassLimit(r) \/ RecordSuccess(r) PROVE CodeInv'
  BY <1>1, <1>5 DEF PassLimit, RecordSuccess, SameHeld
<1>6. ASSUME NEW r \in Request, LookupIdentity(r) PROVE CodeInv'
  <2>1. SameHeld
    BY <1>0, <1>6 DEF LookupIdentity, SameHeld, Local
  <2> QED
    BY <1>1, <1>6, <2>1 DEF LookupIdentity
<1>7. ASSUME NEW r \in Request, ReadCredential(r) PROVE CodeInv'
  <2>1. SameHeld
    BY <1>0, <1>7 DEF ReadCredential, SameHeld, Local
  <2> QED
    BY <1>1, <1>7, <2>1 DEF ReadCredential
<1>8. ASSUME NEW r \in Request, RecordFailure(r) PROVE CodeInv'
  BY <1>1, <1>2, <1>8 DEF RecordFailure
<1>9. ASSUME NEW r \in Request, NEW s \in Session, CreateSession(r, s) PROVE CodeInv'
  <2>1. SameHeld
    BY <1>0, <1>9 DEF CreateSession, SameHeld, Local
  <2> QED
    BY <1>1, <1>9, <2>1 DEF CreateSession
<1>10. ASSUME NEW r \in Request, NEW c \in Code, IssueCode(r, c) PROVE CodeInv'
  <2>1. SameHeld
    BY <1>2, <1>10 DEF IssueCode
  <2>2. c \notin stored /\ ~Held(c) /\ tokens[c] = <<>>
    BY <1>0, <1>10 DEF IssueCode, CodeInv
  <2>3. [identity |-> local[r].row, target |-> local[r].target] \in Payload
    BY <1>10 DEF IssueCode, FlowInv, RequestInv, ThreadInv, HasRow, HasTarget, Payload
  <2>4. payload'[c] # NoPayload /\ tokens' = tokens /\ stored' = stored \cup {c}
    BY <1>0, <1>10, <2>3 DEF IssueCode, CodeTypes
  <2>5. \A d \in Code \ {c} : payload'[d] = payload[d]
    BY <1>0, <1>10 DEF IssueCode, CodeTypes
  <2> QED
    <3>1. \A d \in Code : Held(d)' <=> Held(d)
      BY <2>1 DEF Held, SameHeld
    <3>2. \A d \in stored' : payload'[d] # NoPayload /\ tokens'[d] = <<>>
      BY <1>0, <2>2, <2>4, <2>5 DEF CodeInv, CodeTypes
    <3>3. \A d \in Code : Held(d)' => payload'[d] # NoPayload /\ tokens'[d] = <<>> /\ d \notin stored'
      BY <1>0, <2>2, <2>4, <2>5, <3>1 DEF CodeInv
    <3>4. \A d \in Code : payload'[d] = NoPayload => tokens'[d] = <<>>
      BY <1>0, <2>4, <2>5 DEF CodeInv
    <3>5. \A q, p \in Request : local'[q].held = local'[p].held /\ q # p => local'[q].held = NoCode
      BY <1>0, <2>1 DEF CodeInv, SameHeld
    <3> QED
      BY <3>2, <3>3, <3>4, <3>5 DEF CodeInv
<1>11. ASSUME NEW r \in Request, NEW s \in Session, NEW t \in Target, ContinueSession(r, s, t)
       PROVE  CodeInv'
  <2>1. SameHeld
    BY <1>0, <1>11 DEF ContinueSession, SameHeld, Local
  <2> QED
    BY <1>1, <1>11, <2>1 DEF ContinueSession
<1>12. ASSUME NEW r \in Request, NEW c \in Code, NEW t \in Target \cup {NoTarget}, PopCode(r, c, t)
       PROVE  CodeInv'
  <2>1. local'[r].held = c /\ \A q \in Request \ {r} : local'[q].held = local[q].held
    BY <1>0, <1>12 DEF PopCode, Local
  <2>2. local[r].held = NoCode
    BY <1>0, <1>12 DEF PopCode, RequestInv, ThreadInv, HoldsCode
  <2>3. ~Held(c) /\ payload[c] # NoPayload /\ tokens[c] = <<>>
    BY <1>0, <1>12 DEF PopCode, CodeInv
  <2>4. stored' = stored \ {c} /\ UNCHANGED <<payload, tokens>>
    BY <1>12 DEF PopCode
  <2>5. \A d \in Code : Held(d)' <=> d = c \/ Held(d)
    BY <2>1, <2>2 DEF Held
  <2> QED
    BY <1>0, <2>1, <2>2, <2>3, <2>4, <2>5 DEF CodeInv, Held
<1>13. ASSUME NEW R \in SUBSET Request,
              \A q \in R : local'[q] = NoLocals,
              \A q \in Request \ R : local'[q] = local[q],
              stored' \subseteq stored,
              UNCHANGED payload,
              \A c \in Code : Held(c)' => tokens'[c] = tokens[c],
              \A c \in stored' : tokens'[c] = tokens[c],
              \A c \in Code : payload[c] = NoPayload => tokens'[c] = tokens[c]
       PROVE  CodeInv'
  <2>1. \A q \in R : local'[q].held = NoCode
    BY <1>13 DEF NoLocals
  <2>2. \A c \in Code : Held(c)' => Held(c)
    BY <1>13, <2>1 DEF Held
  <2>3. \A q, p \in Request : local'[q].held = local'[p].held /\ q # p => local'[q].held = NoCode
    BY <1>0, <1>13, <2>1 DEF CodeInv
  <2> QED
    BY <1>0, <1>13, <2>2, <2>3 DEF CodeInv, CodeTypes
<1>14. ASSUME NEW r \in Request, phase[r] = "redeem"
       PROVE  /\ local[r].held \in Code
              /\ local[r].held \notin stored
              /\ payload[local[r].held] # NoPayload
              /\ \A q \in Request \ {r} : local[q].held # local[r].held
  BY <1>0, <1>14 DEF RequestInv, ThreadInv, HoldsCode, CodeInv, Held, Local
<1>15. ASSUME NEW r \in Request, GrantToken(r) \/ RejectCode(r) PROVE CodeInv'
  <2>1. /\ \A q \in {r} : local'[q] = NoLocals
        /\ \A q \in Request \ {r} : local'[q] = local[q]
    BY <1>0, <1>15 DEF GrantToken, RejectCode, Answer
  <2>2. phase[r] = "redeem" /\ stored' = stored /\ payload' = payload
    BY <1>15 DEF GrantToken, RejectCode, codeVars
  <2>3. PICK h \in Code : h = local[r].held
    BY <1>14, <2>2
  <2>4. \A c \in Code \ {h} : tokens'[c] = tokens[c]
    BY <1>0, <1>15, <2>3 DEF GrantToken, RejectCode, CodeTypes, codeVars
  <2>5. \A q \in Request : local'[q].held # h
    BY <1>14, <2>1, <2>2, <2>3 DEF NoLocals
  <2>6. ~Held(h)'
    BY <2>5 DEF Held
  <2>7. h \notin stored /\ payload[h] # NoPayload
    BY <1>14, <2>2, <2>3
  <2>8. /\ \A c \in Code : Held(c)' => tokens'[c] = tokens[c]
        /\ \A c \in stored' : tokens'[c] = tokens[c]
        /\ \A c \in Code : payload[c] = NoPayload => tokens'[c] = tokens[c]
    BY <1>0, <2>2, <2>4, <2>6, <2>7 DEF CodeTypes
  <2>9. {r} \in SUBSET Request /\ stored' \subseteq stored
    BY <2>2
  <2> QED
    BY <1>13, <2>1, <2>2, <2>8, <2>9
<1>16. ASSUME NEW r \in Request, Abort(r) PROVE CodeInv'
  <2>1. /\ \A q \in {r} : local'[q] = NoLocals
        /\ \A q \in Request \ {r} : local'[q] = local[q]
    BY <1>16 DEF Abort, EndRequests
  <2>2. stored' = stored /\ payload' = payload /\ tokens' = tokens
    BY <1>16 DEF Abort, codeVars
  <2>3. {r} \in SUBSET Request /\ stored' \subseteq stored
    BY <2>2
  <2> QED
    BY <1>13, <2>1, <2>2, <2>3
<1>17. CASE Crash
  <2>1. /\ \A q \in Request : local'[q] = NoLocals
        /\ stored' \subseteq stored
        /\ UNCHANGED <<payload, tokens>>
    BY <1>17 DEF Crash, EndRequests
  <2> QED
    BY <1>13, <2>1
<1>18. CASE Tick
  <2>1. UNCHANGED <<local, stored, payload, tokens>>
    BY <1>18 DEF Tick, requestVars
  <2> QED
    BY <1>0, <2>1 DEF CodeInv, Held
<1>19. ASSUME NEW s \in Session, Logout(s) PROVE CodeInv'
  BY <1>1, <1>19 DEF Logout, requestVars, SameHeld
<1>20. CASE Start \/ Administer \/ UNCHANGED vars
  BY <1>1, <1>20 DEF Start, Administer, vars, flowVars, requestVars, SameHeld
<1> QED
  BY <1>3, <1>4, <1>5, <1>6, <1>7, <1>8, <1>9, <1>10, <1>11, <1>12, <1>15, <1>16, <1>17,
     <1>18, <1>19, <1>20 DEF FlowNext, Authenticate

\* FlowInv is an invariant of the login flow.
THEOREM FlowInvariant == FlowSpec => []FlowInv
<1>1. FlowInv /\ [FlowNext]_vars => FlowInv'
  BY StepTypes, StepRequests, StepFailures, StepCodes DEF FlowInv
<1> QED
  BY InitFlowInv, <1>1, PTL DEF FlowSpec

\* Type correctness of the login flow, for any number of requests, users,
\* sessions and codes (server.py:408-655).
THEOREM FlowTypeCorrect == FlowSpec => []FlowTypeOK
<1>1. FlowInv => FlowTypeOK
  BY DEF FlowInv
<1> QED
  BY FlowInvariant, <1>1, PTL

-----------------------------------------------------------------------------
(* Every session, code and token goes back to a recorded login.  Grounded   *)
(* is not inductive: the thread between the success row and the code keeps  *)
(* the identity in its locals.                                              *)

LoggedIn(r) == phase[r] \in {"session", "code"} => local[r].row \in successes

GroundedInv == Grounded /\ \A r \in Request : LoggedIn(r)

LEMMA StepGrounded ==
  ASSUME FlowInv, GroundedInv, [FlowNext]_vars
  PROVE  GroundedInv'
<1>0. /\ phase \in [Request -> Phase]
      /\ local \in [Request -> Local]
      /\ successes \subseteq Identity
      /\ SessionTypes
      /\ CodeTypes
      /\ RequestInv
      /\ CodeInv
      /\ GroundedInv
  BY DEF FlowInv, FlowTypeOK, RequestTypes, AuditTypes
<1>1. ASSUME UNCHANGED <<successes, sessionOwner, payload, tokens>>,
             \A q \in Request : \/ phase'[q] \notin {"session", "code"}
                                \/ phase'[q] = phase[q] /\ local'[q] = local[q]
      PROVE  GroundedInv'
  BY <1>0, <1>1 DEF GroundedInv, Grounded, LoggedIn
<1>2. ASSUME NEW r \in Request, Answer(r), UNCHANGED <<successes, sessionOwner, payload, tokens>>
      PROVE  GroundedInv'
  <2>1. \A q \in Request : \/ phase'[q] \notin {"session", "code"}
                           \/ phase'[q] = phase[q] /\ local'[q] = local[q]
    BY <1>0, <1>2 DEF Answer, MoveTo
  <2> QED
    BY <1>1, <1>2, <2>1
<1>3. ASSUME NEW r \in Request, NEW login \in Login, NEW p \in Password, NEW t \in Target,
             SubmitLogin(r, login, p, t)
      PROVE  GroundedInv'
  BY <1>0, <1>1, <1>3 DEF SubmitLogin, MoveTo, sessionVars, codeVars
<1>4. ASSUME NEW r \in Request, RefuseLimited(r) PROVE GroundedInv'
  BY <1>2, <1>4 DEF RefuseLimited, sessionVars, codeVars
<1>5. ASSUME NEW r \in Request, PassLimit(r) PROVE GroundedInv'
  BY <1>0, <1>1, <1>5 DEF PassLimit, MoveTo, auditVars, sessionVars, codeVars
<1>6. ASSUME NEW r \in Request, LookupIdentity(r) PROVE GroundedInv'
  BY <1>0, <1>1, <1>6 DEF LookupIdentity, MoveTo, auditVars, sessionVars, codeVars
<1>7. ASSUME NEW r \in Request, ReadCredential(r) PROVE GroundedInv'
  BY <1>0, <1>1, <1>7 DEF ReadCredential, MoveTo, auditVars, sessionVars, codeVars
<1>8. ASSUME NEW r \in Request, RecordFailure(r) PROVE GroundedInv'
  BY <1>2, <1>8 DEF RecordFailure, sessionVars, codeVars
<1>9. ASSUME NEW r \in Request, RecordSuccess(r) PROVE GroundedInv'
  <2>1. successes' = successes \cup {local[r].row} /\ UNCHANGED <<local, sessionOwner, payload, tokens>>
    BY <1>9 DEF RecordSuccess, sessionVars, codeVars
  <2>2. \A q \in Request \ {r} : phase'[q] = phase[q]
    BY <1>9 DEF RecordSuccess, MoveTo, FlowInv, FlowTypeOK, RequestTypes
  <2> QED
    BY <1>0, <2>1, <2>2 DEF GroundedInv, Grounded, LoggedIn
<1>10. ASSUME NEW r \in Request, NEW s \in Session, CreateSession(r, s) PROVE GroundedInv'
  <2>1. local[r].row \in successes
    BY <1>0, <1>10 DEF CreateSession, GroundedInv, LoggedIn
  <2>2. UNCHANGED <<successes, payload, tokens>> /\ sessionOwner' = [sessionOwner EXCEPT ![s] = local[r].row]
    BY <1>10 DEF CreateSession, auditVars, codeVars
  <2>3. \A q \in Request \ {r} : phase'[q] = phase[q] /\ local'[q] = local[q]
    BY <1>0, <1>10 DEF CreateSession, MoveTo
  <2>4. local'[r].row = local[r].row
    BY <1>0, <1>10 DEF CreateSession, Local
  <2>5. \A z \in Session : sessionOwner'[z] # NoIdentity => sessionOwner'[z] \in successes
    BY <1>0, <2>1, <2>2 DEF SessionTypes, GroundedInv, Grounded
  <2>6. \A q \in Request : LoggedIn(q)'
    BY <1>0, <2>1, <2>2, <2>3, <2>4 DEF GroundedInv, LoggedIn
  <2> QED
    BY <1>0, <2>2, <2>5, <2>6 DEF GroundedInv, Grounded
<1>11. ASSUME NEW r \in Request, NEW c \in Code, IssueCode(r, c) PROVE GroundedInv'
  <2>1. local[r].row \in successes
    BY <1>0, <1>11 DEF IssueCode, GroundedInv, LoggedIn
  <2>2. UNCHANGED <<successes, sessionOwner, tokens>>
    BY <1>11 DEF IssueCode, auditVars
  <2>3. \A d \in Code : payload'[d] # NoPayload => payload'[d].identity \in successes
    BY <1>0, <1>11, <2>1 DEF IssueCode, CodeTypes, GroundedInv, Grounded
  <2>4. \A q \in Request : LoggedIn(q)'
    BY <1>0, <1>11, <2>2 DEF IssueCode, Answer, MoveTo, GroundedInv, LoggedIn
  <2> QED
    BY <1>0, <2>2, <2>3, <2>4 DEF GroundedInv, Grounded
<1>12. ASSUME NEW r \in Request, NEW s \in Session, NEW t \in Target, ContinueSession(r, s, t)
       PROVE  GroundedInv'
  <2>1. sessionOwner[s] \in successes
    BY <1>0, <1>12 DEF ContinueSession, SessionValid, GroundedInv, Grounded
  <2>2. UNCHANGED <<successes, sessionOwner, payload, tokens>>
    BY <1>12 DEF ContinueSession, auditVars, sessionVars, codeVars
  <2>3. \A q \in Request \ {r} : phase'[q] = phase[q] /\ local'[q] = local[q]
    BY <1>0, <1>12 DEF ContinueSession, MoveTo
  <2>4. local'[r].row = sessionOwner[s]
    BY <1>0, <1>12 DEF ContinueSession, Local
  <2>5. \A q \in Request : LoggedIn(q)'
    BY <1>0, <2>1, <2>2, <2>3, <2>4 DEF GroundedInv, LoggedIn
  <2> QED
    BY <1>0, <2>2, <2>5 DEF GroundedInv, Grounded
<1>13. ASSUME NEW r \in Request, NEW c \in Code, NEW t \in Target \cup {NoTarget}, PopCode(r, c, t)
       PROVE  GroundedInv'
  BY <1>0, <1>1, <1>13 DEF PopCode, MoveTo, auditVars, sessionVars
<1>14. ASSUME NEW r \in Request, GrantToken(r) PROVE GroundedInv'
  <2>1. PICK h \in Code : h = local[r].held /\ payload[h] # NoPayload
    BY <1>0, <1>14 DEF GrantToken, RequestInv, ThreadInv, HoldsCode, Local, CodeInv, Held
  <2>2. payload[h] \in Payload /\ payload[h].identity \in successes
    BY <1>0, <2>1 DEF CodeTypes, GroundedInv, Grounded
  <2>3. UNCHANGED <<successes, sessionOwner, payload>> /\ tokens' = [tokens EXCEPT ![h] = Append(@, payload[h])]
    BY <1>14, <2>1 DEF GrantToken, auditVars, sessionVars
  <2>4. tokens[h] = <<>>
    BY <1>0, <1>14, <2>1 DEF CodeInv, Held
  <2>5. \A d \in Code : \A i \in DOMAIN tokens'[d] : tokens'[d][i].identity \in successes
    <3>1. ASSUME NEW d \in Code, d # h, NEW i \in DOMAIN tokens'[d]
          PROVE  tokens'[d][i].identity \in successes
      BY <1>0, <2>3, <3>1 DEF CodeTypes, GroundedInv, Grounded
    <3>2. tokens'[h] = <<payload[h]>>
      BY <1>0, <2>2, <2>3, <2>4 DEF CodeTypes
    <3>3. \A i \in DOMAIN tokens'[h] : tokens'[h][i].identity \in successes
      BY <2>2, <3>2
    <3> QED
      BY <3>1, <3>3
  <2>6. \A q \in Request : LoggedIn(q)'
    BY <1>0, <1>14, <2>3 DEF GrantToken, Answer, MoveTo, GroundedInv, LoggedIn
  <2> QED
    BY <1>0, <2>3, <2>5, <2>6 DEF GroundedInv, Grounded
<1>15. ASSUME NEW r \in Request, RejectCode(r) PROVE GroundedInv'
  BY <1>2, <1>15 DEF RejectCode, auditVars, sessionVars, codeVars
<1>16. ASSUME NEW R \in SUBSET Request, EndRequests(R),
              UNCHANGED <<successes, sessionOwner, payload, tokens>>
       PROVE  GroundedInv'
  BY <1>1, <1>16 DEF EndRequests
<1>17. ASSUME NEW r \in Request, Abort(r) PROVE GroundedInv'
  BY <1>16, <1>17 DEF Abort, sessionVars, codeVars
<1>18. CASE Crash
  BY <1>16, <1>18 DEF Crash, sessionVars
<1>19. CASE Tick
  BY <1>1, <1>19 DEF Tick, requestVars
<1>20. ASSUME NEW s \in Session, Logout(s) PROVE GroundedInv'
  BY <1>1, <1>20 DEF Logout, requestVars, auditVars, codeVars
<1>21. CASE Start \/ Administer \/ UNCHANGED vars
  BY <1>1, <1>21 DEF Start, Administer, vars, flowVars, requestVars, auditVars, sessionVars, codeVars
<1> QED
  BY <1>3, <1>4, <1>5, <1>6, <1>7, <1>8, <1>9, <1>10, <1>11, <1>12, <1>13, <1>14, <1>15,
     <1>17, <1>18, <1>19, <1>20, <1>21 DEF FlowNext, Authenticate

\* Sessions, codes and tokens exist only for identities with a recorded
\* successful login, whatever interleaves, crashes and restarts
\* (server.py:505-528, 408-418 and 617-655).
THEOREM GroundedHolds == FlowSpec => []Grounded
<1>1. FlowInit => GroundedInv
  BY DEF FlowInit, GroundedInv, Grounded, LoggedIn
<1>2. FlowInv /\ GroundedInv /\ [FlowNext]_vars => GroundedInv'
  BY StepGrounded
<1>3. GroundedInv => Grounded
  BY DEF GroundedInv
<1> QED
  BY FlowInvariant, <1>1, <1>2, <1>3, PTL DEF FlowSpec

-----------------------------------------------------------------------------
(* Disabled rows.                                                           *)

DisabledStep ==
  /\ \A u \in User : users[u] = "disabled" /\ users'[u] # "disabled" => EnableUser(u)
  /\ \A t \in Tenant : tenants[t] = "disabled" /\ tenants'[t] # "disabled" => EnableTenant(t)
  /\ \A id \in Identity :
       members[id] = "disabled" /\ members'[id] # "disabled" =>
         AddMembership(id[1], id[2]) \/ (Seed /\ id \in SeedMembers)

\* No other operation touches a disabled user or tenant, or a removed membership.
LEMMA DirectoryKeepsDisabled ==
  ASSUME DirectoryTypeOK, DirectoryNext
  PROVE  DisabledStep
<1> USE DEF DirectoryTypeOK, Status, Upsert, SetFlag, DisabledStep
<1>1. ASSUME NEW s \in Tenant, CreateTenant(s) \/ DisableTenant(s) \/ EnableTenant(s)
      PROVE  DisabledStep
  <2>1. UNCHANGED <<users, members>>
    BY <1>1 DEF CreateTenant, DisableTenant, EnableTenant
  <2>2. \A t \in Tenant : tenants[t] = "disabled" /\ tenants'[t] # "disabled" => EnableTenant(t)
    BY <1>1 DEF CreateTenant, DisableTenant, EnableTenant
  <2> QED
    BY <2>1, <2>2
<1>2. ASSUME NEW v \in User, NEW p \in Password \cup {NoPassword}, CreateUser(v, p)
      PROVE  DisabledStep
  BY <1>2 DEF CreateUser
<1>3. ASSUME NEW v \in User, DisableUser(v) \/ EnableUser(v)
      PROVE  DisabledStep
  <2>1. UNCHANGED <<tenants, members>>
    BY <1>3 DEF DisableUser, EnableUser
  <2>2. \A u \in User : users[u] = "disabled" /\ users'[u] # "disabled" => EnableUser(u)
    BY <1>3 DEF DisableUser, EnableUser
  <2> QED
    BY <2>1, <2>2
<1>4. ASSUME NEW v \in User, NEW p \in Password, SetPassword(v, p)
      PROVE  DisabledStep
  BY <1>4 DEF SetPassword
<1>5. ASSUME NEW v \in User, NEW s \in Tenant, AddMembership(v, s) \/ RemoveMembership(v, s)
      PROVE  DisabledStep
  <2>1. UNCHANGED <<tenants, users>>
    BY <1>5 DEF AddMembership, RemoveMembership
  <2>2. \A id \in Identity : members[id] = "disabled" /\ members'[id] # "disabled" =>
          AddMembership(id[1], id[2])
    BY <1>5 DEF AddMembership, RemoveMembership, Identity
  <2> QED
    BY <2>1, <2>2
<1>6. CASE Seed
  <2>1. \A u \in User : users[u] = "disabled" => users'[u] = "disabled"
    BY <1>6 DEF Seed
  <2>2. \A t \in Tenant : tenants[t] = "disabled" => tenants'[t] = "disabled"
    BY <1>6 DEF Seed
  <2>3. \A id \in Identity :
          members[id] = "disabled" /\ members'[id] # "disabled" => id \in SeedMembers
    BY <1>6 DEF Seed
  <2> QED
    BY <1>6, <2>1, <2>2, <2>3
<1> QED
  BY <1>1, <1>2, <1>3, <1>4, <1>5, <1>6 DEF DirectoryNext

\* No login, logout, restart or administrative operation but an enable brings
\* back a disabled user or tenant (catalog.py:57-78, 86-96, 136-147 and 216-225).
THEOREM DisabledHolds == FlowSpec => DisabledStays
<1>1. ASSUME FlowInv, FlowNext PROVE DisabledStep
  <2>1. DirectoryTypeOK
    BY <1>1 DEF FlowInv, FlowTypeOK
  <2>2. CASE UNCHANGED directoryVars
    BY <2>2 DEF directoryVars, DisabledStep
  <2>3. CASE DirectoryNext
    BY <2>1, <2>3, DirectoryKeepsDisabled
  <2>4. UNCHANGED directoryVars \/ DirectoryNext
    BY <1>1 DEF FlowNext, Authenticate, SubmitLogin, RefuseLimited, PassLimit, LookupIdentity,
       ReadCredential, RecordFailure, RecordSuccess, CreateSession, IssueCode, ContinueSession,
       PopCode, GrantToken, RejectCode, Abort, Logout, Crash, Start, DirectoryNext, Administer,
       Tick
  <2> QED
    BY <2>2, <2>3, <2>4
<1>2. FlowInv /\ [FlowNext]_vars => [DisabledStep]_vars
  BY <1>1
<1> QED
  BY <1>2, FlowInvariant, PTL DEF FlowSpec, DisabledStays, DisabledStep

-----------------------------------------------------------------------------
(* The facts a login relies on.  Witnessed is not inductive: each fact has  *)
(* to be followed from the read that found it to the session, through what  *)
(* the thread has kept of it in its locals.                                 *)

WitnessInv(r) ==
  /\ phase[r] # "idle" => Facts(r) \subseteq seen[r]
  /\ phase[r] \in {"lookup", "credential", "verify"} => "unlimited" \in seen[r]
  /\ phase[r] \in {"credential", "verify"} =>
       "active" \in seen[r] /\ local[r].row = IdentityOf[ask[r].login]
  /\ phase[r] = "verify" /\ local[r].hash = ask[r].password => "password" \in seen[r]
  /\ phase[r] = "session" => {"unlimited", "password", "active"} \subseteq seen[r]
  /\ phase[r] = "code" =>
       \/ {"unlimited", "password", "active"} \subseteq seen[r]
       \/ {"session", "active"} \subseteq seen[r]

\* What was seen of an open request is remembered, with the facts of now.
LEMMA Remembered ==
  ASSUME Remember, NEW r \in Request, phase'[r] # "idle"
  PROVE  seen'[r] = seen[r] \cup Facts(r)'
  BY DEF Remember

LEMMA EndedWitness ==
  ASSUME NEW r \in Request, phase'[r] = "idle"
  PROVE  WitnessInv(r)'
  BY DEF WitnessInv

\* A thread that a step leaves where it is.
Stays(r) ==
  /\ phase'[r] = phase[r]
  /\ local'[r] = local[r]
  /\ phase[r] \in LimitedPhase => ask'[r] = ask[r]

LEMMA StayingWitness ==
  ASSUME Remember, NEW r \in Request, WitnessInv(r), Stays(r)
  PROVE  WitnessInv(r)'
<1>1. CASE phase'[r] = "idle"
  BY <1>1, EndedWitness
<1>2. CASE phase'[r] # "idle"
  BY <1>2, Remembered DEF Stays, WitnessInv, LimitedPhase
<1> QED
  BY <1>1, <1>2

LEMMA StepWitness ==
  ASSUME FlowInv, \A r \in Request : WitnessInv(r), FlowNext, Remember
  PROVE  \A r \in Request : WitnessInv(r)'
<1>0. /\ phase \in [Request -> Phase]
      /\ local \in [Request -> Local]
      /\ ask \in [Request -> Ask \cup {NoAsk}]
      /\ failAge \in [Request -> 0 .. OutOfWindow]
      /\ \A r \in Request : HasAsk(r)
  BY DEF FlowInv, FlowTypeOK, RequestTypes, AuditTypes, RequestInv, ThreadInv
<1>1. ASSUME NEW r \in Request, \A q \in Request \ {r} : Stays(q), WitnessInv(r)'
      PROVE  \A q \in Request : WitnessInv(q)'
  BY <1>1, StayingWitness
<1>2. ASSUME NEW r \in Request, NEW p, MoveTo(r, p),
             \A q \in Request \ {r} : local'[q] = local[q] /\ ask'[q] = ask[q],
             WitnessInv(r)'
      PROVE  \A q \in Request : WitnessInv(q)'
  BY <1>0, <1>1, <1>2 DEF MoveTo, Stays
<1>3. ASSUME NEW r \in Request, Answer(r),
             \A q \in Request \ {r} : ask'[q] = ask[q]
      PROVE  \A q \in Request : WitnessInv(q)'
  <2>1. phase'[r] = "idle" /\ \A q \in Request \ {r} : local'[q] = local[q]
    BY <1>0, <1>3 DEF Answer, MoveTo
  <2> QED
    BY <1>2, <1>3, <2>1, EndedWitness DEF Answer
<1>4. ASSUME NEW r \in Request, NEW login \in Login, NEW p \in Password, NEW t \in Target,
             SubmitLogin(r, login, p, t)
      PROVE  \A q \in Request : WitnessInv(q)'
  <2>1. phase'[r] = "limit" /\ \A q \in Request \ {r} : local'[q] = local[q] /\ ask'[q] = ask[q]
    BY <1>0, <1>4 DEF SubmitLogin, MoveTo
  <2>2. WitnessInv(r)'
    BY <2>1, Remembered DEF WitnessInv
  <2> QED
    BY <1>2, <1>4, <2>1, <2>2 DEF SubmitLogin
<1>5. ASSUME NEW r \in Request, PassLimit(r)
      PROVE  \A q \in Request : WitnessInv(q)'
  <2>1. phase[r] = "limit" /\ phase'[r] = "lookup" /\ UNCHANGED <<local, ask>>
    BY <1>0, <1>5 DEF PassLimit, MoveTo, auditVars
  <2>2. "unlimited" \in Facts(r)
    BY <1>0, <1>5, <2>1 DEF PassLimit, HasAsk, Facts, Unlimited
  <2>3. "unlimited" \in seen'[r]
    BY <2>1, <2>2, Remembered DEF WitnessInv
  <2>4. WitnessInv(r)'
    BY <2>1, <2>3, Remembered DEF WitnessInv
  <2> QED
    BY <1>2, <1>5, <2>1, <2>4 DEF PassLimit
<1>6. ASSUME NEW r \in Request, LookupIdentity(r)
      PROVE  \A q \in Request : WitnessInv(q)'
  <2>1. phase[r] = "lookup" /\ UNCHANGED ask
    BY <1>6 DEF LookupIdentity, auditVars
  <2>2. ask[r] # NoAsk /\ IdentityOf[ask[r].login] \in Identity
    BY <1>0, <2>1 DEF HasAsk, LimitedPhase, Ask
  <2>3. CASE /\ Active(IdentityOf[ask[r].login])
             /\ local' = [local EXCEPT ![r].row = IdentityOf[ask[r].login]]
             /\ MoveTo(r, "credential")
    <3>1. "active" \in Facts(r)
      BY <2>2, <2>3 DEF Facts, ActiveOwner
    <3>2. /\ phase'[r] = "credential" /\ local'[r].row = IdentityOf[ask'[r].login]
          /\ \A q \in Request \ {r} : local'[q] = local[q]
      BY <1>0, <2>1, <2>3 DEF MoveTo, Local
    <3>3. {"unlimited", "active"} \subseteq seen'[r]
      BY <2>1, <3>1, <3>2, Remembered DEF WitnessInv
    <3>4. WitnessInv(r)'
      BY <3>2, <3>3, Remembered DEF WitnessInv
    <3> QED
      BY <1>2, <2>1, <2>3, <3>2, <3>4
  <2>4. CASE UNCHANGED local /\ MoveTo(r, "failing")
    <3>1. phase'[r] = "failing"
      BY <1>0, <2>4 DEF MoveTo
    <3>2. WitnessInv(r)'
      BY <3>1, Remembered DEF WitnessInv
    <3> QED
      BY <1>2, <2>1, <2>4, <3>2
  <2> QED
    BY <1>6, <2>3, <2>4 DEF LookupIdentity
<1>7. ASSUME NEW r \in Request, ReadCredential(r)
      PROVE  \A q \in Request : WitnessInv(q)'
  <2>1. /\ phase[r] = "credential" /\ UNCHANGED ask
        /\ phase'[r] \in {"failing", "verify"}
        /\ \A q \in Request \ {r} : local'[q] = local[q] /\ phase'[q] = phase[q]
        /\ local'[r].row = local[r].row
        /\ local'[r].hash = credentials[local[r].row[1]]
    BY <1>0, <1>7 DEF ReadCredential, MoveTo, Local, auditVars
  <2>2. ask[r] # NoAsk /\ local[r].row = IdentityOf[ask[r].login]
    BY <1>0, <2>1 DEF HasAsk, LimitedPhase, Ask, WitnessInv
  <2>3. local'[r].hash = ask'[r].password => "password" \in Facts(r)
    BY <2>1, <2>2 DEF Facts, RightPassword
  <2>4. /\ {"unlimited", "active"} \subseteq seen'[r]
        /\ local'[r].hash = ask'[r].password => "password" \in seen'[r]
    BY <2>1, <2>3, Remembered DEF WitnessInv
  <2>5. WitnessInv(r)'
    BY <2>1, <2>2, <2>4, Remembered DEF WitnessInv
  <2> QED
    BY <1>1, <2>1, <2>5 DEF Stays
<1>8. ASSUME NEW r \in Request, RefuseLimited(r)
      PROVE  \A q \in Request : WitnessInv(q)'
  <2>1. \A q \in Request \ {r} : ask'[q] = ask[q]
    BY <1>0, <1>8 DEF RefuseLimited
  <2> QED
    BY <1>3, <1>8, <2>1 DEF RefuseLimited
<1>9. ASSUME NEW r \in Request,
             \/ RecordFailure(r) \/ GrantToken(r) \/ RejectCode(r)
             \/ \E c \in Code : IssueCode(r, c)
      PROVE  \A q \in Request : WitnessInv(q)'
  BY <1>3, <1>9 DEF RecordFailure, GrantToken, RejectCode, IssueCode, auditVars
<1>10. ASSUME NEW r \in Request, RecordSuccess(r)
       PROVE  \A q \in Request : WitnessInv(q)'
  <2>1. /\ phase[r] = "verify" /\ local[r].hash = ask[r].password
        /\ phase'[r] = "session" /\ UNCHANGED local
        /\ \A q \in Request \ {r} : ask'[q] = ask[q]
    BY <1>0, <1>10 DEF RecordSuccess, MoveTo
  <2>2. {"unlimited", "password", "active"} \subseteq seen'[r]
    BY <2>1, Remembered DEF WitnessInv
  <2>3. WitnessInv(r)'
    BY <2>1, <2>2, Remembered DEF WitnessInv
  <2> QED
    BY <1>2, <1>10, <2>1, <2>3 DEF RecordSuccess
<1>11. ASSUME NEW r \in Request, NEW s \in Session, CreateSession(r, s)
       PROVE  \A q \in Request : WitnessInv(q)'
  <2>1. /\ phase[r] = "session" /\ phase'[r] = "code" /\ UNCHANGED ask
        /\ \A q \in Request \ {r} : local'[q] = local[q]
    BY <1>0, <1>11 DEF CreateSession, MoveTo, auditVars
  <2>2. {"unlimited", "password", "active"} \subseteq seen'[r]
    BY <2>1, Remembered DEF WitnessInv
  <2>3. WitnessInv(r)'
    BY <2>1, <2>2, Remembered DEF WitnessInv
  <2> QED
    BY <1>2, <1>11, <2>1, <2>3 DEF CreateSession
<1>12. ASSUME NEW r \in Request, NEW s \in Session, NEW t \in Target, ContinueSession(r, s, t)
       PROVE  \A q \in Request : WitnessInv(q)'
  <2>1. /\ phase'[r] = "code" /\ UNCHANGED ask
        /\ \A q \in Request \ {r} : local'[q] = local[q]
        /\ local'[r].row = sessionOwner[s] /\ local'[r].cookie = s
    BY <1>0, <1>12 DEF ContinueSession, MoveTo, Local, auditVars
  <2>2. /\ SessionValid(s) /\ sessionOwner[s] # NoIdentity /\ Active(sessionOwner[s])
        /\ UNCHANGED <<directoryVars, sessionVars>>
    BY <1>12 DEF ContinueSession, SessionValid
  <2>3. SessionValid(s)' /\ Active(sessionOwner[s])'
    BY <2>2 DEF SessionValid, Active, directoryVars, sessionVars
  <2>4. {"session", "active"} \subseteq Facts(r)'
    <3>1. OpenSession(r)'
      BY <2>1, <2>3 DEF OpenSession, SessionValid, Active
    <3>2. ActiveOwner(r)'
      BY <2>1, <2>2, <2>3 DEF ActiveOwner, Active, directoryVars
    <3> QED
      BY <3>1, <3>2 DEF Facts, OpenSession, ActiveOwner
  <2>5. {"session", "active"} \subseteq seen'[r]
    BY <2>1, <2>4, Remembered
  <2>6. WitnessInv(r)'
    BY <2>1, <2>5, Remembered DEF WitnessInv
  <2> QED
    BY <1>2, <1>12, <2>1, <2>6 DEF ContinueSession
<1>13. ASSUME NEW r \in Request, NEW c \in Code, NEW t \in Target \cup {NoTarget}, PopCode(r, c, t)
       PROVE  \A q \in Request : WitnessInv(q)'
  <2>1. phase'[r] = "redeem" /\ \A q \in Request \ {r} : local'[q] = local[q] /\ ask'[q] = ask[q]
    BY <1>0, <1>13 DEF PopCode, MoveTo, auditVars
  <2>2. WitnessInv(r)'
    BY <2>1, Remembered DEF WitnessInv
  <2> QED
    BY <1>2, <1>13, <2>1, <2>2 DEF PopCode
<1>14. ASSUME NEW r \in Request, Abort(r)
       PROVE  \A q \in Request : WitnessInv(q)'
  <2>1. phase'[r] = "idle" /\ \A q \in Request \ {r} : Stays(q)
    BY <1>14 DEF Abort, EndRequests, Stays
  <2> QED
    BY <1>1, <2>1, EndedWitness
<1>15. CASE Crash
  BY <1>15, EndedWitness DEF Crash, EndRequests
<1>16. CASE Tick
  <2>1. \A r \in Request : phase[r] \in LimitedPhase => failAge[r] # Window
    BY <1>0 DEF HasAsk, OutOfWindow
  <2>2. \A r \in Request : Stays(r)
    BY <1>16, <2>1 DEF Tick, Stays, requestVars
  <2> QED
    BY <2>2, StayingWitness
<1>17. CASE (\E s \in Session : Logout(s)) \/ Start \/ Administer
  BY <1>17, StayingWitness DEF Logout, Start, Administer, Stays, flowVars, requestVars, auditVars
<1> QED
  BY <1>4, <1>5, <1>6, <1>7, <1>8, <1>9, <1>10, <1>11, <1>12, <1>13, <1>14, <1>15, <1>16,
     <1>17 DEF FlowNext, Authenticate

\* Whoever gets a session was below the limit, active and known by the password
\* at moments of the same request, and whoever gets a code without a login had a
\* valid session, for any number of requests and administrators at work
\* (catalog.py:284-312 and 369-399, server.py:408-418 and 505-528).
THEOREM WitnessedHolds == WitnessSpec => []Witnessed
<1>1. WitnessInit => FlowInit /\ \A r \in Request : WitnessInv(r)
  BY DEF WitnessInit, FlowInit, WitnessInv
<1>2. FlowInv /\ (\A r \in Request : WitnessInv(r)) /\ [FlowNext /\ Remember]_<<vars, seen>>
        => (\A r \in Request : WitnessInv(r))'
  <2>1. ASSUME \A r \in Request : WitnessInv(r), UNCHANGED <<vars, seen>>
        PROVE  \A r \in Request : WitnessInv(r)'
    <3> USE DEF vars, directoryVars, flowVars, requestVars, auditVars, sessionVars
    <3>1. ASSUME NEW r \in Request
          PROVE  UNCHANGED Facts(r)
      <4>1. UNCHANGED Counted(ask[r].login)
        BY <2>1 DEF Counted
      <4>2. UNCHANGED Limited(ask[r].login)
        BY <4>1 DEF Limited
      <4>3. UNCHANGED <<Unlimited(r), RightPassword(r)>>
        BY <2>1, <4>2 DEF Unlimited, RightPassword
      <4>4. UNCHANGED <<ActiveOwner(r), OpenSession(r)>>
        BY <2>1 DEF ActiveOwner, OpenSession, SessionValid, Active
      <4> QED
        BY <4>3, <4>4 DEF Facts
    <3> QED
      BY <2>1, <3>1 DEF WitnessInv
  <2> QED
    BY <2>1, StepWitness
<1>3. [FlowNext /\ Remember]_<<vars, seen>> => [FlowNext]_vars
  OBVIOUS
<1>4. (\A r \in Request : WitnessInv(r)) => Witnessed
  BY DEF WitnessInv, Witnessed
<1> QED
  BY <1>1, <1>2, <1>3, <1>4, FlowInvariant, PTL DEF WitnessSpec, FlowSpec

-----------------------------------------------------------------------------
(* The refinements.                                                        *)

USE FlowAssumption DEF FlowAssumption

-----------------------------------------------------------------------------
(* Login codes are one-time tickets.                                        *)

\* A code that may still be answered with a token is in the dict, or with the
\* thread that popped it.
Live(c) == c \in stored \/ Held(c)

TicketLeft == [c \in Code |-> IF TicketState[c] = "live" THEN codeLeft[c] ELSE 0]

LEMMA StateIsFunction ==
  /\ TicketState = [c \in Code |-> TicketState[c]]
  /\ TicketState' = [c \in Code |-> TicketState'[c]]
  BY DEF TicketState

LEMMA StateOfCode ==
  ASSUME CodeTypes, CodeInv, NEW c \in Code
  PROVE  /\ payload[c] = NoPayload => TicketState[c] = "unissued"
         /\ tokens[c] # <<>> => TicketState[c] = "redeemed"
         /\ Live(c) => TicketState[c] = "live"
         /\ payload[c] # NoPayload /\ tokens[c] = <<>> /\ ~Live(c) => TicketState[c] = "void"
  BY DEF TicketState, CodeInv, CodeTypes, Live, Held

LEMMA LeftOfCode ==
  ASSUME CodeTypes, CodeInv, NEW c \in Code
  PROVE  TicketLeft[c] = IF Live(c) THEN codeLeft[c] ELSE 0
  BY StateOfCode DEF TicketLeft, CodeInv, CodeTypes, Live, Held

LEMMA InitTickets == FlowInit => Tickets!TicketInit
<1> SUFFICES ASSUME FlowInit PROVE Tickets!TicketInit
  OBVIOUS
<1>1. \A c \in Code : TicketState[c] = "unissued"
  BY DEF FlowInit, TicketState
<1>2. TicketState = [c \in Code |-> "unissued"]
  BY <1>1 DEF TicketState
<1>. QED
  BY <1>1, <1>2 DEF FlowInit, Tickets!TicketInit

\* A step after which every live code is live stutters.
LEMMA SameCodes ==
  ASSUME CodeTypes, CodeInv, CodeTypes', CodeInv',
         \A c \in Code : Live(c)' <=> Live(c),
         UNCHANGED <<payload, codeLeft, tokens>>
  PROVE  UNCHANGED Tickets!ticketVars
<1>1. \A c \in Code : TicketState'[c] = TicketState[c]
  BY DEF TicketState, Live, Held
<1>2. TicketState' = TicketState
  BY <1>1 DEF TicketState
<1>. QED
  BY <1>2 DEF Tickets!ticketVars

\* A step after which some live codes are live no more gives them up.
LEMMA LostCodes ==
  ASSUME CodeTypes, CodeInv, CodeTypes', CodeInv',
         NEW T \in SUBSET Code,
         \A c \in T : Live(c),
         \A c \in Code : Live(c)' <=> Live(c) /\ c \notin T,
         UNCHANGED <<payload, codeLeft, tokens>>
  PROVE  Tickets!GiveUp(T)
<1>1. \A c \in T : TicketState[c] = "live"
  BY StateOfCode
<1>2. \A c \in T : TicketState'[c] = "void"
  BY DEF TicketState, Live, Held, CodeInv
<1>3. \A c \in Code \ T : TicketState'[c] = TicketState[c]
  BY DEF TicketState, Live, Held
<1>4. TicketState' = [c \in Code |-> IF c \in T THEN "void" ELSE TicketState[c]]
  BY <1>2, <1>3, StateIsFunction
<1>5. TicketLeft' = [c \in Code |-> IF c \in T THEN 0 ELSE TicketLeft[c]]
  BY <1>2, <1>3 DEF TicketLeft
<1>. QED
  BY <1>1, <1>4, <1>5 DEF Tickets!GiveUp, TicketLeft

LEMMA StepTickets ==
  ASSUME FlowInv, FlowInv', [FlowNext]_vars
  PROVE  [Tickets!TicketNext]_Tickets!ticketVars
<1>0. /\ CodeTypes /\ CodeInv /\ CodeTypes' /\ CodeInv'
      /\ phase \in [Request -> Phase]
      /\ local \in [Request -> Local]
      /\ RequestInv
  BY DEF FlowInv, FlowTypeOK, RequestTypes
<1>1. ASSUME SameHeld, UNCHANGED codeVars PROVE UNCHANGED Tickets!ticketVars
  <2>1. \A c \in Code : Live(c)' <=> Live(c)
    BY <1>1 DEF Live, Held, SameHeld, codeVars
  <2>. QED
    BY <1>0, <1>1, <2>1, SameCodes DEF codeVars
<1>2. ASSUME NEW r \in Request, Answer(r), phase[r] # "redeem" PROVE SameHeld
  BY <1>0, <1>2 DEF Answer, SameHeld, NoLocals, RequestInv, ThreadInv, HoldsCode
<1>3. ASSUME NEW r \in Request, NEW login \in Login, NEW p \in Password, NEW t \in Target,
             SubmitLogin(r, login, p, t)
      PROVE  UNCHANGED Tickets!ticketVars
  <2>1. SameHeld
    BY <1>0, <1>3 DEF SubmitLogin, SameHeld, Local
  <2> QED
    BY <1>1, <1>3, <2>1 DEF SubmitLogin
<1>4. ASSUME NEW r \in Request, RefuseLimited(r) \/ RecordFailure(r)
      PROVE  UNCHANGED Tickets!ticketVars
  BY <1>1, <1>2, <1>4 DEF RefuseLimited, RecordFailure
<1>5. ASSUME NEW r \in Request, PassLimit(r) \/ RecordSuccess(r)
      PROVE  UNCHANGED Tickets!ticketVars
  BY <1>1, <1>5 DEF PassLimit, RecordSuccess, SameHeld
<1>6. ASSUME NEW r \in Request, LookupIdentity(r) PROVE UNCHANGED Tickets!ticketVars
  <2>1. SameHeld
    BY <1>0, <1>6 DEF LookupIdentity, SameHeld, Local
  <2> QED
    BY <1>1, <1>6, <2>1 DEF LookupIdentity
<1>7. ASSUME NEW r \in Request, ReadCredential(r) PROVE UNCHANGED Tickets!ticketVars
  <2>1. SameHeld
    BY <1>0, <1>7 DEF ReadCredential, SameHeld, Local
  <2> QED
    BY <1>1, <1>7, <2>1 DEF ReadCredential
<1>8. ASSUME NEW r \in Request, NEW s \in Session, CreateSession(r, s)
      PROVE  UNCHANGED Tickets!ticketVars
  <2>1. SameHeld
    BY <1>0, <1>8 DEF CreateSession, SameHeld, Local
  <2> QED
    BY <1>1, <1>8, <2>1 DEF CreateSession
<1>9. ASSUME NEW r \in Request, NEW s \in Session, NEW t \in Target, ContinueSession(r, s, t)
      PROVE  UNCHANGED Tickets!ticketVars
  <2>1. SameHeld
    BY <1>0, <1>9 DEF ContinueSession, SameHeld, Local
  <2> QED
    BY <1>1, <1>9, <2>1 DEF ContinueSession
<1>10. ASSUME NEW r \in Request, NEW c \in Code, IssueCode(r, c)
       PROVE  Tickets!TicketNext
  <2>1. PICK s \in Payload : s = [identity |-> local[r].row, target |-> local[r].target]
    BY <1>0, <1>10 DEF IssueCode, RequestInv, ThreadInv, HasRow, HasTarget, Payload
  <2>2. payload' = [payload EXCEPT ![c] = s] /\ codeLeft' = [codeLeft EXCEPT ![c] = CodeTTL]
    BY <1>10, <2>1 DEF IssueCode
  <2>3. TicketState[c] = "unissued"
    BY <1>0, <1>10, StateOfCode DEF IssueCode
  <2>4. SameHeld
    BY <1>2, <1>10 DEF IssueCode
  <2>5. TicketState'[c] = "live"
    <3>1. tokens'[c] = <<>> /\ payload'[c] # NoPayload /\ c \in stored'
      BY <1>0, <1>10, <2>2 DEF IssueCode, CodeInv, CodeTypes
    <3>. QED
      BY <3>1 DEF TicketState
  <2>6. \A d \in Code \ {c} : TicketState'[d] = TicketState[d]
    <3>1. ASSUME NEW d \in Code \ {c}
          PROVE  payload'[d] = payload[d] /\ tokens'[d] = tokens[d] /\ (Live(d)' <=> Live(d))
      BY <1>0, <1>10, <2>2, <2>4 DEF IssueCode, CodeTypes, Live, Held, SameHeld
    <3>. QED
      BY <3>1 DEF TicketState, Live, Held
  <2>7. TicketState' = [TicketState EXCEPT ![c] = "live"]
    BY <2>5, <2>6, StateIsFunction
  <2>8. TicketLeft' = [TicketLeft EXCEPT ![c] = CodeTTL]
    BY <1>0, <2>2, <2>5, <2>6 DEF TicketLeft, CodeTypes
  <2>9. Tickets!Issue(c, s)
    BY <1>10, <2>2, <2>3, <2>7, <2>8 DEF Tickets!Issue, TicketLeft, IssueCode
  <2>. QED
    BY <2>9 DEF Tickets!TicketNext
<1>11. ASSUME NEW r \in Request, NEW c \in Code, NEW t \in Target \cup {NoTarget}, PopCode(r, c, t)
       PROVE  UNCHANGED Tickets!ticketVars
  <2>1. local'[r].held = c /\ \A q \in Request \ {r} : local'[q].held = local[q].held
    BY <1>0, <1>11 DEF PopCode, Local
  <2>2. local[r].held = NoCode
    BY <1>0, <1>11 DEF PopCode, RequestInv, ThreadInv, HoldsCode
  <2>3. \A d \in Code : Held(d)' <=> d = c \/ Held(d)
    BY <2>1, <2>2 DEF Held
  <2>4. \A d \in Code : Live(d)' <=> Live(d)
    BY <1>11, <2>3 DEF PopCode, Live
  <2>. QED
    BY <1>0, <1>11, <2>4, SameCodes DEF PopCode
<1>12. ASSUME NEW r \in Request, phase[r] = "redeem"
       PROVE  /\ local[r].held \in Code
              /\ local[r].held \notin stored
              /\ \A q \in Request \ {r} : local[q].held # local[r].held
  BY <1>0, <1>12 DEF RequestInv, ThreadInv, HoldsCode, CodeInv, Held, Local
<1>13. ASSUME NEW r \in Request, phase[r] = "redeem", stored' = stored,
              local'[r] = NoLocals, \A q \in Request \ {r} : local'[q] = local[q]
       PROVE  \A c \in Code : Live(c)' <=> Live(c) /\ c \notin {local[r].held}
  BY <1>12, <1>13 DEF Live, Held, NoLocals
<1>14. ASSUME NEW r \in Request, GrantToken(r)
       PROVE  Tickets!TicketNext
  <2>1. PICK c \in Code : c = local[r].held
    BY <1>12, <1>14 DEF GrantToken
  <2>2. /\ phase[r] = "redeem" /\ stored' = stored /\ codeLeft[c] > 0
        /\ tokens' = [tokens EXCEPT ![c] = Append(@, payload[c])]
        /\ UNCHANGED <<payload, codeLeft>>
    BY <1>14, <2>1 DEF GrantToken, Redeemable
  <2>3. local'[r] = NoLocals /\ \A q \in Request \ {r} : local'[q] = local[q]
    BY <1>0, <1>14 DEF GrantToken, Answer
  <2>4. TicketState[c] = "live" /\ TicketLeft[c] > 0
    BY <1>0, <2>1, <2>2, StateOfCode, LeftOfCode DEF Live, Held
  <2>5. payload[c] # NoPayload /\ tokens'[c] # <<>>
    <3>1. payload[c] \in Payload
      BY <1>0, <2>1 DEF CodeInv, CodeTypes, Held
    <3>2. tokens[c] \in Seq(Payload) /\ tokens'[c] = Append(tokens[c], payload[c])
      BY <1>0, <2>2 DEF CodeTypes
    <3>3. NoPayload \notin Payload
      BY DEF Payload
    <3>. QED
      BY <3>1, <3>2, <3>3
  <2>6. TicketState'[c] = "redeemed"
    BY <2>2, <2>5 DEF TicketState
  <2>7. \A d \in Code \ {c} : TicketState'[d] = TicketState[d]
    <3>1. ASSUME NEW d \in Code \ {c}
          PROVE  payload'[d] = payload[d] /\ tokens'[d] = tokens[d] /\ (Live(d)' <=> Live(d))
      BY <1>0, <1>13, <2>1, <2>2, <2>3 DEF CodeTypes
    <3>. QED
      BY <3>1 DEF TicketState, Live, Held
  <2>8. TicketState' = [TicketState EXCEPT ![c] = "redeemed"]
    BY <2>6, <2>7, StateIsFunction
  <2>9. TicketLeft' = [TicketLeft EXCEPT ![c] = 0]
    BY <2>2, <2>6, <2>7 DEF TicketLeft
  <2>10. Tickets!Redeem(c)
    BY <2>2, <2>4, <2>8, <2>9 DEF Tickets!Redeem, TicketLeft
  <2>. QED
    BY <2>10 DEF Tickets!TicketNext
<1>15. ASSUME NEW r \in Request, phase[r] = "redeem", UNCHANGED codeVars,
              local'[r] = NoLocals, \A q \in Request \ {r} : local'[q] = local[q]
       PROVE  Tickets!TicketNext
  <2>1. PICK c \in Code : c = local[r].held
    BY <1>12, <1>15
  <2>2. Live(c) /\ \A d \in Code : Live(d)' <=> Live(d) /\ d \notin {c}
    BY <1>13, <1>15, <2>1 DEF Live, Held, codeVars
  <2>3. Tickets!GiveUp({c})
    BY <1>0, <1>15, <2>2, LostCodes DEF codeVars
  <2>. QED
    BY <2>3 DEF Tickets!TicketNext
<1>16. ASSUME NEW r \in Request, RejectCode(r)
       PROVE  Tickets!TicketNext
  <2>1. local'[r] = NoLocals /\ \A q \in Request \ {r} : local'[q] = local[q]
    BY <1>0, <1>16 DEF RejectCode, Answer
  <2>. QED
    BY <1>15, <1>16, <2>1 DEF RejectCode
<1>17. ASSUME NEW r \in Request, Abort(r)
       PROVE  [Tickets!TicketNext]_Tickets!ticketVars
  <2>1. local'[r] = NoLocals /\ \A q \in Request \ {r} : local'[q] = local[q]
    BY <1>17 DEF Abort, EndRequests
  <2>2. CASE phase[r] = "redeem"
    BY <1>15, <1>17, <2>1, <2>2 DEF Abort
  <2>3. CASE phase[r] # "redeem"
    <3>1. SameHeld
      BY <1>0, <2>1, <2>3 DEF SameHeld, NoLocals, RequestInv, ThreadInv, HoldsCode
    <3>. QED
      BY <1>1, <1>17, <3>1 DEF Abort
  <2>. QED
    BY <2>2, <2>3
<1>18. CASE Crash
  <2>1. PICK T \in SUBSET Code : T = {c \in Code : Live(c)}
    OBVIOUS
  <2>2. \A c \in Code : ~Live(c)'
    BY <1>18 DEF Crash, EndRequests, Live, Held, NoLocals
  <2>3. UNCHANGED <<payload, codeLeft, tokens>>
    BY <1>18 DEF Crash
  <2>4. Tickets!GiveUp(T)
    BY <1>0, <2>1, <2>2, <2>3, LostCodes
  <2>. QED
    BY <2>4 DEF Tickets!TicketNext
<1>19. CASE Tick
  <2>1. \A c \in Code : Live(c)' <=> Live(c)
    BY <1>19 DEF Tick, Live, Held, requestVars
  <2>2. UNCHANGED <<payload, tokens>> /\ codeLeft' = Countdown(codeLeft)
    BY <1>19 DEF Tick
  <2>3. \A c \in Code : TicketState'[c] = TicketState[c]
    BY <2>1, <2>2 DEF TicketState, Live, Held
  <2>4. UNCHANGED TicketState
    BY <2>3 DEF TicketState
  <2>5. TicketLeft' = [c \in Code |-> IF TicketLeft[c] > 0 THEN TicketLeft[c] - 1 ELSE 0]
    BY <1>0, <2>2, <2>3 DEF TicketLeft, Countdown, CodeTypes
  <2>6. Tickets!PassTime
    BY <2>2, <2>4, <2>5 DEF Tickets!PassTime, TicketLeft
  <2>. QED
    BY <2>6 DEF Tickets!TicketNext
<1>20. ASSUME NEW s \in Session, Logout(s) PROVE UNCHANGED Tickets!ticketVars
  BY <1>1, <1>20 DEF Logout, requestVars, SameHeld
<1>21. ASSUME Start \/ Administer \/ UNCHANGED vars PROVE UNCHANGED Tickets!ticketVars
  BY <1>1, <1>21 DEF Start, Administer, vars, flowVars, requestVars, SameHeld
<1>. QED
  BY <1>3, <1>4, <1>5, <1>6, <1>7, <1>8, <1>9, <1>10, <1>11, <1>14, <1>16, <1>17,
     <1>18, <1>19, <1>20, <1>21 DEF FlowNext, Authenticate

\* Login codes implement one-time tickets: however exchanges of one code race
\* with each other, with failures, restarts and the clock, it is answered with at
\* most one token, for what it was issued for and in time.
THEOREM CodesImplementTickets == FlowSpec => CodesAreTickets
<1>1. FlowInv /\ FlowInv' /\ [FlowNext]_vars => [Tickets!TicketNext]_Tickets!ticketVars
  BY StepTickets
<1>. QED
  BY <1>1, InitTickets, FlowInvariant, PTL
     DEF FlowSpec, CodesAreTickets, Tickets!TicketSpec

-----------------------------------------------------------------------------
(* What FlowInv does not say of sessions: a thread works with a session     *)
(* only while it is about to issue a code, and sessions that somebody works *)
(* with, has the cookie of or has revoked were created.                     *)

Created(s) == sessionOwner[s] # NoIdentity

CookieInv(r) ==
  /\ phase[r] # "code" => local[r].cookie = NoSession
  /\ phase[r] = "code" => Created(local[r].cookie)

LeaseInv ==
  /\ \A r \in Request : CookieInv(r)
  /\ \A s \in handedOut \cup revoked : Created(s)

LEMMA InitLeaseInv == FlowInit => LeaseInv
  BY DEF FlowInit, LeaseInv, CookieInv, NoLocals

\* After the step the threads in R work with no session, the others as before.
Leave(R) ==
  /\ \A q \in R : local'[q].cookie = NoSession /\ phase'[q] # "code"
  /\ \A q \in Request \ R : local'[q].cookie = local[q].cookie /\ phase'[q] = phase[q]

\* Only cookies of sessions that threads worked with are handed out.
Known(s) == s \in handedOut \/ \E r \in Request : phase[r] = "code" /\ local[r].cookie = s

Quiet(R) ==
  /\ Leave(R)
  /\ UNCHANGED <<sessionOwner, sessionLeft, revoked>>
  /\ \A s \in handedOut' : Known(s)

\* The steps of the login flow, as the sessions see them.
LEMMA StepKinds ==
  ASSUME FlowInv, LeaseInv, [FlowNext]_vars
  PROVE  \/ \E R \in SUBSET Request : Quiet(R)
         \/ \E r \in Request, s \in Session : CreateSession(r, s)
         \/ \E r \in Request, s \in Session, t \in Target : ContinueSession(r, s, t)
         \/ \E s \in Session : Logout(s)
         \/ Tick
<1>0. /\ phase \in [Request -> Phase]
      /\ local \in [Request -> Local]
      /\ RequestInv
      /\ \A r \in Request : CookieInv(r)
  BY DEF FlowInv, FlowTypeOK, RequestTypes, LeaseInv
<1>1. ASSUME NEW r \in Request, NEW p \in Phase \ {"code"}, MoveTo(r, p), phase[r] # "code",
             \A q \in Request : local'[q].cookie = local[q].cookie, UNCHANGED sessionVars
      PROVE  Quiet({r})
  BY <1>0, <1>1 DEF MoveTo, CookieInv, Quiet, Leave, Known, sessionVars
<1>2. ASSUME NEW r \in Request, Answer(r)
      PROVE  Leave({r})
  BY <1>0, <1>2 DEF Answer, MoveTo, Leave, NoLocals
<1>3. ASSUME NEW r \in Request, NEW login \in Login, NEW p \in Password, NEW t \in Target,
             SubmitLogin(r, login, p, t)
      PROVE  Quiet({r})
  <2>1. \A q \in Request : local'[q].cookie = local[q].cookie
    BY <1>0, <1>3 DEF SubmitLogin, Local
  <2>. QED
    BY <1>1, <1>3, <2>1 DEF SubmitLogin, Phase
<1>4. ASSUME NEW r \in Request, RefuseLimited(r) \/ RecordFailure(r) \/ GrantToken(r) \/ RejectCode(r)
      PROVE  Quiet({r})
  BY <1>2, <1>4 DEF RefuseLimited, RecordFailure, GrantToken, RejectCode, Quiet, Known, sessionVars
<1>5. ASSUME NEW r \in Request, PassLimit(r) \/ RecordSuccess(r)
      PROVE  Quiet({r})
  BY <1>1, <1>5 DEF PassLimit, RecordSuccess, Phase, LimitedPhase
<1>6. ASSUME NEW r \in Request, LookupIdentity(r) PROVE Quiet({r})
  <2>1. \A q \in Request : local'[q].cookie = local[q].cookie
    BY <1>0, <1>6 DEF LookupIdentity, Local
  <2>. QED
    BY <1>1, <1>6, <2>1 DEF LookupIdentity, Phase, LimitedPhase
<1>7. ASSUME NEW r \in Request, ReadCredential(r) PROVE Quiet({r})
  <2>1. \A q \in Request : local'[q].cookie = local[q].cookie
    BY <1>0, <1>7 DEF ReadCredential, Local
  <2>2. PICK p \in {"failing", "verify"} : MoveTo(r, p)
    BY <1>7 DEF ReadCredential
  <2>. QED
    BY <1>1, <1>7, <2>1, <2>2 DEF ReadCredential, Phase, LimitedPhase
<1>8. ASSUME NEW r \in Request, NEW c \in Code, IssueCode(r, c) PROVE Quiet({r})
  <2>1. handedOut' = handedOut \cup {local[r].cookie} /\ phase[r] = "code"
    BY <1>8 DEF IssueCode
  <2>. QED
    BY <1>2, <1>8, <2>1 DEF IssueCode, Quiet, Known
<1>9. ASSUME NEW r \in Request, NEW c \in Code, NEW t \in Target \cup {NoTarget}, PopCode(r, c, t)
      PROVE  Quiet({r})
  <2>1. \A q \in Request : local'[q].cookie = local[q].cookie
    BY <1>0, <1>9 DEF PopCode, Local
  <2>. QED
    BY <1>1, <1>9, <2>1 DEF PopCode, Phase
<1>10. ASSUME NEW R \in SUBSET Request, EndRequests(R), UNCHANGED sessionVars
       PROVE  Quiet(R)
  BY <1>0, <1>10 DEF EndRequests, NoLocals, Quiet, Leave, Known, sessionVars
<1>11. ASSUME NEW r \in Request, Abort(r) PROVE Quiet({r})
  BY <1>10, <1>11 DEF Abort
<1>12. ASSUME Crash PROVE Quiet(Request)
  BY <1>10, <1>12 DEF Crash
<1>13. ASSUME Start \/ Administer \/ UNCHANGED vars PROVE Quiet({})
  BY <1>13 DEF Start, Administer, vars, flowVars, requestVars, sessionVars, Quiet, Leave, Known
<1>14. ASSUME NEW r \in Request, Quiet({r}) PROVE \E R \in SUBSET Request : Quiet(R)
  <2>1. {r} \in SUBSET Request
    OBVIOUS
  <2>. QED
    BY <1>14, <2>1
<1>15. CASE \E r \in Request : Quiet({r})
  BY <1>14, <1>15
<1>. QED
  BY <1>3, <1>4, <1>5, <1>6, <1>7, <1>8, <1>9, <1>11, <1>12, <1>13, <1>15 DEF FlowNext, Authenticate

LEMMA StepLeaseInv ==
  ASSUME FlowInv, LeaseInv, [FlowNext]_vars
  PROVE  LeaseInv'
<1>0. /\ phase \in [Request -> Phase]
      /\ local \in [Request -> Local]
      /\ SessionTypes
      /\ RequestInv
  BY DEF FlowInv, FlowTypeOK, RequestTypes
<1>1. ASSUME NEW R \in SUBSET Request, Quiet(R) PROVE LeaseInv'
  BY <1>1 DEF LeaseInv, CookieInv, Created, Quiet, Leave, Known
<1>2. ASSUME NEW r \in Request, NEW s \in Session, CreateSession(r, s) PROVE LeaseInv'
  <2>1. local[r].row \in Identity
    BY <1>0, <1>2 DEF CreateSession, RequestInv, ThreadInv, HasRow
  <2>2. Created(s)' /\ \A x : x # s /\ Created(x) => Created(x)'
    BY <1>0, <1>2, <2>1 DEF CreateSession, Created, SessionTypes
  <2>3. local'[r].cookie = s /\ phase'[r] = "code"
    BY <1>0, <1>2 DEF CreateSession, MoveTo, Local
  <2>4. \A q \in Request \ {r} : local'[q] = local[q] /\ phase'[q] = phase[q]
    BY <1>0, <1>2 DEF CreateSession, MoveTo
  <2>. QED
    BY <1>2, <2>2, <2>3, <2>4 DEF CreateSession, LeaseInv, CookieInv
<1>3. ASSUME NEW r \in Request, NEW s \in Session, NEW t \in Target, ContinueSession(r, s, t)
      PROVE  LeaseInv'
  <2>1. local'[r].cookie = s /\ phase'[r] = "code" /\ Created(s)
    BY <1>0, <1>3 DEF ContinueSession, MoveTo, Local, SessionValid, Created
  <2>2. \A q \in Request \ {r} : local'[q] = local[q] /\ phase'[q] = phase[q]
    BY <1>0, <1>3 DEF ContinueSession, MoveTo
  <2>3. UNCHANGED <<sessionOwner, handedOut, revoked>>
    BY <1>3 DEF ContinueSession, sessionVars
  <2>4. ASSUME NEW q \in Request PROVE CookieInv(q)'
    BY <2>1, <2>2, <2>3 DEF LeaseInv, CookieInv, Created
  <2>. QED
    BY <2>3, <2>4 DEF LeaseInv, Created
<1>4. ASSUME NEW s \in Session, Logout(s) PROVE LeaseInv'
  BY <1>4 DEF Logout, LeaseInv, CookieInv, Created, requestVars
<1>5. CASE Tick
  BY <1>5 DEF Tick, LeaseInv, CookieInv, Created, requestVars
<1>. QED
  BY <1>1, <1>2, <1>3, <1>4, <1>5, StepKinds

-----------------------------------------------------------------------------
(* The refinement. *)

Left == [s \in Session |-> IF SessionStanding[s] = "open" THEN sessionLeft[s] ELSE 0]

Holders == [s \in Session |-> {r \in Request : local[r].cookie = s}]

LEMMA StandingOf ==
  ASSUME NEW s \in Session
  PROVE  /\ ~Created(s) => SessionStanding[s] = "unopened"
         /\ Created(s) /\ s \in revoked => SessionStanding[s] = "closed"
         /\ Created(s) /\ s \notin revoked => SessionStanding[s] = "open"
<1>1. ~Created(s) => SessionStanding[s] = "unopened"
  BY DEF SessionStanding, Created
<1>2. Created(s) /\ s \in revoked => SessionStanding[s] = "closed"
  BY DEF SessionStanding, Created
<1>3. Created(s) /\ s \notin revoked => SessionStanding[s] = "open"
  BY DEF SessionStanding, Created
<1>. QED
  BY <1>1, <1>2, <1>3

LEMMA StandingIsFunction ==
  /\ SessionStanding = [s \in Session |-> SessionStanding[s]]
  /\ SessionStanding' = [s \in Session |-> SessionStanding'[s]]
  BY DEF SessionStanding

LEMMA InitLeases == FlowInit => Lease!LeaseInit
<1> SUFFICES ASSUME FlowInit PROVE Lease!LeaseInit
  OBVIOUS
<1>1. \A s \in Session : SessionStanding[s] = "unopened"
  BY DEF FlowInit, SessionStanding
<1>2. SessionStanding = [s \in Session |-> "unopened"]
  BY <1>1, StandingIsFunction
<1>3. Holders = [s \in Session |-> {}]
  BY DEF FlowInit, Holders, NoLocals
<1>4. Left = [s \in Session |-> 0]
  BY <1>1 DEF FlowInit, Left
<1>. QED
  BY <1>2, <1>3, <1>4 DEF Lease!LeaseInit, Left, Holders

\* Threads end, and sessions with them.
LEMMA Closing ==
  ASSUME FlowInv, NEW S \in SUBSET Session, NEW R \in SUBSET Request,
         \A s \in S : Created(s) /\ s \notin revoked,
         revoked' = revoked \cup S, UNCHANGED <<sessionOwner, sessionLeft>>,
         \A q \in R : local'[q].cookie = NoSession,
         \A q \in Request \ R : local'[q].cookie = local[q].cookie
  PROVE  Lease!Close(S, R)
<1>1. \A s \in S : SessionStanding[s] = "open"
  BY StandingOf
<1>2. \A s \in S : SessionStanding'[s] = "closed"
  BY DEF SessionStanding, Created
<1>3. \A s \in Session \ S : SessionStanding'[s] = SessionStanding[s]
  BY DEF SessionStanding
<1>4. SessionStanding' = [s \in Session |-> IF s \in S THEN "closed" ELSE SessionStanding[s]]
  BY <1>2, <1>3, StandingIsFunction
<1>5. Left' = [s \in Session |-> IF s \in S THEN 0 ELSE Left[s]]
  BY <1>2, <1>3 DEF Left
<1>6. Holders' = [s \in Session |-> Holders[s] \ R]
  BY DEF Holders
<1>. QED
  BY <1>1, <1>4, <1>5, <1>6 DEF Lease!Close, Left, Holders

LEMMA StepLeases ==
  ASSUME FlowInv, LeaseInv, [FlowNext]_vars
  PROVE  [Lease!LeaseNext]_Lease!leaseVars
<1>0. /\ phase \in [Request -> Phase]
      /\ local \in [Request -> Local]
      /\ SessionTypes
      /\ RequestInv
      /\ \A r \in Request : CookieInv(r)
      /\ \A s \in handedOut \cup revoked : Created(s)
  BY DEF FlowInv, FlowTypeOK, RequestTypes, LeaseInv
<1>1. ASSUME NEW R \in SUBSET Request, Quiet(R) PROVE Lease!LeaseNext
  <2>1. Lease!Close({}, R)
    BY <1>1, Closing DEF Quiet, Leave
  <2>. QED
    BY <2>1 DEF Lease!LeaseNext
<1>2. ASSUME NEW r \in Request, NEW s \in Session, CreateSession(r, s) PROVE Lease!LeaseNext
  <2>1. local[r].row \in Identity /\ s \notin revoked /\ ~Created(s)
    BY <1>0, <1>2 DEF CreateSession, RequestInv, ThreadInv, HasRow, Created
  <2>2. \A q \in Request : local[q].cookie # s
    BY <1>0, <2>1 DEF CookieInv, Local
  <2>3. local'[r].cookie = s /\ local[r].cookie = NoSession
    BY <1>0, <1>2 DEF CreateSession, Local, CookieInv
  <2>4. \A q \in Request \ {r} : local'[q] = local[q]
    BY <1>0, <1>2 DEF CreateSession
  <2>5. SessionStanding[s] = "unopened"
    BY <2>1, StandingOf
  <2>6. SessionStanding'[s] = "open"
    BY <1>0, <1>2, <2>1 DEF CreateSession, SessionStanding, SessionTypes
  <2>7. \A x \in Session \ {s} : SessionStanding'[x] = SessionStanding[x]
    BY <1>0, <1>2 DEF CreateSession, SessionStanding, SessionTypes
  <2>8. SessionStanding' = [SessionStanding EXCEPT ![s] = "open"]
    BY <2>6, <2>7, StandingIsFunction
  <2>9. Left' = [Left EXCEPT ![s] = SessionTTL]
    BY <1>0, <1>2, <2>6, <2>7 DEF CreateSession, Left, SessionTypes
  <2>10. Holders' = [Holders EXCEPT ![s] = {r}]
    <3>1. ASSUME NEW x \in Session
          PROVE  {q \in Request : local'[q].cookie = x}
                   = IF x = s THEN {r} ELSE {q \in Request : local[q].cookie = x}
      <4>1. CASE x = s
        BY <2>2, <2>3, <2>4, <4>1
      <4>2. CASE x # s
        BY <2>3, <2>4, <4>2
      <4>. QED
        BY <4>1, <4>2
    <3>. QED
      BY <3>1 DEF Holders
  <2>11. Lease!Open(s, r)
    BY <2>5, <2>8, <2>9, <2>10 DEF Lease!Open, Left, Holders
  <2>. QED
    BY <2>11 DEF Lease!LeaseNext
<1>3. ASSUME NEW r \in Request, NEW s \in Session, NEW t \in Target, ContinueSession(r, s, t)
      PROVE  Lease!LeaseNext
  <2>1. SessionStanding[s] = "open" /\ sessionLeft[s] > 0
    BY <1>3, StandingOf DEF ContinueSession, SessionValid, Created
  <2>2. UNCHANGED <<SessionStanding, Left>>
    BY <1>3 DEF ContinueSession, sessionVars, SessionStanding, Left
  <2>3. local'[r].cookie = s /\ local[r].cookie = NoSession
    BY <1>0, <1>3 DEF ContinueSession, Local, CookieInv
  <2>4. \A q \in Request \ {r} : local'[q] = local[q]
    BY <1>0, <1>3 DEF ContinueSession
  <2>5. Holders' = [Holders EXCEPT ![s] = @ \cup {r}]
    <3>1. ASSUME NEW x \in Session
          PROVE  {q \in Request : local'[q].cookie = x}
                   = IF x = s THEN {q \in Request : local[q].cookie = x} \cup {r}
                              ELSE {q \in Request : local[q].cookie = x}
      <4>1. CASE x = s
        BY <2>3, <2>4, <4>1
      <4>2. CASE x # s
        BY <2>3, <2>4, <4>2
      <4>. QED
        BY <4>1, <4>2
    <3>2. Holders' = [x \in Session |-> IF x = s THEN Holders[x] \cup {r} ELSE Holders[x]]
      BY <3>1 DEF Holders
    <3>. QED
      BY <3>2 DEF Holders
  <2>6. Left[s] > 0
    BY <2>1 DEF Left
  <2>7. Lease!TakeUp(s, r)
    BY <2>1, <2>2, <2>5, <2>6 DEF Lease!TakeUp, Left, Holders
  <2>. QED
    BY <2>7 DEF Lease!LeaseNext
<1>4. ASSUME NEW s \in Session, Logout(s) PROVE Lease!LeaseNext
  <2>1. PICK S \in SUBSET Session : S = {s} \ revoked
    OBVIOUS
  <2>2. \A x \in S : Created(x) /\ x \notin revoked
    BY <1>0, <1>4, <2>1 DEF Logout
  <2>3. revoked' = revoked \cup S /\ UNCHANGED <<sessionOwner, sessionLeft, local>>
    BY <1>4, <2>1 DEF Logout, requestVars
  <2>4. Lease!Close(S, {})
    BY <2>2, <2>3, Closing
  <2>. QED
    BY <2>4 DEF Lease!LeaseNext
<1>5. CASE Tick
  <2>1. UNCHANGED <<SessionStanding, Holders>>
    BY <1>5 DEF Tick, SessionStanding, Holders, requestVars
  <2>2. sessionLeft' = Countdown(sessionLeft)
    BY <1>5 DEF Tick
  <2>3. Left' = [s \in Session |-> IF Left[s] > 0 THEN Left[s] - 1 ELSE 0]
    BY <1>0, <2>1, <2>2 DEF Left, Countdown, SessionTypes
  <2>4. Lease!PassTime
    BY <2>1, <2>3 DEF Lease!PassTime, Left, Holders
  <2>. QED
    BY <2>4 DEF Lease!LeaseNext
<1>. QED
  BY <1>1, <1>2, <1>3, <1>4, <1>5, StepKinds

\* Login sessions are leases: no use, no restart and nothing an administrator
\* does prolongs one, and after its logout or its expiry no further request
\* continues it.
THEOREM SessionsImplementLeases == FlowSpec => SessionsAreLeases
<1>1. FlowInv /\ LeaseInv /\ [FlowNext]_vars => LeaseInv'
  BY StepLeaseInv
<1>2. FlowSpec => []LeaseInv
  BY <1>1, InitLeaseInv, FlowInvariant, PTL DEF FlowSpec
<1>3. FlowInv /\ LeaseInv /\ [FlowNext]_vars => [Lease!LeaseNext]_Lease!leaseVars
  BY StepLeases
<1>. QED
  BY <1>2, <1>3, InitLeases, FlowInvariant, PTL DEF FlowSpec, SessionsAreLeases, Lease!LeaseSpec

-----------------------------------------------------------------------------
(* The whole login is a LoginLimiter.                                       *)

Limiting(r) == phase[r] \in LimitedPhase \cup {"limit"}

\* What was typed is kept while the login goes on, and then as long as its row
\* of failure counts.
AskInv == \A r \in Request : ask[r] # NoAsk => Limiting(r) \/ failAge[r] <= Window

Mapped(p) == CASE p = "limit" -> "check"
               [] p \in LimitedPhase -> "verify"
               [] OTHER -> "idle"

\* The limiter's cardinalities are those of FiniteSets.
LEMMA SameCardinality == \A S : Limiter!Cardinality(S) = Cardinality(S)
  BY DEF Limiter!Cardinality, Cardinality

LEMMA MappedPhases ==
  /\ Mapped("limit") = "check"
  /\ \A p \in LimitedPhase : Mapped(p) = "verify"
  /\ \A p \in Phase : p \notin LimitedPhase \cup {"limit"} => Mapped(p) = "idle"
<1>1. Mapped("limit") = "check"
  BY DEF Mapped, LimitedPhase
<1>2. \A p \in LimitedPhase : Mapped(p) = "verify"
  BY DEF Mapped, LimitedPhase
<1>3. \A p \in Phase : p \notin LimitedPhase \cup {"limit"} => Mapped(p) = "idle"
  BY DEF Mapped, LimitedPhase, Phase
<1> QED
  BY <1>1, <1>2, <1>3

LEMMA LimiterVariables ==
  /\ LimiterPhase = [r \in Request |-> Mapped(phase[r])]
  /\ LimiterPhase' = [r \in Request |-> Mapped(phase'[r])]
  /\ LimiterKey = [r \in Request |-> IF ask[r] = NoAsk THEN NoAsk ELSE ask[r].login]
  /\ LimiterKey' = [r \in Request |-> IF ask'[r] = NoAsk THEN NoAsk ELSE ask'[r].login]
  BY DEF LimiterPhase, LimiterKey, Mapped

\* A thread that moves, and one that has answered.
LEMMA MoveMaps ==
  ASSUME phase \in [Request -> Phase], NEW r \in Request, NEW p \in Phase, MoveTo(r, p)
  PROVE  LimiterPhase' = [LimiterPhase EXCEPT ![r] = Mapped(p)]
  BY LimiterVariables DEF MoveTo

LEMMA KeySame == UNCHANGED ask => UNCHANGED LimiterKey
  BY LimiterVariables

LEMMA KeyDropped ==
  ASSUME ask \in [Request -> Ask \cup {NoAsk}], NEW r \in Request,
         ask' = [ask EXCEPT ![r] = NoAsk]
  PROVE  LimiterKey' = [LimiterKey EXCEPT ![r] = NoAsk]
  BY LimiterVariables

\* The limiter counts what the login counts.
LEMMA SameCount ==
  ASSUME FlowInv, NEW r \in Request, Limiting(r)
  PROVE  /\ LimiterKey[r] = ask[r].login
         /\ Limiter!Limited(LimiterKey[r]) <=> Limited(ask[r].login)
<1>1. ask[r] \in Ask
  BY DEF FlowInv, RequestInv, ThreadInv, HasAsk, Limiting
<1>2. ask[r].login \in Login /\ LimiterKey[r] = ask[r].login
  BY <1>1, LimiterVariables DEF Ask
<1>3. Limiter!Counted(LimiterKey[r]) = Counted(ask[r].login)
  BY <1>2, LimiterVariables DEF Limiter!Counted, Counted
<1>4. Limiter!Limited(LimiterKey[r]) <=> Cardinality(Limiter!Counted(LimiterKey[r])) >= MaxAttempts
  BY SameCardinality DEF Limiter!Limited
<1>5. Limited(ask[r].login) <=> Cardinality(Counted(ask[r].login)) >= MaxAttempts
  BY DEF Limited
<1> QED
  BY <1>2, <1>3, <1>4, <1>5

-----------------------------------------------------------------------------

LEMMA InitLimits == FlowInit => Limiter!LimiterInit /\ AskInv
<1> SUFFICES ASSUME FlowInit PROVE Limiter!LimiterInit /\ AskInv
  OBVIOUS
<1>1. LimiterPhase = [r \in Request |-> "idle"]
  BY LimiterVariables, MappedPhases DEF FlowInit, Phase, LimitedPhase
<1>2. LimiterKey = [r \in Request |-> NoAsk]
  BY LimiterVariables DEF FlowInit
<1> QED
  BY <1>1, <1>2 DEF FlowInit, Limiter!LimiterInit, AskInv, OutOfWindow, Limiter!OutOfWindow

LEMMA StepAskInv ==
  ASSUME FlowInv, AskInv, [FlowNext]_vars
  PROVE  AskInv'
<1>0. /\ phase \in [Request -> Phase]
      /\ ask \in [Request -> Ask \cup {NoAsk}]
      /\ failAge \in [Request -> 0 .. OutOfWindow]
      /\ \A r \in Request : HasAsk(r)
  BY DEF FlowInv, FlowTypeOK, RequestTypes, AuditTypes, RequestInv, ThreadInv
<1> USE DEF AskInv, Limiting
<1>1. ASSUME NEW r \in Request, NEW p, MoveTo(r, p), UNCHANGED <<ask, failAge>>,
             Limiting(r) => p \in LimitedPhase \cup {"limit"}
      PROVE  AskInv'
  BY <1>0, <1>1 DEF MoveTo
<1>2. ASSUME NEW r \in Request, NEW p, MoveTo(r, p), ask' = [ask EXCEPT ![r] = NoAsk],
             UNCHANGED failAge
      PROVE  AskInv'
  BY <1>0, <1>2 DEF MoveTo
<1>3. ASSUME NEW r \in Request, NEW login \in Login, NEW p \in Password, NEW t \in Target,
             SubmitLogin(r, login, p, t)
      PROVE  AskInv'
  BY <1>0, <1>3 DEF SubmitLogin, MoveTo
<1>4. ASSUME NEW r \in Request, RefuseLimited(r) \/ RecordSuccess(r) PROVE AskInv'
  BY <1>2, <1>4 DEF RefuseLimited, RecordSuccess, Answer
<1>5. ASSUME NEW r \in Request, PassLimit(r) \/ LookupIdentity(r) \/ ReadCredential(r)
      PROVE  AskInv'
  <2>1. {"lookup", "credential", "verify", "failing"} = LimitedPhase
    BY DEF LimitedPhase
  <2> QED
    BY <1>1, <1>5, <2>1 DEF PassLimit, LookupIdentity, ReadCredential, auditVars
<1>6. ASSUME NEW r \in Request, RecordFailure(r) PROVE AskInv'
  BY <1>0, <1>6 DEF RecordFailure, Answer, MoveTo
<1>7. ASSUME NEW r \in Request, NEW p, MoveTo(r, p), UNCHANGED auditVars, ~Limiting(r)
      PROVE  AskInv'
  BY <1>1, <1>7 DEF auditVars
<1>8. ASSUME NEW r \in Request, NEW s \in Session, CreateSession(r, s) PROVE AskInv'
  BY <1>7, <1>8 DEF CreateSession, LimitedPhase
<1>9. ASSUME NEW r \in Request, NEW c \in Code, IssueCode(r, c) PROVE AskInv'
  BY <1>7, <1>9 DEF IssueCode, Answer, LimitedPhase
<1>10. ASSUME NEW r \in Request, NEW s \in Session, NEW t \in Target, ContinueSession(r, s, t)
       PROVE  AskInv'
  BY <1>7, <1>10 DEF ContinueSession, LimitedPhase
<1>11. ASSUME NEW r \in Request, NEW c \in Code, NEW t \in Target \cup {NoTarget},
              PopCode(r, c, t)
       PROVE  AskInv'
  BY <1>7, <1>11 DEF PopCode, LimitedPhase
<1>12. ASSUME NEW r \in Request, GrantToken(r) \/ RejectCode(r) PROVE AskInv'
  BY <1>7, <1>12 DEF GrantToken, RejectCode, Answer, LimitedPhase
<1>13. ASSUME NEW R \in SUBSET Request, EndRequests(R), UNCHANGED failAge PROVE AskInv'
  BY <1>0, <1>13 DEF EndRequests, OutOfWindow
<1>14. CASE \/ \E r \in Request : Abort(r)
            \/ Crash
  BY <1>13, <1>14 DEF Abort, Crash
<1>15. CASE \/ \E s \in Session : Logout(s)
            \/ Start \/ Administer \/ UNCHANGED vars
  BY <1>15 DEF Logout, Start, Administer, vars, flowVars, requestVars, auditVars
<1>16. CASE Tick
  BY <1>0, <1>16 DEF Tick, requestVars, HasAsk, OutOfWindow
<1> QED
  BY <1>3, <1>4, <1>5, <1>6, <1>8, <1>9, <1>10, <1>11, <1>12, <1>14, <1>15, <1>16
     DEF FlowNext, Authenticate

LEMMA StepLimits ==
  ASSUME FlowInv, AskInv, [FlowNext]_vars
  PROVE  [Limiter!LimiterNext]_Limiter!limiterVars
<1>0. /\ phase \in [Request -> Phase]
      /\ ask \in [Request -> Ask \cup {NoAsk}]
      /\ failAge \in [Request -> 0 .. OutOfWindow]
      /\ \A r \in Request : HasAsk(r)
  BY DEF FlowInv, FlowTypeOK, RequestTypes, AuditTypes, RequestInv, ThreadInv
<1>1. /\ {"idle", "session", "code", "redeem"} \subseteq Phase
      /\ {"limit"} \cup LimitedPhase \subseteq Phase
      /\ {"idle", "session", "code", "redeem"} \cap (LimitedPhase \cup {"limit"}) = {}
      /\ LimitedPhase = {"lookup", "credential", "verify", "failing"}
  BY DEF Phase, LimitedPhase
<1>2. ASSUME NEW r \in Request, NEW p \in Phase, MoveTo(r, p), UNCHANGED auditVars,
             Mapped(p) = Mapped(phase[r])
      PROVE  UNCHANGED Limiter!limiterVars
  <2>1. LimiterPhase' = LimiterPhase
    BY <1>0, <1>2, LimiterVariables DEF MoveTo
  <2> QED
    BY <1>2, <2>1, KeySame DEF Limiter!limiterVars, auditVars
<1>3. ASSUME NEW r \in Request, NEW login \in Login, NEW p \in Password, NEW t \in Target,
             SubmitLogin(r, login, p, t)
      PROVE  Limiter!Submit(r, login)
  <2>1. LimiterKey[r] = NoAsk
    BY <1>3, LimiterVariables DEF SubmitLogin
  <2>2. LimiterPhase[r] = "idle"
    BY <1>1, <1>3, LimiterVariables, MappedPhases DEF SubmitLogin
  <2>3. Cardinality(Limiter!Open) < Cardinality(Request)
    <3>1. Limiter!Open \subseteq Request /\ r \notin Limiter!Open
      BY <2>2 DEF Limiter!Open
    <3>2. /\ Cardinality(Limiter!Open) <= Cardinality(Request)
          /\ Cardinality(Limiter!Open) # Cardinality(Request)
      BY <3>1, FS_Subset
    <3>3. Cardinality(Limiter!Open) \in Nat /\ Cardinality(Request) \in Nat
      BY <3>1, FS_Subset, FS_CardinalityType
    <3> QED
      BY <3>2, <3>3
  <2>4. LimiterPhase' = [LimiterPhase EXCEPT ![r] = "check"]
    BY <1>0, <1>1, <1>3, MoveMaps, MappedPhases DEF SubmitLogin
  <2>5. LimiterKey' = [LimiterKey EXCEPT ![r] = login]
    <3>1. [login |-> login, password |-> p] # NoAsk
      BY DEF Ask
    <3> QED
      BY <1>0, <1>3, <3>1, LimiterVariables DEF SubmitLogin
  <2>6. UNCHANGED failAge
    BY <1>3 DEF SubmitLogin
  <2> QED
    BY <2>1, <2>3, <2>4, <2>5, <2>6, SameCardinality DEF Limiter!Submit
<1>4. ASSUME NEW r \in Request, RefuseLimited(r) PROVE Limiter!Refuse(r)
  <2>1. LimiterPhase[r] = "check" /\ Limiter!Limited(LimiterKey[r])
    BY <1>4, SameCount, LimiterVariables, MappedPhases DEF RefuseLimited, Limiting
  <2>2. LimiterPhase' = [LimiterPhase EXCEPT ![r] = "idle"]
    BY <1>0, <1>1, <1>4, MoveMaps, MappedPhases DEF RefuseLimited, Answer
  <2>3. LimiterKey' = [LimiterKey EXCEPT ![r] = NoAsk]
    BY <1>0, <1>4, KeyDropped DEF RefuseLimited
  <2> QED
    BY <1>4, <2>1, <2>2, <2>3 DEF RefuseLimited, Limiter!Refuse
<1>5. ASSUME NEW r \in Request, PassLimit(r) PROVE Limiter!Pass(r)
  <2>1. LimiterPhase[r] = "check" /\ ~Limiter!Limited(LimiterKey[r])
    BY <1>5, SameCount, LimiterVariables, MappedPhases DEF PassLimit, Limiting
  <2>2. LimiterPhase' = [LimiterPhase EXCEPT ![r] = "verify"]
    BY <1>0, <1>1, <1>5, MoveMaps, MappedPhases DEF PassLimit
  <2> QED
    BY <1>5, <2>1, <2>2, KeySame DEF PassLimit, Limiter!Pass, auditVars
<1>6. ASSUME NEW r \in Request, LookupIdentity(r) \/ ReadCredential(r)
      PROVE  UNCHANGED Limiter!limiterVars
  BY <1>1, <1>2, <1>6, MappedPhases DEF LookupIdentity, ReadCredential
<1>7. ASSUME NEW r \in Request, RecordFailure(r) PROVE Limiter!Fail(r)
  <2>1. LimiterPhase[r] = "verify"
    BY <1>1, <1>7, LimiterVariables, MappedPhases DEF RecordFailure
  <2>2. LimiterPhase' = [LimiterPhase EXCEPT ![r] = "idle"]
    BY <1>0, <1>1, <1>7, MoveMaps, MappedPhases DEF RecordFailure, Answer
  <2> QED
    BY <1>7, <2>1, <2>2, KeySame DEF RecordFailure, Limiter!Fail
<1>8. ASSUME NEW r \in Request, RecordSuccess(r) PROVE Limiter!Succeed(r)
  <2>1. LimiterPhase[r] = "verify"
    BY <1>1, <1>8, LimiterVariables, MappedPhases DEF RecordSuccess
  <2>2. LimiterPhase' = [LimiterPhase EXCEPT ![r] = "idle"]
    BY <1>0, <1>1, <1>8, MoveMaps, MappedPhases DEF RecordSuccess
  <2>3. LimiterKey' = [LimiterKey EXCEPT ![r] = NoAsk]
    BY <1>0, <1>8, KeyDropped DEF RecordSuccess
  <2> QED
    BY <1>8, <2>1, <2>2, <2>3 DEF RecordSuccess, Limiter!Succeed
<1>9. ASSUME NEW r \in Request,
             \/ \E s \in Session : CreateSession(r, s)
             \/ \E c \in Code : IssueCode(r, c)
             \/ \E s \in Session, t \in Target : ContinueSession(r, s, t)
             \/ \E c \in Code, t \in Target \cup {NoTarget} : PopCode(r, c, t)
             \/ GrantToken(r) \/ RejectCode(r)
      PROVE  UNCHANGED Limiter!limiterVars
  <2>1. /\ phase[r] \in {"idle", "session", "code", "redeem"}
        /\ \E p \in {"idle", "session", "code", "redeem"} : MoveTo(r, p)
        /\ UNCHANGED auditVars
    BY <1>9
       DEF CreateSession, IssueCode, ContinueSession, PopCode, GrantToken, RejectCode, Answer
  <2> QED
    BY <1>1, <1>2, <2>1, MappedPhases
<1>10. ASSUME NEW R \in SUBSET Request, EndRequests(R), UNCHANGED failAge
       PROVE  Limiter!LimiterNext \/ UNCHANGED Limiter!limiterVars
  <2>1. PICK D \in SUBSET Limiter!Open : D = {r \in R : LimiterPhase[r] # "idle"}
    BY DEF Limiter!Open
  <2>2. \A r \in Request : LimiterPhase[r] # "idle" <=> Limiting(r)
    BY <1>0, LimiterVariables, MappedPhases DEF Limiting, LimitedPhase
  <2>3. LimiterPhase' = [r \in Request |-> IF r \in D THEN "idle" ELSE LimiterPhase[r]]
    BY <1>0, <1>1, <1>10, <2>1, LimiterVariables, MappedPhases DEF EndRequests
  <2>4. \A r \in Request : r \in R /\ failAge[r] = OutOfWindow /\ ask[r] # NoAsk <=> r \in D
    BY <1>0, <1>1, <2>1, <2>2 DEF AskInv, HasAsk, Limiting, OutOfWindow
  <2>5. LimiterKey' = [r \in Request |-> IF r \in D THEN NoAsk ELSE LimiterKey[r]]
    BY <1>0, <1>10, <2>4, LimiterVariables DEF EndRequests
  <2>6. CASE D = {}
    BY <1>10, <2>3, <2>5, <2>6, LimiterVariables DEF Limiter!limiterVars
  <2>7. CASE D # {}
    <3>1. Limiter!Abort(D)
      BY <1>10, <2>3, <2>5 DEF Limiter!Abort
    <3> QED
      BY <2>1, <2>7, <3>1 DEF Limiter!LimiterNext
  <2> QED
    BY <2>6, <2>7
<1>11. CASE \/ \E r \in Request : Abort(r)
            \/ Crash
  BY <1>10, <1>11 DEF Abort, Crash
<1>12. CASE \/ \E s \in Session : Logout(s)
            \/ Start \/ Administer \/ UNCHANGED vars
  <2>1. UNCHANGED <<phase, ask, failAge>>
    BY <1>12 DEF Logout, Start, Administer, vars, flowVars, requestVars, auditVars
  <2> QED
    BY <2>1, LimiterVariables DEF Limiter!limiterVars
<1>13. CASE Tick
  <2>1. LimiterPhase' = LimiterPhase
    BY <1>13, LimiterVariables DEF Tick, requestVars
  <2>2. LimiterKey' = [r \in Request |-> IF failAge[r] = Window THEN NoAsk ELSE LimiterKey[r]]
    BY <1>13, LimiterVariables DEF Tick
  <2>3. Limiter!Tick
    BY <1>13, <2>1, <2>2 DEF Tick, Limiter!Tick
  <2> QED
    BY <2>3 DEF Limiter!LimiterNext
<1> QED
  BY <1>3, <1>4, <1>5, <1>6, <1>7, <1>8, <1>9, <1>11, <1>12, <1>13
     DEF FlowNext, Authenticate, Limiter!LimiterNext

\* The login implements the limiter: the count, the slow verification and the
\* row of a failure happen to concurrent logins as LoginLimiter has them, through
\* errors, crashes and restarts, so that OvershootBounded and what else is proved
\* of it holds of the whole login.
THEOREM LoginImplementsLimiter == FlowSpec => LoginIsLimited
<1>1. FlowInv /\ AskInv /\ [FlowNext]_vars => AskInv'
  BY StepAskInv
<1>2. FlowInv /\ AskInv /\ [FlowNext]_vars => [Limiter!LimiterNext]_Limiter!limiterVars
  BY StepLimits
<1> QED
  BY <1>1, <1>2, InitLimits, FlowInvariant, PTL
     DEF FlowSpec, LoginIsLimited, Limiter!LimiterSpec

=============================================================================
