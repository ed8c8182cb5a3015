----------------------------- MODULE LoginFlow ------------------------------
(***************************************************************************)
(* The browser login of AuthNode with browser_login_provider = local_iam:  *)
(*                                                                         *)
(*   POST /login             authenticate, create a session, issue a code  *)
(*   GET /login with cookie  read the session, issue a code                *)
(*   POST /v1/auth/exchange  pop the code, check it, answer with a token   *)
(*   GET /logout             revoke the session                            *)
(*                                                                         *)
(* over the catalog rows of Directory.  ThreadingHTTPServer runs a thread  *)
(* per request and every catalog call is a connection of its own, so each  *)
(* read, each transaction and each locked section is an action; between    *)
(* two of them other requests and administrators run.  Codes live in the   *)
(* memory of the process, sessions and audit rows in the database.         *)
(*                                                                         *)
(* Expiry times are kept as the ticks left until them: 0 is expired.       *)
(***************************************************************************)
EXTENDS Directory, Integers, Sequences

CONSTANTS
  Request,     \* server threads: bound on requests open at once
  Login,       \* (username, tenant) pairs as typed: `alice' or `pska:alice',
  IdentityOf,  \*   tenant id or key; and the identity each is looked up as
  Target,      \* downstream services a code can be issued for
  Session,     \* session tokens: bound on sessions ever created
  Code,        \* login codes: bound on codes ever issued
  MaxAttempts, \* login_rate_limit
  Window,
  SessionTTL,  \* session_ttl_seconds
  CodeTTL,     \* the 300 seconds of issue_auth_code
  NoAsk, NoIdentity, NoSession, NoCode, NoTarget, NoPayload

Ask == [login : Login, password : Password]

Payload == [identity : Identity, target : Target]

ASSUME FlowAssumption ==
  /\ IdentityOf \in [Login -> Identity]
  /\ MaxAttempts \in Nat \ {0}
  /\ Window \in Nat
  /\ SessionTTL \in Nat
  /\ CodeTTL \in Nat
  /\ IsFiniteSet(Request)
  /\ NoAsk \notin Ask \cup Login
  /\ NoIdentity \notin Identity
  /\ NoSession \notin Session
  /\ NoCode \notin Code
  /\ NoTarget \notin Target
  /\ NoPayload \notin Payload

VARIABLES
  up,           \* the server process runs
  phase,        \* where the thread of a request stands
  local,        \* the local variables of a request's thread
  ask,          \* what a login, or a failure row in the window, was typed as
  failAge,      \* age of the login.failure row a request has left
  successes,    \* identities with a login.success row
  sessionOwner, \* sessions table: whom a session is for,
  sessionLeft,  \*   the ticks until expires_at,
  revoked,      \*   and whether revoked_at is set
  handedOut,    \* sessions whose cookie was sent to a browser
  stored,       \* keys of the dict auth_codes
  payload,      \* what a code was issued for
  codeLeft,     \* ticks until its "exp"
  tokens        \* per code, the tokens the exchange has answered with

requestVars == <<phase, local>>
auditVars == <<ask, failAge, successes>>
sessionVars == <<sessionOwner, sessionLeft, revoked, handedOut>>
codeVars == <<stored, payload, codeLeft, tokens>>
flowVars == <<up, requestVars, auditVars, sessionVars, codeVars>>
vars == <<directoryVars, flowVars>>

LimitedPhase == {"lookup", "credential", "verify", "failing"}

Phase == {"idle", "limit", "session", "code", "redeem"} \cup LimitedPhase

Local == [row    : Identity \cup {NoIdentity},            \* identity read
          hash   : Password \cup {NoPassword},            \* credential read
          cookie : Session \cup {NoSession},              \* session read or created
          held   : Code \cup {NoCode},                    \* code popped
          target : Target \cup {NoTarget}]                \* target named

NoLocals == [row |-> NoIdentity, hash |-> NoPassword, cookie |-> NoSession,
             held |-> NoCode, target |-> NoTarget]

OutOfWindow == Window + 1

-----------------------------------------------------------------------------
(* Reads of the catalog. *)

\* is_rate_limited: the limit counts what was typed, not whom it stands for.
Counted(login) ==
  {r \in Request : failAge[r] <= Window /\ ask[r] # NoAsk /\ ask[r].login = login}

LimitedOffByOne(login) == Cardinality(Counted(login)) > MaxAttempts

Limited(login) == Cardinality(Counted(login)) >= MaxAttempts

SessionValidForEver(s) ==
  /\ sessionOwner[s] # NoIdentity
  /\ s \notin revoked
  /\ Active(sessionOwner[s])

\* session_for_token: the WHERE clause of its query.
SessionValid(s) ==
  /\ sessionOwner[s] # NoIdentity
  /\ s \notin revoked
  /\ sessionLeft[s] > 0
  /\ Active(sessionOwner[s])

-----------------------------------------------------------------------------

FlowInit ==
  /\ DirectoryInit
  /\ up = FALSE
  /\ phase = [r \in Request |-> "idle"]
  /\ local = [r \in Request |-> NoLocals]
  /\ ask = [r \in Request |-> NoAsk]
  /\ failAge = [r \in Request |-> OutOfWindow]
  /\ successes = {}
  /\ sessionOwner = [s \in Session |-> NoIdentity]
  /\ sessionLeft = [s \in Session |-> 0]
  /\ revoked = {}
  /\ handedOut = {}
  /\ stored = {}
  /\ payload = [c \in Code |-> NoPayload]
  /\ codeLeft = [c \in Code |-> 0]
  /\ tokens = [c \in Code |-> <<>>]

-----------------------------------------------------------------------------
(* POST /login *)

MoveTo(r, p) == phase' = [phase EXCEPT ![r] = p]

\* The thread has sent its response.
Answer(r) ==
  /\ MoveTo(r, "idle")
  /\ local' = [local EXCEPT ![r] = NoLocals]

SubmitLogin(r, login, password, t) ==
  /\ up
  /\ phase[r] = "idle"
  /\ ask[r] = NoAsk
  /\ MoveTo(r, "limit")
  /\ ask' = [ask EXCEPT ![r] = [login |-> login, password |-> password]]
  /\ local' = [local EXCEPT ![r].target = t]
  /\ UNCHANGED <<directoryVars, up, failAge, successes, sessionVars, codeVars>>

\* Limited: login.rate_limited is audited, which no one counts, and the
\* request is answered with 401.
RefuseLimited(r) ==
  /\ phase[r] = "limit"
  /\ Limited(ask[r].login)
  /\ Answer(r)
  /\ ask' = [ask EXCEPT ![r] = NoAsk]
  /\ UNCHANGED <<directoryVars, up, failAge, successes, sessionVars, codeVars>>

PassLimit(r) ==
  /\ phase[r] = "limit"
  /\ ~Limited(ask[r].login)
  /\ MoveTo(r, "lookup")
  /\ UNCHANGED <<directoryVars, up, local, auditVars, sessionVars, codeVars>>

LookupIdentityOfAnyone(r) ==
  LET id == IdentityOf[ask[r].login] IN
    /\ phase[r] = "lookup"
    /\ local' = [local EXCEPT ![r].row = id]
    /\ MoveTo(r, "credential")
    /\ UNCHANGED <<directoryVars, up, auditVars, sessionVars, codeVars>>

LookupIdentity(r) ==
  LET id == IdentityOf[ask[r].login] IN
    /\ phase[r] = "lookup"
    /\ \/ /\ Active(id)
          /\ local' = [local EXCEPT ![r].row = id]
          /\ MoveTo(r, "credential")
       \/ /\ ~Active(id)
          /\ UNCHANGED local
          /\ MoveTo(r, "failing")
    /\ UNCHANGED <<directoryVars, up, auditVars, sessionVars, codeVars>>

\* A second SELECT, in a snapshot of its own.
ReadCredential(r) ==
  LET credential == credentials[local[r].row[1]] IN
    /\ phase[r] = "credential"
    /\ local' = [local EXCEPT ![r].hash = credential]
    /\ MoveTo(r, IF credential = NoPassword THEN "failing" ELSE "verify")
    /\ UNCHANGED <<directoryVars, up, auditVars, sessionVars, codeVars>>

RecordFailureUnraised(r) ==
  /\ \/ phase[r] = "failing"
     \/ phase[r] = "verify" /\ local[r].hash # ask[r].password
  /\ MoveTo(r, "session")
  /\ failAge' = [failAge EXCEPT ![r] = 0]
  /\ UNCHANGED <<directoryVars, up, local, ask, successes, sessionVars, codeVars>>

\* login.failure: not_found, no_password or bad_password; status 401.
RecordFailure(r) ==
  /\ \/ phase[r] = "failing"
     \/ phase[r] = "verify" /\ local[r].hash # ask[r].password
  /\ Answer(r)
  /\ failAge' = [failAge EXCEPT ![r] = 0]
  /\ UNCHANGED <<directoryVars, up, ask, successes, sessionVars, codeVars>>

RecordSuccess(r) ==
  /\ phase[r] = "verify"
  /\ local[r].hash = ask[r].password
  /\ MoveTo(r, "session")
  /\ successes' = successes \cup {local[r].row}
  /\ ask' = [ask EXCEPT ![r] = NoAsk]
  /\ UNCHANGED <<directoryVars, up, local, failAge, sessionVars, codeVars>>

\* create_session: a transaction of its own, after authenticate returned.
CreateSession(r, s) ==
  /\ phase[r] = "session"
  /\ sessionOwner[s] = NoIdentity
  /\ sessionOwner' = [sessionOwner EXCEPT ![s] = local[r].row]
  /\ sessionLeft' = [sessionLeft EXCEPT ![s] = SessionTTL]
  /\ local' = [local EXCEPT ![r].cookie = s]
  /\ MoveTo(r, "code")
  /\ UNCHANGED <<directoryVars, up, auditVars, revoked, handedOut, codeVars>>

\* (The code lives as long as a session.)
IssueLastingCode(r, c) ==
  /\ phase[r] = "code"
  /\ payload[c] = NoPayload
  /\ stored' = stored \cup {c}
  /\ payload' = [payload EXCEPT ![c] = [identity |-> local[r].row, target |-> local[r].target]]
  /\ codeLeft' = [codeLeft EXCEPT ![c] = SessionTTL]
  /\ handedOut' = handedOut \cup {local[r].cookie}
  /\ Answer(r)
  /\ UNCHANGED <<directoryVars, up, auditVars, sessionOwner, sessionLeft, revoked, tokens>>

\* issue_auth_code with the identity the thread holds, then the redirect that
\* carries the code (and, after a login, sets the session cookie).
IssueCode(r, c) ==
  /\ phase[r] = "code"
  /\ payload[c] = NoPayload
  /\ stored' = stored \cup {c}
  /\ payload' = [payload EXCEPT ![c] = [identity |-> local[r].row, target |-> local[r].target]]
  /\ codeLeft' = [codeLeft EXCEPT ![c] = CodeTTL]
  /\ handedOut' = handedOut \cup {local[r].cookie}
  /\ Answer(r)
  /\ UNCHANGED <<directoryVars, up, auditVars, sessionOwner, sessionLeft, revoked, tokens>>

-----------------------------------------------------------------------------
(* GET /login with a session cookie, and GET /logout *)

\* Any other cookie gets the login form, which changes nothing.
ContinueSession(r, s, t) ==
  /\ up
  /\ phase[r] = "idle"
  /\ s \in handedOut
  /\ SessionValid(s)
  /\ local' = [local EXCEPT ![r].row = sessionOwner[s], ![r].cookie = s, ![r].target = t]
  /\ MoveTo(r, "code")
  /\ UNCHANGED <<directoryVars, up, auditVars, sessionVars, codeVars>>

Logout(s) ==
  /\ up
  /\ s \in handedOut
  /\ revoked' = revoked \cup {s}
  /\ UNCHANGED <<directoryVars, up, requestVars, auditVars, sessionOwner, sessionLeft, handedOut, codeVars>>

-----------------------------------------------------------------------------
(* POST /v1/auth/exchange *)

PeekCode(r, c, t) ==
  /\ up
  /\ phase[r] = "idle"
  /\ c \in stored
  /\ local' = [local EXCEPT ![r].held = c, ![r].target = t]
  /\ MoveTo(r, "redeem")
  /\ UNCHANGED <<directoryVars, up, auditVars, sessionVars, codeVars>>

\* The pop under auth_codes_lock.  NoTarget: the body names no target.
PopCode(r, c, t) ==
  /\ up
  /\ phase[r] = "idle"
  /\ c \in stored
  /\ stored' = stored \ {c}
  /\ local' = [local EXCEPT ![r].held = c, ![r].target = t]
  /\ MoveTo(r, "redeem")
  /\ UNCHANGED <<directoryVars, up, auditVars, sessionVars, payload, codeLeft, tokens>>

\* After the lock is released: the clock, then the target.
Redeemable(r) ==
  LET c == local[r].held IN
    /\ codeLeft[c] > 0
    /\ local[r].target \in {NoTarget, payload[c].target}

\* The token is made from the identity stored with the code.
GrantToken(r) ==
  LET c == local[r].held IN
    /\ phase[r] = "redeem"
    /\ Redeemable(r)
    /\ tokens' = [tokens EXCEPT ![c] = Append(@, payload[c])]
    /\ Answer(r)
    /\ UNCHANGED <<directoryVars, up, auditVars, sessionVars, stored, payload, codeLeft>>

\* Expired or for another target: status 400, and the code stays consumed.
RejectCode(r) ==
  /\ phase[r] = "redeem"
  /\ ~Redeemable(r)
  /\ Answer(r)
  /\ UNCHANGED <<directoryVars, up, auditVars, sessionVars, codeVars>>

-----------------------------------------------------------------------------
(* Failures, restarts, time *)

\* The threads in R end without an answer: an unexpected error (status 500),
\* or the end of the process.  A popped code is lost with its thread.
EndRequests(R) ==
  /\ phase' = [r \in Request |-> IF r \in R THEN "idle" ELSE phase[r]]
  /\ local' = [r \in Request |-> IF r \in R THEN NoLocals ELSE local[r]]
  /\ ask' = [r \in Request |->
       IF r \in R /\ failAge[r] = OutOfWindow THEN NoAsk ELSE ask[r]]

Abort(r) ==
  /\ phase[r] # "idle"
  /\ EndRequests({r})
  /\ UNCHANGED <<directoryVars, up, failAge, successes, sessionVars, codeVars>>

\* The process ends: memory is lost, the database is not.
Crash ==
  /\ up
  /\ up' = FALSE
  /\ EndRequests(Request)
  /\ stored' = {}
  /\ UNCHANGED <<directoryVars, failAge, successes, sessionVars, payload, codeLeft, tokens>>

\* AuthNodeHTTPServer.__init__ seeds the catalog before the first request;
\* a seed that raises keeps the server from starting.
Start ==
  /\ ~up
  /\ up' = TRUE
  /\ Seed
  /\ UNCHANGED <<requestVars, auditVars, sessionVars, codeVars>>

Administer == DirectoryNext /\ UNCHANGED flowVars

Countdown(left) == [x \in DOMAIN left |-> IF left[x] > 0 THEN left[x] - 1 ELSE 0]

Tick ==
  /\ failAge' = [r \in Request |-> IF failAge[r] <= Window THEN failAge[r] + 1 ELSE failAge[r]]
  /\ ask' = [r \in Request |-> IF failAge[r] = Window THEN NoAsk ELSE ask[r]]
  /\ sessionLeft' = Countdown(sessionLeft)
  /\ codeLeft' = Countdown(codeLeft)
  /\ UNCHANGED <<directoryVars, up, requestVars, successes, sessionOwner, revoked,
                 handedOut, stored, payload, tokens>>

Authenticate(r) ==
  \/ RefuseLimited(r)
  \/ PassLimit(r)
  \/ LookupIdentity(r)
  \/ ReadCredential(r)
  \/ RecordFailure(r)
  \/ RecordSuccess(r)

FlowNext ==
  \/ \E r \in Request :
       \/ \E login \in Login, p \in Password, t \in Target : SubmitLogin(r, login, p, t)
       \/ Authenticate(r)
       \/ \E s \in Session : CreateSession(r, s)
       \/ \E c \in Code : IssueCode(r, c)
       \/ \E s \in Session, t \in Target : ContinueSession(r, s, t)
       \/ \E c \in Code, t \in Target \cup {NoTarget} : PopCode(r, c, t)
       \/ GrantToken(r)
       \/ RejectCode(r)
       \/ Abort(r)
  \/ \E s \in Session : Logout(s)
  \/ Crash
  \/ Start
  \/ Administer
  \/ Tick

FlowSpec == FlowInit /\ [][FlowNext]_vars

-----------------------------------------------------------------------------

RequestTypes ==
  /\ phase \in [Request -> Phase]
  /\ local \in [Request -> Local]

AuditTypes ==
  /\ ask \in [Request -> Ask \cup {NoAsk}]
  /\ failAge \in [Request -> 0 .. OutOfWindow]
  /\ successes \subseteq Identity

SessionTypes ==
  /\ sessionOwner \in [Session -> Identity \cup {NoIdentity}]
  /\ sessionLeft \in [Session -> 0 .. SessionTTL]
  /\ revoked \subseteq Session
  /\ handedOut \subseteq Session

CodeTypes ==
  /\ stored \subseteq Code
  /\ payload \in [Code -> Payload \cup {NoPayload}]
  /\ codeLeft \in [Code -> 0 .. CodeTTL]
  /\ tokens \in [Code -> Seq(Payload)]

FlowTypeOK ==
  /\ DirectoryTypeOK
  /\ up \in BOOLEAN
  /\ RequestTypes
  /\ AuditTypes
  /\ SessionTypes
  /\ CodeTypes

\* Whoever holds a credential of AuthNode has logged in: sessions, codes and
\* tokens exist only for identities with a recorded successful login, however
\* requests interleave and whatever a restart has lost (server.py:505-528,
\* 408-418 and 617-655).
Grounded ==
  /\ \A s \in Session : sessionOwner[s] # NoIdentity => sessionOwner[s] \in successes
  /\ \A c \in Code :
       /\ payload[c] # NoPayload => payload[c].identity \in successes
       /\ \A i \in DOMAIN tokens[c] : tokens[c][i].identity \in successes

\* What an administrator has disabled stays disabled: neither an upsert nor the
\* seed of a restart brings back a disabled user or tenant, and a removed
\* membership comes back only when it is added again or is in the configuration
\* file (catalog.py:57-78, 86-96, 136-147 and 216-225).
DisabledStays ==
  [][/\ \A u \in User : users[u] = "disabled" /\ users'[u] # "disabled" => EnableUser(u)
     /\ \A t \in Tenant : tenants[t] = "disabled" /\ tenants'[t] # "disabled" => EnableTenant(t)
     /\ \A id \in Identity :
          members[id] = "disabled" /\ members'[id] # "disabled" =>
            AddMembership(id[1], id[2]) \/ (Seed /\ id \in SeedMembers)]_vars

\* The contract says that disabled users, disabled tenants and missing
\* memberships fail closed before downstream credentials are issued
\* (contracts/authnode-fastreact-pska.md:31-33): a token is granted only to an
\* identity that is active.  The exchange does not look at the catalog
\* (server.py:631-639), so this does not hold.
TokenOnlyWhileActive ==
  [][\A c \in Code :
       Len(tokens'[c]) > Len(tokens[c]) => Active(payload[c].identity)]_vars

-----------------------------------------------------------------------------
(* The login codes are one-time tickets, and the limiter's promise holds of *)
(* the whole login.                                                         *)

TicketState ==
  [c \in Code |->
     CASE payload[c] = NoPayload -> "unissued"
       [] tokens[c] # <<>> -> "redeemed"
       [] tokens[c] = <<>> /\ payload[c] # NoPayload
            /\ (c \in stored \/ \E r \in Request : local[r].held = c) -> "live"
       [] OTHER -> "void"]

Tickets == INSTANCE OneTimeTicket WITH
  Ticket <- Code, Subject <- Payload, NoSubject <- NoPayload, Lifetime <- CodeTTL,
  state <- TicketState,
  left <- [c \in Code |-> IF TicketState[c] = "live" THEN codeLeft[c] ELSE 0],
  subject <- payload, answers <- tokens

\* Login codes implement one-time tickets: at most one token per code, for the
\* identity and target it was issued for, before its expiry, and none after a
\* failed presentation or a restart (server.py:58-91 and 617-655).
CodesAreTickets == Tickets!TicketSpec

SessionStanding ==
  [s \in Session |-> CASE sessionOwner[s] = NoIdentity -> "unopened"
                       [] sessionOwner[s] # NoIdentity /\ s \in revoked -> "closed"
                       [] OTHER -> "open"]

Lease == INSTANCE SessionLease WITH
  Token <- Session, Client <- Request, Lifetime <- SessionTTL,
  standing <- SessionStanding,
  left <- [s \in Session |-> IF SessionStanding[s] = "open" THEN sessionLeft[s] ELSE 0],
  holders <- [s \in Session |-> {r \in Request : local[r].cookie = s}]

\* Login sessions are leases: a session of the database expires at the time set
\* when it was created, across restarts and however often it is used, and after
\* it expired or was revoked no further request takes it up, not after a restart,
\* a re-seed, or an enable of its owner (catalog.py:353-405, server.py:408-418).
SessionsAreLeases == Lease!LeaseSpec

LimiterPhase ==
  [r \in Request |-> CASE phase[r] = "limit" -> "check"
                       [] phase[r] \in LimitedPhase -> "verify"
                       [] OTHER -> "idle"]

LimiterKey ==
  [r \in Request |-> IF ask[r] = NoAsk THEN NoAsk ELSE ask[r].login]

Limiter == INSTANCE LoginLimiter WITH
  Attempt <- Request, Key <- Login, NoKey <- NoAsk, Concurrency <- Cardinality(Request),
  phase <- LimiterPhase, key <- LimiterKey, age <- failAge

\* The login implements the limiter's specification, so the bound on failures
\* per window holds of it (catalog.py:284-312 and 407-420).
LoginIsLimited == Limiter!LimiterSpec

=============================================================================
