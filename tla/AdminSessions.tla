--------------------------- MODULE AdminSessions ----------------------------
(***************************************************************************)
(* The sessions of the admin pages:                                        *)
(*                                                                         *)
(*   POST /admin/login   compare the admin token, issue a session, write   *)
(*                       the admin.login row, send the cookie              *)
(*   GET /admin, POST /admin/action   check the session, then work on the  *)
(*                       catalog                                           *)
(*   /admin/logout       revoke the session, write the admin.logout row    *)
(*                                                                         *)
(* Sessions are entries of the dict admin_sessions, touched under a lock;  *)
(* audit rows are transactions of their own.  A handler does one after the *)
(* other, and each may fail, so each is an action.  What the operation on  *)
(* the catalog does is the business of Catalog.                            *)
(*                                                                         *)
(* A login with a wrong token, or where no admin_token is configured, and  *)
(* a request whose cookie is of no session change nothing here.            *)
(***************************************************************************)
EXTENDS Integers

CONSTANTS
  Request,     \* server threads: bound on requests open at once
  Token,       \* session tokens: bound on sessions ever issued
  SessionTTL,  \* session_ttl_seconds
  NoToken

ASSUME AdminAssumption ==
  /\ SessionTTL \in Nat \ {0}
  /\ NoToken \notin Token

VARIABLES
  up,        \* the server process runs
  phase,     \* where the thread of a request stands
  cookie,    \* the session a request is at work with
  drawn,     \* tokens ever issued
  stored,    \* keys of the dict admin_sessions
  left,      \* ticks until the expires_at of an entry
  browsers,  \* tokens whose cookie was sent
  audited    \* tokens whose login has its admin.login row

adminVars == <<up, phase, cookie, drawn, stored, left, browsers, audited>>

Phase == {"idle", "issued", "recorded", "admitted", "revoked"}

AdminInit ==
  /\ up = FALSE
  /\ phase = [r \in Request |-> "idle"]
  /\ cookie = [r \in Request |-> NoToken]
  /\ drawn = {}
  /\ stored = {}
  /\ left = [t \in Token |-> 0]
  /\ browsers = {}
  /\ audited = {}

MoveTo(r, p) == phase' = [phase EXCEPT ![r] = p]

Answer(r) ==
  /\ MoveTo(r, "idle")
  /\ cookie' = [cookie EXCEPT ![r] = NoToken]

-----------------------------------------------------------------------------
(* POST /admin/login with the right token *)

IssueAndSend(r, t) ==
  /\ up
  /\ phase[r] = "idle"
  /\ t \notin drawn
  /\ drawn' = drawn \cup {t}
  /\ stored' = stored \cup {t}
  /\ left' = [left EXCEPT ![t] = SessionTTL]
  /\ cookie' = [cookie EXCEPT ![r] = t]
  /\ browsers' = browsers \cup {t}
  /\ MoveTo(r, "issued")
  /\ UNCHANGED <<up, audited>>

\* (The lifetime is taken for minutes.)
IssueForMinutes(r, t) ==
  /\ up
  /\ phase[r] = "idle"
  /\ t \notin drawn
  /\ drawn' = drawn \cup {t}
  /\ stored' = stored \cup {t}
  /\ left' = [left EXCEPT ![t] = 60 * SessionTTL]
  /\ cookie' = [cookie EXCEPT ![r] = t]
  /\ MoveTo(r, "issued")
  /\ UNCHANGED <<up, browsers, audited>>

IssueSession(r, t) ==
  /\ up
  /\ phase[r] = "idle"
  /\ t \notin drawn
  /\ drawn' = drawn \cup {t}
  /\ stored' = stored \cup {t}
  /\ left' = [left EXCEPT ![t] = SessionTTL]
  /\ cookie' = [cookie EXCEPT ![r] = t]
  /\ MoveTo(r, "issued")
  /\ UNCHANGED <<up, browsers, audited>>

RecordLogin(r) ==
  /\ phase[r] = "issued"
  /\ audited' = audited \cup {cookie[r]}
  /\ MoveTo(r, "recorded")
  /\ UNCHANGED <<up, cookie, drawn, stored, left, browsers>>

SendCookie(r) ==
  /\ phase[r] = "recorded"
  /\ browsers' = browsers \cup {cookie[r]}
  /\ Answer(r)
  /\ UNCHANGED <<up, drawn, stored, left, audited>>

-----------------------------------------------------------------------------
(* GET /admin and POST /admin/action with a cookie *)

Valid(t) == t \in stored /\ left[t] > 0

AdmitExpired(r, t) ==
  /\ up
  /\ phase[r] = "idle"
  /\ t \in browsers
  /\ t \in stored
  /\ cookie' = [cookie EXCEPT ![r] = t]
  /\ MoveTo(r, "admitted")
  /\ UNCHANGED <<up, drawn, stored, left, browsers, audited>>

AdmitRenewing(r, t) ==
  /\ up
  /\ phase[r] = "idle"
  /\ t \in browsers
  /\ Valid(t)
  /\ left' = [left EXCEPT ![t] = SessionTTL]
  /\ cookie' = [cookie EXCEPT ![r] = t]
  /\ MoveTo(r, "admitted")
  /\ UNCHANGED <<up, drawn, stored, browsers, audited>>

Admit(r, t) ==
  /\ up
  /\ phase[r] = "idle"
  /\ t \in browsers
  /\ Valid(t)
  /\ cookie' = [cookie EXCEPT ![r] = t]
  /\ MoveTo(r, "admitted")
  /\ UNCHANGED <<up, drawn, stored, left, browsers, audited>>

\* An expired entry is dropped, and the request sent to the login form.
DropExpired(t) ==
  /\ up
  /\ t \in browsers \cap stored
  /\ left[t] = 0
  /\ stored' = stored \ {t}
  /\ UNCHANGED <<up, phase, cookie, drawn, left, browsers, audited>>

\* The catalog operation, done or refused by the catalog, and the redirect.
Act(r) ==
  /\ phase[r] = "admitted"
  /\ Answer(r)
  /\ UNCHANGED <<up, drawn, stored, left, browsers, audited>>

-----------------------------------------------------------------------------
(* /admin/logout *)

\* The cookie is not checked before; one of no session removes nothing.
Revoke(r, t) ==
  /\ up
  /\ phase[r] = "idle"
  /\ t \in browsers
  /\ stored' = stored \ {t}
  /\ MoveTo(r, "revoked")
  /\ UNCHANGED <<up, cookie, drawn, left, browsers, audited>>

\* The admin.logout row and the redirect that clears the cookie.
RecordLogout(r) ==
  /\ phase[r] = "revoked"
  /\ Answer(r)
  /\ UNCHANGED <<up, drawn, stored, left, browsers, audited>>

-----------------------------------------------------------------------------

\* Status 500: a row that could not be written, a database that is locked.
Abort(r) ==
  /\ phase[r] # "idle"
  /\ Answer(r)
  /\ UNCHANGED <<up, drawn, stored, left, browsers, audited>>

Crash ==
  /\ up
  /\ up' = FALSE
  /\ phase' = [r \in Request |-> "idle"]
  /\ cookie' = [r \in Request |-> NoToken]
  /\ stored' = {}
  /\ UNCHANGED <<drawn, left, browsers, audited>>

Start ==
  /\ ~up
  /\ up' = TRUE
  /\ UNCHANGED <<phase, cookie, drawn, stored, left, browsers, audited>>

Tick ==
  /\ left' = [t \in Token |-> IF left[t] > 0 THEN left[t] - 1 ELSE 0]
  /\ UNCHANGED <<up, phase, cookie, drawn, stored, browsers, audited>>

AdminNext ==
  \/ \E r \in Request :
       \/ \E t \in Token : IssueSession(r, t) \/ Admit(r, t) \/ Revoke(r, t)
       \/ RecordLogin(r)
       \/ SendCookie(r)
       \/ Act(r)
       \/ RecordLogout(r)
       \/ Abort(r)
  \/ \E t \in Token : DropExpired(t)
  \/ Crash
  \/ Start
  \/ Tick

AdminSpec == AdminInit /\ [][AdminNext]_adminVars

\* Time passes.
TimedSpec == AdminSpec /\ WF_adminVars(Tick)

-----------------------------------------------------------------------------

AdminTypeOK ==
  /\ up \in BOOLEAN
  /\ phase \in [Request -> Phase]
  /\ cookie \in [Request -> Token \cup {NoToken}]
  /\ drawn \subseteq Token
  /\ stored \subseteq drawn
  /\ left \in [Token -> 0 .. SessionTTL]
  /\ browsers \subseteq drawn
  /\ audited \subseteq drawn

\* Nobody administers unrecorded: the admin.login row is there before a browser
\* gets the cookie and whenever a request is at work with a session, though the
\* session is in the dict before the row is written and stays there when the
\* write fails (server.py:283-287).
NoUnrecordedAdmin ==
  /\ browsers \subseteq audited
  /\ \A r \in Request : phase[r] = "admitted" => cookie[r] \in audited

Lease == INSTANCE SessionLease WITH
  Client <- Request, Lifetime <- SessionTTL,
  standing <- [t \in Token |-> IF t \in stored THEN "open"
                               ELSE IF t \in drawn THEN "closed" ELSE "unopened"],
  left <- [t \in Token |-> IF t \in stored THEN left[t] ELSE 0],
  holders <- [t \in Token |-> {r \in Request : cookie[r] = t}]

\* Admin sessions are leases: a logout, an expiry or a restart ends a session
\* for good, whatever requests with the same cookie are doing, and only requests
\* admitted before may still act (server.py:93-117 and 295-298).
AdminSessionsAreLeases == Lease!LeaseSpec

\* No use keeps an admin session alive: every session that is issued ends, also
\* when a browser never stops using it (server.py:93-111).
SessionsEnd == \A t \in Token : t \in drawn ~> ~Valid(t)

=============================================================================
