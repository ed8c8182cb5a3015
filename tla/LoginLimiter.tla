---------------------------- MODULE LoginLimiter ----------------------------
(***************************************************************************)
(* The login rate limit of AuthCatalog.authenticate.                       *)
(*                                                                         *)
(* Every login.failure row of audit_events is counted for Window seconds   *)
(* under the (username, tenant) pair AS TYPED.  A request first counts the *)
(* rows on a connection of its own and decides (is_rate_limited), then     *)
(* verifies the credentials on another connection, and commits its own row *)
(* only at the end: ThreadingHTTPServer runs one thread per request, so    *)
(* other requests run between the count and the row.                       *)
(*                                                                         *)
(* Time is kept as ages: a row written now has age 0 and                   *)
(* `created_at >= now - window' is `age <= Window'.  A row past the window *)
(* is never read again, so its attempt identity can be used again.         *)
(***************************************************************************)
EXTENDS Naturals, FiniteSets

CONSTANTS
  Attempt,      \* identities of login attempts (and of the row each may leave)
  Key,          \* (username, tenant) pairs as typed into the form
  NoKey,
  MaxAttempts,  \* login_rate_limit.max_attempts
  Window,       \* login_rate_limit.window_seconds, in clock ticks
  Concurrency   \* bound: login requests that are open at the same time

ASSUME LimitAssumption ==
  /\ MaxAttempts \in Nat \ {0}
  /\ Window \in Nat
  /\ Concurrency \in Nat \ {0}
  /\ NoKey \notin Key

ASSUME AttemptAssumption == IsFiniteSet(Attempt)

VARIABLES
  phase,  \* where the thread of an attempt stands inside authenticate
  key,    \* what an open attempt, or a row in the window, was submitted for
  age     \* age of the attempt's login.failure row; Window + 1: not counted

limiterVars == <<phase, key, age>>

Phase == {"idle", "check", "verify"}

OutOfWindow == Window + 1

Open == {a \in Attempt : phase[a] # "idle"}

\* The rows `SELECT COUNT(*) ... created_at >= since AND actor = ? AND
\* tenant_id = ?' selects for k.
Counted(k) == {a \in Attempt : age[a] <= Window /\ key[a] = k}

\* The attempts for k that found the count below the limit and have not
\* recorded their outcome.
Passed(k) == {a \in Attempt : phase[a] = "verify" /\ key[a] = k}

LimitedOffByOne(k) == Cardinality(Counted(k)) > MaxAttempts

Limited(k) == Cardinality(Counted(k)) >= MaxAttempts

-----------------------------------------------------------------------------

LimiterInit ==
  /\ phase = [a \in Attempt |-> "idle"]
  /\ key = [a \in Attempt |-> NoKey]
  /\ age = [a \in Attempt |-> OutOfWindow]

Submit(a, k) ==
  /\ key[a] = NoKey
  /\ Cardinality(Open) < Concurrency
  /\ phase' = [phase EXCEPT ![a] = "check"]
  /\ key' = [key EXCEPT ![a] = k]
  /\ UNCHANGED age

\* Refused: only a login.rate_limited row is written, which is not counted.
RefuseCounted(a) ==
  /\ phase[a] = "check"
  /\ Limited(key[a])
  /\ phase' = [phase EXCEPT ![a] = "idle"]
  /\ age' = [age EXCEPT ![a] = 0]
  /\ UNCHANGED key

Refuse(a) ==
  /\ phase[a] = "check"
  /\ Limited(key[a])
  /\ phase' = [phase EXCEPT ![a] = "idle"]
  /\ key' = [key EXCEPT ![a] = NoKey]
  /\ UNCHANGED age

Pass(a) ==
  /\ phase[a] = "check"
  /\ ~Limited(key[a])
  /\ phase' = [phase EXCEPT ![a] = "verify"]
  /\ UNCHANGED <<key, age>>

\* (The row is stamped in milliseconds: it lies ahead of the window.)
FailStampedAhead(a) ==
  /\ phase[a] = "verify"
  /\ phase' = [phase EXCEPT ![a] = "idle"]
  /\ age' = [age EXCEPT ![a] = 0 - 1]
  /\ UNCHANGED key

\* Unknown or inactive identity, no credential, or a wrong password: the row
\* is committed, then the error is raised.
Fail(a) ==
  /\ phase[a] = "verify"
  /\ phase' = [phase EXCEPT ![a] = "idle"]
  /\ age' = [age EXCEPT ![a] = 0]
  /\ UNCHANGED key

\* A success writes login.success and leaves the failures in the window.
Succeed(a) ==
  /\ phase[a] = "verify"
  /\ phase' = [phase EXCEPT ![a] = "idle"]
  /\ key' = [key EXCEPT ![a] = NoKey]
  /\ UNCHANGED age

\* An unexpected error ends the request with status 500 (a locked database,
\* say) and leaves no row; when the process dies all requests end that way.
Abort(D) ==
  /\ phase' = [a \in Attempt |-> IF a \in D THEN "idle" ELSE phase[a]]
  /\ key' = [a \in Attempt |-> IF a \in D THEN NoKey ELSE key[a]]
  /\ UNCHANGED age

\* One second.
Tick ==
  /\ age' = [a \in Attempt |-> IF age[a] <= Window THEN age[a] + 1 ELSE age[a]]
  /\ key' = [a \in Attempt |-> IF age[a] = Window THEN NoKey ELSE key[a]]
  /\ UNCHANGED phase

LimiterNext ==
  \/ \E a \in Attempt :
       \/ \E k \in Key : Submit(a, k)
       \/ Refuse(a)
       \/ Pass(a)
       \/ Fail(a)
       \/ Succeed(a)
  \/ \E D \in (SUBSET Open) \ {{}} : Abort(D)
  \/ Tick

LimiterSpec == LimiterInit /\ [][LimiterNext]_limiterVars

\* Time passes, and the operating system runs every request's thread.
LimiterFairness ==
  /\ WF_limiterVars(Tick)
  /\ \A a \in Attempt : WF_limiterVars(Refuse(a) \/ Pass(a) \/ Fail(a) \/ Succeed(a))

FairLimiterSpec == LimiterSpec /\ LimiterFairness

-----------------------------------------------------------------------------

LimiterTypeOK ==
  /\ phase \in [Attempt -> Phase]
  /\ key \in [Attempt -> Key \cup {NoKey}]
  /\ age \in [Attempt -> 0 .. OutOfWindow]

\* An attempt has a key while it is open or its row counts, never both.
OpenOrCounted ==
  \A a \in Attempt :
    /\ key[a] # NoKey <=> a \in Open \/ age[a] <= Window
    /\ a \in Open => age[a] = OutOfWindow

\* The count and the row of a failure are not one transaction, so more than
\* max_attempts failures can fall into one window; but never more than the
\* requests that can be open at once add to it: failures counted for a key,
\* plus the attempts that may still add one, stay below
\* MaxAttempts + Concurrency (catalog.py:287-307).
OvershootBounded ==
  \A k \in Key :
    Cardinality(Counted(k)) + Cardinality(Passed(k)) < MaxAttempts + Concurrency

\* A locked-out key becomes usable again although the user keeps trying:
\* refused attempts do not prolong the lockout, and the attempts that were
\* already past the check prolong it only finitely often
\* (catalog.py:287-289 and 407-420).
LockoutEnds == \A k \in Key : Limited(k) ~> ~Limited(k)

=============================================================================
