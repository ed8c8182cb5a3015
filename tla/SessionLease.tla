---------------------------- MODULE SessionLease ----------------------------
(***************************************************************************)
(* What a store of sessions promises: a session is opened once, by the     *)
(* request that creates it; a request may take it up only while it is open *)
(* and its lifetime is not over; using it does not prolong it; and once it *)
(* is closed nobody takes it up again.  Requests that took it up before    *)
(* may still finish.  The login sessions of the catalog and the admin      *)
(* sessions of AuthNodeHTTPServer are such stores.                         *)
(***************************************************************************)
EXTENDS Naturals

CONSTANTS
  Token,
  Client,    \* the requests that use sessions
  Lifetime   \* ticks until a session expires

VARIABLES
  standing,  \* "unopened", "open" or "closed"
  left,      \* ticks an open session has left
  holders    \* the requests at work with it

leaseVars == <<standing, left, holders>>

LeaseInit ==
  /\ standing = [t \in Token |-> "unopened"]
  /\ left = [t \in Token |-> 0]
  /\ holders = [t \in Token |-> {}]

Open(t, c) ==
  /\ standing[t] = "unopened"
  /\ standing' = [standing EXCEPT ![t] = "open"]
  /\ left' = [left EXCEPT ![t] = Lifetime]
  /\ holders' = [holders EXCEPT ![t] = {c}]

TakeUp(t, c) ==
  /\ standing[t] = "open"
  /\ left[t] > 0
  /\ holders' = [holders EXCEPT ![t] = @ \cup {c}]
  /\ UNCHANGED <<standing, left>>

\* Sessions end, by logout, expiry or with the process, and requests end.
Close(T, C) ==
  /\ \A t \in T : standing[t] = "open"
  /\ standing' = [t \in Token |-> IF t \in T THEN "closed" ELSE standing[t]]
  /\ left' = [t \in Token |-> IF t \in T THEN 0 ELSE left[t]]
  /\ holders' = [t \in Token |-> holders[t] \ C]

PassTime ==
  /\ left' = [t \in Token |-> IF left[t] > 0 THEN left[t] - 1 ELSE 0]
  /\ UNCHANGED <<standing, holders>>

LeaseNext ==
  \/ \E t \in Token, c \in Client : Open(t, c) \/ TakeUp(t, c)
  \/ \E T \in SUBSET Token, C \in SUBSET Client : Close(T, C)
  \/ PassTime

LeaseSpec == LeaseInit /\ [][LeaseNext]_leaseVars

-----------------------------------------------------------------------------

\* A closed session stays closed and gains no further request.
ClosedIsFinal ==
  [][\A t \in Token :
       standing[t] = "closed" =>
         standing'[t] = "closed" /\ holders'[t] \subseteq holders[t]]_leaseVars

=============================================================================
