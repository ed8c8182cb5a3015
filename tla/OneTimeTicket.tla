--------------------------- MODULE OneTimeTicket ----------------------------
(***************************************************************************)
(* What a store of one-time tickets promises: a ticket is issued once for  *)
(* a subject, answers at most one presentation with that subject, only     *)
(* before its lifetime is over, and never again once it was answered or    *)
(* given up.  The browser login codes of AuthNodeHTTPServer are such a     *)
(* store, and so are its OIDC states.                                      *)
(***************************************************************************)
EXTENDS Naturals, Sequences

CONSTANTS
  Ticket,
  Subject,    \* what a ticket stands for
  NoSubject,
  Lifetime    \* ticks until a ticket expires

VARIABLES
  state,    \* "unissued", "live", "redeemed" or "void"
  left,     \* ticks a live ticket has left
  subject,  \* what it was issued for
  answers   \* the subjects it was answered with

ticketVars == <<state, left, subject, answers>>

TicketInit ==
  /\ state = [t \in Ticket |-> "unissued"]
  /\ left = [t \in Ticket |-> 0]
  /\ subject = [t \in Ticket |-> NoSubject]
  /\ answers = [t \in Ticket |-> <<>>]

Issue(t, s) ==
  /\ state[t] = "unissued"
  /\ state' = [state EXCEPT ![t] = "live"]
  /\ left' = [left EXCEPT ![t] = Lifetime]
  /\ subject' = [subject EXCEPT ![t] = s]
  /\ UNCHANGED answers

Redeem(t) ==
  /\ state[t] = "live"
  /\ left[t] > 0
  /\ state' = [state EXCEPT ![t] = "redeemed"]
  /\ left' = [left EXCEPT ![t] = 0]
  /\ answers' = [answers EXCEPT ![t] = Append(@, subject[t])]
  /\ UNCHANGED subject

\* Presented too late or for the wrong purpose, or lost with the process.
GiveUp(T) ==
  /\ \A t \in T : state[t] = "live"
  /\ state' = [t \in Ticket |-> IF t \in T THEN "void" ELSE state[t]]
  /\ left' = [t \in Ticket |-> IF t \in T THEN 0 ELSE left[t]]
  /\ UNCHANGED <<subject, answers>>

PassTime ==
  /\ left' = [t \in Ticket |-> IF left[t] > 0 THEN left[t] - 1 ELSE 0]
  /\ UNCHANGED <<state, subject, answers>>

TicketNext ==
  \/ \E t \in Ticket, s \in Subject : Issue(t, s)
  \/ \E t \in Ticket : Redeem(t)
  \/ \E T \in SUBSET Ticket : GiveUp(T)
  \/ PassTime

TicketSpec == TicketInit /\ [][TicketNext]_ticketVars

-----------------------------------------------------------------------------

\* A ticket is answered at most once, and with the subject it was issued for.
AnsweredAtMostOnce ==
  \A t \in Ticket :
    answers[t] = IF state[t] = "redeemed" THEN <<subject[t]>> ELSE <<>>

=============================================================================
