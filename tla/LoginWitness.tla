---------------------------- MODULE LoginWitness ----------------------------
(***************************************************************************)
(* LoginFlow with a history variable.  A login reads the rate limit, the   *)
(* identity rows and the credential in three transactions and acts on them *)
(* later, while administrators change what was read.  `seen' remembers, of *)
(* every open request, which of the facts it relies on have been true at   *)
(* some moment since the request arrived.                                  *)
(***************************************************************************)
EXTENDS LoginFlow

VARIABLE seen

Unlimited(r) == ask[r] # NoAsk /\ ~Limited(ask[r].login)

RightPassword(r) ==
  ask[r] # NoAsk /\ credentials[IdentityOf[ask[r].login][1]] = ask[r].password

ActiveOwner(r) ==
  \/ ask[r] # NoAsk /\ Active(IdentityOf[ask[r].login])
  \/ local[r].row # NoIdentity /\ Active(local[r].row)

OpenSession(r) == local[r].cookie # NoSession /\ SessionValid(local[r].cookie)

Facts(r) == {f \in {"unlimited", "password", "active", "session"} :
               \/ f = "unlimited" /\ Unlimited(r)
               \/ f = "password" /\ RightPassword(r)
               \/ f = "active" /\ ActiveOwner(r)
               \/ f = "session" /\ OpenSession(r)}

WitnessInit == FlowInit /\ seen = [r \in Request |-> {}]

Remember ==
  seen' = [r \in Request |-> IF phase'[r] = "idle" THEN {} ELSE seen[r] \cup Facts(r)']

WitnessSpec == WitnessInit /\ [][FlowNext /\ Remember]_<<vars, seen>>

\* Whoever gets a session was, at some moments since the login arrived, below
\* the rate limit, an active member, and known by the password typed; whoever
\* gets a code without a login had a valid session while the request was open
\* (catalog.py:284-312 and 369-399, server.py:408-418 and 505-528).  The
\* moments need not be the same one.
Witnessed ==
  \A r \in Request :
    /\ phase[r] = "session" => {"unlimited", "password", "active"} \subseteq seen[r]
    /\ phase[r] = "code" =>
         \/ {"unlimited", "password", "active"} \subseteq seen[r]
         \/ {"session", "active"} \subseteq seen[r]

=============================================================================
