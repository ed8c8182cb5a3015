---------------------------- MODULE MCLoginFlow -----------------------------
(* TLC instances of LoginFlow. *)
EXTENDS LoginFlow, TLC

CONSTANTS alice, acme, typed, good, fresh

Symmetry == Permutations(Request) \cup Permutations(Session) \cup Permutations(Code)

\* The configuration file knows alice of tenant acme.
OneTenant == {acme}
AliceOfAcme == {<<alice, acme>>}
GoodPassword == [u \in User |-> good]
AliceOnly == [l \in Login |-> <<alice, acme>>]

=============================================================================
