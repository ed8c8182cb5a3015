--------------------------- MODULE MCLoginWitness ---------------------------
(* TLC instance of LoginWitness. *)
EXTENDS LoginWitness, TLC

CONSTANTS alice, acme, good

Symmetry == Permutations(Request)

OneTenant == {acme}
AliceOfAcme == {<<alice, acme>>}
GoodPassword == [u \in User |-> good]
AliceOnly == [l \in Login |-> <<alice, acme>>]

=============================================================================
