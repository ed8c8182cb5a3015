---------------------------- MODULE MCOidcLogin -----------------------------
(* TLC instance of OidcLogin. *)
EXTENDS OidcLogin, TLC

Symmetry == Permutations(Request) \cup Permutations(OidcState)

=============================================================================
