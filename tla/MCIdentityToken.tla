--------------------------- MODULE MCIdentityToken --------------------------
(* TLC instance of IdentityToken. *)
EXTENDS IdentityToken

SomeTTL == {-1, 0, 1, 3}

=============================================================================
