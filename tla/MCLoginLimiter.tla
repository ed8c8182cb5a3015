--------------------------- MODULE MCLoginLimiter ---------------------------
(* TLC instances of LoginLimiter. *)
EXTENDS LoginLimiter, TLC

Symmetry == Permutations(Attempt) \cup Permutations(Key)

=============================================================================
