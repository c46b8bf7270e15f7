-------------------------- MODULE MCTokenBinding --------------------------
(* Small instances of TokenBinding for TLC. *)
EXTENDS TokenBinding, TLC

CONSTANTS c1, c2

TwoCallers == {c1, c2}
Symmetry == Permutations(TwoCallers)

=============================================================================
