--------------------------- MODULE MCReplayCache ---------------------------
(* Small instances of ReplayCache for TLC. *)
EXTENDS ReplayCache, TLC

\* Proofs and handlers are interchangeable: iat ranges over every function.
Symmetry == Permutations(Proofs) \cup Permutations(Handlers)

=============================================================================
