------------------------------ MODULE MCKeySet ------------------------------
(* Small instances of KeySet for TLC. *)
EXTENDS KeySet

=============================================================================
