------------------------ MODULE MCCredentialLedger ------------------------
(* Small instances of CredentialLedger for TLC. *)
EXTENDS CredentialLedger, TLC

\* Credentials and handlers are interchangeable in every definition.
Symmetry == Permutations(Credentials) \cup Permutations(Handlers)

=============================================================================
