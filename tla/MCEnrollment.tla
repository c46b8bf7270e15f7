--------------------------- MODULE MCEnrollment ---------------------------
(* Small instances of Enrollment for TLC. *)
EXTENDS Enrollment

KeyPool == 1..6

=============================================================================
