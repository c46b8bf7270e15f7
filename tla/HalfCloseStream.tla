-------------------------- MODULE HalfCloseStream --------------------------
(***************************************************************************)
(* What a direction of the tunnel promises, as a TCP connection does: the  *)
(* bytes written arrive in order, the writer may end the stream, and the   *)
(* reader is told of the end only after it has read everything.  Relay     *)
(* relies on this; TunnelStream implements it.                             *)
(***************************************************************************)
EXTENDS Naturals

VARIABLES
  sent,       \* how many bytes were written
  delivered,  \* how many of them were read
  closed,     \* the writer has ended the stream
  ended       \* the reader has been told so

vars == <<sent, delivered, closed, ended>>

Init == sent = 0 /\ delivered = 0 /\ closed = FALSE /\ ended = FALSE

Send ==
  /\ ~closed
  /\ sent' \in Nat /\ sent' > sent
  /\ UNCHANGED <<delivered, closed, ended>>

Deliver ==
  /\ ~ended
  /\ delivered' \in (delivered + 1)..sent
  /\ UNCHANGED <<sent, closed, ended>>

CloseWrite ==
  /\ ~closed /\ closed' = TRUE
  /\ UNCHANGED <<sent, delivered, ended>>

End ==
  /\ closed /\ ~ended /\ delivered = sent
  /\ ended' = TRUE
  /\ UNCHANGED <<sent, delivered, closed>>

Spec == Init /\ [][Send \/ Deliver \/ CloseWrite \/ End]_vars

=============================================================================
