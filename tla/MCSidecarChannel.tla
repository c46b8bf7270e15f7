-------------------------- MODULE MCSidecarChannel --------------------------
(* The instance of SidecarChannel that TLC checks; see SidecarChannel.cfg. *)
EXTENDS SidecarChannel
=============================================================================
