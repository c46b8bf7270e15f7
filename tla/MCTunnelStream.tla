-------------------------- MODULE MCTunnelStream --------------------------
(* Small instances of TunnelStream for TLC. *)
EXTENDS TunnelStream
=============================================================================
