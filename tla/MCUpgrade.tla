------------------------------ MODULE MCUpgrade ------------------------------
(* Small instances of Upgrade for TLC. *)
EXTENDS Upgrade

\* Clocks apart in the directions that hurt, under three configurations.
Setting(b, m, n, own, rs) == [binding |-> b, mode |-> m, nonces |-> n, own |-> own, rs |-> rs]
Extremes == {
  Setting("x5t", "local", FALSE, 0, 1),
  Setting("jkt", "local", TRUE, -1, 0), Setting("jkt", "local", TRUE, 1, 0),
  Setting("jkt", "introspection", FALSE, 0, -1)}

=============================================================================
