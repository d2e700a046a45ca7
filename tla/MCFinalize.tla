----------------------------- MODULE MCFinalize -----------------------------
(* Two nodes that must both sign, and two withdrawals. *)
EXTENDS Finalize

AllNodes == {Nodes}
=============================================================================
