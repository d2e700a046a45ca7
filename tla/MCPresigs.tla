----------------------------- MODULE MCPresigs -----------------------------
(* Two nodes of different weight: one reaches the floor alone, both are
   needed for a seal, and a batch has one or two presignatures. *)
EXTENDS Presigs

CONSTANTS a, b

MCPower == [n \in Nodes |-> 1]
MCWeight == [n \in Nodes |-> IF n = a THEN 2 ELSE 1]
=============================================================================
