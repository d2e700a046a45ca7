------------------------------ MODULE MCBridge ------------------------------
(* Two deposit requests compete for outpoints that include the change output *)
(* of the only withdrawal transaction.                                       *)
EXTENDS Bridge, TLC

CONSTANTS DepositSize, ReqSize

MCDepositAmount == [u \in DepositUtxos |-> DepositSize]
MCReqAmount == [r \in Reqs |-> ReqSize]

Symmetry == Permutations(DReqs)
=============================================================================
