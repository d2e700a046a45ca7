----------------------------- MODULE MCWithdraw -----------------------------
(* Requests and deposits of one size each: a transaction always leaves       *)
(* change, which the next one may spend before the first is confirmed.       *)
EXTENDS Withdraw, TLC

CONSTANTS DepositSize, ReqSize

MCDepositAmount == [u \in DepositUtxos |-> DepositSize]
MCReqAmount == [r \in Reqs |-> ReqSize]

Symmetry ==
    Permutations(Txns) \cup Permutations(DepositUtxos) \cup Permutations(Reqs)
=============================================================================
