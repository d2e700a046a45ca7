--------------------------- MODULE MCDepositWatch ---------------------------
(* A fork of two branches after the first block.  It leaves one deposit where *)
(* it is, and moves the other from the second block to the third.             *)
EXTENDS DepositWatch

TwoBranches == {<<"a1", "a2">>, <<"a1", "b2", "b3">>}
TwoDeposits == {[blocks |-> {"a1"}, threshold |-> 2],
                [blocks |-> {"a2", "b3"}, threshold |-> 1]}
=============================================================================
