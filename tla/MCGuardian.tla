----------------------------- MODULE MCGuardian -----------------------------
(* Instances of Guardian for TLC: two sessions of one deployment. *)
EXTENDS Guardian, TLC

OneConfig == {[capacity |-> 2, rate |-> 1]}

TwoConfigs == {[capacity |-> 2, rate |-> 1], [capacity |-> 1, rate |-> 0]}

Symmetry == Permutations(Sessions)

=============================================================================
