---------------------------- MODULE MCGovernance ----------------------------
(* Payloads of all kinds: versions, configuration, and an emergency pause     *)
(* whose threshold governance may change.                                     *)
EXTENDS Governance

\* Committees of equals, of all voters or of all but one.
EqualWeights ==
    {[v \in Voters |-> IF v \in S THEN 1 ELSE 0] :
        S \in {T \in SUBSET Voters : Cardinality(T) + 1 >= Cardinality(Voters)
                                     /\ T # {}}}

VersionPayloads ==
    [action : {"enable"}, version : {2}]
        \cup [action : {"disable"}, version : {1, 2}]
        \cup [action : {"upgrade"}, exclusive : BOOLEAN]

\* Each of the coupled keys alone, both together, and a new key in either
\* store under two types.
ConfigPayloads ==
    [action : {"update"}, epoch : {TRUE},
     entries : {[delta |-> U64(2)], [max_faulty |-> U64(2)],
                [delta |-> U64(2), max_faulty |-> U64(3)]}]
        \cup [action : {"add"}, epoch : BOOLEAN,
              entries : {[window |-> U64(1)], [window |-> Bool(TRUE)]}]

PausePayloads ==
    [action : {"pause"}, flag : BOOLEAN]
        \cup [action : {"update"}, epoch : {FALSE},
              entries : {[pause_threshold |-> U64(10001)]}]

AllPayloads == VersionPayloads \cup ConfigPayloads \cup PausePayloads

Symmetry == Permutations(Pids)
=============================================================================
