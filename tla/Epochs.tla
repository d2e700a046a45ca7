------------------------------- MODULE Epochs -------------------------------
(***************************************************************************)
(* The epoch machine every other part of Hashi is gated on: which Sui      *)
(* epoch it is, which Hashi epoch is current, whether a reconfiguration is *)
(* pending, and which epochs ever had an activated committee.              *)
(*                                                                         *)
(* This is the abstract view of core/reconfig.move that deposits,          *)
(* withdrawals, signing and certificates depend on.  CommitteeSet.tla      *)
(* models the registry and the reconfiguration entry points in full and is *)
(* shown to implement the specification EpochSpec below.                   *)
(***************************************************************************)
EXTENDS Naturals

CONSTANTS
    MaxEpoch,    \* bound: the last Sui epoch explored
    NONE         \* the absent value of Move's Option

ASSUME MaxEpochAssumption == MaxEpoch \in Nat

Epoch == 0 .. MaxEpoch

ASSUME NoneAssumption == NONE \notin Nat

VARIABLES
    suiEpoch,    \* ctx.epoch(): Sui's own epoch
    epoch,       \* CommitteeSet.epoch
    activated,   \* epochs whose committee is stored and not pending
    pending      \* CommitteeSet.pending_epoch_change, or NONE

epochVars == <<suiEpoch, epoch, activated, pending>>

EpochTypeOK ==
    /\ suiEpoch \in Epoch
    /\ epoch \in Epoch
    /\ activated \in SUBSET Epoch
    /\ pending \in Epoch \cup {NONE}

EpochInit ==
    /\ suiEpoch \in Epoch
    /\ epoch = 0
    /\ activated = {}
    /\ pending = NONE

-----------------------------------------------------------------------------

\* committee_set::is_reconfiguring
IsReconfiguring == pending # NONE

\* committee_set::has_committee.  At genesis in Sui epoch 0 the pending
\* committee already sits under the current epoch 0.
HasCommittee(e) == e \in activated \/ pending = e

\* hashi::assert_not_reconfiguring
NotReconfiguring == ~IsReconfiguring /\ HasCommittee(epoch)

\* committee_set::is_before_previous_committee: a committee epoch lies
\* strictly between e and the current epoch.
IsBeforePreviousCommittee(e) == \E c \in activated : e < c /\ c < epoch

-----------------------------------------------------------------------------

\* Sui moves to its next epoch, whatever Hashi is doing.
AdvanceSui ==
    /\ suiEpoch < MaxEpoch
    /\ suiEpoch' = suiEpoch + 1
    /\ UNCHANGED <<epoch, activated, pending>>

\* reconfig::start_reconfig
StartReconfig ==
    /\ ~IsReconfiguring
    /\ ~HasCommittee(suiEpoch)
    /\ epoch = 0 \/ epoch # suiEpoch
    /\ pending' = suiEpoch
    /\ UNCHANGED <<suiEpoch, epoch, activated>>

\* reconfig::end_reconfig
EndReconfig ==
    /\ pending = suiEpoch
    /\ epoch' = pending
    /\ activated' = activated \cup {pending}
    /\ pending' = NONE
    /\ UNCHANGED suiEpoch

\* reconfig::abort_reconfig
AbortReconfig ==
    /\ IsReconfiguring
    /\ pending # suiEpoch
    /\ pending' = NONE
    /\ UNCHANGED <<suiEpoch, epoch, activated>>

EpochNext == AdvanceSui \/ StartReconfig \/ EndReconfig \/ AbortReconfig

EpochSpec == EpochInit /\ [][EpochNext]_epochVars
=============================================================================
