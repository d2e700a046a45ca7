---------------------------- MODULE CommitteeSet ----------------------------
(***************************************************************************)
(* The committee registry and reconfiguration of the Hashi Move package:   *)
(* core/committee/committee_set.move, core/validator.move and              *)
(* core/reconfig.move.                                                     *)
(*                                                                         *)
(* Abstracted:                                                             *)
(*  - a BLS or encryption key is only ever set or unset; a TLS key is a    *)
(*    member of TlsKeys, because the registry keeps a reverse index on it; *)
(*  - a Committee is the set of its members; committees[e] = {} means that *)
(*    no committee is stored under e (new_committee refuses the empty one);*)
(*  - a BLS certificate is the record of what was signed and by which      *)
(*    epoch's committee.  The outgoing committee's handoff certificates    *)
(*    are kept for ever in certs, so that they may be submitted late,      *)
(*    twice, or after the target they name was aborted;                    *)
(*  - assert_version_enabled, which every entry point starts with, is in   *)
(*    Governance.tla: a call through a disabled package has no effect.     *)
(***************************************************************************)
EXTENDS Naturals, FiniteSets

CONSTANTS
    Validators,    \* Sui validator addresses
    Delegates,     \* addresses a member may name as its operator
    Zero,          \* @0x0, the sender of Sui's system transactions
    TlsKeys,       \* TLS public keys
    MpcKeys,       \* MPC threshold public keys
    MaxEpoch,      \* bound: the last Sui epoch explored
    NONE           \* the absent value of Move's Option, or an unset field

Epoch == 0 .. MaxEpoch

Address == Validators \cup Delegates \cup {Zero}

\* A signature of from's committee over CommitteeTransitionRequest: the
\* incoming committee, its epoch included.
HandoffCert == [from : Epoch, to : Epoch, committee : SUBSET Validators]

Handoff == [next : Epoch, cert : HandoffCert]

ASSUME CommitteeSetAssumption ==
    /\ MaxEpoch \in Nat
    /\ NONE \notin Nat
    /\ NONE \notin Validators \cup TlsKeys \cup MpcKeys
    /\ Zero \notin Validators
    /\ NONE \notin Handoff
    /\ IsFiniteSet(Validators)

VARIABLES
    suiEpoch,      \* ctx.epoch()
    active,        \* Sui's active validator set
    members,       \* keys of CommitteeSet.members
    operator,      \* MemberInfo.operator_address
    bls,           \* members whose next_epoch_public_key is set
    enc,           \* members whose next_epoch_encryption_public_key is set
    tls,           \* MemberInfo.tls_public_key
    tlsIndex,      \* CommitteeSet.tls_public_keys
    ignored,       \* MemberInfo.ignored
    resigned,      \* MemberInfo.resigned
    epoch,         \* CommitteeSet.epoch
    committees,    \* the Committee values of the bag CommitteeSet.committees
    handoffs,      \* its CommitteeHandoff values, by source epoch
    pending,       \* pending_epoch_change.epoch
    pendingCert,   \* pending_epoch_change.committee_handoff_cert
    mpcKey,        \* CommitteeSet.mpc_public_key
    hold,          \* the reconfig_hold config flag
    upgradeCap,    \* versioning holds the UpgradeCap (finish_publish ran)
    certs,         \* handoff certificates the committees have signed
    excluded       \* history: the validators governance last decided to ignore

suiVars == <<suiEpoch, active>>
infoVars == <<operator, bls, enc, tls, tlsIndex, ignored, resigned>>
memberVars == <<members, infoVars>>
reconfigVars == <<epoch, committees, handoffs, pending, pendingCert, mpcKey>>
govVars == <<hold, upgradeCap, excluded>>
vars == <<suiVars, memberVars, reconfigVars, govVars, certs>>

TypeOK ==
    /\ suiEpoch \in Epoch
    /\ active \in SUBSET Validators
    /\ members \in SUBSET Validators
    /\ operator \in [Validators -> Address]
    /\ bls \in SUBSET Validators
    /\ enc \in SUBSET Validators
    /\ tls \in [Validators -> TlsKeys \cup {NONE}]
    /\ tlsIndex \in [TlsKeys -> Validators \cup {NONE}]
    /\ ignored \in SUBSET Validators
    /\ resigned \in SUBSET Validators
    /\ epoch \in Epoch
    /\ committees \in [Epoch -> SUBSET Validators]
    /\ handoffs \in [Epoch -> Handoff \cup {NONE}]
    /\ pending \in Epoch \cup {NONE}
    /\ pendingCert \in HandoffCert \cup {NONE}
    /\ mpcKey \in MpcKeys \cup {NONE}
    /\ hold \in BOOLEAN
    /\ upgradeCap \in BOOLEAN
    /\ certs \in SUBSET HandoffCert
    /\ excluded \in SUBSET Validators

\* committee_set::create; Hashi may be published in any Sui epoch.
Init ==
    /\ suiEpoch \in Epoch
    /\ active = Validators
    /\ members = {}
    /\ operator = [v \in Validators |-> v]
    /\ bls = {} /\ enc = {}
    /\ tls = [v \in Validators |-> NONE]
    /\ tlsIndex = [k \in TlsKeys |-> NONE]
    /\ ignored = {} /\ resigned = {}
    /\ epoch = 0
    /\ committees = [e \in Epoch |-> {}]
    /\ handoffs = [e \in Epoch |-> NONE]
    /\ pending = NONE
    /\ pendingCert = NONE
    /\ mpcKey = NONE
    /\ hold = FALSE
    /\ upgradeCap = FALSE
    /\ certs = {}
    /\ excluded = {}

-----------------------------------------------------------------------------
(* Queries.                                                                *)

HasCommittee(e) == committees[e] # {}

IsReconfiguring == pending # NONE

\* MemberInfo::is_authorized, for a registered v.
MemberAuthorized(v, sender) ==
    /\ v \in members
    /\ sender # Zero
    /\ sender = v \/ sender = operator[v]

\* Mutant: the pending committee's members are not protected.
InCurrentCommitteeOnly(v) == v \in committees[epoch]

InCurrentOrPendingCommittee(v) ==
    \/ v \in committees[epoch]
    \/ IsReconfiguring /\ v \in committees[pending]

\* Mutant: a member that governance ignores counts as one that remains.
NotLastUnresignedMember(v) ==
    v \in committees[epoch] =>
        \E w \in committees[epoch] \ {v} : w \in members \ resigned

\* assert_not_last_active_member
NotLastActiveMember(v) ==
    v \in committees[epoch] =>
        \E w \in committees[epoch] \ {v} : w \in members \ (resigned \cup ignored)

\* Mutant: the ignore flag is not read when a committee is formed.
EligibleOrIgnored ==
    {v \in active : v \in members /\ v \notin resigned /\ v \in bls /\ v \in enc}

\* new_committee_from_voting_powers: who the next formation would take.
Eligible ==
    {v \in active : v \in members /\ v \notin ignored /\ v \notin resigned
                                  /\ v \in bls /\ v \in enc}

-----------------------------------------------------------------------------
(* core/validator.move: registration and member metadata.                  *)

\* validator::register.  The sender is the validator itself.
Register(v) ==
    /\ v \in active
    /\ v \notin members
    /\ members' = members \cup {v}
    /\ operator' = [operator EXCEPT ![v] = v]
    /\ bls' = bls \ {v} /\ enc' = enc \ {v}
    /\ tls' = [tls EXCEPT ![v] = NONE]
    /\ ignored' = ignored \ {v} /\ resigned' = resigned \ {v}
    /\ UNCHANGED <<tlsIndex, suiVars, reconfigVars, govVars, certs>>

\* validator::update_next_epoch_public_key
SetNextEpochPublicKey(v, sender) ==
    /\ MemberAuthorized(v, sender)
    /\ bls' = bls \cup {v}
    /\ UNCHANGED <<members, operator, enc, tls, tlsIndex, ignored, resigned,
                   suiVars, reconfigVars, govVars, certs>>

\* validator::update_next_epoch_encryption_public_key
SetNextEpochEncryptionPublicKey(v, sender) ==
    /\ MemberAuthorized(v, sender)
    /\ enc' = enc \cup {v}
    /\ UNCHANGED <<members, operator, bls, tls, tlsIndex, ignored, resigned,
                   suiVars, reconfigVars, govVars, certs>>

\* validator::update_operator_address
SetOperatorAddress(v, sender, o) ==
    /\ MemberAuthorized(v, sender)
    /\ operator' = [operator EXCEPT ![v] = o]
    /\ UNCHANGED <<members, bls, enc, tls, tlsIndex, ignored, resigned,
                   suiVars, reconfigVars, govVars, certs>>

\* Mutant: the entry of the previous key stays behind.
ReindexTlsKeepingOld(v, k) == [tlsIndex EXCEPT ![k] = v]

\* Removing the previous key's entry and adding the new key's, in that order:
\* write_tls_public_key may be given the key the member already holds.
ReindexTls(v, k) ==
    [j \in TlsKeys |-> IF j = k THEN v
                       ELSE IF j = tls[v] THEN NONE ELSE tlsIndex[j]]

\* validator::update_tls_public_key
SetTlsPublicKey(v, sender, k) ==
    /\ MemberAuthorized(v, sender)
    /\ tlsIndex[k] \in {NONE, v}
    /\ tls' = [tls EXCEPT ![v] = k]
    /\ tlsIndex' = ReindexTls(v, k)
    /\ UNCHANGED <<members, operator, bls, enc, ignored, resigned,
                   suiVars, reconfigVars, govVars, certs>>

\* validator::resign
RequestResignation(v, sender) ==
    /\ MemberAuthorized(v, sender)
    /\ v \notin resigned
    /\ InCurrentOrPendingCommittee(v) => NotLastActiveMember(v)
    /\ resigned' = resigned \cup {v}
    /\ UNCHANGED <<members, operator, bls, enc, tls, tlsIndex, ignored,
                   suiVars, reconfigVars, govVars, certs>>

\* validator::withdraw_resignation
ClearResignation(v, sender) ==
    /\ MemberAuthorized(v, sender)
    /\ v \in resigned
    /\ resigned' = resigned \ {v}
    /\ UNCHANGED <<members, operator, bls, enc, tls, tlsIndex, ignored,
                   suiVars, reconfigVars, govVars, certs>>

\* validator::remove_inactive_member, permissionless.  remove_member drops
\* the whole record and the member's entry in the TLS index.
RemoveInactiveMember(v) ==
    /\ v \in members
    /\ ~InCurrentOrPendingCommittee(v)
    /\ v \notin ignored
    /\ v \in resigned \/ v \notin active
    /\ members' = members \ {v}
    /\ operator' = [operator EXCEPT ![v] = v]
    /\ bls' = bls \ {v} /\ enc' = enc \ {v}
    /\ ignored' = ignored \ {v} /\ resigned' = resigned \ {v}
    /\ tls' = [tls EXCEPT ![v] = NONE]
    /\ tlsIndex' = [k \in TlsKeys |-> IF k = tls[v] THEN NONE ELSE tlsIndex[k]]
    /\ UNCHANGED <<suiVars, reconfigVars, govVars, certs>>

-----------------------------------------------------------------------------
(* Governance writes the registry and the hold flag (Governance.tla).      *)

\* ignore_member::execute -> committee_set::set_member_ignored
SetMemberIgnored(v, flag) ==
    /\ v \in members
    /\ ignored' = IF flag THEN ignored \cup {v} ELSE ignored \ {v}
    /\ excluded' = IF flag THEN excluded \cup {v} ELSE excluded \ {v}
    /\ UNCHANGED <<members, operator, bls, enc, tls, tlsIndex, resigned,
                   hold, upgradeCap, suiVars, reconfigVars, certs>>

\* update_config::execute on reconfig_hold
SetReconfigHold(flag) ==
    /\ hold # flag
    /\ hold' = flag
    /\ UNCHANGED <<upgradeCap, excluded, suiVars, memberVars, reconfigVars, certs>>

\* hashi::finish_publish, the launch switch; versioning keeps the cap.
FinishPublish ==
    /\ ~upgradeCap
    /\ upgradeCap' = TRUE
    /\ UNCHANGED <<hold, excluded, suiVars, memberVars, reconfigVars, certs>>

-----------------------------------------------------------------------------
(* core/reconfig.move.                                                     *)

\* Sui's epoch change, with whatever validators are active next.
AdvanceSui ==
    /\ suiEpoch < MaxEpoch
    /\ suiEpoch' = suiEpoch + 1
    /\ \E a \in SUBSET Validators \ {{}} : active' = a
    /\ UNCHANGED <<memberVars, reconfigVars, govVars, certs>>

\* reconfig::start_reconfig
StartReconfig ==
    /\ ~hold
    /\ ~IsReconfiguring
    /\ mpcKey = NONE => upgradeCap
    /\ ~HasCommittee(suiEpoch)
    /\ epoch = 0 \/ epoch # suiEpoch
    /\ Eligible # {}
    /\ pending' = suiEpoch
    /\ pendingCert' = NONE
    /\ committees' = [committees EXCEPT ![suiEpoch] = Eligible]
    /\ UNCHANGED <<epoch, handoffs, mpcKey, suiVars, memberVars, govVars, certs>>

\* A quorum of the current committee signs the transition to the pending one
\* it sees on chain.
SignHandoff ==
    /\ IsReconfiguring
    /\ HasCommittee(epoch)
    /\ mpcKey # NONE
    /\ certs' = certs \cup
         {[from |-> epoch, to |-> pending, committee |-> committees[pending]]}
    /\ certs' # certs
    /\ UNCHANGED <<suiVars, memberVars, reconfigVars, govVars>>

\* Mutant: a pending target may be completed after its Sui epoch has passed.
PendingAnyTime == IsReconfiguring

\* pending_epoch_in_window
PendingInWindow == IsReconfiguring /\ pending = suiEpoch

\* reconfig::submit_committee_handoff, for the target the caller declares.
\* The chain rebuilds the signed message from the committee it stores.
SubmitCommitteeHandoff(c, target) ==
    /\ ~(handoffs[c.from] # NONE /\ handoffs[c.from].next = target)
    /\ PendingInWindow
    /\ pending = target
    /\ mpcKey # NONE
    /\ c = [from |-> epoch, to |-> pending, committee |-> committees[pending]]
    /\ pendingCert = NONE
    /\ pendingCert' = c
    /\ UNCHANGED <<epoch, committees, handoffs, pending, mpcKey,
                   suiVars, memberVars, govVars, certs>>

\* reconfig::end_reconfig, with the incoming committee's certificate over
\* (target, key): any key the incoming committee may claim.
EndReconfig(target, key) ==
    /\ ~(pending # target /\ epoch = target /\ HasCommittee(target))
    /\ PendingInWindow
    /\ pending = target
    /\ HasCommittee(target)
    /\ IF mpcKey = NONE
       THEN /\ mpcKey' = key
            /\ handoffs' = handoffs
       ELSE /\ pendingCert # NONE
            /\ mpcKey = key
            /\ handoffs[epoch] = NONE
            /\ handoffs' = [handoffs EXCEPT ![epoch] =
                               [next |-> pending, cert |-> pendingCert]]
            /\ mpcKey' = mpcKey
    /\ epoch' = pending
    /\ pending' = NONE
    /\ pendingCert' = NONE
    /\ UNCHANGED <<committees, suiVars, memberVars, govVars, certs>>

\* Mutant: the aborted target's committee stays in the bag.
AbortKeepsCommittee(target) ==
    /\ IsReconfiguring
    /\ pending = target
    /\ pending # suiEpoch
    /\ pending' = NONE
    /\ pendingCert' = NONE
    /\ UNCHANGED <<epoch, committees, handoffs, mpcKey, suiVars, memberVars, govVars,
                   certs>>

\* Mutant: the aborted target's certificate stays in the pending change.
AbortKeepsCert(target) ==
    /\ IsReconfiguring
    /\ pending = target
    /\ pending # suiEpoch
    /\ committees' = [committees EXCEPT ![pending] = {}]
    /\ pending' = NONE
    /\ UNCHANGED <<epoch, handoffs, pendingCert, mpcKey, suiVars, memberVars, govVars,
                   certs>>

\* Mutant: the window check is inverted, so that a stale target is stuck.
AbortInsideWindow(target) ==
    /\ IsReconfiguring
    /\ pending = target
    /\ pending = suiEpoch
    /\ committees' = [committees EXCEPT ![pending] = {}]
    /\ pending' = NONE
    /\ pendingCert' = NONE
    /\ UNCHANGED <<epoch, handoffs, mpcKey, suiVars, memberVars, govVars, certs>>

\* reconfig::abort_reconfig, permissionless.
AbortReconfig(target) ==
    /\ IsReconfiguring
    /\ pending = target
    /\ pending # suiEpoch
    /\ committees' = [committees EXCEPT ![pending] = {}]
    /\ pending' = NONE
    /\ pendingCert' = NONE
    /\ UNCHANGED <<epoch, handoffs, mpcKey, suiVars, memberVars, govVars, certs>>

-----------------------------------------------------------------------------

MemberStep(v) ==
    \/ Register(v)
    \/ RemoveInactiveMember(v)
    \/ \E flag \in BOOLEAN : SetMemberIgnored(v, flag)
    \/ \E sender \in Address :
          \/ SetNextEpochPublicKey(v, sender)
          \/ SetNextEpochEncryptionPublicKey(v, sender)
          \/ \E o \in Delegates : SetOperatorAddress(v, sender, o)
          \/ \E k \in TlsKeys : SetTlsPublicKey(v, sender, k)
          \/ RequestResignation(v, sender)
          \/ ClearResignation(v, sender)

ReconfigStep ==
    \/ StartReconfig
    \/ SignHandoff
    \/ \E c \in certs, target \in Epoch : SubmitCommitteeHandoff(c, target)
    \/ \E target \in Epoch, key \in MpcKeys : EndReconfig(target, key)
    \/ \E target \in Epoch : AbortReconfig(target)

Next ==
    \/ AdvanceSui
    \/ FinishPublish
    \/ \E flag \in BOOLEAN : SetReconfigHold(flag)
    \/ \E v \in Validators : MemberStep(v)
    \/ ReconfigStep

Spec == Init /\ [][Next]_vars

\* Sui's epochs keep advancing, and every node submits abort_reconfig for a
\* pending target whose window has closed (crates/hashi/src/mpc/service.rs,
\* abort_stale_reconfig), so the enabled abort is eventually taken.
FairSpec ==
    /\ Spec
    /\ WF_vars(AdvanceSui)
    /\ WF_vars(\E target \in Epoch : AbortReconfig(target))

-----------------------------------------------------------------------------
(* Properties.                                                             *)

\* The epochs whose committee is, or has been, the current one.
Activated == {e \in Epoch : HasCommittee(e) /\ pending # e}

\* The stored handoffs form one unbroken path from the genesis epoch to the
\* current one: before the DKG nothing is activated; afterwards every earlier
\* activated epoch hands over to the very next activated one, and the current
\* epoch has no handoff yet, so that end_reconfig's insert cannot collide.
HandoffChain ==
    IF mpcKey = NONE
    THEN Activated = {} /\ epoch = 0 /\ \A e \in Epoch : handoffs[e] = NONE
    ELSE /\ epoch \in Activated
         /\ \A e \in Activated : e <= epoch
         /\ \A e \in Epoch : handoffs[e] # NONE <=> e \in Activated \ {epoch}
         /\ \A e \in Activated \ {epoch} :
               /\ handoffs[e].next \in Activated
               /\ e < handoffs[e].next
               /\ \A a \in Activated : ~(e < a /\ a < handoffs[e].next)

\* Every stored handoff certificate was signed by its source epoch's committee
\* over exactly the committee stored for the epoch it hands over to, and a
\* certificate collected for a pending target is over that very target: late
\* certificates for aborted targets are never recorded.
HandoffGenuine ==
    /\ \A e \in Epoch : handoffs[e] # NONE =>
          /\ handoffs[e].cert \in certs
          /\ handoffs[e].cert = [from |-> e, to |-> handoffs[e].next,
                                 committee |-> committees[handoffs[e].next]]
    /\ pendingCert # NONE =>
          /\ IsReconfiguring
          /\ pendingCert = [from |-> epoch, to |-> pending,
                            committee |-> committees[pending]]

\* Whoever serves the current epoch, or is pending to serve the next, keeps a
\* registration: cleanup never deletes a member with duties, whatever the
\* order of resignations, cleanups and reconfigurations.
ServingMembersRegistered ==
    /\ committees[epoch] \subseteq members
    /\ IsReconfiguring => committees[pending] \subseteq members

\* The TLS reverse index is the exact inverse of the members' keys, so no two
\* members share a key and a removed member's key is free again.
TlsIndexLockstep ==
    \A v \in Validators, k \in TlsKeys : tlsIndex[k] = v <=> tls[v] = k

\* A committee, once activated, is never altered or deleted, and a validator
\* that governance decided to ignore is in no committee formed before
\* governance decides otherwise: deregistering and registering again does not
\* shed the exclusion.
SettledStep ==
    /\ \A e \in Activated : committees'[e] = committees[e]
    /\ \A e \in Epoch : committees[e] = {} => committees'[e] \cap excluded = {}

\* Every step keeps committees settled: SettledStep is a property of all steps.
CommitteesSettled == [][SettledStep]_vars

\* The members of the current committee that a next formation may take again.
Willing == committees[epoch] \cap (members \ (resigned \cup ignored))

\* As long as an epoch lasts, resignations, clean-ups, registrations and
\* reconfigurations that abort never take the last member away that is willing to
\* go on: only governance can, by ignoring it.
StaffedStep ==
    mpcKey # NONE /\ epoch' = epoch /\ ignored' \subseteq ignored /\ Willing # {}
        => Willing' # {}

\* The guard on resignations sees every member that left in another way
\* (assert_not_last_active_member), whatever the order of the calls.
SomeMemberStays == [][StaffedStep]_vars

\* A reconfiguration never stays pending for ever: it completes, or its Sui
\* epoch passes and it is aborted.
PendingResolves ==
    \A e \in Epoch \ {MaxEpoch} : (pending = e) ~> (pending # e)

\* The epoch machine that the rest of the model is gated on.
Abstract == INSTANCE Epochs WITH activated <- Activated

\* The registry and the reconfiguration entry points implement that machine.
ImplementsEpochs == Abstract!EpochSpec
=============================================================================
