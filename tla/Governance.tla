----------------------------- MODULE Governance -----------------------------
(***************************************************************************)
(* Governance: core/proposal/proposal.move and the proposal types under    *)
(* core/proposal/types, core/versioning.move, the two configuration stores *)
(* (core/config/config.move) and core/mpc_config.move.                     *)
(*                                                                         *)
(* A proposal is checked when it is proposed and takes effect when it is   *)
(* executed, after any number of other proposals, upgrades and committee   *)
(* changes.  Committees come and go as CommitteeSet.tla says; what counts  *)
(* here is the weight of each voter and the epoch configuration that       *)
(* start_reconfig pins to a committee.                                     *)
(*                                                                         *)
(* Abstracted:                                                             *)
(*  - the voters are registered throughout (CommitteeSet.tla), and a call  *)
(*    comes from the voter or its operator;                                *)
(*  - a configuration value is its type and a number (0 and 1 for bool),   *)
(*    and keys that no rule relates to another are left out;               *)
(*  - the package ships as versions 1, 2, ..., the version's number being  *)
(*    its PACKAGE_VERSION; a call runs the code of some published version; *)
(*  - ignore_member and the reconfig_hold flag act on CommitteeSet.tla,    *)
(*    whose actions SetMemberIgnored and SetReconfigHold are their effect. *)
(***************************************************************************)
EXTENDS Integers, FiniteSets, SequencesExt, Totals

CONSTANTS
    Voters,          \* registered validators
    Weights,         \* the weights committees may have: functions on Voters
    Pids,            \* proposal ids
    Payloads,        \* the payloads that are proposed
    NewKeys,         \* keys that only add_config introduces
    MaxVersion,      \* bound: the last package version published
    MaxFaultyBps,    \* MAX_FAULTY_BPS
    DefaultDelta,    \* DEFAULT_WEIGHT_REDUCTION_ALLOWED_DELTA
    DefaultFaulty,   \* DEFAULT_MAX_FAULTY_IN_BASIS_POINTS
    NONE             \* the absent value of Move's Option, or an absent key

MaxBps == 10000

\* THRESHOLD_BPS of every proposal type but emergency_pause.
ThresholdBps == 6667

\* The keys the package pins for the deployment's lifetime.
PinnedKeys == {"guardian_btc_public_key", "bitcoin_chain_id"}

\* Keys of earlier versions, which must not come back.
RetiredKeys == {"mpc_threshold_in_basis_points", "mpc_nonce_generation_protocol"}

Keys == {"paused", "pause_threshold", "unpause_threshold", "delta", "max_faulty"}
            \cup PinnedKeys \cup RetiredKeys \cup NewKeys

Value == [type : {"bool", "u64", "bytes"}, val : Nat]

Store == [Keys -> Value \cup {NONE}]

Committee == [weight : Weights, config : Store]

Bool(b) == [type |-> "bool", val |-> IF b THEN 1 ELSE 0]
U64(n) == [type |-> "u64", val |-> n]

\* The payloads of the proposal types.
IsPayload(d) ==
    \/ d \in [action : {"pause"}, flag : BOOLEAN]
    \/ d \in [action : {"enable", "disable"}, version : Nat]
    \/ d \in [action : {"upgrade"}, exclusive : BOOLEAN]
    \/ /\ d.action \in {"update", "add"}
       /\ d.epoch \in BOOLEAN
       /\ DOMAIN d.entries \subseteq Keys /\ DOMAIN d.entries # {}
       /\ \A k \in DOMAIN d.entries : d.entries[k] \in Value

ASSUME GovernanceAssumption ==
    /\ \A w \in Weights : w \in [Voters -> Nat]
    /\ \A d \in Payloads : IsPayload(d)
    /\ MaxVersion \in Nat \ {0}
    /\ MaxFaultyBps \in 1 .. MaxBps
    /\ DefaultDelta \in Nat /\ DefaultFaulty \in 1 .. MaxFaultyBps
    /\ DefaultDelta < DefaultFaulty
    /\ NONE \notin Value /\ NONE \notin Committee
    /\ IsFiniteSet(Voters)

VARIABLES
    active,      \* keys of Proposals.active
    executed,    \* keys of Proposals.executed
    deleted,     \* ids of the proposals deleted after expiring
    data,        \* Proposal.data
    votes,       \* Proposal.votes
    bps,         \* Proposal.quorum_threshold_bps
    expired,     \* proposals older than MAX_PROPOSAL_DURATION_MS
    enabled,     \* Versioning.enabled_versions
    published,   \* version of the UpgradeCap: the latest published package
    config,      \* Hashi.config, the instant store
    epochConfig, \* Hashi.epoch_config
    seated,      \* the committee stored under the current epoch, or NONE
    forming,     \* the pending committee, or NONE
    stage        \* "zero": in Sui epoch 0, before genesis; "waiting": later,
                 \* before genesis; "done": a key was generated

proposalVars == <<active, executed, deleted, data, votes, bps, expired>>
committeeVars == <<seated, forming, stage>>
vars == <<proposalVars, enabled, published, config, epochConfig, committeeVars>>

\* Every variable keeps its type.
TypeOK ==
    /\ active \in SUBSET Pids
    /\ executed \in SUBSET Pids
    /\ deleted \in SUBSET Pids
    /\ data \in [Pids -> Payloads \cup {NONE}]
    /\ votes \in [Pids -> Seq(Voters)]
    /\ bps \in [Pids -> Nat]
    /\ expired \in SUBSET Pids
    /\ enabled \in SUBSET Nat
    /\ published \in 1 .. MaxVersion
    /\ config \in Store
    /\ epochConfig \in Store
    /\ seated \in Committee \cup {NONE}
    /\ forming \in Committee \cup {NONE}
    /\ stage \in {"zero", "waiting", "done"}

InitialStore(entries) ==
    [k \in Keys |-> IF k \in DOMAIN entries THEN entries[k] ELSE NONE]

\* hashi::init and finish_publish
Init ==
    /\ active = {} /\ executed = {} /\ deleted = {} /\ expired = {}
    /\ data = [p \in Pids |-> NONE]
    /\ votes = [p \in Pids |-> <<>>]
    /\ bps = [p \in Pids |-> 0]
    /\ enabled = {1}
    /\ published = 1
    /\ config = InitialStore(
          [paused |-> Bool(FALSE), pause_threshold |-> U64(500),
           unpause_threshold |-> U64(6667),
           guardian_btc_public_key |-> [type |-> "bytes", val |-> 0],
           bitcoin_chain_id |-> [type |-> "bytes", val |-> 0]])
    /\ epochConfig = InitialStore([delta |-> U64(DefaultDelta),
                                   max_faulty |-> U64(DefaultFaulty)])
    /\ seated = NONE
    /\ forming = NONE
    /\ stage \in {"zero", "waiting"}

-----------------------------------------------------------------------------
(* Quorums.                                                                *)

\* The versions whose code a call can run: published, and not disabled, since
\* every entry point starts with assert_version_enabled.
LiveVersions == enabled \cap (1 .. published)

TotalWeight == Total(seated.weight, Voters)

\* What the votes of p weigh in the committee that is seated now.
VotingPower(p) ==
    Total([i \in DOMAIN votes[p] |-> seated.weight[votes[p][i]]], DOMAIN votes[p])

\* threshold::weight_threshold, rounded up.
WeightThreshold(total, threshold) ==
    (total * threshold + MaxBps - 1) \div MaxBps

\* proposal::quorum_reached; it aborts without a committee and on a threshold
\* above MaxBps.
QuorumReached(p) ==
    /\ seated # NONE
    /\ bps[p] <= MaxBps
    /\ VotingPower(p) >= WeightThreshold(TotalWeight, bps[p])

\* The validator's seat, which voting requires.
IsSeated(v) == seated # NONE /\ seated.weight[v] > 0

-----------------------------------------------------------------------------
(* What a payload must satisfy, and what it does.                          *)

\* mpc_config::is_valid_value, the range checks of the epoch store.
ValidMpcValue(k, value) ==
    /\ k \notin RetiredKeys
    /\ k = "delta" => value.type = "u64" /\ value.val <= MaxBps
    /\ k = "max_faulty" => value.type = "u64" /\ value.val \in 1 .. MaxFaultyBps

\* mpc_config::is_consistent, the rule that relates two keys.
IsConsistent(store) == store["delta"].val < store["max_faulty"].val

StoreOf(d) == IF d.epoch THEN epochConfig ELSE config

\* The checks of update_config and update_epoch_config.
ValidUpdate(d) ==
    \A k \in DOMAIN d.entries :
        /\ k \notin PinnedKeys
        /\ StoreOf(d)[k] # NONE
        /\ StoreOf(d)[k].type = d.entries[k].type
        /\ d.epoch => ValidMpcValue(k, d.entries[k])

\* The checks of add_config.
ValidAdd(d) ==
    \A k \in DOMAIN d.entries :
        /\ k \notin PinnedKeys
        /\ StoreOf(d)[k] = NONE
        /\ d.epoch => ValidMpcValue(k, d.entries[k])

ValidEntries(d) == IF d.action = "add" THEN ValidAdd(d) ELSE ValidUpdate(d)

\* config::upsert of every entry.
Upserted(store, entries) ==
    [k \in Keys |-> IF k \in DOMAIN entries THEN entries[k] ELSE store[k]]

\* Mutant: entries are not judged again on the store they are written to.
WriteEntriesAsProposed(d) ==
    /\ IF d.epoch
       THEN /\ epochConfig' = Upserted(epochConfig, d.entries)
            /\ IsConsistent(epochConfig')
            /\ UNCHANGED config
       ELSE config' = Upserted(config, d.entries) /\ UNCHANGED epochConfig
    /\ UNCHANGED <<enabled, published>>

\* Mutant: the two coupled keys are not judged on the resulting store.
WriteEntriesOneByOne(d) ==
    /\ ValidEntries(d)
    /\ IF d.epoch
       THEN epochConfig' = Upserted(epochConfig, d.entries) /\ UNCHANGED config
       ELSE config' = Upserted(config, d.entries) /\ UNCHANGED epochConfig
    /\ UNCHANGED <<enabled, published>>

\* update_config, update_epoch_config and add_config: the entries are judged
\* again, and the epoch store on what the proposal leaves behind.
WriteEntries(d) ==
    /\ ValidEntries(d)
    /\ IF d.epoch
       THEN /\ epochConfig' = Upserted(epochConfig, d.entries)
            /\ IsConsistent(epochConfig')
            /\ UNCHANGED config
       ELSE config' = Upserted(config, d.entries) /\ UNCHANGED epochConfig
    /\ UNCHANGED <<enabled, published>>

\* emergency_pause::execute
SetPaused(flag) ==
    /\ config' = [config EXCEPT !["paused"] = Bool(flag)]
    /\ UNCHANGED <<epochConfig, enabled, published>>

\* versioning::enable_version; inserting a member of a VecSet aborts.
EnableVersion(v) ==
    /\ v \notin enabled
    /\ enabled' = enabled \cup {v}
    /\ UNCHANGED <<published, config, epochConfig>>

\* Mutant: a version may disable itself.
DisableAnyVersion(package, v) ==
    /\ v \in enabled
    /\ enabled' = enabled \ {v}
    /\ UNCHANGED <<published, config, epochConfig>>

\* versioning::disable_version, run by the code of version package.
DisableVersion(package, v) ==
    /\ v # package
    /\ v \in enabled
    /\ enabled' = enabled \ {v}
    /\ UNCHANGED <<published, config, epochConfig>>

\* upgrade::execute, Sui's Upgrade command and upgrade::finalize_upgrade, one
\* transaction: the authorization is a hot potato.
CommitUpgrade(exclusive) ==
    /\ published < MaxVersion
    /\ published' = published + 1
    /\ IF exclusive
       THEN enabled' = {published'}
       ELSE published' \notin enabled /\ enabled' = enabled \cup {published'}
    /\ UNCHANGED <<config, epochConfig>>

Effect(package, d) ==
    \/ d.action = "pause" /\ SetPaused(d.flag)
    \/ d.action = "enable" /\ EnableVersion(d.version)
    \/ d.action = "disable" /\ DisableVersion(package, d.version)
    \/ d.action = "upgrade" /\ CommitUpgrade(d.exclusive)
    \/ d.action \in {"update", "add"} /\ WriteEntries(d)

-----------------------------------------------------------------------------
(* Proposals.                                                              *)

\* The threshold a proposal is given for good: the emergency thresholds are
\* read from the instant store when the proposal is made.
ThresholdOf(d) ==
    IF d.action # "pause" THEN ThresholdBps
    ELSE IF d.flag THEN config["pause_threshold"].val
    ELSE config["unpause_threshold"].val

\* <type>::propose -> proposal::create.  Before genesis registration is the
\* only authority, and no quorum is computed.
Propose(v, p, d) ==
    /\ LiveVersions # {}
    /\ p \notin active \cup executed \cup deleted
    /\ d.action \in {"update", "add"} => ValidEntries(d)
    /\ seated # NONE => IsSeated(v) /\ ThresholdOf(d) <= MaxBps
    /\ active' = active \cup {p}
    /\ data' = [data EXCEPT ![p] = d]
    /\ votes' = [votes EXCEPT ![p] = <<v>>]
    /\ bps' = [bps EXCEPT ![p] = ThresholdOf(d)]
    /\ UNCHANGED <<executed, deleted, expired, enabled, published, config,
                   epochConfig, committeeVars>>

\* Mutant: a member may vote for a proposal again.
VoteAgain(v, p) ==
    /\ LiveVersions # {}
    /\ IsSeated(v)
    /\ p \in active
    /\ Len(votes[p]) < Cardinality(Voters)
    /\ p \notin expired
    /\ bps[p] <= MaxBps
    /\ votes' = [votes EXCEPT ![p] = Append(@, v)]
    /\ UNCHANGED <<active, executed, deleted, data, bps, expired, enabled,
                   published, config, epochConfig, committeeVars>>

\* proposal::vote
Vote(v, p) ==
    /\ LiveVersions # {}
    /\ IsSeated(v)
    /\ p \in active
    /\ v \notin Range(votes[p])
    /\ p \notin expired
    /\ bps[p] <= MaxBps
    /\ votes' = [votes EXCEPT ![p] = Append(@, v)]
    /\ UNCHANGED <<active, executed, deleted, data, bps, expired, enabled,
                   published, config, epochConfig, committeeVars>>

\* proposal::remove_vote, which needs no seat.
RemoveVote(v, p) ==
    /\ LiveVersions # {}
    /\ p \in active
    /\ \E i \in DOMAIN votes[p] :
          /\ votes[p][i] = v
          /\ \A j \in 1 .. i - 1 : votes[p][j] # v
          /\ votes' = [votes EXCEPT ![p] = RemoveAt(@, i)]
    /\ UNCHANGED <<active, executed, deleted, data, bps, expired, enabled,
                   published, config, epochConfig, committeeVars>>

\* <type>::execute -> proposal::execute, by the code of version package; if
\* the effect aborts, so does the transaction, and the proposal stays active.
Execute(package, p) ==
    /\ package \in LiveVersions
    /\ p \in active
    /\ p \notin expired
    /\ QuorumReached(p)
    /\ active' = active \ {p}
    /\ executed' = executed \cup {p}
    /\ Effect(package, data[p])
    /\ UNCHANGED <<deleted, data, votes, bps, expired, committeeVars>>

\* proposal::delete_expired, permissionless.
DeleteExpired(p) ==
    /\ LiveVersions # {}
    /\ p \in active
    /\ p \in expired
    /\ active' = active \ {p}
    /\ deleted' = deleted \cup {p}
    /\ data' = [data EXCEPT ![p] = NONE]
    /\ votes' = [votes EXCEPT ![p] = <<>>]
    /\ bps' = [bps EXCEPT ![p] = 0]
    /\ expired' = expired \ {p}
    /\ UNCHANGED <<executed, enabled, published, config, epochConfig, committeeVars>>

\* Sui's clock passes p's creation plus MAX_PROPOSAL_DURATION_MS.
Expire(p) ==
    /\ p \in active \ expired
    /\ expired' = expired \cup {p}
    /\ UNCHANGED <<active, executed, deleted, data, votes, bps, enabled, published,
                   config, epochConfig, committeeVars>>

-----------------------------------------------------------------------------
(* Committees, as far as governance sees them.                             *)

\* start_reconfig pins the epoch store to the committee it forms.  In Sui
\* epoch 0 the genesis committee is stored under the current epoch at once.
FormCommittee(w) ==
    /\ LiveVersions # {}
    /\ forming = NONE
    /\ forming' = [weight |-> w, config |-> epochConfig]
    /\ seated' = IF stage = "zero" THEN forming' ELSE seated
    /\ UNCHANGED <<proposalVars, enabled, published, config, epochConfig, stage>>

\* end_reconfig
SeatCommittee ==
    /\ LiveVersions # {}
    /\ forming # NONE
    /\ seated' = forming
    /\ forming' = NONE
    /\ stage' = "done"
    /\ UNCHANGED <<proposalVars, enabled, published, config, epochConfig>>

\* abort_reconfig, once Sui's epoch has moved on.
AbortForming ==
    /\ LiveVersions # {}
    /\ forming # NONE
    /\ forming' = NONE
    /\ seated' = IF stage = "zero" THEN NONE ELSE seated
    /\ stage' = IF stage = "zero" THEN "waiting" ELSE stage
    /\ UNCHANGED <<proposalVars, enabled, published, config, epochConfig>>

-----------------------------------------------------------------------------

ProposalStep(p) ==
    \/ \E v \in Voters, d \in Payloads : Propose(v, p, d)
    \/ \E v \in Voters : Vote(v, p) \/ RemoveVote(v, p)
    \/ \E package \in 1 .. MaxVersion : Execute(package, p)
    \/ DeleteExpired(p)
    \/ Expire(p)

Next ==
    \/ \E p \in Pids : ProposalStep(p)
    \/ \E w \in Weights : FormCommittee(w)
    \/ SeatCommittee
    \/ AbortForming

Spec == Init /\ [][Next]_vars

-----------------------------------------------------------------------------
(* Properties.                                                             *)

\* Governance never locks itself out: whatever versions are enabled ahead of
\* their release, disabled from one another's code or retired by an exclusive
\* upgrade, some published version may still run.
SomeVersionLive == LiveVersions # {}

\* The MPC parameters are consistent in the epoch store and in every committee
\* they were pinned to, although each proposal may move only one of the two
\* coupled keys and was checked against a store that has changed since.
MpcConfigConsistent ==
    /\ IsConsistent(epochConfig)
    /\ forming # NONE => IsConsistent(forming.config)
    /\ seated # NONE => IsConsistent(seated.config)

KeepsTypes(old, new) ==
    \A k \in Keys :
        /\ old[k] # NONE => new[k] # NONE /\ new[k].type = old[k].type
        /\ k \in PinnedKeys => new[k] = old[k]

\* A key of either store keeps its type for good, so that as_bool and as_u64
\* never abort on it, and a pinned key its value, even if two add_config
\* proposals for one key with different types race.
ConfigTypesStable == [][KeepsTypes(config, config') /\ KeepsTypes(epochConfig, epochConfig')]_vars

\* A proposal that executes is backed, in the committee seated at that moment,
\* by distinct members holding at least its share of the total weight, however
\* often they voted, withdrew and voted again under earlier committees; what
\* was executed stays executed and is never altered.
BackedStep ==
    /\ \A p \in executed' \ executed :
          MaxBps * Total(seated.weight, Range(votes[p])) >= bps[p] * TotalWeight
    /\ \A p \in executed : p \in executed' /\ data'[p] = data[p]

\* Every step executes backed proposals only.
ExecutedByQuorum == [][BackedStep]_vars
=============================================================================
