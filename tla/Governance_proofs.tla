------------------------- MODULE Governance_proofs -------------------------
(***************************************************************************)
(* Proofs about Governance.tla, for every set of voters, weights, proposals *)
(* and payloads: governance never locks itself out of its own package, the *)
(* MPC parameters stay consistent wherever they are pinned, and no key of  *)
(* either store changes its type.  All three rest on what a proposal's     *)
(* effect is allowed to do when it executes, whatever was checked when it  *)
(* was proposed.                                                           *)
(***************************************************************************)
EXTENDS Governance, Totals_proofs, SequenceTheorems

\* The part of the state the effects of proposals read: an active proposal has
\* a payload, the stores have their types, the pause flag is a boolean, and
\* versions are numbers.
StoresOK ==
    /\ active \in SUBSET Pids
    /\ data \in [Pids -> Payloads \cup {NONE}]
    /\ \A p \in active : data[p] \in Payloads
    /\ config \in Store
    /\ epochConfig \in Store
    /\ config["paused"] # NONE /\ config["paused"].type = "bool"
    /\ published \in Nat

\* The inductive invariant.
GovInv ==
    /\ StoresOK
    /\ SomeVersionLive
    /\ MpcConfigConsistent

-----------------------------------------------------------------------------

\* The named keys are keys, and a flag is a value.
LEMMA KeyFacts ==
    /\ "paused" \in Keys /\ "delta" \in Keys /\ "max_faulty" \in Keys
    /\ "paused" \notin PinnedKeys
    /\ \A b \in BOOLEAN : Bool(b) \in Value /\ Bool(b) # NONE /\ Bool(b).type = "bool"
BY GovernanceAssumption DEF Keys, PinnedKeys, Bool, Value

\* What hashi::init and finish_publish leave satisfies the invariant.
LEMMA InitGovInv == Init => GovInv
<1> SUFFICES ASSUME Init PROVE GovInv
    OBVIOUS
<1>1. config \in Store /\ config["paused"] # NONE /\ config["paused"].type = "bool"
    BY KeyFacts, GovernanceAssumption
       DEF Init, InitialStore, Store, Value, Bool, U64, Keys, PinnedKeys
<1>2. epochConfig \in Store
    BY GovernanceAssumption DEF Init, InitialStore, Store, Value, U64, Keys, PinnedKeys
<1>3. MpcConfigConsistent
    BY KeyFacts, GovernanceAssumption
       DEF Init, InitialStore, MpcConfigConsistent, IsConsistent, U64
<1>4. SomeVersionLive
    BY DEF Init, SomeVersionLive, LiveVersions
<1>5. active \in SUBSET Pids /\ data \in [Pids -> Payloads \cup {NONE}]
      /\ (\A p \in active : data[p] \in Payloads) /\ published \in Nat
    BY DEF Init
<1> QED
    BY <1>1, <1>2, <1>3, <1>4, <1>5 DEF GovInv, StoresOK

\* Writing entries of a payload into a store gives a store.
LEMMA UpsertedInStore ==
    ASSUME NEW store \in Store, NEW d, IsPayload(d), d.action \in {"update", "add"}
    PROVE  /\ Upserted(store, d.entries) \in Store
           /\ \A k \in DOMAIN d.entries : d.entries[k] \in Value
<1>1. \A k \in DOMAIN d.entries : d.entries[k] \in Value
    BY DEF IsPayload
<1> QED
    BY <1>1 DEF Upserted, Store

\* The checks that run again at execution keep every key's type.
LEMMA WriteKeepsTypes ==
    ASSUME NEW d, IsPayload(d), d.action \in {"update", "add"}, StoresOK, ValidEntries(d)
    PROVE  KeepsTypes(StoreOf(d), Upserted(StoreOf(d), d.entries))
<1> DEFINE store == StoreOf(d)
<1>1. store \in Store
    BY DEF StoreOf, StoresOK
<1>2. \A k \in DOMAIN d.entries : d.entries[k] \in Value /\ d.entries[k] # NONE
    BY <1>1, UpsertedInStore, GovernanceAssumption
<1>3. \A k \in DOMAIN d.entries :
          /\ k \notin PinnedKeys
          /\ store[k] # NONE => store[k].type = d.entries[k].type
    BY DEF ValidEntries, ValidAdd, ValidUpdate
<1> HIDE DEF store
<1>4. KeepsTypes(store, Upserted(store, d.entries))
    BY <1>1, <1>2, <1>3 DEF KeepsTypes, Upserted
<1> QED
    BY <1>4 DEF store

\* update_config, update_epoch_config and add_config keep both stores typed and
\* the epoch store consistent.
LEMMA WriteEntriesSafe ==
    ASSUME NEW d, IsPayload(d), d.action \in {"update", "add"}, GovInv, WriteEntries(d)
    PROVE  /\ config' \in Store /\ epochConfig' \in Store
           /\ config'["paused"] # NONE /\ config'["paused"].type = "bool"
           /\ IsConsistent(epochConfig')
           /\ KeepsTypes(config, config') /\ KeepsTypes(epochConfig, epochConfig')
<1>1. StoresOK /\ ValidEntries(d) /\ IsConsistent(epochConfig)
    BY DEF GovInv, WriteEntries, MpcConfigConsistent
<1>2. KeepsTypes(StoreOf(d), Upserted(StoreOf(d), d.entries))
    BY <1>1, WriteKeepsTypes
<1>3. \A s \in Store : KeepsTypes(s, s)
    BY DEF KeepsTypes
<1>4. config' \in Store /\ epochConfig' \in Store
    BY <1>1, UpsertedInStore DEF WriteEntries, StoresOK
<1>5. KeepsTypes(config, config') /\ KeepsTypes(epochConfig, epochConfig')
    BY <1>1, <1>2, <1>3 DEF WriteEntries, StoreOf, StoresOK
<1>6. config'["paused"] # NONE /\ config'["paused"].type = "bool"
    BY <1>1, <1>5, KeyFacts DEF KeepsTypes, StoresOK
<1>7. IsConsistent(epochConfig')
    BY <1>1 DEF WriteEntries
<1> QED
    BY <1>4, <1>5, <1>6, <1>7

\* What any proposal's effect preserves, run by the code of a live version.
LEMMA EffectSafe ==
    ASSUME NEW d \in Payloads, NEW package \in LiveVersions, GovInv, Effect(package, d)
    PROVE  /\ config' \in Store /\ epochConfig' \in Store
           /\ config'["paused"] # NONE /\ config'["paused"].type = "bool"
           /\ published' \in Nat
           /\ IsConsistent(epochConfig')
           /\ SomeVersionLive'
           /\ KeepsTypes(config, config') /\ KeepsTypes(epochConfig, epochConfig')
<1>1. IsPayload(d)
    BY GovernanceAssumption
<1>2. /\ config \in Store /\ epochConfig \in Store /\ published \in Nat
      /\ config["paused"] # NONE /\ config["paused"].type = "bool"
      /\ IsConsistent(epochConfig) /\ SomeVersionLive
    BY DEF GovInv, StoresOK, MpcConfigConsistent
<1>3. \A s \in Store : KeepsTypes(s, s)
    BY DEF KeepsTypes
<1>4. CASE d.action = "pause" /\ SetPaused(d.flag)
    <2>1. d.flag \in BOOLEAN
        BY <1>1, <1>4 DEF IsPayload
    <2>2. config' = [config EXCEPT !["paused"] = Bool(d.flag)]
        BY <1>4 DEF SetPaused
    <2>3. config' \in Store /\ config'["paused"] = Bool(d.flag)
        BY <1>2, <2>1, <2>2, KeyFacts DEF Store
    <2>4. KeepsTypes(config, config')
        BY <1>2, <2>1, <2>2, KeyFacts DEF KeepsTypes, Store
    <2>5. UNCHANGED <<epochConfig, enabled, published>>
        BY <1>4 DEF SetPaused
    <2>6. SomeVersionLive'
        BY <1>2, <2>5 DEF SomeVersionLive, LiveVersions
    <2> QED
        BY <1>2, <1>3, <2>1, <2>3, <2>4, <2>5, <2>6, KeyFacts
<1>5. CASE d.action = "enable" /\ EnableVersion(d.version)
    BY <1>2, <1>3, <1>5 DEF EnableVersion, SomeVersionLive, LiveVersions
<1>6. CASE d.action = "disable" /\ DisableVersion(package, d.version)
    <2>1. package \in LiveVersions'
        BY <1>6 DEF DisableVersion, LiveVersions
    <2> QED
        BY <1>2, <1>3, <1>6, <2>1 DEF DisableVersion, SomeVersionLive
<1>7. CASE d.action = "upgrade" /\ CommitUpgrade(d.exclusive)
    <2>1. published' \in Nat /\ published' >= 1 /\ published' \in enabled'
        BY <1>2, <1>7 DEF CommitUpgrade
    <2>2. published' \in LiveVersions'
        BY <2>1 DEF LiveVersions
    <2> QED
        BY <1>2, <1>3, <1>7, <2>1, <2>2 DEF CommitUpgrade, SomeVersionLive
<1>8. CASE d.action \in {"update", "add"} /\ WriteEntries(d)
    <2>1. UNCHANGED <<enabled, published>>
        BY <1>8 DEF WriteEntries
    <2>2. SomeVersionLive' /\ published' \in Nat
        BY <1>2, <2>1 DEF SomeVersionLive, LiveVersions
    <2> QED
        BY <1>1, <1>8, <2>2, WriteEntriesSafe
<1> QED
    BY <1>4, <1>5, <1>6, <1>7, <1>8 DEF Effect

\* The steps on one proposal keep the invariant and the types of both stores.
LEMMA ProposalStepSafe ==
    ASSUME GovInv, NEW p \in Pids, ProposalStep(p)
    PROVE  GovInv' /\ KeepsTypes(config, config') /\ KeepsTypes(epochConfig, epochConfig')
<1>1. StoresOK /\ SomeVersionLive /\ MpcConfigConsistent
    BY DEF GovInv
<1>2. \A s \in Store : KeepsTypes(s, s)
    BY DEF KeepsTypes
<1>3. ASSUME UNCHANGED <<enabled, published, config, epochConfig, committeeVars>>,
             active' \in SUBSET Pids, data' \in [Pids -> Payloads \cup {NONE}],
             \A q \in active' : data'[q] \in Payloads
      PROVE  GovInv' /\ KeepsTypes(config, config') /\ KeepsTypes(epochConfig, epochConfig')
    <2>1. StoresOK'
        BY <1>1, <1>3 DEF StoresOK
    <2>2. SomeVersionLive' /\ MpcConfigConsistent'
        BY <1>1, <1>3 DEF SomeVersionLive, LiveVersions, MpcConfigConsistent,
                          IsConsistent, committeeVars
    <2> QED
        BY <1>1, <1>2, <1>3, <2>1, <2>2 DEF GovInv, StoresOK
<1>4. ASSUME NEW v \in Voters, NEW d \in Payloads, Propose(v, p, d)
      PROVE  GovInv' /\ KeepsTypes(config, config') /\ KeepsTypes(epochConfig, epochConfig')
    BY <1>1, <1>3, <1>4 DEF Propose, StoresOK
<1>5. ASSUME NEW v \in Voters, Vote(v, p) \/ RemoveVote(v, p)
      PROVE  GovInv' /\ KeepsTypes(config, config') /\ KeepsTypes(epochConfig, epochConfig')
    BY <1>1, <1>3, <1>5 DEF Vote, RemoveVote, StoresOK
<1>6. ASSUME NEW package \in 1 .. MaxVersion, Execute(package, p)
      PROVE  GovInv' /\ KeepsTypes(config, config') /\ KeepsTypes(epochConfig, epochConfig')
    <2>1. /\ package \in LiveVersions /\ data[p] \in Payloads /\ Effect(package, data[p])
          /\ active' \in SUBSET active /\ data' = data
          /\ seated' = seated /\ forming' = forming
        BY <1>1, <1>6 DEF Execute, StoresOK, committeeVars
    <2>2. /\ config' \in Store /\ epochConfig' \in Store
          /\ config'["paused"] # NONE /\ config'["paused"].type = "bool"
          /\ published' \in Nat /\ IsConsistent(epochConfig') /\ SomeVersionLive'
          /\ KeepsTypes(config, config') /\ KeepsTypes(epochConfig, epochConfig')
        BY <2>1, EffectSafe
    <2>3. StoresOK'
        BY <1>1, <2>1, <2>2 DEF StoresOK
    <2>4. MpcConfigConsistent'
        BY <1>1, <2>1, <2>2 DEF MpcConfigConsistent, IsConsistent
    <2> QED
        BY <2>2, <2>3, <2>4 DEF GovInv
<1>7. CASE DeleteExpired(p)
    BY <1>1, <1>3, <1>7 DEF DeleteExpired, StoresOK
<1>8. CASE Expire(p)
    BY <1>1, <1>3, <1>8 DEF Expire, StoresOK
<1> QED
    BY <1>4, <1>5, <1>6, <1>7, <1>8 DEF ProposalStep

\* Every step keeps the invariant and the types of both stores.
LEMMA StepSafe ==
    GovInv /\ [Next]_vars
        => GovInv' /\ KeepsTypes(config, config') /\ KeepsTypes(epochConfig, epochConfig')
<1> SUFFICES ASSUME GovInv, [Next]_vars
             PROVE  GovInv' /\ KeepsTypes(config, config')
                            /\ KeepsTypes(epochConfig, epochConfig')
    OBVIOUS
<1>1. StoresOK /\ SomeVersionLive /\ MpcConfigConsistent
    BY DEF GovInv
<1>2. \A s \in Store : KeepsTypes(s, s)
    BY DEF KeepsTypes
<1>3. ASSUME UNCHANGED <<proposalVars, enabled, published, config, epochConfig>>,
             MpcConfigConsistent'
      PROVE  GovInv' /\ KeepsTypes(config, config') /\ KeepsTypes(epochConfig, epochConfig')
    <2>1. StoresOK'
        BY <1>1, <1>3 DEF StoresOK, proposalVars
    <2>2. SomeVersionLive'
        BY <1>1, <1>3 DEF SomeVersionLive, LiveVersions
    <2> QED
        BY <1>1, <1>2, <1>3, <2>1, <2>2 DEF GovInv, StoresOK
<1>4. ASSUME NEW w \in Weights, FormCommittee(w)
      PROVE  GovInv' /\ KeepsTypes(config, config') /\ KeepsTypes(epochConfig, epochConfig')
    <2>1. MpcConfigConsistent'
        BY <1>1, <1>4 DEF FormCommittee, MpcConfigConsistent, IsConsistent
    <2> QED
        BY <1>3, <1>4, <2>1 DEF FormCommittee
<1>5. CASE SeatCommittee
    <2>1. MpcConfigConsistent'
        BY <1>1, <1>5 DEF SeatCommittee, MpcConfigConsistent, IsConsistent
    <2> QED
        BY <1>3, <1>5, <2>1 DEF SeatCommittee
<1>6. CASE AbortForming
    <2>1. MpcConfigConsistent'
        BY <1>1, <1>6 DEF AbortForming, MpcConfigConsistent, IsConsistent
    <2> QED
        BY <1>3, <1>6, <2>1 DEF AbortForming
<1>7. CASE UNCHANGED vars
    <2>1. MpcConfigConsistent'
        BY <1>1, <1>7 DEF vars, committeeVars, MpcConfigConsistent, IsConsistent
    <2> QED
        BY <1>3, <1>7, <2>1 DEF vars
<1> QED
    BY <1>4, <1>5, <1>6, <1>7, ProposalStepSafe DEF Next

-----------------------------------------------------------------------------

\* The inductive invariant holds in every reachable state.
THEOREM GovInductive == Spec => []GovInv
<1>1. GovInv /\ [Next]_vars => GovInv'
    BY StepSafe
<1> QED
    BY <1>1, InitGovInv, PTL DEF Spec

\* For every sequence of enable, disable and upgrade proposals, some published
\* version is enabled (versioning::disable_version's refusal suffices).
THEOREM SomeVersionLiveHolds == Spec => []SomeVersionLive
<1>1. GovInv => SomeVersionLive
    BY DEF GovInv
<1> QED
    BY <1>1, GovInductive, PTL

\* The MPC parameters are consistent in the epoch store and in every committee
\* that start_reconfig pinned them to.
THEOREM MpcConfigConsistentHolds == Spec => []MpcConfigConsistent
<1>1. GovInv => MpcConfigConsistent
    BY DEF GovInv
<1> QED
    BY <1>1, GovInductive, PTL

\* No step changes the type of a key of either store, nor a pinned value.
THEOREM ConfigTypesStableHolds == Spec => ConfigTypesStable
<1>1. GovInv /\ [Next]_vars
         => [KeepsTypes(config, config') /\ KeepsTypes(epochConfig, epochConfig')]_vars
    BY StepSafe
<1> QED
    BY <1>1, GovInductive, PTL DEF Spec, ConfigTypesStable

-----------------------------------------------------------------------------
(* Votes.  Every entry of a proposal's vote list is another member, so     *)
(* what quorum_reached adds up over the list is the weight of a set.       *)

Distinct(s) == \A i, j \in DOMAIN s : s[i] = s[j] => i = j

VoteInv ==
    /\ executed \in SUBSET Pids
    /\ active \cap executed = {}
    /\ votes \in [Pids -> Seq(Voters)]
    /\ \A p \in Pids : Distinct(votes[p])
    /\ bps \in [Pids -> Nat]
    /\ seated # NONE => seated.weight \in Weights
    /\ forming # NONE => forming.weight \in Weights
    /\ config["pause_threshold"] # NONE /\ config["unpause_threshold"] # NONE

\* Nobody has voted when the package is published.
LEMMA InitVotes == Init => VoteInv
<1> SUFFICES ASSUME Init PROVE VoteInv
    OBVIOUS
<1>1. config["pause_threshold"] = U64(500) /\ config["unpause_threshold"] = U64(6667)
    BY DEF Init, InitialStore, Keys
<1>2. U64(500) # NONE /\ U64(6667) # NONE
    BY GovernanceAssumption DEF U64, Value
<1> QED
    BY <1>1, <1>2 DEF Init, VoteInv, Distinct

\* remove_vote takes one entry out and keeps the others.
LEMMA RemoveKeepsDistinct ==
    ASSUME NEW s \in Seq(Voters), Distinct(s), NEW i \in DOMAIN s
    PROVE  RemoveAt(s, i) \in Seq(Voters) /\ Distinct(RemoveAt(s, i))
<1> DEFINE a == SubSeq(s, 1, i - 1)
           b == SubSeq(s, i + 1, Len(s))
<1>1. /\ Len(s) \in Nat /\ DOMAIN s = 1 .. Len(s)
      /\ \A j \in 1 .. Len(s) : s[j] \in Voters
      /\ i \in 1 .. Len(s)
    OBVIOUS
<1>2. /\ a \in Seq(Voters) /\ Len(a) = i - 1
      /\ \A j \in 1 .. i - 1 : a[j] = s[j]
    BY <1>1, SubSeqProperties
<1>3. /\ b \in Seq(Voters) /\ Len(b) = Len(s) - i
      /\ \A j \in 1 .. Len(s) - i : b[j] = s[i + j]
    <2>1. \A j \in i + 1 .. Len(s) : s[j] \in Voters
        BY <1>1
    <2>2. /\ b \in Seq(Voters)
          /\ Len(b) = IF i + 1 <= Len(s) THEN Len(s) - (i + 1) + 1 ELSE 0
          /\ \A j \in 1 .. Len(s) - (i + 1) + 1 : b[j] = s[(i + 1) + j - 1]
        BY <1>1, <2>1, SubSeqProperties
    <2> QED
        BY <1>1, <2>2
<1> HIDE DEF a, b
<1> DEFINE c == a \o b
           n == Len(s)
<1>4. /\ c \in Seq(Voters)
      /\ Len(c) = n - 1
      /\ \A j \in 1 .. n - 1 : c[j] = IF j <= i - 1 THEN a[j] ELSE b[j - (i - 1)]
    <2>1. /\ c \in Seq(Voters)
          /\ Len(c) = Len(a) + Len(b)
          /\ \A j \in 1 .. Len(a) + Len(b) :
                c[j] = IF j <= Len(a) THEN a[j] ELSE b[j - Len(a)]
        BY <1>2, <1>3, ConcatProperties
    <2>2. Len(a) = i - 1 /\ Len(a) + Len(b) = n - 1
        BY <1>1, <1>2, <1>3
    <2> HIDE DEF c, n
    <2> QED
        BY <2>1, <2>2
<1>5. n \in Nat /\ i \in 1 .. n
    BY <1>1
<1> HIDE DEF c, n
<1>6. \A j \in 1 .. n - 1 : /\ j < i => c[j] = s[j]
                            /\ j >= i => c[j] = s[j + 1]
    <2> SUFFICES ASSUME NEW j \in 1 .. n - 1
                 PROVE  (j < i => c[j] = s[j]) /\ (j >= i => c[j] = s[j + 1])
        OBVIOUS
    <2>1. CASE j < i
        <3>1. j \in 1 .. i - 1 /\ j <= i - 1
            BY <1>5, <2>1
        <3> QED
            BY <1>2, <1>4, <1>5, <2>1, <3>1
    <2>2. CASE j >= i
        <3>1. j - (i - 1) \in 1 .. n - i /\ i + (j - (i - 1)) = j + 1 /\ ~(j <= i - 1)
            BY <1>5, <2>2
        <3>2. b[j - (i - 1)] = s[i + (j - (i - 1))]
            BY <1>3, <3>1 DEF n
        <3> QED
            BY <1>4, <1>5, <2>2, <3>1, <3>2
    <2> QED
        BY <1>5, <2>1, <2>2
<1>7. Distinct(c)
    <2>1. DOMAIN c = 1 .. n - 1 /\ DOMAIN s = 1 .. n
        BY <1>1, <1>4 DEF n
    <2> SUFFICES ASSUME NEW j \in 1 .. n - 1, NEW k \in 1 .. n - 1, c[j] = c[k]
                 PROVE  j = k
        BY <2>1 DEF Distinct
    <2>2. \A x, y \in 1 .. n : s[x] = s[y] => x = y
        BY <2>1 DEF Distinct
    <2> DEFINE place(x) == IF x < i THEN x ELSE x + 1
    <2>3. c[j] = s[place(j)] /\ c[k] = s[place(k)]
        BY <1>5, <1>6
    <2>4. place(j) \in 1 .. n /\ place(k) \in 1 .. n
        BY <1>5
    <2>5. place(j) = place(k)
        BY <2>2, <2>3, <2>4
    <2> QED
        BY <1>5, <2>5
<1> QED
    BY <1>4, <1>7 DEF RemoveAt, a, b, c

\* proposal::vote appends a member that is not in the list.
LEMMA VoteKeepsDistinct ==
    ASSUME NEW s \in Seq(Voters), Distinct(s), NEW v \in Voters, v \notin Range(s)
    PROVE  Append(s, v) \in Seq(Voters) /\ Distinct(Append(s, v))
<1>1. /\ Append(s, v) \in Seq(Voters)
      /\ Len(Append(s, v)) = Len(s) + 1
      /\ \A i \in 1 .. Len(s) : Append(s, v)[i] = s[i]
      /\ Append(s, v)[Len(s) + 1] = v
    BY AppendProperties
<1>2. Len(s) \in Nat /\ DOMAIN s = 1 .. Len(s) /\ DOMAIN Append(s, v) = 1 .. Len(s) + 1
    BY <1>1
<1>3. \A i \in 1 .. Len(s) : s[i] # v
    BY <1>2 DEF Range
<1> QED
    BY <1>1, <1>2, <1>3 DEF Distinct

\* What the votes of p weigh is what the members that cast them weigh.
LEMMA VotesAreMembers ==
    ASSUME VoteInv, NEW p \in Pids, seated # NONE
    PROVE  /\ VotingPower(p) = Total(seated.weight, Range(votes[p]))
           /\ VotingPower(p) \in Nat
<1> DEFINE S == DOMAIN votes[p]
           T == Range(votes[p])
           h == [i \in S |-> votes[p][i]]
           f == [i \in S |-> seated.weight[votes[p][i]]]
<1>1. /\ votes[p] \in Seq(Voters)
      /\ S = 1 .. Len(votes[p]) /\ Len(votes[p]) \in Nat
      /\ \A i \in S : votes[p][i] \in Voters
    BY DEF VoteInv
<1>2. seated.weight \in [Voters -> Nat]
    BY GovernanceAssumption DEF VoteInv
<1>3. IsFiniteSet(S)
    BY <1>1, FS_Interval
<1>4. h \in [S -> T]
    BY DEF Range
<1>5. \A x, y \in S : h[x] = h[y] => x = y
    BY DEF VoteInv, Distinct
<1>6. \A z \in T : \E x \in S : h[x] = z
    BY DEF Range
<1>7. \A x \in S : f[x] \in Nat /\ f[x] = seated.weight[h[x]]
    BY <1>1, <1>2
<1>8. VotingPower(p) = Total(f, S)
    BY DEF VotingPower
<1> HIDE DEF S, T, h, f
<1>9. Total(f, S) = Total(seated.weight, T)
    BY <1>3, <1>4, <1>5, <1>6, <1>7, TotalRename
<1>10. Total(f, S) \in Nat
    BY <1>3, <1>7, TotalType
<1> QED
    BY <1>8, <1>9, <1>10 DEF T

\* threshold::weight_threshold rounds up: a weight that reaches it holds its
\* share of the total.
LEMMA ThresholdRoundsUp ==
    ASSUME NEW total \in Nat, NEW t \in Nat, NEW w \in Nat,
           w >= WeightThreshold(total, t)
    PROVE  MaxBps * w >= t * total
<1> DEFINE x == total * t
           q == WeightThreshold(total, t)
<1>1. x \in Nat /\ x = t * total
    OBVIOUS
<1>2. q = (x + 9999) \div 10000
    BY DEF WeightThreshold, MaxBps
<1> HIDE DEF x, q
<1>3. q \in Int /\ 10000 * q >= x
    BY <1>1, <1>2
<1>4. w >= q
    BY DEF q
<1>5. 10000 * w >= 10000 * q
    BY <1>3, <1>4
<1>6. 10000 * w >= x
    BY <1>1, <1>3, <1>5
<1> QED
    BY <1>1, <1>6 DEF MaxBps

\* A threshold read from the instant store is a number.
LEMMA ThresholdType ==
    ASSUME GovInv, VoteInv, NEW d \in Payloads
    PROVE  ThresholdOf(d) \in Nat
<1>1. "pause_threshold" \in Keys /\ "unpause_threshold" \in Keys
    BY DEF Keys
<1>2. config["pause_threshold"] \in Value /\ config["unpause_threshold"] \in Value
    BY <1>1 DEF GovInv, StoresOK, VoteInv, Store
<1>3. config["pause_threshold"].val \in Nat /\ config["unpause_threshold"].val \in Nat
    BY <1>2 DEF Value
<1> QED
    BY <1>3 DEF ThresholdOf, ThresholdBps

\* The steps on one proposal keep the vote lists distinct.
LEMMA ProposalStepVotes ==
    ASSUME GovInv, VoteInv, NEW p \in Pids, ProposalStep(p)
    PROVE  VoteInv'
<1>1. /\ votes \in [Pids -> Seq(Voters)] /\ bps \in [Pids -> Nat]
      /\ executed \in SUBSET Pids /\ active \cap executed = {}
      /\ \A q \in Pids : Distinct(votes[q])
    BY DEF VoteInv
<1>2. config'["pause_threshold"] # NONE /\ config'["unpause_threshold"] # NONE
    <2>1. KeepsTypes(config, config')
        BY ProposalStepSafe
    <2>2. "pause_threshold" \in Keys /\ "unpause_threshold" \in Keys
        BY DEF Keys
    <2> QED
        BY <2>1, <2>2 DEF KeepsTypes, VoteInv
<1>3. UNCHANGED committeeVars
    BY DEF ProposalStep, Propose, Vote, RemoveVote, Execute, DeleteExpired, Expire
<1>4. (seated # NONE => seated.weight \in Weights)'
      /\ (forming # NONE => forming.weight \in Weights)'
    BY <1>3 DEF VoteInv, committeeVars
<1>5. ASSUME UNCHANGED bps, executed' = executed, active' \in SUBSET active,
             NEW s \in Seq(Voters), Distinct(s), votes' = [votes EXCEPT ![p] = s]
      PROVE  VoteInv'
    <2>1. votes' \in [Pids -> Seq(Voters)]
        BY <1>1, <1>5
    <2>2. \A q \in Pids : Distinct(votes'[q])
        BY <1>1, <1>5
    <2>3. bps' \in [Pids -> Nat] /\ executed' \in SUBSET Pids /\ active' \cap executed' = {}
        BY <1>1, <1>5
    <2> QED
        BY <1>2, <1>4, <2>1, <2>2, <2>3 DEF VoteInv
<1>6. ASSUME NEW v \in Voters, NEW d \in Payloads, Propose(v, p, d)
      PROVE  VoteInv'
    <2>1. /\ votes' = [votes EXCEPT ![p] = <<v>>]
          /\ bps' = [bps EXCEPT ![p] = ThresholdOf(d)]
          /\ executed' = executed /\ active' = active \cup {p} /\ p \notin executed
        BY <1>6 DEF Propose
    <2>2. <<v>> \in Seq(Voters) /\ Distinct(<<v>>)
        BY DEF Distinct
    <2>3. votes' \in [Pids -> Seq(Voters)] /\ bps' \in [Pids -> Nat]
        BY <1>1, <2>1, <2>2, ThresholdType
    <2>4. \A q \in Pids : Distinct(votes'[q])
        BY <1>1, <2>1, <2>2
    <2>5. executed' \in SUBSET Pids /\ active' \cap executed' = {}
        BY <1>1, <2>1
    <2> QED
        BY <1>2, <1>4, <2>3, <2>4, <2>5 DEF VoteInv
<1>7. ASSUME NEW v \in Voters, Vote(v, p) PROVE VoteInv'
    <2>1. /\ v \notin Range(votes[p]) /\ votes' = [votes EXCEPT ![p] = Append(votes[p], v)]
          /\ UNCHANGED <<active, executed, bps>>
        BY <1>1, <1>7 DEF Vote
    <2>2. Append(votes[p], v) \in Seq(Voters) /\ Distinct(Append(votes[p], v))
        BY <1>1, <2>1, VoteKeepsDistinct
    <2> QED
        BY <1>5, <2>1, <2>2
<1>8. ASSUME NEW v \in Voters, RemoveVote(v, p) PROVE VoteInv'
    <2>1. PICK i \in DOMAIN votes[p] : votes' = [votes EXCEPT ![p] = RemoveAt(votes[p], i)]
        BY <1>1, <1>8 DEF RemoveVote
    <2>2. RemoveAt(votes[p], i) \in Seq(Voters) /\ Distinct(RemoveAt(votes[p], i))
        BY <1>1, RemoveKeepsDistinct
    <2>3. UNCHANGED <<active, executed, bps>>
        BY <1>8 DEF RemoveVote
    <2> QED
        BY <1>5, <2>1, <2>2, <2>3
<1>9. ASSUME NEW package \in 1 .. MaxVersion, Execute(package, p) PROVE VoteInv'
    BY <1>1, <1>2, <1>4, <1>9 DEF Execute, VoteInv
<1>10. CASE DeleteExpired(p)
    <2>1. /\ votes' = [votes EXCEPT ![p] = <<>>] /\ bps' = [bps EXCEPT ![p] = 0]
          /\ executed' = executed /\ active' = active \ {p}
        BY <1>10 DEF DeleteExpired
    <2>2. <<>> \in Seq(Voters) /\ Distinct(<<>>)
        BY DEF Distinct
    <2>3. votes' \in [Pids -> Seq(Voters)] /\ bps' \in [Pids -> Nat]
        BY <1>1, <2>1, <2>2
    <2>4. \A q \in Pids : Distinct(votes'[q])
        BY <1>1, <2>1, <2>2
    <2>5. executed' \in SUBSET Pids /\ active' \cap executed' = {}
        BY <1>1, <2>1
    <2> QED
        BY <1>2, <1>4, <2>3, <2>4, <2>5 DEF VoteInv
<1>11. CASE Expire(p)
    BY <1>11 DEF Expire, VoteInv, committeeVars
<1> QED
    BY <1>6, <1>7, <1>8, <1>9, <1>10, <1>11 DEF ProposalStep

\* Every step keeps the vote lists distinct.
LEMMA StepVotes == GovInv /\ VoteInv /\ [Next]_vars => VoteInv'
<1> SUFFICES ASSUME GovInv, VoteInv, [Next]_vars PROVE VoteInv'
    OBVIOUS
<1>1. ASSUME NEW w \in Weights, FormCommittee(w) PROVE VoteInv'
    BY <1>1 DEF FormCommittee, VoteInv, proposalVars
<1>2. CASE SeatCommittee
    BY <1>2 DEF SeatCommittee, VoteInv, proposalVars
<1>3. CASE AbortForming
    BY <1>3 DEF AbortForming, VoteInv, proposalVars
<1>4. CASE UNCHANGED vars
    BY <1>4 DEF vars, VoteInv, proposalVars, committeeVars
<1> QED
    BY <1>1, <1>2, <1>3, <1>4, ProposalStepVotes DEF Next

\* A proposal executes only with its quorum, and stays as it was executed.
LEMMA StepBacked == GovInv /\ VoteInv /\ Next => BackedStep
<1> SUFFICES ASSUME GovInv, VoteInv, Next PROVE BackedStep
    OBVIOUS
<1>0. executed \in SUBSET Pids /\ active \cap executed = {} /\ data \in [Pids -> Payloads \cup {NONE}]
    BY DEF VoteInv, GovInv, StoresOK
<1>1. ASSUME UNCHANGED <<executed, data>> PROVE BackedStep
    BY <1>1 DEF BackedStep
<1>2. ASSUME NEW p \in Pids, NEW package \in 1 .. MaxVersion, Execute(package, p)
      PROVE  BackedStep
    <2>1. executed' = executed \cup {p} /\ data' = data /\ QuorumReached(p)
        BY <1>2 DEF Execute
    <2>2. /\ seated # NONE
          /\ VotingPower(p) >= WeightThreshold(TotalWeight, bps[p])
        BY <2>1 DEF QuorumReached
    <2>3. /\ VotingPower(p) = Total(seated.weight, Range(votes[p]))
          /\ VotingPower(p) \in Nat
        BY <2>2, VotesAreMembers
    <2>4. TotalWeight \in Nat /\ bps[p] \in Nat
        <3>1. seated.weight \in [Voters -> Nat]
            BY <2>2, GovernanceAssumption DEF VoteInv
        <3>2. Total(seated.weight, Voters) \in Nat
            BY <3>1, TotalType, GovernanceAssumption
        <3> QED
            BY <3>2 DEF TotalWeight, VoteInv
    <2>5. MaxBps * VotingPower(p) >= bps[p] * TotalWeight
        BY <2>2, <2>3, <2>4, ThresholdRoundsUp
    <2> QED
        BY <2>1, <2>3, <2>5 DEF BackedStep
<1>3. ASSUME NEW p \in Pids, NEW v \in Voters, NEW d \in Payloads, Propose(v, p, d)
      PROVE  BackedStep
    BY <1>0, <1>3 DEF Propose, BackedStep
<1>4. ASSUME NEW p \in Pids, DeleteExpired(p) PROVE BackedStep
    BY <1>0, <1>4 DEF DeleteExpired, BackedStep
<1>5. ASSUME NEW p \in Pids, ProposalStep(p) PROVE BackedStep
    BY <1>1, <1>2, <1>3, <1>4, <1>5 DEF ProposalStep, Vote, RemoveVote, Expire
<1>6. CASE (\E w \in Weights : FormCommittee(w)) \/ SeatCommittee \/ AbortForming
    BY <1>1, <1>6 DEF FormCommittee, SeatCommittee, AbortForming, proposalVars
<1> QED
    BY <1>5, <1>6 DEF Next

\* What executes has the weight of its quorum behind it, of distinct members
\* of the committee seated at that moment, for every committee, every weight
\* and every order of votes, withdrawals and committee changes.
THEOREM ExecutedByQuorumHolds == Spec => ExecutedByQuorum
<1>1. Init => GovInv /\ VoteInv
    BY InitGovInv, InitVotes
<1>2. GovInv /\ VoteInv /\ [Next]_vars => (GovInv /\ VoteInv)'
    BY StepSafe, StepVotes
<1>3. GovInv /\ VoteInv /\ [Next]_vars => [BackedStep]_vars
    BY StepBacked
<1> QED
    BY <1>1, <1>2, <1>3, PTL DEF Spec, ExecutedByQuorum

=============================================================================
