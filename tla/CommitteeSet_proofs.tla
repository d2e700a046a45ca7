------------------------- MODULE CommitteeSet_proofs -------------------------
(***************************************************************************)
(* The registry and reconfiguration for every set of validators, keys and  *)
(* delegates and any number of epochs.                                     *)
(***************************************************************************)
EXTENDS CommitteeSet, TLAPS

\* What the properties rest on: neither the current nor the pending epoch is
\* ahead of Sui's; a pending committee is stored, and lies after the current
\* one once a key exists; a collected certificate is a signed one; a record
\* that was removed left no TLS key behind; and the ignore flags say what
\* governance decided, for members only.
Support ==
  /\ epoch <= suiEpoch
  /\ pending # NONE => /\ pending <= suiEpoch
                       /\ committees[pending] # {}
                       /\ mpcKey # NONE => epoch < pending
  /\ pendingCert # NONE => pendingCert \in certs
  /\ \A v \in Validators \ members : tls[v] = NONE
  /\ ignored = excluded /\ ignored \subseteq members

IInv ==
  /\ TypeOK
  /\ Support
  /\ HandoffChain
  /\ HandoffGenuine
  /\ ServingMembersRegistered
  /\ TlsIndexLockstep

\* Epochs are numbers, and the absent value is none of them.
LEMMA EpochsAreNumbers == Epoch \subseteq Nat /\ NONE \notin Epoch /\ 0 \in Epoch
BY CommitteeSetAssumption DEF Epoch

\* The state committee_set::create leaves satisfies the invariant.
LEMMA InitIInv == Init => IInv
<1> SUFFICES ASSUME Init PROVE IInv
  OBVIOUS
<1> USE EpochsAreNumbers, CommitteeSetAssumption DEF Init
<1>1. TypeOK
  BY DEF TypeOK, Address
<1>2. Support
  BY DEF Support
<1>3. HandoffChain
  BY DEF HandoffChain, Activated, HasCommittee
<1>4. HandoffGenuine /\ ServingMembersRegistered /\ TlsIndexLockstep
  BY DEF HandoffGenuine, ServingMembersRegistered, TlsIndexLockstep, IsReconfiguring
<1> QED
  BY <1>1, <1>2, <1>3, <1>4 DEF IInv

-----------------------------------------------------------------------------
(* Types.                                                                  *)

\* The entry points of validator.move and the ignore flag keep the types.
LEMMA MemberStepTypeOK ==
  ASSUME TypeOK, NEW v \in Validators, MemberStep(v)
  PROVE  TypeOK'
<1> USE DEF TypeOK, suiVars, reconfigVars, govVars
<1>1. CASE Register(v)
  BY <1>1 DEF Register, Address
<1>2. CASE RemoveInactiveMember(v)
  BY <1>2 DEF RemoveInactiveMember, Address
<1>3. ASSUME NEW flag \in BOOLEAN, SetMemberIgnored(v, flag) PROVE TypeOK'
  BY <1>3 DEF SetMemberIgnored
<1>4. ASSUME NEW sender \in Address, SetNextEpochPublicKey(v, sender) PROVE TypeOK'
  BY <1>4 DEF SetNextEpochPublicKey
<1>5. ASSUME NEW sender \in Address, SetNextEpochEncryptionPublicKey(v, sender)
      PROVE  TypeOK'
  BY <1>5 DEF SetNextEpochEncryptionPublicKey
<1>6. ASSUME NEW sender \in Address, NEW o \in Delegates,
             SetOperatorAddress(v, sender, o)
      PROVE  TypeOK'
  BY <1>6 DEF SetOperatorAddress, Address
<1>7. ASSUME NEW sender \in Address, NEW k \in TlsKeys, SetTlsPublicKey(v, sender, k)
      PROVE  TypeOK'
  BY <1>7 DEF SetTlsPublicKey, ReindexTls
<1>8. ASSUME NEW sender \in Address, RequestResignation(v, sender) PROVE TypeOK'
  BY <1>8 DEF RequestResignation
<1>9. ASSUME NEW sender \in Address, ClearResignation(v, sender) PROVE TypeOK'
  BY <1>9 DEF ClearResignation
<1> QED
  BY <1>1, <1>2, <1>3, <1>4, <1>5, <1>6, <1>7, <1>8, <1>9 DEF MemberStep

\* The entry points of reconfig.move keep the types.
LEMMA ReconfigStepTypeOK ==
  ASSUME TypeOK, ReconfigStep
  PROVE  TypeOK'
<1> USE DEF TypeOK, suiVars, memberVars, infoVars, govVars
<1>1. CASE StartReconfig
  BY <1>1 DEF StartReconfig, Eligible
<1>2. CASE SignHandoff
  <2>1. pending \in Epoch
    BY <1>2 DEF SignHandoff, IsReconfiguring
  <2>2. [from |-> epoch, to |-> pending, committee |-> committees[pending]] \in HandoffCert
    BY <2>1 DEF HandoffCert
  <2> QED
    BY <1>2, <2>2 DEF SignHandoff, reconfigVars
<1>3. ASSUME NEW c \in certs, NEW target \in Epoch, SubmitCommitteeHandoff(c, target)
      PROVE  TypeOK'
  BY <1>3 DEF SubmitCommitteeHandoff
<1>4. ASSUME NEW target \in Epoch, NEW key \in MpcKeys, EndReconfig(target, key)
      PROVE  TypeOK'
  <2>1. pending \in Epoch
    BY <1>4 DEF EndReconfig
  <2>2. pendingCert # NONE => [next |-> pending, cert |-> pendingCert] \in Handoff
    BY <2>1 DEF Handoff
  <2>3. handoffs' \in [Epoch -> Handoff \cup {NONE}] /\ mpcKey' \in MpcKeys \cup {NONE}
    BY <1>4, <2>2 DEF EndReconfig
  <2> QED
    BY <1>4, <2>1, <2>3 DEF EndReconfig
<1>5. ASSUME NEW target \in Epoch, AbortReconfig(target) PROVE TypeOK'
  BY <1>5 DEF AbortReconfig
<1> QED
  BY <1>1, <1>2, <1>3, <1>4, <1>5 DEF ReconfigStep

\* Every step keeps the types.
LEMMA StepTypeOK == TypeOK /\ [Next]_vars => TypeOK'
<1> SUFFICES ASSUME TypeOK, [Next]_vars PROVE TypeOK'
  OBVIOUS
<1> USE DEF TypeOK, suiVars, memberVars, infoVars, reconfigVars, govVars
<1>1. CASE AdvanceSui
  BY <1>1, CommitteeSetAssumption DEF AdvanceSui, Epoch
<1>2. CASE FinishPublish
  BY <1>2 DEF FinishPublish
<1>3. ASSUME NEW flag \in BOOLEAN, SetReconfigHold(flag) PROVE TypeOK'
  BY <1>3 DEF SetReconfigHold
<1>4. ASSUME NEW v \in Validators, MemberStep(v) PROVE TypeOK'
  BY <1>4, MemberStepTypeOK
<1>5. CASE ReconfigStep
  BY <1>5, ReconfigStepTypeOK
<1>6. CASE UNCHANGED vars
  BY <1>6 DEF vars
<1> QED
  BY <1>1, <1>2, <1>3, <1>4, <1>5, <1>6 DEF Next

-----------------------------------------------------------------------------
(* Registry steps leave the reconfiguration alone, and reconfiguration     *)
(* steps the registry.                                                     *)

\* The registry's part of the invariant.
RegistryInv ==
  /\ \A v \in Validators \ members : tls[v] = NONE
  /\ ignored = excluded /\ ignored \subseteq members
  /\ ServingMembersRegistered
  /\ TlsIndexLockstep

\* The entry points of validator.move and the ignore flag keep it: cleanup
\* takes no member that serves or is ignored, and the TLS index follows every
\* write.
LEMMA MemberStepRegistry ==
  ASSUME TypeOK, RegistryInv, NEW v \in Validators, MemberStep(v)
  PROVE  RegistryInv' /\ UNCHANGED <<suiEpoch, reconfigVars, certs>>
<1> USE DEF TypeOK, RegistryInv, ServingMembersRegistered, TlsIndexLockstep,
            IsReconfiguring, suiVars, reconfigVars, govVars
<1>1. CASE Register(v)
  <2>1. UNCHANGED <<suiEpoch, reconfigVars, certs, tlsIndex, excluded>>
    BY <1>1 DEF Register
  <2>2. tls[v] = NONE /\ tls' = tls
    BY <1>1 DEF Register
  <2> QED
    BY <1>1, <2>1, <2>2 DEF Register
<1>2. CASE RemoveInactiveMember(v)
  <2>1. UNCHANGED <<suiEpoch, reconfigVars, certs, excluded>>
    BY <1>2 DEF RemoveInactiveMember
  <2>2. TlsIndexLockstep'
    BY <1>2, CommitteeSetAssumption DEF RemoveInactiveMember
  <2>3. ServingMembersRegistered'
    BY <1>2, <2>1 DEF RemoveInactiveMember, InCurrentOrPendingCommittee
  <2> QED
    BY <1>2, <2>1, <2>2, <2>3 DEF RemoveInactiveMember
<1>3. ASSUME NEW flag \in BOOLEAN, SetMemberIgnored(v, flag)
      PROVE  RegistryInv' /\ UNCHANGED <<suiEpoch, reconfigVars, certs>>
  BY <1>3 DEF SetMemberIgnored
<1>4. ASSUME NEW sender \in Address, NEW k \in TlsKeys, SetTlsPublicKey(v, sender, k)
      PROVE  RegistryInv' /\ UNCHANGED <<suiEpoch, reconfigVars, certs>>
  <2>1. UNCHANGED <<suiEpoch, reconfigVars, certs, members, ignored, excluded>>
    BY <1>4 DEF SetTlsPublicKey
  <2>2. TlsIndexLockstep'
    BY <1>4, CommitteeSetAssumption DEF SetTlsPublicKey, ReindexTls
  <2> QED
    BY <1>4, <2>1, <2>2 DEF SetTlsPublicKey, MemberAuthorized
<1>5. CASE UNCHANGED <<suiVars, members, tls, tlsIndex, ignored, reconfigVars,
                       govVars, certs>>
  BY <1>5
<1> QED
  BY <1>1, <1>2, <1>3, <1>4, <1>5 DEF MemberStep, SetNextEpochPublicKey,
     SetNextEpochEncryptionPublicKey, SetOperatorAddress, RequestResignation,
     ClearResignation

\* A reconfiguration step seats only registered members.
LEMMA ReconfigStepRegistry ==
  ASSUME TypeOK, RegistryInv, ReconfigStep
  PROVE  RegistryInv'
<1> USE DEF TypeOK, RegistryInv, ServingMembersRegistered, TlsIndexLockstep,
            IsReconfiguring, memberVars, infoVars, govVars
<1>1. CASE StartReconfig
  BY <1>1 DEF StartReconfig, Eligible
<1>2. CASE SignHandoff
  BY <1>2 DEF SignHandoff, reconfigVars
<1>3. ASSUME NEW c \in certs, NEW target \in Epoch, SubmitCommitteeHandoff(c, target)
      PROVE  RegistryInv'
  BY <1>3 DEF SubmitCommitteeHandoff
<1>4. ASSUME NEW target \in Epoch, NEW key \in MpcKeys, EndReconfig(target, key)
      PROVE  RegistryInv'
  BY <1>4 DEF EndReconfig, PendingInWindow
<1>5. ASSUME NEW target \in Epoch, AbortReconfig(target) PROVE RegistryInv'
  BY <1>5 DEF AbortReconfig
<1> QED
  BY <1>1, <1>2, <1>3, <1>4, <1>5 DEF ReconfigStep

-----------------------------------------------------------------------------
(* The handoff chain.                                                      *)

\* The reconfiguration's part of the invariant.
ChainInv ==
  /\ epoch <= suiEpoch
  /\ pending # NONE => /\ pending <= suiEpoch
                       /\ committees[pending] # {}
                       /\ mpcKey # NONE => epoch < pending
  /\ pendingCert # NONE => pendingCert \in certs
  /\ HandoffChain
  /\ HandoffGenuine

\* The types ChainInv needs.
ChainTypeOK ==
  /\ suiEpoch \in Epoch
  /\ epoch \in Epoch
  /\ committees \in [Epoch -> SUBSET Validators]
  /\ handoffs \in [Epoch -> Handoff \cup {NONE}]
  /\ pending \in Epoch \cup {NONE}
  /\ pendingCert \in HandoffCert \cup {NONE}
  /\ mpcKey \in MpcKeys \cup {NONE}
  /\ NONE \notin MpcKeys
  /\ Epoch \subseteq Nat
  /\ NONE \notin Epoch

\* start_reconfig stores a committee under an epoch that has none and marks it
\* pending: what is activated does not change.
LEMMA StartReconfigChain ==
  ASSUME ChainTypeOK, ChainInv, StartReconfig
  PROVE  ChainInv'
<1>1. /\ pending = NONE /\ pending' = suiEpoch /\ pendingCert' = NONE
      /\ committees[suiEpoch] = {}
      /\ Eligible # {}
      /\ committees' = [committees EXCEPT ![suiEpoch] = Eligible]
      /\ UNCHANGED <<suiEpoch, epoch, handoffs, mpcKey, certs>>
  BY DEF StartReconfig, IsReconfiguring, HasCommittee, suiVars
<1>2. Activated' = Activated
  BY <1>1 DEF ChainTypeOK, Activated, HasCommittee
<1>3. \A e \in Activated : committees'[e] = committees[e]
  BY <1>1 DEF ChainTypeOK, Activated, HasCommittee
<1>4. mpcKey # NONE => epoch < suiEpoch
  <2> SUFFICES ASSUME mpcKey # NONE PROVE epoch # suiEpoch
    BY DEF ChainInv, ChainTypeOK
  <2>1. committees[epoch] # {}
    BY DEF ChainInv, HandoffChain, Activated, HasCommittee
  <2> QED
    BY <1>1, <2>1
<1>5. HandoffChain'
  BY <1>1, <1>2 DEF ChainInv, HandoffChain
<1>6. HandoffGenuine'
  <2> SUFFICES ASSUME NEW e \in Epoch, handoffs[e] # NONE
               PROVE  committees'[handoffs[e].next] = committees[handoffs[e].next]
    BY <1>1 DEF ChainInv, HandoffGenuine
  <2>1. handoffs[e].next \in Activated
    BY DEF ChainInv, HandoffChain
  <2> QED
    BY <1>3, <2>1
<1>7. committees'[suiEpoch] # {}
  BY <1>1 DEF ChainTypeOK
<1> QED
  BY <1>1, <1>4, <1>5, <1>6, <1>7 DEF ChainInv, ChainTypeOK

\* abort_reconfig takes away the pending committee only.
LEMMA AbortReconfigChain ==
  ASSUME ChainTypeOK, ChainInv, NEW target \in Epoch, AbortReconfig(target)
  PROVE  ChainInv'
<1>1. /\ pending \in Epoch /\ pending' = NONE /\ pendingCert' = NONE
      /\ committees' = [committees EXCEPT ![pending] = {}]
      /\ UNCHANGED <<suiEpoch, epoch, handoffs, mpcKey, certs>>
  BY DEF AbortReconfig, IsReconfiguring, suiVars, ChainTypeOK
<1>2. Activated' = Activated
  BY <1>1 DEF ChainTypeOK, Activated, HasCommittee
<1>3. \A e \in Activated : committees'[e] = committees[e]
  BY <1>1 DEF ChainTypeOK, Activated
<1>4. HandoffChain'
  BY <1>1, <1>2 DEF ChainInv, HandoffChain
<1>5. HandoffGenuine'
  <2> SUFFICES ASSUME NEW e \in Epoch, handoffs[e] # NONE
               PROVE  committees'[handoffs[e].next] = committees[handoffs[e].next]
    BY <1>1 DEF ChainInv, HandoffGenuine
  <2>1. handoffs[e].next \in Activated
    BY DEF ChainInv, HandoffChain
  <2> QED
    BY <1>3, <2>1
<1> QED
  BY <1>1, <1>4, <1>5 DEF ChainInv

\* end_reconfig at genesis starts the chain.
LEMMA GenesisChain ==
  ASSUME ChainTypeOK, ChainInv, NEW target \in Epoch, NEW key \in MpcKeys,
         EndReconfig(target, key), mpcKey = NONE
  PROVE  ChainInv'
<1>1. /\ pending \in Epoch /\ pending = suiEpoch /\ pending' = NONE
      /\ pendingCert' = NONE /\ epoch' = pending
      /\ mpcKey' = key /\ mpcKey' # NONE
      /\ UNCHANGED <<suiEpoch, committees, handoffs, certs>>
  BY DEF EndReconfig, PendingInWindow, IsReconfiguring, suiVars, ChainTypeOK
<1>2. /\ Activated = {}
      /\ \A e \in Epoch : handoffs[e] = NONE
      /\ committees[pending] # {}
  BY <1>1 DEF ChainInv, HandoffChain, ChainTypeOK
<1>3. Activated' = {pending}
  BY <1>1, <1>2 DEF Activated, HasCommittee, ChainTypeOK
<1>4. HandoffChain'
  BY <1>1, <1>2, <1>3 DEF HandoffChain, ChainTypeOK
<1>5. HandoffGenuine'
  BY <1>1, <1>2 DEF HandoffGenuine
<1> QED
  BY <1>1, <1>4, <1>5 DEF ChainInv, ChainTypeOK

\* A later end_reconfig extends the chain at its end.
LEMMA EndReconfigChain ==
  ASSUME ChainTypeOK, ChainInv, NEW target \in Epoch, NEW key \in MpcKeys,
         EndReconfig(target, key), mpcKey # NONE
  PROVE  ChainInv'
<1>1. /\ pending \in Epoch /\ pending = suiEpoch /\ pending' = NONE
      /\ pendingCert # NONE /\ pendingCert' = NONE /\ epoch' = pending
      /\ mpcKey' = mpcKey
      /\ handoffs' = [handoffs EXCEPT ![epoch] =
                         [next |-> pending, cert |-> pendingCert]]
      /\ UNCHANGED <<suiEpoch, committees, certs>>
  BY DEF EndReconfig, PendingInWindow, IsReconfiguring, suiVars, ChainTypeOK
<1>2. /\ epoch \in Activated
      /\ \A e \in Activated : e <= epoch
      /\ \A e \in Epoch : handoffs[e] # NONE <=> e \in Activated \ {epoch}
      /\ \A e \in Activated \ {epoch} :
            /\ handoffs[e].next \in Activated
            /\ e < handoffs[e].next
            /\ \A a \in Activated : ~(e < a /\ a < handoffs[e].next)
      /\ committees[pending] # {} /\ epoch < pending
      /\ pendingCert \in certs
  BY <1>1 DEF ChainInv, HandoffChain, ChainTypeOK
<1>3. Activated' = Activated \cup {pending} /\ pending \notin Activated
      /\ Activated \subseteq Epoch
  BY <1>1, <1>2 DEF Activated, HasCommittee, ChainTypeOK
<1>4. /\ handoffs'[epoch] = [next |-> pending, cert |-> pendingCert]
      /\ handoffs'[epoch] # NONE
      /\ \A e \in Epoch \ {epoch} : handoffs'[e] = handoffs[e]
  <2>1. [next |-> pending, cert |-> pendingCert] \in Handoff
    BY <1>1 DEF ChainTypeOK, Handoff
  <2> QED
    BY <1>1, <2>1, CommitteeSetAssumption DEF ChainTypeOK
<1>5. HandoffChain'
  <2>1. epoch' \in Activated' /\ \A e \in Activated' : e <= epoch'
    BY <1>1, <1>2, <1>3 DEF ChainTypeOK
  <2>2. \A e \in Epoch : handoffs'[e] # NONE <=> e \in Activated' \ {epoch'}
    BY <1>1, <1>2, <1>3, <1>4 DEF ChainTypeOK
  <2>3. ASSUME NEW e \in Activated' \ {epoch'}
        PROVE  /\ handoffs'[e].next \in Activated'
               /\ e < handoffs'[e].next
               /\ \A a \in Activated' : ~(e < a /\ a < handoffs'[e].next)
    <3>0. Activated \subseteq Nat /\ pending \in Nat /\ epoch \in Nat
      BY <1>1, <1>3 DEF ChainTypeOK
    <3>a. epoch < pending /\ \A a \in Activated : a <= epoch
      BY <1>2
    <3>1. CASE e = epoch
      <4>1. handoffs'[e].next = pending
        BY <1>4, <3>1
      <4>2. ~(pending < pending) /\ \A a \in Activated : ~(epoch < a)
        BY <3>0, <3>a
      <4> QED
        BY <1>3, <3>1, <3>a, <4>1, <4>2
    <3>2. CASE e # epoch
      <4>1. e \in Activated \ {epoch} /\ handoffs'[e] = handoffs[e]
        BY <1>1, <1>3, <1>4, <3>2
      <4>2. handoffs[e].next \in Activated /\ handoffs[e].next <= epoch
        BY <1>2, <4>1
      <4>3. e < handoffs[e].next
            /\ \A a \in Activated : ~(e < a /\ a < handoffs[e].next)
        BY <1>2, <4>1
      <4>4. ~(pending < handoffs[e].next)
        <5>1. PICK n \in Nat : n = handoffs[e].next /\ n <= epoch
          BY <3>0, <4>2
        <5>2. ~(pending < n)
          BY <3>0, <3>a, <5>1
        <5> QED
          BY <5>1, <5>2
      <4> QED
        BY <1>3, <4>1, <4>2, <4>3, <4>4
    <3> QED
      BY <3>1, <3>2
  <2> QED
    BY <1>1, <2>1, <2>2, <2>3 DEF HandoffChain
<1>6. HandoffGenuine'
  <2>1. pendingCert = [from |-> epoch, to |-> pending,
                       committee |-> committees[pending]]
    BY <1>1 DEF ChainInv, HandoffGenuine
  <2>2. ASSUME NEW e \in Epoch, handoffs'[e] # NONE
        PROVE  /\ handoffs'[e].cert \in certs
               /\ handoffs'[e].cert = [from |-> e, to |-> handoffs'[e].next,
                                 committee |-> committees[handoffs'[e].next]]
    <3>1. CASE e = epoch
      BY <1>2, <1>4, <2>1, <3>1
    <3>2. CASE e # epoch
      BY <1>4, <2>2, <3>2 DEF ChainInv, HandoffGenuine
    <3> QED
      BY <3>1, <3>2
  <2> QED
    BY <1>1, <2>2 DEF HandoffGenuine
<1> QED
  BY <1>1, <1>2, <1>5, <1>6 DEF ChainInv, ChainTypeOK

\* Every entry point of reconfig.move keeps the chain.
LEMMA ReconfigStepChain ==
  ASSUME ChainTypeOK, ChainInv, ReconfigStep
  PROVE  ChainInv'
<1>1. CASE StartReconfig
  BY <1>1, StartReconfigChain
<1>2. CASE SignHandoff
  BY <1>2 DEF SignHandoff, ChainInv, HandoffChain, HandoffGenuine, Activated,
     HasCommittee, IsReconfiguring, suiVars, reconfigVars
<1>3. ASSUME NEW c \in certs, NEW target \in Epoch, SubmitCommitteeHandoff(c, target)
      PROVE  ChainInv'
  BY <1>3 DEF SubmitCommitteeHandoff, PendingInWindow, ChainInv, HandoffChain,
     HandoffGenuine, Activated, HasCommittee, IsReconfiguring, suiVars
<1>4. ASSUME NEW target \in Epoch, NEW key \in MpcKeys, EndReconfig(target, key)
      PROVE  ChainInv'
  BY <1>4, GenesisChain, EndReconfigChain
<1>5. ASSUME NEW target \in Epoch, AbortReconfig(target) PROVE ChainInv'
  BY <1>5, AbortReconfigChain
<1> QED
  BY <1>1, <1>2, <1>3, <1>4, <1>5 DEF ReconfigStep

-----------------------------------------------------------------------------

\* The two parts, with the types, are the invariant.
LEMMA Parts == IInv <=> TypeOK /\ RegistryInv /\ ChainInv
BY DEF IInv, Support, RegistryInv, ChainInv

\* The types ChainInv needs are part of TypeOK.
LEMMA ChainTypes == TypeOK => ChainTypeOK
BY EpochsAreNumbers, CommitteeSetAssumption DEF TypeOK, ChainTypeOK

\* Every step keeps the invariant.
LEMMA StepIInv == IInv /\ [Next]_vars => IInv'
<1> SUFFICES ASSUME TypeOK, RegistryInv, ChainInv, [Next]_vars
             PROVE  RegistryInv' /\ ChainInv'
  BY StepTypeOK, Parts DEF IInv, Support, RegistryInv, ChainInv
<1>t. ChainTypeOK
  BY ChainTypes
<1>a. ASSUME UNCHANGED <<suiEpoch, reconfigVars, certs>> PROVE ChainInv'
  BY <1>a DEF reconfigVars, ChainInv, HandoffChain, HandoffGenuine, Activated,
     HasCommittee, IsReconfiguring
<1>b. ASSUME UNCHANGED <<memberVars, reconfigVars, excluded>> PROVE RegistryInv'
  BY <1>b DEF memberVars, infoVars, reconfigVars, RegistryInv,
     ServingMembersRegistered, TlsIndexLockstep, IsReconfiguring
<1>1. CASE AdvanceSui
  <2>1. ChainInv'
    BY <1>1, <1>t DEF AdvanceSui, reconfigVars, ChainTypeOK, ChainInv, HandoffChain,
       HandoffGenuine, Activated, HasCommittee, IsReconfiguring
  <2> QED
    BY <1>1, <1>b, <2>1 DEF AdvanceSui, govVars
<1>2. CASE FinishPublish
  BY <1>2, <1>a, <1>b DEF FinishPublish, suiVars
<1>3. ASSUME NEW flag \in BOOLEAN, SetReconfigHold(flag)
      PROVE  RegistryInv' /\ ChainInv'
  BY <1>3, <1>a, <1>b DEF SetReconfigHold, suiVars
<1>4. ASSUME NEW v \in Validators, MemberStep(v) PROVE RegistryInv' /\ ChainInv'
  BY <1>4, <1>a, MemberStepRegistry
<1>5. CASE ReconfigStep
  BY <1>5, <1>t, ReconfigStepRegistry, ReconfigStepChain
<1>6. CASE UNCHANGED vars
  BY <1>6, <1>a, <1>b DEF vars, suiVars, govVars
<1> QED
  BY <1>1, <1>2, <1>3, <1>4, <1>5, <1>6 DEF Next

\* The invariant holds in every reachable state of the registry and the
\* reconfiguration entry points.
THEOREM Inductive == Spec => []IInv
BY InitIInv, StepIInv, PTL DEF Spec

\* Every variable keeps its type, for any number of validators and epochs.
THEOREM TypeCorrect == Spec => []TypeOK
<1>1. IInv => TypeOK
  BY DEF IInv
<1> QED
  BY <1>1, Inductive, PTL

\* The stored handoffs are one unbroken path from genesis to the current
\* epoch, through any sequence of aborted and skipped epochs.
THEOREM HandoffChainHolds == Spec => []HandoffChain
<1>1. IInv => HandoffChain
  BY DEF IInv
<1> QED
  BY <1>1, Inductive, PTL

\* Every stored handoff certificate was signed by its source committee over
\* the committee stored for its target; no certificate of an aborted target
\* is ever recorded.
THEOREM HandoffGenuineHolds == Spec => []HandoffGenuine
<1>1. IInv => HandoffGenuine
  BY DEF IInv
<1> QED
  BY <1>1, Inductive, PTL

\* Nobody who serves, or is pending to serve, loses the registration.
THEOREM ServingMembersRegisteredHolds == Spec => []ServingMembersRegistered
<1>1. IInv => ServingMembersRegistered
  BY DEF IInv
<1> QED
  BY <1>1, Inductive, PTL

\* The TLS reverse index is the exact inverse of the members' keys.
THEOREM TlsIndexLockstepHolds == Spec => []TlsIndexLockstep
<1>1. IInv => TlsIndexLockstep
  BY DEF IInv
<1> QED
  BY <1>1, Inductive, PTL

-----------------------------------------------------------------------------

\* Only start_reconfig and abort_reconfig write committees, and neither
\* touches an activated one; who is excluded is not eligible.
LEMMA StepSettled == IInv /\ [Next]_vars => [SettledStep]_vars
<1> SUFFICES ASSUME IInv, Next PROVE SettledStep
  OBVIOUS
<1>0. /\ committees \in [Epoch -> SUBSET Validators]
      /\ pending \in Epoch \cup {NONE}
      /\ ignored = excluded
  BY DEF IInv, TypeOK, Support
<1>1. CASE UNCHANGED committees
  BY <1>0, <1>1 DEF SettledStep
<1>2. CASE StartReconfig
  <2>1. Eligible \cap excluded = {}
    BY <1>0 DEF Eligible
  <2> QED
    BY <1>0, <1>2, <2>1 DEF StartReconfig, SettledStep, Activated, HasCommittee
<1>3. ASSUME NEW target \in Epoch, AbortReconfig(target) PROVE SettledStep
  BY <1>0, <1>3 DEF AbortReconfig, SettledStep, Activated
<1>4. ASSUME NEW v \in Validators, MemberStep(v) PROVE UNCHANGED committees
  <2>1. TypeOK /\ RegistryInv
    BY Parts
  <2> QED
    BY <1>4, <2>1, MemberStepRegistry DEF reconfigVars
<1> QED
  BY <1>1, <1>2, <1>3, <1>4 DEF Next, ReconfigStep, AdvanceSui, FinishPublish,
     SetReconfigHold, SignHandoff, SubmitCommitteeHandoff, EndReconfig, reconfigVars

\* Activated committees are never altered, and who governance ignores is in no
\* committee formed until governance decides otherwise.
THEOREM CommitteesSettledHolds == Spec => CommitteesSettled
BY Inductive, StepSettled, PTL DEF CommitteesSettled, Spec

\* No entry point of validator.move takes the last willing member of the current
\* committee: who registers or is cleaned up is not in it, and who resigns leaves
\* another willing member behind.
LEMMA MemberStepStaffed ==
  ASSUME IInv, NEW v \in Validators, MemberStep(v)
  PROVE  StaffedStep
<1> SUFFICES ASSUME ignored' \subseteq ignored, Willing # {} PROVE Willing' # {}
  BY DEF StaffedStep
<1>0. committees' = committees /\ epoch' = epoch
  <2>1. TypeOK /\ RegistryInv
    BY Parts
  <2> QED
    BY <2>1, MemberStepRegistry DEF reconfigVars
<1>1. committees[epoch] \subseteq members
  BY DEF IInv, ServingMembersRegistered
<1>2. CASE Register(v)
  <2>1. \A w \in Willing : w \in Willing'
    BY <1>0, <1>1, <1>2 DEF Register, Willing
  <2> QED
    BY <2>1
<1>3. CASE RemoveInactiveMember(v)
  <2>1. \A w \in Willing : w \in Willing'
    BY <1>0, <1>3 DEF RemoveInactiveMember, InCurrentOrPendingCommittee, Willing
  <2> QED
    BY <2>1
<1>4. ASSUME NEW sender \in Address, RequestResignation(v, sender) PROVE Willing' # {}
  <2>0. PICK w \in Willing : TRUE
    OBVIOUS
  <2>1. members' = members /\ ignored' = ignored /\ resigned' = resigned \cup {v}
    BY <1>4 DEF RequestResignation
  <2>2. CASE v \in committees[epoch]
    <3>1. PICK u \in committees[epoch] \ {v} : u \in members \ (resigned \cup ignored)
      BY <1>4, <2>2 DEF RequestResignation, InCurrentOrPendingCommittee, NotLastActiveMember
    <3> QED
      BY <1>0, <2>1, <3>1 DEF Willing
  <2>3. CASE v \notin committees[epoch]
    BY <1>0, <2>0, <2>1, <2>3 DEF Willing
  <2> QED
    BY <2>2, <2>3
<1>5. CASE UNCHANGED <<members, resigned>>
  BY <1>0, <1>5 DEF Willing
<1>6. ASSUME NEW sender \in Address, ClearResignation(v, sender) PROVE Willing' # {}
  BY <1>0, <1>6 DEF ClearResignation, Willing
<1> QED
  BY <1>2, <1>3, <1>4, <1>5, <1>6 DEF MemberStep, SetMemberIgnored, SetNextEpochPublicKey,
     SetNextEpochEncryptionPublicKey, SetOperatorAddress, SetTlsPublicKey

\* Nor does a reconfiguration: what it forms or aborts is not the current committee.
LEMMA StepStaffed == IInv /\ [Next]_vars => [StaffedStep]_vars
<1> SUFFICES ASSUME IInv, Next PROVE StaffedStep
  OBVIOUS
<1>0. /\ committees \in [Epoch -> SUBSET Validators] /\ epoch \in Epoch
      /\ suiEpoch \in Epoch
      /\ mpcKey # NONE => epoch \in Activated
  BY DEF IInv, TypeOK, HandoffChain
<1>1. ASSUME mpcKey # NONE /\ epoch' = epoch => committees'[epoch] = committees[epoch],
             UNCHANGED memberVars
      PROVE  StaffedStep
  BY <1>1 DEF StaffedStep, Willing, memberVars, infoVars
<1>2. CASE StartReconfig
  <2>1. mpcKey # NONE => suiEpoch # epoch
    BY <1>0, <1>2 DEF StartReconfig, Activated
  <2> QED
    BY <1>0, <1>1, <1>2, <2>1 DEF StartReconfig
<1>3. ASSUME NEW target \in Epoch, AbortReconfig(target) PROVE StaffedStep
  BY <1>0, <1>1, <1>3 DEF AbortReconfig, Activated
<1>4. CASE UNCHANGED <<committees, memberVars>>
  BY <1>1, <1>4
<1> QED
  BY <1>2, <1>3, <1>4, MemberStepStaffed DEF Next, ReconfigStep, AdvanceSui, FinishPublish,
     SetReconfigHold, SignHandoff, SubmitCommitteeHandoff, EndReconfig, reconfigVars

\* As long as an epoch lasts, only governance can leave its committee without a
\* member that the next formation may take.
THEOREM SomeMemberStaysHolds == Spec => SomeMemberStays
BY Inductive, StepStaffed, PTL DEF SomeMemberStays, Spec

-----------------------------------------------------------------------------
(* CommitteeSet implements the epoch machine.                              *)

\* The two readings of has_committee agree.
LEMMA SameHasCommittee ==
  ASSUME IInv, NEW e \in Epoch
  PROVE  Abstract!HasCommittee(e) <=> HasCommittee(e)
BY EpochsAreNumbers DEF IInv, Support, Abstract!HasCommittee, HasCommittee, Activated

\* Every step of the registry and of reconfiguration is a step of the epoch
\* machine or leaves it alone.
LEMMA StepImplements ==
  IInv /\ [Next]_vars => [Abstract!EpochNext]_(Abstract!epochVars)
<1> SUFFICES ASSUME IInv, [Next]_vars
             PROVE  Abstract!EpochNext \/ UNCHANGED Abstract!epochVars
  OBVIOUS
<1>0. /\ committees \in [Epoch -> SUBSET Validators]
      /\ pending \in Epoch \cup {NONE}
      /\ suiEpoch \in Epoch
      /\ NONE \notin Epoch
  BY EpochsAreNumbers DEF IInv, TypeOK
<1>1. ASSUME UNCHANGED <<suiEpoch, epoch, committees, pending>>
      PROVE  UNCHANGED Abstract!epochVars
  BY <1>1 DEF Abstract!epochVars, Activated, HasCommittee
<1>2. CASE AdvanceSui
  BY <1>2 DEF AdvanceSui, Abstract!EpochNext, Abstract!AdvanceSui, reconfigVars,
     Activated, HasCommittee
<1>3. CASE StartReconfig
  <2>1. Activated' = Activated
    BY <1>0, <1>3 DEF StartReconfig, IsReconfiguring, Activated, HasCommittee
  <2>2. ~Abstract!HasCommittee(suiEpoch)
    BY <1>0, <1>3, SameHasCommittee DEF StartReconfig
  <2> QED
    BY <1>3, <2>1, <2>2 DEF StartReconfig, Abstract!EpochNext,
       Abstract!StartReconfig, IsReconfiguring, Abstract!IsReconfiguring, suiVars
<1>4. ASSUME NEW target \in Epoch, NEW key \in MpcKeys, EndReconfig(target, key)
      PROVE  Abstract!EndReconfig
  <2>1. Activated' = Activated \cup {pending}
    BY <1>0, <1>4 DEF EndReconfig, Activated, HasCommittee
  <2> QED
    BY <1>4, <2>1 DEF EndReconfig, PendingInWindow, Abstract!EndReconfig, suiVars
<1>5. ASSUME NEW target \in Epoch, AbortReconfig(target) PROVE Abstract!AbortReconfig
  <2>1. Activated' = Activated
    BY <1>0, <1>5 DEF AbortReconfig, Activated, HasCommittee
  <2> QED
    BY <1>5, <2>1 DEF AbortReconfig, IsReconfiguring, Abstract!AbortReconfig,
       Abstract!IsReconfiguring, suiVars
<1>6. ASSUME NEW v \in Validators, MemberStep(v) PROVE UNCHANGED Abstract!epochVars
  <2>1. TypeOK /\ RegistryInv
    BY Parts
  <2> QED
    BY <1>1, <1>6, <2>1, MemberStepRegistry DEF reconfigVars
<1>7. CASE UNCHANGED vars
  BY <1>1, <1>7 DEF vars, suiVars, reconfigVars
<1>8. CASE ReconfigStep
  BY <1>1, <1>3, <1>4, <1>5, <1>8 DEF ReconfigStep, SignHandoff,
     SubmitCommitteeHandoff, suiVars, reconfigVars, Abstract!EpochNext
<1> QED
  BY <1>1, <1>2, <1>6, <1>7, <1>8 DEF Next, FinishPublish, SetReconfigHold,
     suiVars, reconfigVars

\* CommitteeSet implements the epoch machine that the models of deposits,
\* withdrawals and signing are gated on.
THEOREM RefinesEpochs == Spec => ImplementsEpochs
<1>1. Init => Abstract!EpochInit
  BY EpochsAreNumbers DEF Init, Abstract!EpochInit, Abstract!Epoch, Epoch, Activated,
     HasCommittee
<1> QED
  BY <1>1, Inductive, StepImplements, PTL DEF Spec, ImplementsEpochs,
     Abstract!EpochSpec
=============================================================================
