------------------------- MODULE DepositWatch_proofs -------------------------
(***************************************************************************)
(* What the tracker of deposits may rely on, proved for any chains, any    *)
(* lag of Kyoto's events and any number of faults.                         *)
(*                                                                         *)
(* The argument: events reach the monitor in the order of Kyoto's chains   *)
(* (Order), and what was on the best chain is there still or gone for good *)
(* (History).  A block that was found since the last reorganization the    *)
(* monitor processed lies on its chain or on one that an event brings, and *)
(* whatever an event before that one puts at its height is gone (Found).   *)
(* A discovery that may still record its result has every block since its  *)
(* captured tip in the scan queue (Watched).                               *)
(***************************************************************************)
EXTENDS DepositWatch, TLAPS

-----------------------------------------------------------------------------
(* The invariant. *)

Events == [kind : {"chain", "synced"}, chain : Chains]
Statuses == {Untracked, Unchecked, Absent} \cup {InBlock(b) : b \in Blocks}
Results == {Absent, Error} \cup {InBlock(b) : b \in Blocks}
Fetches == [block : Blocks, gen : Nat]
Discoveries ==
  {NoDisc} \cup
  [pc : {"require", "lookup", "recheck", "fetch", "done"}, tip : Chains, gen : Nat,
   block : Blocks \cup {NONE}, token : {"live", "dead", "none"}, result : Results]
Jobs ==
  [pc : {"none", "ask", "discover", "failed", "confirmed"}, stale : BOOLEAN] \cup
  [pc : {"check"}, stale : BOOLEAN, tip : Chains, gen : Nat, status : Statuses \cup Results] \cup
  [pc : {"checked"}, stale : BOOLEAN, block : Blocks \cup {NONE}, gen : Nat,
   confirmed : BOOLEAN]

ChainTypes ==
  /\ best \in Chains /\ core \in Chains /\ kyoto \in Chains /\ tip \in Chains
  /\ events \in Seq(Events)
  /\ gone \subseteq Blocks

WorkTypes ==
  /\ deposit \in Deposits
  /\ gen \in Nat /\ synced \in BOOLEAN
  /\ status \in Statuses
  /\ cache \in [block : Blocks \cup {NONE}, outputs : BOOLEAN]
  /\ queue \subseteq ToSet(tip)
  /\ scan \in {NoScan} \cup Fetches
  /\ disc \in Discoveries
  /\ waiters \subseteq Fetches
  /\ job \in Jobs

\* The monitor's chain, and the one it will have after p more events.
Pos(p) == IF p = 0 THEN tip ELSE events[p].chain

\* The events end in Kyoto's chain.  An event of headers brings one block, or a
\* chain that does not extend the one before.
Order ==
  /\ kyoto = Pos(Len(events))
  /\ \A i \in 1 .. Len(events) :
       \/ events[i].kind = "synced" /\ events[i].chain = Pos(i - 1)
       \/ /\ events[i].kind = "chain"
          /\ IsPrefix(Pos(i - 1), events[i].chain) =>
               Len(events[i].chain) = Len(Pos(i - 1)) + 1

\* Whatever Core, Kyoto or the monitor have was on the best chain, and Kyoto has
\* what the monitor has, unless it is gone.
History ==
  /\ ToSet(core) \subseteq ToSet(best) \cup gone
  /\ ToSet(kyoto) \subseteq ToSet(best) \cup gone
  /\ \A q \in 0 .. Len(events) : ToSet(Pos(q)) \subseteq ToSet(kyoto) \cup gone
  /\ Returns \/ ToSet(best) \cap gone = {}

ChainInv == ChainTypes /\ Order /\ History

\* Bitcoin Core will not have the block again.
NeverAgain(a) == a \in gone /\ a \notin ToSet(core)

Found(b) ==
  \E p \in 0 .. Len(events) :
    /\ b \in ToSet(Pos(p))
    /\ \A q \in 0 .. p - 1 : \A a \in ToSet(Pos(q)) :
         Height(a) = Height(b) => a = b \/ Returns \/ NeverAgain(a)

\* A confirmation that may be reported.
Deep(b) ==
  \/ Returns \/ deposit.threshold = 0
  \/ b \in ToSet(tip) /\ Confirmations(b, tip) >= deposit.threshold

\* A block that a worker of this generation found, or that is recorded.
FoundStatus(s) == s.st = "inblock" => Found(s.block)
FoundDisc(d) ==
  d.pc # "none" =>
    /\ d.gen = gen
    /\ d.pc = "fetch" => Found(d.block)
    /\ FoundStatus(d.result)
FoundJob(j) ==
  /\ j.pc = "check" => /\ j.gen <= gen
                       /\ j.gen = gen => IsPrefix(j.tip, tip) /\ FoundStatus(j.status)
  /\ j.pc = "checked" => /\ j.gen <= gen
                         /\ j.gen = gen /\ j.confirmed => Deep(j.block)

FoundInv ==
  /\ FoundStatus(status)
  /\ cache.block # NONE => Found(cache.block)
  /\ FoundDisc(disc)
  /\ \A w \in waiters : w.gen <= gen /\ (w.gen = gen => Found(w.block))
  /\ scan # NoScan => scan.gen <= gen /\ (scan.gen = gen => scan.block \in ToSet(tip))
  /\ FoundJob(job)

\* The deposit is not on the chain c.
Without(c) == \A b \in ToSet(c) : b \notin deposit.blocks

\* Bitcoin Core left the chain c for good.
Lost(c) == \E x \in ToSet(c) : NeverAgain(x)

\* Blocks of the monitor's chain that are not in S will be scanned.
Scanned(S) == \A b \in ToSet(tip) \ S : b \in deposit.blocks => b \in queue

Watched ==
  /\ status = Absent => synced /\ (Returns \/ Scanned({}))
  /\ disc.pc # "none" =>
       /\ disc.token = "live" => status = Unchecked /\ synced /\ Scanned(ToSet(disc.tip))
       /\ disc.pc = "lookup" => CoreAt(disc.tip) \/ Returns \/ Lost(disc.tip)
       /\ disc.pc = "recheck" => Without(disc.tip) \/ Returns \/ Lost(disc.tip)
       /\ disc.result = Absent => Without(disc.tip) \/ Returns

\* The inductive invariant.
WatchInv == ChainInv /\ WorkTypes /\ FoundInv /\ Watched

-----------------------------------------------------------------------------
(* Chains. *)

\* A chain is a sequence of blocks and agrees with a branch; its prefixes are
\* chains.
LEMMA ChainShape ==
  ASSUME NEW c \in Chains
  PROVE  /\ c \in Seq(Blocks) /\ Len(c) \in Nat /\ DOMAIN c = 1 .. Len(c)
         /\ \E d \in Branches : Len(c) <= Len(d) /\ c = SubSeq(d, 1, Len(c))
         /\ \A i \in 0 .. Len(c) : SubSeq(c, 1, i) \in Chains
<1>0. PICK d \in Branches : c \in {SubSeq(d, 1, i) : i \in 0 .. Len(d)} BY DEF Chains
<1>1. PICK k \in 0 .. Len(d) : c = SubSeq(d, 1, k) BY <1>0
<1>2. d \in Seq(Blocks) BY ChainsAssumption
<1>3. c \in Seq(Blocks) /\ Len(c) = k BY <1>1, <1>2
<1>4. ASSUME NEW i \in 0 .. Len(c) PROVE SubSeq(c, 1, i) \in Chains
  <2>1. i \in 0 .. Len(d) /\ i <= k BY <1>2, <1>3
  <2>2. SubSeq(c, 1, i) = SubSeq(d, 1, i) BY <1>1, <1>2, <1>3, <2>1
  <2> QED BY <2>1, <2>2 DEF Chains
<1> QED BY <1>1, <1>2, <1>3, <1>4

\* The empty chain, and no chain is longer than the horizon.
LEMMA ChainBounds == <<>> \in Chains /\ Horizon \in Nat /\ \A c \in Chains : Len(c) <= Horizon
<1>1. PICK n \in {Len(c) : c \in Chains} : \A c \in Chains : Len(c) <= n
  BY ChainsAssumption
<1>2. Horizon \in {Len(c) : c \in Chains} /\ \A c \in Chains : Len(c) <= Horizon
  BY <1>1 DEF Horizon
<1>3. PICK c \in Chains : Horizon = Len(c) BY <1>2
<1>4. Len(c) \in Nat /\ c \in Seq(Blocks) /\ SubSeq(c, 1, 0) \in Chains BY ChainShape
<1>5. SubSeq(c, 1, 0) = <<>> BY <1>4
<1> QED BY <1>2, <1>3, <1>4, <1>5

\* A block has the same height on every chain.
LEMMA HeightAt ==
  ASSUME NEW c \in Chains, NEW i \in 1 .. Len(c)
  PROVE  Height(c[i]) = i /\ c[i] \in Blocks
<1>1. c \in Seq(Blocks) /\ Len(c) \in Nat BY ChainShape
<1>2. PICK d \in Branches : Len(c) <= Len(d) /\ c = SubSeq(d, 1, Len(c)) BY ChainShape
<1>3. d \in Seq(Blocks) /\ c[i] = d[i] /\ i <= Len(d) BY <1>1, <1>2, ChainsAssumption
<1>4. i \in 1 .. Horizon BY <1>1, ChainBounds
<1>5. ASSUME NEW h \in 1 .. Horizon, NEW e \in Branches, h <= Len(e), e[h] = c[i]
      PROVE  h = i
  <2>1. e \in Seq(Blocks) BY ChainsAssumption
  <2>2. h \in DOMAIN e /\ i \in DOMAIN d BY <1>3, <1>5, <2>1
  <2> QED BY <1>3, <1>5, <2>2, ChainsAssumption
<1> QED BY <1>1, <1>3, <1>4, <1>5 DEF Height

\* A chain has one block at a height, and one at each up to its length.
LEMMA SameHeight ==
  ASSUME NEW c \in Chains
  PROVE  /\ \A a, b \in ToSet(c) : Height(a) = Height(b) => a = b
         /\ \A b \in ToSet(c) : Height(b) \in 1 .. Len(c) /\ b \in Blocks /\ c[Height(b)] = b
         /\ \A h \in 1 .. Len(c) : c[h] \in ToSet(c) /\ Height(c[h]) = h
<1>1. DOMAIN c = 1 .. Len(c) BY ChainShape
<1>2. \A h \in 1 .. Len(c) : c[h] \in ToSet(c) /\ Height(c[h]) = h /\ c[h] \in Blocks
  BY <1>1, HeightAt DEF ToSet
<1>3. \A b \in ToSet(c) : \E h \in 1 .. Len(c) : b = c[h] BY <1>1 DEF ToSet
<1>4. \A b \in ToSet(c) : Height(b) \in 1 .. Len(c) /\ b \in Blocks /\ c[Height(b)] = b
  BY <1>2, <1>3
<1> QED BY <1>2, <1>4

\* A prefix has the blocks of the chain up to its length.
LEMMA PrefixBlocks ==
  ASSUME NEW s \in Chains, NEW t \in Chains
  PROVE  /\ IsPrefix(s, t) <=> Len(s) <= Len(t) /\ \A i \in 1 .. Len(s) : s[i] = t[i]
         /\ IsPrefix(s, t) => ToSet(s) \subseteq ToSet(t)
         /\ IsPrefix(s, t) => \A b \in ToSet(t) : Height(b) <= Len(s) => b \in ToSet(s)
<1>1. /\ s \in Seq(Blocks) /\ t \in Seq(Blocks) /\ Len(s) \in Nat /\ Len(t) \in Nat
      /\ DOMAIN s = 1 .. Len(s) /\ DOMAIN t = 1 .. Len(t)
  BY ChainShape
<1>2. ASSUME Len(s) <= Len(t)
      PROVE  SubSeq(s, 1, Len(s)) = SubSeq(t, 1, Len(s)) <=> \A i \in 1 .. Len(s) : s[i] = t[i]
  <2>1. /\ SubSeq(s, 1, Len(s)) = [i \in 1 .. Len(s) |-> s[i]]
        /\ SubSeq(t, 1, Len(s)) = [i \in 1 .. Len(s) |-> t[i]]
    BY <1>1, <1>2
  <2> QED BY <2>1
<1>3. IsPrefix(s, t) <=> Len(s) <= Len(t) /\ \A i \in 1 .. Len(s) : s[i] = t[i]
  BY <1>2 DEF IsPrefix
<1>4. IsPrefix(s, t) => ToSet(s) \subseteq ToSet(t) BY <1>1, <1>3 DEF ToSet
<1>5. ASSUME IsPrefix(s, t), NEW b \in ToSet(t), Height(b) <= Len(s) PROVE b \in ToSet(s)
  <2>1. Height(b) \in 1 .. Len(t) /\ t[Height(b)] = b BY SameHeight
  <2>2. Height(b) \in 1 .. Len(s) BY <1>1, <1>5, <2>1
  <2> QED BY <1>1, <1>3, <1>5, <2>1, <2>2 DEF ToSet
<1> QED BY <1>3, <1>4, <1>5

\* A prefix of a prefix is a prefix.
LEMMA PrefixTrans ==
  ASSUME NEW s \in Chains, NEW t \in Chains, NEW u \in Chains, IsPrefix(s, t), IsPrefix(t, u)
  PROVE  IsPrefix(s, u)
<1>1. Len(s) \in Nat /\ Len(t) \in Nat /\ Len(u) \in Nat BY ChainShape
<1>2. Len(s) <= Len(t) /\ Len(t) <= Len(u)
      /\ (\A i \in 1 .. Len(s) : s[i] = t[i]) /\ (\A i \in 1 .. Len(t) : t[i] = u[i])
  BY PrefixBlocks
<1> QED BY <1>1, <1>2, PrefixBlocks

\* A chain whose blocks are all on another one is a prefix of it.
LEMMA SubsetPrefix ==
  ASSUME NEW s \in Chains, NEW t \in Chains, ToSet(s) \subseteq ToSet(t)
  PROVE  IsPrefix(s, t)
<1>1. Len(s) \in Nat /\ Len(t) \in Nat BY ChainShape
<1>2. ASSUME NEW i \in 1 .. Len(s) PROVE i <= Len(t) /\ s[i] = t[i]
  <2>1. s[i] \in ToSet(t) /\ Height(s[i]) = i BY SameHeight
  <2> QED BY <1>1, <2>1, SameHeight
<1>3. Len(s) <= Len(t)
  <2>1. CASE Len(s) = 0 BY <1>1, <2>1
  <2>2. CASE Len(s) > 0
    <3>1. Len(s) \in 1 .. Len(s) BY <1>1, <2>2
    <3> QED BY <1>2, <3>1
  <2> QED BY <1>1, <2>1, <2>2
<1> QED BY <1>2, <1>3, PrefixBlocks

\* A chain that is longer by one block has the blocks of the shorter and its last.
LEMMA OneBlock ==
  ASSUME NEW s \in Chains, NEW t \in Chains, IsPrefix(s, t), Len(t) = Len(s) + 1
  PROVE  /\ ToSet(t) \subseteq ToSet(s) \cup {Last(t)}
         /\ Last(t) \in ToSet(t)
<1>1. Len(s) \in Nat /\ Len(t) \in Nat /\ DOMAIN t = 1 .. Len(t) BY ChainShape
<1>2. Last(t) \in ToSet(t) BY <1>1 DEF Last, ToSet
<1>3. ASSUME NEW b \in ToSet(t), b \notin ToSet(s) PROVE b = Last(t)
  <2>1. Height(b) \in 1 .. Len(t) /\ t[Height(b)] = b BY SameHeight
  <2>2. ~ (Height(b) <= Len(s)) BY <1>3, PrefixBlocks
  <2> QED BY <1>1, <2>1, <2>2 DEF Last
<1> QED BY <1>2, <1>3

\* More of a chain is more confirmations.
LEMMA DeepGrows ==
  ASSUME NEW s \in Chains, NEW t \in Chains, IsPrefix(s, t), NEW b \in ToSet(s),
         NEW k \in Nat, Confirmations(b, s) >= k
  PROVE  b \in ToSet(t) /\ Confirmations(b, t) >= k
<1>1. Len(s) \in Nat /\ Len(t) \in Nat /\ Len(s) <= Len(t) BY ChainShape, PrefixBlocks
<1>2. Height(b) \in 1 .. Len(s) BY SameHeight
<1>3. b \in ToSet(t) BY PrefixBlocks
<1> QED BY <1>1, <1>2, <1>3 DEF Confirmations

-----------------------------------------------------------------------------
(* What becomes of a found block. *)

chainVars == <<best, gone, core, kyoto, events, tip>>

\* The chain before an event, and the one after it.
LEMMA PosTypes ==
  ASSUME ChainTypes
  PROVE  /\ Len(events) \in Nat
         /\ \A q \in 0 .. Len(events) : Pos(q) \in Chains
         /\ \A i \in 1 .. Len(events) : events[i] \in Events /\ Pos(i) = events[i].chain
         /\ Pos(0) = tip
<1>1. /\ Len(events) \in Nat
      /\ \A i \in 1 .. Len(events) : events[i] \in Events
  BY DEF ChainTypes
<1>2. \A i \in 1 .. Len(events) : events[i].chain \in Chains BY <1>1 DEF Events
<1> QED BY <1>1, <1>2 DEF Pos, ChainTypes

\* A block stays found while Kyoto's events are only added to.
LEMMA FoundStays ==
  ASSUME ChainTypes, NEW b, Found(b),
         Len(events') \in Nat, Len(events) <= Len(events'),
         \A q \in 0 .. Len(events) : Pos(q)' = Pos(q),
         \A a : Returns \/ (NeverAgain(a) => NeverAgain(a)')
  PROVE  Found(b)'
<1>1. PICK p \in 0 .. Len(events) :
        /\ b \in ToSet(Pos(p))
        /\ \A q \in 0 .. p - 1 : \A a \in ToSet(Pos(q)) :
             Height(a) = Height(b) => a = b \/ Returns \/ NeverAgain(a)
  BY DEF Found
<1>2. Len(events) \in Nat BY PosTypes
<1>3. p \in 0 .. Len(events') /\ \A q \in 0 .. p - 1 : q \in 0 .. Len(events) BY <1>2
<1>4. b \in ToSet(Pos(p)') BY <1>1
<1>5. \A q \in 0 .. p - 1 : \A a \in ToSet(Pos(q)') :
        Height(a) = Height(b) => a = b \/ Returns \/ NeverAgain(a)'
  BY <1>1, <1>3
<1> QED BY <1>3, <1>4, <1>5 DEF Found

\* A block stays found when an event is processed that leaves it on the chain.
LEMMA FoundPops ==
  ASSUME ChainTypes, NEW b, Found(b),
         events # <<>>, events' = Tail(events), tip' = Head(events).chain,
         UNCHANGED <<gone, core>>,
         b \in ToSet(tip) => b \in ToSet(tip')
  PROVE  Found(b)'
<1>1. PICK p \in 0 .. Len(events) :
        /\ b \in ToSet(Pos(p))
        /\ \A q \in 0 .. p - 1 : \A a \in ToSet(Pos(q)) :
             Height(a) = Height(b) => a = b \/ Returns \/ NeverAgain(a)
  BY DEF Found
<1>2. /\ events \in Seq(Events) /\ Len(events) \in Nat /\ Len(events) > 0
      /\ Len(events') = Len(events) - 1
      /\ \A q \in 1 .. Len(events') : events'[q] = events[q + 1]
      /\ Head(events) = events[1]
  BY DEF ChainTypes
<1>3. \A q \in 0 .. Len(events') : Pos(q)' = Pos(q + 1) BY <1>2 DEF Pos
<1>4. \A a : NeverAgain(a)' = NeverAgain(a) BY DEF NeverAgain
<1>5. CASE p = 0
  <2>1. b \in ToSet(Pos(0)') BY <1>1, <1>5 DEF Pos
  <2>2. 0 \in 0 .. Len(events') /\ 0 .. 0 - 1 = {} BY <1>2
  <2> QED BY <2>1, <2>2 DEF Found
<1>6. CASE p > 0
  <2>1. p - 1 \in 0 .. Len(events') /\ \A q \in 0 .. p - 1 - 1 : q + 1 \in 0 .. p - 1 /\ q \in 0 .. Len(events')
    BY <1>2, <1>6
  <2>2. b \in ToSet(Pos(p - 1)') BY <1>1, <1>3, <2>1
  <2>3. \A q \in 0 .. p - 1 - 1 : \A a \in ToSet(Pos(q)') :
          Height(a) = Height(b) => a = b \/ Returns \/ NeverAgain(a)'
    BY <1>1, <1>3, <1>4, <2>1
  <2> QED BY <2>1, <2>2, <2>3 DEF Found
<1> QED BY <1>2, <1>5, <1>6

\* Blocks of the monitor's chain are found.
LEMMA TipFound == ASSUME ChainTypes, NEW b \in ToSet(tip) PROVE Found(b)
<1>1. 0 \in 0 .. Len(events) /\ 0 .. 0 - 1 = {} BY PosTypes
<1> QED BY <1>1 DEF Found, Pos

\* A block that Bitcoin Core and Kyoto have is found: what an earlier event has
\* at its height is not on Core's chain, and gone since it is not on Kyoto's.
LEMMA CoreFound ==
  ASSUME ChainInv, NEW b \in ToSet(core), b \in ToSet(kyoto)
  PROVE  Found(b)
<1>1. /\ Len(events) \in Nat /\ kyoto = Pos(Len(events)) /\ core \in Chains /\ kyoto \in Chains
  BY PosTypes DEF ChainInv, ChainTypes, Order
<1>2. ASSUME NEW q \in 0 .. Len(events) - 1, NEW a \in ToSet(Pos(q)), Height(a) = Height(b), a # b
      PROVE  NeverAgain(a)
  <2>1. a \notin ToSet(core) /\ a \notin ToSet(kyoto) BY <1>1, <1>2, SameHeight
  <2>2. a \in ToSet(kyoto) \cup gone BY <1>1 DEF ChainInv, History
  <2> QED BY <2>1, <2>2 DEF NeverAgain
<1>3. Len(events) \in 0 .. Len(events) BY <1>1
<1> QED BY <1>1, <1>2, <1>3 DEF Found

\* A found block at the height of a block that Core shares with the monitor is
\* on the monitor's chain.
LEMMA FoundOnTip ==
  ASSUME ChainInv, ~ Returns, NEW b, Found(b),
         NEW t \in Chains, IsPrefix(t, tip), IsPrefix(t, core),
         Height(b) \in 1 .. Len(t)
  PROVE  b \in ToSet(t)
<1>1. PICK p \in 0 .. Len(events) :
        /\ b \in ToSet(Pos(p))
        /\ \A q \in 0 .. p - 1 : \A a \in ToSet(Pos(q)) :
             Height(a) = Height(b) => a = b \/ Returns \/ NeverAgain(a)
  BY DEF Found
<1>2. tip \in Chains /\ core \in Chains /\ Len(events) \in Nat BY PosTypes DEF ChainInv, ChainTypes
<1>3. CASE p = 0
  <2>1. b \in ToSet(tip) /\ Len(t) \in Nat /\ Height(b) <= Len(t) BY <1>1, <1>3, ChainShape DEF Pos
  <2> QED BY <1>2, <2>1, PrefixBlocks
<1>4. CASE p > 0
  <2>1. t[Height(b)] \in ToSet(t) /\ Height(t[Height(b)]) = Height(b) BY SameHeight
  <2>2. t[Height(b)] \in ToSet(tip) /\ t[Height(b)] \in ToSet(core) BY <1>2, <2>1, PrefixBlocks
  <2>3. 0 \in 0 .. p - 1 /\ Pos(0) = tip BY <1>2, <1>4 DEF Pos
  <2>4. t[Height(b)] = b BY <1>1, <2>1, <2>2, <2>3 DEF NeverAgain
  <2> QED BY <2>1, <2>4
<1> QED BY <1>2, <1>3, <1>4

-----------------------------------------------------------------------------
(* Bitcoin and Kyoto. *)

workVars == <<deposit, synced, gen, status, cache, queue, scan, disc, waiters, job>>

\* A step of the network keeps what the workers rely on if Kyoto's events are
\* only added to and what Core left for good stays so.
LEMMA NetworkKeeps ==
  ASSUME WatchInv, ChainInv', UNCHANGED <<tip, workVars>>,
         Len(events) <= Len(events'),
         \A q \in 0 .. Len(events) : Pos(q)' = Pos(q),
         \A a : Returns \/ (NeverAgain(a) => NeverAgain(a)'),
         \A t \in Chains : CoreAt(t) => CoreAt(t)' \/ Returns \/ Lost(t)'
  PROVE  WatchInv'
<1>1. Len(events') \in Nat BY DEF ChainInv, ChainTypes
<1>2. \A b : Found(b) => Found(b)'
  BY <1>1, FoundStays DEF WatchInv, ChainInv
<1>3. \A t : Returns \/ (Lost(t) => Lost(t)') BY DEF Lost
<1>4. WorkTypes' BY DEF WatchInv, WorkTypes, workVars
<1>5. FoundInv'
  <2>1. \A s : FoundStatus(s) => FoundStatus(s)' BY <1>2 DEF FoundStatus
  <2>2. FoundDisc(disc)' BY <1>2, <2>1 DEF WatchInv, FoundInv, FoundDisc, workVars
  <2>3. FoundJob(job)'
    BY <1>2, <2>1 DEF WatchInv, FoundInv, FoundJob, workVars, Deep
  <2> QED BY <1>2, <2>1, <2>2, <2>3 DEF WatchInv, FoundInv, workVars
<1>6. Watched'
  <2>1. \A S : Scanned(S)' = Scanned(S) BY DEF Scanned, workVars
  <2>2. \A t : Without(t)' = Without(t) BY DEF Without, workVars
  <2>3. disc.pc = "lookup" => CoreAt(disc.tip)' \/ Returns \/ Lost(disc.tip)'
    <3> SUFFICES ASSUME disc.pc = "lookup" PROVE CoreAt(disc.tip)' \/ Returns \/ Lost(disc.tip)'
      OBVIOUS
    <3>1. disc.tip \in Chains BY DEF WatchInv, WorkTypes, Discoveries, NoDisc
    <3>2. CoreAt(disc.tip) \/ Returns \/ Lost(disc.tip) BY DEF WatchInv, Watched
    <3>3. CASE CoreAt(disc.tip)
      <4>1. CoreAt(disc.tip) => CoreAt(disc.tip)' \/ Returns \/ Lost(disc.tip)' BY <3>1 DEF workVars
      <4> QED BY <3>3, <4>1
    <3>4. CASE Returns BY <3>4
    <3>5. CASE Lost(disc.tip) BY <1>3, <3>5 DEF workVars
    <3> QED BY <3>2, <3>3, <3>4, <3>5
  <2> QED BY <1>3, <2>1, <2>2, <2>3 DEF WatchInv, Watched, workVars
<1> QED BY <1>4, <1>5, <1>6 DEF WatchInv

\* The network moves; the node has not noticed.
LEMMA MineKeeps == ASSUME WatchInv, Mine, UNCHANGED deposit PROVE WatchInv'
<1>1. PICK c \in Chains : /\ Returns \/ ToSet(c) \cap gone = {}
                          /\ best' = c /\ gone' = gone \cup (ToSet(best) \ ToSet(c))
  BY DEF Mine
<1>2. UNCHANGED <<core, kyoto, events, tip, workVars>> BY DEF Mine, viewVars, scanVars, workVars
<1>3. ChainTypes /\ Order /\ History BY DEF WatchInv, ChainInv
<1>4. \A b \in ToSet(best) : b \in Blocks BY <1>3, SameHeight DEF ChainTypes
<1>5. \A q : Pos(q)' = Pos(q) BY <1>2 DEF Pos
<1>6. ChainTypes' BY <1>1, <1>2, <1>3, <1>4 DEF ChainTypes
<1>7. Order' BY <1>2, <1>3, <1>5 DEF Order
<1>8. History'
  <2>1. ToSet(best) \cup gone \subseteq ToSet(best') \cup gone' BY <1>1
  <2>2. Returns \/ ToSet(best') \cap gone' = {} BY <1>1
  <2> QED BY <1>1, <1>2, <1>3, <1>5, <2>1, <2>2 DEF History
<1>9. \A a : NeverAgain(a) => NeverAgain(a)' BY <1>1, <1>2 DEF NeverAgain
<1>10. \A t \in Chains : CoreAt(t) => CoreAt(t)' BY <1>2 DEF CoreAt
<1>11. Len(events) \in Nat /\ Len(events) <= Len(events') BY <1>2, <1>3, PosTypes
<1> QED BY <1>2, <1>5, <1>6, <1>7, <1>8, <1>9, <1>10, <1>11, NetworkKeeps DEF ChainInv

\* Core follows the network.
LEMMA SyncCoreKeeps == ASSUME WatchInv, SyncCore, UNCHANGED deposit PROVE WatchInv'
<1>1. core' = best /\ UNCHANGED <<best, gone, kyoto, events, tip, workVars>>
  BY DEF SyncCore, viewVars, scanVars, workVars
<1>2. ChainTypes /\ Order /\ History BY DEF WatchInv, ChainInv
<1>3. \A q : Pos(q)' = Pos(q) BY <1>1 DEF Pos
<1>4. ChainInv'
  <2>1. ChainTypes' BY <1>1, <1>2 DEF ChainTypes
  <2>2. Order' BY <1>1, <1>2, <1>3 DEF Order
  <2>3. History' BY <1>1, <1>2, <1>3 DEF History
  <2> QED BY <2>1, <2>2, <2>3 DEF ChainInv
<1>5. \A a : Returns \/ (NeverAgain(a) => NeverAgain(a)') BY <1>1, <1>2 DEF NeverAgain, History
<1>6. ASSUME NEW t \in Chains, CoreAt(t) PROVE CoreAt(t)' \/ Returns \/ Lost(t)'
  <2>1. CASE ToSet(t) \subseteq ToSet(best)
    <3>1. IsPrefix(t, best) BY <1>2, <2>1, SubsetPrefix DEF ChainTypes
    <3> QED BY <1>1, <3>1 DEF CoreAt
  <2>2. CASE ~ (ToSet(t) \subseteq ToSet(best))
    <3>1. PICK x \in ToSet(t) : x \notin ToSet(best) BY <2>2
    <3>2. x \in ToSet(core) BY <1>2, <1>6, PrefixBlocks DEF CoreAt, ChainTypes
    <3>3. x \in gone BY <1>2, <3>1, <3>2 DEF History
    <3> QED BY <1>1, <3>1, <3>3 DEF Lost, NeverAgain
  <2> QED BY <2>1, <2>2
<1>7. Len(events) \in Nat /\ Len(events) <= Len(events') BY <1>1, <1>2, PosTypes
<1> QED BY <1>1, <1>3, <1>4, <1>5, <1>6, <1>7, NetworkKeeps

\* An event is appended.
LEMMA AppendKeeps ==
  ASSUME WatchInv, NEW e \in Events, events' = Append(events, e), kyoto' = e.chain,
         UNCHANGED <<best, gone, core, tip, workVars>>,
         \/ e.kind = "synced" /\ e.chain = kyoto
         \/ /\ e.kind = "chain"
            /\ IsPrefix(kyoto, e.chain) => Len(e.chain) = Len(kyoto) + 1,
         ToSet(e.chain) \subseteq ToSet(best) \cup gone,
         ToSet(kyoto) \subseteq ToSet(e.chain) \cup gone
  PROVE  WatchInv'
<1>1. ChainTypes /\ Order /\ History BY DEF WatchInv, ChainInv
<1>2. events \in Seq(Events) /\ Len(events) \in Nat BY <1>1 DEF ChainTypes
<1>3. /\ events' \in Seq(Events) /\ Len(events') = Len(events) + 1
      /\ \A i \in 1 .. Len(events) : events'[i] = events[i]
      /\ events'[Len(events) + 1] = e
  BY <1>2
<1>4. \A q \in 0 .. Len(events) : Pos(q)' = Pos(q) BY <1>2, <1>3 DEF Pos
<1>5. \A q \in Nat : q = Len(events) + 1 => Pos(q)' = e.chain BY <1>2, <1>3 DEF Pos
<1>6. ChainTypes' BY <1>1, <1>3 DEF ChainTypes, Events
<1>7. Order'
  <2>1. (kyoto = Pos(Len(events)))' BY <1>2, <1>3 DEF Pos
  <2>2. ASSUME NEW i \in 1 .. Len(events')
        PROVE  \/ events'[i].kind = "synced" /\ events'[i].chain = Pos(i - 1)'
               \/ /\ events'[i].kind = "chain"
                  /\ IsPrefix(Pos(i - 1)', events'[i].chain) =>
                       Len(events'[i].chain) = Len(Pos(i - 1)') + 1
    <3>1. CASE i \in 1 .. Len(events)
      <4>1. i - 1 \in 0 .. Len(events) BY <1>2, <3>1
      <4> QED BY <1>1, <1>3, <1>4, <3>1, <4>1 DEF Order
    <3>2. CASE i = Len(events) + 1
      <4>1. i - 1 = Len(events) /\ Len(events) \in 0 .. Len(events) BY <1>2, <3>2
      <4>2. Pos(i - 1)' = kyoto BY <1>1, <1>4, <4>1 DEF Order
      <4> QED BY <1>3, <3>2, <4>2
    <3> QED BY <1>2, <1>3, <3>1, <3>2
  <2> QED BY <2>1, <2>2 DEF Order
<1>8. History'
  <2>1. ASSUME NEW q \in 0 .. Len(events') PROVE ToSet(Pos(q)') \subseteq ToSet(kyoto') \cup gone
    <3>1. CASE q \in 0 .. Len(events)
      <4>1. ToSet(Pos(q)) \subseteq ToSet(kyoto) \cup gone BY <1>1, <3>1 DEF History
      <4> QED BY <1>4, <3>1, <4>1
    <3>2. CASE q = Len(events) + 1 BY <1>5, <3>2
    <3> QED BY <1>2, <1>3, <3>1, <3>2
  <2> QED BY <1>1, <2>1 DEF History
<1>9. \A a : NeverAgain(a) => NeverAgain(a)' BY DEF NeverAgain
<1>10. \A t \in Chains : CoreAt(t) => CoreAt(t)' BY DEF CoreAt
<1> QED BY <1>2, <1>3, <1>4, <1>6, <1>7, <1>8, <1>9, <1>10, NetworkKeeps DEF ChainInv

\* The light client learns of headers, or of a reorganization, which it queues
\* as an event.
LEMMA KyotoHeadersKeeps == ASSUME WatchInv, KyotoHeaders, UNCHANGED deposit PROVE WatchInv'
<1>1. /\ kyoto # best
      /\ kyoto' = IF IsPrefix(kyoto, best) THEN SubSeq(best, 1, Len(kyoto) + 1) ELSE best
      /\ events' = Append(events, [kind |-> "chain", chain |-> kyoto'])
      /\ UNCHANGED <<best, gone, core, tip, workVars>>
  BY DEF KyotoHeaders, viewVars, scanVars, workVars
<1>2. /\ best \in Chains /\ kyoto \in Chains /\ ToSet(kyoto) \subseteq ToSet(best) \cup gone
  BY DEF WatchInv, ChainInv, ChainTypes, History
<1>3. /\ kyoto' \in Chains /\ ToSet(kyoto') \subseteq ToSet(best) \cup gone
      /\ ToSet(kyoto) \subseteq ToSet(kyoto') \cup gone
      /\ IsPrefix(kyoto, kyoto') => Len(kyoto') = Len(kyoto) + 1
  <2>1. CASE IsPrefix(kyoto, best)
    <3>1. /\ best \in Seq(Blocks) /\ kyoto \in Seq(Blocks)
          /\ Len(best) \in Nat /\ Len(kyoto) \in Nat /\ Len(kyoto) <= Len(best)
          /\ \A i \in 1 .. Len(kyoto) : kyoto[i] = best[i]
      BY <1>2, <2>1, ChainShape, PrefixBlocks
    <3>2. Len(kyoto) < Len(best)
      <4>1. CASE Len(kyoto) = Len(best)
        <5>1. kyoto = best BY <3>1, <4>1
        <5> QED BY <1>1, <5>1
      <4> QED BY <3>1, <4>1
    <3>3. Len(kyoto) + 1 \in 0 .. Len(best) BY <3>1, <3>2
    <3>4. kyoto' = SubSeq(best, 1, Len(kyoto) + 1) /\ kyoto' \in Chains
      BY <1>1, <1>2, <2>1, <3>3, ChainShape
    <3>5. /\ Len(kyoto') = Len(kyoto) + 1
          /\ \A i \in 1 .. Len(kyoto) + 1 : kyoto'[i] = best[i]
      BY <3>1, <3>3, <3>4
    <3>6. IsPrefix(kyoto', best) /\ IsPrefix(kyoto, kyoto')
      <4>1. Len(kyoto') <= Len(best) /\ \A i \in 1 .. Len(kyoto') : kyoto'[i] = best[i]
        BY <3>1, <3>3, <3>5
      <4>2. Len(kyoto) <= Len(kyoto') /\ \A i \in 1 .. Len(kyoto) : kyoto[i] = kyoto'[i]
        BY <3>1, <3>5
      <4> QED BY <1>2, <3>4, <4>1, <4>2, PrefixBlocks
    <3>7. ToSet(kyoto') \subseteq ToSet(best) /\ ToSet(kyoto) \subseteq ToSet(kyoto')
      BY <1>2, <3>4, <3>6, PrefixBlocks
    <3> QED BY <3>4, <3>5, <3>7
  <2>2. CASE ~ IsPrefix(kyoto, best) BY <1>1, <1>2, <2>2
  <2> QED BY <2>1, <2>2
<1> DEFINE e == [kind |-> "chain", chain |-> kyoto']
<1>4. e \in Events /\ e.kind = "chain" /\ e.chain = kyoto' BY <1>3 DEF Events
<1>5. events' = Append(events, e) BY <1>1
<1> HIDE DEF e
<1> QED BY <1>1, <1>3, <1>4, <1>5, AppendKeeps

\* The light client reports filters up to its headers.
LEMMA KyotoFiltersKeeps == ASSUME WatchInv, KyotoFilters, UNCHANGED deposit PROVE WatchInv'
<1>1. /\ events' = Append(events, [kind |-> "synced", chain |-> kyoto])
      /\ UNCHANGED <<best, gone, core, kyoto, tip, workVars>>
  BY DEF KyotoFilters, viewVars, scanVars, workVars
<1>2. kyoto \in Chains /\ ToSet(kyoto) \subseteq ToSet(best) \cup gone
  BY DEF WatchInv, ChainInv, ChainTypes, History
<1> DEFINE e == [kind |-> "synced", chain |-> kyoto]
<1>3. e \in Events /\ e.kind = "synced" /\ e.chain = kyoto BY <1>2 DEF Events
<1>4. events' = Append(events, e) BY <1>1
<1> HIDE DEF e
<1> QED BY <1>1, <1>2, <1>3, <1>4, AppendKeeps

-----------------------------------------------------------------------------
(* The monitor processes an event of Kyoto. *)

\* The oldest event becomes the monitor's chain.
LEMMA PopKeepsChains ==
  ASSUME ChainInv, events # <<>>, events' = Tail(events), tip' = Head(events).chain,
         UNCHANGED <<best, gone, core, kyoto>>
  PROVE  ChainInv'
<1>1. ChainTypes /\ Order /\ History BY DEF ChainInv
<1>2. /\ events \in Seq(Events) /\ Len(events) \in Nat /\ Len(events) > 0
      /\ events' \in Seq(Events) /\ Len(events') = Len(events) - 1
      /\ \A q \in 1 .. Len(events') : events'[q] = events[q + 1]
      /\ Head(events) = events[1]
  BY <1>1 DEF ChainTypes
<1>3. \A q \in 0 .. Len(events') : Pos(q)' = Pos(q + 1) BY <1>2 DEF Pos
<1>4. tip' \in Chains
  <2>1. 1 \in 1 .. Len(events) BY <1>2
  <2>2. events[1].chain \in Chains BY <1>1, <2>1, PosTypes DEF Events
  <2> QED BY <1>2, <2>2
<1>5. ChainTypes' BY <1>1, <1>2, <1>4 DEF ChainTypes
<1>6. Order'
  <2>1. (kyoto = Pos(Len(events)))'
    <3>1. \A q \in Nat : q = Len(events') => Pos(q)' = kyoto' BY <1>1, <1>2, <1>3 DEF Order
    <3>2. \A q : q = Len(events') => Pos(q)' = IF q = 0 THEN tip' ELSE events'[q].chain BY DEF Pos
    <3>3. Len(events') \in Nat BY <1>2
    <3> QED BY <3>1, <3>2, <3>3 DEF Pos
  <2>2. ASSUME NEW i \in 1 .. Len(events')
        PROVE  \/ events'[i].kind = "synced" /\ events'[i].chain = Pos(i - 1)'
               \/ /\ events'[i].kind = "chain"
                  /\ IsPrefix(Pos(i - 1)', events'[i].chain) =>
                       Len(events'[i].chain) = Len(Pos(i - 1)') + 1
    <3>1. i \in Nat /\ i + 1 \in 1 .. Len(events) /\ i - 1 \in 0 .. Len(events') /\ (i + 1) - 1 = i
          /\ (i - 1) + 1 = i
      BY <1>2
    <3>2. events'[i] = events[i + 1] BY <1>2
    <3>3. Pos(i - 1)' = Pos(i) BY <1>3, <3>1
    <3>4. \/ events[i + 1].kind = "synced" /\ events[i + 1].chain = Pos(i)
          \/ /\ events[i + 1].kind = "chain"
             /\ IsPrefix(Pos(i), events[i + 1].chain) => Len(events[i + 1].chain) = Len(Pos(i)) + 1
      BY <1>1, <3>1 DEF Order
    <3> QED BY <3>2, <3>3, <3>4
  <2> QED BY <2>1, <2>2 DEF Order
<1>7. History'
  <2>1. \A q \in 0 .. Len(events') : q + 1 \in 0 .. Len(events) BY <1>2
  <2>2. \A q \in 0 .. Len(events') : ToSet(Pos(q)') \subseteq ToSet(kyoto) \cup gone
    BY <1>1, <1>3, <2>1 DEF History
  <2> QED BY <1>1, <2>2 DEF History
<1> QED BY <1>5, <1>6, <1>7 DEF ChainInv

\* What queueing blocks and starting a scan leave.
LEMMA StartNextScanEffect ==
  ASSUME status' \in Statuses, gen' \in Nat, tip' \in Chains,
         NEW q, q \subseteq ToSet(tip'), StartNextScan(q)
  PROVE  /\ queue' \subseteq ToSet(tip')
         /\ IsScanCandidate(status') => queue' = q
         /\ \/ scan' = NoScan
            \/ scan' \in Fetches /\ scan'.gen = gen' /\ scan'.block \in ToSet(tip')
<1>1. \A b \in q : b \in Blocks /\ b \in ToSet(tip') BY SameHeight
<1>2. \A b \in Blocks : LET s == [block |-> b, gen |-> gen'] IN
        s \in Fetches /\ s.gen = gen' /\ s.block = b
  BY DEF Fetches
<1> QED BY <1>1, <1>2 DEF StartNextScan

\* As above, when a scan may be running.
LEMMA QueueScansEffect ==
  ASSUME status' \in Statuses, gen' \in Nat, tip' \in Chains,
         NEW q, q \subseteq ToSet(tip'), NEW B, B \subseteq ToSet(tip'), QueueScans(q, B)
  PROVE  /\ queue' \subseteq ToSet(tip')
         /\ IsScanCandidate(status') => queue' = q \cup B
         /\ \/ scan' = scan
            \/ scan' = NoScan
            \/ scan' \in Fetches /\ scan'.gen = gen' /\ scan'.block \in ToSet(tip')
<1>1. CASE ~ IsScanCandidate(status') BY <1>1 DEF QueueScans
<1>2. CASE IsScanCandidate(status') /\ scan # NoScan BY <1>2 DEF QueueScans
<1>3. CASE IsScanCandidate(status') /\ scan = NoScan
  <2>1. StartNextScan(q \cup B) BY <1>3 DEF QueueScans
  <2>2. q \cup B \subseteq ToSet(tip') OBVIOUS
  <2> QED BY <2>1, <2>2, StartNextScanEffect
<1> QED BY <1>1, <1>2, <1>3

\* A block that came meanwhile changes nothing else of the leader's task.
LEMMA StaleJob ==
  ASSUME NEW j \in Jobs
  PROVE  /\ Stale(j) \in Jobs /\ Stale(j).pc = j.pc
         /\ j.pc = "check" =>
              Stale(j).gen = j.gen /\ Stale(j).tip = j.tip /\ Stale(j).status = j.status
         /\ j.pc = "checked" =>
              Stale(j).gen = j.gen /\ Stale(j).block = j.block /\ Stale(j).confirmed = j.confirmed
<1>1. CASE j \in [pc : {"none", "ask", "discover", "failed", "confirmed"}, stale : BOOLEAN]
  BY <1>1 DEF Stale, Jobs
<1>2. CASE j \in [pc : {"check"}, stale : BOOLEAN, tip : Chains, gen : Nat,
                  status : Statuses \cup Results]
  BY <1>2 DEF Stale, Jobs
<1>3. CASE j \in [pc : {"checked"}, stale : BOOLEAN, block : Blocks \cup {NONE}, gen : Nat,
                  confirmed : BOOLEAN]
  BY <1>3 DEF Stale, Jobs
<1> QED BY <1>1, <1>2, <1>3 DEF Jobs

\* A task whose worker is cancelled has failed; others are left alone.
LEMMA CancelledTask ==
  ASSUME NEW j \in Jobs
  PROVE  /\ CancelledJob(j) \in Jobs /\ CancelledJob(j).pc # "check"
         /\ j.pc = "checked" => CancelledJob(j) = j
         /\ CancelledJob(j).pc = "checked" => j.pc = "checked"
<1>1. j.stale \in BOOLEAN BY DEF Jobs
<1>2. [pc |-> "failed", stale |-> j.stale] \in Jobs BY <1>1 DEF Jobs
<1> QED BY <1>2 DEF CancelledJob

\* An event that extends the monitor's chain keeps every found block, and what
\* is not queued was known to the discoveries.
LEMMA ExtendKeeps ==
  ASSUME WatchInv, events # <<>>, events' = Tail(events), tip' = Head(events).chain,
         IsPrefix(tip, tip'),
         UNCHANGED <<best, gone, core, kyoto, deposit, gen, status, cache, disc, waiters>>,
         job' \in {job, Stale(job)},
         synced' \in BOOLEAN, synced => synced',
         queue' \subseteq ToSet(tip'),
         \/ scan' = scan
         \/ scan' = NoScan
         \/ scan' \in Fetches /\ scan'.gen = gen' /\ scan'.block \in ToSet(tip'),
         synced /\ IsScanCandidate(status) =>
           queue \subseteq queue' /\ ToSet(tip') \ ToSet(tip) \subseteq queue'
  PROVE  WatchInv'
<1>1. ChainInv /\ ChainTypes /\ WorkTypes /\ FoundInv /\ Watched BY DEF WatchInv, ChainInv
<1>2. ChainInv' BY <1>1, PopKeepsChains
<1>3. tip \in Chains /\ tip' \in Chains BY <1>1, <1>2 DEF ChainInv, ChainTypes
<1>4. ToSet(tip) \subseteq ToSet(tip') BY <1>3, PrefixBlocks
<1>5. \A b : Found(b) => Found(b)' BY <1>1, <1>4, FoundPops
<1>6. job' \in Jobs BY <1>1, StaleJob DEF WorkTypes
<1>7. WorkTypes' BY <1>1, <1>6 DEF WorkTypes
<1>8. FoundInv'
  <2>1. \A s : FoundStatus(s) => FoundStatus(s)' BY <1>5 DEF FoundStatus
  <2>2. FoundDisc(disc)' BY <1>1, <1>5, <2>1 DEF FoundInv, FoundDisc
  <2>3. \A b : Deep(b) => Deep(b)'
    <3> SUFFICES ASSUME NEW b, b \in ToSet(tip), Confirmations(b, tip) >= deposit.threshold
                 PROVE  b \in ToSet(tip') /\ Confirmations(b, tip') >= deposit.threshold
      BY DEF Deep
    <3>1. deposit.threshold \in Nat BY <1>1, DepositWatchAssumption DEF WorkTypes
    <3> QED BY <1>3, <3>1, DeepGrows
  <2>4. \A t \in Chains : IsPrefix(t, tip) => IsPrefix(t, tip') BY <1>3, PrefixTrans
  <2>5. \A j \in Jobs : FoundJob(j) => FoundJob(j)'
    <3> SUFFICES ASSUME NEW j \in Jobs, FoundJob(j) PROVE FoundJob(j)' OBVIOUS
    <3>1. j.pc = "check" => j.tip \in Chains BY DEF Jobs
    <3> QED BY <2>1, <2>3, <2>4, <3>1 DEF FoundJob
  <2>6. FoundJob(Stale(job)) BY <1>1, StaleJob DEF FoundInv, FoundJob, WorkTypes
  <2>7. FoundJob(job)'
    <3>1. FoundJob(job') BY <1>1, <2>6 DEF FoundInv
    <3>2. \A j \in Jobs : j = job' /\ FoundJob(j) => FoundJob(j)' BY <2>5
    <3>3. \A j \in Jobs : j = job' => FoundJob(j)' BY <3>1, <3>2
    <3> QED BY <1>6, <3>3
  <2>8. (scan # NoScan => scan.gen <= gen /\ (scan.gen = gen => scan.block \in ToSet(tip)))'
    BY <1>1, <1>4 DEF FoundInv, WorkTypes
  <2> QED BY <1>1, <1>5, <2>1, <2>2, <2>7, <2>8 DEF FoundInv
<1>9. Watched'
  <2>1. synced /\ IsScanCandidate(status) => \A S : Scanned(S) => Scanned(S)'
    BY DEF Scanned
  <2>2. status = Absent => IsScanCandidate(status) BY DEF Absent, IsScanCandidate
  <2>3. status = Unchecked => IsScanCandidate(status) BY DEF Unchecked, IsScanCandidate
  <2>4. \A t : Without(t)' = Without(t) /\ CoreAt(t)' = CoreAt(t) /\ Lost(t)' = Lost(t)
    BY DEF Without, CoreAt, Lost, NeverAgain
  <2>5. (status = Absent => synced /\ (Returns \/ Scanned({})))' BY <1>1, <2>1, <2>2 DEF Watched
  <2>6. disc.pc # "none" /\ disc.token = "live" => Scanned(ToSet(disc.tip))'
    BY <1>1, <2>1, <2>3 DEF Watched
  <2> QED BY <1>1, <2>4, <2>5, <2>6 DEF Watched
<1> QED BY <1>2, <1>7, <1>8, <1>9 DEF WatchInv

\* The oldest event, and what it says of the monitor's chain.
LEMMA FirstEvent ==
  ASSUME ChainInv, events # <<>>
  PROVE  /\ Head(events).chain \in Chains
         /\ Head(events).kind = "synced" => Head(events).chain = tip
         /\ Head(events).kind = "chain" /\ IsPrefix(tip, Head(events).chain) =>
              Len(Head(events).chain) = Len(tip) + 1
<1>1. events \in Seq(Events) /\ Len(events) \in Nat /\ 1 \in 1 .. Len(events) /\ Head(events) = events[1]
  BY DEF ChainInv, ChainTypes
<1>2. events[1].chain \in Chains BY <1>1, PosTypes DEF Events, ChainInv
<1>3. \/ events[1].kind = "synced" /\ events[1].chain = Pos(1 - 1)
      \/ /\ events[1].kind = "chain"
         /\ IsPrefix(Pos(1 - 1), events[1].chain) => Len(events[1].chain) = Len(Pos(1 - 1)) + 1
  BY <1>1 DEF ChainInv, Order
<1>4. Pos(1 - 1) = tip BY DEF Pos
<1> QED BY <1>1, <1>2, <1>3, <1>4

\* A connected block moves the tip and is queued for a scan.
LEMMA ConnectedKeeps == ASSUME WatchInv, Connected, UNCHANGED deposit PROVE WatchInv'
<1>1. /\ events # <<>> /\ events' = Tail(events) /\ tip' = Head(events).chain
      /\ Head(events).kind = "chain" /\ IsPrefix(tip, tip')
      /\ UNCHANGED <<best, gone, core, kyoto, deposit, gen, status, cache, disc, waiters, synced>>
  BY DEF Connected
<1>2. ChainInv /\ WorkTypes BY DEF WatchInv
<1>3. tip \in Chains /\ tip' \in Chains /\ Len(tip') = Len(tip) + 1
  BY <1>1, <1>2, FirstEvent DEF ChainInv, ChainTypes
<1>4. ToSet(tip) \subseteq ToSet(tip') /\ ToSet(tip') \subseteq ToSet(tip) \cup {Last(tip')}
      /\ Last(tip') \in ToSet(tip')
  BY <1>1, <1>3, PrefixBlocks, OneBlock
<1>5. CASE synced
  <2>1. QueueScans(queue, {Last(tip')}) /\ job' = Stale(job) BY <1>5 DEF Connected
  <2>2. queue \subseteq ToSet(tip') /\ {Last(tip')} \subseteq ToSet(tip')
    BY <1>2, <1>4 DEF WorkTypes
  <2>3. status' \in Statuses /\ gen' \in Nat BY <1>1, <1>2 DEF WorkTypes
  <2>4. /\ queue' \subseteq ToSet(tip')
        /\ IsScanCandidate(status') => queue' = queue \cup {Last(tip')}
        /\ \/ scan' = scan
           \/ scan' = NoScan
           \/ scan' \in Fetches /\ scan'.gen = gen' /\ scan'.block \in ToSet(tip')
    BY <1>3, <2>1, <2>2, <2>3, QueueScansEffect
  <2>5. IsScanCandidate(status) => queue \subseteq queue' /\ ToSet(tip') \ ToSet(tip) \subseteq queue'
    BY <1>1, <1>4, <2>4
  <2> QED BY <1>1, <1>2, <2>1, <2>4, <2>5, ExtendKeeps DEF WorkTypes
<1>6. CASE ~ synced
  <2>1. job' = job /\ queue' = queue /\ scan' = scan BY <1>6 DEF Connected, scanVars
  <2>2. queue' \subseteq ToSet(tip') BY <1>2, <1>4, <2>1 DEF WorkTypes
  <2> QED BY <1>1, <1>2, <1>6, <2>1, <2>2, ExtendKeeps DEF WorkTypes
<1> QED BY <1>5, <1>6

\* The report of filters ends the synchronization.
LEMMA FiltersSyncedKeeps == ASSUME WatchInv, FiltersSynced, UNCHANGED deposit PROVE WatchInv'
<1>1. /\ events # <<>> /\ events' = Tail(events) /\ tip' = Head(events).chain
      /\ Head(events).kind = "synced" /\ synced' = TRUE /\ job' = Stale(job)
      /\ UNCHANGED <<best, gone, core, kyoto, deposit, gen, status, cache, queue, scan, disc, waiters>>
  BY DEF FiltersSynced, scanVars
<1>2. ChainInv /\ WorkTypes BY DEF WatchInv
<1>3. tip \in Chains /\ tip' = tip BY <1>1, <1>2, FirstEvent DEF ChainInv, ChainTypes
<1>4. Len(tip) \in Nat BY <1>3, ChainShape
<1>5. IsPrefix(tip, tip') BY <1>3, <1>4, PrefixBlocks
<1>6. queue' \subseteq ToSet(tip') BY <1>1, <1>2, <1>3 DEF WorkTypes
<1> QED BY <1>1, <1>3, <1>5, <1>6, ExtendKeeps

\* Work of an earlier generation, and a task without a worker, promise nothing.
LEMMA StaleGeneration ==
  ASSUME WatchInv, gen' = gen + 1, job' \in {CancelledJob(job), Stale(CancelledJob(job))},
         waiters' = waiters
  PROVE  /\ job' \in Jobs /\ FoundJob(job)'
         /\ \A w \in waiters' : w.gen <= gen' /\ w.gen # gen'
         /\ scan # NoScan => scan.gen <= gen' /\ scan.gen # gen'
<1>1. gen \in Nat /\ job \in Jobs /\ waiters \subseteq Fetches /\ scan \in {NoScan} \cup Fetches
      /\ FoundJob(job)
      /\ (\A w \in waiters : w.gen <= gen) /\ (scan # NoScan => scan.gen <= gen)
  BY DEF WatchInv, WorkTypes, FoundInv
<1>2. CancelledJob(job) \in Jobs /\ Stale(CancelledJob(job)) \in Jobs BY <1>1, CancelledTask, StaleJob
<1>3. job' \in Jobs BY <1>2
<1>4. job'.pc # "check" BY <1>1, CancelledTask, StaleJob
<1>5. job'.pc = "checked" => job.pc = "checked" /\ job'.gen = job.gen
  BY <1>1, <1>2, CancelledTask, StaleJob
<1>6. job.pc = "checked" => job.gen \in Nat /\ job.gen <= gen BY <1>1 DEF Jobs, FoundJob
<1>7. job'.pc = "checked" => job'.gen <= gen' /\ job'.gen # gen' BY <1>1, <1>5, <1>6
<1>8. FoundJob(job)' BY <1>4, <1>7 DEF FoundJob
<1>9. \A w \in waiters : w.gen \in Nat BY <1>1 DEF Fetches
<1>10. scan # NoScan => scan.gen \in Nat BY <1>1 DEF Fetches
<1> QED BY <1>1, <1>3, <1>8, <1>9, <1>10

\* A reorganization takes back what was recorded of disconnected blocks and
\* starts a new generation.
LEMMA ReorganizedKeeps == ASSUME WatchInv, Reorganized, UNCHANGED deposit PROVE WatchInv'
<1> DEFINE disconnected == ToSet(tip) \ ToSet(tip')
           accepted == ToSet(tip') \ ToSet(tip)
<1>1. /\ events # <<>> /\ events' = Tail(events) /\ tip' = Head(events).chain
      /\ gen' = gen + 1 /\ cache' = NoCache /\ disc' = NoDisc
      /\ status' = AfterReorg(status, disconnected)
      /\ job' \in {CancelledJob(job), Stale(CancelledJob(job))}
      /\ IF synced THEN QueueScans(KeptScans(disconnected), accepted)
                   ELSE queue' = KeptScans(disconnected) /\ scan' = scan
      /\ UNCHANGED <<best, gone, core, kyoto, synced, waiters, deposit>>
  BY DEF Reorganized
<1>2. ChainInv /\ ChainTypes /\ WorkTypes /\ FoundInv /\ Watched BY DEF WatchInv, ChainInv
<1>3. ChainInv' BY <1>1, <1>2, PopKeepsChains
<1>4. tip' \in Chains /\ gen' \in Nat BY <1>1, <1>2, <1>3 DEF ChainInv, ChainTypes, WorkTypes
<1>5. status' \in Statuses BY <1>1, <1>2 DEF AfterReorg, WorkTypes, Statuses
<1>6. KeptScans(disconnected) \subseteq ToSet(tip') /\ accepted \subseteq ToSet(tip')
  BY <1>2 DEF KeptScans, WorkTypes
<1>7. /\ queue' \subseteq ToSet(tip')
      /\ synced /\ IsScanCandidate(status') => queue' = KeptScans(disconnected) \cup accepted
      /\ \/ scan' = scan
         \/ scan' = NoScan
         \/ scan' \in Fetches /\ scan'.gen = gen' /\ scan'.block \in ToSet(tip')
  <2> HIDE DEF disconnected, accepted
  <2>1. CASE synced BY <1>1, <1>4, <1>5, <1>6, <2>1, QueueScansEffect
  <2>2. CASE ~ synced BY <1>1, <1>6, <2>2
  <2> QED BY <2>1, <2>2
<1>8. /\ job' \in Jobs /\ FoundJob(job)'
      /\ \A w \in waiters' : w.gen <= gen' /\ w.gen # gen'
      /\ scan # NoScan => scan.gen <= gen' /\ scan.gen # gen'
  BY <1>1, StaleGeneration
<1>9. WorkTypes'
  <2>1. cache' \in [block : Blocks \cup {NONE}, outputs : BOOLEAN] BY <1>1 DEF NoCache
  <2>2. disc' \in Discoveries BY <1>1 DEF Discoveries
  <2>3. scan' \in {NoScan} \cup Fetches BY <1>2, <1>7 DEF WorkTypes
  <2> QED BY <1>1, <1>2, <1>4, <1>5, <1>7, <1>8, <2>1, <2>2, <2>3 DEF WorkTypes
<1>10. FoundInv'
  <2>1. FoundStatus(status)'
    <3> SUFFICES ASSUME status'.st = "inblock" PROVE Found(status.block)' BY DEF FoundStatus
    <3>1. status' = status /\ status.block \notin disconnected
      BY <1>1 DEF AfterReorg, Unchecked
    <3>2. Found(status.block) BY <1>2, <3>1 DEF FoundInv, FoundStatus
    <3>3. \A b : b = status.block => Found(b)'
      BY <1>1, <1>2, <3>1, <3>2, FoundPops
    <3> QED BY <3>1, <3>3
  <2>2. (scan # NoScan => scan.gen <= gen /\ (scan.gen = gen => scan.block \in ToSet(tip)))'
    BY <1>4, <1>7, <1>8
  <2>3. cache'.block = NONE /\ disc'.pc = "none" BY <1>1 DEF NoCache, NoDisc
  <2> QED BY <1>8, <2>1, <2>2, <2>3 DEF FoundInv, FoundDisc
<1>11. Watched'
  <2>1. ASSUME status' = Absent PROVE synced' /\ (Returns \/ Scanned({})')
    <3>1. status = Absent BY <1>1, <2>1 DEF AfterReorg, Absent, Unchecked
    <3>2. synced /\ (Returns \/ Scanned({})) BY <1>2, <3>1 DEF Watched
    <3>3. queue' = KeptScans(disconnected) \cup accepted
      BY <1>7, <2>1, <3>2 DEF IsScanCandidate, Absent
    <3>4. Scanned({}) => Scanned({})' BY <1>1, <3>3 DEF Scanned, KeptScans
    <3> QED BY <1>1, <3>2, <3>4
  <2>2. disc'.pc = "none" BY <1>1 DEF NoDisc
  <2> QED BY <2>1, <2>2 DEF Watched
<1> QED BY <1>3, <1>9, <1>10, <1>11 DEF WatchInv

\* A restarted monitor knows nothing and cancels what was under way.
LEMMA RestartKeeps == ASSUME WatchInv, Restart, UNCHANGED deposit PROVE WatchInv'
<1>1. /\ kyoto' = <<>> /\ events' = <<>> /\ tip' = <<>>
      /\ synced' = FALSE /\ gen' = gen + 1 /\ cache' = NoCache /\ queue' = {} /\ disc' = NoDisc
      /\ status' = AfterReset(status)
      /\ job' = Stale(CancelledJob(job))
      /\ UNCHANGED <<best, gone, core, scan, waiters, deposit>>
  BY DEF Restart
<1>2. ChainTypes /\ History /\ WorkTypes /\ FoundInv /\ Watched BY DEF WatchInv, ChainInv
<1>3. Len(events') = 0 /\ Len(<<>>) = 0 /\ ToSet(<<>>) = {} BY <1>1 DEF ToSet
<1>4. ChainInv'
  <2>1. ChainTypes' BY <1>1, <1>2, ChainBounds DEF ChainTypes
  <2>2. \A q \in 0 .. 0 : Pos(q)' = <<>> BY <1>1 DEF Pos
  <2>3. Order' BY <1>1, <1>3 DEF Order, Pos
  <2>4. History' BY <1>1, <1>2, <1>3, <2>2 DEF History
  <2> QED BY <2>1, <2>3, <2>4 DEF ChainInv
<1>5. /\ job' \in Jobs /\ FoundJob(job)'
      /\ \A w \in waiters' : w.gen <= gen' /\ w.gen # gen'
      /\ scan # NoScan => scan.gen <= gen' /\ scan.gen # gen'
  BY <1>1, StaleGeneration
<1>6. status' \in {Untracked, Unchecked} BY <1>1 DEF AfterReset
<1>7. WorkTypes'
  <2>1. cache' \in [block : Blocks \cup {NONE}, outputs : BOOLEAN] BY <1>1 DEF NoCache
  <2>2. disc' \in Discoveries BY <1>1 DEF Discoveries
  <2>3. status' \in Statuses BY <1>6 DEF Statuses
  <2>4. gen' \in Nat BY <1>1, <1>2 DEF WorkTypes
  <2>6. synced' \in BOOLEAN BY <1>1, Zenon
  <2>7. queue' \subseteq ToSet(tip') BY <1>1
  <2>5. deposit' \in Deposits /\ scan' \in {NoScan} \cup Fetches /\ waiters' \subseteq Fetches
    BY <1>1, <1>2 DEF WorkTypes
  <2> QED BY <1>5, <2>1, <2>2, <2>3, <2>4, <2>5, <2>6, <2>7 DEF WorkTypes
<1>8. FoundInv'
  <2>1. FoundStatus(status)' BY <1>6 DEF FoundStatus, Untracked, Unchecked
  <2>2. cache'.block = NONE /\ disc'.pc = "none" BY <1>1 DEF NoCache, NoDisc
  <2>3. (scan # NoScan => scan.gen <= gen /\ (scan.gen = gen => scan.block \in ToSet(tip)))'
    BY <1>1, <1>5
  <2> QED BY <1>5, <2>1, <2>2, <2>3 DEF FoundInv, FoundDisc
<1>9. Watched'
  <2>1. status' # Absent /\ disc'.pc = "none" BY <1>1, <1>6 DEF Untracked, Unchecked, Absent, NoDisc
  <2> QED BY <2>1 DEF Watched
<1> QED BY <1>4, <1>7, <1>8, <1>9 DEF WatchInv

\* The monitor starts with nothing recorded.
LEMMA InitWatch == Init => WatchInv
<1> SUFFICES ASSUME Init PROVE WatchInv OBVIOUS
<1>1. Len(events) = 0 /\ ToSet(<<>>) = {} /\ events = <<>> BY DEF Init, ToSet
<1>2. ChainInv
  <2>1. ChainTypes BY ChainBounds DEF Init, ChainTypes
  <2>2. Order BY <1>1 DEF Init, Order, Pos
  <2>3. \A q \in 0 .. 0 : Pos(q) = <<>> BY DEF Init, Pos
  <2>4. History BY <1>1, <2>3 DEF Init, History
  <2> QED BY <2>1, <2>2, <2>4 DEF ChainInv
<1>3. WorkTypes
  <2>1. cache \in [block : Blocks \cup {NONE}, outputs : BOOLEAN] BY DEF Init, NoCache
  <2>2. job \in Jobs BY DEF Init, NoJob, Jobs
  <2>3. status \in Statuses /\ disc \in Discoveries /\ scan = NoScan BY DEF Init, Statuses, Discoveries
  <2> QED BY <2>1, <2>2, <2>3 DEF Init, WorkTypes
<1>4. FoundInv /\ Watched
  BY DEF Init, FoundInv, Watched, FoundStatus, FoundDisc, FoundJob, Untracked, NoCache, NoDisc,
         NoJob, Absent
<1> QED BY <1>2, <1>3, <1>4 DEF WatchInv

-----------------------------------------------------------------------------
(* The tracker, the workers and the leader: the chains stay. *)

\* What the workers rely on depends on the chains only.
LEMMA SameChains ==
  ASSUME UNCHANGED <<chainVars, deposit, gen>>
  PROVE  /\ ChainInv => ChainInv'
         /\ \A b : Found(b)' = Found(b)
         /\ \A s : FoundStatus(s)' = FoundStatus(s)
         /\ \A d : FoundDisc(d)' = FoundDisc(d)
         /\ \A j : FoundJob(j)' = FoundJob(j)
         /\ \A t : CoreAt(t)' = CoreAt(t) /\ Lost(t)' = Lost(t) /\ Without(t)' = Without(t)
         /\ queue' = queue => \A S : Scanned(S)' = Scanned(S)
<1>1. /\ best' = best /\ gone' = gone /\ core' = core /\ kyoto' = kyoto /\ events' = events
      /\ tip' = tip /\ deposit' = deposit /\ gen' = gen
  BY DEF chainVars
<1>2. \A q : Pos(q)' = Pos(q) BY <1>1 DEF Pos
<1>3. \A a : NeverAgain(a)' = NeverAgain(a) BY <1>1 DEF NeverAgain
<1>4. ChainInv => ChainInv'
  <2>1. ChainTypes => ChainTypes' BY <1>1 DEF ChainTypes
  <2>2. Order => Order' BY <1>1, <1>2 DEF Order
  <2>3. History => History' BY <1>1, <1>2 DEF History
  <2> QED BY <2>1, <2>2, <2>3 DEF ChainInv
<1>5. \A b : Found(b)' = Found(b) BY <1>1, <1>2, <1>3 DEF Found
<1>6. \A b : Deep(b)' = Deep(b) BY <1>1 DEF Deep
<1>7. \A s : FoundStatus(s)' = FoundStatus(s) BY <1>5 DEF FoundStatus
<1>8. \A d : FoundDisc(d)' = FoundDisc(d) BY <1>1, <1>5, <1>7 DEF FoundDisc
<1>9. \A j : FoundJob(j)' = FoundJob(j) BY <1>1, <1>6, <1>7 DEF FoundJob
<1>10. \A t : CoreAt(t)' = CoreAt(t) /\ Lost(t)' = Lost(t) /\ Without(t)' = Without(t)
  BY <1>1, <1>3 DEF CoreAt, Lost, Without
<1>11. queue' = queue => \A S : Scanned(S)' = Scanned(S) BY <1>1 DEF Scanned
<1> QED BY <1>4, <1>5, <1>7, <1>8, <1>9, <1>10, <1>11

\* Only the leader's task changes.
LEMMA TaskKeeps ==
  ASSUME WatchInv, job' \in Jobs, FoundJob(job'),
         UNCHANGED <<chainVars, deposit, gen, synced, status, cache, queue, scan, disc, waiters>>
  PROVE  WatchInv'
<1>1. ChainInv' BY SameChains DEF WatchInv
<1>2. tip' = tip BY DEF chainVars
<1>3. WorkTypes' BY <1>2 DEF WatchInv, WorkTypes
<1>4. FoundInv' BY <1>2, SameChains DEF WatchInv, FoundInv
<1>5. Watched' BY SameChains DEF WatchInv, Watched
<1> QED BY <1>1, <1>3, <1>4, <1>5 DEF WatchInv

\* Only the discovery, what it caches and what it fetches change; its captured
\* tip and its token do not.
LEMMA DiscoveryKeeps ==
  ASSUME WatchInv, disc' \in Discoveries, FoundDisc(disc'),
         cache' \in [block : Blocks \cup {NONE}, outputs : BOOLEAN],
         cache'.block # NONE => Found(cache'.block),
         waiters' \subseteq Fetches,
         \A w \in waiters' : w.gen <= gen /\ (w.gen = gen => Found(w.block)),
         disc.pc # "none", disc'.tip = disc.tip, disc'.token = disc.token,
         disc'.pc = "lookup" => CoreAt(disc.tip),
         disc'.pc = "recheck" => Without(disc.tip) \/ Returns \/ Lost(disc.tip),
         disc'.result = Absent => Without(disc.tip) \/ Returns,
         UNCHANGED <<chainVars, deposit, gen, synced, status, queue, scan, job>>
  PROVE  WatchInv'
<1>1. ChainInv' BY SameChains DEF WatchInv
<1>2. tip' = tip BY DEF chainVars
<1>3. WorkTypes' BY <1>2 DEF WatchInv, WorkTypes
<1>4. FoundInv'
  <2>1. FoundDisc(disc)' BY SameChains
  <2>2. FoundStatus(status)' /\ FoundJob(job)' BY SameChains DEF WatchInv, FoundInv
  <2> QED BY <1>2, <2>1, <2>2, SameChains DEF WatchInv, FoundInv
<1>5. Watched' BY SameChains DEF WatchInv, Watched
<1> QED BY <1>1, <1>3, <1>4, <1>5 DEF WatchInv

\* The discovery worker, while there is one.
LEMMA DiscFields ==
  ASSUME NEW d \in Discoveries, d.pc # "none"
  PROVE  /\ d \in [pc : {"require", "lookup", "recheck", "fetch", "done"}, tip : Chains, gen : Nat,
                   block : Blocks \cup {NONE}, token : {"live", "dead", "none"}, result : Results]
         /\ d.tip \in Chains /\ d.gen \in Nat /\ d.result \in Results
<1>1. d \in [pc : {"require", "lookup", "recheck", "fetch", "done"}, tip : Chains, gen : Nat,
             block : Blocks \cup {NONE}, token : {"live", "dead", "none"}, result : Results]
  BY DEF Discoveries, NoDisc
<1> QED BY <1>1

\* A cancelled discovery keeps all but its token.
LEMMA TokenDies ==
  ASSUME NEW d \in Discoveries
  PROVE  /\ DeadToken(d) \in Discoveries /\ DeadToken(d).pc = d.pc
         /\ d.pc # "none" =>
              /\ DeadToken(d).token # "live" /\ DeadToken(d).tip = d.tip
              /\ DeadToken(d).gen = d.gen /\ DeadToken(d).block = d.block
              /\ DeadToken(d).result = d.result
<1>1. CASE d = NoDisc BY <1>1 DEF DeadToken, NoDisc
<1>2. CASE d \in [pc : {"require", "lookup", "recheck", "fetch", "done"}, tip : Chains, gen : Nat,
                  block : Blocks \cup {NONE}, token : {"live", "dead", "none"}, result : Results]
  BY <1>2 DEF DeadToken, Discoveries
<1> QED BY <1>1, <1>2 DEF Discoveries

\* What a worker of the discovery finds in a block.
LEMMA FindOutputsKeeps ==
  ASSUME WatchInv, disc.pc # "none", disc.pc \notin {"none", "done"},
         NEW b \in Blocks, Found(b), FindOutputs(b),
         cache' \in [block : Blocks \cup {NONE}, outputs : BOOLEAN],
         cache'.block # NONE => Found(cache'.block),
         UNCHANGED <<chainVars, deposit, gen, synced, status, queue, scan, job>>
  PROVE  WatchInv'
<1>1. disc \in Discoveries /\ FoundDisc(disc) /\ waiters \subseteq Fetches /\ gen \in Nat
      /\ disc.gen = gen /\ FoundStatus(disc.result)
      /\ \A w \in waiters : w.gen <= gen /\ (w.gen = gen => Found(w.block))
  BY DEF WatchInv, WorkTypes, FoundInv, FoundDisc
<1>2. CASE disc' = Done(InBlock(b)) /\ waiters' = waiters
  <2>1. InBlock(b) \in Results /\ InBlock(b) # Absent /\ FoundStatus(InBlock(b))
    BY DEF Results, InBlock, Absent, FoundStatus
  <2>2. /\ disc' \in Discoveries /\ disc'.pc = "done" /\ disc'.result = InBlock(b)
        /\ disc'.tip = disc.tip /\ disc'.token = disc.token /\ disc'.gen = disc.gen
    <3>1. InBlock(b) \in Results /\ disc' = [disc EXCEPT !.pc = "done", !.result = InBlock(b)]
      BY <1>2, <2>1 DEF Done
    <3> QED BY <1>1, <3>1, DiscFields DEF Discoveries
  <2>3. FoundDisc(disc') BY <1>1, <2>1, <2>2 DEF FoundDisc
  <2> QED BY <1>1, <1>2, <2>1, <2>2, <2>3, DiscoveryKeeps
<1>3. CASE /\ disc' = [disc EXCEPT !.pc = "fetch", !.block = b]
           /\ waiters' = waiters \cup {[block |-> b, gen |-> disc.gen]}
  <2>1. /\ disc' \in Discoveries /\ disc'.pc = "fetch" /\ disc'.block = b /\ disc'.result = disc.result
        /\ disc'.tip = disc.tip /\ disc'.token = disc.token /\ disc'.gen = disc.gen
    BY <1>1, <1>3, DiscFields DEF Discoveries
  <2>2. FoundDisc(disc') BY <1>1, <2>1 DEF FoundDisc
  <2>3. disc.result = Absent => Without(disc.tip) \/ Returns BY DEF WatchInv, Watched
  <2>4. [block |-> b, gen |-> disc.gen] \in Fetches BY <1>1 DEF Fetches
  <2>5. waiters' \subseteq Fetches BY <1>1, <1>3, <2>4
  <2>6. \A w \in waiters' : w.gen <= gen /\ (w.gen = gen => Found(w.block)) BY <1>1, <1>3
  <2> QED BY <2>1, <2>2, <2>3, <2>5, <2>6, DiscoveryKeeps
<1> QED BY <1>2, <1>3 DEF FindOutputs

\* Core answers within a discovery: for the blocks it has, or an error.
LEMMA DoneKeeps ==
  ASSUME WatchInv, disc.pc # "none", NEW s \in {Absent, Error}, disc' = Done(s),
         s = Absent => Without(disc.tip) \/ Returns,
         UNCHANGED <<chainVars, deposit, gen, synced, status, cache, queue, scan, waiters, job>>
  PROVE  WatchInv'
<1>1. disc \in Discoveries /\ FoundDisc(disc) /\ disc.gen = gen /\ FoundInv /\ WorkTypes
  BY DEF WatchInv, WorkTypes, FoundInv, FoundDisc
<1>2. s \in Results /\ FoundStatus(s) BY DEF Results, FoundStatus, Absent, Error
<1>3. /\ disc' \in Discoveries /\ disc'.pc = "done" /\ disc'.result = s
      /\ disc'.tip = disc.tip /\ disc'.token = disc.token /\ disc'.gen = disc.gen
  <2>1. disc' = [disc EXCEPT !.pc = "done", !.result = s] BY DEF Done
  <2> QED BY <1>1, <1>2, <2>1, DiscFields DEF Discoveries
<1>4. FoundDisc(disc') BY <1>1, <1>2, <1>3 DEF FoundDisc
<1> QED BY <1>1, <1>3, <1>4, DiscoveryKeeps DEF FoundInv, WorkTypes

\* A discovery that goes on to its next question.
LEMMA GoesOnKeeps ==
  ASSUME WatchInv, disc.pc # "none", NEW p \in {"lookup", "recheck"}, disc' = [disc EXCEPT !.pc = p],
         p = "lookup" => CoreAt(disc.tip),
         p = "recheck" => Without(disc.tip) \/ Returns \/ Lost(disc.tip),
         UNCHANGED <<chainVars, deposit, gen, synced, status, cache, queue, scan, waiters, job>>
  PROVE  WatchInv'
<1>1. disc \in Discoveries /\ FoundDisc(disc) /\ disc.gen = gen /\ FoundStatus(disc.result)
      /\ FoundInv /\ WorkTypes
  BY DEF WatchInv, WorkTypes, FoundInv, FoundDisc
<1>2. /\ disc' \in Discoveries /\ disc'.pc = p /\ disc'.result = disc.result
      /\ disc'.tip = disc.tip /\ disc'.token = disc.token /\ disc'.gen = disc.gen
  BY <1>1, DiscFields DEF Discoveries
<1>3. FoundDisc(disc') BY <1>1, <1>2 DEF FoundDisc
<1>4. disc.result = Absent => Without(disc.tip) \/ Returns BY DEF WatchInv, Watched
<1> QED BY <1>1, <1>2, <1>3, <1>4, DiscoveryKeeps DEF FoundInv, WorkTypes

\* A discovery asks whether Core is at its tip.
LEMMA DiscoverRequireKeeps == ASSUME WatchInv, DiscoverRequire, UNCHANGED deposit PROVE WatchInv'
<1>1. /\ disc.pc = "require"
      /\ UNCHANGED <<chainVars, deposit, gen, synced, status, cache, queue, scan, job>>
  BY DEF DiscoverRequire, bitcoinVars, viewVars, scanVars, chainVars
<1>2. CASE cache.block # NONE
  <2>1. cache.block \in Blocks /\ Found(cache.block) /\ FindOutputs(cache.block)
    BY <1>2 DEF DiscoverRequire, WatchInv, WorkTypes, FoundInv
  <2>2. cache' \in [block : Blocks \cup {NONE}, outputs : BOOLEAN] /\ Found(cache'.block)
    BY <1>1, <2>1 DEF WatchInv, WorkTypes
  <2> QED BY <1>1, <2>1, <2>2, FindOutputsKeeps
<1>3. CASE cache.block = NONE /\ CoreAt(disc.tip)
  <2>1. disc' = [disc EXCEPT !.pc = "lookup"] /\ waiters' = waiters BY <1>3 DEF DiscoverRequire
  <2> QED BY <1>1, <1>3, <2>1, GoesOnKeeps
<1>4. CASE cache.block = NONE /\ ~ CoreAt(disc.tip)
  <2>1. disc' = Done(Error) /\ waiters' = waiters BY <1>4 DEF DiscoverRequire
  <2>2. Error # Absent BY DEF Error, Absent
  <2> QED BY <1>1, <2>1, <2>2, DoneKeeps
<1> QED BY <1>2, <1>3, <1>4

\* The block of Core's chain that has the transaction.
LEMMA CarrierOfCore ==
  ASSUME core \in Chains
  PROVE  /\ Carrier(core) # NONE => Carrier(core) \in ToSet(core) /\ Carrier(core) \in Blocks
         /\ Carrier(core) = NONE => Without(core)
<1>1. NONE \notin Blocks /\ \A b \in ToSet(core) : b \in Blocks BY SameHeight, ChainsAssumption
<1>2. CASE ToSet(core) \cap deposit.blocks = {} BY <1>2 DEF Carrier, Without
<1>3. CASE ToSet(core) \cap deposit.blocks # {}
  <2>1. \E b \in ToSet(core) : b \in deposit.blocks BY <1>3
  <2>2. Carrier(core) = CHOOSE b \in ToSet(core) : b \in deposit.blocks BY <1>3 DEF Carrier
  <2>3. Carrier(core) \in ToSet(core) BY <2>1, <2>2
  <2> QED BY <1>1, <2>3
<1> QED BY <1>2, <1>3

\* A discovery asks Core for the transaction.
LEMMA DiscoverLookupKeeps == ASSUME WatchInv, DiscoverLookup, UNCHANGED deposit PROVE WatchInv'
<1>1. /\ disc.pc = "lookup"
      /\ UNCHANGED <<chainVars, deposit, gen, synced, status, queue, scan, job>>
  BY DEF DiscoverLookup, bitcoinVars, viewVars, scanVars, chainVars
<1>2. ChainInv /\ core \in Chains /\ disc \in Discoveries
      /\ cache \in [block : Blocks \cup {NONE}, outputs : BOOLEAN]
  BY DEF WatchInv, ChainInv, ChainTypes, WorkTypes
<1>3. CASE Carrier(core) = NONE
  <2>1. disc' = [disc EXCEPT !.pc = "recheck"] /\ waiters' = waiters /\ cache' = cache
    BY <1>3 DEF DiscoverLookup
  <2>2. disc.tip \in Chains BY <1>1, <1>2, DiscFields
  <2>3. CoreAt(disc.tip) => Without(disc.tip)
    <3>1. Without(core) BY <1>2, <1>3, CarrierOfCore
    <3>2. CoreAt(disc.tip) => ToSet(disc.tip) \subseteq ToSet(core) BY <1>2, <2>2, PrefixBlocks DEF CoreAt
    <3> QED BY <3>1, <3>2 DEF Without
  <2>4. CoreAt(disc.tip) \/ Returns \/ Lost(disc.tip) BY <1>1 DEF WatchInv, Watched
  <2> QED BY <1>1, <2>1, <2>3, <2>4, GoesOnKeeps
<1>4. CASE Carrier(core) # NONE /\ Carrier(core) \in ToSet(kyoto)
  <2>1. Carrier(core) \in Blocks /\ Found(Carrier(core)) BY <1>2, <1>4, CarrierOfCore, CoreFound
  <2>2. cache' = [cache EXCEPT !.block = Carrier(core)] /\ FindOutputs(Carrier(core))
    BY <1>4 DEF DiscoverLookup
  <2> DEFINE b == Carrier(core)
  <2>3. b \in Blocks /\ Found(b) /\ cache' = [cache EXCEPT !.block = b] /\ FindOutputs(b) BY <2>1, <2>2
  <2> HIDE DEF b
  <2>4. cache' \in [block : Blocks \cup {NONE}, outputs : BOOLEAN] /\ cache'.block = b BY <1>2, <2>3
  <2> QED BY <1>1, <2>3, <2>4, FindOutputsKeeps
<1>5. CASE Carrier(core) # NONE /\ Carrier(core) \notin ToSet(kyoto)
  <2>1. disc' = Done(Error) /\ waiters' = waiters /\ cache' = cache BY <1>5 DEF DiscoverLookup
  <2>2. Error # Absent BY DEF Error, Absent
  <2> QED BY <1>1, <2>1, <2>2, DoneKeeps
<1> QED BY <1>3, <1>4, <1>5

\* A discovery asks again whether Core is at its tip, before the answer counts.
LEMMA DiscoverRecheckKeeps == ASSUME WatchInv, DiscoverRecheck, UNCHANGED deposit PROVE WatchInv'
<1>1. /\ disc.pc = "recheck"
      /\ disc' = Done(IF CoreAt(disc.tip) THEN Absent ELSE Error)
      /\ UNCHANGED <<chainVars, deposit, gen, synced, status, cache, queue, scan, waiters, job>>
  BY DEF DiscoverRecheck, bitcoinVars, viewVars, scanVars, chainVars
<1>2. core \in Chains /\ disc.tip \in Chains
  BY <1>1, DiscFields DEF WatchInv, ChainInv, ChainTypes, WorkTypes
<1>3. CoreAt(disc.tip) => Without(disc.tip) \/ Returns
  <2>1. Without(disc.tip) \/ Returns \/ Lost(disc.tip) BY <1>1 DEF WatchInv, Watched
  <2>2. CoreAt(disc.tip) => ToSet(disc.tip) \subseteq ToSet(core) BY <1>2, PrefixBlocks DEF CoreAt
  <2> QED BY <2>1, <2>2 DEF Lost, NeverAgain
<1>4. Error # Absent BY DEF Error, Absent
<1>5. CASE CoreAt(disc.tip)
  <2>1. disc' = Done(Absent) BY <1>1, <1>5
  <2> QED BY <1>1, <1>3, <1>5, <2>1, DoneKeeps
<1>6. CASE ~ CoreAt(disc.tip)
  <2>1. disc' = Done(Error) BY <1>1, <1>6
  <2> QED BY <1>1, <1>4, <2>1, DoneKeeps
<1> QED BY <1>5, <1>6

\* A discovery that times out has found nothing out.
LEMMA DiscoveryTimesOutKeeps == ASSUME WatchInv, DiscoveryTimesOut, UNCHANGED deposit PROVE WatchInv'
<1>1. /\ disc.pc # "none" /\ disc' = Done(Error)
      /\ UNCHANGED <<chainVars, deposit, gen, synced, status, cache, queue, scan, waiters, job>>
  BY DEF DiscoveryTimesOut, bitcoinVars, viewVars, scanVars, chainVars
<1>2. Error # Absent BY DEF Error, Absent
<1> QED BY <1>1, <1>2, DoneKeeps

\* A step of the work, with what it leaves to be shown.
LEMMA WorkKeeps ==
  ASSUME WatchInv, UNCHANGED <<chainVars, deposit, gen, synced>>,
         status' \in Statuses, FoundStatus(status'),
         cache' \in [block : Blocks \cup {NONE}, outputs : BOOLEAN],
         cache'.block # NONE => Found(cache'.block),
         queue' \subseteq ToSet(tip),
         \/ scan' = scan \/ scan' = NoScan
         \/ scan' \in Fetches /\ scan'.gen = gen' /\ scan'.block \in ToSet(tip'),
         disc' \in Discoveries, FoundDisc(disc'),
         waiters' \subseteq waiters,
         job' \in Jobs, FoundJob(job'), Watched'
  PROVE  WatchInv'
<1>1. ChainInv' BY SameChains DEF WatchInv
<1>2. tip' = tip BY DEF chainVars
<1>3. WorkTypes /\ FoundInv BY DEF WatchInv
<1>4. WorkTypes' BY <1>2, <1>3 DEF WorkTypes
<1>5. FoundInv'
  <2>1. FoundDisc(disc)' BY SameChains
  <2>2. FoundStatus(status)' BY SameChains
  <2>3. FoundJob(job)' BY SameChains
  <2>4. (cache.block # NONE => Found(cache.block))' BY SameChains
  <2>5. (\A w \in waiters : w.gen <= gen /\ (w.gen = gen => Found(w.block)))'
    BY <1>3, SameChains DEF FoundInv
  <2>6. (scan # NoScan => scan.gen <= gen /\ (scan.gen = gen => scan.block \in ToSet(tip)))'
    BY <1>2, <1>3 DEF FoundInv, WorkTypes
  <2> QED BY <2>1, <2>2, <2>3, <2>4, <2>5, <2>6 DEF FoundInv
<1> QED BY <1>1, <1>4, <1>5 DEF WatchInv

\* A request that becomes tracked starts unchecked.
LEMMA UpsertRequestKeeps == ASSUME WatchInv, UpsertRequest, UNCHANGED deposit PROVE WatchInv'
<1>1. /\ status = Untracked /\ status' = Unchecked
      /\ UNCHANGED <<chainVars, deposit, gen, synced, cache, queue, scan, disc, waiters, job>>
  BY DEF UpsertRequest, bitcoinVars, viewVars, scanVars, chainVars
<1>2. WorkTypes /\ FoundInv /\ Watched BY DEF WatchInv
<1>3. Watched'
  <2>1. status' # Absent /\ Untracked # Unchecked BY <1>1 DEF Unchecked, Absent, Untracked
  <2> QED BY <1>1, <1>2, <2>1, SameChains DEF Watched
<1>4. status' \in Statuses /\ FoundStatus(status') BY <1>1 DEF Statuses, FoundStatus, Unchecked
<1> QED BY <1>1, <1>2, <1>3, <1>4, WorkKeeps DEF WorkTypes, FoundInv

\* A discovery keeps what it has found when it loses its token, and what Core
\* told it.
LEMMA DeadTokenKeeps ==
  ASSUME WatchInv
  PROVE  /\ FoundDisc(DeadToken(disc)) /\ DeadToken(disc) \in Discoveries
         /\ LET d == DeadToken(disc) IN
            d.pc # "none" =>
              /\ d.token # "live"
              /\ d.pc = "lookup" => CoreAt(d.tip) \/ Returns \/ Lost(d.tip)
              /\ d.pc = "recheck" => Without(d.tip) \/ Returns \/ Lost(d.tip)
              /\ d.result = Absent => Without(d.tip) \/ Returns
<1>1. disc \in Discoveries /\ FoundDisc(disc) BY DEF WatchInv, WorkTypes, FoundInv
<1>2. Watched BY DEF WatchInv
<1>3. FoundDisc(DeadToken(disc)) BY <1>1, TokenDies DEF FoundDisc
<1> QED BY <1>1, <1>2, <1>3, TokenDies DEF Watched

\* A request that is removed is no longer tracked.
LEMMA RemoveRequestKeeps == ASSUME WatchInv, RemoveRequest, UNCHANGED deposit PROVE WatchInv'
<1>1. /\ status' = Untracked /\ disc' = DeadToken(disc)
      /\ UNCHANGED <<chainVars, deposit, gen, synced, cache, queue, scan, waiters, job>>
  BY DEF RemoveRequest, bitcoinVars, viewVars, scanVars, chainVars
<1>2. WorkTypes /\ FoundInv /\ Watched BY DEF WatchInv
<1>3. disc' \in Discoveries /\ FoundDisc(disc')
      /\ (disc'.pc # "none" =>
           /\ disc'.token # "live"
           /\ disc'.pc = "lookup" => CoreAt(disc'.tip) \/ Returns \/ Lost(disc'.tip)
           /\ disc'.pc = "recheck" => Without(disc'.tip) \/ Returns \/ Lost(disc'.tip)
           /\ disc'.result = Absent => Without(disc'.tip) \/ Returns)
  BY <1>1, DeadTokenKeeps
<1>4. Watched'
  <2>1. status' # Absent BY <1>1 DEF Absent, Untracked
  <2> QED BY <1>1, <1>3, <2>1, SameChains DEF Watched
<1>5. status' \in Statuses /\ FoundStatus(status') BY <1>1 DEF Statuses, FoundStatus, Untracked
<1> QED BY <1>1, <1>2, <1>3, <1>4, <1>5, WorkKeeps DEF WorkTypes, FoundInv

\* A block that is applied was found, and ends the live discovery; else the
\* tracker and the discovery stay.
LEMMA AppliedBlock ==
  ASSUME WatchInv, NEW b \in Blocks, NEW g, ApplyBlockIfCurrent(b, g),
         g = gen => Found(b),
         UNCHANGED <<chainVars, deposit, gen, synced>>,
         NEW d, d = IF Applies(b, g) THEN DeadToken(disc) ELSE disc
  PROVE  /\ status' \in Statuses /\ FoundStatus(status')
         /\ d \in Discoveries /\ FoundDisc(d) /\ d.pc = disc.pc
         /\ Applies(b, g) => status' = InBlock(b) /\ status' # Absent /\ ~ IsScanCandidate(status')
         /\ ~ Applies(b, g) => status' = status
         /\ d.pc # "none" =>
              /\ d.gen = disc.gen /\ d.tip = disc.tip /\ d.block = disc.block
              /\ d.token = "live" => ~ Applies(b, g) /\ disc.token = "live"
              /\ d.pc = "lookup" => CoreAt(d.tip) \/ Returns \/ Lost(d.tip)
              /\ d.pc = "recheck" => Without(d.tip) \/ Returns \/ Lost(d.tip)
              /\ d.result = Absent => Without(d.tip) \/ Returns
<1>1. WorkTypes /\ FoundInv /\ Watched BY DEF WatchInv
<1>2. CASE Applies(b, g)
  <2>1. status' = InBlock(b) /\ g = gen BY <1>2 DEF ApplyBlockIfCurrent, Applies
  <2>2. status' \in Statuses /\ FoundStatus(status') /\ status' # Absent /\ ~ IsScanCandidate(status')
    BY <2>1 DEF Statuses, FoundStatus, InBlock, Absent, IsScanCandidate
  <2>3. d = DeadToken(disc) BY <1>2
  <2>4. disc \in Discoveries BY <1>1 DEF WorkTypes
  <2> QED BY <1>2, <2>1, <2>2, <2>3, <2>4, DeadTokenKeeps, TokenDies
<1>3. CASE ~ Applies(b, g)
  <2>1. d = disc /\ status' = status BY <1>3 DEF ApplyBlockIfCurrent
  <2> QED BY <1>1, <1>3, <2>1 DEF WorkTypes, FoundInv, Watched
<1> QED BY <1>2, <1>3

\* A scan applies only to the generation it was started in.
LEMMA FinishScanKeeps == ASSUME WatchInv, FinishScan, UNCHANGED deposit PROVE WatchInv'
<1>1. /\ scan # NoScan
      /\ UNCHANGED <<chainVars, deposit, gen, synced, cache, waiters, job>>
  BY DEF FinishScan, bitcoinVars, chainVars
<1>2. ChainInv /\ ChainTypes /\ WorkTypes /\ FoundInv /\ Watched BY DEF WatchInv, ChainInv
<1>3. tip' = tip /\ tip' \in Chains /\ gen' \in Nat BY <1>1, <1>2 DEF chainVars, ChainTypes, WorkTypes
<1>4. scan.block \in Blocks /\ (scan.gen = gen => Found(scan.block))
  BY <1>1, <1>2, TipFound DEF WorkTypes, FoundInv, Fetches
<1>5. CASE /\ ApplyBlockIfCurrent(scan.block, scan.gen)
           /\ disc' = IF Applies(scan.block, scan.gen) THEN DeadToken(disc) ELSE disc
           /\ StartNextScan(IF scan.gen = gen THEN queue \ {scan.block} ELSE queue)
  <2> DEFINE q == IF scan.gen = gen THEN queue \ {scan.block} ELSE queue
  <2>1. /\ status' \in Statuses /\ FoundStatus(status')
        /\ disc' \in Discoveries /\ FoundDisc(disc') /\ disc'.pc = disc.pc
        /\ Applies(scan.block, scan.gen) => status' # Absent
        /\ ~ Applies(scan.block, scan.gen) => status' = status
        /\ disc'.pc # "none" =>
              /\ disc'.gen = disc.gen /\ disc'.tip = disc.tip /\ disc'.block = disc.block
              /\ disc'.token = "live" => ~ Applies(scan.block, scan.gen) /\ disc.token = "live"
              /\ disc'.pc = "lookup" => CoreAt(disc'.tip) \/ Returns \/ Lost(disc'.tip)
              /\ disc'.pc = "recheck" => Without(disc'.tip) \/ Returns \/ Lost(disc'.tip)
              /\ disc'.result = Absent => Without(disc'.tip) \/ Returns
    BY <1>1, <1>4, <1>5, AppliedBlock
  <2>2. q \subseteq queue /\ q \subseteq ToSet(tip') /\ StartNextScan(q)
    BY <1>2, <1>3, <1>5 DEF WorkTypes
  <2>3. \A b \in queue : b \notin q => b = scan.block /\ scan.gen = gen OBVIOUS
  <2> HIDE DEF q
  <2>4. /\ queue' \subseteq ToSet(tip')
        /\ IsScanCandidate(status') => queue' = q
        /\ \/ scan' = NoScan
           \/ scan' \in Fetches /\ scan'.gen = gen' /\ scan'.block \in ToSet(tip')
    BY <1>3, <2>1, <2>2, StartNextScanEffect
  <2>5. ASSUME ~ Applies(scan.block, scan.gen), IsScanCandidate(status), NEW S, Scanned(S)
        PROVE  Scanned(S)'
    <3>1. queue' = q BY <2>1, <2>4, <2>5
    <3>2. \A b \in queue : b \in deposit.blocks => b \in q BY <2>3, <2>5 DEF Applies
    <3> QED BY <1>1, <1>3, <2>5, <3>1, <3>2 DEF Scanned
  <2>6. Watched'
    <3>1. status = Absent \/ status = Unchecked => IsScanCandidate(status)
      BY DEF IsScanCandidate, Absent, Unchecked
    <3>2. (status = Absent => synced /\ (Returns \/ Scanned({})))'
      BY <1>1, <1>2, <2>1, <2>5, <3>1 DEF Watched
    <3>3. (disc.pc # "none" /\ disc.token = "live" =>
             status = Unchecked /\ synced /\ Scanned(ToSet(disc.tip)))'
      <4> SUFFICES ASSUME disc'.pc # "none", disc'.token = "live"
                   PROVE  (status = Unchecked /\ synced /\ Scanned(ToSet(disc.tip)))'
        OBVIOUS
      <4>1. ~ Applies(scan.block, scan.gen) /\ disc.token = "live" /\ disc.pc # "none" /\ disc'.tip = disc.tip
        BY <2>1
      <4>2. status = Unchecked /\ synced /\ Scanned(ToSet(disc.tip)) BY <1>2, <4>1 DEF Watched
      <4>3. \A S : Scanned(S) => Scanned(S)' BY <2>5, <3>1, <4>1, <4>2
      <4>4. Scanned(ToSet(disc.tip))' BY <4>1, <4>2, <4>3
      <4> QED BY <1>1, <2>1, <4>1, <4>2, <4>4
    <3>4. (disc.pc # "none" =>
            /\ disc.pc = "lookup" => CoreAt(disc.tip) \/ Returns \/ Lost(disc.tip)
            /\ disc.pc = "recheck" => Without(disc.tip) \/ Returns \/ Lost(disc.tip)
            /\ disc.result = Absent => Without(disc.tip) \/ Returns)'
      BY <1>1, <2>1, SameChains
    <3> QED BY <3>2, <3>3, <3>4 DEF Watched
  <2> QED BY <1>1, <1>2, <1>3, <2>1, <2>4, <2>6, WorkKeeps DEF WorkTypes, FoundInv
<1>6. CASE UNCHANGED <<status, disc>> /\ StartNextScan(queue)
  <2>1. /\ queue' \subseteq ToSet(tip')
        /\ IsScanCandidate(status') => queue' = queue
        /\ \/ scan' = NoScan
           \/ scan' \in Fetches /\ scan'.gen = gen' /\ scan'.block \in ToSet(tip')
    BY <1>2, <1>3, <1>6, StartNextScanEffect DEF WorkTypes
  <2>2. Watched'
    <3>1. status = Absent \/ status = Unchecked => IsScanCandidate(status)
      BY DEF IsScanCandidate, Absent, Unchecked
    <3>2. IsScanCandidate(status) => \A S : Scanned(S)' = Scanned(S)
      BY <1>1, <1>6, <2>1, SameChains
    <3> QED BY <1>1, <1>2, <1>6, <3>1, <3>2, SameChains DEF Watched
  <2> QED BY <1>1, <1>2, <1>3, <1>6, <2>1, <2>2, WorkKeeps DEF WorkTypes, FoundInv
<1> QED BY <1>5, <1>6 DEF FinishScan

\* The outputs of a fetched block are those of a block on the chain of the
\* discovery.
LEMMA FetchDoneKeeps ==
  ASSUME WatchInv, NEW w \in waiters, FetchDone(w), UNCHANGED deposit PROVE WatchInv'
<1>1. /\ waiters' \subseteq waiters
      /\ UNCHANGED <<chainVars, deposit, gen, synced, queue, scan, job>>
  BY DEF FetchDone, bitcoinVars, viewVars, scanVars, chainVars
<1>2. WorkTypes /\ FoundInv /\ Watched BY DEF WatchInv
<1>3. w.block \in Blocks /\ (w.gen = gen => Found(w.block)) BY <1>2 DEF WorkTypes, FoundInv, Fetches
<1>4. disc \in Discoveries /\ FoundDisc(disc) BY <1>2 DEF WorkTypes, FoundInv
<1>5. tip' = tip BY <1>1 DEF chainVars
<1>6. \A d, s : FoundDisc(d) /\ d \in Discoveries /\ s \in Results /\ FoundStatus(s) =>
        LET e == Answered(d, w, s) IN
          /\ e \in Discoveries /\ FoundDisc(e)
          /\ e.pc = d.pc \/ e.pc = "done"
          /\ d.pc = "none" => e.pc = "none"
          /\ d.pc # "none" => e.tip = d.tip /\ e.token = d.token
          /\ e.pc # "none" => e.result = d.result \/ e.result = s
  <2> SUFFICES ASSUME NEW d \in Discoveries, NEW s \in Results, FoundDisc(d), FoundStatus(s)
               PROVE  LET e == Answered(d, w, s) IN
                        /\ e \in Discoveries /\ FoundDisc(e)
                        /\ e.pc = d.pc \/ e.pc = "done"
                        /\ d.pc = "none" => e.pc = "none"
                        /\ d.pc # "none" => e.tip = d.tip /\ e.token = d.token
                        /\ e.pc # "none" => e.result = d.result \/ e.result = s
    OBVIOUS
  <2>1. CASE d.pc = "fetch" /\ d.block = w.block /\ d.gen = w.gen
    <3> DEFINE e == Answered(d, w, s)
    <3>1. e = [d EXCEPT !.pc = "done", !.result = s] BY <2>1 DEF Answered
    <3> HIDE DEF e
    <3>2. /\ e \in Discoveries /\ e.pc = "done" /\ e.result = s
          /\ e.tip = d.tip /\ e.token = d.token /\ e.gen = d.gen
      BY <2>1, <3>1, DiscFields DEF Discoveries
    <3>3. FoundDisc(e) BY <2>1, <3>2 DEF FoundDisc
    <3> QED BY <2>1, <3>2, <3>3 DEF e
  <2>2. CASE ~ (d.pc = "fetch" /\ d.block = w.block /\ d.gen = w.gen)
    <3>1. Answered(d, w, s) = d BY <2>2 DEF Answered
    <3> QED BY <3>1
  <2> QED BY <2>1, <2>2
<1>7. CASE /\ ApplyBlockIfCurrent(w.block, w.gen)
           /\ disc' = Answered(IF Applies(w.block, w.gen) THEN DeadToken(disc) ELSE disc,
                               w, InBlock(w.block))
           /\ cache' = IF w.gen = gen THEN [cache EXCEPT !.outputs = TRUE] ELSE cache
  <2> DEFINE d == IF Applies(w.block, w.gen) THEN DeadToken(disc) ELSE disc
  <2>1. d = (IF Applies(w.block, w.gen) THEN DeadToken(disc) ELSE disc)
        /\ disc' = Answered(d, w, InBlock(w.block)) BY <1>7
  <2> HIDE DEF d
  <2>2. /\ status' \in Statuses /\ FoundStatus(status')
        /\ d \in Discoveries /\ FoundDisc(d) /\ d.pc = disc.pc
        /\ Applies(w.block, w.gen) => status' # Absent
        /\ ~ Applies(w.block, w.gen) => status' = status
        /\ d.pc # "none" =>
              /\ d.gen = disc.gen /\ d.tip = disc.tip
              /\ d.token = "live" => ~ Applies(w.block, w.gen) /\ disc.token = "live"
              /\ d.pc = "lookup" => CoreAt(d.tip) \/ Returns \/ Lost(d.tip)
              /\ d.pc = "recheck" => Without(d.tip) \/ Returns \/ Lost(d.tip)
              /\ d.result = Absent => Without(d.tip) \/ Returns
    BY <1>1, <1>3, <1>7, <2>1, AppliedBlock
  <2>3. cache' \in [block : Blocks \cup {NONE}, outputs : BOOLEAN] /\ cache'.block = cache.block
    BY <1>2, <1>7 DEF WorkTypes
  <2>4. disc.gen = gen \/ disc.pc = "none" BY <1>4 DEF FoundDisc
  <2>5. CASE w.gen = gen
    <3>1. InBlock(w.block) \in Results /\ FoundStatus(InBlock(w.block)) /\ InBlock(w.block) # Absent
      BY <1>3, <2>5 DEF Results, InBlock, Absent, FoundStatus
    <3>2. /\ disc' \in Discoveries /\ FoundDisc(disc')
          /\ disc'.pc = d.pc \/ disc'.pc = "done"
          /\ d.pc = "none" => disc'.pc = "none"
          /\ d.pc # "none" => disc'.tip = d.tip /\ disc'.token = d.token
          /\ disc'.pc # "none" => disc'.result = d.result \/ disc'.result = InBlock(w.block)
      BY <1>6, <2>1, <2>2, <3>1
    <3>3. Watched'
      <4>1. (status = Absent => synced /\ (Returns \/ Scanned({})))' BY <1>1, <1>2, <2>2, SameChains DEF Watched
      <4>2. (disc.pc # "none" /\ disc.token = "live" =>
               status = Unchecked /\ synced /\ Scanned(ToSet(disc.tip)))'
        BY <1>1, <1>2, <2>2, <3>2, SameChains DEF Watched
      <4>3. (disc.pc # "none" =>
              /\ disc.pc = "lookup" => CoreAt(disc.tip) \/ Returns \/ Lost(disc.tip)
              /\ disc.pc = "recheck" => Without(disc.tip) \/ Returns \/ Lost(disc.tip)
              /\ disc.result = Absent => Without(disc.tip) \/ Returns)'
        BY <1>1, <2>2, <3>1, <3>2, SameChains
      <4> QED BY <4>1, <4>2, <4>3 DEF Watched
    <3> QED BY <1>1, <1>2, <1>5, <2>2, <2>3, <3>2, <3>3, WorkKeeps DEF WorkTypes, FoundInv
  <2>6. CASE w.gen # gen
    <3>1. disc' = d /\ ~ Applies(w.block, w.gen) /\ d = disc
      BY <2>1, <2>2, <2>4, <2>6 DEF Answered, Applies
    <3>2. Watched' BY <1>1, <1>2, <2>2, <3>1, SameChains DEF Watched
    <3> QED BY <1>1, <1>2, <1>4, <1>5, <2>2, <2>3, <3>1, <3>2, WorkKeeps DEF WorkTypes, FoundInv
  <2> QED BY <2>5, <2>6
<1>8. CASE /\ cache' = IF w.gen = gen THEN NoCache ELSE cache
           /\ disc' = Answered(disc, w, Error) /\ status' = status
  <2>1. Error \in Results /\ FoundStatus(Error) /\ Error # Absent
    BY DEF Results, Error, Absent, FoundStatus
  <2>2. /\ disc' \in Discoveries /\ FoundDisc(disc')
        /\ disc'.pc = disc.pc \/ disc'.pc = "done"
        /\ disc.pc = "none" => disc'.pc = "none"
        /\ disc.pc # "none" => disc'.tip = disc.tip /\ disc'.token = disc.token
        /\ disc'.pc # "none" => disc'.result = disc.result \/ disc'.result = Error
    BY <1>4, <1>6, <1>8, <2>1
  <2>3. cache' \in [block : Blocks \cup {NONE}, outputs : BOOLEAN]
        /\ (cache'.block # NONE => Found(cache'.block))
    BY <1>2, <1>8 DEF WorkTypes, FoundInv, NoCache
  <2>4. Watched' BY <1>1, <1>2, <1>8, <2>1, <2>2, SameChains DEF Watched
  <2> QED BY <1>1, <1>2, <1>5, <1>8, <2>2, <2>3, <2>4, WorkKeeps DEF WorkTypes, FoundInv
<1> QED BY <1>7, <1>8 DEF FetchDone

\* The tasks the leader may have; a new check starts at the monitor's tip.
LEMMA TaskStates ==
  ASSUME WatchInv
  PROVE  /\ \A p \in {"none", "ask", "discover", "failed", "confirmed"} : \A b \in BOOLEAN :
              LET j == [pc |-> p, stale |-> b] IN j \in Jobs /\ FoundJob(j)
         /\ \A s \in Statuses \cup Results : \A b \in BOOLEAN : FoundStatus(s) =>
              LET j == [pc |-> "check", stale |-> b, tip |-> tip, gen |-> gen, status |-> s] IN
              j \in Jobs /\ FoundJob(j)
<1>1. tip \in Chains /\ gen \in Nat BY DEF WatchInv, ChainInv, ChainTypes, WorkTypes
<1>2. Len(tip) \in Nat BY <1>1, ChainShape
<1>3. IsPrefix(tip, tip) BY <1>1, <1>2, PrefixBlocks
<1>4. ASSUME NEW p \in {"none", "ask", "discover", "failed", "confirmed"}, NEW b \in BOOLEAN
      PROVE  LET j == [pc |-> p, stale |-> b] IN j \in Jobs /\ FoundJob(j)
  BY DEF Jobs, FoundJob
<1>5. ASSUME NEW s \in Statuses \cup Results, NEW b \in BOOLEAN, FoundStatus(s)
      PROVE  LET j == [pc |-> "check", stale |-> b, tip |-> tip, gen |-> gen, status |-> s] IN
             j \in Jobs /\ FoundJob(j)
  <2> DEFINE j == [pc |-> "check", stale |-> b, tip |-> tip, gen |-> gen, status |-> s]
  <2>1. j \in Jobs BY <1>1 DEF Jobs
  <2>2. j.pc = "check" /\ j.tip = tip /\ j.gen = gen /\ j.status = s OBVIOUS
  <2>3. FoundJob(j)
    <3> HIDE DEF j
    <3> QED BY <1>1, <1>3, <1>5, <2>2 DEF FoundJob
  <2> QED BY <2>1, <2>3
<1> QED BY <1>4, <1>5

\* A check starts from what is recorded.
LEMMA ConfirmDepositKeeps == ASSUME WatchInv, ConfirmDeposit, UNCHANGED deposit PROVE WatchInv'
<1>1. /\ job.pc = "ask"
      /\ UNCHANGED <<chainVars, deposit, gen, synced, status, cache, queue, scan, waiters>>
  BY DEF ConfirmDeposit, bitcoinVars, viewVars, scanVars, chainVars
<1>2. ChainTypes /\ WorkTypes /\ FoundInv /\ Watched BY DEF WatchInv, ChainInv
<1>3. job \in [pc : {"none", "ask", "discover", "failed", "confirmed"}, stale : BOOLEAN]
      /\ job.stale \in BOOLEAN
  BY <1>1, <1>2 DEF WorkTypes, Jobs
<1>4. CASE ~ Ready /\ job' = [job EXCEPT !.pc = "failed"] /\ disc' = disc
  <2>1. job' = [pc |-> "failed", stale |-> job.stale] BY <1>3, <1>4
  <2>2. job' \in Jobs /\ FoundJob(job') BY <1>3, <2>1, TaskStates
  <2> QED BY <1>1, <1>4, <2>2, TaskKeeps
<1>5. CASE Ready /\ Known(status) /\ StartCheck(status) /\ disc' = disc
  <2>1. job' = [pc |-> "check", stale |-> job.stale, tip |-> tip, gen |-> gen, status |-> status]
    BY <1>5 DEF StartCheck
  <2>2. status \in Statuses \cup Results /\ FoundStatus(status) BY <1>2 DEF WorkTypes, FoundInv
  <2>3. job' \in Jobs /\ FoundJob(job') BY <1>3, <2>1, <2>2, TaskStates
  <2> QED BY <1>1, <1>5, <2>3, TaskKeeps
<1>6. CASE /\ Ready /\ job' = [job EXCEPT !.pc = "discover"]
           /\ disc' = IF disc # NoDisc THEN disc
                      ELSE [pc |-> "require", tip |-> tip, gen |-> gen, block |-> NONE,
                            token |-> IF status = Unchecked THEN "live" ELSE "none",
                            result |-> Error]
  <2>1. job' = [pc |-> "discover", stale |-> job.stale] BY <1>3, <1>6
  <2>2. job' \in Jobs /\ FoundJob(job') BY <1>3, <2>1, TaskStates
  <2>3. CASE disc # NoDisc
    <3>1. disc' = disc BY <1>6, <2>3
    <3> QED BY <1>1, <2>2, <3>1, TaskKeeps
  <2>4. CASE disc = NoDisc
    <3>1. tip \in Chains /\ gen \in Nat /\ synced BY <1>2, <1>6 DEF ChainTypes, WorkTypes, Ready
    <3>2. /\ disc'.pc = "require" /\ disc'.tip = tip /\ disc'.gen = gen /\ disc'.result = Error
          /\ disc'.token = "live" => status = Unchecked
      BY <1>6, <2>4
    <3>3. disc' \in Discoveries
      <4>1. Error \in Results BY DEF Results
      <4>2. CASE status = Unchecked
        <5>1. disc' = [pc |-> "require", tip |-> tip, gen |-> gen, block |-> NONE,
                       token |-> "live", result |-> Error] BY <1>6, <2>4, <4>2
        <5> QED BY <3>1, <4>1, <5>1 DEF Discoveries
      <4>3. CASE status # Unchecked
        <5>1. disc' = [pc |-> "require", tip |-> tip, gen |-> gen, block |-> NONE,
                       token |-> "none", result |-> Error] BY <1>6, <2>4, <4>3
        <5> QED BY <3>1, <4>1, <5>1 DEF Discoveries
      <4> QED BY <4>2, <4>3
    <3>4. Error.st = "error" /\ Error # Absent BY DEF Error, Absent
    <3>5. FoundDisc(disc') BY <3>2, <3>4 DEF FoundDisc, FoundStatus
    <3>6. Watched'
      <4>1. \A S : S = ToSet(tip) => Scanned(S) BY DEF Scanned
      <4>2. Scanned(ToSet(disc.tip))' BY <1>1, <3>2, <4>1, SameChains
      <4>3. (status = Absent => synced /\ (Returns \/ Scanned({})))' BY <1>1, <1>2, SameChains DEF Watched
      <4> QED BY <1>1, <3>1, <3>2, <3>4, <4>2, <4>3 DEF Watched
    <3>7. tip' = tip BY <1>1 DEF chainVars
    <3> QED BY <1>1, <1>2, <2>2, <3>3, <3>5, <3>6, <3>7, WorkKeeps DEF WorkTypes, FoundInv
  <2> QED BY <2>3, <2>4
<1> QED BY <1>4, <1>5, <1>6 DEF ConfirmDeposit

\* A discovery is recorded only if it was not cancelled.
LEMMA FinishDiscoveryKeeps == ASSUME WatchInv, FinishDiscovery, UNCHANGED deposit PROVE WatchInv'
<1> DEFINE s == IF RecordsResult THEN disc.result
                ELSE IF Known(status) THEN status
                ELSE IF disc.token = "dead" /\ status = Untracked THEN Error ELSE disc.result
<1>1. /\ disc.pc = "done" /\ disc' = NoDisc
      /\ status' = IF RecordsResult THEN disc.result ELSE status
      /\ IF job.pc # "discover" THEN job' = job
         ELSE IF s = Error THEN job' = [job EXCEPT !.pc = "failed"] ELSE StartCheck(s)
      /\ UNCHANGED <<chainVars, deposit, gen, synced, cache, queue, scan, waiters>>
  BY DEF FinishDiscovery, bitcoinVars, viewVars, scanVars, chainVars
<1>2. ChainTypes /\ WorkTypes /\ FoundInv /\ Watched BY DEF WatchInv, ChainInv
<1>3. disc.result \in Results /\ FoundStatus(disc.result)
  BY <1>1, <1>2, DiscFields DEF WorkTypes, FoundInv, FoundDisc
<1>4. status \in Statuses /\ FoundStatus(status) BY <1>2 DEF WorkTypes, FoundInv
<1>5. status' \in Statuses /\ FoundStatus(status')
  BY <1>1, <1>3, <1>4 DEF RecordsResult, Results, Statuses
<1>6. s \in Statuses \cup Results /\ FoundStatus(s)
  <2>1. Error \in Results /\ FoundStatus(Error) BY DEF Results, FoundStatus, Error
  <2> QED BY <1>3, <1>4, <2>1
<1> HIDE DEF s
<1>7. job' \in Jobs /\ FoundJob(job')
  <2>1. CASE job.pc # "discover" BY <1>1, <1>2, <2>1 DEF WorkTypes, FoundInv
  <2>2. CASE job.pc = "discover"
    <3>1. job \in [pc : {"none", "ask", "discover", "failed", "confirmed"}, stale : BOOLEAN]
          /\ job.stale \in BOOLEAN
      BY <1>2, <2>2 DEF WorkTypes, Jobs
    <3>2. CASE s = Error
      <4>1. job' = [pc |-> "failed", stale |-> job.stale] BY <1>1, <2>2, <3>1, <3>2
      <4> QED BY <3>1, <4>1, TaskStates
    <3>3. CASE s # Error
      <4>1. job' = [pc |-> "check", stale |-> job.stale, tip |-> tip, gen |-> gen, status |-> s]
        BY <1>1, <2>2, <3>3 DEF StartCheck
      <4> QED BY <1>6, <3>1, <4>1, TaskStates
    <3> QED BY <3>2, <3>3
  <2> QED BY <2>1, <2>2
<1>8. disc' \in Discoveries /\ FoundDisc(disc') /\ disc'.pc = "none"
  BY <1>1 DEF Discoveries, FoundDisc, NoDisc
<1>9. Watched'
  <2>1. ASSUME status' = Absent PROVE synced /\ (Returns \/ Scanned({}))
    <3>1. CASE RecordsResult
      <4>1. disc.token = "live" /\ disc.result = Absent BY <1>1, <2>1, <3>1 DEF RecordsResult
      <4>2. synced /\ Scanned(ToSet(disc.tip)) /\ (Without(disc.tip) \/ Returns)
        BY <1>1, <1>2, <4>1 DEF Watched
      <4> QED BY <4>2 DEF Scanned, Without
    <3>2. CASE ~ RecordsResult BY <1>1, <1>2, <2>1, <3>2 DEF Watched
    <3> QED BY <3>1, <3>2
  <2>2. (status = Absent => synced /\ (Returns \/ Scanned({})))' BY <1>1, <2>1, SameChains
  <2> QED BY <1>8, <2>2 DEF Watched
<1>10. tip' = tip BY <1>1 DEF chainVars
<1> QED BY <1>1, <1>2, <1>5, <1>7, <1>8, <1>9, <1>10, WorkKeeps DEF WorkTypes, FoundInv

\* A check that succeeds at a tip Core still has is of a block of that chain: a
\* block that an event will bring would have another one at its height there.
LEMMA CheckedIsDeep ==
  ASSUME ChainInv, WorkTypes, NEW b, Found(b), NEW t \in Chains, IsPrefix(t, tip), CoreAt(t),
         Confirmations(b, t) >= deposit.threshold
  PROVE  Deep(b)
<1> SUFFICES ASSUME ~ Returns, deposit.threshold # 0
             PROVE  b \in ToSet(tip) /\ Confirmations(b, tip) >= deposit.threshold
  BY DEF Deep
<1>1. deposit.threshold \in Nat BY DepositWatchAssumption DEF WorkTypes
<1>2. tip \in Chains /\ Len(t) \in Nat BY ChainShape DEF ChainInv, ChainTypes
<1>3. PICK p \in 0 .. Len(events) : b \in ToSet(Pos(p)) BY DEF Found
<1>4. Pos(p) \in Chains BY PosTypes DEF ChainInv
<1>5. Height(b) \in 1 .. Len(Pos(p)) /\ Len(Pos(p)) \in Nat BY <1>3, <1>4, SameHeight, ChainShape
<1>6. ~ (Height(b) > Len(t)) BY <1>1, <1>2, <1>5 DEF Confirmations
<1>7. Height(b) \in 1 .. Len(t) BY <1>2, <1>5, <1>6
<1>8. b \in ToSet(t) BY <1>7, FoundOnTip DEF CoreAt
<1> QED BY <1>1, <1>2, <1>8, DeepGrows

\* A check answers from the record and from Core at one tip.
LEMMA CheckStatusKeeps == ASSUME WatchInv, CheckStatus, UNCHANGED deposit PROVE WatchInv'
<1> DEFINE c == /\ job.status.st = "inblock"
                /\ Confirmations(job.status.block, job.tip) >= deposit.threshold
                /\ UnspentAtTip(job.tip)
<1>1. /\ job.pc = "check"
      /\ job' = [pc |-> "checked", stale |-> job.stale, block |-> job.status.block, gen |-> job.gen,
                 confirmed |-> c]
      /\ UNCHANGED <<chainVars, deposit, gen, synced, status, cache, queue, scan, disc, waiters>>
  BY DEF CheckStatus, bitcoinVars, viewVars, scanVars, chainVars
<1>2. ChainInv /\ WorkTypes /\ FoundJob(job) BY DEF WatchInv, FoundInv
<1>3. job.stale \in BOOLEAN /\ job.gen \in Nat /\ job.tip \in Chains /\ job.status \in Statuses \cup Results
  BY <1>1, <1>2 DEF WorkTypes, Jobs
<1>4. job.status.block \in Blocks \cup {NONE}
  BY <1>3 DEF Statuses, Results, Untracked, Unchecked, Absent, Error, InBlock
<1>5. c \in BOOLEAN OBVIOUS
<1>6. ASSUME c, job.gen = gen PROVE Deep(job.status.block)
  <2>1. IsPrefix(job.tip, tip) /\ FoundStatus(job.status) BY <1>1, <1>2, <1>6 DEF FoundJob
  <2>2. Found(job.status.block) BY <1>6, <2>1 DEF FoundStatus
  <2> QED BY <1>2, <1>3, <1>6, <2>1, <2>2, CheckedIsDeep DEF UnspentAtTip
<1> HIDE DEF c
<1>7. job' \in Jobs BY <1>1, <1>3, <1>4, <1>5 DEF Jobs
<1>8. FoundJob(job')
  <2>1. /\ job'.pc = "checked" /\ job'.block = job.status.block /\ job'.gen = job.gen
        /\ job'.confirmed = c
    BY <1>1
  <2>2. job.gen <= gen BY <1>1, <1>2 DEF FoundJob
  <2> QED BY <1>6, <2>1, <2>2 DEF FoundJob
<1> QED BY <1>1, <1>7, <1>8, TaskKeeps

\* The leader's task ends, starts, or notices a block.
LEMMA TaskStepsKeep ==
  ASSUME WatchInv, CheckFails \/ FinishCheck \/ StartJob \/ HandleCompleted \/ Wakeup \/ LaterBlock,
         UNCHANGED deposit
  PROVE  WatchInv'
<1>1. UNCHANGED <<chainVars, deposit, gen, synced, status, cache, queue, scan, disc, waiters>>
  BY DEF CheckFails, FinishCheck, StartJob, HandleCompleted, Wakeup, LaterBlock, bitcoinVars,
         viewVars, scanVars, chainVars
<1>2. job \in Jobs /\ FoundJob(job) BY DEF WatchInv, WorkTypes, FoundInv
<1>3. job.stale \in BOOLEAN BY <1>2 DEF Jobs
<1>4. job' \in Jobs /\ FoundJob(job')
  <2>1. CASE CheckFails
    <3>1. job' = [pc |-> "failed", stale |-> job.stale] BY <2>1 DEF CheckFails
    <3> QED BY <1>3, <3>1, TaskStates
  <2>2. CASE FinishCheck
    <3>1. \/ job' = [pc |-> "failed", stale |-> job.stale]
          \/ job' = [pc |-> "confirmed", stale |-> job.stale]
      BY <2>2 DEF FinishCheck
    <3> QED BY <1>3, <3>1, TaskStates
  <2>3. CASE StartJob
    <3>1. job' = [pc |-> "ask", stale |-> FALSE] BY <2>3 DEF StartJob
    <3> QED BY <3>1, TaskStates
  <2>4. CASE HandleCompleted
    <3>1. job' = [pc |-> "none", stale |-> FALSE] BY <2>4 DEF HandleCompleted, NoJob
    <3> QED BY <3>1, TaskStates
  <2>5. CASE Wakeup BY <1>2, <2>5 DEF Wakeup
  <2>6. CASE LaterBlock
    <3>1. job' = Stale(job) BY <2>6 DEF LaterBlock
    <3>2. FoundJob(Stale(job)) BY <1>2, StaleJob DEF FoundJob
    <3> QED BY <1>2, <3>1, <3>2, StaleJob
  <2> QED BY <2>1, <2>2, <2>3, <2>4, <2>5, <2>6
<1> QED BY <1>1, <1>4, TaskKeeps

-----------------------------------------------------------------------------
(* The theorems. *)

\* Every step of the model keeps the invariant.
LEMMA NextKeeps == WatchInv /\ [Next]_vars => WatchInv'
<1> SUFFICES ASSUME WatchInv, [Next]_vars PROVE WatchInv' OBVIOUS
<1>1. CASE UNCHANGED vars
  <2>1. UNCHANGED <<chainVars, deposit, gen, synced, status, cache, queue, scan, disc, waiters>> /\ job' = job
    BY <1>1 DEF vars, bitcoinVars, viewVars, scanVars, chainVars
  <2>2. job \in Jobs /\ FoundJob(job) BY DEF WatchInv, WorkTypes, FoundInv
  <2> QED BY <2>1, <2>2, TaskKeeps
<1>2. CASE Next
  <2>1. UNCHANGED deposit BY <1>2 DEF Next, Open
  <2>2. \/ Network \/ ChainUpdate \/ Discovery \/ Fetch \/ FinishScan
        \/ Check \/ Wakeup \/ UpsertRequest \/ Failure
    BY <1>2 DEF Next, Open
  <2>3. CASE Network
    BY <2>1, <2>3, MineKeeps, SyncCoreKeeps, KyotoHeadersKeeps, KyotoFiltersKeeps, TaskStepsKeep DEF Network
  <2>4. CASE ChainUpdate
    BY <2>1, <2>4, ConnectedKeeps, ReorganizedKeeps, FiltersSyncedKeeps DEF ChainUpdate
  <2>5. CASE Discovery
    BY <2>1, <2>5, DiscoverRequireKeeps, DiscoverLookupKeeps, DiscoverRecheckKeeps,
       FinishDiscoveryKeeps DEF Discovery
  <2>6. CASE Fetch
    <3>1. PICK w \in waiters : FetchDone(w) BY <2>6 DEF Fetch
    <3> QED BY <2>1, <3>1, FetchDoneKeeps
  <2>7. CASE FinishScan BY <2>1, <2>7, FinishScanKeeps
  <2>8. CASE Check
    BY <2>1, <2>8, ConfirmDepositKeeps, CheckStatusKeeps, TaskStepsKeep DEF Check
  <2>9. CASE Wakeup BY <2>1, <2>9, TaskStepsKeep
  <2>10. CASE UpsertRequest BY <2>1, <2>10, UpsertRequestKeeps
  <2>11. CASE Failure
    BY <2>1, <2>11, RemoveRequestKeeps, RestartKeeps, DiscoveryTimesOutKeeps, TaskStepsKeep DEF Failure
  <2> QED BY <2>2, <2>3, <2>4, <2>5, <2>6, <2>7, <2>8, <2>9, <2>10, <2>11
<1> QED BY <1>1, <1>2

\* The invariant of the tracker, with or without returns of the network.
THEOREM WatchHolds == Spec => []WatchInv
<1> QED BY InitWatch, NextKeeps, PTL DEF Spec

\* The state is well formed and only blocks of the monitor's chain are queued.
THEOREM TypeCorrect == Spec => []TypeOK
<1>1. WatchInv => TypeOK
  <2> SUFFICES ASSUME WatchInv PROVE TypeOK OBVIOUS
  <2>1. best \in Chains /\ core \in Chains /\ kyoto \in Chains /\ tip \in Chains /\ queue \subseteq ToSet(tip)
    BY DEF WatchInv, ChainInv, ChainTypes, WorkTypes
  <2>2. status.st \in {"untracked", "unchecked", "absent", "inblock"}
    BY DEF WatchInv, WorkTypes, Statuses, Untracked, Unchecked, Absent, InBlock
  <2> QED BY <2>1, <2>2 DEF TypeOK
<1> QED BY <1>1, WatchHolds, PTL

\* The tracker never keeps a block that was disconnected (apply_reorg and
\* reset_bitcoin_state), whatever order headers, scans, fetches and discoveries
\* come in, and even if the network returns to a branch it left.
THEOREM RecordedBlocks == Spec => []RecordedOnChain
<1>1. WatchInv => RecordedOnChain
  <2> SUFFICES ASSUME WatchInv, status.st = "inblock"
               PROVE  \/ status.block \in ToSet(tip)
                      \/ \E i \in DOMAIN events : status.block \in ToSet(events[i].chain)
    BY DEF RecordedOnChain
  <2>1. Found(status.block) BY DEF WatchInv, FoundInv, FoundStatus
  <2>2. PICK p \in 0 .. Len(events) : status.block \in ToSet(Pos(p)) BY <2>1 DEF Found
  <2>3. events \in Seq(Events) /\ Len(events) \in Nat BY DEF WatchInv, ChainInv, ChainTypes
  <2>4. CASE p = 0 BY <2>2, <2>4 DEF Pos
  <2>5. CASE p # 0
    <3>1. p \in DOMAIN events BY <2>3, <2>5
    <3> QED BY <2>2, <2>5, <3>1 DEF Pos
  <2> QED BY <2>4, <2>5
<1> QED BY <1>1, WatchHolds, PTL

\* No deposit is forgotten as absent (finish_deposit_discovery and the scan
\* queue): a block of the monitor's chain that has it is still to be scanned.
\* The network is assumed not to return to a branch between the questions that
\* one discovery asks of Bitcoin Core.
THEOREM AbsentWillBeScanned == ASSUME ~ Returns PROVE Spec => []AbsentIsScanned
<1>1. WatchInv => AbsentIsScanned
  <2> SUFFICES ASSUME WatchInv, status = Absent, Carrier(tip) # NONE PROVE Carrier(tip) \in queue
    BY DEF AbsentIsScanned
  <2>1. Scanned({}) BY DEF WatchInv, Watched
  <2>2. ToSet(tip) \cap deposit.blocks # {} BY DEF Carrier
  <2>3. Carrier(tip) = CHOOSE b \in ToSet(tip) : b \in deposit.blocks BY <2>2 DEF Carrier
  <2>4. \E b \in ToSet(tip) : b \in deposit.blocks BY <2>2
  <2>5. Carrier(tip) \in ToSet(tip) /\ Carrier(tip) \in deposit.blocks BY <2>3, <2>4
  <2> QED BY <2>1, <2>5 DEF Scanned
<1> QED BY <1>1, WatchHolds, PTL

\* A deposit is reported confirmed (finish_deposit_check) only while its block
\* is on the monitor's chain at the threshold, if the network does not return
\* to a branch it left and at least one confirmation is asked for.
THEOREM ConfirmedDeep ==
  ASSUME ~ Returns, \A d \in Deposits : d.threshold > 0
  PROVE  Spec => ConfirmedIsDeep
<1>1. ASSUME WatchInv, [Next]_vars, job.pc = "checked", job'.pc = "confirmed"
      PROVE  job.block \in ToSet(tip) /\ Confirmations(job.block, tip) >= deposit.threshold
  <2>1. deposit \in Deposits /\ job \in Jobs /\ FoundJob(job) BY <1>1 DEF WatchInv, WorkTypes, FoundInv
  <2>2. deposit.threshold # 0 BY <2>1, DepositWatchAssumption
  <2>3. Delivers
    <3>1. CASE FinishCheck BY <1>1, <3>1 DEF FinishCheck
    <3>2. CASE job' = job BY <1>1, <3>2
    <3>3. CASE job' = Stale(job) BY <1>1, <2>1, <3>3, StaleJob
    <3>4. CASE job' \in {CancelledJob(job), Stale(CancelledJob(job))}
      BY <1>1, <2>1, <3>4, StaleJob, CancelledTask
    <3>5. CASE HandleCompleted BY <1>1, <3>5 DEF HandleCompleted
    <3>6. CASE StartJob \/ CheckFails BY <1>1, <3>6 DEF StartJob, CheckFails
    <3>7. CASE CheckStatus \/ ConfirmDeposit BY <1>1, <3>7 DEF CheckStatus, ConfirmDeposit
    <3>8. CASE FinishDiscovery BY <1>1, <3>8 DEF FinishDiscovery
    <3>9. \/ FinishCheck \/ job' = job \/ job' = Stale(job)
          \/ job' \in {CancelledJob(job), Stale(CancelledJob(job))}
          \/ HandleCompleted \/ StartJob \/ CheckFails \/ CheckStatus \/ ConfirmDeposit \/ FinishDiscovery
      <4>1. CASE UNCHANGED vars BY <4>1 DEF vars
      <4>2. CASE Next
        <5>1. \/ Network \/ ChainUpdate \/ Discovery \/ Fetch \/ FinishScan
              \/ Check \/ Wakeup \/ UpsertRequest \/ Failure
          BY <4>2 DEF Next, Open
        <5>2. CASE Network
          BY <5>2 DEF Network, Mine, SyncCore, KyotoHeaders, KyotoFilters, LaterBlock
        <5>3. CASE ChainUpdate BY <5>3 DEF ChainUpdate, Connected, Reorganized, FiltersSynced
        <5>4. CASE Discovery BY <5>4 DEF Discovery, DiscoverRequire, DiscoverLookup, DiscoverRecheck
        <5>5. CASE Fetch BY <5>5 DEF Fetch, FetchDone
        <5>6. CASE FinishScan BY <5>6 DEF FinishScan
        <5>7. CASE Check BY <5>7 DEF Check
        <5>8. CASE Wakeup BY <5>8 DEF Wakeup
        <5>9. CASE UpsertRequest BY <5>9 DEF UpsertRequest
        <5>10. CASE Failure BY <5>10 DEF Failure, RemoveRequest, Restart, DiscoveryTimesOut
        <5> QED BY <5>1, <5>2, <5>3, <5>4, <5>5, <5>6, <5>7, <5>8, <5>9, <5>10
      <4> QED BY <1>1, <4>1, <4>2
    <3> QED BY <3>1, <3>2, <3>3, <3>4, <3>5, <3>6, <3>7, <3>8, <3>9
  <2>4. Deep(job.block) BY <1>1, <2>1, <2>3 DEF FoundJob, Delivers
  <2> QED BY <2>2, <2>4 DEF Deep
<1> QED BY <1>1, WatchHolds, PTL DEF Spec, ConfirmedIsDeep

=============================================================================
