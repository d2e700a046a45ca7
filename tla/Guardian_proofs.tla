--------------------------- MODULE Guardian_proofs ---------------------------
(***************************************************************************)
(* Fencing of guardian sessions, proved for any number of sessions and any *)
(* periods that satisfy FencingAssumption.  The argument: a heartbeat that *)
(* renewed the fence is durable (Beat), so whoever reads the log after the *)
(* quiet period knows that the fence was reached (Fenced), that it is      *)
(* never renewed and that every PUT sent before it is stored or gone       *)
(* (Deadline).                                                             *)
(***************************************************************************)
EXTENDS Guardian, TLAPS

\* The parts of the state that fencing depends on, with their types.
FenceTypeOK ==
  /\ now \in Nat
  /\ stage \in [Sessions -> {"off", "standby", "active", "dead"}]
  /\ fence \in [Sessions -> Nat \cup {NONE}]
  /\ step \in [Sessions -> {"idle", "scan", "committee", "limiter", "wait", "retry"}]
  /\ scan \in [Sessions -> Nat]
  /\ began \in [Sessions -> Nat]
  /\ due \in [Sessions -> Nat]
  /\ put \in [Sessions -> {"none", "sent", "stored"}]
  /\ beats \in [Sessions -> Nat \cup {NONE}]
  /\ rec = [s \in Sessions |-> rec[s]]

Alive(s) == stage[s] \in {"standby", "active"}
Writing(s) == step[s] \in {"wait", "retry"}

\* The record of s extends what sessions recover from.
Extending(s) == rec[s].type \in {"withdrawal", "update"}

\* Which phase of a session goes with which step of its lock holder.
Phase(s) ==
  /\ stage[s] = "off" => beats[s] = NONE /\ put[s] = "none" /\ fence[s] = NONE
  /\ ~ Alive(s) => step[s] = "idle"
  /\ Alive(s) /\ put[s] # "none" => Writing(s)
  /\ Writing(s) /\ Extending(s) => stage[s] = "active"
  /\ Relies(s) => fence[s] # NONE

\* A heartbeat's timestamp is not before its write began and not after what a
\* wall clock may read; the fence counts from a heartbeat that is durable.
Beat(s) ==
  /\ beats[s] # NONE => beats[s] <= now + MaxOffset
  /\ fence[s] # NONE => beats[s] # NONE /\ fence[s] <= beats[s]
  /\ beats[s] # NONE /\ Alive(s) /\ ~ Writing(s) => fence[s] # NONE
  /\ rec[s].type = "heartbeat" =>
       /\ put[s] = "sent" \/ Writing(s) => rec[s].stamp \in 0 .. now + MaxOffset
       /\ Writing(s) => began[s] <= rec[s].stamp
       /\ put[s] = "stored" /\ Alive(s) => beats[s] # NONE /\ rec[s].stamp <= beats[s]
  /\ step[s] = "scan" => /\ scan[s] <= now + MaxOffset
                         /\ beats[s] # NONE => beats[s] <= scan[s] + MaxOffset

\* An attempt's deadline is before the fence, and a PUT is gone once it is
\* later than its deadline by more than Delay.
Deadline(s) ==
  /\ step[s] = "wait" /\ fence[s] # NONE => due[s] < fence[s] + Quiet - Budget
  /\ put[s] = "sent" => now <= due[s] + Delay
  /\ put[s] = "sent" /\ Extending(s) =>
       beats[s] # NONE /\ due[s] < beats[s] + Quiet - Budget

\* The fence of s was reached.
Fenced(s) == fence[s] # NONE /\ fence[s] + Quiet - Budget <= now

\* Nothing of s can reach the log any more.
Cleared(s) ==
  /\ put[s] = "sent" => ~ Extending(s)
  /\ Relies(s) => Fenced(s)

\* Of two sessions, one that relies on the log is fenced or the other cleared.
Takeover == \A s, t \in Sessions : s # t /\ Relies(s) => Fenced(s) \/ Cleared(t)

SessionInv(s) == Phase(s) /\ Beat(s) /\ Deadline(s)

\* The inductive invariant.
FenceInv ==
  /\ FenceTypeOK
  /\ \A s \in Sessions : SessionInv(s)
  /\ Takeover

\* A step of s leaves the other sessions alone.
Frame(s) ==
  /\ now' = now
  /\ \A t \in Sessions \ {s} :
       /\ stage'[t] = stage[t] /\ fence'[t] = fence[t] /\ step'[t] = step[t]
       /\ scan'[t] = scan[t] /\ began'[t] = began[t] /\ due'[t] = due[t]
       /\ put'[t] = put[t] /\ beats'[t] = beats[t] /\ rec'[t] = rec[t]

\* A step of s does not make it rely on the log, does not renew a fence that
\* was reached, and sends a record only if it may.
Benign(s) ==
  /\ Relies(s)' => Relies(s) /\ (Fenced(s) => Fenced(s)')
  /\ put'[s] = "sent" /\ Extending(s)' =>
       \/ put[s] = "sent" /\ Extending(s)
       \/ Relies(s) /\ ~ Fenced(s)


\* What the constants are.
LEMMA Periods ==
  /\ Timeout \in Nat /\ Quiet \in Nat /\ Budget \in Nat /\ LiveMaxAge \in Nat
  /\ Hour \in Nat /\ MaxOffset \in Nat /\ Delay \in Nat
  /\ Timeout + Budget < Quiet /\ MaxOffset + Delay <= Budget
  /\ 2 * MaxOffset + LiveMaxAge <= Hour /\ Quiet <= Hour /\ Hour > 0
  /\ NONE \notin Nat
BY FencingAssumption, NoneAssumption

\* No session has done anything when the deployment starts.
LEMMA InitFence == Init => FenceInv
BY Periods DEF Init, FenceInv, FenceTypeOK, SessionInv, Phase, Beat, Deadline, Takeover,
  Cleared, Relies, Fenced, Extending, Alive, Writing

\* What a step of s leaves alone keeps its invariant.
LEMMA FrameKeeps ==
  ASSUME FenceTypeOK, NEW s \in Sessions, NEW t \in Sessions \ {s}, Frame(s), SessionInv(t)
  PROVE  SessionInv(t)'
BY DEF FenceTypeOK, Frame, SessionInv, Phase, Beat, Deadline, Relies, Extending, Alive, Writing

\* A benign step of one session keeps sessions apart.
LEMMA BenignKeeps ==
  ASSUME FenceTypeOK, Takeover, NEW s \in Sessions, Frame(s), Benign(s)
  PROVE  Takeover'
<1> SUFFICES ASSUME NEW a \in Sessions, NEW b \in Sessions, a # b, Relies(a)'
             PROVE  Fenced(a)' \/ Cleared(b)'
  BY DEF Takeover
<1>1. \A t \in Sessions \ {s} : /\ Relies(t)' <=> Relies(t)
                                /\ Fenced(t)' <=> Fenced(t)
                                /\ Cleared(t)' <=> Cleared(t)
  BY DEF Frame, Relies, Fenced, Cleared, Extending
<1>2. Relies(a) /\ (Fenced(a) => Fenced(a)')
  BY <1>1 DEF Benign
<1>3. Cleared(b) => Cleared(b)'
  <2>1. CASE b = s
    BY <2>1 DEF Benign, Cleared
  <2>2. CASE b # s
    BY <2>2, <1>1
  <2> QED BY <2>1, <2>2
<1> QED BY <1>2, <1>3 DEF Takeover

\* An attempt keeps the types, whatever it sends.
LEMMA StartWriteTypes ==
  ASSUME FenceTypeOK, NEW s \in Sessions, NEW r, StartWrite(s, r),
         UNCHANGED <<now, stage, fence, scan, beats>>
  PROVE  FenceTypeOK'
<1> USE DEF FenceTypeOK, StartWrite, Attempt
<1>1. now' \in Nat /\ now + Timeout \in Nat
  BY Periods
<1>2. step' \in [Sessions -> {"idle", "scan", "committee", "limiter", "wait", "retry"}]
  OBVIOUS
<1>3. due' \in [Sessions -> Nat] /\ began' \in [Sessions -> Nat]
  BY <1>1
<1>4. put' \in [Sessions -> {"none", "sent", "stored"}]
  OBVIOUS
<1>5. rec' = [u \in Sessions |-> rec'[u]]
  OBVIOUS
<1> QED BY <1>1, <1>2, <1>3, <1>4, <1>5

\* A session that boots has written nothing.
LEMMA BootSafe ==
  ASSUME FenceTypeOK, NEW s \in Sessions, SessionInv(s), Boot(s)
  PROVE  FenceTypeOK' /\ Frame(s) /\ SessionInv(s)' /\ Benign(s)
<1> USE Periods DEF Boot, logVars, writeVars, FenceTypeOK, SessionInv, Phase, Beat, Deadline, Relies, Extending, Alive, Writing, Fenced
<1>1. FenceTypeOK'
  OBVIOUS
<1>2. Frame(s)
  BY DEF Frame
<1>3. Phase(s)'
  OBVIOUS
<1>4. Beat(s)'
  OBVIOUS
<1>5. Deadline(s)'
  OBVIOUS
<1>6. Benign(s)
  BY DEF Benign
<1> QED BY <1>1, <1>2, <1>3, <1>4, <1>5, <1>6

\* A session that dies relies on nothing; its PUT in flight keeps its deadline.
LEMMA CrashSafe ==
  ASSUME FenceTypeOK, NEW s \in Sessions, SessionInv(s), Crash(s)
  PROVE  FenceTypeOK' /\ Frame(s) /\ SessionInv(s)' /\ Benign(s)
<1> USE Periods DEF Crash, logVars, FenceTypeOK, SessionInv, Phase, Beat, Deadline, Relies, Extending, Alive, Writing, Fenced
<1>1. FenceTypeOK'
  OBVIOUS
<1>2. Frame(s)
  BY DEF Frame
<1>3. Phase(s)'
  OBVIOUS
<1>4. Beat(s)'
  OBVIOUS
<1>5. Deadline(s)'
  OBVIOUS
<1>6. Benign(s)
  BY DEF Benign
<1> QED BY <1>1, <1>2, <1>3, <1>4, <1>5, <1>6

\* A retry is again before the fence.
LEMMA RetrySafe ==
  ASSUME FenceTypeOK, NEW s \in Sessions, SessionInv(s), Retry(s)
  PROVE  FenceTypeOK' /\ Frame(s) /\ SessionInv(s)' /\ Benign(s)
<1> USE Periods DEF Retry, Attempt, MayAttempt, logVars, serviceVars, FenceTypeOK, SessionInv, Phase, Beat, Deadline, Relies, Extending, Alive, Writing, Fenced
<1>1. FenceTypeOK'
  OBVIOUS
<1>2. Frame(s)
  BY DEF Frame
<1>3. Phase(s)'
  OBVIOUS
<1>4. Beat(s)'
  OBVIOUS
<1>5. Deadline(s)'
  OBVIOUS
<1>6. Benign(s)
  BY DEF Benign
<1> QED BY <1>1, <1>2, <1>3, <1>4, <1>5, <1>6

\* A failed attempt changes nothing that was sent.
LEMMA AttemptFailsSafe ==
  ASSUME FenceTypeOK, NEW s \in Sessions, SessionInv(s), AttemptFails(s)
  PROVE  FenceTypeOK' /\ Frame(s) /\ SessionInv(s)' /\ Benign(s)
<1> USE Periods DEF AttemptFails, logVars, serviceVars, writeVars, FenceTypeOK, SessionInv, Phase, Beat, Deadline, Relies, Extending, Alive, Writing, Fenced
<1>1. FenceTypeOK'
  OBVIOUS
<1>2. Frame(s)
  BY DEF Frame
<1>3. Phase(s)'
  OBVIOUS
<1>4. Beat(s)'
  OBVIOUS
<1>5. Deadline(s)'
  OBVIOUS
<1>6. Benign(s)
  BY DEF Benign
<1> QED BY <1>1, <1>2, <1>3, <1>4, <1>5, <1>6

\* A record that S3 stores is no longer in flight.
LEMMA LandSafe ==
  ASSUME FenceTypeOK, NEW s \in Sessions, SessionInv(s), Land(s)
  PROVE  FenceTypeOK' /\ Frame(s) /\ SessionInv(s)' /\ Benign(s)
<1> USE Periods DEF Land, logVars, serviceVars, FenceTypeOK, SessionInv, Phase, Beat, Deadline, Relies, Extending, Alive, Writing, Fenced
<1>1. FenceTypeOK'
  OBVIOUS
<1>2. Frame(s)
  BY DEF Frame
<1>3. Phase(s)'
  OBVIOUS
<1>4. Beat(s)'
  OBVIOUS
<1>5. Deadline(s)'
  OBVIOUS
<1>6. Benign(s)
  BY DEF Benign
<1> QED BY <1>1, <1>2, <1>3, <1>4, <1>5, <1>6

\* A heartbeat is stamped with the wall clock of its start.
LEMMA HeartbeatSafe ==
  ASSUME FenceTypeOK, NEW s \in Sessions, SessionInv(s), Heartbeat(s)
  PROVE  FenceTypeOK' /\ Frame(s) /\ SessionInv(s)' /\ Benign(s)
<1> USE Periods DEF Heartbeat, StartWrite, Attempt, MayAttempt, Idle, Wall, logVars, serviceVars, FenceTypeOK, SessionInv, Phase, Beat, Deadline, Relies, Extending, Alive, Writing, Fenced
<1>1. FenceTypeOK'
  <2>1. PICK r : StartWrite(s, r)
    BY ONLY Heartbeat(s) DEF Heartbeat
  <2>2. UNCHANGED <<now, stage, fence, scan, beats>>
    BY ONLY Heartbeat(s) DEF Heartbeat, logVars, serviceVars
  <2> QED BY ONLY FenceTypeOK, s \in Sessions, <2>1, <2>2, StartWriteTypes
<1>2. Frame(s)
  BY DEF Frame
<1>3. Phase(s)'
  OBVIOUS
<1>4. Beat(s)'
  OBVIOUS
<1>5. Deadline(s)'
  OBVIOUS
<1>6. Benign(s)
  BY DEF Benign
<1> QED BY <1>1, <1>2, <1>3, <1>4, <1>5, <1>6

\* A confirmed heartbeat renews the fence, never one that was reached.
LEMMA HeartbeatWrittenSafe ==
  ASSUME FenceTypeOK, NEW s \in Sessions, SessionInv(s), HeartbeatWritten(s)
  PROVE  FenceTypeOK' /\ Frame(s) /\ SessionInv(s)' /\ Benign(s)
<1> USE Periods DEF HeartbeatWritten, Written, logVars, FenceTypeOK, SessionInv, Phase, Beat, Deadline, Relies, Extending, Alive, Writing, Fenced
<1>1. FenceTypeOK'
  OBVIOUS
<1>2. Frame(s)
  BY DEF Frame
<1>3. Phase(s)'
  OBVIOUS
<1>4. Beat(s)'
  OBVIOUS
<1>5. Deadline(s)'
  OBVIOUS
<1>6. Benign(s)
  BY DEF Benign
<1> QED BY <1>1, <1>2, <1>3, <1>4, <1>5, <1>6

\* The scan starts with a reading of the wall clock.
LEMMA BeginActivationSafe ==
  ASSUME FenceTypeOK, NEW s \in Sessions, SessionInv(s), BeginActivation(s)
  PROVE  FenceTypeOK' /\ Frame(s) /\ SessionInv(s)' /\ Benign(s)
<1> USE Periods DEF BeginActivation, Idle, Wall, logVars, serviceVars, writeVars, FenceTypeOK, SessionInv, Phase, Beat, Deadline, Relies, Extending, Alive, Writing, Fenced
<1>1. FenceTypeOK'
  OBVIOUS
<1>2. Frame(s)
  BY DEF Frame
<1>3. Phase(s)'
  OBVIOUS
<1>4. Beat(s)'
  OBVIOUS
<1>5. Deadline(s)'
  OBVIOUS
<1>6. Benign(s)
  BY DEF Benign
<1> QED BY <1>1, <1>2, <1>3, <1>4, <1>5, <1>6

\* Reading the committee changes no clock and no record.
LEMMA ReadLatestCommitteeSafe ==
  ASSUME FenceTypeOK, NEW s \in Sessions, SessionInv(s), ReadLatestCommittee(s)
  PROVE  FenceTypeOK' /\ Frame(s) /\ SessionInv(s)' /\ Benign(s)
<1> USE Periods DEF ReadLatestCommittee, logVars, writeVars, FenceTypeOK, SessionInv, Phase, Beat, Deadline, Relies, Extending, Alive, Writing, Fenced
<1>1. FenceTypeOK'
  OBVIOUS
<1>2. Frame(s)
  BY DEF Frame
<1>3. Phase(s)'
  OBVIOUS
<1>4. Beat(s)'
  OBVIOUS
<1>5. Deadline(s)'
  OBVIOUS
<1>6. Benign(s)
  BY DEF Benign
<1> QED BY <1>1, <1>2, <1>3, <1>4, <1>5, <1>6

\* Recovering the limiter starts the write of OAActivated.
LEMMA RecoverLimiterSafe ==
  ASSUME FenceTypeOK, NEW s \in Sessions, SessionInv(s), RecoverLimiter(s)
  PROVE  FenceTypeOK' /\ Frame(s) /\ SessionInv(s)' /\ Benign(s)
<1> USE Periods DEF RecoverLimiter, StartWrite, Attempt, MayAttempt, logVars, FenceTypeOK, SessionInv, Phase, Beat, Deadline, Relies, Extending, Alive, Writing, Fenced
<1>1. FenceTypeOK'
  <2>1. PICK r : StartWrite(s, r)
    BY ONLY RecoverLimiter(s) DEF RecoverLimiter
  <2>2. UNCHANGED <<now, stage, fence, scan, beats>>
    BY ONLY RecoverLimiter(s) DEF RecoverLimiter, logVars
  <2> QED BY ONLY FenceTypeOK, s \in Sessions, <2>1, <2>2, StartWriteTypes
<1>2. Frame(s)
  BY DEF Frame
<1>3. Phase(s)'
  OBVIOUS
<1>4. Beat(s)'
  OBVIOUS
<1>5. Deadline(s)'
  OBVIOUS
<1>6. Benign(s)
  BY DEF Benign
<1> QED BY <1>1, <1>2, <1>3, <1>4, <1>5, <1>6

\* A refused activation relies on nothing.
LEMMA RefuseActivationSafe ==
  ASSUME FenceTypeOK, NEW s \in Sessions, SessionInv(s), RefuseActivation(s)
  PROVE  FenceTypeOK' /\ Frame(s) /\ SessionInv(s)' /\ Benign(s)
<1> USE Periods DEF RefuseActivation, logVars, writeVars, FenceTypeOK, SessionInv, Phase, Beat, Deadline, Relies, Extending, Alive, Writing, Fenced
<1>1. FenceTypeOK'
  OBVIOUS
<1>2. Frame(s)
  BY DEF Frame
<1>3. Phase(s)'
  OBVIOUS
<1>4. Beat(s)'
  OBVIOUS
<1>5. Deadline(s)'
  OBVIOUS
<1>6. Benign(s)
  BY DEF Benign
<1> QED BY <1>1, <1>2, <1>3, <1>4, <1>5, <1>6

\* An activated session relied on the log before.
LEMMA ActivatedSafe ==
  ASSUME FenceTypeOK, NEW s \in Sessions, SessionInv(s), Activated(s)
  PROVE  FenceTypeOK' /\ Frame(s) /\ SessionInv(s)' /\ Benign(s)
<1> USE Periods DEF Activated, Written, logVars, FenceTypeOK, SessionInv, Phase, Beat, Deadline, Relies, Extending, Alive, Writing, Fenced
<1>1. FenceTypeOK'
  OBVIOUS
<1>2. Frame(s)
  BY DEF Frame
<1>3. Phase(s)'
  OBVIOUS
<1>4. Beat(s)'
  OBVIOUS
<1>5. Deadline(s)'
  OBVIOUS
<1>6. Benign(s)
  BY DEF Benign
<1> QED BY <1>1, <1>2, <1>3, <1>4, <1>5, <1>6

\* Only an active session that is not fenced sends a withdrawal.
LEMMA StandardWithdrawalSafe ==
  ASSUME FenceTypeOK, NEW s \in Sessions, SessionInv(s), StandardWithdrawal(s)
  PROVE  FenceTypeOK' /\ Frame(s) /\ SessionInv(s)' /\ Benign(s)
<1> USE Periods DEF StandardWithdrawal, StartWrite, Attempt, MayAttempt, Idle, logVars, FenceTypeOK, SessionInv, Phase, Beat, Deadline, Relies, Extending, Alive, Writing, Fenced
<1>1. FenceTypeOK'
  <2>1. PICK r : StartWrite(s, r)
    BY ONLY StandardWithdrawal(s) DEF StandardWithdrawal
  <2>2. UNCHANGED <<now, stage, fence, scan, beats>>
    BY ONLY StandardWithdrawal(s) DEF StandardWithdrawal, logVars
  <2> QED BY ONLY FenceTypeOK, s \in Sessions, <2>1, <2>2, StartWriteTypes
<1>2. Frame(s)
  BY DEF Frame
<1>3. Phase(s)'
  OBVIOUS
<1>4. Beat(s)'
  OBVIOUS
<1>5. Deadline(s)'
  OBVIOUS
<1>6. Benign(s)
  BY DEF Benign
<1> QED BY <1>1, <1>2, <1>3, <1>4, <1>5, <1>6

\* A confirmed withdrawal is no longer in flight.
LEMMA WithdrawalWrittenSafe ==
  ASSUME FenceTypeOK, NEW s \in Sessions, SessionInv(s), WithdrawalWritten(s)
  PROVE  FenceTypeOK' /\ Frame(s) /\ SessionInv(s)' /\ Benign(s)
<1> USE Periods DEF WithdrawalWritten, Written, logVars, FenceTypeOK, SessionInv, Phase, Beat, Deadline, Relies, Extending, Alive, Writing, Fenced
<1>1. FenceTypeOK'
  OBVIOUS
<1>2. Frame(s)
  BY DEF Frame
<1>3. Phase(s)'
  OBVIOUS
<1>4. Beat(s)'
  OBVIOUS
<1>5. Deadline(s)'
  OBVIOUS
<1>6. Benign(s)
  BY DEF Benign
<1> QED BY <1>1, <1>2, <1>3, <1>4, <1>5, <1>6

\* Only an active session that is not fenced sends a committee update.
LEMMA UpdateCommitteeSafe ==
  ASSUME FenceTypeOK, NEW s \in Sessions, SessionInv(s), UpdateCommittee(s)
  PROVE  FenceTypeOK' /\ Frame(s) /\ SessionInv(s)' /\ Benign(s)
<1> USE Periods DEF UpdateCommittee, StartWrite, Attempt, MayAttempt, Idle, logVars, serviceVars, FenceTypeOK, SessionInv, Phase, Beat, Deadline, Relies, Extending, Alive, Writing, Fenced
<1>1. FenceTypeOK'
  <2>1. PICK r : StartWrite(s, r)
    BY ONLY UpdateCommittee(s) DEF UpdateCommittee
  <2>2. UNCHANGED <<now, stage, fence, scan, beats>>
    BY ONLY UpdateCommittee(s) DEF UpdateCommittee, logVars, serviceVars
  <2> QED BY ONLY FenceTypeOK, s \in Sessions, <2>1, <2>2, StartWriteTypes
<1>2. Frame(s)
  BY DEF Frame
<1>3. Phase(s)'
  OBVIOUS
<1>4. Beat(s)'
  OBVIOUS
<1>5. Deadline(s)'
  OBVIOUS
<1>6. Benign(s)
  BY DEF Benign
<1> QED BY <1>1, <1>2, <1>3, <1>4, <1>5, <1>6

\* A confirmed update is no longer in flight.
LEMMA CommitteeUpdatedSafe ==
  ASSUME FenceTypeOK, NEW s \in Sessions, SessionInv(s), CommitteeUpdated(s)
  PROVE  FenceTypeOK' /\ Frame(s) /\ SessionInv(s)' /\ Benign(s)
<1> USE Periods DEF CommitteeUpdated, Written, logVars, FenceTypeOK, SessionInv, Phase, Beat, Deadline, Relies, Extending, Alive, Writing, Fenced
<1>1. FenceTypeOK'
  OBVIOUS
<1>2. Frame(s)
  BY DEF Frame
<1>3. Phase(s)'
  OBVIOUS
<1>4. Beat(s)'
  OBVIOUS
<1>5. Deadline(s)'
  OBVIOUS
<1>6. Benign(s)
  BY DEF Benign
<1> QED BY <1>1, <1>2, <1>3, <1>4, <1>5, <1>6

\* The hour directories read by a scan hold every heartbeat that is not older
\* than the quiet period, if the scan ends soon after it started.
LEMMA ScanWindow ==
  ASSUME NEW b \in Nat, NEW a \in Nat, b <= a + Hour,
         b \div Hour \notin (a \div Hour) - 1 .. (a \div Hour) + 1
  PROVE  b + Hour <= a
<1> DEFINE q == b \div Hour
           p == a \div Hour
<1>1. q \in Nat /\ p \in Nat /\ Hour * q <= b /\ b < Hour * q + Hour
      /\ Hour * p <= a /\ a < Hour * p + Hour
  BY Periods
<1> HIDE DEF q, p
<1>2. q < p - 1 \/ q > p + 1
  BY <1>1 DEF q, p
<1>3. \A i, j \in Int : i <= j => Hour * i <= Hour * j
  BY Periods
<1>4. Hour * (p + 2) = Hour * p + 2 * Hour /\ Hour * (q + 2) = Hour * q + 2 * Hour
  BY <1>1, Periods
<1>5. CASE q > p + 1
  <2>1. Hour * (p + 2) <= Hour * q
    BY <1>1, <1>3, <1>5
  <2> QED BY <2>1, <1>1, <1>4, Periods
<1>6. CASE q < p - 1
  <2>1. Hour * (q + 2) <= Hour * p
    BY <1>1, <1>3, <1>6
  <2> QED BY <2>1, <1>1, <1>4, Periods
<1> QED BY <1>2, <1>5, <1>6

\* When s passes the check, the quiet period of every heartbeat of another
\* session is over, read or not.
LEMMA QuietIsOver ==
  ASSUME FenceInv, NEW s \in Sessions, CheckHeartbeats(s),
         NEW t \in Sessions \ {s}, beats[t] # NONE
  PROVE  beats[t] + Quiet <= now + MaxOffset
<1>1. beats[t] \in Nat /\ scan[s] \in Nat /\ now \in Nat
  BY Periods DEF FenceInv, FenceTypeOK
<1>2. PICK w \in Wall : SessionLive(s, w)
  BY DEF CheckHeartbeats
<1>3. beats[s] \in Nat
  BY <1>2, Periods DEF SessionLive, Scanned, FenceInv, FenceTypeOK
<1>4. now <= w /\ w \in Int /\ w <= beats[s] + LiveMaxAge
  BY <1>1, <1>2, <1>3, Periods DEF Wall, SessionLive
<1>5. scan[s] <= now + MaxOffset /\ beats[s] <= scan[s] + MaxOffset
  BY <1>3, Periods DEF CheckHeartbeats, FenceInv, SessionInv, Beat
<1>6. beats[t] <= now + MaxOffset
  BY DEF FenceInv, SessionInv, Beat
<1>7. beats[t] <= scan[s] + Hour
  BY <1>1, <1>3, <1>4, <1>5, <1>6, Periods
<1>8. beats[t] + Quiet <= scan[s]
  <2>1. CASE Scanned(s, beats[t])
    BY <2>1 DEF CheckHeartbeats, OthersQuiet
  <2>2. CASE ~ Scanned(s, beats[t])
    <3>1. beats[t] \div Hour \notin (scan[s] \div Hour) - 1 .. (scan[s] \div Hour) + 1
      BY <2>2 DEF Scanned
    <3>2. beats[t] + Hour <= scan[s]
      BY ONLY <3>1, <1>1, <1>7, ScanWindow
    <3> QED BY <3>2, <1>1, Periods
  <2> QED BY <2>1, <2>2
<1> QED BY <1>1, <1>5, <1>8, Periods

\* A session that passes the check finds all others cleared, and they it.
LEMMA CheckHeartbeatsSafe ==
  ASSUME FenceInv, NEW s \in Sessions, CheckHeartbeats(s)
  PROVE  FenceTypeOK' /\ Frame(s) /\ SessionInv(s)' /\ Takeover'
<1>1. FenceTypeOK' /\ Frame(s)
  BY DEF FenceInv, FenceTypeOK, CheckHeartbeats, Frame, serviceVars, writeVars, logVars
<1>2. fence[s] # NONE
  BY DEF CheckHeartbeats, SessionLive, Scanned, FenceInv, SessionInv, Phase, Beat, Alive, Writing
<1>3. SessionInv(s)'
  BY <1>2, Periods DEF CheckHeartbeats, FenceInv, FenceTypeOK, SessionInv, Phase, Beat, Deadline,
    Relies, Extending, Alive, Writing, serviceVars, writeVars, logVars
<1>4. ASSUME NEW t \in Sessions \ {s} PROVE Cleared(t)
  <2>1. CASE beats[t] = NONE
    BY <2>1 DEF FenceInv, SessionInv, Phase, Beat, Deadline, Cleared
  <2>2. CASE beats[t] # NONE
    <3>1. beats[t] + Quiet <= now + MaxOffset
      BY <2>2, QuietIsOver
    <3>2. beats[t] \in Nat /\ now \in Nat /\ due[t] \in Nat
      BY <2>2 DEF FenceInv, FenceTypeOK
    <3>3. put[t] = "sent" => ~ Extending(t)
      BY <3>1, <3>2, Periods DEF FenceInv, SessionInv, Deadline
    <3>4. Relies(t) => fence[t] \in Nat /\ fence[t] <= beats[t]
      BY DEF FenceInv, FenceTypeOK, SessionInv, Phase, Beat
    <3>5. Relies(t) => Fenced(t)
      BY <3>1, <3>2, <3>4, Periods DEF Fenced
    <3> QED BY <3>3, <3>5 DEF Cleared
  <2> QED BY <2>1, <2>2
<1>5. \A t \in Sessions \ {s} : /\ Relies(t)' <=> Relies(t)
                                /\ Fenced(t)' <=> Fenced(t)
                                /\ Cleared(t)' <=> Cleared(t)
  BY <1>1 DEF Frame, Relies, Fenced, Cleared, Extending
<1>6. ASSUME NEW a \in Sessions, NEW b \in Sessions, a # b, Relies(a)'
      PROVE  Fenced(a)' \/ Cleared(b)'
  <2>1. CASE a = s
    BY <2>1, <1>4, <1>5, <1>6
  <2>2. CASE a # s
    BY <2>2, <1>4, <1>5, <1>6 DEF Cleared
  <2> QED BY <2>1, <2>2
<1> QED BY <1>1, <1>3, <1>6 DEF Takeover

\* Time reaches fences and never takes one back; a PUT that is too late is lost.
LEMMA TickSafe == ASSUME FenceInv, Tick PROVE FenceInv'
<1> USE Periods DEF Tick, FenceInv, serviceVars, logVars
<1>1. FenceTypeOK'
  BY DEF FenceTypeOK
<1>2. ASSUME NEW t \in Sessions PROVE SessionInv(t)'
  <2> USE DEF FenceTypeOK, SessionInv, Phase, Beat, Deadline, Relies, Extending, Alive, Writing
  <2>1. Phase(t)'
    OBVIOUS
  <2>2. Beat(t)'
    OBVIOUS
  <2>3. Deadline(t)'
    OBVIOUS
  <2> QED BY <2>1, <2>2, <2>3
<1>3. Takeover'
  <2>1. \A t \in Sessions : /\ Relies(t)' <=> Relies(t)
                            /\ Fenced(t) => Fenced(t)'
                            /\ Cleared(t) => Cleared(t)'
    BY DEF FenceTypeOK, Relies, Fenced, Cleared, Extending
  <2> QED BY <2>1 DEF Takeover
<1> QED BY <1>1, <1>2, <1>3

\* Every step preserves the invariant.
LEMMA StepFence == FenceInv /\ [Next]_vars => FenceInv'
<1> SUFFICES ASSUME FenceInv, [Next]_vars PROVE FenceInv'
  OBVIOUS
<1>1. CASE UNCHANGED vars
  BY <1>1 DEF FenceInv, FenceTypeOK, SessionInv, Phase, Beat, Deadline, Takeover, Cleared,
    Relies, Fenced, Extending, Alive, Writing, vars, serviceVars, writeVars, logVars
<1>2. CASE Tick
  BY <1>2, TickSafe
<1>3. ASSUME NEW s \in Sessions, CheckHeartbeats(s) PROVE FenceInv'
  BY <1>3, CheckHeartbeatsSafe, FrameKeeps DEF FenceInv
<1>4. ASSUME NEW s \in Sessions, FenceTypeOK', Frame(s), SessionInv(s)', Benign(s)
      PROVE  FenceInv'
  BY <1>4, FrameKeeps, BenignKeeps DEF FenceInv
<1>5. ASSUME NEW s \in Sessions,
             \/ Boot(s) \/ Crash(s) \/ Retry(s) \/ AttemptFails(s) \/ Land(s)
             \/ Heartbeat(s) \/ HeartbeatWritten(s) \/ BeginActivation(s)
      PROVE  FenceInv'
  BY <1>4, <1>5, BootSafe, CrashSafe, RetrySafe, AttemptFailsSafe, LandSafe, HeartbeatSafe,
    HeartbeatWrittenSafe, BeginActivationSafe DEF FenceInv
<1>6. ASSUME NEW s \in Sessions,
             \/ ReadLatestCommittee(s) \/ RecoverLimiter(s) \/ RefuseActivation(s)
             \/ Activated(s) \/ StandardWithdrawal(s) \/ WithdrawalWritten(s)
             \/ UpdateCommittee(s) \/ CommitteeUpdated(s)
      PROVE  FenceInv'
  BY <1>4, <1>6, ReadLatestCommitteeSafe, RecoverLimiterSafe, RefuseActivationSafe,
    ActivatedSafe, StandardWithdrawalSafe, WithdrawalWrittenSafe, UpdateCommitteeSafe,
    CommitteeUpdatedSafe DEF FenceInv
<1> QED BY <1>1, <1>2, <1>3, <1>5, <1>6 DEF Next

\* The invariant holds in every reachable state.
THEOREM FenceInductive == Spec => []FenceInv
BY InitFence, StepFence, PTL DEF Spec

\* Of all sessions, alive or dead, only the one that relies on the log and is
\* not fenced can extend it: a failover never leaves two writers, for any
\* number of sessions, skew and late durability within the budget.
THEOREM OneWriterHolds == Spec => []OneWriter
<1>1. FenceInv => OneWriter
  <2> SUFFICES ASSUME FenceInv, NEW s \in Sessions, NEW t \in Sessions,
                      Relies(s), MayAttempt(s), MayLog(t), s # t
               PROVE  FALSE
    BY DEF OneWriter
  <2>1. \A u \in Sessions : Relies(u) /\ MayAttempt(u) => ~ Fenced(u)
    BY Periods DEF FenceInv, FenceTypeOK, MayAttempt, Fenced
  <2> QED BY <2>1 DEF FenceInv, Takeover, Cleared, MayLog, Extending
<1> QED BY FenceInductive, <1>1, PTL

-----------------------------------------------------------------------------
(***************************************************************************)
(* The log.  While a session relies on the log and is not fenced, nothing  *)
(* but its own PUT extends the log, so what it recovered stays the end of  *)
(* the log (InStep); and a PUT in flight, of a live session or a dead one, *)
(* continues the log wherever it lands (Continues).                        *)
(***************************************************************************)

\* The parts of the state that are recovered, with their types.
LogTypeOK ==
  /\ config \in [Sessions -> Configs]
  /\ limiter \in [Sessions -> LimiterStates]
  /\ committee \in [Sessions -> Nat]
  /\ rec \in [Sessions -> Records \cup {NONE}]
  /\ withdrawals \subseteq Withdrawals
  /\ updates \subseteq Updates
  /\ \A s \in Sessions : /\ Writing(s) => rec[s] \in Records
                         /\ put[s] # "none" => rec[s] \in Records
                         /\ step[s] \in {"scan", "committee", "limiter"} => stage[s] = "standby"

\* A record of s that may become durable, and a session that may send one.
Pending(s) == put[s] = "sent" /\ Extending(s)
Live(s) == Relies(s) /\ ~ Fenced(s)

Writes(s, type) == Writing(s) /\ rec[s].type = type

\* n is the next sequence number, e the epoch of the latest committee.
AtEnd(n) ==
  /\ \A w \in withdrawals : w.seq < n
  /\ n > 0 => \E w \in withdrawals : w.seq = n - 1
Latest(e) ==
  /\ \A u \in updates : u.to <= e
  /\ \A w \in withdrawals : w.by <= e
  /\ e > 0 => \E u \in updates : u.to = e

\* w spends what p left.
Covered(p, w) ==
  /\ p.seq = w.seq - 1
  /\ p.at <= w.at
  /\ w.amount + w.tokens <= p.tokens + config[w.session].rate * (w.at - p.at)

\* The log goes on with r.
Follows(r) ==
  /\ AtEnd(r.seq) /\ Latest(r.by)
  /\ r.amount + r.tokens <= config[r.session].capacity
  /\ r.seq > 0 => \E p \in withdrawals : Covered(p, r)
  /\ \A v \in withdrawals : v.hour <= r.hour + 1
Succeeds(r) == Latest(r.from) /\ r.from < r.to

Continues(s) == IF rec[s].type = "withdrawal" THEN Follows(rec[s]) ELSE Succeeds(rec[s])

\* The committee and the limiter of s are those of the end of the log.
CommitteeInStep(s) ==
  IF Writes(s, "update")
  THEN /\ rec[s].from = committee[s]
       /\ IF put[s] = "stored" THEN Latest(rec[s].to) ELSE Succeeds(rec[s])
  ELSE Latest(committee[s])
LimiterInStep(s) ==
  IF Writes(s, "withdrawal")
  THEN /\ limiter[s] = [tokens |-> rec[s].tokens, at |-> rec[s].at, seq |-> rec[s].seq + 1]
       /\ IF put[s] = "stored" THEN rec[s] \in withdrawals /\ AtEnd(rec[s].seq + 1)
                               ELSE Follows(rec[s])
  ELSE /\ AtEnd(limiter[s].seq)
       /\ \A p \in withdrawals : p.seq = limiter[s].seq - 1 =>
            p.at = limiter[s].at /\ limiter[s].tokens <= p.tokens

InStep(s) ==
  /\ stage[s] = "active" \/ step[s] = "limiter" \/ Writes(s, "activated") => CommitteeInStep(s)
  /\ stage[s] = "active" \/ Writes(s, "activated") => LimiterInStep(s)

\* Hour directories: none is later than the clocks, and one is the latest.
HourBound == (now + MaxOffset) \div Hour
Hours ==
  /\ \A w \in withdrawals : w.hour <= HourBound
  /\ \A s \in Sessions : put[s] = "sent" \/ Writing(s) =>
       (rec[s].type = "withdrawal" => rec[s].hour <= HourBound)
  /\ withdrawals # {} => \E m \in withdrawals : \A w \in withdrawals : w.hour <= m.hour
  /\ \A v, w \in withdrawals : v.seq < w.seq => v.hour <= w.hour + 1

History ==
  /\ \E n \in Nat : AtEnd(n)
  /\ \E e \in Nat : Latest(e)
  /\ LimiterChain /\ CommitteeChain
  /\ released \subseteq withdrawals

Sole == \A s, t \in Sessions : Pending(s) /\ Pending(t) => s = t

LogInv ==
  /\ LogTypeOK /\ Hours /\ History /\ Sole
  /\ \A s \in Sessions : /\ Pending(s) => Continues(s)
                         /\ Live(s) => InStep(s)
                         /\ Writes(s, "withdrawal") /\ put[s] = "stored" => rec[s] \in withdrawals

\* While s relies on the log unfenced no other session does, and no record of
\* another session is in flight.
LEMMA Alone ==
  ASSUME FenceInv, NEW s \in Sessions, NEW t \in Sessions, s # t, Live(s)
  PROVE  ~ Pending(t) /\ ~ Live(t)
BY DEF FenceInv, Takeover, Cleared, Live, Pending

\* What is said of the log depends on the log only.
LEMMA SameLog ==
  ASSUME UNCHANGED <<withdrawals, updates, config>>
  PROVE  /\ \A n : AtEnd(n)' = AtEnd(n)
         /\ \A e : Latest(e)' = Latest(e)
         /\ \A r : Follows(r)' = Follows(r)
         /\ \A r : Succeeds(r)' = Succeeds(r)
         /\ LimiterChain' = LimiterChain /\ CommitteeChain' = CommitteeChain
<1>1. \A n : AtEnd(n)' = AtEnd(n) BY DEF AtEnd
<1>2. \A e : Latest(e)' = Latest(e) BY DEF Latest
<1>3. \A p, w : Covered(p, w)' = Covered(p, w) BY DEF Covered
<1>4. \A r : Follows(r)' = Follows(r) BY <1>1, <1>2, <1>3 DEF Follows
<1>5. \A r : Succeeds(r)' = Succeeds(r) BY <1>2 DEF Succeeds
<1>6. LimiterChain' = LimiterChain /\ CommitteeChain' = CommitteeChain
  BY DEF LimiterChain, CommitteeChain
<1> QED BY <1>1, <1>2, <1>4, <1>5, <1>6

\* A step of s that writes nothing to the log.
LEMMA QuietKeeps ==
  ASSUME FenceInv, LogInv, NEW s \in Sessions, Frame(s), LogTypeOK',
         UNCHANGED <<withdrawals, updates, config>>,
         \A t \in Sessions \ {s} : limiter'[t] = limiter[t] /\ committee'[t] = committee[t],
         released' \subseteq withdrawals,
         Pending(s)' => Continues(s)' /\ (Pending(s) \/ Live(s)),
         Live(s)' => InStep(s)',
         (Writes(s, "withdrawal") /\ put[s] = "stored" => rec[s] \in withdrawals)',
         (put[s] = "sent" \/ Writing(s) => (rec[s].type = "withdrawal" => rec[s].hour <= HourBound))'
  PROVE  LogInv'
<1>1. /\ LogTypeOK /\ Hours /\ History /\ Sole
      /\ \A t \in Sessions : /\ Pending(t) => Continues(t)
                             /\ Live(t) => InStep(t)
                             /\ Writes(t, "withdrawal") /\ put[t] = "stored" => rec[t] \in withdrawals
  BY DEF LogInv
<1>2. now' = now /\ HourBound' = HourBound BY DEF Frame, HourBound
<1>3. \A t \in Sessions \ {s} :
        /\ stage'[t] = stage[t] /\ fence'[t] = fence[t] /\ step'[t] = step[t]
        /\ put'[t] = put[t] /\ rec'[t] = rec[t]
  BY DEF Frame
<1>4. \A t \in Sessions \ {s} :
        /\ Pending(t)' = Pending(t) /\ Live(t)' = Live(t) /\ Writing(t)' = Writing(t)
        /\ \A k : Writes(t, k)' = Writes(t, k)
  BY <1>2, <1>3 DEF Pending, Live, Writes, Writing, Extending, Relies, Fenced
<1>5. \A t \in Sessions \ {s} : Continues(t)' = Continues(t)
  BY <1>3, SameLog DEF Continues
<1>6. \A t \in Sessions \ {s} : InStep(t)' = InStep(t)
  <2> SUFFICES ASSUME NEW t \in Sessions \ {s} PROVE InStep(t)' = InStep(t) OBVIOUS
  <2>1. CommitteeInStep(t)' = CommitteeInStep(t)
    BY <1>3, <1>4, SameLog DEF CommitteeInStep
  <2>2. LimiterInStep(t)' = LimiterInStep(t)
    BY <1>3, <1>4, SameLog DEF LimiterInStep
  <2> QED BY <1>3, <1>4, <2>1, <2>2 DEF InStep
<1>7. Hours' BY <1>1, <1>2, <1>3, <1>4 DEF Hours
<1>8. History' BY <1>1, SameLog DEF History
<1>9. Sole'
  <2> SUFFICES ASSUME NEW t \in Sessions \ {s}, Pending(s)', Pending(t)' PROVE FALSE
    BY <1>1, <1>4 DEF Sole
  <2>1. Pending(t) /\ (Pending(s) \/ Live(s)) BY <1>4
  <2> QED BY <1>1, <2>1, Alone DEF Sole
<1>10. ASSUME NEW t \in Sessions
       PROVE  /\ Pending(t)' => Continues(t)'
              /\ Live(t)' => InStep(t)'
              /\ (Writes(t, "withdrawal") /\ put[t] = "stored" => rec[t] \in withdrawals)'
  <2>1. CASE t = s BY <2>1
  <2>2. CASE t # s BY <1>1, <1>3, <1>4, <1>5, <1>6, <2>2
  <2> QED BY <2>1, <2>2
<1> QED BY <1>7, <1>8, <1>9, <1>10 DEF LogInv

\* Records are told apart by their type.
LEMMA RecordKinds ==
  ASSUME NEW r \in Records
  PROVE  /\ r.type \in {"withdrawal", "update", "heartbeat", "activated"}
         /\ r.type = "withdrawal" => r \in Withdrawals
         /\ r.type = "update" => r \in Updates
BY DEF Records, Withdrawals, Updates

\* A session that boots has recovered nothing yet.
LEMMA BootLog == ASSUME FenceInv, LogInv, NEW s \in Sessions, Boot(s) PROVE LogInv'
<1>1. Frame(s) /\ Benign(s) /\ SessionInv(s) /\ FenceTypeOK BY BootSafe DEF FenceInv
<1>2. /\ stage[s] = "off" /\ stage' = [stage EXCEPT ![s] = "standby"]
      /\ UNCHANGED <<config, limiter, committee, fence, step, rec, put, withdrawals, updates, released>>
  BY DEF Boot, writeVars, logVars
<1>3. LogTypeOK /\ released \subseteq withdrawals BY DEF LogInv, History
<1>4. put[s] = "none" /\ step[s] = "idle" /\ stage'[s] = "standby"
  BY <1>1, <1>2 DEF SessionInv, Phase, Alive, FenceTypeOK
<1>5. LogTypeOK' BY <1>2, <1>3, <1>4 DEF LogTypeOK, Writing
<1>6. ~ Pending(s)' /\ ~ Live(s)' /\ ~ Writing(s)' /\ put'[s] = "none"
  BY <1>2, <1>4 DEF Pending, Live, Relies, Writing
<1> QED BY <1>1, <1>2, <1>3, <1>5, <1>6, QuietKeeps DEF Writes

\* A session that dies stops relying on the log; its PUT in flight still
\* continues it.
LEMMA CrashLog == ASSUME FenceInv, LogInv, NEW s \in Sessions, Crash(s) PROVE LogInv'
<1>1. Frame(s) /\ Benign(s) /\ SessionInv(s) /\ FenceTypeOK BY CrashSafe DEF FenceInv
<1>2. /\ stage' = [stage EXCEPT ![s] = "dead"]
      /\ limiter' = [limiter EXCEPT ![s] = Genesis(config[s])]
      /\ committee' = [committee EXCEPT ![s] = 0]
      /\ step' = [step EXCEPT ![s] = "idle"]
      /\ IF put[s] = "sent" THEN UNCHANGED <<rec, put>>
         ELSE rec' = [rec EXCEPT ![s] = NONE] /\ put' = [put EXCEPT ![s] = "none"]
      /\ UNCHANGED <<config, withdrawals, updates, released>>
  BY DEF Crash, logVars
<1>3. LogTypeOK /\ released \subseteq withdrawals /\ Hours /\ (Pending(s) => Continues(s))
  BY DEF LogInv, History
<1>4. Genesis(config[s]) \in LimiterStates
  BY <1>3, ConfigsAssumption DEF LogTypeOK, Genesis, LimiterStates
<1>5. LogTypeOK' BY <1>1, <1>2, <1>3, <1>4 DEF LogTypeOK, Writing, FenceTypeOK
<1>6. ~ Live(s)' /\ ~ Writing(s)' BY <1>1, <1>2 DEF Live, Relies, Writing, FenceTypeOK
<1>7. put'[s] = "sent" => put[s] = "sent" /\ rec' = rec BY <1>1, <1>2 DEF FenceTypeOK
<1>8. Pending(s)' => Pending(s) /\ Continues(s)'
  <2>1. Pending(s)' => Pending(s) /\ rec' = rec BY <1>7 DEF Pending, Extending
  <2>2. rec' = rec => Continues(s)' = Continues(s) BY <1>2, SameLog DEF Continues
  <2> QED BY <1>3, <2>1, <2>2
<1>9. (put[s] = "sent" \/ Writing(s) => (rec[s].type = "withdrawal" => rec[s].hour <= HourBound))'
  BY <1>1, <1>3, <1>6, <1>7 DEF Hours, HourBound, Frame
<1>10. \A t \in Sessions \ {s} : limiter'[t] = limiter[t] /\ committee'[t] = committee[t]
  BY <1>2, <1>3 DEF LogTypeOK
<1> QED BY <1>1, <1>2, <1>3, <1>5, <1>6, <1>8, <1>9, <1>10, QuietKeeps DEF Writes

\* A failed attempt changes neither the record nor the log.
LEMMA AttemptFailsLog == ASSUME FenceInv, LogInv, NEW s \in Sessions, AttemptFails(s) PROVE LogInv'
<1>1. Frame(s) /\ Benign(s) /\ SessionInv(s) /\ FenceTypeOK BY AttemptFailsSafe DEF FenceInv
<1>2. /\ step[s] = "wait" /\ step' = [step EXCEPT ![s] = "retry"]
      /\ UNCHANGED <<stage, config, limiter, committee, fence, rec, put, withdrawals, updates, released>>
  BY DEF AttemptFails, writeVars, logVars, serviceVars
<1>3. /\ LogTypeOK /\ released \subseteq withdrawals /\ Hours
      /\ Pending(s) => Continues(s)
      /\ Live(s) => InStep(s)
      /\ Writes(s, "withdrawal") /\ put[s] = "stored" => rec[s] \in withdrawals
  BY DEF LogInv, History
<1>4. step'[s] = "retry" /\ \A t \in Sessions \ {s} : step'[t] = step[t] BY <1>1, <1>2 DEF FenceTypeOK
<1>5. LogTypeOK' BY <1>2, <1>3, <1>4 DEF LogTypeOK, Writing
<1>6. Writing(s)' /\ Writing(s) /\ Pending(s)' = Pending(s) /\ \A k : Writes(s, k)' = Writes(s, k)
  BY <1>2, <1>4 DEF Writing, Pending, Extending, Writes
<1>7. Live(s)' => InStep(s)'
  <2>1. Live(s)' => Live(s) BY <1>1 DEF Benign, Live
  <2>2. CommitteeInStep(s)' = CommitteeInStep(s) BY <1>2, <1>6, SameLog DEF CommitteeInStep
  <2>3. LimiterInStep(s)' = LimiterInStep(s) BY <1>2, <1>6, SameLog DEF LimiterInStep
  <2>4. InStep(s) => InStep(s)' BY <1>2, <1>4, <1>6, <2>2, <2>3 DEF InStep
  <2> QED BY <1>3, <2>1, <2>4
<1>8. Continues(s)' = Continues(s) BY <1>2, SameLog DEF Continues
<1>9. (put[s] = "sent" \/ Writing(s) => (rec[s].type = "withdrawal" => rec[s].hour <= HourBound))'
  BY <1>1, <1>2, <1>3, <1>6 DEF Hours, HourBound, Frame
<1> QED BY <1>1, <1>2, <1>3, <1>5, <1>6, <1>7, <1>8, <1>9, QuietKeeps

\* An attempt is made before the fence.
LEMMA AttemptUnfenced ==
  ASSUME FenceTypeOK, NEW s \in Sessions, MayAttempt(s), SessionInv(s)
  PROVE  ~ Fenced(s)
BY Periods DEF FenceTypeOK, MayAttempt, Fenced

\* A retry sends the same record again, which continues the log as before.
LEMMA RetryLog == ASSUME FenceInv, LogInv, NEW s \in Sessions, Retry(s) PROVE LogInv'
<1>1. Frame(s) /\ Benign(s) /\ SessionInv(s) /\ FenceTypeOK BY RetrySafe DEF FenceInv
<1>2. /\ step[s] = "retry" /\ step' = [step EXCEPT ![s] = "wait"] /\ MayAttempt(s)
      /\ rec' = [rec EXCEPT ![s] = rec[s]]
      /\ put' = [put EXCEPT ![s] = IF @ = "stored" THEN @ ELSE "sent"]
      /\ UNCHANGED <<stage, config, limiter, committee, fence, withdrawals, updates, released>>
  BY DEF Retry, Attempt, logVars, serviceVars
<1>3. /\ LogTypeOK /\ released \subseteq withdrawals /\ Hours
      /\ Live(s) => InStep(s)
      /\ Writes(s, "withdrawal") /\ put[s] = "stored" => rec[s] \in withdrawals
  BY DEF LogInv, History
<1>4. /\ step'[s] = "wait" /\ rec'[s] = rec[s] /\ rec' = rec
      /\ \A t \in Sessions \ {s} : step'[t] = step[t] /\ put'[t] = put[t]
      /\ put'[s] = IF put[s] = "stored" THEN "stored" ELSE "sent"
  BY <1>1, <1>2 DEF FenceTypeOK
<1>5. LogTypeOK' BY <1>2, <1>3, <1>4 DEF LogTypeOK, Writing
<1>6. Writing(s)' /\ Writing(s) /\ \A k : Writes(s, k)' = Writes(s, k)
  BY <1>2, <1>4 DEF Writing, Writes
<1>7. put'[s] = "stored" <=> put[s] = "stored" BY <1>4
<1>8. Live(s)' => InStep(s)'
  <2>1. Live(s)' => Live(s) BY <1>1 DEF Benign, Live
  <2>2. CommitteeInStep(s)' = CommitteeInStep(s)
    <3>1. /\ Latest(rec[s].to)' = Latest(rec[s].to) /\ Succeeds(rec[s])' = Succeeds(rec[s])
          /\ Latest(committee[s])' = Latest(committee[s])
      BY <1>2, <1>4, SameLog
    <3>2. Writes(s, "update")' = Writes(s, "update") BY <1>6
    <3> QED BY <1>2, <1>4, <1>7, <3>1, <3>2 DEF CommitteeInStep
  <2>3. LimiterInStep(s)' = LimiterInStep(s) BY <1>2, <1>4, <1>6, <1>7, SameLog DEF LimiterInStep
  <2>4. InStep(s) => InStep(s)' BY <1>2, <1>4, <1>6, <2>2, <2>3 DEF InStep
  <2> QED BY <1>3, <2>1, <2>4
<1>9. Pending(s)' => Live(s) /\ Continues(s)'
  <2> SUFFICES ASSUME Pending(s)' PROVE Live(s) /\ Continues(s)' OBVIOUS
  <2>1. Extending(s) /\ put[s] # "stored" BY <1>4 DEF Pending, Extending
  <2>2. stage[s] = "active" BY <1>1, <1>6, <2>1 DEF SessionInv, Phase
  <2>3. Live(s) BY <1>1, <1>2, <2>2, AttemptUnfenced DEF Live, Relies
  <2>4. CommitteeInStep(s) /\ LimiterInStep(s) BY <1>3, <2>2, <2>3 DEF InStep
  <2>5. Continues(s)
    BY <1>6, <2>1, <2>4 DEF Extending, Writes, CommitteeInStep, LimiterInStep, Continues
  <2>6. Continues(s)' = Continues(s) BY <1>2, <1>4, SameLog DEF Continues
  <2> QED BY <2>3, <2>5, <2>6
<1>10. (put[s] = "sent" \/ Writing(s) => (rec[s].type = "withdrawal" => rec[s].hour <= HourBound))'
  BY <1>1, <1>3, <1>4, <1>6 DEF Hours, HourBound, Frame
<1>11. (Writes(s, "withdrawal") /\ put[s] = "stored" => rec[s] \in withdrawals)'
  BY <1>2, <1>3, <1>4, <1>6, <1>7
<1> QED BY <1>1, <1>2, <1>3, <1>5, <1>8, <1>9, <1>10, <1>11, QuietKeeps

\* Other records than those of the log leave a session in step.
LEMMA OtherRecords ==
  ASSUME UNCHANGED <<withdrawals, updates, config>>, NEW s \in Sessions,
         limiter'[s] = limiter[s], committee'[s] = committee[s],
         ~ Writes(s, "update"), ~ Writes(s, "withdrawal"),
         ~ Writes(s, "update")', ~ Writes(s, "withdrawal")'
  PROVE  CommitteeInStep(s)' = CommitteeInStep(s) /\ LimiterInStep(s)' = LimiterInStep(s)
<1>1. Latest(committee[s])' = Latest(committee[s]) BY SameLog
<1>2. AtEnd(limiter[s].seq)' = AtEnd(limiter[s].seq) BY SameLog
<1>3. CommitteeInStep(s)' = CommitteeInStep(s) BY <1>1 DEF CommitteeInStep
<1>4. LimiterInStep(s)' = LimiterInStep(s) BY <1>2 DEF LimiterInStep
<1> QED BY <1>3, <1>4

\* A heartbeat extends nothing that is recovered.
LEMMA HeartbeatLog == ASSUME FenceInv, LogInv, NEW s \in Sessions, Heartbeat(s) PROVE LogInv'
<1>1. Frame(s) /\ Benign(s) /\ SessionInv(s) /\ FenceTypeOK BY HeartbeatSafe DEF FenceInv
<1>2. PICK w \in Wall : StartWrite(s, [type |-> "heartbeat", stamp |-> w]) BY DEF Heartbeat
<1> DEFINE r == [type |-> "heartbeat", stamp |-> w]
<1>3. /\ stage[s] \in {"standby", "active"} /\ step[s] = "idle"
      /\ step' = [step EXCEPT ![s] = "wait"] /\ rec' = [rec EXCEPT ![s] = r]
      /\ put' = [put EXCEPT ![s] = IF @ = "stored" THEN @ ELSE "sent"]
      /\ UNCHANGED <<stage, config, limiter, committee, fence, withdrawals, updates, released>>
  BY <1>2 DEF Heartbeat, Idle, StartWrite, Attempt, logVars, serviceVars
<1>4. /\ LogTypeOK /\ released \subseteq withdrawals /\ (Live(s) => InStep(s)) BY DEF LogInv, History
<1>5. r \in Records /\ r.type = "heartbeat" BY <1>1, Periods DEF Wall, Records, FenceTypeOK
<1> HIDE DEF r
<1>6. /\ step'[s] = "wait" /\ rec'[s] = r
      /\ \A t \in Sessions \ {s} : step'[t] = step[t] /\ put'[t] = put[t] /\ rec'[t] = rec[t]
  BY <1>1, <1>3, <1>4 DEF FenceTypeOK, LogTypeOK
<1>7. LogTypeOK'
  <2>1. rec' \in [Sessions -> Records \cup {NONE}] BY <1>3, <1>4, <1>5 DEF LogTypeOK
  <2> QED BY <1>3, <1>4, <1>5, <1>6, <2>1 DEF LogTypeOK, Writing
<1>8. rec'[s].type = "heartbeat" /\ ~ Pending(s)' BY <1>5, <1>6 DEF Pending, Extending
<1>9. Live(s)' => InStep(s)'
  <2>1. Live(s)' => Live(s) BY <1>1 DEF Benign, Live
  <2>2. /\ ~ Writes(s, "update") /\ ~ Writes(s, "withdrawal")
        /\ ~ Writes(s, "update")' /\ ~ Writes(s, "withdrawal")' /\ ~ Writes(s, "activated")'
    BY <1>3, <1>8 DEF Writes, Writing
  <2>3. CommitteeInStep(s)' = CommitteeInStep(s) /\ LimiterInStep(s)' = LimiterInStep(s)
    BY <1>3, <2>2, OtherRecords
  <2>4. InStep(s) => InStep(s)' BY <1>3, <1>6, <2>2, <2>3 DEF InStep
  <2> QED BY <1>4, <2>1, <2>4
<1> QED BY <1>1, <1>3, <1>4, <1>7, <1>8, <1>9, QuietKeeps DEF Writes

\* A write that returned: the session is between records.
LEMMA WrittenEffect ==
  ASSUME FenceInv, LogInv, NEW s \in Sessions, NEW k, Written(s, k),
         stage' \in [Sessions -> {"off", "standby", "active", "dead"}],
         \A t \in Sessions \ {s} : stage'[t] = stage[t],
         committee' \in [Sessions -> Nat]
  PROVE  /\ Writes(s, k) /\ put[s] = "stored" /\ step[s] = "wait"
         /\ UNCHANGED <<config, limiter, withdrawals, updates>>
         /\ step'[s] = "idle" /\ put'[s] = "none" /\ rec'[s] = NONE /\ ~ Writing(s)'
         /\ LogTypeOK'
<1>1. FenceTypeOK /\ LogTypeOK BY DEF FenceInv, LogInv
<1>2. /\ step[s] = "wait" /\ rec[s].type = k /\ put[s] = "stored"
      /\ step' = [step EXCEPT ![s] = "idle"] /\ rec' = [rec EXCEPT ![s] = NONE]
      /\ put' = [put EXCEPT ![s] = "none"]
      /\ UNCHANGED <<config, limiter, withdrawals, updates>>
  BY DEF Written, logVars
<1>3. /\ step'[s] = "idle" /\ put'[s] = "none" /\ rec'[s] = NONE
      /\ \A t \in Sessions \ {s} : step'[t] = step[t] /\ put'[t] = put[t] /\ rec'[t] = rec[t]
      /\ rec' \in [Sessions -> Records \cup {NONE}]
  BY <1>1, <1>2 DEF FenceTypeOK, LogTypeOK
<1>4. LogTypeOK' BY <1>1, <1>2, <1>3 DEF LogTypeOK, Writing
<1> QED BY <1>2, <1>3, <1>4 DEF Writes, Writing

\* A durable heartbeat renews the fence of a session that stays in step.
LEMMA HeartbeatWrittenLog ==
  ASSUME FenceInv, LogInv, NEW s \in Sessions, HeartbeatWritten(s) PROVE LogInv'
<1>1. Frame(s) /\ Benign(s) /\ SessionInv(s) /\ FenceTypeOK BY HeartbeatWrittenSafe DEF FenceInv
<1>2. Written(s, "heartbeat") /\ UNCHANGED <<stage, committee, released>> BY DEF HeartbeatWritten
<1>3. LogTypeOK /\ released \subseteq withdrawals /\ (Live(s) => InStep(s)) BY DEF LogInv, History
<1>4. stage' \in [Sessions -> {"off", "standby", "active", "dead"}] /\ committee' \in [Sessions -> Nat]
  BY <1>1, <1>2, <1>3 DEF FenceTypeOK, LogTypeOK
<1>5. /\ Writes(s, "heartbeat") /\ step[s] = "wait"
      /\ UNCHANGED <<config, limiter, withdrawals, updates>>
      /\ step'[s] = "idle" /\ put'[s] = "none" /\ ~ Writing(s)' /\ LogTypeOK'
  BY <1>2, <1>4, WrittenEffect
<1>6. Live(s)' => InStep(s)'
  <2>1. Live(s)' => Live(s) BY <1>1 DEF Benign, Live
  <2>2. /\ ~ Writes(s, "update") /\ ~ Writes(s, "withdrawal")
        /\ ~ Writes(s, "update")' /\ ~ Writes(s, "withdrawal")' /\ ~ Writes(s, "activated")'
    BY <1>5 DEF Writes
  <2>3. CommitteeInStep(s)' = CommitteeInStep(s) /\ LimiterInStep(s)' = LimiterInStep(s)
    BY <1>2, <1>5, <2>2, OtherRecords
  <2>4. InStep(s) => InStep(s)' BY <1>2, <1>5, <2>2, <2>3 DEF InStep
  <2> QED BY <1>3, <2>1, <2>4
<1>7. ~ Pending(s)' BY <1>5 DEF Pending
<1> QED BY <1>1, <1>2, <1>3, <1>5, <1>6, <1>7, QuietKeeps DEF Writes

\* A session enters service with what it recovered.
LEMMA ActivatedLog == ASSUME FenceInv, LogInv, NEW s \in Sessions, Activated(s) PROVE LogInv'
<1>1. Frame(s) /\ Benign(s) /\ SessionInv(s) /\ FenceTypeOK BY ActivatedSafe DEF FenceInv
<1>2. Written(s, "activated") /\ stage' = [stage EXCEPT ![s] = "active"] /\ UNCHANGED <<committee, released>>
  BY DEF Activated
<1>3. LogTypeOK /\ released \subseteq withdrawals /\ (Live(s) => InStep(s)) BY DEF LogInv, History
<1>4. stage' \in [Sessions -> {"off", "standby", "active", "dead"}] /\ committee' \in [Sessions -> Nat]
      /\ \A t \in Sessions \ {s} : stage'[t] = stage[t]
  BY <1>1, <1>2, <1>3 DEF FenceTypeOK, LogTypeOK
<1>5. /\ Writes(s, "activated") /\ step[s] = "wait"
      /\ UNCHANGED <<config, limiter, withdrawals, updates>>
      /\ step'[s] = "idle" /\ put'[s] = "none" /\ ~ Writing(s)' /\ LogTypeOK'
  BY <1>2, <1>4, WrittenEffect
<1>6. Live(s)' => InStep(s)'
  <2>1. Live(s)' => Live(s) BY <1>1 DEF Benign, Live
  <2>2. /\ ~ Writes(s, "update") /\ ~ Writes(s, "withdrawal")
        /\ ~ Writes(s, "update")' /\ ~ Writes(s, "withdrawal")' /\ ~ Writes(s, "activated")'
    BY <1>5 DEF Writes
  <2>3. CommitteeInStep(s)' = CommitteeInStep(s) /\ LimiterInStep(s)' = LimiterInStep(s)
    BY <1>2, <1>5, <2>2, OtherRecords
  <2>4. InStep(s) => InStep(s)' BY <1>5, <2>3 DEF InStep
  <2> QED BY <1>3, <2>1, <2>4
<1>7. ~ Pending(s)' BY <1>5 DEF Pending
<1> QED BY <1>1, <1>2, <1>3, <1>5, <1>6, <1>7, QuietKeeps DEF Writes

\* The committee is replaced by the one of the update that is durable.
LEMMA CommitteeUpdatedLog ==
  ASSUME FenceInv, LogInv, NEW s \in Sessions, CommitteeUpdated(s) PROVE LogInv'
<1>1. Frame(s) /\ Benign(s) /\ SessionInv(s) /\ FenceTypeOK BY CommitteeUpdatedSafe DEF FenceInv
<1>2. /\ Written(s, "update") /\ committee' = [committee EXCEPT ![s] = rec[s].to]
      /\ UNCHANGED <<stage, released>>
  BY DEF CommitteeUpdated
<1>3. LogTypeOK /\ released \subseteq withdrawals /\ (Live(s) => InStep(s)) BY DEF LogInv, History
<1>4. step[s] = "wait" /\ rec[s].type = "update" BY <1>2 DEF Written
<1>5. rec[s] \in Updates /\ rec[s].to \in Nat
  BY <1>3, <1>4, RecordKinds DEF LogTypeOK, Writing, Updates
<1>6. stage' \in [Sessions -> {"off", "standby", "active", "dead"}] /\ committee' \in [Sessions -> Nat]
      /\ committee'[s] = rec[s].to /\ \A t \in Sessions \ {s} : committee'[t] = committee[t]
  BY <1>1, <1>2, <1>3, <1>5 DEF FenceTypeOK, LogTypeOK
<1>7. /\ Writes(s, "update") /\ put[s] = "stored"
      /\ UNCHANGED <<config, limiter, withdrawals, updates>>
      /\ step'[s] = "idle" /\ put'[s] = "none" /\ ~ Writing(s)' /\ LogTypeOK'
  BY <1>2, <1>6, WrittenEffect
<1>8. stage[s] = "active" BY <1>1, <1>4 DEF SessionInv, Phase, Writing, Extending
<1>9. Live(s)' => InStep(s)'
  <2> SUFFICES ASSUME Live(s)' PROVE InStep(s)' OBVIOUS
  <2>1. Live(s) BY <1>1 DEF Benign, Live
  <2>2. CommitteeInStep(s) /\ LimiterInStep(s) BY <1>3, <1>8, <2>1 DEF InStep
  <2>3. Latest(rec[s].to) BY <1>7, <2>2 DEF CommitteeInStep
  <2>4. \A e : Latest(e) => Latest(e)' BY <1>7, SameLog
  <2>5. Latest(committee[s])' BY <1>6, <2>3, <2>4
  <2>6. /\ ~ Writes(s, "withdrawal") /\ ~ Writes(s, "update")' /\ ~ Writes(s, "withdrawal")'
    BY <1>7 DEF Writes
  <2>7. CommitteeInStep(s)' BY <2>5, <2>6 DEF CommitteeInStep
  <2>8. LimiterInStep(s)'
    <3>1. AtEnd(limiter[s].seq)' = AtEnd(limiter[s].seq) BY <1>7, SameLog
    <3> QED BY <1>7, <2>2, <2>6, <3>1 DEF LimiterInStep
  <2> QED BY <2>7, <2>8 DEF InStep
<1>10. ~ Pending(s)' BY <1>7 DEF Pending
<1> QED BY <1>1, <1>2, <1>3, <1>6, <1>7, <1>9, <1>10, QuietKeeps DEF Writes

\* Signatures are returned for a withdrawal that is durable.
LEMMA WithdrawalWrittenLog ==
  ASSUME FenceInv, LogInv, NEW s \in Sessions, WithdrawalWritten(s) PROVE LogInv'
<1>1. Frame(s) /\ Benign(s) /\ SessionInv(s) /\ FenceTypeOK BY WithdrawalWrittenSafe DEF FenceInv
<1>2. /\ Written(s, "withdrawal") /\ released' = released \cup {rec[s]}
      /\ UNCHANGED <<stage, committee>>
  BY DEF WithdrawalWritten
<1>3. LogTypeOK /\ released \subseteq withdrawals /\ (Live(s) => InStep(s)) /\ LimiterChain
  BY DEF LogInv, History
<1>4. stage' \in [Sessions -> {"off", "standby", "active", "dead"}] /\ committee' \in [Sessions -> Nat]
  BY <1>1, <1>2, <1>3 DEF FenceTypeOK, LogTypeOK
<1>5. /\ Writes(s, "withdrawal") /\ put[s] = "stored" /\ step[s] = "wait"
      /\ UNCHANGED <<config, limiter, withdrawals, updates>>
      /\ step'[s] = "idle" /\ put'[s] = "none" /\ ~ Writing(s)' /\ LogTypeOK'
  BY <1>2, <1>4, WrittenEffect
<1>6. rec[s] \in withdrawals BY <1>5 DEF LogInv
<1>7. stage[s] = "active" BY <1>1, <1>5 DEF SessionInv, Phase, Writes, Extending
<1>8. Live(s)' => InStep(s)'
  <2> SUFFICES ASSUME Live(s)' PROVE InStep(s)' OBVIOUS
  <2>1. Live(s) BY <1>1 DEF Benign, Live
  <2>2. CommitteeInStep(s) /\ LimiterInStep(s) BY <1>3, <1>7, <2>1 DEF InStep
  <2>3. /\ ~ Writes(s, "update") /\ ~ Writes(s, "update")' /\ ~ Writes(s, "withdrawal")'
    BY <1>5 DEF Writes
  <2>4. CommitteeInStep(s)'
    <3>1. Latest(committee[s])' = Latest(committee[s]) BY <1>2, <1>5, SameLog
    <3> QED BY <2>2, <2>3, <3>1 DEF CommitteeInStep
  <2>5. LimiterInStep(s)'
    <3>1. /\ limiter[s] = [tokens |-> rec[s].tokens, at |-> rec[s].at, seq |-> rec[s].seq + 1]
          /\ AtEnd(rec[s].seq + 1)
      BY <1>5, <2>2 DEF LimiterInStep
    <3>2. limiter[s].seq = rec[s].seq + 1 /\ limiter[s].at = rec[s].at /\ limiter[s].tokens = rec[s].tokens
      BY <3>1
    <3>3. AtEnd(limiter[s].seq)' BY <1>5, <3>1, <3>2, SameLog
    <3>4. rec[s].seq \in Nat /\ rec[s].tokens \in Nat BY <1>3, <1>6 DEF LogTypeOK, Withdrawals
    <3>5. \A p \in withdrawals : p.seq = limiter[s].seq - 1 => p = rec[s]
      BY <1>3, <1>6, <3>2, <3>4 DEF LimiterChain
    <3>6. \A p \in withdrawals : p.seq = limiter[s].seq - 1 =>
            p.at = limiter[s].at /\ limiter[s].tokens <= p.tokens
      BY <3>2, <3>4, <3>5
    <3> QED BY <1>5, <2>3, <3>3, <3>6 DEF LimiterInStep
  <2> QED BY <2>4, <2>5 DEF InStep
<1>9. ~ Pending(s)' BY <1>5 DEF Pending
<1> QED BY <1>1, <1>2, <1>3, <1>5, <1>6, <1>8, <1>9, QuietKeeps DEF Writes

\* A scan that begins relies on nothing yet.
LEMMA BeginActivationLog ==
  ASSUME FenceInv, LogInv, NEW s \in Sessions, BeginActivation(s) PROVE LogInv'
<1>1. Frame(s) /\ Benign(s) /\ SessionInv(s) /\ FenceTypeOK BY BeginActivationSafe DEF FenceInv
<1>2. /\ stage[s] = "standby" /\ step[s] = "idle" /\ step' = [step EXCEPT ![s] = "scan"]
      /\ UNCHANGED <<stage, config, limiter, committee, fence, rec, put, withdrawals, updates, released>>
  BY DEF BeginActivation, Idle, writeVars, logVars, serviceVars
<1>3. LogTypeOK /\ released \subseteq withdrawals /\ Hours BY DEF LogInv, History
<1>4. step'[s] = "scan" /\ \A t \in Sessions \ {s} : step'[t] = step[t] BY <1>1, <1>2 DEF FenceTypeOK
<1>5. LogTypeOK' BY <1>2, <1>3, <1>4 DEF LogTypeOK, Writing
<1>6. put[s] = "none" BY <1>1, <1>2 DEF SessionInv, Phase, Alive, Writing, FenceTypeOK
<1>7. ~ Pending(s)' /\ ~ Live(s)' /\ ~ Writing(s)' /\ put'[s] = "none"
  BY <1>2, <1>4, <1>6 DEF Pending, Live, Relies, Writing
<1> QED BY <1>1, <1>2, <1>3, <1>5, <1>7, QuietKeeps DEF Writes

\* A session that passes the check has read neither committee nor limiter.
LEMMA CheckHeartbeatsLog ==
  ASSUME FenceInv, LogInv, NEW s \in Sessions, CheckHeartbeats(s) PROVE LogInv'
<1>1. Frame(s) /\ SessionInv(s) /\ FenceTypeOK BY CheckHeartbeatsSafe DEF FenceInv
<1>2. /\ step[s] = "scan" /\ step' = [step EXCEPT ![s] = "committee"]
      /\ UNCHANGED <<stage, config, limiter, committee, fence, rec, put, withdrawals, updates, released>>
  BY DEF CheckHeartbeats, writeVars, logVars, serviceVars
<1>3. LogTypeOK /\ released \subseteq withdrawals /\ Hours BY DEF LogInv, History
<1>4. step'[s] = "committee" /\ \A t \in Sessions \ {s} : step'[t] = step[t] BY <1>1, <1>2 DEF FenceTypeOK
<1>5. stage[s] = "standby" BY <1>2, <1>3 DEF LogTypeOK
<1>6. LogTypeOK' BY <1>2, <1>3, <1>4, <1>5 DEF LogTypeOK, Writing
<1>7. put[s] = "none" BY <1>1, <1>2, <1>5 DEF SessionInv, Phase, Alive, Writing, FenceTypeOK
<1>8. ~ Pending(s)' /\ ~ Writing(s)' /\ put'[s] = "none" BY <1>2, <1>4, <1>7 DEF Pending, Writing
<1>9. InStep(s)' BY <1>2, <1>4, <1>5, <1>8 DEF InStep, Writes
<1> QED BY <1>1, <1>2, <1>3, <1>6, <1>8, <1>9, QuietKeeps DEF Writes

\* A refused activation leaves the session in standby.
LEMMA RefuseActivationLog ==
  ASSUME FenceInv, LogInv, NEW s \in Sessions, RefuseActivation(s) PROVE LogInv'
<1>1. Frame(s) /\ Benign(s) /\ SessionInv(s) /\ FenceTypeOK BY RefuseActivationSafe DEF FenceInv
<1>2. /\ step[s] \in {"scan", "committee", "limiter"} /\ step' = [step EXCEPT ![s] = "idle"]
      /\ committee' = [committee EXCEPT ![s] = 0]
      /\ UNCHANGED <<stage, config, limiter, fence, rec, put, withdrawals, updates, released>>
  BY DEF RefuseActivation, writeVars, logVars
<1>3. LogTypeOK /\ released \subseteq withdrawals BY DEF LogInv, History
<1>4. /\ step'[s] = "idle" /\ \A t \in Sessions \ {s} : step'[t] = step[t] /\ committee'[t] = committee[t]
      /\ committee' \in [Sessions -> Nat]
  BY <1>1, <1>2, <1>3 DEF FenceTypeOK, LogTypeOK
<1>5. stage[s] = "standby" BY <1>2, <1>3 DEF LogTypeOK
<1>6. LogTypeOK' BY <1>2, <1>3, <1>4 DEF LogTypeOK, Writing
<1>7. put[s] = "none" BY <1>1, <1>2, <1>5 DEF SessionInv, Phase, Alive, Writing, FenceTypeOK
<1>8. ~ Pending(s)' /\ ~ Live(s)' /\ ~ Writing(s)' /\ put'[s] = "none"
  BY <1>2, <1>4, <1>5, <1>7 DEF Pending, Live, Relies, Writing
<1> QED BY <1>1, <1>2, <1>3, <1>4, <1>6, <1>8, QuietKeeps DEF Writes

\* The committee that is read is the latest one of the log.
LEMMA LatestRead == ASSUME LogInv PROVE LatestCommittee \in Nat /\ Latest(LatestCommittee)
<1>1. PICK e \in Nat : Latest(e) BY DEF LogInv, History
<1>2. LogTypeOK BY DEF LogInv
<1> DEFINE S == {0} \cup {u.to : u \in updates}
<1>3. S \subseteq Nat BY <1>2 DEF LogTypeOK, Updates
<1>4. e \in S /\ \A x \in S : x <= e BY <1>1 DEF Latest
<1>5. LatestCommittee = CHOOSE x \in S : \A y \in S : x >= y BY DEF LatestCommittee, Max
<1> HIDE DEF S
<1>6. LatestCommittee \in S /\ \A y \in S : LatestCommittee >= y BY <1>3, <1>4, <1>5
<1>7. LatestCommittee = e BY <1>3, <1>4, <1>6
<1> QED BY <1>1, <1>7

\* The committee is read while nobody else can extend the log.
LEMMA ReadLatestCommitteeLog ==
  ASSUME FenceInv, LogInv, NEW s \in Sessions, ReadLatestCommittee(s) PROVE LogInv'
<1>1. Frame(s) /\ Benign(s) /\ SessionInv(s) /\ FenceTypeOK BY ReadLatestCommitteeSafe DEF FenceInv
<1>2. /\ step[s] = "committee" /\ step' = [step EXCEPT ![s] = "limiter"]
      /\ committee' = [committee EXCEPT ![s] = LatestCommittee]
      /\ UNCHANGED <<stage, config, limiter, fence, rec, put, withdrawals, updates, released>>
  BY DEF ReadLatestCommittee, writeVars, logVars
<1>3. LogTypeOK /\ released \subseteq withdrawals BY DEF LogInv, History
<1>4. /\ step'[s] = "limiter" /\ \A t \in Sessions \ {s} : step'[t] = step[t] /\ committee'[t] = committee[t]
      /\ committee' \in [Sessions -> Nat] /\ committee'[s] = LatestCommittee
  BY <1>1, <1>2, <1>3, LatestRead DEF FenceTypeOK, LogTypeOK
<1>5. stage[s] = "standby" BY <1>2, <1>3 DEF LogTypeOK
<1>6. LogTypeOK' BY <1>2, <1>3, <1>4, <1>5 DEF LogTypeOK, Writing
<1>7. put[s] = "none" BY <1>1, <1>2, <1>5 DEF SessionInv, Phase, Alive, Writing, FenceTypeOK
<1>8. ~ Pending(s)' /\ ~ Writing(s)' /\ put'[s] = "none" BY <1>2, <1>4, <1>7 DEF Pending, Writing
<1>9. InStep(s)'
  <2>1. \A e : Latest(e) => Latest(e)' BY <1>2, SameLog
  <2>2. Latest(committee[s])' BY <1>4, <2>1, LatestRead
  <2>3. CommitteeInStep(s)' BY <1>8, <2>2 DEF CommitteeInStep, Writes
  <2> QED BY <1>2, <1>5, <1>8, <2>3 DEF InStep, Writes
<1> QED BY <1>1, <1>2, <1>3, <1>4, <1>6, <1>8, <1>9, QuietKeeps DEF Writes

\* The lesser of two numbers.
LEMMA MinOfTwo == ASSUME NEW a \in Int, NEW b \in Int
                  PROVE  Min({a, b}) \in {a, b} /\ Min({a, b}) <= a /\ Min({a, b}) <= b
<1>1. \E x \in {a, b} : \A y \in {a, b} : x =< y
  <2>1. CASE a <= b BY <2>1
  <2>2. CASE b <= a BY <2>2
  <2> QED BY <2>1, <2>2
<1>2. Min({a, b}) \in {a, b} /\ \A y \in {a, b} : Min({a, b}) =< y BY <1>1 DEF Min
<1> QED BY <1>2

\* The record with the greatest sequence number is in one of the two latest
\* hour directories, so the limiter is recovered from the end of the log.
LEMMA RecoveredAtEnd ==
  ASSUME LogInv, NEW c \in [capacity : Nat, rate : Nat], NEW l, l = RecoveredState(c)
  PROVE  /\ l \in LimiterStates /\ AtEnd(l.seq)
         /\ \A p \in withdrawals : p.seq = l.seq - 1 => p.at = l.at /\ l.tokens <= p.tokens
<1>1. LogTypeOK /\ Hours /\ LimiterChain /\ withdrawals \subseteq Withdrawals
  BY DEF LogInv, History, LogTypeOK
<1>2. CASE withdrawals = {}
  <2>1. l = [tokens |-> c.capacity, at |-> 0, seq |-> 0] BY <1>2 DEF RecoveredState, Genesis
  <2>2. l \in LimiterStates /\ l.seq = 0 BY <2>1 DEF LimiterStates
  <2>3. AtEnd(0) BY <1>2 DEF AtEnd
  <2> QED BY <1>2, <2>2, <2>3
<1>3. CASE withdrawals # {}
  <2>1. PICK n \in Nat : AtEnd(n) BY DEF LogInv, History
  <2>2. \A w \in withdrawals : w.seq \in Nat /\ w.hour \in Nat /\ w.tokens \in Nat /\ w.at \in Nat
    BY <1>1 DEF Withdrawals
  <2>3. n > 0 BY <1>3, <2>1, <2>2 DEF AtEnd
  <2>4. PICK top \in withdrawals : top.seq = n - 1 BY <2>1, <2>3 DEF AtEnd
  <2>5. PICK m \in withdrawals : \A w \in withdrawals : w.hour <= m.hour BY <1>1, <1>3 DEF Hours
  <2> DEFINE S == {w.hour : w \in withdrawals}
  <2>6. Max(S) = m.hour
    <3>1. m.hour \in S /\ \A x \in S : x <= m.hour /\ x \in Nat BY <2>2, <2>5
    <3>2. Max(S) \in S /\ \A y \in S : Max(S) >= y
      <4> HIDE DEF S
      <4> QED BY <3>1 DEF Max
    <3> HIDE DEF S
    <3> QED BY <3>1, <3>2
  <2>7. RecentWithdrawals = {w \in withdrawals : w.hour \in {m.hour, m.hour - 1}}
    BY <2>6 DEF RecentWithdrawals
  <2>8. top \in RecentWithdrawals
    <3>1. m.seq < n BY <2>1 DEF AtEnd
    <3>2. m.hour <= top.hour + 1
      <4>1. CASE m.seq < top.seq BY <1>1, <4>1 DEF Hours
      <4>2. CASE m.seq = top.seq
        <5>1. m = top BY <1>1, <4>2 DEF LimiterChain
        <5> QED BY <2>2, <5>1
      <4> QED BY <2>2, <2>4, <3>1, <4>1, <4>2
    <3> QED BY <2>2, <2>5, <2>7, <3>2
  <2> DEFINE last == CHOOSE w \in RecentWithdrawals : \A v \in RecentWithdrawals : v.seq <= w.seq
  <2>9. \A v \in RecentWithdrawals : v.seq <= top.seq /\ v \in withdrawals
    BY <2>1, <2>2, <2>4, <2>7 DEF AtEnd
  <2>10. last \in RecentWithdrawals /\ \A v \in RecentWithdrawals : v.seq <= last.seq
    BY <2>8, <2>9
  <2>11. l = [tokens |-> Min({last.tokens, c.capacity}), at |-> last.at, seq |-> last.seq + 1]
    BY <1>3 DEF RecoveredState
  <2> HIDE DEF last
  <2>12. last \in withdrawals /\ last.seq = n - 1 BY <2>2, <2>4, <2>8, <2>9, <2>10
  <2>13. Min({last.tokens, c.capacity}) \in Nat /\ Min({last.tokens, c.capacity}) <= last.tokens
    <3> DEFINE a == last.tokens
    <3> DEFINE b == c.capacity
    <3>1. a \in Nat /\ b \in Nat BY <2>2, <2>12
    <3> HIDE DEF a, b
    <3>2. Min({a, b}) \in {a, b} /\ Min({a, b}) <= a BY <3>1, MinOfTwo
    <3>3. Min({a, b}) \in Nat /\ Min({a, b}) <= a BY <3>1, <3>2
    <3> QED BY <3>3 DEF a, b
  <2>14. l \in LimiterStates /\ l.seq = n /\ l.at = last.at /\ l.tokens <= last.tokens
    BY <2>2, <2>3, <2>11, <2>12, <2>13 DEF LimiterStates
  <2>15. \A p \in withdrawals : p.seq = n - 1 => p = last BY <1>1, <2>12 DEF LimiterChain
  <2> QED BY <2>1, <2>14, <2>15
<1> QED BY <1>2, <1>3

\* A record is written by a session between records, before its fence.
LEMMA StartEffect ==
  ASSUME FenceInv, LogInv, NEW s \in Sessions, NEW r \in Records, StartWrite(s, r),
         Alive(s), ~ Writing(s), UNCHANGED <<stage, config, committee, withdrawals, updates>>,
         limiter' \in [Sessions -> LimiterStates]
  PROVE  /\ step'[s] = "wait" /\ rec'[s] = r /\ put'[s] = "sent" /\ Writing(s)'
         /\ ~ Fenced(s) /\ LogTypeOK'
<1>1. FenceTypeOK /\ LogTypeOK /\ SessionInv(s) BY DEF FenceInv, LogInv
<1>2. /\ MayAttempt(s)
      /\ step' = [step EXCEPT ![s] = "wait"] /\ rec' = [rec EXCEPT ![s] = r]
      /\ put' = [put EXCEPT ![s] = IF @ = "stored" THEN @ ELSE "sent"]
  BY DEF StartWrite, Attempt
<1>3. put[s] = "none" BY <1>1 DEF SessionInv, Phase
<1>4. /\ step'[s] = "wait" /\ rec'[s] = r /\ put'[s] = "sent"
      /\ \A t \in Sessions \ {s} : step'[t] = step[t] /\ put'[t] = put[t] /\ rec'[t] = rec[t]
      /\ rec' \in [Sessions -> Records \cup {NONE}]
  BY <1>1, <1>2, <1>3 DEF FenceTypeOK, LogTypeOK
<1>5. LogTypeOK' BY <1>1, <1>4 DEF LogTypeOK, Writing
<1> QED BY <1>1, <1>2, <1>4, <1>5, AttemptUnfenced DEF Writing

\* What activation recovers is the end of the log.
LEMMA RecoverLimiterLog ==
  ASSUME FenceInv, LogInv, NEW s \in Sessions, RecoverLimiter(s) PROVE LogInv'
<1>1. Frame(s) /\ Benign(s) /\ SessionInv(s) /\ FenceTypeOK BY RecoverLimiterSafe DEF FenceInv
<1> DEFINE r == [type |-> "activated"]
<1> DEFINE l == RecoveredState(config[s])
<1>2. /\ step[s] = "limiter" /\ StartWrite(s, r) /\ limiter' = [limiter EXCEPT ![s] = l]
      /\ UNCHANGED <<stage, config, committee, fence, withdrawals, updates, released>>
  BY DEF RecoverLimiter, logVars
<1>3. LogTypeOK /\ released \subseteq withdrawals /\ (Live(s) => InStep(s)) BY DEF LogInv, History
<1>4. r \in Records /\ r.type = "activated" BY DEF Records
<1>5. config[s] \in [capacity : Nat, rate : Nat] BY <1>3, ConfigsAssumption DEF LogTypeOK
<1>6. /\ l \in LimiterStates /\ AtEnd(l.seq)
      /\ \A p \in withdrawals : p.seq = l.seq - 1 => p.at = l.at /\ l.tokens <= p.tokens
  BY <1>5, RecoveredAtEnd
<1> HIDE DEF r, l
<1>7. stage[s] = "standby" /\ Alive(s) /\ ~ Writing(s) BY <1>2, <1>3 DEF LogTypeOK, Alive, Writing
<1>8. /\ limiter' \in [Sessions -> LimiterStates] /\ limiter'[s] = l
      /\ \A t \in Sessions \ {s} : limiter'[t] = limiter[t]
  BY <1>2, <1>3, <1>6 DEF LogTypeOK
<1>9. /\ step'[s] = "wait" /\ rec'[s] = r /\ put'[s] = "sent" /\ Writing(s)' /\ LogTypeOK'
  BY <1>2, <1>4, <1>7, <1>8, StartEffect
<1>10. rec'[s].type = "activated" /\ ~ Pending(s)' /\ ~ Writes(s, "withdrawal")' /\ ~ Writes(s, "update")'
  BY <1>4, <1>9 DEF Pending, Extending, Writes
<1>11. Live(s)' => InStep(s)'
  <2> SUFFICES ASSUME Live(s)' PROVE InStep(s)' OBVIOUS
  <2>1. Live(s) BY <1>1 DEF Benign, Live
  <2>2. CommitteeInStep(s) BY <1>2, <1>3, <2>1 DEF InStep
  <2>3. Latest(committee[s]) BY <1>7, <2>2 DEF CommitteeInStep, Writes
  <2>4. Latest(committee[s])' = Latest(committee[s]) BY <1>2, SameLog
  <2>5. CommitteeInStep(s)' BY <1>10, <2>3, <2>4 DEF CommitteeInStep
  <2>6. \A n : AtEnd(n) => AtEnd(n)' BY <1>2, SameLog
  <2>7. AtEnd(limiter[s].seq)' BY <1>6, <1>8, <2>6
  <2>8. LimiterInStep(s)' BY <1>2, <1>6, <1>8, <1>10, <2>7 DEF LimiterInStep
  <2> QED BY <2>5, <2>8 DEF InStep
<1> QED BY <1>1, <1>2, <1>3, <1>8, <1>9, <1>10, <1>11, QuietKeeps DEF Writes

\* An update is written by the session that is in step with the log.
LEMMA UpdateCommitteeLog ==
  ASSUME FenceInv, LogInv, NEW s \in Sessions, UpdateCommittee(s) PROVE LogInv'
<1>1. Frame(s) /\ Benign(s) /\ SessionInv(s) /\ FenceTypeOK BY UpdateCommitteeSafe DEF FenceInv
<1>2. PICK e \in committee[s] + 1 .. MaxEpoch :
        StartWrite(s, [type |-> "update", from |-> committee[s], to |-> e])
  BY DEF UpdateCommittee
<1> DEFINE r == [type |-> "update", from |-> committee[s], to |-> e]
<1>3. /\ stage[s] = "active" /\ step[s] = "idle" /\ StartWrite(s, r)
      /\ UNCHANGED <<stage, config, limiter, committee, fence, withdrawals, updates, released>>
  BY <1>2 DEF UpdateCommittee, Idle, logVars, serviceVars
<1>4. LogTypeOK /\ released \subseteq withdrawals /\ (Live(s) => InStep(s)) BY DEF LogInv, History
<1>5. committee[s] \in Nat /\ limiter' \in [Sessions -> LimiterStates] BY <1>3, <1>4 DEF LogTypeOK
<1>6. e \in Nat /\ committee[s] < e BY <1>5, FencingAssumption
<1>7. /\ r \in Records /\ r.type = "update" /\ r.from = committee[s] /\ r.to = e
  BY <1>5, <1>6 DEF Records, Updates
<1> HIDE DEF r
<1>8. Alive(s) /\ ~ Writing(s) BY <1>3 DEF Alive, Writing
<1>9. /\ step'[s] = "wait" /\ rec'[s] = r /\ put'[s] = "sent" /\ Writing(s)' /\ LogTypeOK'
      /\ ~ Fenced(s)
  BY <1>3, <1>5, <1>7, <1>8, StartEffect
<1>10. rec'[s].type = "update" /\ ~ Writes(s, "withdrawal")' /\ Writes(s, "update")'
  BY <1>7, <1>9 DEF Writes
<1>11. Live(s) /\ CommitteeInStep(s) /\ LimiterInStep(s)
  BY <1>3, <1>4, <1>9 DEF Live, Relies, InStep
<1>12. Succeeds(r)
  <2>1. Latest(committee[s]) BY <1>8, <1>11 DEF CommitteeInStep, Writes
  <2> QED BY <1>6, <1>7, <2>1 DEF Succeeds
<1>13. Succeeds(rec[s])'
  <2>1. \A x : Succeeds(x) => Succeeds(x)' BY <1>3, SameLog
  <2> QED BY <1>9, <1>12, <2>1
<1>14. Continues(s)' BY <1>10, <1>13 DEF Continues
<1>15. InStep(s)'
  <2>1. CommitteeInStep(s)' BY <1>3, <1>7, <1>9, <1>10, <1>13 DEF CommitteeInStep
  <2>2. AtEnd(limiter[s].seq)' = AtEnd(limiter[s].seq) BY <1>3, SameLog
  <2>3. LimiterInStep(s)' BY <1>3, <1>8, <1>10, <1>11, <2>2 DEF LimiterInStep, Writes
  <2> QED BY <2>1, <2>3 DEF InStep
<1> QED BY <1>1, <1>3, <1>4, <1>9, <1>10, <1>11, <1>14, <1>15, QuietKeeps

\* Times that are at most an hour apart are in the same or in adjacent hours.
LEMMA HourSteps ==
  ASSUME NEW a \in Nat, NEW b \in Nat, a <= b, b <= a + Hour
  PROVE  /\ a \div Hour \in Nat /\ b \div Hour \in Nat
         /\ a \div Hour <= b \div Hour /\ b \div Hour <= (a \div Hour) + 1
<1> DEFINE q == b \div Hour
           p == a \div Hour
<1>1. q \in Nat /\ p \in Nat /\ Hour * q <= b /\ b < Hour * q + Hour
      /\ Hour * p <= a /\ a < Hour * p + Hour
  BY Periods
<1> HIDE DEF q, p
<1>2. \A i, j \in Int : i <= j => Hour * i <= Hour * j
  BY Periods
<1>3. Hour * (p + 2) = Hour * p + 2 * Hour /\ Hour * (q + 1) = Hour * q + Hour
  BY <1>1, Periods
<1>4. p <= q
  <2> SUFFICES ASSUME q + 1 <= p PROVE FALSE BY <1>1
  <2>1. Hour * (q + 1) <= Hour * p BY <1>1, <1>2
  <2> QED BY <2>1, <1>1, <1>3, Periods
<1>5. q <= p + 1
  <2> SUFFICES ASSUME p + 2 <= q PROVE FALSE BY <1>1
  <2>1. Hour * (p + 2) <= Hour * q BY <1>1, <1>2
  <2> QED BY <2>1, <1>1, <1>3, Periods
<1> QED BY <1>1, <1>4, <1>5 DEF q, p

\* The capacity at a time is within the configuration and the refill.
LEMMA CapacityBound ==
  ASSUME LogTypeOK, NEW s \in Sessions, NEW at \in Nat, limiter[s].at <= at
  PROVE  /\ CapacityAt(s, at) \in Int /\ CapacityAt(s, at) <= config[s].capacity
         /\ config[s].rate * (at - limiter[s].at) \in Nat
         /\ CapacityAt(s, at) <= limiter[s].tokens + config[s].rate * (at - limiter[s].at)
<1>1. /\ config[s].capacity \in Nat /\ config[s].rate \in Nat
      /\ limiter[s].tokens \in Nat /\ limiter[s].at \in Nat
  BY ConfigsAssumption DEF LogTypeOK, LimiterStates
<1> DEFINE x == config[s].rate
           y == at - limiter[s].at
<1>2. x \in Nat /\ y \in Nat BY <1>1
<1> HIDE DEF x, y
<1>3. x * y \in Nat BY <1>2
<1> DEFINE a == config[s].capacity
           b == limiter[s].tokens + x * y
<1>4. a \in Int /\ b \in Int BY <1>1, <1>3
<1>5. CapacityAt(s, at) = Min({a, b}) BY DEF CapacityAt, x, y
<1> HIDE DEF a, b
<1>6. Min({a, b}) \in {a, b} /\ Min({a, b}) <= a /\ Min({a, b}) <= b BY <1>4, MinOfTwo
<1>7. CapacityAt(s, at) \in Int /\ CapacityAt(s, at) <= a /\ CapacityAt(s, at) <= b BY <1>4, <1>5, <1>6
<1> QED BY <1>3, <1>7 DEF a, b, x, y

\* A withdrawal is written by the session that is in step with the log, and
\* spends what the last one left.
LEMMA StandardWithdrawalLog ==
  ASSUME FenceInv, LogInv, NEW s \in Sessions, StandardWithdrawal(s) PROVE LogInv'
<1>1. Frame(s) /\ Benign(s) /\ SessionInv(s) /\ FenceTypeOK BY StandardWithdrawalSafe DEF FenceInv
<1>2. /\ stage[s] = "active" /\ step[s] = "idle"
      /\ UNCHANGED <<stage, config, committee, fence, withdrawals, updates, released>>
  BY DEF StandardWithdrawal, Idle, logVars
<1>3. PICK w \in Wall, v \in Wall : \E at \in w - ReqAge .. w + ReqSkew :
        /\ at >= limiter[s].at
        /\ \E amount \in 1 .. CapacityAt(s, at) :
             LET left == CapacityAt(s, at) - amount IN
             /\ limiter' = [limiter EXCEPT ![s] = [tokens |-> left, at |-> at, seq |-> @.seq + 1]]
             /\ StartWrite(s, [type |-> "withdrawal", session |-> s,
                               seq |-> limiter[s].seq, at |-> at, amount |-> amount,
                               tokens |-> left, by |-> committee[s], hour |-> v \div Hour])
  BY DEF StandardWithdrawal
<1>4. PICK at \in w - ReqAge .. w + ReqSkew :
        /\ at >= limiter[s].at
        /\ \E amount \in 1 .. CapacityAt(s, at) :
             LET left == CapacityAt(s, at) - amount IN
             /\ limiter' = [limiter EXCEPT ![s] = [tokens |-> left, at |-> at, seq |-> @.seq + 1]]
             /\ StartWrite(s, [type |-> "withdrawal", session |-> s,
                               seq |-> limiter[s].seq, at |-> at, amount |-> amount,
                               tokens |-> left, by |-> committee[s], hour |-> v \div Hour])
  BY <1>3
<1>5. PICK amount \in 1 .. CapacityAt(s, at) :
        /\ limiter' = [limiter EXCEPT ![s] =
             [tokens |-> CapacityAt(s, at) - amount, at |-> at, seq |-> limiter[s].seq + 1]]
        /\ StartWrite(s, [type |-> "withdrawal", session |-> s,
                          seq |-> limiter[s].seq, at |-> at, amount |-> amount,
                          tokens |-> CapacityAt(s, at) - amount, by |-> committee[s],
                          hour |-> v \div Hour])
  BY <1>4
<1> DEFINE left == CapacityAt(s, at) - amount
<1> DEFINE hour == v \div Hour
<1>6. LogTypeOK /\ released \subseteq withdrawals /\ (Live(s) => InStep(s)) /\ Hours
  BY DEF LogInv, History
<1>7. /\ limiter[s].seq \in Nat /\ limiter[s].at \in Nat /\ limiter[s].tokens \in Nat /\ committee[s] \in Nat
      /\ \A p \in withdrawals : p.at \in Nat /\ p.tokens \in Nat /\ p.hour \in Nat
  BY <1>6 DEF LogTypeOK, LimiterStates, Withdrawals
<1>8. at \in Nat
  <2>1. w \in Int /\ ReqAge \in Int /\ ReqSkew \in Int
    BY <1>1, Periods, FencingAssumption DEF Wall, FenceTypeOK
  <2>2. at \in Int BY <1>4, <2>1
  <2> QED BY <1>4, <1>7, <2>2
<1>9. /\ CapacityAt(s, at) \in Int /\ CapacityAt(s, at) <= config[s].capacity
      /\ config[s].rate * (at - limiter[s].at) \in Nat
      /\ CapacityAt(s, at) <= limiter[s].tokens + config[s].rate * (at - limiter[s].at)
  BY <1>4, <1>6, <1>8, CapacityBound
<1>10. amount \in Nat /\ left \in Nat /\ amount + left = CapacityAt(s, at) BY <1>5, <1>9
<1>11. hour \in Nat /\ hour <= HourBound /\ HourBound \in Nat /\ HourBound <= hour + 1
  <2>1. v \in Nat /\ now + MaxOffset \in Nat /\ v <= now + MaxOffset /\ now + MaxOffset <= v + Hour
    BY <1>1, Periods DEF Wall, FenceTypeOK
  <2> QED BY <2>1, HourSteps DEF HourBound
<1> DEFINE r == [type |-> "withdrawal", session |-> s, seq |-> limiter[s].seq, at |-> at,
                 amount |-> amount, tokens |-> left, by |-> committee[s], hour |-> hour]
<1>12. StartWrite(s, r) BY <1>5
<1> HIDE DEF left, hour
<1>13. /\ r \in Withdrawals /\ r.type = "withdrawal" /\ r.session = s /\ r.seq = limiter[s].seq
       /\ r.at = at /\ r.amount = amount /\ r.tokens = left /\ r.by = committee[s] /\ r.hour = hour
  BY <1>7, <1>8, <1>10, <1>11 DEF Withdrawals
<1> HIDE DEF r
<1>14. r \in Records BY <1>13 DEF Records
<1>15. limiter' = [limiter EXCEPT ![s] = [tokens |-> left, at |-> at, seq |-> limiter[s].seq + 1]]
  BY <1>5 DEF left
<1>16. /\ limiter' \in [Sessions -> LimiterStates] /\ \A t \in Sessions \ {s} : limiter'[t] = limiter[t]
       /\ limiter'[s] = [tokens |-> left, at |-> at, seq |-> limiter[s].seq + 1]
  <2>1. [tokens |-> left, at |-> at, seq |-> limiter[s].seq + 1] \in LimiterStates
    BY <1>7, <1>8, <1>10 DEF LimiterStates
  <2> QED BY <1>6, <1>15, <2>1 DEF LogTypeOK
<1>17. Alive(s) /\ ~ Writing(s) BY <1>2 DEF Alive, Writing
<1>18. /\ step'[s] = "wait" /\ rec'[s] = r /\ put'[s] = "sent" /\ Writing(s)' /\ LogTypeOK'
       /\ ~ Fenced(s)
  BY <1>2, <1>12, <1>14, <1>16, <1>17, StartEffect
<1>19. rec'[s].type = "withdrawal" /\ Writes(s, "withdrawal")' /\ ~ Writes(s, "update")'
  BY <1>13, <1>18 DEF Writes
<1>20. Live(s) /\ CommitteeInStep(s) /\ LimiterInStep(s)
  BY <1>2, <1>6, <1>18 DEF Live, Relies, InStep
<1>21. Latest(committee[s]) BY <1>17, <1>20 DEF CommitteeInStep, Writes
<1>22. /\ AtEnd(limiter[s].seq)
       /\ \A p \in withdrawals : p.seq = limiter[s].seq - 1 =>
            p.at = limiter[s].at /\ limiter[s].tokens <= p.tokens
  BY <1>17, <1>20 DEF LimiterInStep, Writes
<1>23. Follows(r)
  <2>1. AtEnd(r.seq) /\ Latest(r.by) BY <1>13, <1>21, <1>22
  <2>2. r.amount + r.tokens <= config[r.session].capacity BY <1>9, <1>10, <1>13
  <2>3. r.seq > 0 => \E p \in withdrawals : Covered(p, r)
    <3> SUFFICES ASSUME r.seq > 0 PROVE \E p \in withdrawals : Covered(p, r) OBVIOUS
    <3>1. PICK p \in withdrawals : p.seq = limiter[s].seq - 1 BY <1>13, <1>22 DEF AtEnd
    <3>2. p.at = limiter[s].at /\ limiter[s].tokens <= p.tokens BY <1>22, <3>1
    <3>3. CapacityAt(s, at) <= p.tokens + config[s].rate * (at - limiter[s].at)
      <4> DEFINE x == config[s].rate * (at - limiter[s].at)
      <4>1. x \in Nat /\ CapacityAt(s, at) <= limiter[s].tokens + x BY <1>9
      <4> HIDE DEF x
      <4>2. CapacityAt(s, at) <= p.tokens + x BY <1>7, <1>9, <3>2, <4>1
      <4> QED BY <4>2 DEF x
    <3>4. r.amount + r.tokens <= p.tokens + config[r.session].rate * (r.at - p.at)
      BY <1>10, <1>13, <3>2, <3>3
    <3> QED BY <1>4, <1>13, <3>1, <3>2, <3>4 DEF Covered
  <2>4. \A x \in withdrawals : x.hour <= r.hour + 1 BY <1>6, <1>7, <1>11, <1>13 DEF Hours
  <2> QED BY <2>1, <2>2, <2>3, <2>4 DEF Follows
<1>24. Follows(rec[s])'
  <2>1. \A x : Follows(x) => Follows(x)' BY <1>2, SameLog
  <2> QED BY <1>18, <1>23, <2>1
<1>25. Continues(s)' BY <1>19, <1>24 DEF Continues
<1>26. InStep(s)'
  <2>1. Latest(committee[s])' = Latest(committee[s]) BY <1>2, SameLog
  <2>2. CommitteeInStep(s)' BY <1>19, <1>21, <2>1 DEF CommitteeInStep
  <2>3. LimiterInStep(s)' BY <1>13, <1>16, <1>18, <1>19, <1>24 DEF LimiterInStep
  <2> QED BY <2>2, <2>3 DEF InStep
<1>27. (put[s] = "sent" \/ Writing(s) => (rec[s].type = "withdrawal" => rec[s].hour <= HourBound))'
  <2>1. HourBound' = HourBound BY <1>1 DEF Frame, HourBound
  <2> QED BY <1>11, <1>13, <1>18, <2>1
<1> QED BY <1>1, <1>2, <1>6, <1>16, <1>18, <1>20, <1>25, <1>26, <1>27, QuietKeeps DEF Writes

\* A record in flight is the only one, and no other session is in step.
LEMMA PendingAlone ==
  ASSUME FenceInv, LogInv, NEW s \in Sessions, NEW t \in Sessions, s # t, Pending(s)
  PROVE  ~ Pending(t) /\ ~ Live(t)
<1>1. ~ Pending(t) BY DEF LogInv, Sole
<1>2. ~ Live(t) BY Alone
<1> QED BY <1>1, <1>2

\* When a record of s lands, s is what it was but for the PUT.
LEMMA LandEffect ==
  ASSUME FenceInv, LogInv, NEW s \in Sessions, Land(s)
  PROVE  /\ put[s] = "sent" /\ put'[s] = "stored" /\ \A t \in Sessions \ {s} : put'[t] = put[t]
         /\ UNCHANGED <<now, stage, config, limiter, committee, fence, step, rec, released>>
         /\ rec[s] \in Records /\ Frame(s) /\ ~ Pending(s)' /\ HourBound' = HourBound
         /\ \A t \in Sessions : /\ Writing(t)' = Writing(t) /\ Live(t)' = Live(t)
                                /\ \A k : Writes(t, k)' = Writes(t, k)
         /\ Live(s) => Alive(s) /\ Writing(s)
<1>1. FenceTypeOK /\ LogTypeOK /\ SessionInv(s) /\ Frame(s) BY LandSafe DEF FenceInv, LogInv
<1>2. /\ put[s] = "sent" /\ put' = [put EXCEPT ![s] = "stored"]
      /\ UNCHANGED <<now, stage, config, limiter, committee, fence, step, rec, released>>
  BY DEF Land, serviceVars
<1>3. put'[s] = "stored" /\ \A t \in Sessions \ {s} : put'[t] = put[t] BY <1>1, <1>2 DEF FenceTypeOK
<1>4. rec[s] \in Records BY <1>1, <1>2 DEF LogTypeOK
<1>5. \A t \in Sessions : /\ Writing(t)' = Writing(t) /\ Live(t)' = Live(t)
                          /\ \A k : Writes(t, k)' = Writes(t, k)
  BY <1>2 DEF Writing, Live, Relies, Fenced, Writes
<1>6. Live(s) => Alive(s) /\ Writing(s)
  BY <1>1, <1>2 DEF Live, Relies, SessionInv, Phase, Writing, Alive
<1>7. ~ Pending(s)' /\ HourBound' = HourBound BY <1>2, <1>3 DEF Pending, HourBound
<1> QED BY <1>1, <1>2, <1>3, <1>4, <1>5, <1>6, <1>7

\* A record of the log that lands leaves no other in flight.
LEMMA LandKeeps ==
  ASSUME FenceInv, LogInv, NEW s \in Sessions, Land(s), Pending(s),
         LogTypeOK', Hours', History', Live(s) => InStep(s)',
         withdrawals \subseteq withdrawals',
         rec[s].type = "withdrawal" => rec[s] \in withdrawals'
  PROVE  LogInv'
<1>1. /\ put'[s] = "stored" /\ \A t \in Sessions \ {s} : put'[t] = put[t]
      /\ rec' = rec /\ ~ Pending(s)'
      /\ \A t \in Sessions : Live(t)' = Live(t) /\ \A k : Writes(t, k)' = Writes(t, k)
  BY LandEffect
<1>2. \A t \in Sessions \ {s} : ~ Pending(t) /\ ~ Live(t) BY PendingAlone
<1>3. \A t \in Sessions : ~ Pending(t)'
  BY <1>1, <1>2 DEF Pending, Extending
<1>4. ASSUME NEW t \in Sessions PROVE Live(t)' => InStep(t)'
  <2>1. CASE t = s BY <1>1, <2>1
  <2>2. CASE t # s BY <1>1, <1>2, <2>2
  <2> QED BY <2>1, <2>2
<1>5. ASSUME NEW t \in Sessions
      PROVE  (Writes(t, "withdrawal") /\ put[t] = "stored" => rec[t] \in withdrawals)'
  <2>1. Writes(t, "withdrawal")' => Writes(t, "withdrawal") /\ rec[t].type = "withdrawal"
    BY <1>1 DEF Writes
  <2>2. CASE t = s BY <1>1, <2>1, <2>2
  <2>3. CASE t # s
    <3>1. Writes(t, "withdrawal") /\ put[t] = "stored" => rec[t] \in withdrawals BY DEF LogInv
    <3> QED BY <1>1, <2>1, <2>3, <3>1
  <2> QED BY <2>2, <2>3
<1>6. Sole' BY <1>3 DEF Sole
<1> QED BY <1>3, <1>4, <1>5, <1>6 DEF LogInv

\* A withdrawal that lands is the next one of the history.
LEMMA LandWithdrawalLog ==
  ASSUME FenceInv, LogInv, NEW s \in Sessions, Land(s), rec[s].type = "withdrawal" PROVE LogInv'
<1> DEFINE r == rec[s]
<1>1. /\ put[s] = "sent" /\ put'[s] = "stored" /\ \A t \in Sessions \ {s} : put'[t] = put[t]
      /\ UNCHANGED <<now, stage, config, limiter, committee, fence, step, rec, released>>
      /\ r \in Records /\ HourBound' = HourBound
      /\ \A t \in Sessions : /\ Writing(t)' = Writing(t) /\ Live(t)' = Live(t)
                             /\ \A k : Writes(t, k)' = Writes(t, k)
      /\ Live(s) => Alive(s) /\ Writing(s)
  BY LandEffect
<1>2. withdrawals' = withdrawals \cup {r} /\ updates' = updates BY DEF Land
<1>3. LogTypeOK /\ Hours /\ History /\ (Live(s) => InStep(s)) BY DEF LogInv
<1>4. Pending(s) BY <1>1 DEF Pending, Extending
<1>5. Follows(r) BY <1>4 DEF LogInv, Continues
<1>6. r \in Withdrawals BY <1>1, RecordKinds
<1>7. LogTypeOK'
  <2>1. withdrawals' \subseteq Withdrawals BY <1>2, <1>3, <1>6 DEF LogTypeOK
  <2> QED BY <1>1, <1>2, <1>3, <2>1 DEF LogTypeOK
<1> HIDE DEF r
<1>8. /\ r.seq \in Nat /\ r.hour \in Nat /\ r.by \in Nat
      /\ \A w \in withdrawals : w.seq \in Nat /\ w.hour \in Nat /\ w.by \in Nat
      /\ \A u \in updates : u.to \in Nat
  BY <1>3, <1>6 DEF LogTypeOK, Withdrawals, Updates
<1>9. AtEnd(r.seq) /\ Latest(r.by) /\ \A v \in withdrawals : v.hour <= r.hour + 1 BY <1>5 DEF Follows
<1>10. \A w \in withdrawals : w.seq < r.seq /\ w # r BY <1>8, <1>9 DEF AtEnd
<1>11. \A n : n = r.seq + 1 => AtEnd(n)' BY <1>2, <1>8, <1>10 DEF AtEnd
<1>12. \A e \in Nat : Latest(e) => e = r.by
  <2> SUFFICES ASSUME NEW e \in Nat, Latest(e) PROVE e = r.by OBVIOUS
  <2>1. e > 0 => e <= r.by BY <1>9 DEF Latest
  <2>2. r.by > 0 => r.by <= e BY <1>9 DEF Latest
  <2> QED BY <1>8, <2>1, <2>2
<1>13. \A e : e = r.by => Latest(e)' BY <1>2, <1>8, <1>9 DEF Latest
<1>14. LimiterChain'
  <2>1. config' = config BY <1>1
  <2>2. LimiterChain BY <1>3 DEF History
  <2> SUFFICES ASSUME NEW w \in withdrawals'
               PROVE  /\ \A v \in withdrawals' : v.seq = w.seq => v = w
                      /\ w.amount + w.tokens <= config[w.session].capacity
                      /\ w.seq > 0 => \E p \in withdrawals' : Covered(p, w)
    BY <2>1 DEF LimiterChain, Covered
  <2>3. CASE w = r
    <3>1. \A v \in withdrawals' : v.seq = w.seq => v = w BY <1>2, <1>8, <1>10, <2>3
    <3>2. w.amount + w.tokens <= config[w.session].capacity BY <1>5, <2>3 DEF Follows
    <3>3. w.seq > 0 => \E p \in withdrawals' : Covered(p, w) BY <1>2, <1>5, <2>3 DEF Follows
    <3> QED BY <3>1, <3>2, <3>3
  <2>4. CASE w \in withdrawals
    <3>1. \A v \in withdrawals' : v.seq = w.seq => v = w
      BY <1>2, <1>8, <1>10, <2>2, <2>4 DEF LimiterChain
    <3>2. w.amount + w.tokens <= config[w.session].capacity BY <2>2, <2>4 DEF LimiterChain
    <3>3. w.seq > 0 => \E p \in withdrawals : Covered(p, w) BY <2>2, <2>4 DEF LimiterChain, Covered
    <3> QED BY <1>2, <3>1, <3>2, <3>3
  <2> QED BY <1>2, <2>3, <2>4
<1>15. CommitteeChain'
  <2>1. CommitteeChain BY <1>3 DEF History
  <2>2. ASSUME NEW v \in withdrawals', NEW w \in withdrawals', v.seq < w.seq PROVE v.by <= w.by
    <3>1. CASE w = r BY <1>2, <1>8, <1>9, <2>2, <3>1 DEF Latest
    <3>2. CASE w \in withdrawals /\ v \in withdrawals BY <2>1, <2>2, <3>2 DEF CommitteeChain
    <3>3. CASE w \in withdrawals /\ v = r BY <1>8, <1>10, <2>2, <3>3
    <3> QED BY <1>2, <3>1, <3>2, <3>3
  <2> QED BY <1>2, <2>1, <2>2 DEF CommitteeChain
<1>16. History'
  <2>1. \E n \in Nat : AtEnd(n)' BY <1>8, <1>11
  <2>2. \E e \in Nat : Latest(e)' BY <1>8, <1>13
  <2>3. released' \subseteq withdrawals' BY <1>1, <1>2, <1>3 DEF History
  <2> QED BY <1>14, <1>15, <2>1, <2>2, <2>3 DEF History
<1>17. Hours'
  <2>1. r.hour <= HourBound BY <1>1, <1>3 DEF Hours, r
  <2>2. \A w \in withdrawals' : w.hour <= HourBound BY <1>2, <1>3, <2>1 DEF Hours
  <2>3. \E m \in withdrawals' : \A w \in withdrawals' : w.hour <= m.hour
    <3>1. CASE withdrawals = {} BY <1>2, <1>8, <3>1
    <3>2. CASE withdrawals # {}
      <4>1. PICK m \in withdrawals : \A w \in withdrawals : w.hour <= m.hour BY <1>3, <3>2 DEF Hours
      <4>2. CASE r.hour <= m.hour BY <1>2, <4>1, <4>2
      <4>3. CASE m.hour <= r.hour
        <5>1. \A w \in withdrawals' : w.hour <= r.hour BY <1>2, <1>8, <4>1, <4>3
        <5> QED BY <1>2, <5>1
      <4> QED BY <1>8, <4>2, <4>3
    <3> QED BY <3>1, <3>2
  <2>4. ASSUME NEW v \in withdrawals', NEW w \in withdrawals', v.seq < w.seq PROVE v.hour <= w.hour + 1
    <3>1. CASE w = r BY <1>2, <1>8, <1>9, <2>4, <3>1
    <3>2. CASE w \in withdrawals /\ v \in withdrawals BY <1>3, <2>4, <3>2 DEF Hours
    <3>3. CASE w \in withdrawals /\ v = r BY <1>8, <1>10, <2>4, <3>3
    <3> QED BY <1>2, <3>1, <3>2, <3>3
  <2>5. \A t \in Sessions : put'[t] = "sent" \/ Writing(t)' =>
          (rec'[t].type = "withdrawal" => rec'[t].hour <= HourBound)
    BY <1>1, <1>3 DEF Hours
  <2> QED BY <1>1, <2>2, <2>3, <2>4, <2>5 DEF Hours
<1>18. Live(s) => InStep(s)'
  <2> SUFFICES ASSUME Live(s) PROVE InStep(s)' OBVIOUS
  <2>1. Writes(s, "withdrawal") BY <1>1 DEF Writes
  <2>2. stage[s] = "active" BY <2>1 DEF FenceInv, SessionInv, Phase, Writes, Extending
  <2>3. CommitteeInStep(s) /\ LimiterInStep(s) BY <1>3, <2>2 DEF InStep
  <2>4. Writes(s, "withdrawal")' /\ ~ Writes(s, "update")' /\ ~ Writes(s, "update")
    BY <1>1, <2>1 DEF Writes
  <2>5. Latest(committee[s]) BY <2>3, <2>4 DEF CommitteeInStep
  <2>6. committee[s] = r.by BY <1>3, <1>12, <2>5 DEF LogTypeOK
  <2>7. Latest(committee[s])' BY <1>1, <1>13, <2>6
  <2>8. CommitteeInStep(s)' BY <2>4, <2>7 DEF CommitteeInStep
  <2>9. AtEnd(rec[s].seq + 1)' BY <1>1, <1>11 DEF r
  <2>10. LimiterInStep(s)' BY <1>1, <1>2, <2>1, <2>3, <2>4, <2>9 DEF LimiterInStep, r
  <2> QED BY <2>8, <2>10 DEF InStep
<1> QED BY <1>2, <1>4, <1>7, <1>16, <1>17, <1>18, LandKeeps DEF r

\* A committee update that lands is the next one of the chain.
LEMMA LandUpdateLog ==
  ASSUME FenceInv, LogInv, NEW s \in Sessions, Land(s), rec[s].type = "update" PROVE LogInv'
<1> DEFINE r == rec[s]
<1>1. /\ put[s] = "sent" /\ put'[s] = "stored" /\ \A t \in Sessions \ {s} : put'[t] = put[t]
      /\ UNCHANGED <<now, stage, config, limiter, committee, fence, step, rec, released>>
      /\ r \in Records /\ HourBound' = HourBound
      /\ \A t \in Sessions : /\ Writing(t)' = Writing(t) /\ Live(t)' = Live(t)
                             /\ \A k : Writes(t, k)' = Writes(t, k)
      /\ Live(s) => Alive(s) /\ Writing(s)
  BY LandEffect
<1>2. updates' = updates \cup {r} /\ withdrawals' = withdrawals BY DEF Land
<1>3. LogTypeOK /\ Hours /\ History /\ (Live(s) => InStep(s)) BY DEF LogInv
<1>4. Pending(s) BY <1>1 DEF Pending, Extending
<1>5. Succeeds(r) BY <1>4 DEF LogInv, Continues
<1>6. r \in Updates BY <1>1, RecordKinds
<1>7. LogTypeOK'
  <2>1. updates' \subseteq Updates BY <1>2, <1>3, <1>6 DEF LogTypeOK
  <2> QED BY <1>1, <1>2, <1>3, <2>1 DEF LogTypeOK
<1> HIDE DEF r
<1>8. /\ r.from \in Nat /\ r.to \in Nat
      /\ \A w \in withdrawals : w.by \in Nat
      /\ \A u \in updates : u.to \in Nat /\ u.from \in Nat
  BY <1>3, <1>6 DEF LogTypeOK, Withdrawals, Updates
<1>9. Latest(r.from) /\ r.from < r.to BY <1>5 DEF Succeeds
<1>10. \A e : e = r.to => Latest(e)' BY <1>2, <1>8, <1>9 DEF Latest
<1>11. \A n : AtEnd(n)' = AtEnd(n) BY <1>2 DEF AtEnd
<1>12. CommitteeChain'
  <2>1. CommitteeChain BY <1>3 DEF History
  <2>2. ASSUME NEW u \in updates'
        PROVE  /\ u.from = 0 \/ \E p \in updates' : p.to = u.from
               /\ \A v \in updates' : v # u => v.to <= u.from \/ u.to <= v.from
    <3>1. CASE u = r BY <1>2, <1>8, <1>9, <3>1 DEF Latest
    <3>2. CASE u \in updates
      <4>1. u.from = 0 \/ \E p \in updates' : p.to = u.from BY <1>2, <2>1, <3>2 DEF CommitteeChain
      <4>2. u.to <= r.from BY <1>9, <3>2 DEF Latest
      <4>3. \A v \in updates : v # u => v.to <= u.from \/ u.to <= v.from
        BY <2>1, <3>2 DEF CommitteeChain
      <4> QED BY <1>2, <4>1, <4>2, <4>3
    <3> QED BY <1>2, <3>1, <3>2
  <2> QED BY <1>2, <2>1, <2>2 DEF CommitteeChain
<1>13. History'
  <2>1. \E n \in Nat : AtEnd(n)' BY <1>3, <1>11 DEF History
  <2>2. \E e \in Nat : Latest(e)' BY <1>8, <1>10
  <2>3. LimiterChain' BY <1>1, <1>2, <1>3 DEF History, LimiterChain
  <2> QED BY <1>1, <1>2, <1>3, <1>12, <2>1, <2>2, <2>3 DEF History
<1>14. Hours'
  <2>1. \A t \in Sessions : put'[t] = "sent" \/ Writing(t)' =>
          (rec'[t].type = "withdrawal" => rec'[t].hour <= HourBound)
    BY <1>1, <1>3 DEF Hours
  <2> QED BY <1>1, <1>2, <1>3, <2>1 DEF Hours
<1>15. Live(s) => InStep(s)'
  <2> SUFFICES ASSUME Live(s) PROVE InStep(s)' OBVIOUS
  <2>1. Writes(s, "update") BY <1>1 DEF Writes
  <2>2. stage[s] = "active" BY <2>1 DEF FenceInv, SessionInv, Phase, Writes, Extending
  <2>3. CommitteeInStep(s) /\ LimiterInStep(s) BY <1>3, <2>2 DEF InStep
  <2>4. Writes(s, "update")' /\ ~ Writes(s, "withdrawal")' /\ ~ Writes(s, "withdrawal")
    BY <1>1, <2>1 DEF Writes
  <2>5. Latest(rec[s].to)' BY <1>1, <1>10 DEF r
  <2>6. CommitteeInStep(s)' BY <1>1, <2>1, <2>3, <2>4, <2>5 DEF CommitteeInStep
  <2>7. AtEnd(limiter[s].seq)' = AtEnd(limiter[s].seq) BY <1>1, <1>11
  <2>8. LimiterInStep(s)' BY <1>1, <1>2, <2>3, <2>4, <2>7 DEF LimiterInStep
  <2> QED BY <2>6, <2>8 DEF InStep
<1> QED BY <1>2, <1>4, <1>7, <1>13, <1>14, <1>15, LandKeeps

\* S3 stores the record of s.
LEMMA LandLog == ASSUME FenceInv, LogInv, NEW s \in Sessions, Land(s) PROVE LogInv'
<1>1. CASE rec[s].type = "withdrawal" BY <1>1, LandWithdrawalLog
<1>2. CASE rec[s].type = "update" BY <1>2, LandUpdateLog
<1>3. CASE rec[s].type \notin {"withdrawal", "update"}
  <2>1. /\ put[s] = "sent" /\ put'[s] = "stored" /\ \A t \in Sessions \ {s} : put'[t] = put[t]
        /\ UNCHANGED <<now, stage, config, limiter, committee, fence, step, rec, released>>
        /\ Frame(s) /\ ~ Pending(s)' /\ HourBound' = HourBound
        /\ \A t \in Sessions : /\ Writing(t)' = Writing(t) /\ Live(t)' = Live(t)
                               /\ \A k : Writes(t, k)' = Writes(t, k)
    BY LandEffect
  <2>2. UNCHANGED <<withdrawals, updates>> BY <1>3 DEF Land, logVars
  <2>3. LogTypeOK /\ Hours /\ released \subseteq withdrawals /\ (Live(s) => InStep(s))
    BY DEF LogInv, History
  <2>4. LogTypeOK' BY <2>1, <2>2, <2>3 DEF LogTypeOK
  <2>5. ~ Writes(s, "update") /\ ~ Writes(s, "withdrawal") BY <1>3 DEF Writes
  <2>6. CommitteeInStep(s)' = CommitteeInStep(s) /\ LimiterInStep(s)' = LimiterInStep(s)
    BY <2>1, <2>2, <2>5, OtherRecords
  <2>7. InStep(s)' = InStep(s) BY <2>1, <2>6 DEF InStep
  <2>8. (put[s] = "sent" \/ Writing(s) => (rec[s].type = "withdrawal" => rec[s].hour <= HourBound))'
    BY <1>3, <2>1
  <2> QED BY <2>1, <2>2, <2>3, <2>4, <2>5, <2>7, <2>8, QuietKeeps
<1> QED BY <1>1, <1>2, <1>3

\* Time fences sessions and loses PUTs; it leaves the log alone.
LEMMA TickLog == ASSUME FenceInv, LogInv, Tick PROVE LogInv'
<1>1. FenceTypeOK /\ now \in Nat BY DEF FenceInv, FenceTypeOK
<1>2. /\ now' = now + 1
      /\ \A t \in Sessions : put'[t] = put[t] \/ (put[t] = "sent" /\ put'[t] = "none")
      /\ UNCHANGED <<stage, config, limiter, committee, fence, step, rec, withdrawals, updates, released>>
  BY DEF Tick, serviceVars, logVars
<1>3. /\ LogTypeOK /\ Hours /\ History /\ Sole
      /\ \A t \in Sessions : /\ Pending(t) => Continues(t)
                             /\ Live(t) => InStep(t)
                             /\ Writes(t, "withdrawal") /\ put[t] = "stored" => rec[t] \in withdrawals
  BY DEF LogInv
<1>4. \A t \in Sessions :
        /\ Pending(t)' => Pending(t)
        /\ put'[t] = "stored" <=> put[t] = "stored"
        /\ Writing(t)' = Writing(t) /\ \A k : Writes(t, k)' = Writes(t, k)
  BY <1>2 DEF Pending, Extending, Writing, Writes
<1>5. \A t \in Sessions : Live(t)' => Live(t)
  BY <1>1, <1>2, Periods DEF Live, Relies, Fenced, FenceTypeOK
<1>6. HourBound \in Nat /\ HourBound' \in Nat /\ HourBound <= HourBound'
  <2>1. /\ now + MaxOffset \in Nat /\ now + 1 + MaxOffset \in Nat
        /\ now + MaxOffset <= now + 1 + MaxOffset /\ now + 1 + MaxOffset <= now + MaxOffset + Hour
    BY <1>1, Periods
  <2>2. (now + MaxOffset) \div Hour \in Nat /\ (now + 1 + MaxOffset) \div Hour \in Nat
        /\ (now + MaxOffset) \div Hour <= (now + 1 + MaxOffset) \div Hour
    BY <2>1, HourSteps
  <2> QED BY <1>2, <2>2 DEF HourBound
<1>7. \A t \in Sessions : InStep(t)' = InStep(t)
  <2> SUFFICES ASSUME NEW t \in Sessions PROVE InStep(t)' = InStep(t) OBVIOUS
  <2>1. /\ Latest(rec[t].to)' = Latest(rec[t].to) /\ Succeeds(rec[t])' = Succeeds(rec[t])
        /\ Latest(committee[t])' = Latest(committee[t]) /\ Follows(rec[t])' = Follows(rec[t])
        /\ AtEnd(rec[t].seq + 1)' = AtEnd(rec[t].seq + 1)
        /\ AtEnd(limiter[t].seq)' = AtEnd(limiter[t].seq)
    BY <1>2, SameLog
  <2>2. CommitteeInStep(t)' = CommitteeInStep(t) BY <1>2, <1>4, <2>1 DEF CommitteeInStep
  <2>3. LimiterInStep(t)' = LimiterInStep(t) BY <1>2, <1>4, <2>1 DEF LimiterInStep
  <2> QED BY <1>2, <1>4, <2>2, <2>3 DEF InStep
<1>8. \A t \in Sessions : Continues(t)' = Continues(t) BY <1>2, SameLog DEF Continues
<1>9. LogTypeOK' BY <1>2, <1>3, <1>4 DEF LogTypeOK
<1>10. \A w \in withdrawals : w.hour \in Nat BY <1>3 DEF LogTypeOK, Withdrawals
<1>11. Hours'
  <2>1. \A w \in withdrawals' : w.hour <= HourBound' BY <1>2, <1>3, <1>6, <1>10 DEF Hours
  <2>2. ASSUME NEW t \in Sessions, put'[t] = "sent" \/ Writing(t)', rec'[t].type = "withdrawal"
        PROVE  rec'[t].hour <= HourBound'
    <3>1. put[t] = "sent" \/ Writing(t) BY <1>2, <1>4, <2>2
    <3>2. rec[t].hour <= HourBound BY <1>2, <1>3, <2>2, <3>1 DEF Hours
    <3>3. rec[t] \in Records BY <1>3, <3>1 DEF LogTypeOK
    <3>4. rec[t].hour \in Nat BY <1>2, <2>2, <3>3, RecordKinds DEF Withdrawals
    <3> QED BY <1>2, <1>6, <3>2, <3>4
  <2> QED BY <1>2, <1>3, <2>1, <2>2 DEF Hours
<1>12. History' BY <1>2, <1>3, SameLog DEF History
<1>13. Sole' BY <1>3, <1>4 DEF Sole
<1> QED BY <1>2, <1>3, <1>4, <1>5, <1>7, <1>8, <1>9, <1>11, <1>12, <1>13 DEF LogInv

\* The log is empty when the deployment starts.
LEMMA InitLog == Init => LogInv
<1> SUFFICES ASSUME Init PROVE LogInv OBVIOUS
<1>1. /\ withdrawals = {} /\ updates = {} /\ released = {} /\ config \in [Sessions -> Configs]
      /\ limiter = [s \in Sessions |-> Genesis(config[s])] /\ committee = [s \in Sessions |-> 0]
      /\ rec = [s \in Sessions |-> NONE] /\ step = [s \in Sessions |-> "idle"]
      /\ put = [s \in Sessions |-> "none"] /\ stage = [s \in Sessions |-> "off"]
  BY DEF Init
<1>2. \A s \in Sessions : Genesis(config[s]) \in LimiterStates
  BY <1>1, ConfigsAssumption DEF Genesis, LimiterStates
<1>3. LogTypeOK BY <1>1, <1>2 DEF LogTypeOK, Writing
<1>4. History
  <2>1. AtEnd(0) /\ Latest(0) BY <1>1 DEF AtEnd, Latest
  <2> QED BY <1>1, <2>1 DEF History, LimiterChain, CommitteeChain
<1>5. Hours BY <1>1 DEF Hours, Writing
<1> QED BY <1>1, <1>3, <1>4, <1>5 DEF LogInv, Sole, Pending, Live, Relies, Writes, Writing

\* Every step preserves what is said of the log.
LEMMA StepLog == FenceInv /\ LogInv /\ [Next]_vars => LogInv'
<1> SUFFICES ASSUME FenceInv, LogInv, [Next]_vars PROVE LogInv' OBVIOUS
<1>1. CASE UNCHANGED vars
  <2>1. /\ UNCHANGED <<now, stage, config, limiter, committee, fence, step, rec, put>>
        /\ UNCHANGED <<withdrawals, updates, released>>
    BY <1>1 DEF vars, serviceVars, writeVars, logVars
  <2> QED BY <2>1 DEF LogInv, LogTypeOK, Hours, HourBound, History, Sole, Pending, Live, Relies, Fenced,
    Writes, Writing, Extending, Continues, Follows, Succeeds, Covered, AtEnd, Latest, InStep,
    CommitteeInStep, LimiterInStep, LimiterChain, CommitteeChain
<1>2. CASE Tick BY <1>2, TickLog
<1>3. ASSUME NEW s \in Sessions,
             \/ Boot(s) \/ Crash(s) \/ Retry(s) \/ AttemptFails(s) \/ Land(s)
             \/ Heartbeat(s) \/ HeartbeatWritten(s) \/ BeginActivation(s) \/ CheckHeartbeats(s)
      PROVE  LogInv'
  BY <1>3, BootLog, CrashLog, RetryLog, AttemptFailsLog, LandLog, HeartbeatLog, HeartbeatWrittenLog,
    BeginActivationLog, CheckHeartbeatsLog
<1>4. ASSUME NEW s \in Sessions,
             \/ ReadLatestCommittee(s) \/ RecoverLimiter(s) \/ RefuseActivation(s)
             \/ Activated(s) \/ StandardWithdrawal(s) \/ WithdrawalWritten(s)
             \/ UpdateCommittee(s) \/ CommitteeUpdated(s)
      PROVE  LogInv'
  BY <1>4, ReadLatestCommitteeLog, RecoverLimiterLog, RefuseActivationLog, ActivatedLog,
    StandardWithdrawalLog, WithdrawalWrittenLog, UpdateCommitteeLog, CommitteeUpdatedLog
<1> QED BY <1>1, <1>2, <1>3, <1>4 DEF Next

\* What is said of the log holds in every reachable state.
THEOREM LogInductive == Spec => []LogInv
<1>1. FenceInv /\ LogInv /\ [Next]_vars => LogInv' BY StepLog
<1> QED BY InitLog, <1>1, FenceInductive, PTL DEF Spec

\* Across any number of failovers the withdrawals in the log are one history
\* of one token bucket: no sequence number is used twice or skipped, and every
\* outflow is covered by what its predecessor left and the refill since
\* (standard_withdrawal and the recovery of the limiter from S3).
THEOREM LimiterChainHolds == Spec => []LimiterChain
<1>1. LogInv => LimiterChain BY DEF LogInv, History
<1> QED BY <1>1, LogInductive, PTL

\* The committee updates in the log form one chain from genesis, and a later
\* withdrawal is never authorized by an earlier committee.
THEOREM CommitteeChainHolds == Spec => []CommitteeChain
<1>1. LogInv => CommitteeChain BY DEF LogInv, History
<1> QED BY <1>1, LogInductive, PTL

\* Signatures leave an enclave only for withdrawals that are in the log, and
\* every session that may still sign has counted them.
THEOREM SignaturesCountedHolds == Spec => []SignaturesCounted
<1>1. FenceInv /\ LogInv => SignaturesCounted
  <2> SUFFICES ASSUME FenceInv, LogInv, NEW w \in released
               PROVE  /\ w \in withdrawals
                      /\ \A s \in Sessions :
                           stage[s] = "active" /\ MayAttempt(s) => w.seq < limiter[s].seq
    BY DEF SignaturesCounted
  <2>1. w \in withdrawals BY DEF LogInv, History
  <2>2. ASSUME NEW s \in Sessions, stage[s] = "active", MayAttempt(s) PROVE w.seq < limiter[s].seq
    <3>1. Live(s) BY <2>2, AttemptUnfenced DEF FenceInv, Live, Relies
    <3>2. LimiterInStep(s) BY <2>2, <3>1 DEF LogInv, InStep
    <3>3. CASE ~ Writes(s, "withdrawal") BY <2>1, <3>2, <3>3 DEF LimiterInStep, AtEnd
    <3>4. CASE Writes(s, "withdrawal")
      <4>1. limiter[s].seq = rec[s].seq + 1 BY <3>2, <3>4 DEF LimiterInStep
      <4>2. rec[s] \in Withdrawals BY <3>4, RecordKinds DEF LogInv, LogTypeOK, Writes
      <4>3. rec[s].seq \in Nat /\ w.seq \in Nat BY <2>1, <4>2 DEF LogInv, LogTypeOK, Withdrawals
      <4>4. AtEnd(rec[s].seq + 1) \/ AtEnd(rec[s].seq) BY <3>2, <3>4 DEF LimiterInStep, Follows
      <4> QED BY <2>1, <4>1, <4>3, <4>4 DEF AtEnd
    <3> QED BY <3>3, <3>4
  <2> QED BY <2>1, <2>2
<1> QED BY <1>1, FenceInductive, LogInductive, PTL

=============================================================================
