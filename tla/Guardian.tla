------------------------------ MODULE Guardian ------------------------------
(***************************************************************************)
(* The guardian enclave co-signs every withdrawal and rate-limits them.    *)
(* Its only durable state is a write-once log on S3; an enclave that dies  *)
(* is replaced by a new session that recovers the limiter and the          *)
(* committee from that log (crates/hashi-guardian/src).  Nothing but time  *)
(* keeps two sessions apart: a session stops writing a while after its     *)
(* last heartbeat, and a new one activates only when all others have been  *)
(* silent for longer.  This module models the sessions, their log writer,  *)
(* S3 and the clocks.                                                      *)
(*                                                                         *)
(* `now` is real time.  A session's monotonic clock advances with it, and  *)
(* only differences of it are used.  A wall clock reads up to MaxOffset    *)
(* ahead of it and may be adjusted between two readings.  A PUT may become *)
(* durable up to Delay after its attempt's deadline, even if the session   *)
(* gave up or died.  The README of the guardian states these assumptions.  *)
(***************************************************************************)
EXTENDS Integers, FiniteSets, FiniteSetsExt

CONSTANTS
  Sessions,     \* ids of enclave sessions; a restart is a new session
  Configs,      \* limiter configurations an operator may supply
  Timeout,      \* S3_WRITE_ATTEMPT_TIMEOUT
  Quiet,        \* OTHER_SESSION_QUIET_PERIOD
  Budget,       \* ACTIVATING_READER_CLOCK_SKEW_BUDGET
  LiveMaxAge,   \* LIVE_SESSION_LATEST_HEARTBEAT_MAX_AGE
  MaxAttempts,  \* MAX_S3_WRITE_ATTEMPTS
  ReqSkew,      \* MAX_CLOCK_SKEW_SECS of a request
  ReqAge,       \* MAX_REQUEST_AGE_SECS of a request
  Hour,         \* length of an hour directory
  MaxOffset,    \* how far a wall clock may run ahead
  Delay,        \* how late a PUT may become durable
  MaxTime, MaxSeq, MaxEpoch,  \* bounds of the model
  NONE

\* lib.rs asserts the first line; the guardian's README states the second:
\* skew and late durability share the budget.  Hours are long.
ASSUME FencingAssumption ==
  /\ {Timeout, Quiet, Budget, LiveMaxAge, MaxAttempts, ReqSkew, ReqAge,
      Hour, MaxOffset, Delay, MaxTime, MaxSeq, MaxEpoch} \subseteq Nat
  /\ Timeout + Budget < Quiet
  /\ MaxOffset + Delay <= Budget
  /\ 2 * MaxOffset + LiveMaxAge <= Hour /\ Quiet <= Hour

ASSUME ConfigsAssumption ==
  Configs \subseteq [capacity : Nat, rate : Nat]

ASSUME NoneAssumption == NONE \notin Nat

VARIABLES
  now,          \* real time
  stage,        \* lifecycle of a session
  config,       \* its limiter configuration
  limiter,      \* its in-memory limiter state
  committee,    \* epoch of its in-memory committee
  fence,        \* LatestHeartbeatTime: when the last durable heartbeat began
  step,         \* what the holder of the control lock is doing
  scan,         \* started_at of the heartbeat scan
  rec,          \* the record being written
  began,        \* write_started_at
  tries,        \* attempts made
  due,          \* deadline of the latest attempt
  put,          \* what became of the record's PUTs
  beats,        \* S3: timestamp of each session's latest heartbeat
  withdrawals,  \* S3: withdrawal records
  updates,      \* S3: committee-update records
  released      \* history: withdrawals whose signatures were returned

serviceVars == <<stage, config, limiter, committee, fence>>
writeVars == <<rec, began, tries, due, put>>
logVars == <<beats, withdrawals, updates>>
vars == <<now, serviceVars, step, scan, writeVars, logVars, released>>

Genesis(c) == [tokens |-> c.capacity, at |-> 0, seq |-> 0]

Init ==
  /\ now = 0
  /\ stage = [s \in Sessions |-> "off"]
  /\ config \in [Sessions -> Configs]
  /\ limiter = [s \in Sessions |-> Genesis(config[s])]
  /\ committee = [s \in Sessions |-> 0]
  /\ fence = [s \in Sessions |-> NONE]
  /\ step = [s \in Sessions |-> "idle"]
  /\ scan = [s \in Sessions |-> 0]
  /\ rec = [s \in Sessions |-> NONE]
  /\ began = [s \in Sessions |-> 0]
  /\ tries = [s \in Sessions |-> 0]
  /\ due = [s \in Sessions |-> 0]
  /\ put = [s \in Sessions |-> "none"]
  /\ beats = [s \in Sessions |-> NONE]
  /\ withdrawals = {}
  /\ updates = {}
  /\ released = {}

(***************************************************************************)
(* Time.                                                                   *)
(***************************************************************************)

\* What a wall clock may read now.
Wall == now .. now + MaxOffset

\* A PUT that did not become durable in time never does.
Tick ==
  /\ now < MaxTime
  /\ now' = now + 1
  /\ put' = [s \in Sessions |->
               IF put[s] = "sent" /\ now >= due[s] + Delay THEN "none" ELSE put[s]]
  /\ UNCHANGED <<serviceVars, step, scan, rec, began, tries, due, logVars, released>>

(***************************************************************************)
(* The log writer.  The service's lock serializes heartbeats and RPCs, so  *)
(* a session writes one record at a time.                                  *)
(***************************************************************************)

Idle(s) == stage[s] \in {"standby", "active"} /\ step[s] = "idle"

\* No attempt starts whose deadline reaches the fence; there is no fence
\* before the first durable heartbeat.
MayAttempt(s) == fence[s] # NONE => now + Timeout < fence[s] + Quiet - Budget

Attempt(s, r, n) ==
  /\ MayAttempt(s)
  /\ step' = [step EXCEPT ![s] = "wait"]
  /\ rec' = [rec EXCEPT ![s] = r]
  /\ tries' = [tries EXCEPT ![s] = n]
  /\ due' = [due EXCEPT ![s] = now + Timeout]
  /\ put' = [put EXCEPT ![s] = IF @ = "stored" THEN @ ELSE "sent"]

\* The first attempt follows the construction of the record at once.
StartWrite(s, r) ==
  /\ Attempt(s, r, 1)
  /\ began' = [began EXCEPT ![s] = now]

Retry(s) ==
  /\ step[s] = "retry"
  /\ Attempt(s, rec[s], tries[s] + 1)
  /\ UNCHANGED <<now, serviceVars, scan, began, logVars, released>>

\* An error, the timer, or a confirmation observed after the deadline.
AttemptFails(s) ==
  /\ step[s] = "wait"
  /\ tries[s] < MaxAttempts
  /\ step' = [step EXCEPT ![s] = "retry"]
  /\ UNCHANGED <<now, serviceVars, scan, writeVars, logVars, released>>

\* S3 stores the record under a key that is written once.  Keys of
\* withdrawals hold the request's id and those of heartbeats the session's,
\* so only committee updates can find their key taken.
Land(s) ==
  /\ put[s] = "sent"
  /\ put' = [put EXCEPT ![s] = "stored"]
  /\ CASE rec[s].type = "heartbeat" ->
            /\ beats' = [beats EXCEPT ![s] = IF @ = NONE \/ @ < rec[s].stamp
                                             THEN rec[s].stamp ELSE @]
            /\ UNCHANGED <<withdrawals, updates>>
       [] rec[s].type = "withdrawal" ->
            /\ withdrawals' = withdrawals \cup {rec[s]}
            /\ UNCHANGED <<beats, updates>>
       [] rec[s].type = "update" ->
            /\ \A u \in updates : u.to # rec[s].to
            /\ updates' = updates \cup {rec[s]}
            /\ UNCHANGED <<beats, withdrawals>>
       [] OTHER -> UNCHANGED logVars
  /\ UNCHANGED <<now, serviceVars, step, scan, rec, began, tries, due, released>>

\* Mutant: a write whose PUT was merely sent counts as durable.
WrittenUnconfirmed(s, type) ==
  /\ step[s] = "wait"
  /\ rec[s].type = type
  /\ now < due[s]
  /\ step' = [step EXCEPT ![s] = "idle"]
  /\ rec' = [rec EXCEPT ![s] = NONE]
  /\ began' = [began EXCEPT ![s] = 0]
  /\ tries' = [tries EXCEPT ![s] = 0]
  /\ due' = [due EXCEPT ![s] = 0]
  /\ put' = [put EXCEPT ![s] = "none"]
  /\ UNCHANGED <<now, config, limiter, scan, logVars>>

\* A write returns once its record was seen stored before the deadline.
Written(s, type) ==
  /\ step[s] = "wait"
  /\ rec[s].type = type
  /\ put[s] = "stored"
  /\ now < due[s]
  /\ step' = [step EXCEPT ![s] = "idle"]
  /\ rec' = [rec EXCEPT ![s] = NONE]
  /\ began' = [began EXCEPT ![s] = 0]
  /\ tries' = [tries EXCEPT ![s] = 0]
  /\ due' = [due EXCEPT ![s] = 0]
  /\ put' = [put EXCEPT ![s] = "none"]
  /\ UNCHANGED <<now, config, limiter, scan, logVars>>

\* The enclave aborts on every panic: the fence reached, the attempts used
\* up, a key that holds another record.  Its host may stop it at any time.
\* Memory is lost; a PUT that was sent is not called back.
Crash(s) ==
  /\ stage[s] \in {"standby", "active"}
  /\ stage' = [stage EXCEPT ![s] = "dead"]
  /\ limiter' = [limiter EXCEPT ![s] = Genesis(config[s])]
  /\ committee' = [committee EXCEPT ![s] = 0]
  /\ fence' = [fence EXCEPT ![s] = NONE]
  /\ step' = [step EXCEPT ![s] = "idle"]
  /\ scan' = [scan EXCEPT ![s] = 0]
  /\ began' = [began EXCEPT ![s] = 0]
  /\ tries' = [tries EXCEPT ![s] = 0]
  /\ IF put[s] = "sent"
     THEN UNCHANGED <<rec, due, put>>
     ELSE /\ rec' = [rec EXCEPT ![s] = NONE]
          /\ due' = [due EXCEPT ![s] = 0]
          /\ put' = [put EXCEPT ![s] = "none"]
  /\ UNCHANGED <<now, config, logVars, released>>

(***************************************************************************)
(* Heartbeats.                                                             *)
(***************************************************************************)

\* operator_init selects withdraw mode and heartbeats start;
\* provisioner_init arms the session.
Boot(s) ==
  /\ stage[s] = "off"
  /\ stage' = [stage EXCEPT ![s] = "standby"]
  /\ UNCHANGED <<now, config, limiter, committee, fence, step, scan, writeVars,
                 logVars, released>>

Heartbeat(s) ==
  /\ Idle(s)
  /\ \E w \in Wall : StartWrite(s, [type |-> "heartbeat", stamp |-> w])
  /\ UNCHANGED <<now, serviceVars, scan, logVars, released>>

\* Mutant: the fence counts from the confirmation.
HeartbeatRenewsAtEnd(s) ==
  /\ Written(s, "heartbeat")
  /\ fence' = [fence EXCEPT ![s] = now]
  /\ UNCHANGED <<stage, committee, released>>

\* The fence counts from when the write began, not from when it ended.
HeartbeatWritten(s) ==
  /\ Written(s, "heartbeat")
  /\ fence' = [fence EXCEPT ![s] = began[s]]
  /\ UNCHANGED <<stage, committee, released>>

(***************************************************************************)
(* Activation: check the heartbeats, read the committee, then the limiter, *)
(* then log OAActivated.  The lock is held throughout.                     *)
(***************************************************************************)

BeginActivation(s) ==
  /\ Idle(s) /\ stage[s] = "standby"
  /\ step' = [step EXCEPT ![s] = "scan"]
  /\ \E w \in Wall : scan' = [scan EXCEPT ![s] = w]
  /\ UNCHANGED <<now, serviceVars, writeVars, logVars, released>>

\* The scan reads three hour directories around its start.
Scanned(s, b) == b # NONE /\ b \div Hour \in (scan[s] \div Hour) - 1 .. (scan[s] \div Hour) + 1

SessionLive(s, at) == Scanned(s, beats[s]) /\ at - beats[s] <= LiveMaxAge

\* Mutant: the reader also subtracts the budget.
OthersQuietEarly(s) ==
  \A t \in Sessions \ {s} : Scanned(s, beats[t]) => beats[t] + Quiet - Budget <= scan[s]

OthersQuiet(s) ==
  \A t \in Sessions \ {s} : Scanned(s, beats[t]) => beats[t] + Quiet <= scan[s]

\* Others are judged at the scan's start, the session itself at its end.
CheckHeartbeats(s) ==
  /\ step[s] = "scan"
  /\ \E w \in Wall : SessionLive(s, w)
  /\ OthersQuiet(s)
  /\ step' = [step EXCEPT ![s] = "committee"]
  /\ scan' = [scan EXCEPT ![s] = 0]
  /\ UNCHANGED <<now, serviceVars, writeVars, logVars, released>>

\* The key with the greatest epoch, or the genesis record.
LatestCommittee == Max({0} \cup {u.to : u \in updates})

ReadLatestCommittee(s) ==
  /\ step[s] = "committee"
  /\ committee' = [committee EXCEPT ![s] = LatestCommittee]
  /\ step' = [step EXCEPT ![s] = "limiter"]
  /\ UNCHANGED <<now, stage, config, limiter, fence, scan, writeVars, logVars, released>>

\* Mutant: only the latest hour directory is read.
LatestHourWithdrawals ==
  LET latest == Max({w.hour : w \in withdrawals})
  IN  {w \in withdrawals : w.hour = latest}

\* Withdrawals in the latest hour directory and in the one before it.
RecentWithdrawals ==
  LET latest == Max({w.hour : w \in withdrawals})
  IN  {w \in withdrawals : w.hour \in {latest, latest - 1}}

\* The post-state with the greatest next_seq, capped to the configuration.
RecoveredState(c) ==
  IF withdrawals = {} THEN Genesis(c)
  ELSE LET last == CHOOSE w \in RecentWithdrawals :
                     \A v \in RecentWithdrawals : v.seq <= w.seq
       IN  [tokens |-> Min({last.tokens, c.capacity}), at |-> last.at,
            seq |-> last.seq + 1]

RecoverLimiter(s) ==
  /\ step[s] = "limiter"
  /\ limiter' = [limiter EXCEPT ![s] = RecoveredState(config[s])]
  /\ StartWrite(s, [type |-> "activated"])
  /\ UNCHANGED <<now, stage, config, committee, fence, scan, logVars, released>>

\* A failed check or read, or a state other than the operator expected.
RefuseActivation(s) ==
  /\ step[s] \in {"scan", "committee", "limiter"}
  /\ step' = [step EXCEPT ![s] = "idle"]
  /\ scan' = [scan EXCEPT ![s] = 0]
  /\ committee' = [committee EXCEPT ![s] = 0]
  /\ UNCHANGED <<now, stage, config, limiter, fence, writeVars, logVars, released>>

Activated(s) ==
  /\ Written(s, "activated")
  /\ stage' = [stage EXCEPT ![s] = "active"]
  /\ UNCHANGED <<committee, fence, released>>

(***************************************************************************)
(* Service.                                                                *)
(***************************************************************************)

CapacityAt(s, at) ==
  Min({config[s].capacity, limiter[s].tokens + config[s].rate * (at - limiter[s].at)})

\* The certificate must be the in-memory committee's.  Tokens are consumed
\* and the signatures made before the write, and returned after it.
StandardWithdrawal(s) ==
  /\ Idle(s) /\ stage[s] = "active"
  /\ limiter[s].seq < MaxSeq
  /\ \E w \in Wall, v \in Wall : \E at \in w - ReqAge .. w + ReqSkew :
       /\ at >= limiter[s].at
       /\ \E amount \in 1 .. CapacityAt(s, at) :
            LET left == CapacityAt(s, at) - amount IN
            /\ limiter' = [limiter EXCEPT ![s] =
                             [tokens |-> left, at |-> at, seq |-> @.seq + 1]]
            /\ StartWrite(s, [type |-> "withdrawal", session |-> s,
                              seq |-> limiter[s].seq, at |-> at, amount |-> amount,
                              tokens |-> left, by |-> committee[s],
                              hour |-> v \div Hour])
  /\ UNCHANGED <<now, stage, config, committee, fence, scan, logVars, released>>

WithdrawalWritten(s) ==
  /\ Written(s, "withdrawal")
  /\ released' = released \cup {rec[s]}
  /\ UNCHANGED <<stage, committee, fence>>

\* The outgoing committee certified a handoff to a later epoch.
UpdateCommittee(s) ==
  /\ Idle(s) /\ stage[s] = "active"
  /\ \E e \in committee[s] + 1 .. MaxEpoch :
       StartWrite(s, [type |-> "update", from |-> committee[s], to |-> e])
  /\ UNCHANGED <<now, serviceVars, scan, logVars, released>>

\* The committee is replaced once the update is durable.
CommitteeUpdated(s) ==
  /\ Written(s, "update")
  /\ committee' = [committee EXCEPT ![s] = rec[s].to]
  /\ UNCHANGED <<stage, fence, released>>

Next ==
  \/ Tick
  \/ \E s \in Sessions :
       \/ Boot(s) \/ Crash(s)
       \/ Retry(s) \/ AttemptFails(s) \/ Land(s)
       \/ Heartbeat(s) \/ HeartbeatWritten(s)
       \/ BeginActivation(s) \/ CheckHeartbeats(s) \/ ReadLatestCommittee(s)
       \/ RecoverLimiter(s) \/ RefuseActivation(s) \/ Activated(s)
       \/ StandardWithdrawal(s) \/ WithdrawalWritten(s)
       \/ UpdateCommittee(s) \/ CommitteeUpdated(s)

Spec == Init /\ [][Next]_vars

(***************************************************************************)
(* Properties.                                                             *)
(***************************************************************************)

LimiterStates == [tokens : Nat, at : Nat, seq : Nat]
Withdrawals ==
  [type : {"withdrawal"}, session : Sessions, seq : Nat, at : Nat, amount : Nat,
   tokens : Nat, by : Nat, hour : Nat]
Updates == [type : {"update"}, from : Nat, to : Nat]
Records ==
  Withdrawals \cup Updates \cup [type : {"heartbeat"}, stamp : Nat] \cup [type : {"activated"}]

\* Types; a session that writes has a record, and an active one has a fence.
TypeOK ==
  /\ now \in Nat
  /\ stage \in [Sessions -> {"off", "standby", "active", "dead"}]
  /\ config \in [Sessions -> Configs]
  /\ limiter \in [Sessions -> LimiterStates]
  /\ committee \in [Sessions -> Nat]
  /\ fence \in [Sessions -> Nat \cup {NONE}]
  /\ step \in [Sessions -> {"idle", "scan", "committee", "limiter", "wait", "retry"}]
  /\ scan \in [Sessions -> Nat]
  /\ rec \in [Sessions -> Records \cup {NONE}]
  /\ began \in [Sessions -> Nat]
  /\ tries \in [Sessions -> 0 .. MaxAttempts]
  /\ due \in [Sessions -> Nat]
  /\ put \in [Sessions -> {"none", "sent", "stored"}]
  /\ beats \in [Sessions -> Nat \cup {NONE}]
  /\ withdrawals \subseteq Withdrawals
  /\ updates \subseteq Updates
  /\ released \subseteq Withdrawals
  /\ \A s \in Sessions :
       /\ step[s] \in {"wait", "retry"} => rec[s] # NONE
       /\ put[s] # "none" => rec[s] # NONE
       /\ stage[s] = "active" => fence[s] # NONE

\* A session relies on what it read from the log from the check of the
\* heartbeats on.
Relies(s) ==
  \/ stage[s] = "active"
  \/ step[s] \in {"committee", "limiter"}
  \/ step[s] \in {"wait", "retry"} /\ rec[s].type = "activated"

\* A withdrawal or a committee update of s may still become durable.
MayLog(s) ==
  \/ Relies(s) /\ MayAttempt(s)
  \/ put[s] = "sent" /\ rec[s].type \in {"withdrawal", "update"}

\* Fencing: while one session relies on the log and may extend it, no other
\* session, alive or dead, can still extend it.
OneWriter ==
  \A s, t \in Sessions : Relies(s) /\ MayAttempt(s) /\ MayLog(t) => s = t

\* Across failovers the withdrawals in the log are one history of one token
\* bucket: a sequence number is used once, none is skipped, time does not go
\* back, and an outflow is covered by what its predecessor left plus the
\* refill since, within the capacity.
LimiterChain ==
  \A w \in withdrawals :
    /\ \A v \in withdrawals : v.seq = w.seq => v = w
    /\ w.amount + w.tokens <= config[w.session].capacity
    /\ w.seq > 0 =>
         \E p \in withdrawals :
           /\ p.seq = w.seq - 1
           /\ p.at <= w.at
           /\ w.amount + w.tokens <= p.tokens + config[w.session].rate * (w.at - p.at)

\* Every withdrawal whose signatures left an enclave is in the log, and a
\* session that may still sign has counted it.
SignaturesCounted ==
  \A w \in released :
    /\ w \in withdrawals
    /\ \A s \in Sessions : stage[s] = "active" /\ MayAttempt(s) => w.seq < limiter[s].seq

\* Committee updates in the log form one chain from genesis, and a later
\* withdrawal is never authorized by an earlier committee, whichever session
\* signed it.
CommitteeChain ==
  /\ \A u \in updates :
       /\ u.from = 0 \/ \E p \in updates : p.to = u.from
       /\ \A v \in updates : v # u => v.to <= u.from \/ u.to <= v.from
  /\ \A v, w \in withdrawals : v.seq < w.seq => v.by <= w.by

=============================================================================
