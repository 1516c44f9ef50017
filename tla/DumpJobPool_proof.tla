------------------------- MODULE DumpJobPool_proof -------------------------
(***************************************************************************)
(* DumpJob implements JobPool: what its rows, children and schedulers do   *)
(* is what the abstract pool of jobs allows, for all constants.            *)
(*                                                                         *)
(* A step changes phases in one of five ways (PhaseStep), which follow     *)
(* from the table of DumpJobSteps_proof.  Two things have to be known for  *)
(* the step to be one of the pool: a job in a retry state failed where it  *)
(* held a slot (LastOk), and the stage of a run says which phases its jobs *)
(* can be in (StageOk), so that no clone is left when dumps are queued.    *)
(***************************************************************************)
EXTENDS DumpJobSteps_proof

\* A job that failed did so at work.
LastOk(r) == r.state \in RetryStates => r.last \in ActiveStates \ RetryStates

Phases == {"pending", "cloning", "cloned", "queued", "dumping", "ended"}

\* The phases in which a stage of a run finds its jobs.  What the first of the
\* last two looks found still holds at the second, and what both found when the
\* run is moved on.
StageOk(st, p) ==
  /\ st = "CLSCHED_ASK_RUNNING" => p # "pending"
  /\ st \notin CloneStages \ {"CLSCHED_OVER"} => p \notin {"pending", "cloning"}
  /\ st \in DumpStages \cup ReportStages => p # "cloned"
  /\ st = "DUMPSCHED_ASK_RUNNING" => p # "queued"
  /\ st \in ReportStages \cup {"DUMPSCHED_OVER"} => p = "ended"

RowsInPhase == \A j \in Job : LastOk(row[j])

StagesOk == \A j \in Job : StageOk(stage[RunOf[j]], PhaseOf(row[j]))

PoolInv == StepInv /\ QuotaInv /\ RowsInPhase /\ StagesOk

\* How the phase of a job changes in one step.
PhaseStep(p, q) ==
  \/ q = p
  \/ p = "pending" /\ q = "cloning"
  \/ p = "cloning" /\ q = "cloned"
  \/ p = "cloned" /\ q = "queued"
  \/ p = "queued" /\ q = "dumping"
  \/ p \in {"cloning", "dumping"} /\ q = "ended"

-----------------------------------------------------------------------------
(***************************************************************************)
(* Phases and states.                                                      *)
(***************************************************************************)

\* What the phase of a row says of its state.
LEMMA PhaseFacts ==
  ASSUME NEW r \in Row, LastOk(r)
  PROVE  /\ PhaseOf(r) \in Phases
         /\ PhaseOf(r) = "pending" <=> r.state = "CLONE_PENDING"
         /\ PhaseOf(r) = "cloned" <=> r.state = "CLONE_DONE"
         /\ PhaseOf(r) = "queued" <=> r.state = "DUMP_PENDING"
         /\ PhaseOf(r) \in {"cloning", "dumping"} <=> r.state \in ActiveStates
         /\ PhaseOf(r) = "ended" <=> r.state \in EndStates
         /\ PhaseOf(r) \in {"pending", "cloning"} <=>
              \/ r.state \in CloneStates
              \/ r.state \in RetryStates /\ r.last \in CloneStates
<1>1. r.state \in State
  BY DEF Row
<1>2. CASE r.state \in RetryStates
  BY <1>2 DEF LastOk, PhaseOf, Phases, ActiveStates, CloneStates, DumpStates,
              RetryStates, EndStates
<1>3. CASE r.state \in CloneStates \cup {"CLONE_DONE", "DUMP_PENDING"}
  BY <1>3 DEF PhaseOf, Phases, ActiveStates, CloneStates, DumpStates,
              RetryStates, EndStates
<1>4. CASE r.state \in DumpStates \cup EndStates
  BY <1>4 DEF PhaseOf, Phases, ActiveStates, CloneStates, DumpStates,
              RetryStates, EndStates
<1> QED  BY <1>1, <1>2, <1>3, <1>4 DEF State

\* The phase of a row whose job is at work.
LEMMA WorkPhases ==
  ASSUME NEW r
  PROVE  /\ r.state \in {"CLONE_READY", "CLONE_START", "CLONE_WORK"} => PhaseOf(r) = "cloning"
         /\ r.state \in {"DUMP_READY", "DUMP_START", "DUMP_WORK"} => PhaseOf(r) = "dumping"
         /\ r.state \in RetryStates =>
              /\ r.last \in {"CLONE_READY", "CLONE_START", "CLONE_WORK"} => PhaseOf(r) = "cloning"
              /\ r.last \in {"DUMP_READY", "DUMP_START", "DUMP_WORK"} => PhaseOf(r) = "dumping"
BY DEF PhaseOf, RetryStates, CloneStates, DumpStates

\* Every change of a row in the table keeps its last state right, and moves its
\* phase on.
LEMMA RowPhase ==
  ASSUME NEW r \in Row, NEW n \in Row, NEW dumped, RowStep(r, n, dumped), LastOk(r)
  PROVE  LastOk(n) /\ PhaseStep(PhaseOf(r), PhaseOf(n))
<1>0. r.state \in State
  BY DEF Row
<1>1. CASE n = r
  BY <1>1 DEF PhaseStep
<1>2. CASE GoesOn(r, n)
  <2>1. CASE r.state \in RetryStates /\ n.state = "FAILED"
    <3>1. LastOk(n) /\ PhaseOf(n) = "ended"
      BY <2>1 DEF LastOk, PhaseOf, RetryStates, CloneStates, DumpStates
    <3>2. PhaseOf(r) \in {"cloning", "dumping"}
      BY <2>1, PhaseFacts DEF ActiveStates
    <3> QED  BY <3>1, <3>2 DEF PhaseStep
  <2>2. CASE r.state \in RetryStates /\ n.state \in RetryStates
    <3>1. PhaseOf(n) = PhaseOf(r) /\ LastOk(n)
      BY <1>2, <2>2 DEF GoesOn, Keeps, LastOk, PhaseOf
    <3> QED  BY <3>1 DEF PhaseStep
  <2>3. CASE r.state \notin RetryStates
    BY <1>2, <2>3 DEF GoesOn, Keeps, Follows, LastOk, PhaseOf, PhaseStep,
                      RetryStates, CloneStates, DumpStates
  <2>4. r.state \in RetryStates => n.state = "FAILED" \/ n.state \in RetryStates
    BY <1>2 DEF GoesOn, Follows, RetryStates
  <2> QED  BY <2>1, <2>2, <2>3, <2>4
<1>3. CASE EndsWell(r, n, dumped) \/ IsSkipped(r, n) \/ ScansBadly(r, n)
  BY <1>3 DEF EndsWell, IsSkipped, ScansBadly, LastOk, PhaseOf, PhaseStep,
              RetryStates, CloneStates, DumpStates
<1>4. CASE Errs(r, n)
  <2>1. r.state \in {"CLONE_READY", "CLONE_START", "CLONE_WORK",
                     "DUMP_READY", "DUMP_START", "DUMP_WORK"}
    BY <1>4, ActiveFacts DEF Errs, RetryStates
  <2>2. n.state \in RetryStates /\ n.last = r.state
    BY <1>4 DEF Errs, RetryStates
  <2>3. PhaseOf(n) = PhaseOf(r)
    BY <2>1, <2>2, WorkPhases
  <2> QED  BY <1>4, <2>2, <2>3 DEF Errs, LastOk, PhaseStep
<1>5. CASE GoesBack(r, n)
  <2>1. r.state \in RetryStates
    BY <1>5 DEF GoesBack, RetryStates
  <2>2. \/ r.last = "CLONE_WORK" /\ n.state = "CLONE_START"
        \/ r.last = "DUMP_WORK" /\ n.state = "DUMP_START"
    BY <1>5 DEF GoesBack, RetryState
  <2>3. LastOk(n)
    BY <2>2 DEF LastOk, RetryStates
  <2>4. PhaseOf(n) = PhaseOf(r)
    BY <2>1, <2>2, WorkPhases
  <2> QED  BY <2>3, <2>4 DEF PhaseStep
<1> QED  BY <1>1, <1>2, <1>3, <1>4, <1>5 DEF RowStep

\* All rows at once.
PhaseSteps ==
  \A j \in Job : LastOk(row'[j]) /\ PhaseStep(PhaseOf(row[j]), PhaseOf(row'[j]))

LEMMA NextPhases ==
  ASSUME StepInv, RowsInPhase, [Next]_vars
  PROVE  PhaseSteps
<1>1. RowSteps
  BY NextRows DEF StepInv
<1>2. TypeOK /\ TypeOK'
  BY NextType DEF StepInv, OwnerInv
<1>3. \A j \in Job : row[j] \in Row /\ row'[j] \in Row
  BY <1>2 DEF TypeOK
<1> QED  BY <1>1, <1>3, RowPhase DEF RowSteps, RowsInPhase, PhaseSteps

-----------------------------------------------------------------------------
(***************************************************************************)
(* The stages of the runs.                                                 *)
(***************************************************************************)

\* A stage finds its jobs in the same phases after a step it had no part in.
LEMMA StageKeeps ==
  ASSUME NEW st, NEW p, NEW q, StageOk(st, p), PhaseStep(p, q)
  PROVE  StageOk(st, q)
BY DEF StageOk, PhaseStep, CloneStages, DumpStages, ReportStages

\* The barriers are what the stages say of the phases.
LEMMA StageMeaning ==
  ASSUME TypeOK, RowsInPhase, StagesOk
  PROVE  StageBarrier
<1>1. ASSUME NEW j \in Job
      PROVE  /\ row[j] \in Row /\ LastOk(row[j])
             /\ stage[RunOf[j]] \in Stage
             /\ StageOk(stage[RunOf[j]], PhaseOf(row[j]))
  BY QuotaAssumption DEF TypeOK, RowsInPhase, StagesOk
<1> QED  BY <1>1, PhaseFacts DEF StageBarrier, StageOk, CloneStages

\* What a scheduling stage finds, it finds wherever its child is; the end of a
\* stage is the next one's beginning.
LEMMA SchedMoves ==
  ASSUME NEW s \in Scheduling, NEW p
  PROVE  /\ \A st \in {s.start, s.work, s.askPending, s.askRunning, s.again} :
              StageOk(st, p) =>
                \A new \in {s.start, s.work, s.askPending, s.again} : StageOk(new, p)
         /\ StageOk(s.over, p) => StageOk(s.next, p)
BY DEF StageOk, Scheduling, CloneStages, DumpStages, ReportStages

\* The first of the last looks.
LEMMA NoneWaits ==
  ASSUME NEW s \in Scheduling, NEW p \in Phases, StageOk(s.askPending, p),
         s.pending = "CLONE_PENDING" => p # "pending",
         s.pending = "DUMP_PENDING" => p # "queued"
  PROVE  StageOk(s.askRunning, p)
BY DEF StageOk, Scheduling, CloneStages, DumpStages, ReportStages

\* The second.
LEMMA NoneRuns ==
  ASSUME NEW s \in Scheduling, NEW p \in Phases, StageOk(s.askRunning, p),
         p \notin {"cloning", "dumping"}
  PROVE  StageOk(s.over, p)
BY DEF StageOk, Scheduling, Phases, CloneStages, DumpStages, ReportStages

\* A run moves on only past jobs that are through with the stage.
LEMMA NextStages ==
  ASSUME PoolInv, [Next]_vars
  PROVE  StagesOk'
<1>0. /\ TypeOK /\ TypeOK' /\ StepInv /\ SlotInv /\ RowsInPhase /\ StagesOk /\ PhaseSteps
  BY NextType, NextPhases DEF PoolInv, StepInv, OwnerInv
<1>1. ASSUME NEW j \in Job
      PROVE  /\ row[j] \in Row /\ LastOk(row[j]) /\ RunOf[j] \in Run
             /\ StageOk(stage[RunOf[j]], PhaseOf(row[j]))
             /\ StageOk(stage[RunOf[j]], PhaseOf(row'[j]))
             /\ row[j].running <=> row[j].state \in ActiveStates
  BY <1>0, QuotaAssumption, StageKeeps
     DEF TypeOK, RowsInPhase, StagesOk, PhaseSteps, SlotInv, RowOk
<1>2. ASSUME stage' = stage PROVE StagesOk'
  BY <1>1, <1>2 DEF StagesOk
<1>3. ASSUME NEW r \in Run, NEW st, stage' = [stage EXCEPT ![r] = st],
             \A j \in JobsOf(r) : StageOk(st, PhaseOf(row'[j]))
      PROVE  StagesOk'
  <2>1. ASSUME NEW j \in Job PROVE StageOk(stage'[RunOf[j]], PhaseOf(row'[j]))
    <3>1. CASE RunOf[j] = r
      BY <1>0, <1>3, <3>1 DEF JobsOf, TypeOK
    <3>2. CASE RunOf[j] # r
      BY <1>0, <1>1, <1>3, <3>2 DEF TypeOK
    <3> QED  BY <3>1, <3>2
  <2> QED  BY <2>1 DEF StagesOk
<1>4. ASSUME NEW r \in Run, NEW s \in Scheduling, CountRunning(r, s) PROVE StagesOk'
  <2>1. \A j \in JobsOf(r) : StageOk(s.work, PhaseOf(row'[j]))
    BY <1>1, <1>4, SchedMoves DEF CountRunning, JobsOf
  <2> QED  BY <1>3, <1>4, <2>1 DEF CountRunning
<1>5. ASSUME NEW r \in Run, NEW s \in Scheduling, Schedule(r, s) PROVE StagesOk'
  <2>1. PICK st \in {s.askPending, s.again} : stage' = [stage EXCEPT ![r] = st]
    BY <1>5 DEF Schedule
  <2>2. stage[r] = s.work
    BY <1>5 DEF Schedule
  <2>3. \A j \in JobsOf(r) : StageOk(st, PhaseOf(row'[j]))
    BY <1>1, <2>2, SchedMoves DEF JobsOf
  <2> QED  BY <1>3, <2>1, <2>3
<1>12. ASSUME NEW r \in Run, NEW s \in Scheduling, Look(r, s) PROVE StagesOk'
  <2>1. ASSUME NEW j \in JobsOf(r)
        PROVE  /\ j \in Job /\ RunOf[j] = r /\ row[j] \in Row /\ row'[j] = row[j]
               /\ StageOk(stage[r], PhaseOf(row[j])) /\ PhaseOf(row[j]) \in Phases
    BY <1>1, <1>12, LookFacts, PhaseFacts DEF JobsOf
  <2>2. CASE stage[r] = s.askPending /\ Waiting(r, s) = {}
             /\ stage' = [stage EXCEPT ![r] = s.askRunning]
    <3>1. ASSUME NEW j \in JobsOf(r) PROVE StageOk(s.askRunning, PhaseOf(row'[j]))
      <4>1. row[j].state # s.pending
        BY <2>1, <2>2 DEF Waiting, InState
      <4>2. s.pending = "CLONE_PENDING" => PhaseOf(row[j]) # "pending"
        BY <1>1, <2>1, <4>1, PhaseFacts
      <4>3. s.pending = "DUMP_PENDING" => PhaseOf(row[j]) # "queued"
        BY <1>1, <2>1, <4>1, PhaseFacts
      <4> QED  BY <2>1, <2>2, <4>2, <4>3, NoneWaits
    <3> QED  BY <1>3, <2>2, <3>1
  <2>3. CASE stage[r] = s.askRunning /\ Running(r) = {}
             /\ stage' = [stage EXCEPT ![r] = s.over]
    <3>1. ASSUME NEW j \in JobsOf(r) PROVE StageOk(s.over, PhaseOf(row'[j]))
      <4>1. row[j].state \notin ActiveStates
        BY <1>1, <2>1, <2>3 DEF Running
      <4>2. PhaseOf(row[j]) \notin {"cloning", "dumping"}
        BY <1>1, <2>1, <4>1, PhaseFacts
      <4> QED  BY <2>1, <2>3, <4>2, NoneRuns
    <3> QED  BY <1>3, <2>3, <3>1
  <2>4. CASE stage[r] = s.over /\ stage' = [stage EXCEPT ![r] = s.next]
    <3>1. \A j \in JobsOf(r) : StageOk(s.next, PhaseOf(row'[j]))
      BY <2>1, <2>4, SchedMoves
    <3> QED  BY <1>3, <2>4, <3>1
  <2>5. CASE \E st \in {s.again, s.start} :
               /\ stage[r] \in {s.askPending, s.askRunning, s.again}
               /\ stage' = [stage EXCEPT ![r] = st]
    <3>1. PICK st \in {s.again, s.start} : stage' = [stage EXCEPT ![r] = st]
      BY <2>5
    <3>2. \A j \in JobsOf(r) : StageOk(st, PhaseOf(row'[j]))
      BY <2>1, <2>5, SchedMoves
    <3> QED  BY <1>3, <3>1, <3>2
  <2> QED  BY <1>12, <2>2, <2>3, <2>4, <2>5 DEF Look, AskPending, AskRunning, EndSched
<1>6. ASSUME NEW r \in Run, CreateDumps(r) PROVE StagesOk'
  <2>1. ASSUME NEW j \in JobsOf(r)
        PROVE  StageOk("BRUN_DUMPSCHED_START", PhaseOf(row'[j]))
    <3>1. j \in Job /\ RunOf[j] = r /\ stage[r] = "BRUN_DUMPCREATE_START"
      BY <1>6 DEF JobsOf, CreateDumps
    <3>2. PhaseOf(row'[j]) # "cloned"
      <4>1. CASE row[j].state = "CLONE_DONE"
        <5>1. row'[j] = Untimed(row[j], "DUMP_PENDING")
          BY <1>6, <3>1, <4>1 DEF CreateDumps, UpdateRows, InState
        <5>2. row'[j].state = "DUMP_PENDING"
          BY <1>1, <3>1, <5>1, StateFacts, RowFields
        <5> QED  BY <5>2 DEF PhaseOf, RetryStates, CloneStates
      <4>2. CASE row[j].state # "CLONE_DONE"
        <5>1. row'[j] = row[j]
          BY <1>6, <3>1, <4>2 DEF CreateDumps, UpdateRows, InState
        <5> QED  BY <1>1, <3>1, <4>2, <5>1, PhaseFacts
      <4> QED  BY <4>1, <4>2
    <3> QED  BY <1>1, <3>1, <3>2 DEF StageOk, CloneStages, DumpStages, ReportStages
  <2> QED  BY <1>3, <1>6, <2>1 DEF CreateDumps
<1>7. ASSUME NEW r \in Run, Report(r) PROVE StagesOk'
  <2>1. \A j \in JobsOf(r) : StageOk("BRUN_REPORT_DONE", PhaseOf(row'[j]))
    BY <1>1, <1>7 DEF Report, JobsOf, StageOk, CloneStages, DumpStages, ReportStages
  <2> QED  BY <1>3, <1>7, <2>1 DEF Report
<1>8. ASSUME NEW r \in Run, RunStep(r) PROVE StagesOk'
  BY <1>4, <1>5, <1>6, <1>7, <1>8, <1>12 DEF RunStep, Look
<1>9. CASE ServerStep \/ CheckStale
  BY <1>2, <1>9 DEF ServerStep, TakeUp, Fork, Retire, CheckStale
<1>10. ASSUME NEW k \in kids, KidStep(k) \/ Die(k) PROVE StagesOk'
  BY <1>2, <1>10 DEF KidStep, Clone, Cloned, Skip, Fetch, Scan, Commit, Record,
                     Dumped, Reject, Recover, Fail, LoseRow, Die
<1>11. CASE UNCHANGED vars
  BY <1>2, <1>11 DEF vars
<1> QED  BY <1>8, <1>9, <1>10, <1>11 DEF Next

\* The invariant is inductive.
LEMMA InitPool == Init => PoolInv
<1> SUFFICES ASSUME Init PROVE PoolInv
  OBVIOUS
<1>1. ASSUME NEW j \in Job
      PROVE  /\ row[j].state = "CLONE_PENDING" /\ stage[RunOf[j]] = "BRUN_CLSCHED_START"
             /\ PhaseOf(row[j]) = "pending"
  BY QuotaAssumption DEF Init, NewRow, PhaseOf, RetryStates
<1>2. RowsInPhase
  BY <1>1 DEF RowsInPhase, LastOk, RetryStates
<1>3. StagesOk
  BY <1>1 DEF StagesOk, StageOk, CloneStages, DumpStages, ReportStages
<1> QED  BY <1>2, <1>3, InitSteps, InitQuota DEF PoolInv

LEMMA NextPool == PoolInv /\ [Next]_vars => PoolInv'
<1> SUFFICES ASSUME PoolInv, [Next]_vars PROVE PoolInv'
  OBVIOUS
<1>1. StepInv' /\ QuotaInv'
  BY NextSteps, NextQuota DEF PoolInv
<1>2. (\A j \in Job : LastOk(row[j]))'
  BY NextPhases DEF PoolInv, PhaseSteps
<1>3. RowsInPhase'
  BY <1>2 DEF RowsInPhase
<1> QED  BY <1>1, <1>3, NextStages DEF PoolInv

\* A run that moved on left no job behind.
THEOREM NoneLeftBehind == Spec => []StageBarrier
<1>1. PoolInv => StageBarrier
  BY StageMeaning DEF PoolInv, StepInv, OwnerInv
<1> QED  BY <1>1, InitPool, NextPool, PTL DEF Spec

-----------------------------------------------------------------------------
(***************************************************************************)
(* Every step is one of the pool.                                          *)
(***************************************************************************)

\* The phases as the pool sees them.
Now == [j \in Job |-> PhaseOf(row[j])]

\* A step of the pool, or none.
PoolStep == [Pool!PoolNext]_Now

\* No phase changes.
LEMMA SamePhases ==
  ASSUME \A j \in Job : PhaseOf(row'[j]) = PhaseOf(row[j])
  PROVE  PoolStep
BY DEF PoolStep, Now

\* Jobs that hold a slot end, and nothing else happens.
LEMMA SomeEnd ==
  ASSUME \A j \in Job : \/ PhaseOf(row'[j]) = PhaseOf(row[j])
                        \/ /\ PhaseOf(row[j]) \in {"cloning", "dumping"}
                           /\ PhaseOf(row'[j]) = "ended"
  PROVE  PoolStep
<1> DEFINE S == {j \in Job : PhaseOf(row'[j]) # PhaseOf(row[j])}
<1>1. S \in SUBSET Job
  OBVIOUS
<1>2. Pool!End(S)
  BY DEF Pool!End
<1> QED  BY <1>1, <1>2 DEF PoolStep, Now, Pool!PoolNext

\* One job moves on.
LEMMA OneMoves ==
  ASSUME TypeOK, RowsInPhase, PhaseSteps, NEW j \in Job,
         row[j].state \in ActiveStates,
         \A i \in Job \ {j} : row'[i] = row[i]
  PROVE  PoolStep
<1>1. PhaseOf(row[j]) \in {"cloning", "dumping"}
  BY PhaseFacts DEF TypeOK, RowsInPhase
<1>2. CASE PhaseOf(row'[j]) = "cloned" /\ PhaseOf(row[j]) = "cloning"
  <2>1. Pool!FinishClones({j})
    <3>1. \A i \in {j} : Now[i] = "cloning"
      BY <1>2 DEF Now
    <3>2. [i \in Job |-> PhaseOf(row'[i])] =
            [i \in Job |-> IF i \in {j} THEN "cloned"
                          ELSE IF i \in {j} THEN "ended" ELSE Now[i]]
      BY <1>2 DEF Now
    <3> QED  BY <3>1, <3>2 DEF Pool!FinishClones, Now
  <2> QED  BY <2>1 DEF PoolStep, Now, Pool!PoolNext
<1>3. CASE ~ (PhaseOf(row'[j]) = "cloned" /\ PhaseOf(row[j]) = "cloning")
  <2>1. PhaseStep(PhaseOf(row[j]), PhaseOf(row'[j]))
    BY DEF PhaseSteps
  <2>2. PhaseOf(row'[j]) \in {PhaseOf(row[j]), "ended"}
    BY <1>1, <1>3, <2>1 DEF PhaseStep
  <2> QED  BY <1>1, <2>2, SomeEnd
<1> QED  BY <1>2, <1>3

\* A child's step.
LEMMA KidPool ==
  ASSUME PoolInv, PhaseSteps, NEW k \in kids, KidStep(k)
  PROVE  PoolStep
<1>0. TypeOK /\ SlotInv /\ RowsInPhase
  BY DEF PoolInv, StepInv, OwnerInv
<1>1. CASE row' = row
  BY <1>1, SamePhases
<1>2. ASSUME NEW new, Fresh(k), row' = [row EXCEPT ![k.job] = new] PROVE PoolStep
  <2>1. k.job \in Job /\ row[k.job].state \in ActiveStates
    BY <1>0, <1>2, FreshIsActive
  <2>2. \A i \in Job \ {k.job} : row'[i] = row[i]
    BY <1>0, <1>2 DEF TypeOK
  <2> QED  BY <1>0, <2>1, <2>2, OneMoves
<1>3. ASSUME NEW at, Touch(k, at) PROVE PoolStep
  BY <1>2, <1>3, Zenon DEF Touch
<1>4. ASSUME NEW new, Finish(k, new) PROVE PoolStep
  BY <1>2, <1>4 DEF Finish
<1>5. CASE Clone(k) \/ Fetch(k)
  BY <1>3, <1>5, Zenon DEF Clone, Fetch
<1>6. CASE Scan(k)
  <2>1. CASE /\ Fresh(k)
             /\ row' = [row EXCEPT ![k.job] =
                          [Timed(@, @.state) EXCEPT !.errors = k.errors + 1]]
    <3> DEFINE new == [Timed(row[k.job], row[k.job].state) EXCEPT !.errors = k.errors + 1]
    <3>1. row' = [row EXCEPT ![k.job] = new]
      BY <2>1, Zenon
    <3> HIDE DEF new
    <3> QED  BY <1>2, <2>1, <3>1
  <2> QED  BY <1>3, <1>6, <2>1, Zenon DEF Scan
<1>7. CASE \/ Cloned(k) \/ Skip(k) \/ Dumped(k) \/ Recover(k) \/ Fail(k)
  BY <1>4, <1>7, Zenon DEF Cloned, Skip, Dumped, Recover, Fail
<1>8. CASE Reject(k)
  BY <1>1, <1>4, <1>8, Zenon DEF Reject
<1>9. CASE Commit(k) \/ Record(k) \/ LoseRow(k)
  BY <1>1, <1>9 DEF Commit, Record, LoseRow
<1> QED  BY <1>5, <1>6, <1>7, <1>8, <1>9 DEF KidStep

\* The passes move jobs within their phases, the sweep ends recoveries.
LEMMA ServerPool ==
  ASSUME PoolInv, PhaseSteps, ServerStep \/ CheckStale
  PROVE  PoolStep
<1>0. /\ TypeOK /\ SlotInv /\ RowsInPhase
      /\ \A j \in Job : /\ row[j] \in Row /\ LastOk(row[j])
                        /\ PhaseStep(PhaseOf(row[j]), PhaseOf(row'[j]))
  BY DEF PoolInv, StepInv, OwnerInv, TypeOK, RowsInPhase, PhaseSteps
<1>1. ASSUME NEW j \in Job, row[j].state \in ActiveStates \cup EndStates,
             row'[j].state # "CLONE_DONE", LastOk(row'[j]), row'[j] \in Row
      PROVE  \/ PhaseOf(row'[j]) = PhaseOf(row[j])
             \/ /\ PhaseOf(row[j]) \in {"cloning", "dumping"}
                /\ PhaseOf(row'[j]) = "ended"
  <2>1. PhaseOf(row[j]) \in {"cloning", "dumping", "ended"}
    BY <1>0, <1>1, PhaseFacts
  <2>2. PhaseOf(row'[j]) # "cloned"
    BY <1>1, PhaseFacts
  <2> QED  BY <1>0, <2>1, <2>2 DEF PhaseStep
<1>2. ASSUME \A j \in Job : \/ row'[j] = row[j]
                            \/ /\ row[j].state \in ActiveStates \cup EndStates
                               /\ row'[j].state # "CLONE_DONE"
      PROVE  PoolStep
  <2>1. \A j \in Job : LastOk(row'[j]) /\ row'[j] \in Row
    <3>1. TypeOK'
      BY <1>0, NextType DEF Next
    <3> QED  BY <3>1 DEF PhaseSteps, TypeOK
  <2> QED  BY <1>1, <1>2, <2>1, SomeEnd
<1>3. ASSUME NEW pass \in Passes, TakeUp(pass) \/ Fork(pass) PROVE PoolStep
  <2>1. ASSUME NEW j \in Job, row'[j] # row[j]
        PROVE  /\ row[j].state \in {pass.from, pass.start}
               /\ row'[j].state \in {pass.start, pass.work}
    <3>1. /\ j \in InState(pass.from) \cup InState(pass.start)
          /\ row'[j] \in {Untimed(row[j], pass.start), Timed(row[j], pass.work)}
      BY <1>3, <2>1 DEF TakeUp, Fork, UpdateRows
    <3>2. pass.start \in State /\ pass.work \in State
      BY PassFacts, StateFacts
    <3>3. /\ Untimed(row[j], pass.start).state = pass.start
          /\ Timed(row[j], pass.work).state = pass.work
      BY <1>0, <3>2, RowFields
    <3> QED  BY <3>1, <3>3 DEF InState
  <2> QED  BY <1>2, <2>1, PassFacts, ActiveFacts
<1>4. ASSUME NEW from \in {"DUMP_DONE", "DUMP_SKIPPED"}, Retire(from) PROVE PoolStep
  <2>1. ASSUME NEW j \in Job, row'[j] # row[j]
        PROVE  row[j].state \in EndStates /\ row'[j].state = "DONE"
    <3>1. j \in InState(from) /\ row'[j] = Untimed(row[j], "DONE")
      BY <1>4, <2>1 DEF Retire, UpdateRows
    <3> QED  BY <1>0, <1>4, <3>1, StateFacts, RowFields DEF InState, EndStates
  <2> QED  BY <1>2, <2>1
<1>5. ASSUME CheckStale PROVE PoolStep
  <2>1. ASSUME NEW j \in Job, row'[j] # row[j]
        PROVE  row[j].state \in ActiveStates /\ row'[j].state # "CLONE_DONE"
    <3>1. row[j].timed /\ row'[j] = Errored(row[j], row[j])
      BY <1>5, <2>1 DEF CheckStale, UpdateRows
    <3>2. row[j].state \in State /\ row[j].errors \in Nat
      BY <1>0 DEF Row
    <3>3. Errored(row[j], row[j]).state \in {"FAILED", "ERROR"}
      BY <1>0, <3>2, StateFacts, RowFields, ErroredValues
    <3> QED  BY <1>0, <3>1, <3>3 DEF SlotInv, RowOk
  <2> QED  BY <1>2, <2>1
<1> QED  BY <1>3, <1>4, <1>5 DEF ServerStep

\* The jobs of a run that hold a slot in the pool are those whose rows say so.
LEMMA BusyIsRunning ==
  ASSUME TypeOK, SlotInv, RowsInPhase, NEW r \in Run
  PROVE  Pool!Busy(r) = Running(r)
<1>1. ASSUME NEW j \in Job
      PROVE  PhaseOf(row[j]) \in {"cloning", "dumping"} <=> row[j].running
  <2>1. row[j] \in Row /\ LastOk(row[j]) /\ RowOk(row[j])
    BY DEF TypeOK, RowsInPhase, SlotInv
  <2> QED  BY <2>1, PhaseFacts DEF RowOk
<1> QED  BY <1>1 DEF Pool!Busy, Pool!In, Pool!JobsOf, Running, JobsOf

\* The quotas of the pool are those of the scheduler.
LEMMA SameQuota == ASSUME NEW S PROVE WithinQuota(S) => Pool!WithinQuota(S)
<1>1. \A s \in Server : Pool!OnServer(S, s) = OnServer(S, s)
  BY DEF Pool!OnServer, OnServer
<1>2. \A p \in Partition : Pool!OnPartition(S, p) = OnPartition(S, p)
  BY DEF Pool!OnPartition, OnPartition
<1> QED  BY <1>1, <1>2, Zenon DEF WithinQuota, Pool!WithinQuota, Cardinality, Pool!Cardinality

\* The scheduler admits what fits on top of what runs.
LEMMA SchedulePool ==
  ASSUME PoolInv, PhaseSteps, NEW r \in Run, NEW s \in Scheduling, Schedule(r, s)
  PROVE  PoolStep
<1>0. /\ TypeOK /\ SlotInv /\ RowsInPhase /\ CountHolds /\ QuotaRespected
  BY DEF PoolInv, StepInv, OwnerInv, QuotaInv
<1>1. PICK S \in Batches(counted[r], Waiting(r, s)) :
        UpdateRows(S, LAMBDA x : [Timed(x, s.ready) EXCEPT !.running = TRUE])
  BY DEF Schedule
<1>2. S \in SUBSET (InState(s.pending) \cap JobsOf(r)) /\ Fits(counted[r], S)
  BY <1>1 DEF Batches, Waiting
<1>3. S \in SUBSET Job /\ S \in SUBSET JobsOf(r)
  BY <1>2 DEF JobsOf
<1>4. \A j \in Job \ S : row'[j] = row[j]
  BY <1>1 DEF UpdateRows
<1>5. CASE S = {}
  BY <1>4, <1>5, SamePhases
<1>6. CASE S # {}
  <2>1. WithinQuota(Running(r) \cup S)
    <3>1. Running(r) \in SUBSET counted[r] /\ counted[r] \in SUBSET Job
      BY <1>0 DEF Schedule, CountHolds, TypeOK
    <3> QED  BY <1>0, <1>2, <1>3, <3>1, BatchFits DEF QuotaRespected
  <2>2. Pool!WithinQuota(Pool!Busy(r) \cup S)
    <3>1. WithinQuota(Pool!Busy(r) \cup S)
      BY <1>0, <2>1, BusyIsRunning
    <3> QED  BY <3>1, SameQuota
  <2> DEFINE waiting == IF s.pending = "CLONE_PENDING" THEN "pending" ELSE "queued"
  <2> DEFINE busy == IF s.pending = "CLONE_PENDING" THEN "cloning" ELSE "dumping"
  <2>3. ASSUME NEW j \in S
        PROVE  PhaseOf(row[j]) = waiting /\ PhaseOf(row'[j]) = busy
    <3>1. j \in Job /\ row[j] \in Row /\ LastOk(row[j]) /\ row[j].state = s.pending
      BY <1>0, <1>2 DEF TypeOK, RowsInPhase, InState
    <3>2. PhaseOf(row[j]) = waiting
      BY <3>1, SchedulingFacts, PhaseFacts
    <3>3. row'[j].state = s.ready
      <4> DEFINE x == Timed(row[j], s.ready)
      <4>1. row'[j] = [x EXCEPT !.running = TRUE]
        BY <1>1, <3>1 DEF UpdateRows
      <4>2. s.ready \in State
        BY SchedulingFacts, StateFacts
      <4>3. x \in Row
        BY <3>1, <4>2, RowType
      <4>4. x.state = s.ready
        BY <3>1, <4>2, RowFields
      <4> HIDE DEF x
      <4> QED  BY <4>1, <4>3, <4>4, FieldValues
    <3>4. PhaseOf(row'[j]) = busy
      BY <3>3, WorkPhases DEF Scheduling
    <3> QED  BY <3>2, <3>4
  <2>4. S \in SUBSET Pool!In(r, {waiting})
    BY <1>3, <2>3 DEF Pool!In, Pool!JobsOf, JobsOf
  <2>5. [j \in Job |-> PhaseOf(row'[j])] =
          [j \in Job |-> IF j \in S THEN busy ELSE Now[j]]
    BY <1>4, <2>3 DEF Now
  <2>6. Pool!Admit(r, waiting, busy)
    <3> HIDE DEF waiting, busy
    <3> QED  BY <1>6, <2>2, <2>4, <2>5 DEF Pool!Admit, Now
  <2> QED  BY <2>6 DEF PoolStep, Now, Pool!PoolNext
<1> QED  BY <1>5, <1>6

\* The steps of a run.
LEMMA RunPool ==
  ASSUME PoolInv, PhaseSteps, NEW r \in Run, RunStep(r)
  PROVE  PoolStep
<1>0. /\ TypeOK /\ RowsInPhase /\ StagesOk
      /\ \A j \in Job : row[j] \in Row /\ LastOk(row[j])
  BY DEF PoolInv, StepInv, OwnerInv, TypeOK, RowsInPhase
<1>1. ASSUME NEW s \in Scheduling, CountRunning(r, s) PROVE PoolStep
  BY <1>1, SamePhases DEF CountRunning
<1>2. CASE Report(r)
  BY <1>2, SamePhases DEF Report
<1>3. CASE CreateDumps(r)
  <2>1. ASSUME NEW j \in JobsOf(r) PROVE PhaseOf(row[j]) \notin {"pending", "cloning"}
    BY <1>0, <1>3 DEF CreateDumps, JobsOf, StagesOk, StageOk, CloneStages
  <2>2. Pool!In(r, {"pending", "cloning"}) = {}
    BY <2>1 DEF Pool!In, Pool!JobsOf, JobsOf
  <2>3. ASSUME NEW j \in Job
        PROVE  PhaseOf(row'[j]) = IF j \in Pool!In(r, {"cloned"}) THEN "queued" ELSE PhaseOf(row[j])
    <3>1. j \in Pool!In(r, {"cloned"}) <=> j \in InState("CLONE_DONE") \cap JobsOf(r)
      BY <1>0, PhaseFacts DEF Pool!In, Pool!JobsOf, JobsOf, InState
    <3>2. CASE j \in InState("CLONE_DONE") \cap JobsOf(r)
      <4>1. row'[j] = Untimed(row[j], "DUMP_PENDING")
        BY <1>3, <3>2 DEF CreateDumps, UpdateRows
      <4>2. row'[j].state = "DUMP_PENDING"
        BY <1>0, <4>1, StateFacts, RowFields
      <4>3. PhaseOf(row'[j]) = "queued"
        BY <4>2 DEF PhaseOf, RetryStates, CloneStates
      <4> QED  BY <3>1, <3>2, <4>3
    <3>3. CASE j \notin InState("CLONE_DONE") \cap JobsOf(r)
      BY <1>3, <3>1, <3>3 DEF CreateDumps, UpdateRows
    <3> QED  BY <3>2, <3>3
  <2>4. Pool!QueueDumps(r)
    BY <2>2, <2>3 DEF Pool!QueueDumps
  <2> QED  BY <2>4 DEF PoolStep, Now, Pool!PoolNext
<1>4. ASSUME NEW s \in Scheduling, Look(r, s) PROVE PoolStep
  BY <1>4, LookFacts, SamePhases
<1> QED  BY <1>1, <1>2, <1>3, <1>4, SchedulePool DEF RunStep, Look

\* Every step.
LEMMA NextPoolStep == PoolInv /\ [Next]_vars => PoolStep
<1> SUFFICES ASSUME PoolInv, [Next]_vars PROVE PoolStep
  OBVIOUS
<1>1. PhaseSteps
  BY NextPhases DEF PoolInv
<1>2. ASSUME NEW k \in kids, Die(k) PROVE PoolStep
  BY <1>2, SamePhases DEF Die
<1>3. CASE UNCHANGED vars
  BY <1>3, SamePhases DEF vars
<1> QED  BY <1>1, <1>2, <1>3, ServerPool, RunPool, KidPool DEF Next

\* Every behaviour of the dump jobs is one of the pool.
THEOREM PoolIsImplemented == Spec => ImplementsPool
<1>1. Init => Pool!PoolInit
  BY DEF Init, Pool!PoolInit, NewRow, PhaseOf, RetryStates
<1>2. PoolInv /\ [Next]_vars => [Pool!PoolNext]_Now
  BY NextPoolStep DEF PoolStep
<1> QED  BY <1>1, <1>2, InitPool, NextPool, PTL DEF Spec, ImplementsPool, Pool!PoolSpec, Now
=============================================================================
