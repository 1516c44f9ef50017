------------------------ MODULE DumpJobSteps_proof ------------------------
(***************************************************************************)
(* Theorems about what becomes of dump jobs: their errors are bounded, and *)
(* so is the work on them, a job that ended well has its dump, and the     *)
(* report says so.                                                         *)
(*                                                                         *)
(* They all rest on one table: the ways in which a row can change in one   *)
(* step, with what is known of the other tables when it does (RowStep).    *)
(* That no other way exists is shown once, action by action (NextRows),    *)
(* and the invariants of rows follow from the table.                       *)
(***************************************************************************)
EXTENDS DumpJob_proof

-----------------------------------------------------------------------------
(***************************************************************************)
(* The table.  r is the row before the step and n the row after it.        *)
(***************************************************************************)

\* The states between which a row moves without any other change.
Follows(s, t) ==
  \/ s = "CLONE_PENDING" /\ t = "CLONE_READY"
  \/ s = "CLONE_READY" /\ t = "CLONE_START"
  \/ s = "CLONE_START" /\ t = "CLONE_WORK"
  \/ s = "CLONE_WORK" /\ t = "CLONE_WORK"
  \/ s = "CLONE_WORK" /\ t = "CLONE_DONE"
  \/ s = "CLONE_DONE" /\ t = "DUMP_PENDING"
  \/ s = "DUMP_PENDING" /\ t = "DUMP_READY"
  \/ s = "DUMP_READY" /\ t = "DUMP_START"
  \/ s = "DUMP_START" /\ t = "DUMP_WORK"
  \/ s = "DUMP_WORK" /\ t = "DUMP_WORK"
  \/ s = "DUMP_DONE" /\ t = "DONE"
  \/ s = "DUMP_SKIPPED" /\ t = "DONE"
  \/ s = "ERROR" /\ t = "DUMP_RECOVER_START"
  \/ s = "DUMP_RECOVER_START" /\ t = "DUMP_RECOVER_WORK"
  \/ s = "DUMP_RECOVER_WORK" /\ t = "DUMP_RECOVER_WORK"
  \/ s \in RetryStates /\ t = "FAILED"

Keeps(r, n) == n.last = r.last /\ n.errors = r.errors /\ n.skipped = r.skipped

\* The job goes on.
GoesOn(r, n) == Keeps(r, n) /\ Follows(r.state, n.state)

\* The child that recorded a volume dump says so.
EndsWell(r, n, dumped) ==
  Keeps(r, n) /\ r.state = "DUMP_WORK" /\ n.state = "DUMP_DONE" /\ dumped > 0

\* The volume is skipped.
IsSkipped(r, n) ==
  /\ r.state \in {"CLONE_WORK", "DUMP_WORK"} /\ n.state = "DUMP_SKIPPED"
  /\ n.last = r.last /\ n.errors = r.errors /\ n.skipped

\* The symlink scan failed, and the dump goes on.
ScansBadly(r, n) ==
  /\ r.state = "DUMP_WORK" /\ n.state = "DUMP_WORK" /\ r.errors < TryLimit
  /\ n.last = r.last /\ n.errors = r.errors + 1 /\ n.skipped = r.skipped

\* An error.
Errs(r, n) ==
  /\ r.state \in ActiveStates \ RetryStates /\ n.state = "ERROR"
  /\ n.last = r.state /\ n.errors = r.errors + 1 /\ n.skipped = r.skipped

\* The job is tried again.
GoesBack(r, n) ==
  /\ r.state = "DUMP_RECOVER_WORK" /\ r.last \in DOMAIN RetryState
  /\ n.state = RetryState[r.last] /\ r.errors < ErrorLimit
  /\ n.last = NoState /\ n.errors = r.errors /\ n.skipped = r.skipped

RowStep(r, n, dumped) ==
  \/ n = r
  \/ /\ n.dv = r.dv + 1
     /\ \/ GoesOn(r, n) \/ EndsWell(r, n, dumped) \/ IsSkipped(r, n)
        \/ ScansBadly(r, n) \/ Errs(r, n) \/ GoesBack(r, n)

RowSteps == \A j \in Job : RowStep(row[j], row'[j], vdumps[j])

-----------------------------------------------------------------------------
(***************************************************************************)
(* The invariant under which the table is complete.                        *)
(***************************************************************************)

\* A child makes the calls of the state it was forked in.
InItsState(k) ==
  /\ k.at \in {"clone", "cloned", "skip"} => k.state = "CLONE_WORK"
  /\ k.at \in {"fetch", "scan", "commit", "record", "dumped", "reject"} =>
       k.state = "DUMP_WORK"
  /\ k.at = "recover" => k.state = "DUMP_RECOVER_WORK"

\* A child that can still write its row knows the errors in it, and comes to the
\* scan with no more than a job is tried with.
KnowsErrors(k) ==
  Fresh(k) => /\ k.errors = row[k.job].errors
              /\ k.at \in {"fetch", "scan"} => k.errors < TryLimit

\* What a child has seen to before it makes a call.
HasDone(k) ==
  /\ k.at = "record" => k.job \in stored
  /\ k.at = "dumped" => vdumps[k.job] > 0

KidOk(k) == InItsState(k) /\ KnowsErrors(k) /\ HasDone(k)

\* How many errors a row can hold in a state.
ErrorsOk(r) ==
  /\ r.state \in CloneStates \cup {"CLONE_DONE", "DUMP_PENDING", "DUMP_READY", "DUMP_START"} =>
       r.errors < TryLimit
  /\ r.state \in {"DUMP_WORK", "DUMP_DONE", "DUMP_SKIPPED", "DONE"} => r.errors <= TryLimit
  /\ r.errors <= TryLimit + 1

\* A job that ended without being skipped has a volume dump.
DumpOk(r, dumped) ==
  /\ r.state = "DUMP_SKIPPED" => r.skipped
  /\ r.state \in {"DUMP_DONE", "DONE"} /\ ~ r.skipped => dumped > 0

RowsOk == \A j \in Job : /\ ErrorsOk(row[j]) /\ DumpOk(row[j], vdumps[j])
                         /\ vdumps[j] > 0 => j \in stored

StepInv ==
  /\ SlotInv /\ OwnerInv
  /\ \A k \in kids : KidOk(k)
  /\ RowsOk
  /\ ReportedIsTrue

-----------------------------------------------------------------------------
(***************************************************************************)
(* What updates make of the fields of a row.                               *)
(***************************************************************************)

\* An update of one more field leaves the others alone.
LEMMA FieldValues ==
  ASSUME NEW x \in Row
  PROVE  /\ LET y == [x EXCEPT !.skipped = TRUE]
            IN  /\ y.state = x.state /\ y.dv = x.dv /\ y.last = x.last
                /\ y.errors = x.errors /\ y.skipped = TRUE
         /\ LET y == [x EXCEPT !.running = TRUE]
            IN  /\ y.state = x.state /\ y.dv = x.dv /\ y.last = x.last
                /\ y.errors = x.errors /\ y.skipped = x.skipped
         /\ \A e : LET y == [x EXCEPT !.errors = e]
                   IN  /\ y.state = x.state /\ y.dv = x.dv /\ y.last = x.last
                       /\ y.errors = e /\ y.skipped = x.skipped
         /\ \A s : LET y == [x EXCEPT !.last = s]
                   IN  /\ y.state = x.state /\ y.dv = x.dv /\ y.last = s
                       /\ y.errors = x.errors /\ y.skipped = x.skipped
BY DEF Row

\* An error ends a recovery, and is noted otherwise.
LEMMA ErroredValues ==
  ASSUME NEW r \in Row, NEW seen, seen.state \in State, seen.errors \in Nat
  PROVE  /\ seen.state \in RetryStates => Errored(r, seen) = Release(r, "FAILED")
         /\ seen.state \notin RetryStates =>
              LET n == Errored(r, seen)
              IN  /\ n.state = "ERROR" /\ n.dv = r.dv + 1 /\ n.last = seen.state
                  /\ n.errors = seen.errors + 1 /\ n.skipped = r.skipped
<1>1. CASE seen.state \in RetryStates
  BY <1>1 DEF Errored
<1>2. CASE seen.state \notin RetryStates
  <2> DEFINE Moved == Untimed(r, "ERROR")
  <2> DEFINE Marked == [Moved EXCEPT !.last = seen.state]
  <2>1. /\ Moved \in Row /\ Moved.state = "ERROR" /\ Moved.dv = r.dv + 1
        /\ Moved.skipped = r.skipped
    BY StateFacts, RowType, RowFields
  <2>2. /\ Marked \in Row /\ Marked.state = "ERROR" /\ Marked.dv = r.dv + 1
        /\ Marked.last = seen.state /\ Marked.skipped = r.skipped
    <3> HIDE DEF Moved
    <3>1. Marked \in Row
      BY <2>1 DEF Row
    <3> QED  BY <2>1, <3>1, FieldValues
  <2>3. Errored(r, seen) = [Marked EXCEPT !.errors = seen.errors + 1]
    BY <1>2, Zenon DEF Errored
  <2> HIDE DEF Marked
  <2> QED  BY <1>2, <2>2, <2>3, FieldValues
<1> QED  BY <1>1, <1>2

\* The updates that change nothing but the state follow the arrows.
LEMMA ArrowStep ==
  ASSUME NEW r \in Row, NEW s \in State, NEW dumped, Follows(r.state, s)
  PROVE  /\ RowStep(r, Timed(r, s), dumped)
         /\ RowStep(r, Untimed(r, s), dumped)
         /\ RowStep(r, Release(r, s), dumped)
BY RowFields DEF RowStep, GoesOn, Keeps

\* So do errors.
LEMMA ErroredStep ==
  ASSUME NEW r \in Row, NEW seen, seen.state = r.state, seen.errors = r.errors,
         NEW dumped, r.state \in ActiveStates
  PROVE  RowStep(r, Errored(r, seen), dumped)
<1>0. r.state \in State /\ r.errors \in Nat
  BY DEF Row
<1>1. CASE seen.state \in RetryStates
  <2>1. Follows(r.state, "FAILED")
    BY <1>1 DEF Follows
  <2> QED  BY <1>0, <1>1, <2>1, StateFacts, ErroredValues, ArrowStep
<1>2. CASE seen.state \notin RetryStates
  <2>1. r.state \in ActiveStates \ RetryStates
    BY <1>2, StateFacts DEF RetryStates
  <2> QED  BY <1>0, <1>2, <2>1, ErroredValues DEF RowStep, Errs
<1> QED  BY <1>1, <1>2

-----------------------------------------------------------------------------
(***************************************************************************)
(* Every step is in the table.                                             *)
(***************************************************************************)

\* A child's last update.
LEMMA FinishStep ==
  ASSUME TypeOK, NEW k \in kids, NEW new, Finish(k, new),
         Fresh(k) => RowStep(row[k.job], new, vdumps[k.job])
  PROVE  RowSteps
<1>1. k.job \in Job
  BY DEF TypeOK, Kid
<1>2. row' = [row EXCEPT ![k.job] = new] /\ Fresh(k)
  BY DEF Finish
<1>3. \A j \in Job \ {k.job} : row'[j] = row[j]
  BY <1>1, <1>2 DEF TypeOK
<1>4. row'[k.job] = new
  BY <1>1, <1>2 DEF TypeOK
<1> QED  BY <1>2, <1>3, <1>4 DEF RowSteps, RowStep

\* A child's update on the way.
LEMMA TouchStep ==
  ASSUME SlotInv, NEW k \in kids, NEW at, Touch(k, at)
  PROVE  RowSteps
<1> DEFINE new == Timed(row[k.job], row[k.job].state)
<1>1. Fresh(k) /\ row' = [row EXCEPT ![k.job] = new]
  BY Zenon DEF Touch
<1>2. k.job \in Job /\ row[k.job] \in Row /\ row[k.job].state \in State
  BY DEF SlotInv, TypeOK, Kid, Row
<1>3. Follows(row[k.job].state, row[k.job].state)
  BY <1>1 DEF SlotInv, Fresh, WorkStates, Follows
<1>4. RowStep(row[k.job], new, vdumps[k.job])
  BY <1>2, <1>3, ArrowStep
<1> HIDE DEF new
<1>5. row'[k.job] = new /\ \A j \in Job \ {k.job} : row'[j] = row[j]
  BY <1>1, <1>2 DEF SlotInv, TypeOK
<1> QED  BY <1>4, <1>5 DEF RowSteps, RowStep

\* An update of many rows.
LEMMA BulkStep ==
  ASSUME NEW S, \A j \in S \cap Job : RowStep(row[j], row'[j], vdumps[j]),
         \A j \in Job \ S : row'[j] = row[j]
  PROVE  RowSteps
BY DEF RowSteps, RowStep

\* The steps of the children.
LEMMA KidRows ==
  ASSUME SlotInv, NEW k \in kids, KidOk(k), KidStep(k)
  PROVE  RowSteps
<1> DEFINE r == row[k.job]
<1>0. /\ TypeOK /\ k \in Kid /\ k.job \in Job /\ r \in Row
      /\ r.state \in State /\ k.state \in WorkStates
  BY DEF SlotInv, TypeOK, Kid, Row
<1>1. CASE \E at : Touch(k, at)
  BY <1>1, TouchStep
<1>2. ASSUME row' = row PROVE RowSteps
  BY <1>2 DEF RowSteps, RowStep
<1>3. ASSUME Fresh(k) PROVE r.state = k.state /\ r.errors = k.errors
  BY <1>3 DEF Fresh, KidOk, KnowsErrors
<1>4. ASSUME k.state \in {"CLONE_WORK", "DUMP_WORK"},
             Finish(k, [Release(r, "DUMP_SKIPPED") EXCEPT !.skipped = TRUE])
      PROVE  RowSteps
  <2> DEFINE gone == Release(r, "DUMP_SKIPPED")
  <2>1. /\ gone \in Row /\ gone.state = "DUMP_SKIPPED" /\ gone.dv = r.dv + 1
        /\ gone.last = r.last /\ gone.errors = r.errors
    <3>1. "DUMP_SKIPPED" \in State
      BY StateFacts
    <3> HIDE DEF r
    <3> QED  BY <1>0, <3>1, RowType, RowFields
  <2> HIDE DEF gone
  <2> DEFINE new == [gone EXCEPT !.skipped = TRUE]
  <2>2. /\ new.state = "DUMP_SKIPPED" /\ new.dv = r.dv + 1
        /\ new.last = r.last /\ new.errors = r.errors /\ new.skipped
    BY <2>1, FieldValues
  <2>3. Finish(k, new)
    BY <1>4 DEF gone
  <2> HIDE DEF new
  <2>4. Fresh(k) => RowStep(r, new, vdumps[k.job])
    BY <1>3, <1>4, <2>2 DEF RowStep, IsSkipped
  <2> QED  BY <1>0, <2>3, <2>4, FinishStep
<1>5. CASE Clone(k) \/ Fetch(k)
  BY <1>1, <1>5, Zenon DEF Clone, Fetch
<1>6. CASE Cloned(k)
  <2>1. k.state = "CLONE_WORK" /\ Finish(k, Release(r, "CLONE_DONE"))
    BY <1>6 DEF Cloned, KidOk, InItsState
  <2>2. Follows("CLONE_WORK", "CLONE_DONE")
    BY DEF Follows
  <2>3. Fresh(k) => RowStep(r, Release(r, "CLONE_DONE"), vdumps[k.job])
    BY <1>0, <1>3, <2>1, <2>2, StateFacts, ArrowStep
  <2> QED  BY <1>0, <2>1, <2>3, FinishStep
<1>7. CASE Skip(k)
  BY <1>4, <1>7 DEF Skip, KidOk, InItsState
<1>8. CASE Reject(k)
  BY <1>2, <1>4, <1>8 DEF Reject, KidOk, InItsState
<1>9. CASE Commit(k) \/ Record(k) \/ LoseRow(k)
  BY <1>2, <1>9 DEF Commit, Record, LoseRow
<1>10. CASE Dumped(k)
  <2>1. /\ k.state = "DUMP_WORK" /\ vdumps[k.job] > 0
        /\ Finish(k, Release(r, "DUMP_DONE"))
    BY <1>10 DEF Dumped, KidOk, InItsState, HasDone
  <2>2. Fresh(k) => RowStep(r, Release(r, "DUMP_DONE"), vdumps[k.job])
    BY <1>0, <1>3, <2>1, StateFacts, RowFields DEF RowStep, EndsWell, Keeps
  <2> QED  BY <1>0, <2>1, <2>2, FinishStep
<1>11. CASE Scan(k)
  <2> DEFINE t == Timed(r, r.state)
  <2> DEFINE new == [t EXCEPT !.errors = k.errors + 1]
  <2>1. CASE /\ Fresh(k)
             /\ row' = [row EXCEPT ![k.job] =
                          [Timed(@, @.state) EXCEPT !.errors = k.errors + 1]]
    <3>1. row' = [row EXCEPT ![k.job] = new]
      BY <2>1, Zenon
    <3>2. /\ t \in Row /\ t.state = r.state /\ t.dv = r.dv + 1 /\ t.last = r.last
          /\ t.skipped = r.skipped
      BY <1>0, RowType, RowFields
    <3> HIDE DEF t
    <3>3. /\ new.state = r.state /\ new.dv = r.dv + 1 /\ new.last = r.last
          /\ new.errors = k.errors + 1 /\ new.skipped = r.skipped
      BY <3>2, FieldValues
    <3>4. r.state = "DUMP_WORK" /\ r.errors < TryLimit /\ r.errors = k.errors
      BY <1>3, <1>11, <2>1 DEF Scan, KidOk, InItsState, KnowsErrors
    <3> HIDE DEF new
    <3>5. RowStep(r, new, vdumps[k.job])
      BY <3>3, <3>4 DEF RowStep, ScansBadly
    <3>6. row'[k.job] = new /\ \A j \in Job \ {k.job} : row'[j] = row[j]
      BY <1>0, <3>1 DEF TypeOK
    <3> QED  BY <3>5, <3>6 DEF RowSteps, RowStep
  <2> QED  BY <1>1, <1>11, <2>1, Zenon DEF Scan
<1>12. CASE Recover(k)
  <2>1. k.state = "DUMP_RECOVER_WORK"
    BY <1>12 DEF Recover, KidOk, InItsState
  <2>2. CASE GiveUp(k)
    <3>1. Finish(k, Release(r, "FAILED"))
      BY <1>12, <2>2 DEF Recover
    <3>2. Follows("DUMP_RECOVER_WORK", "FAILED")
      BY DEF Follows, RetryStates
    <3>3. Fresh(k) => RowStep(r, Release(r, "FAILED"), vdumps[k.job])
      BY <1>0, <1>3, <2>1, <3>2, StateFacts, ArrowStep
    <3> QED  BY <1>0, <3>1, <3>3, FinishStep
  <2>3. CASE ~ GiveUp(k)
    <3> DEFINE to == Untimed(r, RetryState[r.last])
    <3> DEFINE back == [to EXCEPT !.last = NoState]
    <3>1. Finish(k, back)
      BY <1>12, <2>3 DEF Recover
    <3>2. /\ r.last \in DOMAIN RetryState /\ ~ (k.errors >= ErrorLimit)
          /\ RetryState[r.last] \in State
      BY <2>3, StateFacts DEF GiveUp, RetryState
    <3>3. /\ to \in Row /\ to.state = RetryState[r.last] /\ to.dv = r.dv + 1
          /\ to.errors = r.errors /\ to.skipped = r.skipped
      <4>1. PICK s \in State : s = RetryState[r.last]
        BY <3>2
      <4>2. to = Untimed(r, s)
        BY <4>1
      <4>3. RetryState[r.last] = s
        BY <4>1
      <4> HIDE DEF r, to
      <4>4. Untimed(r, s) \in Row
        BY <1>0, RowType
      <4>5. /\ Untimed(r, s).state = s /\ Untimed(r, s).dv = r.dv + 1
            /\ Untimed(r, s).errors = r.errors /\ Untimed(r, s).skipped = r.skipped
        BY <1>0, RowFields
      <4> QED  BY <4>2, <4>3, <4>4, <4>5
    <3> HIDE DEF to
    <3>4. /\ back.state = RetryState[r.last] /\ back.dv = r.dv + 1
          /\ back.errors = r.errors /\ back.skipped = r.skipped /\ back.last = NoState
      BY <3>3, FieldValues
    <3>5. k.errors < ErrorLimit
      BY <1>0, <3>2, DumpJobAssumption DEF Kid
    <3> HIDE DEF back
    <3>6. Fresh(k) => RowStep(r, back, vdumps[k.job])
      BY <1>3, <2>1, <3>2, <3>4, <3>5 DEF RowStep, GoesBack
    <3> QED  BY <1>0, <3>1, <3>6, FinishStep
  <2> QED  BY <2>2, <2>3
<1>13. CASE Fail(k)
  <2>1. k.state \in ActiveStates
    BY <1>0, ActiveFacts
  <2>2. Fresh(k) => RowStep(r, Errored(r, k), vdumps[k.job])
    BY <1>0, <1>3, <2>1, ErroredStep
  <2> QED  BY <1>0, <1>13, <2>2, FinishStep DEF Fail
<1> QED  BY <1>5, <1>6, <1>7, <1>8, <1>9, <1>10, <1>11, <1>12, <1>13 DEF KidStep

\* The passes of the server, and the sweep, which finds active jobs only.
LEMMA ServerRows ==
  ASSUME SlotInv, ServerStep \/ CheckStale
  PROVE  RowSteps
<1>0. \A j \in Job : row[j] \in Row /\ row[j].state \in State
  BY DEF SlotInv, TypeOK, Row
<1>1. ASSUME NEW pass \in Passes, TakeUp(pass) PROVE RowSteps
  <2>1. ASSUME NEW j \in InState(pass.from)
        PROVE  RowStep(row[j], Untimed(row[j], pass.start), vdumps[j])
    <3>1. j \in Job /\ Follows(row[j].state, pass.start)
      BY DEF Passes, InState, Follows
    <3>2. pass.start \in State
      BY PassFacts, StateFacts
    <3> QED  BY <1>0, <3>1, <3>2, ArrowStep
  <2>2. UpdateRows(InState(pass.from), LAMBDA r : Untimed(r, pass.start))
    BY <1>1 DEF TakeUp
  <2> QED  BY <2>1, <2>2, BulkStep DEF UpdateRows
<1>2. ASSUME NEW pass \in Passes, Fork(pass) PROVE RowSteps
  <2>1. ASSUME NEW j \in InState(pass.start)
        PROVE  RowStep(row[j], Timed(row[j], pass.work), vdumps[j])
    <3>1. j \in Job /\ Follows(row[j].state, pass.work)
      BY DEF Passes, InState, Follows
    <3>2. pass.work \in State
      BY PassFacts, StateFacts
    <3> QED  BY <1>0, <3>1, <3>2, ArrowStep
  <2>2. UpdateRows(InState(pass.start), LAMBDA r : Timed(r, pass.work))
    BY <1>2 DEF Fork
  <2> QED  BY <2>1, <2>2, BulkStep DEF UpdateRows
<1>3. ASSUME NEW from \in {"DUMP_DONE", "DUMP_SKIPPED"}, Retire(from)
      PROVE  RowSteps
  <2>1. ASSUME NEW j \in InState(from)
        PROVE  RowStep(row[j], Untimed(row[j], "DONE"), vdumps[j])
    <3>1. j \in Job /\ Follows(row[j].state, "DONE")
      BY <1>3 DEF InState, Follows
    <3> QED  BY <1>0, <3>1, StateFacts, ArrowStep
  <2>2. UpdateRows(InState(from), LAMBDA r : Untimed(r, "DONE"))
    BY <1>3 DEF Retire
  <2> QED  BY <2>1, <2>2, BulkStep DEF UpdateRows
<1>4. ASSUME CheckStale PROVE RowSteps
  <2>1. ASSUME NEW j \in Job, row[j].timed
        PROVE  RowStep(row[j], Errored(row[j], row[j]), vdumps[j])
    <3>1. row[j].state \in ActiveStates
      BY <2>1 DEF SlotInv, RowOk
    <3> QED  BY <1>0, <3>1, ErroredStep
  <2>2. PICK S \in SUBSET {j \in Job : row[j].timed} :
          UpdateRows(S, LAMBDA r : Errored(r, r))
    BY <1>4 DEF CheckStale
  <2> QED  BY <2>1, <2>2, BulkStep DEF UpdateRows
<1> QED  BY <1>1, <1>2, <1>3, <1>4 DEF ServerStep

\* The steps of a run.
LEMMA RunRows ==
  ASSUME SlotInv, NEW r \in Run, RunStep(r)
  PROVE  RowSteps
<1>0. \A j \in Job : row[j] \in Row /\ row[j].state \in State
  BY DEF SlotInv, TypeOK, Row
<1>1. ASSUME row' = row PROVE RowSteps
  BY <1>1 DEF RowSteps, RowStep
<1>2. ASSUME NEW s \in Scheduling, Schedule(r, s) PROVE RowSteps
  <2>1. PICK S \in Batches(counted[r], Waiting(r, s)) :
          UpdateRows(S, LAMBDA x : [Timed(x, s.ready) EXCEPT !.running = TRUE])
    BY <1>2 DEF Schedule
  <2>2. S \subseteq InState(s.pending)
    BY <2>1 DEF Batches, Waiting
  <2>3. ASSUME NEW j \in S
        PROVE  RowStep(row[j], [Timed(row[j], s.ready) EXCEPT !.running = TRUE], vdumps[j])
    <3> DEFINE x == Timed(row[j], s.ready)
    <3>1. j \in Job /\ Follows(row[j].state, s.ready)
      BY <2>2 DEF Scheduling, InState, Follows
    <3>2. s.ready \in State
      BY SchedulingFacts, StateFacts
    <3>3. /\ x \in Row /\ x.state = s.ready /\ x.dv = row[j].dv + 1
          /\ x.last = row[j].last /\ x.errors = row[j].errors /\ x.skipped = row[j].skipped
      <4>1. ASSUME NEW z \in Row, NEW t \in State
            PROVE  /\ Timed(z, t) \in Row /\ Timed(z, t).state = t
                   /\ Timed(z, t).dv = z.dv + 1 /\ Timed(z, t).last = z.last
                   /\ Timed(z, t).errors = z.errors /\ Timed(z, t).skipped = z.skipped
        BY RowType, RowFields
      <4> QED  BY <1>0, <3>1, <3>2, <4>1
    <3> HIDE DEF x
    <3> DEFINE y == [x EXCEPT !.running = TRUE]
    <3>4. /\ y.state = s.ready /\ y.dv = row[j].dv + 1
          /\ y.last = row[j].last /\ y.errors = row[j].errors /\ y.skipped = row[j].skipped
      BY <3>3, FieldValues
    <3> HIDE DEF y
    <3>5. RowStep(row[j], y, vdumps[j])
      BY <3>1, <3>4 DEF RowStep, GoesOn, Keeps
    <3> QED  BY <3>5 DEF x, y
  <2> QED  BY <2>1, <2>3, BulkStep DEF UpdateRows
<1>3. ASSUME CreateDumps(r) PROVE RowSteps
  <2> DEFINE S == InState("CLONE_DONE") \cap JobsOf(r)
  <2>1. ASSUME NEW j \in S
        PROVE  RowStep(row[j], Untimed(row[j], "DUMP_PENDING"), vdumps[j])
    <3>1. j \in Job /\ Follows(row[j].state, "DUMP_PENDING")
      BY DEF InState, Follows
    <3> QED  BY <1>0, <3>1, StateFacts, ArrowStep
  <2>2. UpdateRows(S, LAMBDA x : Untimed(x, "DUMP_PENDING"))
    BY <1>3 DEF CreateDumps
  <2> QED  BY <2>1, <2>2, BulkStep DEF UpdateRows
<1> QED  BY <1>1, <1>2, <1>3, LookFacts DEF RunStep, Look, CountRunning, Report

\* Every step.
LEMMA NextRows ==
  ASSUME SlotInv, \A k \in kids : KidOk(k), [Next]_vars
  PROVE  RowSteps
<1>1. ASSUME row' = row PROVE RowSteps
  BY <1>1 DEF RowSteps, RowStep
<1>2. ASSUME NEW k \in kids, Die(k) PROVE RowSteps
  BY <1>1, <1>2 DEF Die
<1>3. CASE UNCHANGED vars
  BY <1>1, <1>3 DEF vars
<1> QED  BY <1>2, <1>3, ServerRows, RunRows, KidRows DEF Next

-----------------------------------------------------------------------------
(***************************************************************************)
(* What the children know stays true.                                      *)
(***************************************************************************)

\* Blobs and volume dumps are never taken back.
Grows == /\ stored \subseteq stored'
         /\ \A j \in Job : /\ vdumps[j] \in Nat /\ vdumps'[j] \in Nat
                           /\ vdumps'[j] >= vdumps[j]

LEMMA NothingIsLost ==
  ASSUME TypeOK, [Next]_vars
  PROVE  Grows
<1>0. \A j \in Job : vdumps[j] \in Nat
  BY DEF TypeOK
<1>1. ASSUME UNCHANGED <<stored, vdumps>> PROVE Grows
  BY <1>0, <1>1 DEF Grows
<1>2. ASSUME NEW k \in kids, KidStep(k) PROVE Grows
  <2>1. k.job \in Job
    BY DEF TypeOK, Kid
  <2>2. CASE Commit(k)
    BY <1>0, <2>2 DEF Commit, Grows
  <2>3. CASE Record(k)
    BY <1>0, <2>1, <2>3 DEF Record, TypeOK, Grows
  <2> QED  BY <1>1, <1>2, <2>2, <2>3 DEF KidStep, Clone, Cloned, Skip, Fetch, Scan,
                                         Dumped, Reject, Recover, Fail, LoseRow
<1>3. ASSUME NEW k \in kids, Die(k) PROVE Grows
  BY <1>1, <1>3 DEF Die
<1>4. CASE ServerStep
  BY <1>1, <1>4 DEF ServerStep, TakeUp, Fork, Retire
<1>5. CASE CheckStale
  BY <1>1, <1>5 DEF CheckStale
<1>6. ASSUME NEW r \in Run, RunStep(r) PROVE Grows
  BY <1>1, <1>6, LookFacts
     DEF RunStep, Look, CountRunning, Schedule, CreateDumps, Report
<1> QED  BY <1>1, <1>2, <1>3, <1>4, <1>5, <1>6 DEF Next, vars

\* A child that can still write its row sees a row that did not change.
LEMMA FreshSeesNoChange ==
  ASSUME OwnerInv, RowSteps, NEW l \in kids, l.dv = row'[l.job].dv
  PROVE  row'[l.job] = row[l.job]
<1>1. l.job \in Job /\ row[l.job].dv \in Nat /\ l.dv \in Nat /\ l.dv <= row[l.job].dv
  BY DEF OwnerInv, TypeOK, Behind, Kid, Row
<1>2. row'[l.job] = row[l.job] \/ row'[l.job].dv = row[l.job].dv + 1
  BY <1>1 DEF RowSteps, RowStep
<1> QED  BY <1>1, <1>2

\* The children there were.
LEMMA OldKids ==
  ASSUME StepInv, RowSteps, [Next]_vars, NEW l \in kids
  PROVE  KidOk(l)'
<1>1. OwnerInv /\ TypeOK /\ KidOk(l) /\ l.job \in Job
  BY DEF StepInv, OwnerInv, TypeOK, Kid
<1>2. Fresh(l)' => Fresh(l) /\ row'[l.job] = row[l.job]
  BY <1>1, FreshSeesNoChange DEF Fresh
<1>3. KnowsErrors(l)'
  BY <1>1, <1>2 DEF KidOk, KnowsErrors
<1>4. HasDone(l)'
  BY <1>1, NothingIsLost DEF KidOk, HasDone, Grows
<1> QED  BY <1>1, <1>3, <1>4 DEF KidOk, InItsState

\* A child that updated its row.
LEMMA TouchedKid ==
  ASSUME TypeOK, NEW k \in kids, KidOk(k), NEW at \in Call \ {"record", "dumped"},
         Touch(k, at), InItsState([k EXCEPT !.at = at, !.dv = @ + 1]),
         at \in {"fetch", "scan"} => k.errors < TryLimit
  PROVE  \A l \in kids' \ kids : KidOk(l)'
<1> DEFINE new == [k EXCEPT !.at = at, !.dv = @ + 1]
<1>1. k \in Kid /\ k.job \in Job /\ row[k.job] \in Row /\ row[k.job].state \in State
  BY DEF TypeOK, Kid, Row
<1>2. new.job = k.job /\ new.errors = k.errors /\ new.at = at
  BY <1>1 DEF Kid
<1>3. Fresh(k) /\ row' = [row EXCEPT ![k.job] = Timed(row[k.job], row[k.job].state)]
  BY Zenon DEF Touch
<1>4. row'[k.job].errors = k.errors
  BY <1>1, <1>3, RowFields DEF TypeOK, KidOk, KnowsErrors
<1>5. kids' = (kids \ {k}) \cup {new}
  BY Zenon DEF Touch, Replace
<1>6. InItsState(new)
  OBVIOUS
<1> HIDE DEF new
<1>7. KnowsErrors(new)' /\ HasDone(new)'
  BY <1>2, <1>4 DEF KnowsErrors, HasDone
<1> QED  BY <1>5, <1>6, <1>7 DEF KidOk

\* A child that made another call.
LEMMA GoneOnKid ==
  ASSUME TypeOK, NEW k \in kids, KidOk(k), NEW at \in {"record", "dumped", "error"},
         UNCHANGED row, Replace(k, [k EXCEPT !.at = at]), k.state = "DUMP_WORK",
         at = "record" => k.job \in stored',
         at = "dumped" => vdumps'[k.job] > 0
  PROVE  \A l \in kids' \ kids : KidOk(l)'
<1> DEFINE new == [k EXCEPT !.at = at]
<1>1. /\ new.job = k.job /\ new.errors = k.errors /\ new.at = at
      /\ new.dv = k.dv /\ new.state = k.state
  BY DEF TypeOK, Kid
<1>2. kids' = (kids \ {k}) \cup {new}
  BY Zenon DEF Replace
<1> HIDE DEF new
<1>3. InItsState(new) /\ HasDone(new)'
  BY <1>1 DEF InItsState, HasDone
<1>4. KnowsErrors(new)'
  BY <1>1 DEF KidOk, KnowsErrors, Fresh
<1> QED  BY <1>2, <1>3, <1>4 DEF KidOk

\* The children that made a call.
LEMMA NewKids ==
  ASSUME TypeOK, NEW k \in kids, KidOk(k), KidStep(k)
  PROVE  \A l \in kids' \ kids : KidOk(l)'
<1>0. k \in Kid
  BY DEF TypeOK
<1>1. ASSUME kids' \subseteq kids PROVE \A l \in kids' \ kids : KidOk(l)'
  BY <1>1
<1>2. ASSUME NEW at \in Call
      PROVE  LET new == [k EXCEPT !.at = at, !.dv = @ + 1]
             IN  new.at = at /\ new.state = k.state
  BY <1>0 DEF Kid
<1>3. CASE Clone(k)
  <2>1. PICK at \in {"cloned", "skip", "error"} : Touch(k, at)
    BY <1>3 DEF Clone
  <2>2. k.state = "CLONE_WORK" /\ at \in Call
    BY <1>3 DEF Clone, KidOk, InItsState, Call
  <2>3. InItsState([k EXCEPT !.at = at, !.dv = @ + 1])
    BY <1>2, <2>2 DEF InItsState
  <2> QED  BY <2>1, <2>2, <2>3, TouchedKid
<1>4. CASE Fetch(k)
  <2>1. PICK at \in {"scan", "error"} : Touch(k, at)
    BY <1>4 DEF Fetch
  <2>2. k.state = "DUMP_WORK" /\ at \in Call
    BY <1>4 DEF Fetch, KidOk, InItsState, Call
  <2>3. k.errors < TryLimit
    BY <1>4, <2>1 DEF Fetch, KidOk, KnowsErrors, Touch
  <2>4. InItsState([k EXCEPT !.at = at, !.dv = @ + 1])
    BY <1>2, <2>2 DEF InItsState
  <2> QED  BY <2>1, <2>2, <2>3, <2>4, TouchedKid
<1>5. CASE Scan(k)
  <2>0. k.state = "DUMP_WORK"
    BY <1>5 DEF Scan, KidOk, InItsState
  <2>1. ASSUME NEW at \in {"error", "commit", "reject"}, Touch(k, at)
        PROVE  \A l \in kids' \ kids : KidOk(l)'
    <3>1. at \in Call
      BY DEF Call
    <3>2. InItsState([k EXCEPT !.at = at, !.dv = @ + 1])
      BY <1>2, <2>0, <3>1 DEF InItsState
    <3> QED  BY <2>1, <3>1, <3>2, TouchedKid
  <2>2. CASE /\ row' = [row EXCEPT ![k.job] =
                          [Timed(@, @.state) EXCEPT !.errors = k.errors + 1]]
             /\ Replace(k, [k EXCEPT !.at = "commit", !.dv = @ + 1, !.errors = @ + 1])
    <3> DEFINE new == [k EXCEPT !.at = "commit", !.dv = @ + 1, !.errors = @ + 1]
    <3> DEFINE t == Timed(row[k.job], row[k.job].state)
    <3>1. /\ new.job = k.job /\ new.errors = k.errors + 1 /\ new.at = "commit"
          /\ new.state = k.state
      BY <1>0 DEF Kid
    <3>2. t \in Row /\ k.job \in Job
      BY <1>0, RowType DEF TypeOK, Kid, Row
    <3>3. row' = [row EXCEPT ![k.job] = [t EXCEPT !.errors = k.errors + 1]]
      BY <2>2, Zenon
    <3> HIDE DEF t
    <3>4. row'[k.job].errors = k.errors + 1
      BY <3>2, <3>3, FieldValues DEF TypeOK
    <3>5. kids' = (kids \ {k}) \cup {new}
      BY <2>2, Zenon DEF Replace
    <3> HIDE DEF new
    <3>6. InItsState(new) /\ KnowsErrors(new)' /\ HasDone(new)'
      BY <2>0, <3>1, <3>4 DEF InItsState, KnowsErrors, HasDone
    <3> QED  BY <3>5, <3>6 DEF KidOk
  <2> QED  BY <1>5, <2>1, <2>2, Zenon DEF Scan
<1>6. CASE Commit(k)
  <2>1. k.state = "DUMP_WORK" /\ row' = row
    BY <1>6 DEF Commit, KidOk, InItsState
  <2>2. CASE stored' = stored \cup {k.job} /\ Replace(k, [k EXCEPT !.at = "record"])
    BY <2>1, <2>2, GoneOnKid
  <2>3. CASE Replace(k, [k EXCEPT !.at = "error"])
    BY <2>1, <2>3, GoneOnKid
  <2> QED  BY <1>6, <2>2, <2>3, Zenon DEF Commit
<1>7. CASE Record(k)
  <2>1. k.state = "DUMP_WORK" /\ row' = row
    BY <1>7 DEF Record, KidOk, InItsState
  <2>2. CASE /\ vdumps' = [vdumps EXCEPT ![k.job] = @ + 1]
             /\ Replace(k, [k EXCEPT !.at = "dumped"])
    <3>1. vdumps'[k.job] > 0
      BY <1>0, <2>2 DEF TypeOK, Kid
    <3> QED  BY <2>1, <2>2, <3>1, GoneOnKid
  <2>3. CASE Replace(k, [k EXCEPT !.at = "error"])
    BY <2>1, <2>3, GoneOnKid
  <2> QED  BY <1>7, <2>2, <2>3, Zenon DEF Record
<1>8. CASE \/ Cloned(k) \/ Skip(k) \/ Dumped(k) \/ Reject(k) \/ Recover(k)
           \/ Fail(k) \/ LoseRow(k)
  BY <1>1, <1>8 DEF Cloned, Skip, Dumped, Reject, Recover, Fail, LoseRow, Finish, Exit
<1> QED  BY <1>3, <1>4, <1>5, <1>6, <1>7, <1>8 DEF KidStep

\* A child that was forked.
LEMMA ForkedKids ==
  ASSUME TypeOK, RowsOk, NEW pass \in Passes, Fork(pass)
  PROVE  \A l \in kids' \ kids : KidOk(l)'
<1> DEFINE Child(j) == [job |-> j, at |-> pass.at, state |-> pass.work,
                        dv |-> row[j].dv + 1, errors |-> row[j].errors]
<1>1. kids' = kids \cup {Child(j) : j \in InState(pass.start)}
  BY Zenon DEF Fork
<1>2. ASSUME NEW j \in InState(pass.start), NEW l, l = Child(j) PROVE KidOk(l)'
  <2>1. j \in Job /\ row[j] \in Row /\ row[j].state = pass.start
    BY DEF InState, TypeOK
  <2>2. row'[j] = Timed(row[j], pass.work) /\ pass.work \in State
    BY <2>1, PassFacts, StateFacts DEF Fork, UpdateRows
  <2>3. row'[j].errors = row[j].errors
    BY <2>1, <2>2, RowFields
  <2>4. pass.at \in {"fetch", "scan"} => row[j].errors < TryLimit
    BY <2>1 DEF Passes, RowsOk, ErrorsOk
  <2>5. /\ l.job = j /\ l.at = pass.at /\ l.state = pass.work
        /\ l.errors = row[j].errors
    BY <1>2
  <2>6. InItsState(l) /\ HasDone(l)'
    BY <2>5 DEF Passes, InItsState, HasDone
  <2>7. KnowsErrors(l)'
    BY <2>3, <2>4, <2>5 DEF KnowsErrors
  <2> QED  BY <2>6, <2>7 DEF KidOk
<1>3. ASSUME NEW l \in kids' \ kids PROVE KidOk(l)'
  <2>1. PICK j \in InState(pass.start) : l = Child(j)
    BY <1>1
  <2> QED  BY <1>2, <2>1
<1> QED  BY <1>3

\* All of them.
LEMMA NextKids ==
  ASSUME StepInv, RowSteps, [Next]_vars
  PROVE  (\A k \in kids : KidOk(k))'
<1>0. TypeOK /\ RowsOk /\ \A k \in kids : KidOk(k)
  BY DEF StepInv, OwnerInv
<1>1. ASSUME kids' \subseteq kids PROVE \A l \in kids' \ kids : KidOk(l)'
  BY <1>1
<1>2. ASSUME ServerStep PROVE \A l \in kids' \ kids : KidOk(l)'
  BY <1>0, <1>1, <1>2, ForkedKids DEF ServerStep, TakeUp, Retire
<1>3. ASSUME CheckStale PROVE \A l \in kids' \ kids : KidOk(l)'
  BY <1>1, <1>3 DEF CheckStale
<1>4. ASSUME NEW r \in Run, RunStep(r) PROVE \A l \in kids' \ kids : KidOk(l)'
  BY <1>1, <1>4, LookFacts
     DEF RunStep, Look, CountRunning, Schedule, CreateDumps, Report
<1>5. ASSUME NEW k \in kids, Die(k) PROVE \A l \in kids' \ kids : KidOk(l)'
  BY <1>1, <1>5 DEF Die, Exit
<1>6. ASSUME UNCHANGED vars PROVE \A l \in kids' \ kids : KidOk(l)'
  BY <1>1, <1>6 DEF vars
<1>7. \A l \in kids' \ kids : KidOk(l)'
  BY <1>0, <1>2, <1>3, <1>4, <1>5, <1>6, NewKids DEF Next
<1>8. \A l \in kids : KidOk(l)'
  BY OldKids
<1> QED  BY <1>7, <1>8

-----------------------------------------------------------------------------
(***************************************************************************)
(* The rows and the report.                                                *)
(***************************************************************************)

\* The table keeps the errors of a row within what its state allows.
LEMMA ErrorsStay ==
  ASSUME NEW r \in Row, NEW n \in Row, NEW dumped, RowStep(r, n, dumped), ErrorsOk(r)
  PROVE  ErrorsOk(n)
<1>0. /\ ErrorLimit \in Nat /\ TryLimit \in Nat /\ ErrorLimit <= TryLimit
      /\ r.errors \in Nat /\ n.errors \in Nat
  BY DumpJobAssumption DEF TryLimit, Row
<1>1. CASE GoesOn(r, n)
  BY <1>0, <1>1 DEF GoesOn, Keeps, Follows, ErrorsOk, CloneStates, RetryStates
<1>2. CASE EndsWell(r, n, dumped) \/ IsSkipped(r, n)
  BY <1>0, <1>2 DEF EndsWell, IsSkipped, Keeps, ErrorsOk, CloneStates
<1>3. CASE ScansBadly(r, n)
  BY <1>0, <1>3 DEF ScansBadly, ErrorsOk, CloneStates
<1>4. CASE Errs(r, n)
  <2>1. r.errors <= TryLimit
    BY <1>0, <1>4, ActiveFacts DEF Errs, ErrorsOk, CloneStates, RetryStates
  <2> QED  BY <1>0, <1>4, <2>1 DEF Errs, ErrorsOk, CloneStates
<1>5. CASE GoesBack(r, n)
  BY <1>0, <1>5 DEF GoesBack, RetryState, ErrorsOk
<1> QED  BY <1>1, <1>2, <1>3, <1>4, <1>5 DEF RowStep

\* And a row whose job ended well has its dump.
LEMMA DumpStays ==
  ASSUME NEW r \in Row, NEW n \in Row, NEW dumped \in Nat, NEW more \in Nat,
         more >= dumped, RowStep(r, n, dumped), DumpOk(r, dumped)
  PROVE  DumpOk(n, more)
<1>1. CASE GoesOn(r, n) \/ EndsWell(r, n, dumped)
  BY <1>1 DEF GoesOn, EndsWell, Keeps, Follows, DumpOk
<1>2. CASE IsSkipped(r, n) \/ ScansBadly(r, n) \/ Errs(r, n) \/ GoesBack(r, n)
  BY <1>2 DEF IsSkipped, ScansBadly, Errs, GoesBack, RetryState, DumpOk
<1> QED  BY <1>1, <1>2 DEF RowStep, DumpOk

\* A volume dump is recorded after its blob is in place.
LEMMA RecordsAreStored ==
  ASSUME StepInv, [Next]_vars
  PROVE  \A j \in Job : vdumps'[j] > 0 => j \in stored'
<1>0. TypeOK /\ Grows /\ RowsOk /\ \A k \in kids : KidOk(k)
  BY NothingIsLost DEF StepInv, OwnerInv
<1>1. ASSUME vdumps' = vdumps PROVE \A j \in Job : vdumps'[j] > 0 => j \in stored'
  BY <1>0, <1>1 DEF RowsOk, Grows
<1>2. ASSUME NEW k \in kids, Record(k)
      PROVE  \A j \in Job : vdumps'[j] > 0 => j \in stored'
  <2>1. k.job \in stored
    BY <1>0, <1>2 DEF Record, KidOk, HasDone
  <2>2. ASSUME NEW j \in Job, j # k.job PROVE vdumps'[j] = vdumps[j]
    BY <1>0, <1>2, <2>2 DEF Record, TypeOK
  <2> QED  BY <1>0, <2>1, <2>2 DEF RowsOk, Grows
<1>3. CASE ServerStep
  BY <1>1, <1>3 DEF ServerStep, TakeUp, Fork, Retire
<1>4. CASE CheckStale
  BY <1>1, <1>4 DEF CheckStale
<1>5. ASSUME NEW r \in Run, RunStep(r)
      PROVE  \A j \in Job : vdumps'[j] > 0 => j \in stored'
  BY <1>1, <1>5, LookFacts
     DEF RunStep, Look, CountRunning, Schedule, CreateDumps, Report
<1>6. ASSUME NEW k \in kids, KidStep(k) \/ Die(k)
      PROVE  \A j \in Job : vdumps'[j] > 0 => j \in stored'
  BY <1>1, <1>2, <1>6 DEF KidStep, Clone, Cloned, Skip, Fetch, Scan, Commit,
                          Dumped, Reject, Recover, Fail, LoseRow, Die
<1>7. CASE UNCHANGED vars
  BY <1>1, <1>7 DEF vars
<1> QED  BY <1>3, <1>4, <1>5, <1>6, <1>7 DEF Next

\* All of it.
LEMMA NextRowsOk ==
  ASSUME StepInv, RowSteps, [Next]_vars
  PROVE  RowsOk'
<1>0. TypeOK /\ TypeOK' /\ Grows /\ RowsOk
  BY NothingIsLost, NextType DEF StepInv, OwnerInv
<1>1. ASSUME NEW j \in Job
      PROVE  ErrorsOk(row'[j]) /\ DumpOk(row'[j], vdumps'[j])
  <2>1. row[j] \in Row /\ row'[j] \in Row
    BY <1>0 DEF TypeOK
  <2>2. ErrorsOk(row[j]) /\ DumpOk(row[j], vdumps[j]) /\ RowStep(row[j], row'[j], vdumps[j])
    BY <1>0 DEF RowsOk, RowSteps
  <2>3. vdumps[j] \in Nat /\ vdumps'[j] \in Nat /\ vdumps'[j] >= vdumps[j]
    BY <1>0 DEF Grows
  <2> QED  BY <2>1, <2>2, <2>3, ErrorsStay, DumpStays
<1>2. \A j \in Job : vdumps'[j] > 0 => j \in stored'
  BY RecordsAreStored
<1> QED  BY <1>1, <1>2 DEF RowsOk, ErrorsOk, DumpOk

\* A report is written from the rows, and the rows of jobs that ended stay.
LEMMA NextReported ==
  ASSUME StepInv, [Next]_vars
  PROVE  ReportedIsTrue'
<1>0. /\ SlotInv /\ TypeOK /\ OnlyLive /\ Grows /\ RowsOk /\ ReportedIsTrue
  BY NextLive, NothingIsLost DEF StepInv, OwnerInv
<1>1. ASSUME report' = report PROVE ReportedIsTrue'
  BY <1>0, <1>1 DEF ReportedIsTrue, OnlyLive, Grows
<1>2. ASSUME NEW r \in Run, Report(r) PROVE ReportedIsTrue'
  <2>1. row' = row /\ vdumps' = vdumps /\ stored' = stored
    BY <1>2 DEF Report
  <2>2. ASSUME NEW j \in Job
        PROVE  report'[j] = Verdict(j) \/ report'[j] = report[j]
    BY <1>2 DEF Report
  <2>3. ASSUME NEW j \in Job, Verdict(j) = "dumped"
        PROVE  row[j].state = "DONE" /\ vdumps[j] > 0 /\ j \in stored
    BY <1>0, <2>3 DEF Verdict, RowsOk, DumpOk
  <2>4. ASSUME NEW j \in Job, Verdict(j) = "skipped"
        PROVE  row[j].state = "DONE" /\ row[j].skipped
    BY <2>4 DEF Verdict
  <2> QED  BY <1>0, <2>1, <2>2, <2>3, <2>4 DEF ReportedIsTrue
<1>3. CASE ServerStep
  BY <1>1, <1>3 DEF ServerStep, TakeUp, Fork, Retire
<1>4. CASE CheckStale
  BY <1>1, <1>4 DEF CheckStale
<1>5. ASSUME NEW r \in Run, RunStep(r) PROVE ReportedIsTrue'
  BY <1>1, <1>2, <1>5, LookFacts DEF RunStep, Look, CountRunning, Schedule, CreateDumps
<1>6. ASSUME NEW k \in kids, KidStep(k) \/ Die(k) PROVE ReportedIsTrue'
  BY <1>1, <1>6 DEF KidStep, Clone, Cloned, Skip, Fetch, Scan, Commit, Record,
                    Dumped, Reject, Recover, Fail, LoseRow, Die
<1>7. CASE UNCHANGED vars
  BY <1>1, <1>7 DEF vars
<1> QED  BY <1>3, <1>4, <1>5, <1>6, <1>7 DEF Next

-----------------------------------------------------------------------------

\* At first there are no children, errors, dumps or reports.
LEMMA InitSteps == Init => StepInv
<1> SUFFICES ASSUME Init PROVE StepInv
  OBVIOUS
<1>1. SlotInv
  BY InitSlots
<1>2. OwnerInv
  BY InitType DEF Init, OwnerInv, Behind, OneOwner
<1>3. ErrorsOk(NewRow) /\ DumpOk(NewRow, 0)
  BY DumpJobAssumption DEF NewRow, ErrorsOk, DumpOk, TryLimit, CloneStates
<1>4. RowsOk
  BY <1>3 DEF Init, RowsOk
<1>5. ReportedIsTrue /\ \A k \in kids : KidOk(k)
  BY DEF Init, ReportedIsTrue
<1> QED  BY <1>1, <1>2, <1>4, <1>5 DEF StepInv

\* The invariant is inductive.
LEMMA NextSteps == StepInv /\ [Next]_vars => StepInv'
<1> SUFFICES ASSUME StepInv, [Next]_vars PROVE StepInv'
  OBVIOUS
<1>1. SlotInv' /\ OwnerInv'
  BY NextSlots, NextOwner DEF StepInv
<1>2. RowSteps
  BY NextRows DEF StepInv
<1>3. (\A k \in kids : KidOk(k))' /\ RowsOk' /\ ReportedIsTrue'
  BY <1>2, NextKids, NextRowsOk, NextReported
<1> QED  BY <1>1, <1>3 DEF StepInv

\* No job collects more errors than the limit and the one that is not fatal.
THEOREM GivenUp == Spec => []ErrorsBounded
<1>1. StepInv => ErrorsBounded
  BY DEF StepInv, RowsOk, ErrorsOk, ErrorsBounded
<1> QED  BY <1>1, InitSteps, NextSteps, PTL DEF Spec

\* A job that ended with a dump has a volume dump, and each of those its blob.
THEOREM DumpsAreStored == Spec => []DumpedIsStored
<1>1. StepInv => DumpedIsStored
  BY DEF StepInv, RowsOk, DumpOk, DumpedIsStored
<1> QED  BY <1>1, InitSteps, NextSteps, PTL DEF Spec

\* What the report calls dumped or skipped ended that way and stays so.
THEOREM ReportsAreTrue == Spec => []ReportedIsTrue
<1>1. StepInv => ReportedIsTrue
  BY DEF StepInv
<1> QED  BY <1>1, InitSteps, NextSteps, PTL DEF Spec

-----------------------------------------------------------------------------
(***************************************************************************)
(* Work is bounded.  Every change of state in the table is progress, and   *)
(* the errors bound the progress that a job can make.                      *)
(***************************************************************************)

LEMMA RankFacts ==
  /\ \A s \in State : Rank[s] \in 0 .. 12
  /\ \A s, t \in State : Follows(s, t) => Rank[s] < Rank[t] \/ s = t
  /\ Rank["ERROR"] = 0 /\ Rank["DUMP_WORK"] = 9
  /\ Rank["DUMP_DONE"] = 10 /\ Rank["DUMP_SKIPPED"] = 10
  /\ Rank["CLONE_WORK"] = 4 /\ Rank["DUMP_RECOVER_WORK"] = 2
  /\ Rank["CLONE_START"] = 3 /\ Rank["DUMP_START"] = 8
BY StateFacts DEF Rank, Follows, RetryStates

\* No update of a row takes it back.
LEMMA StepIsProgress ==
  ASSUME NEW r \in Row, NEW n \in Row, NEW dumped, RowStep(r, n, dumped)
  PROVE  /\ Progress(r) <= Progress(n)
         /\ r.state # n.state => Progress(r) < Progress(n)
<1>1. /\ r.state \in State /\ n.state \in State /\ r.errors \in Nat /\ n.errors \in Nat
      /\ Rank[r.state] \in 0 .. 12 /\ Rank[n.state] \in 0 .. 12
  BY RankFacts DEF Row
<1>2. CASE n = r
  BY <1>1, <1>2 DEF Progress
<1>3. CASE GoesOn(r, n)
  BY <1>1, <1>3, RankFacts DEF GoesOn, Keeps, Progress
<1>4. CASE EndsWell(r, n, dumped) \/ IsSkipped(r, n)
  BY <1>1, <1>4, RankFacts DEF EndsWell, IsSkipped, Keeps, Progress
<1>5. CASE ScansBadly(r, n) \/ Errs(r, n)
  BY <1>1, <1>5 DEF ScansBadly, Errs, Progress
<1>6. CASE GoesBack(r, n)
  <2>1. n.state \in {"CLONE_START", "DUMP_START"} /\ n.errors = r.errors
    BY <1>6 DEF GoesBack, RetryState
  <2> QED  BY <1>1, <1>6, <2>1, RankFacts DEF GoesBack, Progress
<1> QED  BY <1>2, <1>3, <1>4, <1>5, <1>6 DEF RowStep

\* A job never goes back without an error that counts, whatever fails, times out,
\* dies or is late, for any number of jobs and any error limit.
THEOREM JobsMoveOn == Spec => MovesOn
<1> DEFINE On == \A j \in Job :
             /\ Progress(row[j]) <= Progress(row'[j])
             /\ row[j].state # row'[j].state => Progress(row[j]) < Progress(row'[j])
<1>1. ASSUME StepInv, [Next]_vars PROVE On
  <2>1. /\ RowSteps /\ \A j \in Job : row[j] \in Row /\ row'[j] \in Row
    BY <1>1, NextRows, NextSteps DEF StepInv, OwnerInv, TypeOK
  <2> QED  BY <2>1, StepIsProgress DEF RowSteps
<1>2. StepInv /\ [Next]_vars => [On]_vars
  BY <1>1
<1> QED  BY <1>2, InitSteps, NextSteps, PTL DEF Spec, MovesOn

\* So a job is not worked on for ever: its progress stays below a bound that the
\* error limit sets, and each change of its state uses some of it up.
ProgressBounded == \A j \in Job : Progress(row[j]) <= 13 * (TryLimit + 1) + 12

THEOREM WorkIsBounded == Spec => []ProgressBounded
<1>1. ASSUME StepInv, NEW j \in Job PROVE Progress(row[j]) <= 13 * (TryLimit + 1) + 12
  <2>1. row[j] \in Row /\ ErrorsOk(row[j])
    BY <1>1 DEF StepInv, OwnerInv, TypeOK, RowsOk
  <2>2. /\ row[j].errors \in Nat /\ row[j].errors <= TryLimit + 1 /\ TryLimit \in Nat
        /\ Rank[row[j].state] \in 0 .. 12
    BY <2>1, RankFacts, DumpJobAssumption DEF Row, ErrorsOk, TryLimit
  <2> QED  BY <2>2 DEF Progress
<1>2. StepInv => ProgressBounded
  BY <1>1 DEF ProgressBounded
<1> QED  BY <1>2, InitSteps, NextSteps, PTL DEF Spec

=============================================================================
