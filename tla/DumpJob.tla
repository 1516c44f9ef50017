------------------------------ MODULE DumpJob ------------------------------
(***************************************************************************)
(* The dump jobs of FABS (fabs/dumpjob.py, class DumpJob; the dump_jobs    *)
(* rows of fabs/db.py, class _DumpJobsDb; the scheduling stages of         *)
(* fabs/brun.py).                                                          *)
(*                                                                         *)
(* Three kinds of process share the rows and nothing else:                 *)
(*   - the server, which moves jobs along in passes over the table and     *)
(*     forks a child for each job it moves into a *_WORK state;            *)
(*   - those children, which each hold a COPY of the row and write it back *)
(*     only if the row still has the state and the data version (dv) of    *)
(*     the copy;                                                           *)
(*   - one scheduling child per backup run, which counts the running jobs  *)
(*     in one transaction and starts pending ones in a later one.          *)
(* A child can be slow, can outlive its claim on the job (its row then     *)
(* times out and another child is forked), and can die at any point.       *)
(***************************************************************************)
EXTENDS Quota

CONSTANTS
  ErrorLimit,      \* dump/error_limit
  AbortOnBadLinks, \* dump/scan_links/abort_on_error
  Injected         \* jobs of runs made with backup-inject: the dump is given

ASSUME DumpJobAssumption ==
  /\ ErrorLimit \in Nat
  /\ AbortOnBadLinks \in BOOLEAN
  /\ Injected \subseteq Job

VARIABLES
  row,     \* the dump_jobs rows
  kids,    \* the children forked for jobs and still alive
  stage,   \* how far the run of the jobs is (backup_runs.state)
  counted, \* the running jobs a run's scheduling child has counted
  given,   \* jobs whose injected blob is still where backup-inject put it
  stored,  \* jobs that have a blob at their permanent path
  vdumps,  \* how many volume_dumps rows refer to the job's volume entry
  report   \* what the run's report says of each job

vars == <<row, kids, stage, counted, given, stored, vdumps, report>>

-----------------------------------------------------------------------------
(***************************************************************************)
(* Rows.                                                                   *)
(***************************************************************************)

CloneStates == {"CLONE_PENDING", "CLONE_READY", "CLONE_START", "CLONE_WORK"}
DumpStates  == {"DUMP_READY", "DUMP_START", "DUMP_WORK"}
RetryStates == {"ERROR", "DUMP_RECOVER_START", "DUMP_RECOVER_WORK"}

\* States in which a job holds a quota slot.
ActiveStates == (CloneStates \ {"CLONE_PENDING"}) \cup DumpStates \cup RetryStates

EndStates == {"DUMP_DONE", "DUMP_SKIPPED", "DONE", "FAILED"}

State == CloneStates \cup DumpStates \cup RetryStates \cup EndStates
           \cup {"CLONE_DONE", "DUMP_PENDING"}

NoState == "none"

Row == [state : State, last : State \cup {NoState}, errors : Nat, dv : Nat,
        timed : BOOLEAN, running : BOOLEAN, skipped : BOOLEAN]

\* Mutant of NewRow: inserted in a state the passes do not know.
NewRowUnknown ==
  [state |-> "NEW", last |-> NoState, errors |-> 0, dv |-> 0,
   timed |-> FALSE, running |-> FALSE, skipped |-> FALSE]

\* The row create_clones inserts.
NewRow == [state |-> "CLONE_PENDING", last |-> NoState, errors |-> 0, dv |-> 0,
           timed |-> FALSE, running |-> FALSE, skipped |-> FALSE]

\* Mutant of Timed: no default timeout.
NeverTimed(r, s) == [r EXCEPT !.state = s, !.dv = @ + 1]

\* Every update moves the data version; unless it says "timeout=0" the row
\* can time out from now on (_job_timeout).
Timed(r, s) == [r EXCEPT !.state = s, !.dv = @ + 1, !.timed = TRUE]
Untimed(r, s) == [r EXCEPT !.state = s, !.dv = @ + 1, !.timed = FALSE]

\* The row stops holding a slot.
Release(r, s) == [Untimed(r, s) EXCEPT !.running = FALSE]

\* Mutant of Errored: a job in an error state gives up its slot.
ErroredReleasing(r, seen) ==
  IF seen.state \in RetryStates
  THEN Release(r, "FAILED")
  ELSE [Release(r, "ERROR") EXCEPT !.last = seen.state,
                                   !.errors = seen.errors + 1]

\* DumpJob.error: an error while recovering from an error is final.
\* `seen' is the writer's copy of state and errors.
Errored(r, seen) ==
  IF seen.state \in RetryStates
  THEN Release(r, "FAILED")
  ELSE [Untimed(r, "ERROR") EXCEPT !.last = seen.state,
                                   !.errors = seen.errors + 1]

\* UPDATE ... WHERE state = from: the rows of the jobs in S change by Op.
UpdateRows(S, Op(_)) ==
  row' = [j \in Job |-> IF j \in S THEN Op(row[j]) ELSE row[j]]

InState(s) == {j \in Job : row[j].state = s}

Running(r) == {j \in JobsOf(r) : row[j].running}

-----------------------------------------------------------------------------
(***************************************************************************)
(* Children.                                                               *)
(***************************************************************************)

\* Where a child is: the call it makes next.
Call == {"clone", "cloned", "skip",
         "fetch", "scan", "commit", "record", "dumped", "reject",
         "recover", "error"}

Kid == [job : Job, at : Call, state : State, dv : Nat, errors : Nat]

\* Mutants of Fresh: the WHERE clause leaves out dv, or everything.
FreshByState(k) == row[k.job].state = k.state
FreshAlways(k) == k \in kids

\* The child's copy still matches the row: its next update will find it.
Fresh(k) == row[k.job].state = k.state /\ row[k.job].dv = k.dv

Replace(k, new) == kids' = (kids \ {k}) \cup {new}

Exit(k) == kids' = kids \ {k}

\* The child updates its row but for the state, makes the call it announced,
\* and goes on.
Touch(k, at) ==
  /\ Fresh(k)
  /\ row' = [row EXCEPT ![k.job] = Timed(@, @.state)]
  /\ Replace(k, [k EXCEPT !.at = at, !.dv = @ + 1])

\* The child's last update.
Finish(k, new) ==
  /\ Fresh(k)
  /\ row' = [row EXCEPT ![k.job] = new]
  /\ Exit(k)

-----------------------------------------------------------------------------
(***************************************************************************)
(* The server.                                                             *)
(***************************************************************************)

\* What DumpJob.process_jobs does with jobs in a state: the state it moves
\* them to, the state it then forks children in, and their first call.
Passes ==
  {[from |-> "CLONE_READY", start |-> "CLONE_START",
    work |-> "CLONE_WORK", at |-> "clone"],
   [from |-> "DUMP_READY", start |-> "DUMP_START",
    work |-> "DUMP_WORK", at |-> "fetch"],
   [from |-> "ERROR", start |-> "DUMP_RECOVER_START",
    work |-> "DUMP_RECOVER_WORK", at |-> "recover"]}

\* The first half of _process (find_update): one UPDATE for all jobs.
TakeUp(pass) ==
  /\ InState(pass.from) # {}
  /\ UpdateRows(InState(pass.from), LAMBDA r : Untimed(r, pass.start))
  /\ UNCHANGED <<kids, stage, counted, given, stored, vdumps, report>>

\* The second half: whatever is in the start state, also from a cycle that
\* was cut short, moves on and gets a child.
Fork(pass) ==
  LET S == InState(pass.start)
      Child(j) == [job |-> j, at |-> pass.at, state |-> pass.work,
                   dv |-> row[j].dv + 1, errors |-> row[j].errors]
  IN  /\ S # {}
      /\ UpdateRows(S, LAMBDA r : Timed(r, pass.work))
      /\ kids' = kids \cup {Child(j) : j \in S}
      /\ UNCHANGED <<stage, counted, given, stored, vdumps, report>>

\* DUMP_DONE and DUMP_SKIPPED jobs are over.
Retire(from) ==
  /\ InState(from) # {}
  /\ UpdateRows(InState(from), LAMBDA r : Untimed(r, "DONE"))
  /\ UNCHANGED <<kids, stage, counted, given, stored, vdumps, report>>

\* _check_stale: the jobs that made no progress for as long as their timeout
\* allows are flagged as errors, in one transaction.
CheckStale ==
  \E S \in SUBSET {j \in Job : row[j].timed} :
    /\ S # {}
    /\ UpdateRows(S, LAMBDA r : Errored(r, r))
    /\ UNCHANGED <<kids, stage, counted, given, stored, vdumps, report>>

-----------------------------------------------------------------------------
(***************************************************************************)
(* What a child does.                                                      *)
(***************************************************************************)

\* do_clone: should_skip may find the volume unchanged or offline, or fail;
\* otherwise vos backup clones the volume, or fails.
Clone(k) ==
  /\ k.at = "clone"
  /\ \E next \in {"cloned", "skip", "error"} : Touch(k, next)
  /\ UNCHANGED <<stage, counted, given, stored, vdumps, report>>

Cloned(k) ==
  /\ k.at = "cloned"
  /\ Finish(k, Release(row[k.job], "CLONE_DONE"))
  /\ UNCHANGED <<stage, counted, given, stored, vdumps, report>>

Skip(k) ==
  /\ k.at = "skip"
  /\ Finish(k, [Release(row[k.job], "DUMP_SKIPPED") EXCEPT !.skipped = TRUE])
  /\ UNCHANGED <<stage, counted, given, stored, vdumps, report>>

\* do_dump, up to a complete blob in the temporary directory: an injected
\* blob is used where it lies, others come from vos dump.
Fetch(k) ==
  /\ k.at = "fetch"
  /\ \E next \in {"scan", "error"} : Touch(k, next)
  /\ UNCHANGED <<stage, counted, given, stored, vdumps, report>>

\* The header check against the live volume, the symlink scan, the checksum,
\* and "Committing completed dump", the last update before the blob moves.  An
\* injected blob that is gone cannot be scanned; one that does not match is
\* not an error, the volume is skipped.  A failed symlink scan ends the dump
\* only under AbortOnBadLinks; otherwise it counts as an error and goes on.
Scan(k) ==
  /\ k.at = "scan"
  /\ \/ Touch(k, "error")
     \/ /\ k.job \in Injected => k.job \in given
        /\ Touch(k, "commit")
     \/ /\ k.job \in given
        /\ Touch(k, "reject")
     \/ /\ ~ AbortOnBadLinks
        /\ k.job \in Injected => k.job \in given
        /\ Fresh(k)
        /\ row' = [row EXCEPT ![k.job] =
                     [Timed(@, @.state) EXCEPT !.errors = k.errors + 1]]
        /\ Replace(k, [k EXCEPT !.at = "commit", !.dv = @ + 1,
                                !.errors = @ + 1])
  /\ UNCHANGED <<stage, counted, given, stored, vdumps, report>>

\* DumpBlob.commit renames the blob to the path of its volume entry.  No row
\* is read or written: a child that lost its job meanwhile does it all the
\* same.
Commit(k) ==
  /\ k.at = "commit"
  /\ \/ /\ k.job \in Injected => k.job \in given
        /\ stored' = stored \cup {k.job}
        /\ given' = given \ {k.job}
        /\ Replace(k, [k EXCEPT !.at = "record"])
     \/ /\ Replace(k, [k EXCEPT !.at = "error"])
        /\ UNCHANGED <<stored, given>>
  /\ UNCHANGED <<row, stage, counted, vdumps, report>>

\* Mutant of Record: a failed insert goes unnoticed.
RecordUnchecked(k) ==
  /\ k.at = "record"
  /\ \/ vdumps' = [vdumps EXCEPT ![k.job] = @ + 1]
     \/ UNCHANGED vdumps
  /\ Replace(k, [k EXCEPT !.at = "dumped"])
  /\ UNCHANGED <<row, stage, counted, given, stored, report>>

\* db.voldump.create.
Record(k) ==
  /\ k.at = "record"
  /\ \/ /\ vdumps' = [vdumps EXCEPT ![k.job] = @ + 1]
        /\ Replace(k, [k EXCEPT !.at = "dumped"])
     \/ /\ Replace(k, [k EXCEPT !.at = "error"])
        /\ UNCHANGED vdumps
  /\ UNCHANGED <<row, stage, counted, given, stored, report>>

Dumped(k) ==
  /\ k.at = "dumped"
  /\ Finish(k, Release(row[k.job], "DUMP_DONE"))
  /\ UNCHANGED <<stage, counted, given, stored, vdumps, report>>

\* A stale injected blob is deleted before the row is updated.
Reject(k) ==
  /\ k.at = "reject"
  /\ given' = given \ {k.job}
  /\ \/ Finish(k, [Release(row[k.job], "DUMP_SKIPPED") EXCEPT !.skipped = TRUE])
     \/ ~ Fresh(k) /\ Exit(k) /\ UNCHANGED row
  /\ UNCHANGED <<stage, counted, stored, vdumps, report>>

\* Mutant of RetryState: a failed dump goes back to the clone.
RetryFromClone == [CLONE_WORK |-> "CLONE_START", DUMP_WORK |-> "CLONE_START"]

\* The states do_recover can go back to (ret_table): the work is done again
\* from the start.
RetryState == [CLONE_WORK |-> "CLONE_START", DUMP_WORK |-> "DUMP_START"]

\* Mutant of GiveUp: one retry too many.
GiveUpLate(k) ==
  \/ k.errors > ErrorLimit
  \/ row[k.job].last \notin DOMAIN RetryState

\* The retry limit is reached, or the job failed where nothing can be redone.
GiveUp(k) ==
  \/ k.errors >= ErrorLimit
  \/ row[k.job].last \notin DOMAIN RetryState

\* do_recover.
Recover(k) ==
  /\ k.at = "recover"
  /\ LET r == row[k.job]
     IN  Finish(k, IF GiveUp(k) THEN Release(r, "FAILED")
                   ELSE [Untimed(r, RetryState[r.last]) EXCEPT !.last = NoState])
  /\ UNCHANGED <<stage, counted, given, stored, vdumps, report>>

\* process_child caught an exception.
Fail(k) ==
  /\ k.at = "error"
  /\ Finish(k, Errored(row[k.job], k))
  /\ UNCHANGED <<stage, counted, given, stored, vdumps, report>>

\* An update that finds no row raises DbNoUpdateError; so does the update
\* with which process_child would report that, and the child exits.
LoseRow(k) ==
  /\ k.at \notin {"commit", "record", "reject"}
  /\ ~ Fresh(k)
  /\ Exit(k)
  /\ UNCHANGED <<row, stage, counted, given, stored, vdumps, report>>

\* The child is killed, or was never started because the server went down
\* after it had updated the row.
Die(k) ==
  /\ k \in kids
  /\ Exit(k)
  /\ UNCHANGED <<row, stage, counted, given, stored, vdumps, report>>

KidStep(k) ==
  \/ Clone(k) \/ Cloned(k) \/ Skip(k)
  \/ Fetch(k) \/ Scan(k) \/ Commit(k) \/ Record(k)
  \/ Dumped(k) \/ Reject(k) \/ Recover(k) \/ Fail(k) \/ LoseRow(k)

-----------------------------------------------------------------------------
(***************************************************************************)
(* The run that owns the jobs.                                             *)
(***************************************************************************)

\* The stages of a run.  Where a scheduling child has something left to do in
\* *_WORK, it is told apart what: to ask for waiting jobs, to ask for running
\* ones, to end the stage, or to leave it to the next cycle.
CloneStages == {"BRUN_CLSCHED_START", "BRUN_CLSCHED_WORK", "CLSCHED_ASK_PENDING",
                "CLSCHED_ASK_RUNNING", "CLSCHED_OVER", "CLSCHED_AGAIN"}

DumpStages == {"BRUN_DUMPSCHED_START", "BRUN_DUMPSCHED_WORK", "DUMPSCHED_ASK_PENDING",
               "DUMPSCHED_ASK_RUNNING", "DUMPSCHED_OVER", "DUMPSCHED_AGAIN"}

ReportStages == {"BRUN_REPORT_START", "BRUN_REPORT_DONE"}

Stage == CloneStages \cup {"BRUN_DUMPCREATE_START"} \cup DumpStages \cup ReportStages

\* The two scheduling stages: which jobs wait, where they go, and what the
\* run does when there is nothing left to wait for.
Scheduling ==
  {[start |-> "BRUN_CLSCHED_START", work |-> "BRUN_CLSCHED_WORK",
    askPending |-> "CLSCHED_ASK_PENDING", askRunning |-> "CLSCHED_ASK_RUNNING",
    over |-> "CLSCHED_OVER", again |-> "CLSCHED_AGAIN",
    pending |-> "CLONE_PENDING", ready |-> "CLONE_READY",
    next |-> "BRUN_DUMPCREATE_START"],
   [start |-> "BRUN_DUMPSCHED_START", work |-> "BRUN_DUMPSCHED_WORK",
    askPending |-> "DUMPSCHED_ASK_PENDING", askRunning |-> "DUMPSCHED_ASK_RUNNING",
    over |-> "DUMPSCHED_OVER", again |-> "DUMPSCHED_AGAIN",
    pending |-> "DUMP_PENDING", ready |-> "DUMP_READY",
    next |-> "BRUN_REPORT_START"]}

\* The jobs of a run that wait to be started.
Waiting(r, s) == InState(s.pending) \cap JobsOf(r)

\* Mutant of CountRunning: jobs that wait for a retry are not counted.
CountUnfailed(r, s) ==
  /\ stage[r] = s.start
  /\ stage' = [stage EXCEPT ![r] = s.work]
  /\ counted' = [counted EXCEPT ![r] =
                   {j \in Running(r) : row[j].state \notin RetryStates}]
  /\ UNCHANGED <<row, kids, given, stored, vdumps, report>>

\* _sched, first transaction: count the jobs that hold a slot.
CountRunning(r, s) ==
  /\ stage[r] = s.start
  /\ stage' = [stage EXCEPT ![r] = s.work]
  /\ counted' = [counted EXCEPT ![r] = Running(r)]
  /\ UNCHANGED <<row, kids, given, stored, vdumps, report>>

\* _sched, second transaction: start the jobs the count leaves room for.  Only
\* when none was counted and none is started can the stage be over.
Schedule(r, s) ==
  /\ stage[r] = s.work
  /\ \E S \in Batches(counted[r], Waiting(r, s)) :
       /\ UpdateRows(S, LAMBDA x : [Timed(x, s.ready) EXCEPT !.running = TRUE])
       /\ stage' = [stage EXCEPT ![r] = IF counted[r] = {} /\ S = {}
                                        THEN s.askPending ELSE s.again]
  /\ counted' = [counted EXCEPT ![r] = {}]
  /\ UNCHANGED <<kids, given, stored, vdumps, report>>

\* _sched, the last looks: two more counts, a query each.
AskPending(r, s) ==
  /\ stage[r] = s.askPending
  /\ stage' = [stage EXCEPT ![r] = IF Waiting(r, s) = {} THEN s.askRunning ELSE s.again]
  /\ UNCHANGED <<row, kids, counted, given, stored, vdumps, report>>

AskRunning(r, s) ==
  /\ stage[r] = s.askRunning
  /\ stage' = [stage EXCEPT ![r] = IF Running(r) = {} THEN s.over ELSE s.again]
  /\ UNCHANGED <<row, kids, counted, given, stored, vdumps, report>>

\* sched_clones and sched_dumps: what _sched returned goes into the run's row.
EndSched(r, s) ==
  /\ \/ stage[r] = s.over /\ stage' = [stage EXCEPT ![r] = s.next]
     \/ stage[r] = s.again /\ stage' = [stage EXCEPT ![r] = s.start]
  /\ UNCHANGED <<row, kids, counted, given, stored, vdumps, report>>

\* create_dumps: the volumes that were cloned wait for their dump.
CreateDumps(r) ==
  /\ stage[r] = "BRUN_DUMPCREATE_START"
  /\ UpdateRows(InState("CLONE_DONE") \cap JobsOf(r),
                LAMBDA x : Untimed(x, "DUMP_PENDING"))
  /\ stage' = [stage EXCEPT ![r] = "BRUN_DUMPSCHED_START"]
  /\ UNCHANGED <<kids, counted, given, stored, vdumps, report>>

\* Mutant of Verdict: skip_reason is ignored.
VerdictUnskipped(j) == IF row[j].state # "DONE" THEN "failed" ELSE "dumped"

\* report_success: a job counts as dumped or skipped if it is DONE, and as
\* failed otherwise.
Verdict(j) ==
  IF row[j].state # "DONE" THEN "failed"
  ELSE IF row[j].skipped THEN "skipped" ELSE "dumped"

Report(r) ==
  /\ stage[r] = "BRUN_REPORT_START"
  /\ report' = [j \in Job |-> IF j \in JobsOf(r) THEN Verdict(j) ELSE report[j]]
  /\ stage' = [stage EXCEPT ![r] = "BRUN_REPORT_DONE"]
  /\ UNCHANGED <<row, kids, counted, given, stored, vdumps>>

-----------------------------------------------------------------------------

Init ==
  /\ row = [j \in Job |-> NewRow]
  /\ kids = {}
  /\ stage = [r \in Run |-> "BRUN_CLSCHED_START"]
  /\ counted = [r \in Run |-> {}]
  /\ given = Injected
  /\ stored = {}
  /\ vdumps = [j \in Job |-> 0]
  /\ report = [j \in Job |-> "none"]

ServerStep ==
  \/ \E pass \in Passes : TakeUp(pass) \/ Fork(pass)
  \/ \E from \in {"DUMP_DONE", "DUMP_SKIPPED"} : Retire(from)

RunStep(r) ==
  \/ \E s \in Scheduling :
       \/ CountRunning(r, s) \/ Schedule(r, s)
       \/ AskPending(r, s) \/ AskRunning(r, s) \/ EndSched(r, s)
  \/ CreateDumps(r)
  \/ Report(r)

Next ==
  \/ ServerStep
  \/ CheckStale
  \/ \E r \in Run : RunStep(r)
  \/ \E k \in kids : KidStep(k) \/ Die(k)

Spec == Init /\ [][Next]_vars

(***************************************************************************)
(* The server keeps cycling, a child that lives goes on, the scheduling    *)
(* stages of a run are entered again in every cycle, and a job that makes  *)
(* no progress times out.  Nothing makes a child die.                      *)
(***************************************************************************)
Fairness ==
  /\ WF_vars(ServerStep)
  /\ WF_vars(CheckStale)
  /\ \A r \in Run : WF_vars(RunStep(r))
  /\ WF_vars(\E k \in kids : KidStep(k))

FairSpec == Spec /\ Fairness

-----------------------------------------------------------------------------
(***************************************************************************)
(* Properties.                                                             *)
(***************************************************************************)

\* The shape of the state.
TypeOK ==
  /\ row \in [Job -> Row]
  /\ kids \subseteq Kid
  /\ stage \in [Run -> Stage]
  /\ counted \in [Run -> SUBSET Job]
  /\ given \subseteq Job
  /\ stored \subseteq Job
  /\ vdumps \in [Job -> Nat]
  /\ report \in [Job -> {"none", "dumped", "skipped", "failed"}]

\* A row says "running" exactly while its job holds a quota slot: no path
\* through errors, retries, time-outs and children that lost their job leaks
\* a slot (the run would wait for it forever) or gives one up too early.
RunningIffActive ==
  \A j \in Job : row[j].running <=> row[j].state \in ActiveStates

\* At no time do the jobs of a run hold more slots than its quotas allow,
\* although they are counted in one transaction and started in another, and
\* although failed jobs are restarted without asking the scheduler again.
QuotaRespected == \A r \in Run : WithinQuota(Running(r))

\* What a scheduling child has counted is still an upper bound when it starts
\* jobs on the strength of it: between its two transactions jobs may fail, end
\* or be restarted, but none may come to hold a slot it did not count.
CountHolds ==
  \A r \in Run :
    (\E s \in Scheduling : stage[r] = s.work) => Running(r) \subseteq counted[r]

\* Of all the children alive for a job, at most one can still write its row,
\* however many were forked for it after time-outs.
OneOwner ==
  \A k, l \in kids :
    k.job = l.job /\ Fresh(k) /\ Fresh(l) => k = l

\* A run that has moved on left no job behind: no clone is pending or under
\* way once dumps are created, and no job can still change its outcome once
\* the report stage is reached.
StageBarrier ==
  \A j \in Job :
    /\ stage[RunOf[j]] \notin CloneStages =>
         ~ \/ row[j].state \in CloneStates
           \/ row[j].state \in RetryStates /\ row[j].last \in CloneStates
    /\ stage[RunOf[j]] \in ReportStages => row[j].state \in EndStates

\* A job that ended with a dump has a volume_dumps row to restore from, and
\* every such row has its blob, wherever a child died between the rename,
\* the insert and the final update.
DumpedIsStored ==
  /\ \A j \in Job :
       row[j].state \in {"DUMP_DONE", "DONE"} /\ ~ row[j].skipped
         => vdumps[j] > 0
  /\ \A j \in Job : vdumps[j] > 0 => j \in stored

\* The errors up to which a job is tried again.  The first try is made whatever
\* the limit says: 0 and 1 come to the same.
TryLimit == IF ErrorLimit = 0 THEN 1 ELSE ErrorLimit

\* A job that keeps failing is given up: no job collects more errors than
\* the limit and the one non-fatal error of its last attempt.
ErrorsBounded == \A j \in Job : row[j].errors <= TryLimit + 1

\* What the report calls dumped or skipped really ended that way, and stays
\* so: no late child turns a reported success into anything else.
ReportedIsTrue ==
  \A j \in Job :
    /\ report[j] = "dumped" => /\ row[j].state = "DONE"
                               /\ vdumps[j] > 0 /\ j \in stored
    /\ report[j] = "skipped" => row[j].state = "DONE" /\ row[j].skipped

\* DONE and FAILED are final: a child that was given up as stale cannot
\* bring its job back, and neither can a server pass.
EndIsFinal ==
  [][\A j \in Job : row[j].state \in {"DONE", "FAILED"} => row'[j] = row[j]]_vars

\* How far a job is on its way: so many errors, and in the stage that it got to
\* after the last of them.
Rank ==
  [ERROR |-> 0, CLONE_PENDING |-> 1, CLONE_READY |-> 2,
   DUMP_RECOVER_START |-> 1, DUMP_RECOVER_WORK |-> 2,
   CLONE_START |-> 3, CLONE_WORK |-> 4, CLONE_DONE |-> 5, DUMP_PENDING |-> 6,
   DUMP_READY |-> 7, DUMP_START |-> 8, DUMP_WORK |-> 9,
   DUMP_DONE |-> 10, DUMP_SKIPPED |-> 10, DONE |-> 11, FAILED |-> 12]

Progress(r) == 13 * r.errors + Rank[r.state]

\* A job goes back to an earlier stage only by way of an error, and each such
\* error counts, whoever reports it: its child, the time-out or a child of an
\* earlier attempt.  So it changes its state no more often than the errors that
\* it may collect allow (ErrorsBounded).
MovesOn ==
  [][\A j \in Job :
       /\ Progress(row[j]) <= Progress(row'[j])
       /\ row[j].state # row'[j].state => Progress(row[j]) < Progress(row'[j])]_vars

\* Whatever fails, times out or dies, the run ends: every job reaches an end
\* state, and the run is reported.
RunEnds == \A r \in Run : <>[](stage[r] = "BRUN_REPORT_DONE")

(***************************************************************************)
(* A statement of the repository that the code does not keep.              *)
(***************************************************************************)

\* dump/parallel/* bound the dump jobs of the server, not those of one run
\* (doc/pod1/fabsys_config.pod: "at most 100 dump jobs can be running at
\* once").
ServerQuotaRespected == WithinQuota({j \in Job : row[j].running})

-----------------------------------------------------------------------------
(***************************************************************************)
(* DumpJob implements JobPool.  A job in a retry state is where it failed. *)
(***************************************************************************)

PhaseOf(r) ==
  LET s == IF r.state \in RetryStates THEN r.last ELSE r.state
  IN  IF s = "CLONE_PENDING" THEN "pending"
      ELSE IF s \in CloneStates THEN "cloning"
      ELSE IF s = "CLONE_DONE" THEN "cloned"
      ELSE IF s = "DUMP_PENDING" THEN "queued"
      ELSE IF s \in DumpStates THEN "dumping"
      ELSE "ended"

Pool == INSTANCE JobPool WITH phase <- [j \in Job |-> PhaseOf(row[j])]

\* Every behaviour of the rows, the children and the scheduler is one of the
\* pool of jobs that the backup runs rely on.
ImplementsPool == Pool!PoolSpec

=============================================================================
