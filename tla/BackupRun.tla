----------------------------- MODULE BackupRun -----------------------------
(***************************************************************************)
(* The backup runs of FABS (fabs/brun.py, class BackupRun; the             *)
(* backup_runs, vl_entries and dump_jobs tables of fabs/db.py; the main    *)
(* loop of fabs/server.py).                                                *)
(*                                                                         *)
(* A run goes through a fixed list of stages.  The server looks for the    *)
(* runs of each stage in a fixed order, in cycles, and forks a child to do *)
(* the work of the stage.  The child writes the run's row back only if     *)
(* nobody wrote it since (state and dv of its copy still match), but most  *)
(* of what it does to the other tables is not guarded that way.  Operators *)
(* kill and retry runs from the command line at any time.                  *)
(*                                                                         *)
(* The dump jobs appear here as what module JobPool says of them.          *)
(***************************************************************************)
EXTENDS Integers, FiniteSets, Sequences

CONSTANTS
  Brun,        \* backup runs (backup_runs.id)
  Volume,      \* volumes of the cell
  Target,      \* the `volume' column of each run: a volume, or all of them
  Scan,        \* the volumes do_vlentry finds for each run
  ErrorLimit,  \* dump/error_limit
  MaxAdmin,    \* bound: how many kills and retries operators issue
  MaxDeaths,   \* bound: how many children die
  MaxOld       \* bound: how many runs grow old

ASSUME BackupRunAssumption ==
  /\ Scan \in [Brun -> SUBSET Volume]
  /\ DOMAIN Target = Brun
  /\ ErrorLimit \in Nat
  /\ MaxAdmin \in Nat
  /\ MaxDeaths \in Nat
  /\ MaxOld \in Nat

VARIABLES
  run,      \* the backup_runs rows
  kids,     \* the children forked for runs and still alive
  entries,  \* the vl_entries rows
  job,      \* where the dump job of each volume entry is, if it has one
  dumpers,  \* entries with a child that is about to insert a volume dump
  dumps,    \* entries with a volume_dumps row
  report,   \* what the run's report says of each volume
  server,   \* the server's place in its cycle
  cleaning, \* what the server's clean_cruft has left to do for each run
  old,      \* runs that started more than twelve hours ago
  admin,    \* kills and retries so far
  deaths    \* children that died so far

vars == <<run, kids, entries, job, dumpers, dumps, report, server, cleaning,
          old, admin, deaths>>

tables == <<entries, job, dumpers, dumps, report>>

-----------------------------------------------------------------------------
(***************************************************************************)
(* Stages, and the server's cycle over them.                               *)
(***************************************************************************)

\* The two halves of _process: find_update moves the runs in `from' to
\* `start' in one go, then those in `start' get a child and move to `work'.
Pass(from, start, work) ==
  <<[op |-> "take", from |-> from, to |-> start],
    [op |-> "fork", from |-> start, to |-> work]>>

\* One cycle of the server: BackupRun.process_jobs, then the part of
\* DumpJob.process_jobs that ends jobs.
Cycle ==
     Pass("NEW", "INIT_START", "INIT_WORK")
  \o Pass("INIT_DONE", "VLADDR_START", "VLADDR_WORK")
  \o Pass("VLADDR_DONE", "VLENTRY_START", "VLENTRY_WORK")
  \o Pass("VLENTRY_DONE", "BRUN_CLCREATE_START", "BRUN_CLCREATE_WORK")
  \o Pass("BRUN_CLCREATE_DONE", "BRUN_CLSCHED_START", "BRUN_CLSCHED_WORK")
  \o Pass("BRUN_CLSCHED_DONE", "BRUN_DUMPCREATE_START", "BRUN_DUMPCREATE_WORK")
  \o Pass("BRUN_DUMPCREATE_DONE", "BRUN_DUMPSCHED_START", "BRUN_DUMPSCHED_WORK")
  \o Pass("BRUN_DUMPSCHED_DONE", "BRUN_REPORT_START", "BRUN_REPORT_WORK")
  \o Pass("BRUN_REPORT_DONE", "BRUN_CLEANUP_START", "BRUN_CLEANUP_WORK")
  \o <<[op |-> "take", from |-> "BRUN_CLEANUP_DONE", to |-> "DONE"]>>
  \o Pass("ERROR", "BRUN_RECOVER_START", "BRUN_RECOVER_WORK")
  \o <<[op |-> "find"], [op |-> "clean"], [op |-> "jobs"]>>

\* Where a stage ends that has no more to do.
Ends == [INIT_WORK |-> "INIT_DONE", VLADDR_WORK |-> "VLADDR_DONE",
         VLENTRY_WORK |-> "VLENTRY_DONE",
         BRUN_CLCREATE_WORK |-> "BRUN_CLCREATE_DONE",
         BRUN_CLSCHED_WORK |-> "BRUN_CLSCHED_DONE",
         BRUN_DUMPCREATE_WORK |-> "BRUN_DUMPCREATE_DONE",
         BRUN_DUMPSCHED_WORK |-> "BRUN_DUMPSCHED_DONE",
         BRUN_REPORT_WORK |-> "BRUN_REPORT_DONE",
         BRUN_CLEANUP_WORK |-> "BRUN_CLEANUP_DONE"]

\* Where do_recover sends a run that failed in a *_WORK state (ret_table): to
\* the start of the stage, but for INIT_WORK, which is not in the table.
RetryTable ==
  [VLADDR_WORK |-> "VLADDR_START", VLENTRY_WORK |-> "VLENTRY_START",
   BRUN_CLCREATE_WORK |-> "BRUN_CLCREATE_START",
   BRUN_CLSCHED_WORK |-> "BRUN_CLSCHED_START",
   BRUN_DUMPCREATE_WORK |-> "BRUN_DUMPCREATE_START",
   BRUN_DUMPSCHED_WORK |-> "BRUN_DUMPSCHED_START",
   BRUN_REPORT_WORK |-> "BRUN_REPORT_START",
   BRUN_CLEANUP_WORK |-> "BRUN_CLEANUP_START"]

\* Mutants of RetryState: a scan that failed is not done again, or the run
\* stays in a state no pass looks for.
RetrySkipsScan == [RetryTable EXCEPT !.VLENTRY_WORK = "VLENTRY_DONE"]
RetryStays == [RetryTable EXCEPT !.VLADDR_WORK = "VLADDR_WORK"]

RetryState == RetryTable

\* States of ret_table that a killed run just goes back to.
StayStates ==
  {"NEW",
   "VLADDR_START", "VLADDR_DONE", "VLENTRY_START", "VLENTRY_DONE",
   "BRUN_CLCREATE_START", "BRUN_CLCREATE_DONE",
   "BRUN_CLSCHED_START", "BRUN_CLSCHED_DONE",
   "BRUN_DUMPCREATE_START", "BRUN_DUMPCREATE_DONE",
   "BRUN_DUMPSCHED_START", "BRUN_DUMPSCHED_DONE",
   "BRUN_REPORT_START", "BRUN_REPORT_DONE",
   "BRUN_CLEANUP_START", "BRUN_CLEANUP_DONE"}

RecoverStates == {"ERROR", "BRUN_RECOVER_START", "BRUN_RECOVER_WORK"}
EndStates == {"DONE", "FAILED"}
NoRow == {"UNBORN", "GONE"}  \* not created yet; deleted
NoState == "none"

State == DOMAIN Ends \cup StayStates \cup {"INIT_START", "INIT_DONE"}
           \cup RecoverStates \cup EndStates

Exists(b) == run[b].state \notin NoRow

\* Mutant of Active: a failed run counts as active.
ActiveOrFailed(b) == Exists(b) /\ run[b].state # "DONE"

Active(b) == Exists(b) /\ run[b].state \notin EndStates

-----------------------------------------------------------------------------
(***************************************************************************)
(* Volume entries and jobs.                                                *)
(***************************************************************************)

Entry == {e \in Brun \X Volume : e[2] \in Scan[e[1]]}

Of(b, S) == {e \in S : e[1] = b}

\* "finished" is DUMP_DONE or DUMP_SKIPPED, before the server makes it DONE.
JobState == {"none", "pending", "cloning", "cloned", "queued", "dumping",
             "finished", "done", "failed"}

JobsIn(b, s) == {e \in Of(b, Entry) : job[e] = s}

Holding(b) == JobsIn(b, "cloning") \cup JobsIn(b, "dumping")

SetJobs(S, s) == job' = [e \in Entry |-> IF e \in S THEN s ELSE job[e]]

-----------------------------------------------------------------------------
(***************************************************************************)
(* Children.  `mine' says that the row has not been written since the      *)
(* child last read or wrote it: as every update moves dv, that is when the *)
(* child's next update finds the row.                                      *)
(***************************************************************************)

Kid == [run : Brun, state : DOMAIN Ends \cup {"BRUN_RECOVER_WORK"},
        at : {"start", "work", "create", "free", "busy", "cruft", "drop",
              "entries", "row", "finish", "error"},
        last : State \cup {NoState}, errors : Nat, mine : BOOLEAN]

\* Mutant of Finds: the WHERE clause has the id only.
FindsAnyway(k) == Exists(k.run)

\* db.brun.update finds the row of the child's copy.
Finds(k) == k.mine

\* Somebody wrote the rows of the runs in S: no child of theirs finds them.
Outdate(S, K) == {IF k.run \in S THEN [k EXCEPT !.mine = FALSE] ELSE k : k \in K}

Go(k, at) == kids' = (kids \ {k}) \cup {[k EXCEPT !.at = at]}

\* The child's last update, and its exit.
Finish(k, new) ==
  /\ Finds(k)
  /\ run' = [run EXCEPT ![k.run] = new]
  /\ kids' = Outdate({k.run}, kids \ {k})

\* The child's last update finds the row and moves it on, or finds none, in
\* which case process_child cannot report the error either, and it exits.
FinishOrExit(k, new) ==
  \/ Finish(k, new)
  \/ ~ Finds(k) /\ kids' = kids \ {k} /\ UNCHANGED run

At(r, s) == [r EXCEPT !.state = s]

\* The first update of a handler, which changes no state.
Start(k) ==
  /\ k.at = "start"
  /\ Finds(k)
  /\ Go(k, "work")
  /\ UNCHANGED <<run, entries, job, dumpers, dumps, report>>

\* do_vlentry: insert the entries in bulk transactions.  An entry that is
\* there already, from an earlier attempt, violates a unique constraint, and
\* the transaction it is in is rolled back.
ScanEntries(k) ==
  LET found == Of(k.run, Entry)
  IN  /\ k.state = "VLENTRY_WORK" /\ k.at = "work"
      /\ \/ /\ Exists(k.run)
            /\ Of(k.run, entries) = {}
            /\ \E S \in SUBSET found :
                 /\ entries' = entries \cup S
                 /\ \/ S = found /\ Go(k, "finish")
                    \/ Go(k, "error")
         \/ Go(k, "error") /\ UNCHANGED entries
      /\ UNCHANGED <<run, job, dumpers, dumps, report>>

\* create_clones: clear the jobs of the run ...
ClearClones(k) ==
  /\ k.state = "BRUN_CLCREATE_WORK" /\ k.at = "work"
  /\ SetJobs(Of(k.run, Entry), "none")
  /\ Go(k, "create")
  /\ UNCHANGED <<run, entries, dumpers, dumps, report>>

\* ... and create one for each entry; a second one violates a constraint.
CreateClones(k) ==
  /\ k.state = "BRUN_CLCREATE_WORK" /\ k.at = "create"
  /\ IF \A e \in Of(k.run, entries) : job[e] = "none"
     THEN SetJobs(Of(k.run, entries), "pending") /\ Go(k, "finish")
     ELSE Go(k, "error") /\ UNCHANGED job
  /\ UNCHANGED <<run, entries, dumpers, dumps, report>>

\* What the two scheduling stages look for, start, and go back to.
Scheduling ==
  [BRUN_CLSCHED_WORK |-> [pending |-> "pending", busy |-> "cloning",
                          again |-> "BRUN_CLSCHED_START"],
   BRUN_DUMPSCHED_WORK |-> [pending |-> "queued", busy |-> "dumping",
                            again |-> "BRUN_DUMPSCHED_START"]]

\* _sched: is any job running?
Count(k) ==
  /\ k.state \in DOMAIN Scheduling /\ k.at = "work"
  /\ Go(k, IF Holding(k.run) = {} THEN "free" ELSE "busy")
  /\ UNCHANGED <<run, entries, job, dumpers, dumps, report>>

\* Mutant of NothingLeft: jobs that are running are not looked for again.
NothingPending(k, S) ==
  S = {} /\ JobsIn(k.run, Scheduling[k.state].pending) = {}

\* _sched found nothing to wait for, neither at first nor in a last look.
NothingLeft(k, S) ==
  /\ k.at = "free"
  /\ S = {}
  /\ JobsIn(k.run, Scheduling[k.state].pending) = {}
  /\ Holding(k.run) = {}

\* _sched starts some of the pending jobs, at least one if none was running.
\* The stage is over when nothing is left.  (Which jobs the quotas allow is
\* the subject of module DumpJob.)
Schedule(k) ==
  /\ k.state \in DOMAIN Scheduling /\ k.at \in {"free", "busy"}
  /\ LET s == Scheduling[k.state]
         pending == JobsIn(k.run, s.pending)
     IN  \E S \in SUBSET pending :
           /\ k.at = "free" /\ pending # {} => S # {}
           /\ SetJobs(S, s.busy)
           /\ dumpers' = IF s.busy = "dumping" THEN dumpers \cup S ELSE dumpers
           /\ \/ FinishOrExit(k, At(run[k.run], IF NothingLeft(k, S)
                                                THEN Ends[k.state] ELSE s.again))
              \/ Go(k, "error") /\ UNCHANGED run
  /\ UNCHANGED <<entries, dumps, report>>

\* create_dumps.
CreateDumps(k) ==
  /\ k.state = "BRUN_DUMPCREATE_WORK" /\ k.at = "work"
  /\ SetJobs(JobsIn(k.run, "cloned"), "queued")
  /\ Go(k, "finish")
  /\ UNCHANGED <<run, entries, dumpers, dumps, report>>

\* do_report: a volume whose job is in any state but DONE counts as failed; a
\* volume without a job is not in the report.
Report(k) ==
  /\ k.state = "BRUN_REPORT_WORK" /\ k.at = "work"
  /\ report' = [e \in Entry |-> IF e[1] # k.run THEN report[e]
                                ELSE IF job[e] = "none" THEN "absent"
                                ELSE IF job[e] = "done" THEN "ok" ELSE "failed"]
  /\ Go(k, "finish")
  /\ UNCHANGED <<run, entries, job, dumpers, dumps>>

-----------------------------------------------------------------------------
(***************************************************************************)
(* Cleaning (clean_cruft), for a run that ends and for runs that ended.    *)
(***************************************************************************)

Clear(b) ==
  /\ SetJobs(Of(b, Entry), "none")
  /\ UNCHANGED <<entries, dumpers, dumps, report>>

\* delete_cruft deletes the entries that no volume dump refers to.
Cruft(b) == Of(b, entries) \ dumps

\* Mutant of CanDelete: the volume dumps do not refer to the entries.
CanDeleteDumped(S) == \A e \in S : job[e] = "none"

\* A job or a volume dump that refers to an entry keeps it from being deleted.
CanDelete(S) == \A e \in S : job[e] = "none" /\ e \notin dumps

DeleteCruft(b) ==
  /\ entries' = entries \ Cruft(b)
  /\ UNCHANGED <<job, dumpers, dumps, report>>

\* The run made no volume dump: its row is not worth keeping.
IsEmpty(b) == Of(b, dumps) = {}

\* BackupRun.delete is a statement for each table, and a transaction for each
\* statement: the entries of the run, and then the run, to which no entry may
\* refer any more.  (What else the scan found out is not modelled.)
DeleteEntries(b) ==
  /\ entries' = entries \ Of(b, entries)
  /\ UNCHANGED <<job, dumpers, dumps, report>>

Delete(b) ==
  /\ run' = [run EXCEPT ![b].state = "GONE"]
  /\ UNCHANGED tables

\* do_cleanup.
CleanUp(k) ==
  /\ k.state = "BRUN_CLEANUP_WORK"
  /\ \/ k.at = "work" /\ Clear(k.run) /\ Go(k, "cruft") /\ UNCHANGED run
     \/ /\ k.at = "cruft"
        /\ UNCHANGED run
        /\ IF CanDelete(Cruft(k.run)) THEN DeleteCruft(k.run) /\ Go(k, "drop")
           ELSE Go(k, "error") /\ UNCHANGED tables
     \/ /\ k.at = "drop"
        /\ Go(k, IF IsEmpty(k.run) THEN "entries" ELSE "finish")
        /\ UNCHANGED <<run, tables>>
     \/ /\ k.at = "entries"
        /\ UNCHANGED run
        /\ IF CanDelete(Of(k.run, entries))
           THEN DeleteEntries(k.run) /\ Go(k, "row")
           ELSE Go(k, "error") /\ UNCHANGED tables
     \/ /\ k.at = "row"
        /\ IF Of(k.run, entries) = {}
           THEN /\ Delete(k.run)
                /\ kids' = Outdate({k.run}, (kids \ {k})
                                              \cup {[k EXCEPT !.at = "finish"]})
           ELSE Go(k, "error") /\ UNCHANGED <<run, tables>>

-----------------------------------------------------------------------------
(***************************************************************************)
(* The end of a child.                                                     *)
(***************************************************************************)

GiveUp(k) ==
  \/ k.errors >= ErrorLimit
  \/ k.last \notin DOMAIN RetryState \cup StayStates

\* do_recover.
Recovered(k) ==
  IF GiveUp(k) THEN At(run[k.run], "FAILED")
  ELSE [run[k.run] EXCEPT
          !.state = IF k.last \in StayStates THEN k.last ELSE RetryState[k.last],
          !.last = NoState]

\* The work of the stage is done.
Complete(k) ==
  /\ k.at = "finish"
  /\ FinishOrExit(k, IF k.state = "BRUN_RECOVER_WORK" THEN Recovered(k)
                     ELSE At(run[k.run], Ends[k.state]))
  /\ UNCHANGED tables

\* Any call a child makes can raise an exception.
Abort(k) ==
  /\ k.at # "error"
  /\ Go(k, "error")
  /\ UNCHANGED <<run, tables>>

\* BackupRun.error: an error during the recovery from an error is final.
Errored(k) ==
  IF k.state \in RecoverStates THEN At(run[k.run], "FAILED")
  ELSE [state |-> "ERROR", last |-> k.state, errors |-> k.errors + 1]

Fail(k) ==
  /\ k.at = "error"
  /\ FinishOrExit(k, Errored(k))
  /\ UNCHANGED tables

\* The first update of a handler finds no row.
Lose(k) ==
  /\ k.at = "start"
  /\ ~ Finds(k)
  /\ kids' = kids \ {k}
  /\ UNCHANGED <<run, tables>>

KidStep(k) ==
  /\ \/ Start(k) \/ ScanEntries(k) \/ ClearClones(k) \/ CreateClones(k)
     \/ Count(k) \/ Schedule(k) \/ CreateDumps(k) \/ Report(k) \/ CleanUp(k)
     \/ Complete(k) \/ Abort(k) \/ Fail(k) \/ Lose(k)
  /\ UNCHANGED <<server, cleaning, old, admin, deaths>>

\* The child dies.  Its run is left as it is; no time-out watches over runs.
Die(k) ==
  /\ deaths < MaxDeaths
  /\ deaths' = deaths + 1
  /\ kids' = kids \ {k}
  /\ UNCHANGED <<run, tables, server, cleaning, old, admin>>

-----------------------------------------------------------------------------
(***************************************************************************)
(* The server.                                                             *)
(***************************************************************************)

Op == Cycle[server].op

NextPlace == server' = IF server = Len(Cycle) THEN 1 ELSE server + 1

InState(s) == {b \in Brun : run[b].state = s}

\* find_update, and _finish_bruns.
Take ==
  /\ Op = "take"
  /\ LET S == InState(Cycle[server].from)
     IN  /\ run' = [b \in Brun |-> IF b \in S THEN At(run[b], Cycle[server].to)
                                   ELSE run[b]]
         /\ kids' = Outdate(S, kids)
  /\ NextPlace
  /\ UNCHANGED <<tables, cleaning, old, admin, deaths>>

\* Where a handler begins: some have no update before their first effect.
FirstCall(work) ==
  IF work \in {"INIT_WORK", "VLADDR_WORK", "BRUN_RECOVER_WORK"} THEN "finish"
  ELSE IF work \in {"BRUN_REPORT_WORK", "BRUN_CLEANUP_WORK"} THEN "work"
  ELSE "start"

\* Mutant of Winners: every run that conflicts with another one fails.
WinnersUnique(S) == {{b \in S : \A c \in S : Target[b] = Target[c] => b = c}}

\* _filter_dups: of several runs for the same volume in the same state, one
\* goes on.
Winners(S) ==
  {W \in SUBSET S :
     /\ \A b \in S : \E w \in W : Target[w] = Target[b]
     /\ \A w, x \in W : Target[w] = Target[x] => w = x}

\* The rest of _process.
Fork ==
  /\ Op = "fork"
  /\ LET c == Cycle[server]
         S == InState(c.from)
         Child(b) == [run |-> b, state |-> c.to, at |-> FirstCall(c.to),
                      last |-> run[b].last, errors |-> run[b].errors,
                      mine |-> TRUE]
     IN  \E winners \in Winners(S) :
           /\ run' = [b \in Brun |-> IF b \in winners THEN At(run[b], c.to)
                                     ELSE IF b \in S THEN At(run[b], "FAILED")
                                     ELSE run[b]]
           /\ kids' = Outdate(S, kids) \cup {Child(b) : b \in winners}
  /\ NextPlace
  /\ UNCHANGED <<tables, cleaning, old, admin, deaths>>

\* start_after: the run started in the last twelve hours.
Recent(b) == Exists(b) /\ b \notin old

\* cleanable_bruns(recent=True): every recent run, if no run is active.
FindCleanable ==
  /\ Op = "find"
  /\ cleaning' = [b \in Brun |-> IF Recent(b) /\ \A c \in Brun : ~ Active(c)
                                 THEN "clear" ELSE "no"]
  /\ NextPlace
  /\ UNCHANGED <<run, kids, tables, old, admin, deaths>>

\* An exception in clean_cruft ends the cycle for the runs.
GiveUpCleaning ==
  /\ cleaning' = [b \in Brun |-> "no"]
  /\ NextPlace
  /\ UNCHANGED <<run, kids, tables>>

\* One transaction of clean_cruft.  It goes by the rows cleanable_bruns read.
Clean(b) ==
  /\ Op = "clean"
  /\ \/ /\ cleaning[b] = "clear"
        /\ Clear(b)
        /\ cleaning' = [cleaning EXCEPT ![b] = "cruft"]
        /\ UNCHANGED <<run, kids, server>>
     \/ /\ cleaning[b] = "cruft"
        /\ IF CanDelete(Cruft(b))
           THEN /\ DeleteCruft(b)
                /\ cleaning' = [cleaning EXCEPT ![b] = "drop"]
                /\ UNCHANGED <<run, kids, server>>
           ELSE GiveUpCleaning
     \/ /\ cleaning[b] = "drop"
        /\ cleaning' = [cleaning EXCEPT ![b] = IF IsEmpty(b) THEN "entries" ELSE "no"]
        /\ UNCHANGED <<run, kids, tables, server>>
     \/ /\ cleaning[b] = "entries"
        /\ IF CanDelete(Of(b, entries))
           THEN /\ DeleteEntries(b)
                /\ cleaning' = [cleaning EXCEPT ![b] = "row"]
                /\ UNCHANGED <<run, kids, server>>
           ELSE GiveUpCleaning
     \/ /\ cleaning[b] = "row"
        /\ IF Of(b, entries) = {}
           THEN /\ Delete(b)
                /\ kids' = Outdate({b}, kids)
                /\ cleaning' = [cleaning EXCEPT ![b] = "no"]
                /\ UNCHANGED server
           ELSE GiveUpCleaning
  /\ UNCHANGED <<old, admin, deaths>>

CleanDone ==
  /\ Op = "clean"
  /\ \A b \in Brun : cleaning[b] = "no"
  /\ NextPlace
  /\ UNCHANGED <<run, kids, tables, cleaning, old, admin, deaths>>

\* DumpJob.process_jobs: DUMP_DONE and DUMP_SKIPPED jobs are DONE.
EndJobs ==
  /\ Op = "jobs"
  /\ SetJobs({e \in Entry : job[e] = "finished"}, "done")
  /\ NextPlace
  /\ UNCHANGED <<run, kids, entries, dumpers, dumps, report, cleaning, old,
                 admin, deaths>>

ServerStep == \/ Take \/ Fork \/ FindCleanable \/ CleanDone \/ EndJobs
              \/ \E b \in Brun : Clean(b)

-----------------------------------------------------------------------------
(***************************************************************************)
(* The dump jobs.                                                          *)
(***************************************************************************)

\* A clone ends: the volume is ready, or skipped, or the job failed.
EndClone(e) ==
  /\ job[e] = "cloning"
  /\ \E s \in {"cloned", "finished", "failed"} : SetJobs({e}, s)
  /\ UNCHANGED <<dumpers, dumps>>

\* A dump is recorded, if its entry is still there, and its job ends; or it
\* fails.  The child of a job that was cleared away records its dump, too.
EndDump(e) ==
  /\ e \in dumpers
  /\ dumpers' = dumpers \ {e}
  /\ \/ /\ e \in entries
        /\ dumps' = dumps \cup {e}
        /\ SetJobs({e} \cap JobsIn(e[1], "dumping"), "finished")
     \/ /\ SetJobs({e} \cap JobsIn(e[1], "dumping"), "failed")
        /\ UNCHANGED dumps

JobStep(e) ==
  /\ EndClone(e) \/ EndDump(e)
  /\ UNCHANGED <<run, kids, entries, report, server, cleaning, old, admin,
                 deaths>>

-----------------------------------------------------------------------------
(***************************************************************************)
(* Time, and the command line.                                             *)
(***************************************************************************)

\* Twelve hours have passed since the run started.
GrowOld(b) ==
  /\ Exists(b)
  /\ b \notin old
  /\ Cardinality(old) < MaxOld
  /\ old' = old \cup {b}
  /\ UNCHANGED <<run, kids, tables, server, cleaning, admin, deaths>>

\* Mutant of NewRun: inserted in a state no pass looks for.
NewRunUnknown == [state |-> "CREATED", last |-> NoState, errors |-> 0]

NewRun == [state |-> "NEW", last |-> NoState, errors |-> 0]

\* backup-start.
Create(b) ==
  /\ run[b].state = "UNBORN"
  /\ run' = [run EXCEPT ![b] = NewRun]
  /\ UNCHANGED <<kids, tables, server, cleaning, old, admin, deaths>>

Command(b, new) ==
  /\ admin < MaxAdmin
  /\ admin' = admin + 1
  /\ run' = [run EXCEPT ![b] = new]
  /\ kids' = Outdate({b}, kids)
  /\ UNCHANGED <<tables, server, cleaning, old, deaths>>

\* backup-kill, whatever the state of the run.
Kill(b) ==
  /\ Exists(b)
  /\ Command(b, [run[b] EXCEPT !.state = "FAILED",
                               !.last = IF @ = NoState THEN run[b].state ELSE @])

\* backup-retry.
Retry(b) ==
  /\ run[b].state \in {"ERROR", "FAILED"}
  /\ Command(b, [run[b] EXCEPT !.state = "BRUN_RECOVER_START", !.errors = 0])

-----------------------------------------------------------------------------

Init ==
  /\ run = [b \in Brun |-> [state |-> "UNBORN", last |-> NoState, errors |-> 0]]
  /\ kids = {}
  /\ entries = {}
  /\ job = [e \in Entry |-> "none"]
  /\ dumpers = {}
  /\ dumps = {}
  /\ report = [e \in Entry |-> "absent"]
  /\ server = 1
  /\ cleaning = [b \in Brun |-> "no"]
  /\ old = {}
  /\ admin = 0
  /\ deaths = 0

Next ==
  \/ ServerStep
  \/ \E k \in kids : KidStep(k) \/ Die(k)
  \/ \E e \in Entry : JobStep(e)
  \/ \E b \in Brun : Create(b) \/ Kill(b) \/ Retry(b) \/ GrowOld(b)

Spec == Init /\ [][Next]_vars

(***************************************************************************)
(* The server keeps cycling, every child goes on until it exits, and every *)
(* job that was started ends (RunEnds of module DumpJob).                  *)
(***************************************************************************)
Fairness ==
  /\ WF_vars(ServerStep)
  /\ \A b \in Brun : WF_vars(\E k \in kids : k.run = b /\ KidStep(k))
  /\ \A e \in Entry : WF_vars(JobStep(e))

FairSpec == Spec /\ Fairness

-----------------------------------------------------------------------------
(***************************************************************************)
(* Properties.                                                             *)
(***************************************************************************)

\* The shape of the state.
TypeOK ==
  /\ run \in [Brun -> [state : State \cup NoRow, last : State \cup {NoState},
                       errors : Nat]]
  /\ kids \subseteq Kid
  /\ entries \subseteq Entry
  /\ job \in [Entry -> JobState]
  /\ dumpers \subseteq Entry
  /\ dumps \subseteq Entry
  /\ report \in [Entry -> {"absent", "ok", "failed"}]
  /\ server \in 1 .. Len(Cycle)
  /\ cleaning \in [Brun -> {"no", "clear", "cruft", "drop", "entries", "row"}]
  /\ old \subseteq Brun
  /\ admin \in 0 .. MaxAdmin
  /\ deaths \in 0 .. MaxDeaths

\* A run is DONE only after it told its owner about every volume it set out to
\* back up, whatever stages failed and were retried on the way.  (A run that an
\* operator retries may have lost its jobs before: see RetryResumes.)
DoneIsReported ==
  admin = 0 => \A e \in Entry : run[e[1]].state = "DONE" => report[e] # "absent"

\* A volume dump is never orphaned: the volume entry and the run it refers to
\* stay, whoever cleans up at the same time as a late child records the dump, and
\* although the run may have been empty when the cleaning looked.
DumpsKept == \A e \in dumps : e \in entries /\ Exists(e[1])

\* When a run comes to create, run or report its dumps, none of its volumes
\* still waits for a clone, and when it comes to report them or to clean up, none
\* for its dump: no stage retried after an error, and no scheduler that counted
\* too early, let the run go on too soon.  (A kill and a retry can give a run two
\* scheduling children, and those do.)
StagesInOrder ==
  admin <= 1 =>
    \A e \in Entry :
      /\ run[e[1]].state \in {"BRUN_DUMPCREATE_START", "BRUN_DUMPSCHED_START",
                              "BRUN_REPORT_START"}
           => job[e] \notin {"pending", "cloning"}
      /\ run[e[1]].state \in {"BRUN_REPORT_START", "BRUN_CLEANUP_START"}
           => job[e] \notin {"cloned", "queued", "dumping"}

\* A run that fails although no operator said so, and not by giving up after an
\* error, gives way to another one: one for the same volume that was in the same
\* state, and that in the same step got the child that may go on with it.  So
\* runs that meet never all give way.
OneGoesOn ==
  [][\A b \in Brun :
       /\ run'[b].state = "FAILED"
       /\ run[b].state \notin EndStates \cup {"BRUN_RECOVER_WORK"}
       /\ admin' = admin
       => \E c \in Brun \ {b} :
            /\ Target[c] = Target[b]
            /\ run[c].state = run[b].state
            /\ \E k \in kids' : k.run = c /\ k.mine /\ k.state = run'[c].state]_vars

\* Only an operator, or the deletion of an empty run, changes a run that is
\* DONE or FAILED: no child that outlived a kill brings it back.
EndStays ==
  [][\A b \in Brun :
       run[b].state \in EndStates =>
         \/ run'[b] = run[b]
         \/ run'[b].state = "GONE"
         \/ admin' # admin]_vars

\* Every run ends, is killed, or turns out to be empty, unless one of its
\* children died without a word.
RunsEnd ==
  \A b \in Brun : []<>(~ Active(b) \/ deaths > 0)

\* What a run leaves behind is cleaned away: in the end no jobs, and no entries
\* but those that dumps refer to.  (Only an active run keeps its own, and a run
\* whose child died stays active.  The server does not look at runs that started
\* more than twelve hours ago; those that it missed keep what they have.)
CruftGoes ==
  <>[](deaths > 0 \/ \A e \in Entry :
                        \/ e[1] \in old
                        \/ job[e] = "none" /\ (e \in entries => e \in dumps))

(***************************************************************************)
(* Three statements of the repository that the code does not keep.         *)
(***************************************************************************)

\* A run that failed once its jobs were created keeps them, so that it can go
\* on where it failed (README.md: "Later on, you can cause a failed job to be
\* retried from the last known good point").
RetryResumes ==
  \A e \in Entry :
    /\ run[e[1]].state = "FAILED"
    /\ run[e[1]].last \in {"BRUN_CLSCHED_WORK", "BRUN_DUMPCREATE_WORK",
                           "BRUN_DUMPSCHED_WORK", "BRUN_REPORT_WORK"}
    => job[e] # "none"

\* The report calls a volume failed only if it has no dump (fabs/brun.py,
\* comment in process_jobs: "Send a report out about this finished backup
\* run, including what backups succeeded, failed, etc.").
FailuresAreReal == \A e \in Entry : report[e] = "failed" => e \notin dumps

\* No two runs for the same volume are at work at the same time (fabs/brun.py,
\* comment in _filter_dups: "so we don't run the same backup run more than
\* once in parallel").
NoParallelRuns ==
  \A b, c \in Brun :
    b # c /\ Target[b] = Target[c] =>
      ~ \E k, l \in kids : k.run = b /\ l.run = c

=============================================================================
