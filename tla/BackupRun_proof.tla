--------------------------- MODULE BackupRun_proof ---------------------------
(***************************************************************************)
(* Theorems about backup runs: types, dumps that are kept, ends that stay, *)
(* conflicts that one survives, stages in order, reports that are full.    *)
(***************************************************************************)
EXTENDS BackupRun, SequenceTheorems, TLAPS

-----------------------------------------------------------------------------
(***************************************************************************)
(* The invariants.                                                         *)
(***************************************************************************)

\* A child that still finds its row knows what is in it.
Matches(k) ==
  /\ run[k.run].state = k.state
  /\ run[k.run].last = k.last
  /\ run[k.run].errors = k.errors

CopyInv == TypeOK /\ \A k \in kids : k.mine => Matches(k)

\* Entries belong to runs that exist, and dumps to entries.
DumpsInv ==
  /\ TypeOK
  /\ \A e \in entries : Exists(e[1])
  /\ dumps \subseteq entries

\* The states of a run whose clones are made, whose dumps are created, and
\* whose dumps are made.
ClosingStates ==
  {"BRUN_DUMPSCHED_DONE",
   "BRUN_REPORT_START", "BRUN_REPORT_WORK", "BRUN_REPORT_DONE",
   "BRUN_CLEANUP_START", "BRUN_CLEANUP_WORK", "BRUN_CLEANUP_DONE"}

DumpingStates ==
  ClosingStates \cup
  {"BRUN_DUMPCREATE_DONE", "BRUN_DUMPSCHED_START", "BRUN_DUMPSCHED_WORK"}

ClonedStates ==
  DumpingStates \cup
  {"BRUN_CLSCHED_DONE", "BRUN_DUMPCREATE_START", "BRUN_DUMPCREATE_WORK"}

\* The run is in one of these states, or failed in one and may get back to it.
Within(r, S) ==
  \/ r.state \in S
  \/ r.state \in RecoverStates /\ r.last \in S

Past(r, S) ==
  \/ Within(r, S)
  \/ admin = 0 /\ r.state = "FAILED" /\ r.last \in S

\* A run has one child at a time, and a child that does not find its row has a
\* run that stays FAILED, or that is gone.
OneKid == \A k, l \in kids : k.run = l.run => k = l

Attached(k) ==
  \/ k.mine
  \/ run[k.run].state = "GONE"
  \/ run[k.run].state = "FAILED" /\ admin = 1

JobsInOrder(e) ==
  /\ Past(run[e[1]], ClonedStates) => job[e] \notin {"pending", "cloning"}
  /\ Past(run[e[1]], DumpingStates) => job[e] # "cloned"
  /\ Past(run[e[1]], ClosingStates) => job[e] \notin {"queued", "dumping"}

\* What a child has done that is about to end its stage.
HasQueued(k) ==
  k.mine /\ k.at = "finish" =>
    /\ k.state \notin {"BRUN_CLSCHED_WORK", "BRUN_DUMPSCHED_WORK"}
    /\ k.state = "BRUN_DUMPCREATE_WORK" =>
         \A e \in Of(k.run, Entry) : job[e] # "cloned"

\* Only a run that failed has a state that it failed in.
LastOk(r) ==
  r.state \notin RecoverStates \cup {"FAILED", "GONE"} => r.last = NoState

OrderInv ==
  /\ CopyInv
  /\ \A b \in Brun : LastOk(run[b])
  /\ admin <= 1 =>
       /\ OneKid
       /\ \A k \in kids : Attached(k) /\ HasQueued(k)
       /\ \A e \in Entry : JobsInOrder(e)

\* The states of a run whose entries are there, whose jobs are, and whose
\* report is.
ScannedStates == {"VLENTRY_DONE", "BRUN_CLCREATE_START", "BRUN_CLCREATE_WORK"}

CreatedStates ==
  {"BRUN_CLCREATE_DONE",
   "BRUN_CLSCHED_START", "BRUN_CLSCHED_WORK", "BRUN_CLSCHED_DONE",
   "BRUN_DUMPCREATE_START", "BRUN_DUMPCREATE_WORK", "BRUN_DUMPCREATE_DONE",
   "BRUN_DUMPSCHED_START", "BRUN_DUMPSCHED_WORK", "BRUN_DUMPSCHED_DONE",
   "BRUN_REPORT_START", "BRUN_REPORT_WORK"}

ReportedStates ==
  {"BRUN_REPORT_DONE", "BRUN_CLEANUP_START", "BRUN_CLEANUP_WORK",
   "BRUN_CLEANUP_DONE", "DONE"}

Covered(e) ==
  /\ Within(run[e[1]], ScannedStates) => e \in entries
  /\ Within(run[e[1]], CreatedStates) => job[e] # "none"
  /\ Within(run[e[1]], ReportedStates) => report[e] # "absent"

HasCovered(k) ==
  k.mine /\ k.at = "finish" =>
    \A e \in Of(k.run, Entry) :
      /\ k.state = "VLENTRY_WORK" => e \in entries
      /\ k.state = "BRUN_CLCREATE_WORK" => job[e] # "none"
      /\ k.state = "BRUN_REPORT_WORK" => report[e] # "absent"

ReportInv ==
  /\ OrderInv
  /\ admin = 0 =>
       /\ \A b \in Brun : cleaning[b] # "no" => run[b].state \in EndStates \cup {"GONE"}
       /\ \A e \in Entry : Covered(e)
       /\ \A k \in kids : HasCovered(k)

-----------------------------------------------------------------------------
(***************************************************************************)
(* The states, and the steps of the server's cycle.                        *)
(***************************************************************************)

WorkStates ==
  {"INIT_WORK", "VLADDR_WORK", "VLENTRY_WORK", "BRUN_CLCREATE_WORK",
   "BRUN_CLSCHED_WORK", "BRUN_DUMPCREATE_WORK", "BRUN_DUMPSCHED_WORK",
   "BRUN_REPORT_WORK", "BRUN_CLEANUP_WORK"}

\* Where a stage ends, and where it is retried.
EndOf(s, t) ==
  \/ s = "INIT_WORK" /\ t = "INIT_DONE"
  \/ s = "VLADDR_WORK" /\ t = "VLADDR_DONE"
  \/ s = "VLENTRY_WORK" /\ t = "VLENTRY_DONE"
  \/ s = "BRUN_CLCREATE_WORK" /\ t = "BRUN_CLCREATE_DONE"
  \/ s = "BRUN_CLSCHED_WORK" /\ t = "BRUN_CLSCHED_DONE"
  \/ s = "BRUN_DUMPCREATE_WORK" /\ t = "BRUN_DUMPCREATE_DONE"
  \/ s = "BRUN_DUMPSCHED_WORK" /\ t = "BRUN_DUMPSCHED_DONE"
  \/ s = "BRUN_REPORT_WORK" /\ t = "BRUN_REPORT_DONE"
  \/ s = "BRUN_CLEANUP_WORK" /\ t = "BRUN_CLEANUP_DONE"

Forks(s, t) ==
  \/ s = "INIT_START" /\ t = "INIT_WORK"
  \/ s = "VLADDR_START" /\ t = "VLADDR_WORK"
  \/ s = "VLENTRY_START" /\ t = "VLENTRY_WORK"
  \/ s = "BRUN_CLCREATE_START" /\ t = "BRUN_CLCREATE_WORK"
  \/ s = "BRUN_CLSCHED_START" /\ t = "BRUN_CLSCHED_WORK"
  \/ s = "BRUN_DUMPCREATE_START" /\ t = "BRUN_DUMPCREATE_WORK"
  \/ s = "BRUN_DUMPSCHED_START" /\ t = "BRUN_DUMPSCHED_WORK"
  \/ s = "BRUN_REPORT_START" /\ t = "BRUN_REPORT_WORK"
  \/ s = "BRUN_CLEANUP_START" /\ t = "BRUN_CLEANUP_WORK"
  \/ s = "BRUN_RECOVER_START" /\ t = "BRUN_RECOVER_WORK"

Takes(s, t) ==
  \/ s = "NEW" /\ t = "INIT_START"
  \/ s = "INIT_DONE" /\ t = "VLADDR_START"
  \/ s = "VLADDR_DONE" /\ t = "VLENTRY_START"
  \/ s = "VLENTRY_DONE" /\ t = "BRUN_CLCREATE_START"
  \/ s = "BRUN_CLCREATE_DONE" /\ t = "BRUN_CLSCHED_START"
  \/ s = "BRUN_CLSCHED_DONE" /\ t = "BRUN_DUMPCREATE_START"
  \/ s = "BRUN_DUMPCREATE_DONE" /\ t = "BRUN_DUMPSCHED_START"
  \/ s = "BRUN_DUMPSCHED_DONE" /\ t = "BRUN_REPORT_START"
  \/ s = "BRUN_REPORT_DONE" /\ t = "BRUN_CLEANUP_START"
  \/ s = "BRUN_CLEANUP_DONE" /\ t = "DONE"
  \/ s = "ERROR" /\ t = "BRUN_RECOVER_START"

\* DOMAIN Ends, by name.
LEMMA EndsFacts ==
  /\ DOMAIN Ends = WorkStates
  /\ \A s \in WorkStates : EndOf(s, Ends[s])
  BY DEF Ends, WorkStates, EndOf

LEMMA RetryFacts ==
  /\ DOMAIN RetryState = WorkStates \ {"INIT_WORK"}
  /\ \A s \in DOMAIN RetryState : Forks(RetryState[s], s)
  BY DEF RetryState, RetryTable, WorkStates, Forks

\* The states of a run, by name.
LEMMA StateFacts ==
  /\ State = WorkStates \cup StayStates \cup {"INIT_START", "INIT_DONE"}
               \cup RecoverStates \cup EndStates
  /\ NoState \notin State
  BY EndsFacts DEF State, NoState, WorkStates, StayStates, RecoverStates, EndStates

LEMMA SchedulingFacts ==
  /\ DOMAIN Scheduling = {"BRUN_CLSCHED_WORK", "BRUN_DUMPSCHED_WORK"}
  /\ Scheduling["BRUN_CLSCHED_WORK"] =
       [pending |-> "pending", busy |-> "cloning", again |-> "BRUN_CLSCHED_START"]
  /\ Scheduling["BRUN_DUMPSCHED_WORK"] =
       [pending |-> "queued", busy |-> "dumping", again |-> "BRUN_DUMPSCHED_START"]
  BY DEF Scheduling

\* What a step of the cycle is.
IsStep(c) ==
  \/ c.op = "take" /\ Takes(c.from, c.to)
  \/ c.op = "fork" /\ Forks(c.from, c.to)
  \/ c.op \in {"find", "clean", "jobs"}

CycleSteps ==
  {c \in [op : {"take", "fork"}, from : State, to : State]
           \cup [op : {"find", "clean", "jobs"}] : IsStep(c)}

LEMMA TakeIsStep ==
  ASSUME NEW from, NEW to, Takes(from, to)
  PROVE  [op |-> "take", from |-> from, to |-> to] \in CycleSteps
<1>1. from \in State /\ to \in State
  BY StateFacts DEF Takes, StayStates, RecoverStates, EndStates, WorkStates
<1> QED  BY <1>1 DEF CycleSteps, IsStep

LEMMA ForkIsStep ==
  ASSUME NEW from, NEW to, Forks(from, to)
  PROVE  [op |-> "fork", from |-> from, to |-> to] \in CycleSteps
<1>1. from \in State /\ to \in State
  BY StateFacts DEF Forks, StayStates, RecoverStates, EndStates, WorkStates
<1> QED  BY <1>1 DEF CycleSteps, IsStep

LEMMA PassSteps ==
  ASSUME NEW from, NEW start, NEW work, Takes(from, start), Forks(start, work)
  PROVE  Pass(from, start, work) \in Seq(CycleSteps)
  BY TakeIsStep, ForkIsStep DEF Pass

\* Every step of the cycle is one of these.
LEMMA CycleFacts ==
  /\ Cycle \in Seq(CycleSteps)
  /\ Len(Cycle) >= 3
<1> DEFINE S == Seq(CycleSteps)
           P1 == Pass("NEW", "INIT_START", "INIT_WORK")
           P2 == Pass("INIT_DONE", "VLADDR_START", "VLADDR_WORK")
           P3 == Pass("VLADDR_DONE", "VLENTRY_START", "VLENTRY_WORK")
           P4 == Pass("VLENTRY_DONE", "BRUN_CLCREATE_START", "BRUN_CLCREATE_WORK")
           P5 == Pass("BRUN_CLCREATE_DONE", "BRUN_CLSCHED_START", "BRUN_CLSCHED_WORK")
           P6 == Pass("BRUN_CLSCHED_DONE", "BRUN_DUMPCREATE_START",
                      "BRUN_DUMPCREATE_WORK")
           P7 == Pass("BRUN_DUMPCREATE_DONE", "BRUN_DUMPSCHED_START",
                      "BRUN_DUMPSCHED_WORK")
           P8 == Pass("BRUN_DUMPSCHED_DONE", "BRUN_REPORT_START", "BRUN_REPORT_WORK")
           P9 == Pass("BRUN_REPORT_DONE", "BRUN_CLEANUP_START", "BRUN_CLEANUP_WORK")
           D == <<[op |-> "take", from |-> "BRUN_CLEANUP_DONE", to |-> "DONE"]>>
           R == Pass("ERROR", "BRUN_RECOVER_START", "BRUN_RECOVER_WORK")
           L == <<[op |-> "find"], [op |-> "clean"], [op |-> "jobs"]>>
<1>1. P1 \in S /\ P2 \in S /\ P3 \in S /\ P4 \in S /\ P5 \in S
  BY PassSteps DEF Takes, Forks
<1>2. P6 \in S /\ P7 \in S /\ P8 \in S /\ P9 \in S /\ R \in S
  BY PassSteps DEF Takes, Forks
<1>3. D \in S
  <2>1. [op |-> "take", from |-> "BRUN_CLEANUP_DONE", to |-> "DONE"] \in CycleSteps
    BY TakeIsStep DEF Takes
  <2> QED  BY <2>1
<1>4. L \in S /\ Len(L) = 3
  <2>1. [op |-> "find"] \in CycleSteps /\ [op |-> "clean"] \in CycleSteps
          /\ [op |-> "jobs"] \in CycleSteps
    BY DEF CycleSteps, IsStep
  <2> QED  BY <2>1
<1>5. Cycle = P1 \o P2 \o P3 \o P4 \o P5 \o P6 \o P7 \o P8 \o P9 \o D \o R \o L
  BY DEF Cycle
<1> HIDE DEF S, P1, P2, P3, P4, P5, P6, P7, P8, P9, D, R, L
<1> DEFINE Q == P1 \o P2 \o P3 \o P4 \o P5 \o P6 \o P7 \o P8 \o P9 \o D \o R
<1>6. ASSUME NEW s \in S, NEW t \in S PROVE s \o t \in S /\ Len(s \o t) = Len(s) + Len(t)
  BY ConcatProperties DEF S
<1>7. Q \in S
  BY <1>1, <1>2, <1>3, <1>6
<1> HIDE DEF Q
<1>8. Q \o L \in S /\ Len(Q \o L) = Len(Q) + 3
  BY <1>4, <1>6, <1>7
<1>9. Len(Q) \in Nat
  BY <1>7, LenProperties DEF S
<1> QED  BY <1>5, <1>8, <1>9 DEF S, Q

\* The step at which the server is.
LEMMA ServerFacts ==
  ASSUME TypeOK
  PROVE  /\ Cycle[server] \in CycleSteps
         /\ Op = "take" => Takes(Cycle[server].from, Cycle[server].to)
         /\ Op = "fork" => Forks(Cycle[server].from, Cycle[server].to)
<1>1. Cycle[server] \in CycleSteps
  BY CycleFacts, ElementOfSeq DEF TypeOK
<1> QED  BY <1>1 DEF CycleSteps, IsStep, Op

-----------------------------------------------------------------------------
(***************************************************************************)
(* Types.                                                                  *)
(***************************************************************************)

Row == [state : State \cup NoRow, last : State \cup {NoState}, errors : Nat]

LEMMA TypeFacts ==
  ASSUME TypeOK
  PROVE  /\ \A b \in Brun : run[b] \in Row
         /\ \A k \in kids : /\ k \in Kid /\ k.run \in Brun /\ k.errors \in Nat
                            /\ k.state \in WorkStates \cup {"BRUN_RECOVER_WORK"}
         /\ \A e \in Entry : e[1] \in Brun
  BY EndsFacts DEF TypeOK, Kid, Row, Entry

LEMMA OutdateTypes ==
  ASSUME NEW S, NEW K, K \subseteq Kid
  PROVE  Outdate(S, K) \subseteq Kid
<1>1. ASSUME NEW k \in Kid PROVE [k EXCEPT !.mine = FALSE] \in Kid
  BY DEF Kid
<1> QED  BY <1>1 DEF Outdate

LEMMA GoTypes ==
  ASSUME TypeOK, NEW k \in kids, NEW at, Go(k, at),
         at \in {"start", "work", "create", "free", "busy", "cruft", "drop",
                 "entries", "row", "finish", "error"}
  PROVE  kids' \subseteq Kid
  BY DEF TypeOK, Go, Kid

LEMMA SetJobsTypes ==
  ASSUME TypeOK, NEW S, NEW s \in JobState, SetJobs(S, s)
  PROVE  job' \in [Entry -> JobState]
  BY DEF TypeOK, SetJobs

LEMMA FinishTypes ==
  ASSUME TypeOK, NEW k \in kids, NEW new \in Row, FinishOrExit(k, new)
  PROVE  run' \in [Brun -> Row] /\ kids' \subseteq Kid
  BY OutdateTypes DEF TypeOK, FinishOrExit, Finish, Row

\* What a stage, a recovery and an error make of a row is a row.
LEMMA OutcomeTypes ==
  ASSUME TypeOK, NEW k \in kids
  PROVE  /\ k.state \in WorkStates => At(run[k.run], Ends[k.state]) \in Row
         /\ Recovered(k) \in Row
         /\ Errored(k) \in Row
         /\ k.state \in DOMAIN Scheduling =>
              At(run[k.run], Scheduling[k.state].again) \in Row
<1>1. run[k.run] \in Row /\ k \in Kid
  BY TypeFacts
<1>2. ASSUME NEW r \in Row, NEW s \in State PROVE At(r, s) \in Row
  BY <1>2 DEF At, Row
<1>3. ASSUME k.state \in WorkStates PROVE Ends[k.state] \in State
  BY <1>3, EndsFacts, StateFacts DEF EndOf, StayStates
<1>4. "FAILED" \in State /\ "ERROR" \in State
  BY StateFacts DEF EndStates, RecoverStates
<1>5. Errored(k) \in Row
  <2>1. k.state \in State /\ k.errors + 1 \in Nat
    BY <1>1, EndsFacts, StateFacts DEF Kid, RecoverStates
  <2> QED  BY <1>1, <1>2, <1>4, <2>1 DEF Errored, Row
<1>6. Recovered(k) \in Row
  <2>1. CASE GiveUp(k)
    BY <1>1, <1>2, <1>4, <2>1 DEF Recovered
  <2>2. CASE ~ GiveUp(k)
    <3>1. k.last \in DOMAIN RetryState \cup StayStates
      BY <2>2 DEF GiveUp
    <3> DEFINE s == IF k.last \in StayStates THEN k.last ELSE RetryState[k.last]
    <3>2. s \in State
      BY <3>1, RetryFacts, StateFacts DEF Forks, RecoverStates, StayStates
    <3>3. [run[k.run] EXCEPT !.state = s, !.last = NoState] \in Row
      BY <1>1, <3>2 DEF Row
    <3> QED  BY <2>2, <3>3 DEF Recovered
  <2> QED  BY <2>1, <2>2
<1>7. ASSUME k.state \in DOMAIN Scheduling
      PROVE  At(run[k.run], Scheduling[k.state].again) \in Row
  <2>1. Scheduling[k.state].again \in State
    BY <1>7, SchedulingFacts, StateFacts DEF StayStates
  <2> QED  BY <1>1, <1>2, <2>1
<1> QED  BY <1>1, <1>2, <1>3, <1>5, <1>6, <1>7

LEMMA KidTypes ==
  ASSUME TypeOK, NEW k \in kids, KidStep(k)
  PROVE  TypeOK'
<1>1. UNCHANGED <<server, cleaning, old, admin, deaths>>
  BY DEF KidStep
<1> DEFINE Rows == run' \in [Brun -> Row] /\ kids' \subseteq Kid
           Tables == /\ entries' \subseteq Entry
                     /\ job' \in [Entry -> JobState]
                     /\ dumpers' \subseteq Entry
                     /\ dumps' \subseteq Entry
                     /\ report' \in [Entry -> {"absent", "ok", "failed"}]
<1>2. SUFFICES Rows /\ Tables
  BY <1>1 DEF TypeOK, Row
<1>3. UNCHANGED run /\ kids' \subseteq Kid => Rows
  BY DEF TypeOK, Row
<1>4. UNCHANGED tables => Tables
  BY DEF TypeOK, tables
<1>5. CASE Start(k)
  BY <1>3, <1>4, <1>5, GoTypes DEF Start, tables
<1>6. CASE ScanEntries(k)
  <2>1. Rows
    BY <1>3, <1>6, GoTypes DEF ScanEntries
  <2>2. Tables
    BY <1>6 DEF ScanEntries, TypeOK, Of
  <2> QED  BY <2>1, <2>2
<1>7. CASE ClearClones(k)
  <2>1. Rows
    BY <1>3, <1>7, GoTypes DEF ClearClones
  <2>2. Tables
    BY <1>7, SetJobsTypes DEF ClearClones, TypeOK, JobState
  <2> QED  BY <2>1, <2>2
<1>8. CASE CreateClones(k)
  <2>1. Rows
    BY <1>3, <1>8, GoTypes DEF CreateClones
  <2>2. Tables
    BY <1>8, SetJobsTypes DEF CreateClones, TypeOK, JobState
  <2> QED  BY <2>1, <2>2
<1>9. CASE Count(k)
  BY <1>3, <1>4, <1>9, GoTypes DEF Count, tables
<1>10. CASE Schedule(k)
  <2>1. k.state \in DOMAIN Scheduling
    BY <1>10 DEF Schedule
  <2> DEFINE s == Scheduling[k.state]
  <2>2. PICK S \in SUBSET JobsIn(k.run, s.pending) :
          /\ SetJobs(S, s.busy)
          /\ dumpers' = IF s.busy = "dumping" THEN dumpers \cup S ELSE dumpers
          /\ \/ FinishOrExit(k, At(run[k.run], IF NothingLeft(k, S)
                                               THEN Ends[k.state] ELSE s.again))
             \/ Go(k, "error") /\ UNCHANGED run
    BY <1>10, Zenon DEF Schedule
  <2>3. Rows
    <3>1. CASE Go(k, "error") /\ UNCHANGED run
      BY <1>3, <3>1, GoTypes
    <3>2. CASE FinishOrExit(k, At(run[k.run], IF NothingLeft(k, S)
                                              THEN Ends[k.state] ELSE s.again))
      <4>1. At(run[k.run], IF NothingLeft(k, S) THEN Ends[k.state] ELSE s.again) \in Row
        BY <2>1, OutcomeTypes, SchedulingFacts DEF WorkStates
      <4> QED  BY <3>2, <4>1, FinishTypes
    <3> QED  BY <2>2, <3>1, <3>2
  <2>4. s.busy \in JobState
    BY <2>1, SchedulingFacts DEF JobState
  <2>5. S \subseteq Entry
    BY DEF JobsIn, Of
  <2>6. Tables
    BY <1>10, <2>2, <2>4, <2>5, SetJobsTypes DEF Schedule, TypeOK
  <2> QED  BY <2>3, <2>6
<1>11. CASE CreateDumps(k)
  <2>1. Rows
    BY <1>3, <1>11, GoTypes DEF CreateDumps
  <2>2. Tables
    BY <1>11, SetJobsTypes DEF CreateDumps, TypeOK, JobState
  <2> QED  BY <2>1, <2>2
<1>12. CASE Report(k)
  <2>1. Rows
    BY <1>3, <1>12, GoTypes DEF Report
  <2>2. Tables
    BY <1>12 DEF Report, TypeOK
  <2> QED  BY <2>1, <2>2
<1>13. CASE CleanUp(k)
  <2>1. CASE k.at = "work" /\ Clear(k.run) /\ Go(k, "cruft") /\ UNCHANGED run
    <3>1. Tables
      BY <2>1, SetJobsTypes DEF Clear, TypeOK, JobState
    <3> QED  BY <1>3, <2>1, <3>1, GoTypes
  <2>2. CASE DeleteCruft(k.run) /\ Go(k, "drop") /\ UNCHANGED run
    <3>1. Tables
      BY <2>2 DEF DeleteCruft, TypeOK
    <3> QED  BY <1>3, <2>2, <3>1, GoTypes
  <2>3. CASE Delete(k.run) /\ kids' = Outdate({k.run}, (kids \ {k})
                                         \cup {[k EXCEPT !.at = "finish"]})
    <3>1. Tables
      BY <1>4, <2>3 DEF Delete
    <3>2. (kids \ {k}) \cup {[k EXCEPT !.at = "finish"]} \subseteq Kid
      BY DEF TypeOK, Kid
    <3>3. kids' \subseteq Kid
      BY <2>3, <3>2, OutdateTypes
    <3>4. run' \in [Brun -> Row]
      BY <2>3 DEF Delete, TypeOK, Row, NoRow
    <3> QED  BY <3>1, <3>3, <3>4
  <2>4. CASE /\ Go(k, "error") \/ Go(k, "entries") \/ Go(k, "finish")
             /\ UNCHANGED <<run, tables>>
    BY <1>3, <1>4, <2>4, GoTypes
  <2>5. CASE DeleteEntries(k.run) /\ Go(k, "row") /\ UNCHANGED run
    <3>1. Tables
      BY <2>5 DEF DeleteEntries, TypeOK
    <3> QED  BY <1>3, <2>5, <3>1, GoTypes
  <2> QED  BY <1>13, <2>1, <2>2, <2>3, <2>4, <2>5, Zenon DEF CleanUp, tables
<1>14. CASE Complete(k)
  <2> DEFINE new == IF k.state = "BRUN_RECOVER_WORK" THEN Recovered(k)
                    ELSE At(run[k.run], Ends[k.state])
  <2>1. new \in Row
    BY OutcomeTypes, TypeFacts
  <2> QED  BY <1>4, <1>14, <2>1, FinishTypes DEF Complete
<1>15. CASE Abort(k)
  BY <1>3, <1>4, <1>15, GoTypes DEF Abort
<1>16. CASE Fail(k)
  BY <1>4, <1>16, OutcomeTypes, FinishTypes DEF Fail
<1>17. CASE Lose(k)
  <2>1. kids' \subseteq Kid
    BY <1>17 DEF Lose, TypeOK
  <2> QED  BY <1>3, <1>4, <1>17, <2>1 DEF Lose
<1> QED  BY <1>5, <1>6, <1>7, <1>8, <1>9, <1>10, <1>11, <1>12, <1>13, <1>14,
            <1>15, <1>16, <1>17 DEF KidStep

LEMMA WinnersFacts ==
  ASSUME NEW S, NEW W \in Winners(S)
  PROVE  /\ W \subseteq S
         /\ \A b \in S : \E w \in W : Target[w] = Target[b]
  BY DEF Winners

LEMMA ServerTypes ==
  ASSUME TypeOK, ServerStep
  PROVE  TypeOK'
<1>1. NextPlace => server' \in 1 .. Len(Cycle)
  BY CycleFacts DEF NextPlace, TypeOK
<1>2. UNCHANGED server => server' \in 1 .. Len(Cycle)
  BY DEF TypeOK
<1>3. CASE Take
  <2>1. PICK S \in SUBSET Brun :
          /\ run' = [b \in Brun |-> IF b \in S THEN At(run[b], Cycle[server].to)
                                    ELSE run[b]]
          /\ kids' = Outdate(S, kids)
    BY <1>3 DEF Take, InState
  <2>2. Cycle[server].to \in State
    BY <1>3, ServerFacts, StateFacts
       DEF Take, Takes, StayStates, RecoverStates, EndStates, WorkStates
  <2>3. run' \in [Brun -> Row]
    BY <2>1, <2>2 DEF TypeOK, At, Row
  <2>4. kids' \subseteq Kid
    BY <2>1, OutdateTypes DEF TypeOK
  <2> QED  BY <1>1, <1>3, <2>3, <2>4 DEF Take, TypeOK, Row, tables
<1>4. CASE Fork
  <2> DEFINE c == Cycle[server]
             S == InState(c.from)
             Child(b) == [run |-> b, state |-> c.to, at |-> FirstCall(c.to),
                          last |-> run[b].last, errors |-> run[b].errors,
                          mine |-> TRUE]
  <2>1. PICK W \in Winners(S) :
          /\ run' = [b \in Brun |-> IF b \in W THEN At(run[b], c.to)
                                    ELSE IF b \in S THEN At(run[b], "FAILED")
                                    ELSE run[b]]
          /\ kids' = Outdate(S, kids) \cup {Child(b) : b \in W}
    BY <1>4, Zenon DEF Fork
  <2>2. W \subseteq Brun
    BY WinnersFacts DEF InState
  <2>3. /\ c.to \in State /\ "FAILED" \in State
        /\ c.to \in DOMAIN Ends \cup {"BRUN_RECOVER_WORK"}
    BY <1>4, ServerFacts, StateFacts, EndsFacts
       DEF Fork, Forks, RecoverStates, EndStates, WorkStates
  <2>4. FirstCall(c.to) \in {"finish", "work", "start"}
    BY DEF FirstCall
  <2>5. ASSUME NEW b \in W PROVE Child(b) \in Kid
    <3>1. run[b] \in Row
      BY <2>2, TypeFacts
    <3> QED  BY <2>2, <2>3, <2>4, <3>1 DEF Kid, Row
  <2>6. Outdate(S, kids) \subseteq Kid
    BY OutdateTypes DEF TypeOK
  <2>7. kids' \subseteq Kid
    BY <2>1, <2>5, <2>6
  <2>8. run' \in [Brun -> Row]
    BY <2>1, <2>3 DEF TypeOK, At, Row
  <2> QED  BY <1>1, <1>4, <2>7, <2>8 DEF Fork, TypeOK, Row, tables
<1>5. CASE FindCleanable
  BY <1>1, <1>5 DEF FindCleanable, TypeOK, tables
<1>6. CASE CleanDone
  BY <1>1, <1>6 DEF CleanDone, TypeOK, tables
<1>7. CASE EndJobs
  BY <1>1, <1>7, SetJobsTypes DEF EndJobs, TypeOK, JobState
<1>8. ASSUME NEW b \in Brun, Clean(b) PROVE TypeOK'
  <2>1. UNCHANGED <<old, admin, deaths>>
    BY <1>8 DEF Clean
  <2>2. CASE GiveUpCleaning
    BY <1>1, <2>1, <2>2 DEF GiveUpCleaning, TypeOK, tables
  <2>3. CASE /\ Clear(b) /\ cleaning' = [cleaning EXCEPT ![b] = "cruft"]
             /\ UNCHANGED <<run, kids, server>>
    BY <2>1, <2>3, SetJobsTypes DEF Clear, TypeOK, JobState
  <2>4. CASE /\ DeleteCruft(b) /\ cleaning' = [cleaning EXCEPT ![b] = "drop"]
             /\ UNCHANGED <<run, kids, server>>
    BY <2>1, <2>4 DEF DeleteCruft, TypeOK
  <2>5. CASE /\ cleaning' = [cleaning EXCEPT ![b] = IF IsEmpty(b) THEN "entries"
                                                    ELSE "no"]
             /\ UNCHANGED <<run, kids, tables, server>>
    BY <2>1, <2>5 DEF TypeOK, tables
  <2>6. CASE /\ Delete(b) /\ kids' = Outdate({b}, kids)
             /\ cleaning' = [cleaning EXCEPT ![b] = "no"]
             /\ UNCHANGED server
    <3>1. kids' \subseteq Kid
      BY <2>6, OutdateTypes DEF TypeOK
    <3>2. run' \in [Brun -> Row]
      BY <2>6 DEF Delete, TypeOK, Row, NoRow
    <3> QED  BY <2>1, <2>6, <3>1, <3>2 DEF Delete, TypeOK, Row, tables
  <2>7. CASE /\ DeleteEntries(b) /\ cleaning' = [cleaning EXCEPT ![b] = "row"]
             /\ UNCHANGED <<run, kids, server>>
    BY <2>1, <2>7 DEF DeleteEntries, TypeOK
  <2> QED  BY <1>8, <2>2, <2>3, <2>4, <2>5, <2>6, <2>7, Zenon DEF Clean
<1> QED  BY <1>3, <1>4, <1>5, <1>6, <1>7, <1>8 DEF ServerStep

LEMMA JobTypes ==
  ASSUME TypeOK, NEW e \in Entry, JobStep(e)
  PROVE  TypeOK'
<1>1. CASE EndClone(e)
  <2>1. PICK s \in {"cloned", "finished", "failed"} : SetJobs({e}, s)
    BY <1>1 DEF EndClone
  <2>2. job' \in [Entry -> JobState]
    BY <2>1, SetJobsTypes DEF JobState
  <2> QED  BY <1>1, <2>2 DEF EndClone, JobStep, TypeOK
<1>2. CASE EndDump(e)
  <2>1. job' \in [Entry -> JobState]
    BY <1>2, SetJobsTypes DEF EndDump, JobState
  <2> QED  BY <1>2, <2>1 DEF EndDump, JobStep, TypeOK
<1> QED  BY <1>1, <1>2 DEF JobStep

LEMMA OperatorTypes ==
  ASSUME TypeOK, NEW b \in Brun, Create(b) \/ Kill(b) \/ Retry(b)
  PROVE  TypeOK'
<1>1. run[b] \in Row
  BY TypeFacts
<1>2. ASSUME NEW new \in Row, Command(b, new) PROVE TypeOK'
  <2>1. kids' \subseteq Kid
    BY <1>2, OutdateTypes DEF Command, TypeOK
  <2>2. run' \in [Brun -> Row]
    BY <1>2 DEF Command, TypeOK, Row
  <2>3. admin' \in 0 .. MaxAdmin
    BY <1>2, BackupRunAssumption DEF Command, TypeOK
  <2> QED  BY <1>2, <2>1, <2>2, <2>3 DEF Command, TypeOK, Row, tables
<1>3. CASE Create(b)
  BY <1>3, StateFacts DEF Create, NewRun, TypeOK, StayStates, tables
<1>4. CASE Kill(b)
  <2> DEFINE l == IF run[b].last = NoState THEN run[b].state ELSE run[b].last
  <2>1. run[b].state \in State
    BY <1>1, <1>4 DEF Kill, Exists, Row
  <2>2. [run[b] EXCEPT !.state = "FAILED", !.last = l] \in Row
    BY <1>1, <2>1, StateFacts DEF Row, EndStates
  <2>3. Command(b, [run[b] EXCEPT !.state = "FAILED", !.last = l])
    BY <1>4 DEF Kill
  <2> QED  BY <1>2, <2>2, <2>3
<1>5. CASE Retry(b)
  <2>1. [run[b] EXCEPT !.state = "BRUN_RECOVER_START", !.errors = 0] \in Row
    BY <1>1, StateFacts DEF Row, RecoverStates
  <2> QED  BY <1>2, <1>5, <2>1 DEF Retry
<1> QED  BY <1>3, <1>4, <1>5

LEMMA DieTypes ==
  ASSUME TypeOK, NEW k \in kids, Die(k)
  PROVE  TypeOK'
  BY BackupRunAssumption DEF Die, TypeOK, tables

LEMMA NextTypes ==
  ASSUME TypeOK, [Next]_vars
  PROVE  TypeOK'
<1>1. CASE UNCHANGED vars
  BY <1>1 DEF vars, TypeOK
<1>2. ASSUME NEW b \in Brun, GrowOld(b) PROVE TypeOK'
  BY <1>2 DEF GrowOld, TypeOK, tables
<1> QED
  BY <1>1, <1>2, ServerTypes, KidTypes, DieTypes, JobTypes, OperatorTypes DEF Next

LEMMA InitTypes == Init => TypeOK
  BY CycleFacts, BackupRunAssumption DEF Init, TypeOK, JobState, NoRow

\* The state keeps its shape.
THEOREM RunTypes == Spec => []TypeOK
  BY InitTypes, NextTypes, PTL DEF Spec

-----------------------------------------------------------------------------
(***************************************************************************)
(* The updates of a run's row.                                             *)
(***************************************************************************)

\* The row r of a run becomes n by the last update of a child: the stage is
\* over, is to go on, failed, or is to be retried.
ChildMoves(r, n) ==
  \/ /\ r.state \in WorkStates
     /\ EndOf(r.state, n.state) /\ n.last = r.last
  \/ /\ r.state \in {"BRUN_CLSCHED_WORK", "BRUN_DUMPSCHED_WORK"}
     /\ Forks(n.state, r.state) /\ n.last = r.last
  \/ /\ r.state \in WorkStates
     /\ n.state = "ERROR" /\ n.last = r.state
  \/ /\ r.state = "BRUN_RECOVER_WORK"
     /\ n.state = "FAILED" /\ n.last = r.last
  \/ /\ r.state = "BRUN_RECOVER_WORK" /\ n.last = NoState
     /\ \/ r.last \in StayStates /\ n.state = r.last
        \/ r.last \in WorkStates /\ Forks(n.state, r.last)

\* No entry refers to the run.
Bare(b) == Of(b, entries) = {}

\* What a child does before it goes on to its last update.
Prepares(k) ==
  \/ /\ k.state = "VLENTRY_WORK"
     /\ entries' = entries \cup Of(k.run, Entry)
  \/ /\ k.state = "BRUN_CLCREATE_WORK"
     /\ SetJobs(Of(k.run, entries), "pending")
  \/ /\ k.state = "BRUN_DUMPCREATE_WORK"
     /\ SetJobs(JobsIn(k.run, "cloned"), "queued")
  \/ k.state = "BRUN_REPORT_WORK" /\ Report(k)
  \/ k.state = "BRUN_CLEANUP_WORK"

\* A child that leaves its row alone goes on with the next call, or exits.
Quiet(k) ==
  /\ UNCHANGED run
  /\ \/ \E at : Go(k, at) /\ (at = "finish" => Prepares(k))
     \/ kids' = kids \ {k}

\* The child writes its row, and exits.
Writes(k, new) ==
  /\ k.mine
  /\ run' = [run EXCEPT ![k.run] = new]
  /\ kids' = Outdate({k.run}, kids \ {k})

\* The child deletes its run.
Drops(k) ==
  /\ Delete(k.run) /\ Bare(k.run)
  /\ kids' = Outdate({k.run}, (kids \ {k}) \cup {[k EXCEPT !.at = "finish"]})

LEMMA CopyFacts ==
  ASSUME CopyInv
  PROVE  /\ TypeOK
         /\ \A k \in kids : /\ k.run \in Brun /\ k.errors \in Nat /\ k \in Kid
                            /\ k.state \in WorkStates \cup {"BRUN_RECOVER_WORK"}
                            /\ run[k.run] \in Row
                            /\ k.mine => Matches(k)
  BY TypeFacts DEF CopyInv

\* What the last updates make of a row the child knows.
LEMMA Outcomes ==
  ASSUME CopyInv, NEW k \in kids, k.mine
  PROVE  /\ k.state \in WorkStates =>
              ChildMoves(run[k.run], At(run[k.run], Ends[k.state]))
         /\ k.state = "BRUN_RECOVER_WORK" => ChildMoves(run[k.run], Recovered(k))
         /\ ChildMoves(run[k.run], Errored(k))
         /\ k.state \in DOMAIN Scheduling =>
              ChildMoves(run[k.run], At(run[k.run], Scheduling[k.state].again))
<1> DEFINE r == run[k.run]
<1>1. /\ r \in Row /\ r.state = k.state /\ r.last = k.last /\ r.errors = k.errors
      /\ k.state \in WorkStates \cup {"BRUN_RECOVER_WORK"}
  BY CopyFacts DEF Matches
<1>2. ASSUME NEW s PROVE At(r, s).state = s /\ At(r, s).last = r.last
  BY <1>1 DEF At, Row
<1>3. ASSUME k.state \in WorkStates PROVE ChildMoves(r, At(r, Ends[k.state]))
  BY <1>1, <1>2, <1>3, EndsFacts DEF ChildMoves
<1>4. ASSUME k.state = "BRUN_RECOVER_WORK" PROVE ChildMoves(r, Recovered(k))
  <2>1. CASE GiveUp(k)
    BY <1>1, <1>2, <1>4, <2>1 DEF Recovered, ChildMoves
  <2>2. CASE ~ GiveUp(k)
    <3>1. k.last \in DOMAIN RetryState \cup StayStates
      BY <2>2 DEF GiveUp
    <3> DEFINE s == IF k.last \in StayStates THEN k.last ELSE RetryState[k.last]
               n == [r EXCEPT !.state = s, !.last = NoState]
    <3>2. n.state = s /\ n.last = NoState
      BY <1>1 DEF Row
    <3>3. \/ r.last \in StayStates /\ s = r.last
          \/ r.last \in WorkStates /\ Forks(s, r.last)
      BY <1>1, <3>1, RetryFacts
    <3>4. Recovered(k) = n
      BY <2>2 DEF Recovered
    <3> QED  BY <1>1, <1>4, <3>2, <3>3, <3>4 DEF ChildMoves
  <2> QED  BY <2>1, <2>2
<1>5. ChildMoves(r, Errored(k))
  <2>1. CASE k.state = "BRUN_RECOVER_WORK"
    BY <1>1, <1>2, <2>1 DEF Errored, ChildMoves, RecoverStates
  <2>2. CASE k.state \in WorkStates
    BY <1>1, <2>2 DEF Errored, ChildMoves, RecoverStates, WorkStates
  <2> QED  BY <1>1, <2>1, <2>2
<1>6. ASSUME k.state \in DOMAIN Scheduling
      PROVE  ChildMoves(r, At(r, Scheduling[k.state].again))
  <2>1. /\ k.state \in {"BRUN_CLSCHED_WORK", "BRUN_DUMPSCHED_WORK"}
        /\ Forks(Scheduling[k.state].again, k.state)
    BY <1>6, SchedulingFacts DEF Forks
  <2> QED  BY <1>1, <1>2, <2>1 DEF ChildMoves
<1> QED  BY <1>3, <1>4, <1>5, <1>6

LEMMA FinishMoves ==
  ASSUME NEW k, NEW new, FinishOrExit(k, new)
  PROVE  Quiet(k) \/ Writes(k, new)
  BY DEF FinishOrExit, Finish, Finds, Quiet, Writes

\* Every step of a child is one of these.
LEMMA KidMoves ==
  ASSUME CopyInv, NEW k \in kids, KidStep(k)
  PROVE  \/ Quiet(k)
         \/ \E new : Writes(k, new) /\ ChildMoves(run[k.run], new)
         \/ Drops(k)
<1> USE FinishMoves
<1>1. CASE Start(k) \/ ScanEntries(k) \/ ClearClones(k) \/ CreateClones(k)
             \/ Count(k) \/ CreateDumps(k) \/ Report(k)
  <2> DEFINE Goes(at) == Go(k, at) /\ (at = "finish" => Prepares(k))
  <2>1. UNCHANGED run
    BY <1>1 DEF Start, ScanEntries, ClearClones, CreateClones, Count, CreateDumps,
                Report
  <2>2. CASE Start(k) \/ ClearClones(k) \/ Count(k)
    <3>1. Goes("work") \/ Goes("create") \/ Goes("free") \/ Goes("busy")
      BY <2>2 DEF Start, ClearClones, Count
    <3> QED  BY <2>1, <3>1 DEF Quiet
  <2>3. CASE ScanEntries(k) \/ CreateClones(k)
    <3>1. Goes("finish") \/ Goes("error")
      BY <2>3 DEF ScanEntries, CreateClones, Prepares
    <3> QED  BY <2>1, <3>1 DEF Quiet
  <2>4. CASE CreateDumps(k) \/ Report(k)
    <3>1. Goes("finish")
      BY <2>4 DEF CreateDumps, Report, Prepares
    <3> QED  BY <2>1, <3>1 DEF Quiet
  <2> QED  BY <1>1, <2>2, <2>3, <2>4
<1>2. CASE Schedule(k)
  <2>1. k.state \in DOMAIN Scheduling
    BY <1>2 DEF Schedule
  <2> DEFINE s == Scheduling[k.state]
  <2>2. PICK S \in SUBSET JobsIn(k.run, s.pending) :
          \/ FinishOrExit(k, At(run[k.run], IF NothingLeft(k, S)
                                            THEN Ends[k.state] ELSE s.again))
          \/ Go(k, "error") /\ UNCHANGED run
    BY <1>2, Zenon DEF Schedule
  <2> DEFINE new == At(run[k.run], IF NothingLeft(k, S)
                                   THEN Ends[k.state] ELSE s.again)
  <2>3. k.mine => ChildMoves(run[k.run], new)
    BY <2>1, Outcomes, SchedulingFacts DEF WorkStates
  <2>4. CASE FinishOrExit(k, new)
    BY <2>3, <2>4 DEF Writes
  <2>5. CASE Go(k, "error") /\ UNCHANGED run
    BY <2>5 DEF Quiet
  <2> QED  BY <2>2, <2>4, <2>5
<1>3. CASE CleanUp(k)
  <2>1. CASE Delete(k.run) /\ Bare(k.run) /\
             kids' = Outdate({k.run}, (kids \ {k}) \cup {[k EXCEPT !.at = "finish"]})
    BY <2>1 DEF Drops
  <2>2. CASE UNCHANGED run /\ \E at : Go(k, at)
    BY <1>3, <2>2 DEF Quiet, Prepares, CleanUp
  <2> QED  BY <1>3, <2>1, <2>2, Zenon DEF CleanUp, Bare
<1>4. CASE Complete(k)
  <2> DEFINE new == IF k.state = "BRUN_RECOVER_WORK" THEN Recovered(k)
                    ELSE At(run[k.run], Ends[k.state])
  <2>1. k.mine => ChildMoves(run[k.run], new)
    BY Outcomes, CopyFacts
  <2>2. FinishOrExit(k, new)
    BY <1>4 DEF Complete
  <2> QED  BY <2>1, <2>2 DEF Writes
<1>5. CASE Fail(k)
  BY <1>5, Outcomes DEF Fail, Writes
<1>6. CASE Abort(k)
  BY <1>6 DEF Abort, Quiet
<1>7. CASE Lose(k)
  BY <1>7 DEF Lose, Quiet
<1> QED  BY <1>1, <1>2, <1>3, <1>4, <1>5, <1>6, <1>7 DEF KidStep

\* The row r of a run becomes n by a pass of the server.
PassMoves(r, n) ==
  \/ Takes(r.state, n.state) /\ n.last = r.last
  \/ Forks(r.state, n.state) /\ n.last = r.last
  \/ /\ \E s : Forks(r.state, s)
     /\ n.state = "FAILED" /\ n.last = r.last

\* The children that the server forks for the runs in W.
ForkedFor(W) ==
  {[run |-> b, state |-> run'[b].state, at |-> FirstCall(run'[b].state),
    last |-> run[b].last, errors |-> run[b].errors, mine |-> TRUE] : b \in W}

\* A pass moves the rows of the runs in S, and forks children for those in W.
Passes(S, W) ==
  /\ W \subseteq S /\ S \subseteq Brun
  /\ \A b \in S : PassMoves(run[b], run'[b])
  /\ \A b \in W : Forks(run[b].state, run'[b].state)
  /\ \A b \in Brun : /\ b \notin S => run'[b] = run[b]
                     /\ run'[b].errors = run[b].errors
  /\ kids' = Outdate(S, kids) \cup ForkedFor(W)

LEMMA TakePasses ==
  ASSUME TypeOK, Take
  PROVE  \E S : Passes(S, {})
<1>1. PICK S : /\ S = InState(Cycle[server].from)
               /\ run' = [b \in Brun |-> IF b \in S THEN At(run[b], Cycle[server].to)
                                         ELSE run[b]]
               /\ kids' = Outdate(S, kids)
  BY Zenon DEF Take
<1>2. Takes(Cycle[server].from, Cycle[server].to)
  BY ServerFacts DEF Take
<1>3. ASSUME NEW b \in S PROVE PassMoves(run[b], run'[b])
  <2>1. run[b] \in Row /\ run[b].state = Cycle[server].from
    BY <1>1, TypeFacts DEF InState
  <2>2. run'[b] = At(run[b], Cycle[server].to)
    BY <1>1 DEF InState
  <2> QED  BY <1>2, <2>1, <2>2 DEF PassMoves, At, Row
<1>4. ASSUME NEW b \in Brun
      PROVE  (b \notin S => run'[b] = run[b]) /\ run'[b].errors = run[b].errors
  BY <1>1, TypeFacts DEF At, Row
<1>5. S \subseteq Brun /\ ForkedFor({}) = {}
  BY <1>1 DEF InState, ForkedFor
<1>6. Passes(S, {})
  BY <1>1, <1>3, <1>4, <1>5 DEF Passes
<1> QED  BY <1>6

LEMMA ForkPasses ==
  ASSUME TypeOK, Fork
  PROVE  \E S, W : /\ Passes(S, W)
                   /\ \A b \in S : \E w \in W : Target[w] = Target[b]
                   /\ \A b, c \in S : run[b].state = run[c].state
<1> DEFINE c == Cycle[server]
           S == InState(c.from)
           Child(b) == [run |-> b, state |-> c.to, at |-> FirstCall(c.to),
                        last |-> run[b].last, errors |-> run[b].errors,
                        mine |-> TRUE]
<1>1. PICK W \in Winners(S) :
        /\ run' = [b \in Brun |-> IF b \in W THEN At(run[b], c.to)
                                  ELSE IF b \in S THEN At(run[b], "FAILED")
                                  ELSE run[b]]
        /\ kids' = Outdate(S, kids) \cup {Child(b) : b \in W}
  BY Zenon DEF Fork
<1>2. Forks(c.from, c.to)
  BY ServerFacts DEF Fork
<1>3. W \subseteq S /\ S \subseteq Brun
  BY WinnersFacts DEF InState
<1>4. ASSUME NEW b \in S
      PROVE  PassMoves(run[b], run'[b]) /\ (b \in W => run'[b].state = c.to)
  <2>1. run[b] \in Row /\ run[b].state = c.from
    BY TypeFacts DEF InState
  <2>2. run'[b] = At(run[b], IF b \in W THEN c.to ELSE "FAILED")
    BY <1>1, <1>3
  <2> QED  BY <1>2, <2>1, <2>2 DEF PassMoves, At, Row
<1>5. ASSUME NEW b \in Brun
      PROVE  (b \notin S => run'[b] = run[b]) /\ run'[b].errors = run[b].errors
  BY <1>1, <1>3, TypeFacts DEF At, Row
<1>6. {Child(b) : b \in W} = ForkedFor(W)
  BY <1>3, <1>4 DEF ForkedFor
<1>7. \A b \in S : run[b].state = c.from
  BY DEF InState
<1>8. Passes(S, W)
  BY <1>1, <1>2, <1>3, <1>4, <1>5, <1>6, <1>7 DEF Passes
<1> QED  BY <1>7, <1>8, WinnersFacts

\* The row r of a run becomes n by backup-kill or backup-retry.
OperatorMoves(r, n) ==
  \/ /\ r.state \notin NoRow /\ n.state = "FAILED"
     /\ n.last = IF r.last = NoState THEN r.state ELSE r.last
  \/ /\ r.state \in {"ERROR", "FAILED"}
     /\ n.state = "BRUN_RECOVER_START" /\ n.last = r.last

RunMoves(b) ==
  \/ run'[b] = run[b]
  \/ ChildMoves(run[b], run'[b]) /\ admin' = admin
  \/ PassMoves(run[b], run'[b]) /\ admin' = admin
  \/ run'[b].state = "GONE" /\ Bare(b) /\ admin' = admin
  \/ run[b].state = "UNBORN" /\ run'[b] = NewRun /\ admin' = admin
  \/ OperatorMoves(run[b], run'[b]) /\ admin' = admin + 1

\* A server step moves rows by a pass, deletes a run, or leaves runs alone.
LEMMA ServerMoves ==
  ASSUME TypeOK, ServerStep
  PROVE  /\ UNCHANGED <<admin, deaths>>
         /\ \/ UNCHANGED <<run, kids>>
            \/ UNCHANGED tables /\ \E S, W : Passes(S, W)
            \/ \E b \in Brun : /\ Delete(b) /\ Bare(b)
                               /\ kids' = Outdate({b}, kids)
                               /\ cleaning[b] = "row"
                               /\ cleaning' = [cleaning EXCEPT ![b] = "no"]
<1>1. CASE Take
  BY <1>1, TakePasses DEF Take
<1>2. CASE Fork
  <2>1. UNCHANGED <<admin, deaths, tables>>
    BY <1>2, Zenon DEF Fork, tables
  <2> QED  BY <1>2, <2>1, ForkPasses
<1>3. CASE FindCleanable \/ CleanDone \/ EndJobs
  BY <1>3 DEF FindCleanable, CleanDone, EndJobs
<1>4. ASSUME NEW b \in Brun, Clean(b)
      PROVE  /\ UNCHANGED <<admin, deaths>>
             /\ \/ UNCHANGED <<run, kids>>
                \/ /\ Delete(b) /\ Bare(b) /\ kids' = Outdate({b}, kids)
                   /\ cleaning[b] = "row"
                   /\ cleaning' = [cleaning EXCEPT ![b] = "no"]
  BY <1>4 DEF Clean, GiveUpCleaning, Bare
<1> QED  BY <1>1, <1>2, <1>3, <1>4 DEF ServerStep

LEMMA DeleteMoves ==
  ASSUME TypeOK, NEW b \in Brun, Delete(b), Bare(b), admin' = admin
  PROVE  /\ run'[b].state = "GONE" /\ run'[b].last = run[b].last
         /\ \A c \in Brun \ {b} : run'[c] = run[c]
         /\ \A c \in Brun : RunMoves(c)
<1>1. run'[b].state = "GONE" /\ run'[b].last = run[b].last
  BY TypeFacts DEF Delete, TypeOK, Row
<1>2. \A c \in Brun \ {b} : run'[c] = run[c]
  BY DEF Delete, TypeOK
<1> QED  BY <1>1, <1>2 DEF RunMoves

LEMMA OperatorFacts ==
  ASSUME TypeOK, NEW b \in Brun, Kill(b) \/ Retry(b)
  PROVE  /\ OperatorMoves(run[b], run'[b])
         /\ \A c \in Brun \ {b} : run'[c] = run[c]
         /\ kids' = Outdate({b}, kids)
         /\ admin' = admin + 1
         /\ UNCHANGED <<tables, server, cleaning, old, deaths>>
<1>1. run[b] \in Row
  BY TypeFacts
<1>2. CASE Kill(b)
  <2> DEFINE l == IF run[b].last = NoState THEN run[b].state ELSE run[b].last
  <2>1. run' = [run EXCEPT ![b] = [run[b] EXCEPT !.state = "FAILED", !.last = l]]
    BY <1>2 DEF Kill, Command
  <2>2. /\ run'[b].state = "FAILED" /\ run'[b].last = l
        /\ \A c \in Brun \ {b} : run'[c] = run[c]
    BY <1>1, <2>1 DEF TypeOK, Row
  <2> QED  BY <1>2, <2>2 DEF Kill, Command, Exists, OperatorMoves
<1>3. CASE Retry(b)
  <2>1. run' = [run EXCEPT ![b] = [run[b] EXCEPT !.state = "BRUN_RECOVER_START",
                                                 !.errors = 0]]
    BY <1>3 DEF Retry, Command
  <2>2. /\ run'[b].state = "BRUN_RECOVER_START" /\ run'[b].last = run[b].last
        /\ \A c \in Brun \ {b} : run'[c] = run[c]
    BY <1>1, <2>1 DEF TypeOK, Row
  <2> QED  BY <1>3, <2>2 DEF Retry, Command, OperatorMoves
<1> QED  BY <1>2, <1>3

\* Every step moves the row of every run in one of these ways.
LEMMA NextMoves ==
  ASSUME CopyInv, [Next]_vars, NEW b \in Brun
  PROVE  RunMoves(b)
<1>1. TypeOK
  BY CopyFacts
<1>2. CASE ServerStep
  <2>1. CASE UNCHANGED <<run, kids>>
    BY <2>1 DEF RunMoves
  <2>2. CASE UNCHANGED tables /\ \E S, W : Passes(S, W)
    <3>1. PICK S, W : Passes(S, W)
      BY <2>2
    <3> QED  BY <1>1, <1>2, <3>1, ServerMoves DEF Passes, RunMoves
  <2>3. CASE \E c \in Brun : Delete(c) /\ Bare(c)
    BY <1>1, <1>2, <2>3, ServerMoves, DeleteMoves
  <2> QED  BY <1>1, <1>2, <2>1, <2>2, <2>3, ServerMoves
<1>3. ASSUME NEW k \in kids, KidStep(k) PROVE RunMoves(b)
  <2>1. admin' = admin /\ k.run \in Brun
    BY <1>3, CopyFacts DEF KidStep
  <2>2. CASE Quiet(k)
    BY <2>2 DEF Quiet, RunMoves
  <2>3. ASSUME NEW new, Writes(k, new), ChildMoves(run[k.run], new)
        PROVE  RunMoves(b)
    BY <1>1, <2>1, <2>3 DEF Writes, RunMoves, TypeOK
  <2>4. CASE Drops(k)
    BY <1>1, <2>1, <2>4, DeleteMoves DEF Drops
  <2> QED  BY <1>3, <2>2, <2>3, <2>4, KidMoves
<1>4. ASSUME NEW k \in kids, Die(k) PROVE RunMoves(b)
  BY <1>4 DEF Die, RunMoves
<1>5. ASSUME NEW e \in Entry, JobStep(e) PROVE RunMoves(b)
  BY <1>5 DEF JobStep, RunMoves
<1>6. ASSUME NEW c \in Brun, Create(c) PROVE RunMoves(b)
  BY <1>1, <1>6 DEF Create, RunMoves, TypeOK
<1>7. ASSUME NEW c \in Brun, Kill(c) \/ Retry(c) PROVE RunMoves(b)
  BY <1>1, <1>7, OperatorFacts DEF RunMoves
<1>8. CASE UNCHANGED vars \/ \E c \in Brun : GrowOld(c)
  BY <1>8 DEF vars, RunMoves, GrowOld
<1> QED  BY <1>2, <1>3, <1>4, <1>5, <1>6, <1>7, <1>8 DEF Next

-----------------------------------------------------------------------------
(***************************************************************************)
(* Children know their rows, and ends stay.                                *)
(***************************************************************************)

LEMMA OutdateFacts ==
  ASSUME NEW S, NEW K, K \subseteq Kid, NEW m \in Outdate(S, K)
  PROVE  \E l \in K : /\ m = IF l.run \in S THEN [l EXCEPT !.mine = FALSE] ELSE l
                      /\ m.run = l.run /\ m.state = l.state /\ m.at = l.at
                      /\ m.last = l.last /\ m.errors = l.errors
                      /\ m.mine => l.mine /\ l.run \notin S
<1>1. PICK l \in K : m = IF l.run \in S THEN [l EXCEPT !.mine = FALSE] ELSE l
  BY DEF Outdate
<1>2. l \in Kid
  OBVIOUS
<1> QED  BY <1>1, <1>2 DEF Kid

\* The children are those before the step, with what they know, but for those
\* that know their rows anew.
LEMMA CopiesKept ==
  ASSUME CopyInv, TypeOK',
         \A m \in kids' : m.mine =>
           \/ Matches(m)'
           \/ \E l \in kids : /\ l.mine /\ m.run = l.run /\ m.state = l.state
                              /\ m.last = l.last /\ m.errors = l.errors
                              /\ run'[l.run] = run[l.run]
  PROVE  CopyInv'
  BY DEF CopyInv, Matches

LEMMA SameRowsCopies ==
  ASSUME CopyInv, TypeOK', UNCHANGED run, kids' \subseteq kids
  PROVE  CopyInv'
  BY CopiesKept

LEMMA OutdatedCopies ==
  ASSUME CopyInv, TypeOK', NEW S, kids' = Outdate(S, kids),
         \A b \in Brun : b \notin S => run'[b] = run[b]
  PROVE  CopyInv'
<1>1. kids \subseteq Kid
  BY DEF CopyInv, TypeOK
<1>2. ASSUME NEW m \in kids', m.mine
      PROVE  \E l \in kids : /\ l.mine /\ m.run = l.run /\ m.state = l.state
                             /\ m.last = l.last /\ m.errors = l.errors
                             /\ run'[l.run] = run[l.run]
  BY <1>1, <1>2, OutdateFacts, CopyFacts
<1> QED  BY <1>2, CopiesKept

LEMMA PassesCopies ==
  ASSUME CopyInv, TypeOK', NEW S, NEW W, Passes(S, W)
  PROVE  CopyInv'
<1>1. kids \subseteq Kid
  BY DEF CopyInv, TypeOK
<1>2. ASSUME NEW m \in Outdate(S, kids), m.mine
      PROVE  \E l \in kids : /\ l.mine /\ m.run = l.run /\ m.state = l.state
                             /\ m.last = l.last /\ m.errors = l.errors
                             /\ run'[l.run] = run[l.run]
  BY <1>1, <1>2, OutdateFacts, CopyFacts DEF Passes
<1>3. ASSUME NEW m \in ForkedFor(W) PROVE Matches(m)'
  <2>1. PICK b \in W : /\ m.run = b /\ m.state = run'[b].state
                       /\ m.last = run[b].last /\ m.errors = run[b].errors
    BY DEF ForkedFor
  <2>2. run'[b].last = run[b].last /\ run'[b].errors = run[b].errors
    BY DEF Passes, PassMoves
  <2> QED  BY <2>1, <2>2 DEF Matches
<1>4. kids' = Outdate(S, kids) \cup ForkedFor(W)
  BY DEF Passes
<1> QED  BY <1>2, <1>3, <1>4, CopiesKept

LEMMA KidCopies ==
  ASSUME CopyInv, TypeOK', NEW k \in kids, KidStep(k)
  PROVE  CopyInv'
<1>1. kids \subseteq Kid /\ run \in [Brun -> Row] /\ k \in Kid /\ k.run \in Brun
  BY CopyFacts DEF CopyInv, TypeOK, Row
<1>2. CASE Quiet(k)
  <2>1. CASE kids' = kids \ {k}
    BY <1>2, <2>1, SameRowsCopies DEF Quiet
  <2>2. ASSUME NEW at, Go(k, at) PROVE CopyInv'
    <3>1. ASSUME NEW m \in kids', m.mine
          PROVE  \E l \in kids : /\ l.mine /\ m.run = l.run /\ m.state = l.state
                                 /\ m.last = l.last /\ m.errors = l.errors
      <4>1. m \in kids \/ m = [k EXCEPT !.at = at]
        BY <2>2 DEF Go
      <4> QED  BY <1>1, <3>1, <4>1 DEF Kid
    <3> QED  BY <1>2, <3>1, CopiesKept DEF Quiet
  <2> QED  BY <1>2, <2>1, <2>2 DEF Quiet
<1>3. ASSUME NEW new, Writes(k, new) PROVE CopyInv'
  <2>1. ASSUME NEW m \in kids', m.mine
        PROVE  \E l \in kids : /\ l.mine /\ m.run = l.run /\ m.state = l.state
                               /\ m.last = l.last /\ m.errors = l.errors
                               /\ run'[l.run] = run[l.run]
    <3>1. PICK l \in kids \ {k} :
            /\ m.run = l.run /\ m.state = l.state
            /\ m.last = l.last /\ m.errors = l.errors
            /\ m.mine => l.mine /\ l.run \notin {k.run}
      BY <1>1, <1>3, OutdateFacts DEF Writes
    <3>2. run'[l.run] = run[l.run]
      BY <1>1, <1>3, <2>1, <3>1, CopyFacts DEF Writes
    <3> QED  BY <2>1, <3>1, <3>2
  <2> QED  BY <2>1, CopiesKept
<1>4. CASE Drops(k)
  <2> DEFINE K == (kids \ {k}) \cup {[k EXCEPT !.at = "finish"]}
  <2>1. K \subseteq Kid /\ [k EXCEPT !.at = "finish"].run = k.run
    BY <1>1 DEF Kid
  <2>2. ASSUME NEW m \in kids', m.mine
        PROVE  \E l \in kids : /\ l.mine /\ m.run = l.run /\ m.state = l.state
                               /\ m.last = l.last /\ m.errors = l.errors
                               /\ run'[l.run] = run[l.run]
    <3>1. PICK l \in K :
            /\ m.run = l.run /\ m.state = l.state
            /\ m.last = l.last /\ m.errors = l.errors
            /\ m.mine => l.mine /\ l.run \notin {k.run}
      BY <1>4, <2>1, OutdateFacts DEF Drops
    <3>2. l \in kids /\ run'[l.run] = run[l.run]
      BY <1>1, <1>4, <2>1, <2>2, <3>1, CopyFacts DEF Drops, Delete
    <3> QED  BY <2>2, <3>1, <3>2
  <2> QED  BY <2>2, CopiesKept
<1> QED  BY <1>2, <1>3, <1>4, KidMoves

LEMMA NextCopies ==
  ASSUME CopyInv, [Next]_vars
  PROVE  CopyInv'
<1>1. TypeOK /\ TypeOK'
  BY CopyFacts, NextTypes
<1>2. CASE ServerStep
  <2>1. CASE UNCHANGED <<run, kids>>
    BY <1>1, <2>1, SameRowsCopies
  <2>2. ASSUME NEW S, NEW W, Passes(S, W) PROVE CopyInv'
    BY <1>1, <2>2, PassesCopies
  <2>3. ASSUME NEW b \in Brun, Delete(b), Bare(b), kids' = Outdate({b}, kids)
        PROVE  CopyInv'
    <3>1. \A c \in Brun : c \notin {b} => run'[c] = run[c]
      BY <1>1, <2>3 DEF Delete, TypeOK
    <3> QED  BY <1>1, <2>3, <3>1, OutdatedCopies
  <2> QED  BY <1>1, <1>2, <2>1, <2>2, <2>3, ServerMoves
<1>3. ASSUME NEW k \in kids, KidStep(k) PROVE CopyInv'
  BY <1>1, <1>3, KidCopies
<1>4. ASSUME NEW k \in kids, Die(k) PROVE CopyInv'
  BY <1>1, <1>4, SameRowsCopies DEF Die
<1>5. ASSUME NEW e \in Entry, JobStep(e) PROVE CopyInv'
  BY <1>1, <1>5, SameRowsCopies DEF JobStep
<1>6. ASSUME NEW b \in Brun, Create(b) PROVE CopyInv'
  <2>1. ASSUME NEW k \in kids, k.mine PROVE run'[k.run] = run[k.run]
    <3>1. k.run # b
      BY <1>6, <2>1, CopyFacts DEF Create, Matches, WorkStates
    <3> QED  BY <1>1, <1>6, <3>1 DEF Create, TypeOK
  <2> QED  BY <1>1, <1>6, <2>1, CopiesKept DEF Create
<1>7. ASSUME NEW b \in Brun, Kill(b) \/ Retry(b) PROVE CopyInv'
  <2>1. /\ kids' = Outdate({b}, kids)
        /\ \A c \in Brun : c \notin {b} => run'[c] = run[c]
    BY <1>1, <1>7, OperatorFacts
  <2> QED  BY <1>1, <2>1, OutdatedCopies
<1>8. CASE UNCHANGED vars \/ \E c \in Brun : GrowOld(c)
  BY <1>1, <1>8, SameRowsCopies DEF vars, GrowOld
<1> QED  BY <1>2, <1>3, <1>4, <1>5, <1>6, <1>7, <1>8 DEF Next

LEMMA InitCopies == Init => CopyInv
  BY InitTypes DEF Init, CopyInv

\* Neither a pass nor a child changes the row of a run that ended.
LEMMA EndsKept ==
  ASSUME CopyInv, [Next]_vars, NEW b \in Brun, run[b].state \in EndStates
  PROVE  run'[b] = run[b] \/ run'[b].state = "GONE" \/ admin' # admin
<1>1. RunMoves(b)
  BY NextMoves
<1>2. ~ ChildMoves(run[b], run'[b])
  BY DEF ChildMoves, WorkStates, EndStates
<1>3. ~ PassMoves(run[b], run'[b])
  BY DEF PassMoves, Takes, Forks, EndStates
<1>4. admin \in Nat
  BY BackupRunAssumption, CopyFacts DEF TypeOK
<1> QED  BY <1>1, <1>2, <1>3, <1>4 DEF RunMoves, EndStates

\* Only an operator, or the deletion of an empty run, changes a run that is
\* DONE or FAILED, however many children outlived kills and retries.
THEOREM EndedStays == Spec => EndStays
<1> DEFINE Keeps == \A b \in Brun :
                      run[b].state \in EndStates =>
                        \/ run'[b] = run[b]
                        \/ run'[b].state = "GONE"
                        \/ admin' # admin
<1>1. CopyInv /\ [Next]_vars => [Keeps]_vars
  BY EndsKept
<1>2. CopyInv /\ [Next]_vars => CopyInv'
  BY NextCopies
<1> QED  BY <1>1, <1>2, InitCopies, PTL DEF Spec, EndStays

-----------------------------------------------------------------------------
(***************************************************************************)
(* Dumps are kept.  That a run was empty when the cleaning looked does not *)
(* matter: an entry is deleted only while no dump refers to it, a run only *)
(* when it has no entry left, and a dump is recorded only for an entry     *)
(* that is there.                                                          *)
(***************************************************************************)

\* A run that exists goes on existing unless it is deleted.
LEMMA ExistsKept ==
  ASSUME CopyInv, NEW b \in Brun, RunMoves(b), Exists(b)
  PROVE  Exists(b)' \/ run'[b].state = "GONE"
<1>1. ASSUME ChildMoves(run[b], run'[b]) PROVE Exists(b)'
  BY <1>1 DEF ChildMoves, EndOf, Forks, StayStates, Exists, NoRow
<1>2. ASSUME PassMoves(run[b], run'[b]) PROVE Exists(b)'
  BY <1>2 DEF PassMoves, Takes, Forks, Exists, NoRow
<1>3. ASSUME OperatorMoves(run[b], run'[b]) PROVE Exists(b)'
  BY <1>3 DEF OperatorMoves, Exists, NoRow
<1> QED  BY <1>1, <1>2, <1>3 DEF RunMoves, Exists, NoRow

LEMMA SameEntriesDumps ==
  ASSUME DumpsInv, CopyInv, TypeOK', UNCHANGED <<entries, dumps>>,
         \A b \in Brun : RunMoves(b) /\ (Exists(b) => run'[b].state # "GONE")
  PROVE  DumpsInv'
<1>1. \A e \in entries : e[1] \in Brun
  BY TypeFacts, CopyFacts DEF TypeOK
<1> QED  BY <1>1, ExistsKept DEF DumpsInv

\* No deletion takes what a dump refers to.
LEMMA CruftDumps ==
  ASSUME DumpsInv, TypeOK', NEW b \in Brun, DeleteCruft(b), UNCHANGED run
  PROVE  DumpsInv'
  BY DEF DumpsInv, DeleteCruft, Cruft, Of, Exists

LEMMA EntriesDumps ==
  ASSUME DumpsInv, TypeOK', NEW b \in Brun, CanDelete(Of(b, entries)),
         DeleteEntries(b), UNCHANGED run
  PROVE  DumpsInv'
  BY DEF DumpsInv, DeleteEntries, CanDelete, Of, Exists

LEMMA DeleteDumps ==
  ASSUME DumpsInv, TypeOK', NEW b \in Brun, Delete(b), Bare(b)
  PROVE  DumpsInv'
<1>1. ASSUME NEW e \in entries PROVE e[1] # b /\ e[1] \in Brun
  BY TypeFacts DEF DumpsInv, TypeOK, Bare, Of
<1>2. \A c \in Brun \ {b} : run'[c] = run[c]
  BY DEF DumpsInv, Delete, TypeOK
<1>3. UNCHANGED <<entries, dumps>>
  BY DEF Delete, tables
<1> QED  BY <1>1, <1>2, <1>3 DEF DumpsInv, Exists

LEMMA ScanDumps ==
  ASSUME DumpsInv, TypeOK', NEW k \in kids, ScanEntries(k)
  PROVE  DumpsInv'
<1>1. ASSUME NEW e \in entries', e \notin entries PROVE Exists(e[1])
  BY <1>1 DEF ScanEntries, Of
<1>2. entries \subseteq entries' /\ UNCHANGED <<run, dumps>>
  BY DEF ScanEntries
<1> QED  BY <1>1, <1>2 DEF DumpsInv, Exists

LEMMA KidDumps ==
  ASSUME DumpsInv, CopyInv, TypeOK', NEW k \in kids, KidStep(k),
         \A b \in Brun : RunMoves(b)
  PROVE  DumpsInv'
<1>1. k.run \in Brun /\ TypeOK
  BY CopyFacts
<1>2. CASE ScanEntries(k)
  BY <1>2, ScanDumps
<1>3. CASE DeleteCruft(k.run) /\ UNCHANGED run
  BY <1>1, <1>3, CruftDumps
<1>4. CASE Delete(k.run) /\ Bare(k.run)
  BY <1>1, <1>4, DeleteDumps
<1>5. CASE UNCHANGED <<entries, dumps>>
  <2>1. CASE Drops(k)
    BY <1>4, <2>1 DEF Drops
  <2>2. CASE ~ Drops(k)
    <3>1. ASSUME NEW b \in Brun, Exists(b) PROVE run'[b].state # "GONE"
      <4>1. CASE UNCHANGED run
        BY <3>1, <4>1 DEF Exists, NoRow
      <4>2. ASSUME NEW new, Writes(k, new), ChildMoves(run[k.run], new)
            PROVE  run'[b].state # "GONE"
        <5>1. new.state # "GONE"
          BY <4>2 DEF ChildMoves, EndOf, Forks, StayStates
        <5> QED  BY <1>1, <3>1, <4>2, <5>1 DEF Writes, TypeOK, Exists, NoRow
      <4> QED  BY <2>2, <4>1, <4>2, KidMoves DEF Quiet
    <3> QED  BY <1>5, <3>1, SameEntriesDumps
  <2> QED  BY <2>1, <2>2
<1>6. CASE CleanUp(k)
  <2>1. CASE /\ CanDelete(Of(k.run, entries)) /\ DeleteEntries(k.run)
             /\ UNCHANGED run
    BY <1>1, <2>1, EntriesDumps
  <2> QED  BY <1>3, <1>4, <1>5, <1>6, <2>1, Zenon DEF CleanUp, tables, Clear, Bare
<1> QED
  BY <1>2, <1>5, <1>6
     DEF KidStep, Start, ClearClones, CreateClones, Count, Schedule, CreateDumps,
         Report, Complete, Abort, Fail, Lose, tables

LEMMA NextDumps ==
  ASSUME DumpsInv, CopyInv, [Next]_vars
  PROVE  DumpsInv'
<1>1. TypeOK /\ TypeOK' /\ \A b \in Brun : RunMoves(b)
  BY CopyFacts, NextTypes, NextMoves
<1>2. CASE UNCHANGED <<run, entries, dumps>>
  BY <1>1, <1>2, SameEntriesDumps DEF Exists, NoRow
<1>3. ASSUME NEW b \in Brun, Clean(b) PROVE DumpsInv'
  <2>1. CASE DeleteCruft(b) /\ UNCHANGED run
    BY <1>1, <2>1, CruftDumps
  <2>2. CASE Delete(b) /\ Bare(b)
    BY <1>1, <2>2, DeleteDumps
  <2>3. CASE CanDelete(Of(b, entries)) /\ DeleteEntries(b) /\ UNCHANGED run
    BY <1>1, <2>3, EntriesDumps
  <2> QED
    BY <1>2, <1>3, <2>1, <2>2, <2>3, Zenon
       DEF Clean, GiveUpCleaning, tables, Clear, Bare
<1>4. ASSUME NEW S, NEW W, Passes(S, W), UNCHANGED tables PROVE DumpsInv'
  <2>1. ASSUME NEW b \in Brun, Exists(b) PROVE run'[b].state # "GONE"
    BY <2>1, <1>4 DEF Passes, PassMoves, Takes, Forks, Exists, NoRow
  <2> QED  BY <1>1, <1>4, <2>1, SameEntriesDumps DEF tables
<1>5. CASE ServerStep
  <2>1. CASE Take
    BY <1>1, <1>4, <2>1, TakePasses DEF Take
  <2>2. CASE Fork
    <3>1. UNCHANGED tables
      BY <2>2, Zenon DEF Fork
    <3> QED  BY <1>1, <1>4, <2>2, <3>1, ForkPasses
  <2>3. CASE FindCleanable \/ CleanDone \/ EndJobs
    BY <1>2, <2>3 DEF FindCleanable, CleanDone, EndJobs, tables
  <2> QED  BY <1>3, <1>5, <2>1, <2>2, <2>3 DEF ServerStep
<1>6. ASSUME NEW k \in kids, KidStep(k) \/ Die(k) PROVE DumpsInv'
  BY <1>1, <1>2, <1>6, KidDumps DEF Die, tables
<1>7. ASSUME NEW e \in Entry, JobStep(e) PROVE DumpsInv'
  BY <1>1, <1>2, <1>7 DEF JobStep, EndClone, EndDump, DumpsInv, Exists
<1>8. ASSUME NEW b \in Brun, Create(b) \/ Kill(b) \/ Retry(b) PROVE DumpsInv'
  <2>1. ASSUME NEW c \in Brun, Exists(c) PROVE run'[c].state # "GONE"
    <3>1. CASE Create(b)
      BY <1>1, <2>1, <3>1 DEF Create, NewRun, TypeOK, Exists, NoRow
    <3>2. CASE Kill(b) \/ Retry(b)
      BY <1>1, <2>1, <3>2, OperatorFacts DEF OperatorMoves, Exists, NoRow
    <3> QED  BY <1>8, <3>1, <3>2
  <2>2. UNCHANGED <<entries, dumps>>
    BY <1>8 DEF Create, Kill, Retry, Command, tables
  <2> QED  BY <1>1, <2>1, <2>2, SameEntriesDumps
<1>9. CASE UNCHANGED vars \/ \E b \in Brun : GrowOld(b)
  BY <1>2, <1>9 DEF vars, GrowOld, tables
<1> QED  BY <1>5, <1>6, <1>7, <1>8, <1>9 DEF Next

\* A volume dump always has its volume entry and its run, although a late child
\* may record it between the cleaning's look for dumps and any of its deletes.
THEOREM DumpsAreKept == Spec => []DumpsKept
<1>1. Init => CopyInv /\ DumpsInv
  BY InitCopies, InitTypes DEF Init, DumpsInv
<1>2. CopyInv /\ DumpsInv /\ [Next]_vars => (CopyInv /\ DumpsInv)'
  BY NextCopies, NextDumps
<1>3. DumpsInv => DumpsKept
  BY DEF DumpsInv, DumpsKept
<1> QED  BY <1>1, <1>2, <1>3, PTL DEF Spec

-----------------------------------------------------------------------------
(***************************************************************************)
(* Conflicts.  Without an operator a run fails by a conflict, or by giving *)
(* up after an error; and the pass that filters conflicts forks a child    *)
(* for one run of every target it found.                                   *)
(***************************************************************************)

\* A run that fails without an operator, and was not recovering, is one that a
\* pass filtered.
LEMMA FailMoves ==
  ASSUME CopyInv, [Next]_vars, NEW b \in Brun,
         run'[b].state = "FAILED", admin' = admin,
         run[b].state \notin EndStates \cup {"BRUN_RECOVER_WORK"}
  PROVE  Fork /\ run'[b] # run[b]
<1>1. TypeOK /\ RunMoves(b) /\ admin \in Nat
  BY CopyFacts, NextMoves, BackupRunAssumption DEF TypeOK
<1>2. run'[b] # run[b]
  BY DEF EndStates
<1>3. ~ ChildMoves(run[b], run'[b])
  BY DEF ChildMoves, EndOf, Forks, StayStates
<1>4. PassMoves(run[b], run'[b])
  BY <1>1, <1>2, <1>3 DEF RunMoves, NewRun
<1>5. ASSUME NEW k \in kids, KidStep(k) PROVE FALSE
  <2>1. CASE Quiet(k)
    BY <1>2, <2>1 DEF Quiet
  <2>2. ASSUME NEW new, Writes(k, new), ChildMoves(run[k.run], new) PROVE FALSE
    <3>1. b = k.run /\ run'[b] = new
      BY <1>1, <1>2, <2>2 DEF Writes, TypeOK
    <3> QED  BY <1>3, <2>2, <3>1
  <2>3. CASE Drops(k)
    BY <1>1, <1>2, <2>3, CopyFacts DEF Drops, Delete, TypeOK
  <2> QED  BY <1>5, <2>1, <2>2, <2>3, KidMoves
<1>6. ASSUME NEW c \in Brun, Create(c) PROVE FALSE
  BY <1>1, <1>2, <1>6 DEF Create, NewRun, TypeOK
<1>7. ASSUME NEW c \in Brun, Kill(c) \/ Retry(c) PROVE FALSE
  <2>1. admin' = admin + 1
    BY <1>7 DEF Kill, Retry, Command
  <2> QED  BY <1>1, <2>1
<1>8. ASSUME Take PROVE FALSE
  <2>1. Takes(run[b].state, run'[b].state)
    BY <1>1, <1>2, <1>8, ServerFacts, TypeFacts DEF Take, InState, At, Row
  <2> QED  BY <2>1 DEF Takes
<1>9. ASSUME NEW c \in Brun, Clean(c) PROVE FALSE
  <2>1. run' = run \/ Delete(c)
    BY <1>9 DEF Clean, GiveUpCleaning
  <2> QED  BY <1>1, <1>2, <2>1 DEF Delete, TypeOK
<1> QED
  BY <1>2, <1>5, <1>6, <1>7, <1>8, <1>9
     DEF Next, ServerStep, vars, FindCleanable, CleanDone, EndJobs, Die, JobStep,
         GrowOld

LEMMA FilterMoves ==
  ASSUME TypeOK, Fork, NEW b \in Brun, run'[b].state = "FAILED", run'[b] # run[b]
  PROVE  \E c \in Brun \ {b} :
           /\ Target[c] = Target[b]
           /\ run[c].state = run[b].state
           /\ \E k \in kids' : k.run = c /\ k.mine /\ k.state = run'[c].state
<1>1. PICK S, W : /\ Passes(S, W)
                  /\ \A d \in S : \E w \in W : Target[w] = Target[d]
                  /\ \A d, x \in S : run[d].state = run[x].state
  BY ForkPasses
<1>2. b \in S
  BY <1>1 DEF Passes
<1>3. PICK c \in W : Target[c] = Target[b]
  BY <1>1, <1>2
<1>4. c \in Brun /\ c \in S /\ Forks(run[c].state, run'[c].state)
  BY <1>1, <1>3 DEF Passes
<1>5. c # b
  BY <1>4 DEF Forks
<1> DEFINE k == [run |-> c, state |-> run'[c].state, at |-> FirstCall(run'[c].state),
                 last |-> run[c].last, errors |-> run[c].errors, mine |-> TRUE]
<1>6. k \in kids'
  BY <1>1, <1>3 DEF Passes, ForkedFor
<1> QED  BY <1>1, <1>2, <1>3, <1>4, <1>5, <1>6

\* When a run fails because it met others, another run for the same volume and
\* in the same state goes on: it has just got its child, which may write its row.
\* So runs that meet never all fail, for any number of runs, of operator commands
\* and of children that died.
THEOREM OneIsSpared == Spec => OneGoesOn
<1> DEFINE Spares == \A b \in Brun :
             /\ run'[b].state = "FAILED"
             /\ run[b].state \notin EndStates \cup {"BRUN_RECOVER_WORK"}
             /\ admin' = admin
             => \E c \in Brun \ {b} :
                  /\ Target[c] = Target[b]
                  /\ run[c].state = run[b].state
                  /\ \E k \in kids' : k.run = c /\ k.mine /\ k.state = run'[c].state
<1>1. CopyInv /\ [Next]_vars => [Spares]_vars
  BY FailMoves, FilterMoves, CopyFacts
<1>2. CopyInv /\ [Next]_vars => CopyInv'
  BY NextCopies
<1> QED  BY <1>1, <1>2, InitCopies, PTL DEF Spec, OneGoesOn

-----------------------------------------------------------------------------
(***************************************************************************)
(* Stages in order: the rows.  With at most one operator command, a run    *)
(* gets past a stage only by the last update of its own child.             *)
(***************************************************************************)

LEMMA OrderFacts ==
  ASSUME OrderInv
  PROVE  /\ CopyInv /\ TypeOK
         /\ \A b \in Brun : LastOk(run[b]) /\ run[b] \in Row
         /\ admin \in Nat
  BY BackupRunAssumption, CopyFacts, TypeFacts DEF OrderInv, TypeOK

LEMMA AdminMoves ==
  ASSUME TypeOK, [Next]_vars
  PROVE  admin' = admin \/ admin' = admin + 1
<1>1. ASSUME NEW b \in Brun, Create(b) \/ Kill(b) \/ Retry(b)
      PROVE  admin' = admin \/ admin' = admin + 1
  BY <1>1, OperatorFacts DEF Create
<1> QED  BY <1>1, ServerMoves DEF Next, KidStep, Die, JobStep, GrowOld, vars

\* Nested: dumps are made when they are created when clones are made.
LEMMA PastNested ==
  ASSUME NEW r
  PROVE  /\ Past(r, ClosingStates) => Past(r, DumpingStates)
         /\ Past(r, DumpingStates) => Past(r, ClonedStates)
  BY DEF Past, Within, ClonedStates, DumpingStates

\* X are the states from the end of a stage on, whose child is in state c: no
\* other stage ends in X but within it, and none in X is retried from outside.
Onward(X, c) ==
  /\ \A s, t : EndOf(s, t) /\ t \in X => s \in X \/ s = c
  /\ \A s, t : Forks(t, s) /\ t \in X => s \in X
  /\ X \cap (RecoverStates \cup {"FAILED", NoState}) = {}

LEMMA AllOnward ==
  /\ Onward(ClonedStates, "BRUN_CLSCHED_WORK")
  /\ Onward(DumpingStates, "BRUN_DUMPCREATE_WORK")
  /\ Onward(ClosingStates, "BRUN_DUMPSCHED_WORK")
<1> USE DEF Onward, ClosingStates, RecoverStates, NoState
<1>1. Onward(ClosingStates, "BRUN_DUMPSCHED_WORK")
  BY DEF EndOf, Forks
<1>2. Onward(DumpingStates, "BRUN_DUMPCREATE_WORK")
  BY DEF EndOf, Forks, DumpingStates
<1>3. Onward(ClonedStates, "BRUN_CLSCHED_WORK")
  BY DEF EndOf, Forks, DumpingStates, ClonedStates
<1> QED  BY <1>1, <1>2, <1>3

\* The last update of a child takes its run past a stage only where it ends.
LEMMA ChildPast ==
  ASSUME NEW r, NEW n, ChildMoves(r, n), NEW X, NEW c, Onward(X, c), Past(n, X)
  PROVE  Past(r, X) \/ (r.state = c /\ EndOf(c, n.state))
<1>1. CASE r.state \in WorkStates /\ EndOf(r.state, n.state) /\ n.last = r.last
  BY <1>1 DEF Onward, Past, Within, EndOf, RecoverStates
<1>2. CASE /\ r.state \in {"BRUN_CLSCHED_WORK", "BRUN_DUMPSCHED_WORK"}
           /\ Forks(n.state, r.state) /\ n.last = r.last
  BY <1>2 DEF Onward, Past, Within, Forks, RecoverStates
<1>3. CASE r.state \in WorkStates /\ n.state = "ERROR" /\ n.last = r.state
  BY <1>3 DEF Onward, Past, Within, RecoverStates
<1>4. CASE r.state = "BRUN_RECOVER_WORK" /\ n.state = "FAILED" /\ n.last = r.last
  BY <1>4 DEF Onward, Past, Within, RecoverStates
<1>5. CASE r.state = "BRUN_RECOVER_WORK" /\ n.last = NoState
           /\ r.last \in StayStates /\ n.state = r.last
  BY <1>5 DEF Onward, Past, Within, RecoverStates
<1>6. CASE /\ r.state = "BRUN_RECOVER_WORK" /\ n.last = NoState
           /\ r.last \in WorkStates /\ Forks(n.state, r.last)
  BY <1>6 DEF Onward, Past, Within, RecoverStates
<1> QED  BY <1>1, <1>2, <1>3, <1>4, <1>5, <1>6, Zenon DEF ChildMoves

\* A pass takes no run past a stage.
LEMMA PassPast ==
  ASSUME NEW r, NEW n, PassMoves(r, n), LastOk(r),
         NEW X \in {ClonedStates, DumpingStates, ClosingStates}, Past(n, X)
  PROVE  Past(r, X)
<1> USE DEF Past, Within, ClonedStates, DumpingStates, ClosingStates, RecoverStates
<1>1. CASE Takes(r.state, n.state) /\ n.last = r.last
  BY <1>1 DEF Takes
<1>2. CASE Forks(r.state, n.state) /\ n.last = r.last
  BY <1>2 DEF Forks
<1>3. CASE /\ \E s : Forks(r.state, s)
           /\ n.state = "FAILED" /\ n.last = r.last
  BY <1>3 DEF Forks, LastOk, NoState
<1> QED  BY <1>1, <1>2, <1>3 DEF PassMoves

\* The run's child ends its stage, in state s, and the run is past it.
Crosses(b, s, t) ==
  /\ ChildMoves(run[b], run'[b]) /\ admin' = admin
  /\ run[b].state = s /\ run'[b].state = t

LEMMA RunPast ==
  ASSUME OrderInv, [Next]_vars, admin' <= 1, NEW b \in Brun
  PROVE  /\ Past(run[b], ClonedStates)' => Past(run[b], ClonedStates)
              \/ Crosses(b, "BRUN_CLSCHED_WORK", "BRUN_CLSCHED_DONE")
         /\ Past(run[b], DumpingStates)' => Past(run[b], DumpingStates)
              \/ Crosses(b, "BRUN_DUMPCREATE_WORK", "BRUN_DUMPCREATE_DONE")
         /\ Past(run[b], ClosingStates)' => Past(run[b], ClosingStates)
              \/ Crosses(b, "BRUN_DUMPSCHED_WORK", "BRUN_DUMPSCHED_DONE")
<1> DEFINE Sets == {ClonedStates, DumpingStates, ClosingStates}
<1>1. RunMoves(b)
  BY OrderFacts, NextMoves
<1>2. LastOk(run[b]) /\ admin \in Nat /\ (admin' = admin \/ admin' = admin + 1)
  BY OrderFacts, AdminMoves
<1>3. CASE run'[b] = run[b]
  BY <1>2, <1>3 DEF Past, Within
<1>4. CASE ChildMoves(run[b], run'[b]) /\ admin' = admin
  <2>1. ASSUME NEW X PROVE Past(run[b], X)' <=> Past(run'[b], X)
    BY <1>4 DEF Past, Within
  <2>2. ASSUME NEW X, NEW c, Onward(X, c), Past(run[b], X)'
        PROVE  Past(run[b], X) \/ (run[b].state = c /\ EndOf(c, run'[b].state))
    BY <1>4, <2>1, <2>2, ChildPast
  <2>3. ASSUME NEW c, run[b].state = c, EndOf(c, run'[b].state)
        PROVE  Crosses(b, c, run'[b].state)
    BY <1>4, <2>3 DEF Crosses
  <2>4. ASSUME NEW t
        PROVE  /\ EndOf("BRUN_CLSCHED_WORK", t) => t = "BRUN_CLSCHED_DONE"
               /\ EndOf("BRUN_DUMPCREATE_WORK", t) => t = "BRUN_DUMPCREATE_DONE"
               /\ EndOf("BRUN_DUMPSCHED_WORK", t) => t = "BRUN_DUMPSCHED_DONE"
    BY DEF EndOf
  <2> QED  BY <2>2, <2>3, <2>4, AllOnward, Zenon
<1>5. CASE PassMoves(run[b], run'[b]) /\ admin' = admin
  <2>1. ASSUME NEW X PROVE Past(run[b], X)' <=> Past(run'[b], X)
    BY <1>5 DEF Past, Within
  <2> QED  BY <1>2, <1>5, <2>1, PassPast
<1>6. CASE run'[b].state = "GONE" \/ run'[b] = NewRun
  BY <1>6 DEF Past, Within, ClonedStates, DumpingStates, ClosingStates,
              RecoverStates, NewRun
<1>7. CASE OperatorMoves(run[b], run'[b]) /\ admin' = admin + 1
  <2>1. admin = 0 /\ admin' # 0
    BY <1>2, <1>7
  <2> QED  BY <1>7, <2>1 DEF OperatorMoves, Past, Within, ClonedStates,
                             DumpingStates, ClosingStates, RecoverStates
<1> QED  BY <1>1, <1>3, <1>4, <1>5, <1>6, <1>7 DEF RunMoves

LEMMA NextLast ==
  ASSUME OrderInv, [Next]_vars, NEW b \in Brun
  PROVE  LastOk(run[b])'
<1>1. RunMoves(b) /\ LastOk(run[b])
  BY OrderFacts, NextMoves
<1>2. CASE ChildMoves(run[b], run'[b])
  BY <1>1, <1>2 DEF ChildMoves, LastOk, RecoverStates, WorkStates
<1>3. CASE PassMoves(run[b], run'[b])
  BY <1>1, <1>3 DEF PassMoves, Takes, Forks, LastOk, RecoverStates
<1> QED
  BY <1>1, <1>2, <1>3 DEF RunMoves, OperatorMoves, NewRun, LastOk, RecoverStates

-----------------------------------------------------------------------------
(***************************************************************************)
(* Stages in order: the jobs.                                              *)
(***************************************************************************)

\* How a job moves in a step.
JobMoves(e) ==
  \/ job'[e] = job[e] \/ job'[e] \in {"none", "finished", "failed", "done"}
  \/ job[e] = "cloning" /\ job'[e] = "cloned"
  \/ job[e] = "pending" /\ job'[e] = "cloning"
  \/ job[e] = "cloned" /\ job'[e] = "queued"
  \/ job[e] = "queued" /\ job'[e] = "dumping"
  \/ ~ Past(run[e[1]], ClonedStates) /\ job'[e] = "pending"

LEMMA SetJobsFacts ==
  ASSUME NEW S, NEW s, SetJobs(S, s), NEW e \in Entry
  PROVE  job'[e] = IF e \in S THEN s ELSE job[e]
  BY DEF SetJobs

LEMMA KidJobs ==
  ASSUME OrderInv, admin <= 1, NEW k \in kids, KidStep(k), NEW e \in Entry
  PROVE  JobMoves(e)
<1> USE SetJobsFacts
<1>1. CASE ClearClones(k)
  BY <1>1 DEF ClearClones, JobMoves
<1>2. CASE CreateClones(k)
  <2>1. ~ Past(run[k.run], ClonedStates)
    <3>1. k.state = "BRUN_CLCREATE_WORK" /\ Attached(k) /\ (k.mine => Matches(k))
      BY <1>2, OrderFacts, CopyFacts DEF CreateClones, OrderInv
    <3> QED  BY <3>1 DEF Attached, Matches, Past, Within, ClonedStates,
                         DumpingStates, ClosingStates, RecoverStates
  <2> QED  BY <1>2, <2>1 DEF CreateClones, JobMoves, Of
<1>3. CASE Schedule(k)
  <2>1. k.state \in DOMAIN Scheduling
    BY <1>3 DEF Schedule
  <2>2. PICK S \in SUBSET JobsIn(k.run, Scheduling[k.state].pending) :
          SetJobs(S, Scheduling[k.state].busy)
    BY <1>3, Zenon DEF Schedule
  <2> QED  BY <2>1, <2>2, SchedulingFacts DEF JobMoves, JobsIn
<1>4. CASE CreateDumps(k)
  BY <1>4 DEF CreateDumps, JobMoves, JobsIn
<1>5. CASE CleanUp(k)
  BY <1>5 DEF CleanUp, Clear, DeleteCruft, DeleteEntries, Delete, JobMoves, tables
<1> QED
  BY <1>1, <1>2, <1>3, <1>4, <1>5
     DEF KidStep, Start, ScanEntries, Count, Report, Complete, Abort, Fail, Lose,
         tables, JobMoves

LEMMA NextJobs ==
  ASSUME OrderInv, [Next]_vars, admin <= 1, NEW e \in Entry
  PROVE  JobMoves(e)
<1> USE SetJobsFacts
<1>1. CASE UNCHANGED job
  BY <1>1 DEF JobMoves
<1>2. ASSUME NEW b \in Brun, Clean(b) PROVE JobMoves(e)
  BY <1>1, <1>2
     DEF Clean, Clear, DeleteCruft, DeleteEntries, Delete, GiveUpCleaning, tables,
         JobMoves
<1>3. CASE ServerStep
  <2>1. CASE Take \/ Fork \/ FindCleanable \/ CleanDone
    BY <1>1, <2>1, Zenon DEF Take, Fork, FindCleanable, CleanDone, tables
  <2>2. CASE EndJobs
    BY <2>2 DEF EndJobs, JobMoves
  <2> QED  BY <1>2, <1>3, <2>1, <2>2 DEF ServerStep
<1>4. ASSUME NEW k \in kids, KidStep(k) PROVE JobMoves(e)
  BY <1>4, KidJobs
<1>5. ASSUME NEW k \in kids, Die(k) PROVE JobMoves(e)
  BY <1>1, <1>5 DEF Die, tables
<1>6. ASSUME NEW d \in Entry, JobStep(d) PROVE JobMoves(e)
  <2>1. CASE EndClone(d)
    BY <2>1 DEF EndClone, JobMoves
  <2>2. CASE EndDump(d)
    BY <2>2 DEF EndDump, JobMoves
  <2> QED  BY <1>6, <2>1, <2>2 DEF JobStep
<1>7. ASSUME NEW b \in Brun, Create(b) \/ Kill(b) \/ Retry(b) PROVE JobMoves(e)
  BY <1>1, <1>7 DEF Create, Kill, Retry, Command, tables
<1>8. CASE UNCHANGED vars \/ \E b \in Brun : GrowOld(b)
  BY <1>1, <1>8 DEF vars, GrowOld, tables
<1> QED  BY <1>3, <1>4, <1>5, <1>6, <1>7, <1>8 DEF Next

\* When a child takes its run past a stage, the jobs of the run are, too.
LEMMA CrossedJobs ==
  ASSUME OrderInv, [Next]_vars, admin <= 1, NEW b \in Brun, NEW s, NEW t,
         Crosses(b, s, t), NEW e \in Of(b, Entry)
  PROVE  /\ s = "BRUN_CLSCHED_WORK" /\ t = "BRUN_CLSCHED_DONE" =>
              UNCHANGED job /\ job[e] \notin {"pending", "cloning"}
         /\ s = "BRUN_DUMPCREATE_WORK" /\ t = "BRUN_DUMPCREATE_DONE" =>
              UNCHANGED job /\ job[e] # "cloned"
         /\ s = "BRUN_DUMPSCHED_WORK" /\ t = "BRUN_DUMPSCHED_DONE" =>
              UNCHANGED job /\ job[e] \notin {"queued", "dumping"}
<1> SUFFICES ASSUME \/ s = "BRUN_CLSCHED_WORK" /\ t = "BRUN_CLSCHED_DONE"
                    \/ s = "BRUN_DUMPCREATE_WORK" /\ t = "BRUN_DUMPCREATE_DONE"
                    \/ s = "BRUN_DUMPSCHED_WORK" /\ t = "BRUN_DUMPSCHED_DONE"
             PROVE  /\ UNCHANGED job
                    /\ s = "BRUN_CLSCHED_WORK" => job[e] \notin {"pending", "cloning"}
                    /\ s = "BRUN_DUMPCREATE_WORK" => job[e] # "cloned"
                    /\ s = "BRUN_DUMPSCHED_WORK" => job[e] \notin {"queued", "dumping"}
  OBVIOUS
<1>1. /\ run'[b] # run[b] /\ run[b].state = s /\ run'[b].state = t
      /\ TypeOK /\ CopyInv /\ run[b] \in Row
  BY OrderFacts DEF Crosses
<1>2. PICK k \in kids : KidStep(k)
  <2>1. ~ UNCHANGED run
    BY <1>1
  <2>2. ~ ServerStep
    <3>1. ASSUME NEW S, NEW W, Passes(S, W) PROVE FALSE
      BY <1>1, <3>1 DEF Passes, PassMoves, Takes, Forks
    <3>2. ASSUME NEW c \in Brun, Delete(c) PROVE FALSE
      BY <1>1, <3>2 DEF Delete, TypeOK
    <3> QED  BY <1>1, <2>1, <3>1, <3>2, ServerMoves
  <2>3. ASSUME NEW c \in Brun, Create(c) \/ Kill(c) \/ Retry(c) PROVE FALSE
    <3>1. CASE Create(c)
      BY <1>1, <3>1 DEF Create, NewRun, TypeOK
    <3>2. CASE Kill(c) \/ Retry(c)
      BY <1>1, <3>2, OperatorFacts DEF OperatorMoves
    <3> QED  BY <2>3, <3>1, <3>2
  <2> QED  BY <2>1, <2>2, <2>3 DEF Next, vars, Die, JobStep, GrowOld
<1>3. PICK new : Writes(k, new)
  <2>1. ~ Quiet(k)
    BY <1>1 DEF Quiet
  <2>2. ~ Drops(k)
    BY <1>1 DEF Drops, Delete, TypeOK
  <2> QED  BY <1>1, <1>2, <2>1, <2>2, KidMoves
<1>4. /\ k.run = b /\ k.mine /\ k.state = s /\ k.run \in Brun
      /\ run'[k.run].state = t
  <2>1. k.mine /\ k.run = b /\ k.run \in Brun
    BY <1>1, <1>3, CopyFacts DEF Writes, TypeOK
  <2> QED  BY <1>1, <2>1, CopyFacts DEF Matches
<1>5. run' # run
  BY <1>1
<1>6. CASE Schedule(k)
  <2> DEFINE c == Scheduling[k.state]
  <2>1. k.state \in DOMAIN Scheduling
    BY <1>6 DEF Schedule
  <2>2. PICK S \in SUBSET JobsIn(k.run, c.pending) :
          /\ SetJobs(S, c.busy)
          /\ \/ FinishOrExit(k, At(run[k.run], IF NothingLeft(k, S)
                                               THEN Ends[k.state] ELSE c.again))
             \/ Go(k, "error") /\ UNCHANGED run
    BY <1>6, Zenon DEF Schedule
  <2>3. run' = [run EXCEPT ![k.run] = At(run[k.run], IF NothingLeft(k, S)
                                                    THEN Ends[k.state] ELSE c.again)]
    BY <1>5, <2>2 DEF FinishOrExit, Finish
  <2>4. t = IF NothingLeft(k, S) THEN Ends[k.state] ELSE c.again
    BY <1>1, <1>4, <2>3 DEF TypeOK, At, Row
  <2>5. NothingLeft(k, S)
    BY <1>4, <2>1, <2>4, SchedulingFacts
  <2>6. S = {} /\ JobsIn(k.run, c.pending) = {} /\ Holding(k.run) = {}
    BY <2>5 DEF NothingLeft
  <2>7. UNCHANGED job
    BY <1>1, <2>2, <2>6 DEF SetJobs, TypeOK
  <2>8. job[e] # c.pending /\ job[e] \notin {"cloning", "dumping"}
    BY <1>4, <2>6 DEF JobsIn, Holding, Of
  <2> QED  BY <1>4, <2>1, <2>7, <2>8, SchedulingFacts
<1>7. CASE Complete(k)
  <2>1. k.at = "finish" /\ UNCHANGED job /\ HasQueued(k)
    BY <1>7 DEF Complete, tables, OrderInv
  <2> QED  BY <1>4, <2>1 DEF HasQueued
<1>8. CASE Fail(k)
  <2>1. run' = [run EXCEPT ![k.run] = Errored(k)]
    BY <1>5, <1>8 DEF Fail, FinishOrExit, Finish
  <2>2. t \in {"FAILED", "ERROR"}
    BY <1>1, <1>4, <2>1 DEF Errored, TypeOK, At, Row
  <2> QED  BY <2>2
<1>9. CASE CleanUp(k)
  BY <1>1, <1>4, <1>5, <1>9 DEF CleanUp, Delete, TypeOK
<1> QED
  BY <1>2, <1>5, <1>6, <1>7, <1>8, <1>9
     DEF KidStep, Start, ScanEntries, ClearClones, CreateClones, Count, CreateDumps,
         Report, Abort, Lose

LEMMA NextJobsInOrder ==
  ASSUME OrderInv, [Next]_vars, admin' <= 1, NEW e \in Entry
  PROVE  JobsInOrder(e)'
<1> DEFINE b == e[1]
<1>1. admin <= 1 /\ b \in Brun /\ e \in Of(b, Entry)
  BY OrderFacts, AdminMoves, TypeFacts DEF Of
<1>2. JobsInOrder(e) /\ JobMoves(e)
  BY <1>1, NextJobs DEF OrderInv
<1>3. /\ Past(run[b], ClosingStates) => Past(run[b], DumpingStates)
      /\ Past(run[b], DumpingStates) => Past(run[b], ClonedStates)
  BY PastNested
<1>4. ASSUME Past(run[b], ClonedStates)' PROVE job'[e] \notin {"pending", "cloning"}
  <2>1. CASE Past(run[b], ClonedStates)
    BY <1>2, <2>1 DEF JobsInOrder, JobMoves
  <2>2. CASE Crosses(b, "BRUN_CLSCHED_WORK", "BRUN_CLSCHED_DONE")
    BY <1>1, <2>2, CrossedJobs
  <2> QED  BY <1>1, <1>4, <2>1, <2>2, RunPast
<1>5. ASSUME Past(run[b], DumpingStates)' PROVE job'[e] # "cloned"
  <2>1. CASE Past(run[b], DumpingStates)
    BY <1>2, <1>3, <2>1 DEF JobsInOrder, JobMoves
  <2>2. CASE Crosses(b, "BRUN_DUMPCREATE_WORK", "BRUN_DUMPCREATE_DONE")
    BY <1>1, <2>2, CrossedJobs
  <2> QED  BY <1>1, <1>5, <2>1, <2>2, RunPast
<1>6. ASSUME Past(run[b], ClosingStates)' PROVE job'[e] \notin {"queued", "dumping"}
  <2>1. CASE Past(run[b], ClosingStates)
    BY <1>2, <1>3, <2>1 DEF JobsInOrder, JobMoves
  <2>2. CASE Crosses(b, "BRUN_DUMPSCHED_WORK", "BRUN_DUMPSCHED_DONE")
    BY <1>1, <2>2, CrossedJobs
  <2> QED  BY <1>1, <1>6, <2>1, <2>2, RunPast
<1> QED  BY <1>4, <1>5, <1>6 DEF JobsInOrder

-----------------------------------------------------------------------------
(***************************************************************************)
(* Stages in order: the children.                                          *)
(***************************************************************************)

\* The child m was l before the step, which did not lose its row unless the
\* run is FAILED or gone for good.
Descends(m, l) ==
  /\ m.run = l.run /\ m.state = l.state
  /\ m.mine => l.mine
  /\ l.mine /\ ~ m.mine =>
       \/ run'[l.run].state = "GONE"
       \/ run'[l.run].state = "FAILED" /\ admin' = 1

\* A run that is gone, or FAILED after the operator's command, stays so.
LEMMA DeadStays ==
  ASSUME OrderInv, [Next]_vars, admin' <= 1, NEW b \in Brun,
         \/ run[b].state = "GONE"
         \/ run[b].state = "FAILED" /\ admin = 1
  PROVE  \/ run'[b].state = "GONE"
         \/ run'[b].state = "FAILED" /\ admin' = 1
<1>1. RunMoves(b) /\ (admin' = admin \/ admin' = admin + 1) /\ admin \in Nat
  BY NextMoves, AdminMoves, OrderFacts
<1>2. ~ ChildMoves(run[b], run'[b])
  BY DEF ChildMoves, WorkStates
<1>3. ~ PassMoves(run[b], run'[b])
  BY DEF PassMoves, Takes, Forks
<1>4. CASE OperatorMoves(run[b], run'[b]) /\ admin' = admin + 1
  <2>1. admin = 0
    BY <1>1, <1>4
  <2> QED  BY <1>4, <2>1 DEF OperatorMoves, NoRow
<1>5. CASE run'[b] = run[b]
  BY <1>1, <1>5
<1> QED  BY <1>1, <1>2, <1>3, <1>4, <1>5 DEF RunMoves

LEMMA AttachedKept ==
  ASSUME OrderInv, [Next]_vars, admin' <= 1, admin <= 1,
         NEW l \in kids, NEW m, Descends(m, l)
  PROVE  Attached(m)'
<1>1. Attached(l) /\ l.run \in Brun
  BY CopyFacts DEF OrderInv
<1>2. CASE m.mine
  BY <1>2 DEF Attached
<1>3. CASE ~ m.mine /\ l.mine
  BY <1>3 DEF Attached, Descends
<1>4. CASE ~ m.mine /\ ~ l.mine
  <2>1. \/ run[l.run].state = "GONE"
        \/ run[l.run].state = "FAILED" /\ admin = 1
    BY <1>1, <1>4 DEF Attached
  <2> QED  BY <1>1, <2>1, DeadStays DEF Attached, Descends
<1> QED  BY <1>2, <1>3, <1>4

\* What a child did stays done until it takes its run on.
LEMMA QueuedKept ==
  ASSUME OrderInv, [Next]_vars, admin <= 1,
         NEW l \in kids, NEW m, Descends(m, l), m.mine => m.at = l.at
  PROVE  HasQueued(m)'
<1>1. HasQueued(l)
  BY DEF OrderInv
<1>2. SUFFICES ASSUME m.mine, m.at = "finish" PROVE HasQueued(m)'
  BY DEF HasQueued
<1>3. /\ l.mine /\ l.at = "finish" /\ m.run = l.run /\ m.state = l.state
      /\ run[l.run].state = l.state
  BY <1>2, CopyFacts, OrderFacts DEF Descends, Matches
<1>4. ASSUME m.state = "BRUN_DUMPCREATE_WORK", NEW e \in Of(m.run, Entry)
      PROVE  job'[e] # "cloned"
  <2>1. e \in Entry /\ e[1] = l.run /\ job[e] # "cloned"
    BY <1>1, <1>3, <1>4 DEF HasQueued, Of
  <2>2. Past(run[l.run], ClonedStates)
    BY <1>3, <1>4 DEF Past, Within, ClonedStates
  <2>3. job[e] # "cloning" /\ JobMoves(e)
    BY <2>1, <2>2, NextJobs DEF OrderInv, JobsInOrder
  <2> QED  BY <2>1, <2>3 DEF JobMoves
<1>5. \A e \in Of(m.run, Entry)' : e \in Of(m.run, Entry)
  BY DEF Of, Entry
<1> QED  BY <1>1, <1>3, <1>4, <1>5 DEF HasQueued

LEMMA OutdateOne ==
  ASSUME NEW S, NEW K, K \subseteq Kid, \A k, l \in K : k.run = l.run => k = l
  PROVE  \A m, n \in Outdate(S, K) : m.run = n.run => m = n
<1> SUFFICES ASSUME NEW m \in Outdate(S, K), NEW n \in Outdate(S, K), m.run = n.run
             PROVE  m = n
  OBVIOUS
<1>1. PICK k \in K : /\ m = IF k.run \in S THEN [k EXCEPT !.mine = FALSE] ELSE k
                     /\ m.run = k.run
  BY OutdateFacts
<1>2. PICK l \in K : /\ n = IF l.run \in S THEN [l EXCEPT !.mine = FALSE] ELSE l
                     /\ n.run = l.run
  BY OutdateFacts
<1>3. k = l
  BY <1>1, <1>2
<1> QED  BY <1>1, <1>2, <1>3

\* What is to be shown of the children after a step.
KidsOk == OneKid /\ \A k \in kids : Attached(k) /\ HasQueued(k)

LEMMA KidsKept ==
  ASSUME OrderInv, [Next]_vars, admin' <= 1, admin <= 1, OneKid',
         \A m \in kids' : \E l \in kids : Descends(m, l) /\ (m.mine => m.at = l.at)
  PROVE  KidsOk'
<1>1. ASSUME NEW m \in kids' PROVE Attached(m)' /\ HasQueued(m)'
  BY AttachedKept, QueuedKept
<1> QED  BY <1>1 DEF KidsOk

LEMMA SameKids ==
  ASSUME OrderInv, [Next]_vars, admin' <= 1, admin <= 1, kids' \subseteq kids
  PROVE  KidsOk'
<1>1. \A m \in kids' : Descends(m, m)
  BY DEF Descends
<1>2. OneKid'
  BY DEF OrderInv, OneKid
<1> QED  BY <1>1, <1>2, KidsKept

\* The children that find their rows no more have a run that is FAILED or gone.
LEMMA OutdatedKids ==
  ASSUME OrderInv, [Next]_vars, admin' <= 1, admin <= 1, NEW S, NEW K,
         K \subseteq Kid, kids' = Outdate(S, K),
         \A k, l \in K : k.run = l.run => k = l,
         \A l \in K : /\ \E k \in kids : Descends(l, k) /\ (l.mine => l.at = k.at)
                      /\ l.mine /\ l.run \in S =>
                           \/ run'[l.run].state = "GONE"
                           \/ run'[l.run].state = "FAILED" /\ admin' = 1
  PROVE  KidsOk'
<1>1. OneKid'
  BY OutdateOne DEF OneKid
<1>2. ASSUME NEW m \in kids'
      PROVE  \E l \in kids : Descends(m, l) /\ (m.mine => m.at = l.at)
  <2>1. PICK l \in K : /\ m = IF l.run \in S THEN [l EXCEPT !.mine = FALSE] ELSE l
                       /\ m.run = l.run /\ m.state = l.state /\ m.at = l.at
                       /\ m.last = l.last /\ m.errors = l.errors
                       /\ m.mine => l.mine /\ l.run \notin S
    BY OutdateFacts, Zenon
  <2>2. PICK k \in kids : Descends(l, k) /\ (l.mine => l.at = k.at)
    OBVIOUS
  <2>3. Descends(m, k) /\ (m.mine => m.at = k.at)
    BY <2>1, <2>2 DEF Descends
  <2> QED  BY <2>3
<1> QED  BY <1>1, <1>2, KidsKept

LEMMA PassesKids ==
  ASSUME OrderInv, [Next]_vars, admin' <= 1, admin <= 1, NEW S, NEW W, Passes(S, W)
  PROVE  KidsOk'
<1>1. OneKid /\ kids \subseteq Kid /\ \A k \in kids : Attached(k)
  BY OrderFacts DEF OrderInv, TypeOK
<1>2. ASSUME NEW k \in kids PROVE k.run \notin S
  <2>1. k.run \in Brun /\ Attached(k) /\ (k.mine => run[k.run].state = k.state)
          /\ k.state \in WorkStates \cup {"BRUN_RECOVER_WORK"}
    BY <1>1, OrderFacts, CopyFacts DEF Matches
  <2>2. ASSUME k.run \in S PROVE FALSE
    <3>1. PassMoves(run[k.run], run'[k.run])
      BY <2>2 DEF Passes
    <3> QED  BY <2>1, <3>1 DEF PassMoves, Takes, Forks, Attached, WorkStates
  <2> QED  BY <2>2
<1>3. Outdate(S, kids) = kids
  BY <1>2 DEF Outdate
<1>4. ASSUME NEW m \in ForkedFor(W)
      PROVE  /\ m.run \in W /\ m.mine /\ m.state = run'[m.run].state
             /\ m.at = FirstCall(m.state)
  BY DEF ForkedFor
<1>5. ASSUME NEW m \in ForkedFor(W), NEW n \in ForkedFor(W), m.run = n.run
      PROVE  m = n
  <2> DEFINE C(b) == [run |-> b, state |-> run'[b].state,
                      at |-> FirstCall(run'[b].state), last |-> run[b].last,
                      errors |-> run[b].errors, mine |-> TRUE]
  <2>1. PICK b \in W : m = C(b)
    BY DEF ForkedFor
  <2>2. PICK c \in W : n = C(c)
    BY DEF ForkedFor
  <2>3. b = c
    BY <1>5, <2>1, <2>2
  <2> QED  BY <2>1, <2>2, <2>3
<1>6. kids' = kids \cup ForkedFor(W) /\ W \subseteq S
  BY <1>3 DEF Passes
<1>7. OneKid'
  BY <1>1, <1>2, <1>4, <1>5, <1>6 DEF OneKid
<1>8. ASSUME NEW m \in kids PROVE Attached(m)' /\ HasQueued(m)'
  BY AttachedKept, QueuedKept DEF Descends
<1>9. ASSUME NEW m \in ForkedFor(W) PROVE Attached(m)' /\ HasQueued(m)'
  <2>1. m.mine /\ m.at = FirstCall(m.state)
    BY <1>4
  <2>2. m.at = "finish" =>
          m.state \in {"INIT_WORK", "VLADDR_WORK", "BRUN_RECOVER_WORK"}
    BY <2>1 DEF FirstCall
  <2> QED  BY <2>1, <2>2 DEF Attached, HasQueued
<1> QED  BY <1>6, <1>7, <1>8, <1>9 DEF KidsOk

LEMMA KidKids ==
  ASSUME OrderInv, [Next]_vars, admin' <= 1, admin <= 1, NEW k \in kids, KidStep(k)
  PROVE  KidsOk'
<1>1. /\ OneKid /\ kids \subseteq Kid /\ k \in Kid /\ k.run \in Brun /\ TypeOK
  BY OrderFacts, CopyFacts DEF OrderInv, TypeOK
<1>2. ASSUME NEW at, Go(k, at), at = "finish" => Prepares(k), UNCHANGED run
      PROVE  KidsOk'
  <2> DEFINE n == [k EXCEPT !.at = at]
  <2>1. /\ n.run = k.run /\ n.state = k.state /\ n.mine = k.mine /\ n.at = at
        /\ kids' = (kids \ {k}) \cup {n}
    BY <1>1, <1>2 DEF Go, Kid
  <2> HIDE DEF n
  <2>2. Descends(n, k)
    BY <2>1 DEF Descends
  <2>3. OneKid'
    BY <1>1, <2>1 DEF OneKid
  <2>4. ASSUME NEW m \in kids' PROVE Attached(m)'
    BY <2>1, <2>2, <2>4, AttachedKept DEF Descends
  <2>5. ASSUME NEW m \in kids', m # n PROVE HasQueued(m)'
    BY <2>1, <2>5, QueuedKept DEF Descends
  <2>6. HasQueued(n)'
    <3>1. SUFFICES ASSUME at = "finish", n.mine PROVE HasQueued(n)'
      BY <2>1 DEF HasQueued
    <3>2. k.state \notin {"BRUN_CLSCHED_WORK", "BRUN_DUMPSCHED_WORK"}
      BY <1>2, <3>1 DEF Prepares
    <3>3. ASSUME k.state = "BRUN_DUMPCREATE_WORK", NEW e \in Of(k.run, Entry)
          PROVE  job'[e] # "cloned"
      <4>1. SetJobs(JobsIn(k.run, "cloned"), "queued")
        BY <1>2, <3>1, <3>3 DEF Prepares
      <4> QED  BY <3>3, <4>1, SetJobsFacts DEF JobsIn, Of
    <3>4. \A e \in Of(n.run, Entry)' : e \in Of(k.run, Entry)
      BY <2>1 DEF Of, Entry
    <3> QED  BY <2>1, <3>2, <3>3, <3>4 DEF HasQueued
  <2> QED  BY <2>3, <2>4, <2>5, <2>6 DEF KidsOk
<1>3. CASE kids' = kids \ {k}
  BY <1>3, SameKids
<1>4. ASSUME NEW new, Writes(k, new) PROVE KidsOk'
  <2>1. \A l \in kids \ {k} : l.run \notin {k.run}
    BY <1>1 DEF OneKid
  <2>2. \A l \in kids \ {k} : Descends(l, l)
    BY DEF Descends
  <2>3. kids' = Outdate({k.run}, kids \ {k})
    BY <1>4 DEF Writes
  <2> QED  BY <1>1, <2>1, <2>2, <2>3, OutdatedKids DEF OneKid
<1>5. CASE Drops(k)
  <2> DEFINE n == [k EXCEPT !.at = "finish"]
             K == (kids \ {k}) \cup {n}
  <2>1. /\ n.run = k.run /\ n.state = k.state /\ n.mine = k.mine
        /\ n.at = "finish" /\ n \in Kid
    BY <1>1 DEF Kid
  <2>2. kids' = Outdate({k.run}, K) /\ run'[k.run].state = "GONE"
    BY <1>1, <1>5, CopyFacts, OrderFacts DEF Drops, Delete, TypeOK, Row
  <2> HIDE DEF n
  <2>3. \A l, m \in K : l.run = m.run => l = m
    BY <1>1, <2>1 DEF OneKid
  <2>4. OneKid'
    BY <1>1, <2>1, <2>2, <2>3, OutdateOne DEF OneKid
  <2>5. ASSUME NEW m \in kids'
        PROVE  \E l \in kids : Descends(m, l) /\ (m.mine => m.at = l.at)
    <3>1. PICK l \in K : /\ m = IF l.run \in {k.run} THEN [l EXCEPT !.mine = FALSE] ELSE l
                         /\ m.run = l.run /\ m.state = l.state /\ m.at = l.at
                         /\ m.last = l.last /\ m.errors = l.errors
                         /\ m.mine => l.mine /\ l.run \notin {k.run}
      <4>1. K \subseteq Kid
        BY <1>1, <2>1
      <4>2. m \in Outdate({k.run}, K)
        BY <2>2
      <4> HIDE DEF K
      <4> QED  BY <4>1, <4>2, OutdateFacts
    <3>2. CASE l = n
      BY <2>1, <2>2, <3>1, <3>2 DEF Descends
    <3>3. CASE l \in kids \ {k}
      BY <1>1, <3>1, <3>3 DEF Descends, OneKid
    <3> QED  BY <3>1, <3>2, <3>3
  <2> QED  BY <2>4, <2>5, KidsKept
<1> QED  BY <1>2, <1>3, <1>4, <1>5, KidMoves, OrderFacts DEF Quiet

LEMMA NextKids ==
  ASSUME OrderInv, [Next]_vars, admin' <= 1
  PROVE  KidsOk'
<1>1. /\ TypeOK /\ admin <= 1 /\ admin \in Nat
      /\ admin' = admin \/ admin' = admin + 1
  BY OrderFacts, AdminMoves
<1>2. /\ OneKid /\ kids \subseteq Kid /\ \A k \in kids : Descends(k, k)
  BY <1>1 DEF OrderInv, TypeOK, Descends
<1>3. ASSUME UNCHANGED kids PROVE KidsOk'
  BY <1>1, <1>3, SameKids
<1>4. CASE ServerStep
  <2>1. ASSUME NEW S, NEW W, Passes(S, W) PROVE KidsOk'
    BY <1>1, <2>1, PassesKids
  <2>2. ASSUME NEW b \in Brun, Delete(b), kids' = Outdate({b}, kids) PROVE KidsOk'
    <3>1. run'[b].state = "GONE"
      BY <1>1, <2>2, TypeFacts DEF Delete, TypeOK, Row
    <3> QED  BY <1>1, <1>2, <2>2, <3>1, OutdatedKids DEF OneKid
  <2> QED  BY <1>1, <1>3, <1>4, <2>1, <2>2, ServerMoves
<1>5. ASSUME NEW k \in kids, KidStep(k) PROVE KidsOk'
  BY <1>1, <1>5, KidKids
<1>6. ASSUME NEW k \in kids, Die(k) PROVE KidsOk'
  BY <1>1, <1>6, SameKids DEF Die
<1>7. ASSUME NEW e \in Entry, JobStep(e) PROVE KidsOk'
  BY <1>3, <1>7 DEF JobStep
<1>8. ASSUME NEW b \in Brun, Create(b) PROVE KidsOk'
  BY <1>3, <1>8 DEF Create
<1>9. ASSUME NEW b \in Brun, Kill(b) \/ Retry(b) PROVE KidsOk'
  <2>1. /\ OperatorMoves(run[b], run'[b]) /\ kids' = Outdate({b}, kids)
        /\ admin' = 1 /\ admin = 0
    BY <1>1, <1>9, OperatorFacts
  <2>2. ASSUME NEW k \in kids, k.mine, k.run = b PROVE run'[b].state = "FAILED"
    <3>1. run[b].state \in WorkStates \cup {"BRUN_RECOVER_WORK"}
      BY <2>2, CopyFacts, OrderFacts DEF Matches
    <3> QED  BY <2>1, <3>1 DEF OperatorMoves, WorkStates
  <2> QED  BY <1>1, <1>2, <2>1, <2>2, OutdatedKids DEF OneKid
<1>10. CASE UNCHANGED vars \/ \E b \in Brun : GrowOld(b)
  BY <1>3, <1>10 DEF vars, GrowOld
<1> QED  BY <1>4, <1>5, <1>6, <1>7, <1>8, <1>9, <1>10 DEF Next

LEMMA NextOrder ==
  ASSUME OrderInv, [Next]_vars
  PROVE  OrderInv'
<1>1. CopyInv' /\ \A b \in Brun : LastOk(run[b])'
  BY OrderFacts, NextCopies, NextLast
<1>2. ASSUME admin' <= 1 PROVE KidsOk' /\ \A e \in Entry : JobsInOrder(e)'
  BY <1>2, NextKids, NextJobsInOrder
<1> QED  BY <1>1, <1>2 DEF OrderInv, KidsOk

LEMMA InitOrder == Init => OrderInv
  BY InitCopies
     DEF Init, OrderInv, LastOk, OneKid, JobsInOrder, Past, Within, ClonedStates,
         DumpingStates, ClosingStates, RecoverStates

\* No volume of a run still waits for a clone or a dump when the run creates,
\* makes or reports dumps, for any number of runs and volumes, whatever fails,
\* with at most one operator command.
THEOREM InOrder == Spec => []StagesInOrder
<1>1. OrderInv => StagesInOrder
  <2> SUFFICES ASSUME OrderInv, admin <= 1, NEW e \in Entry
               PROVE  /\ run[e[1]].state \in
                           {"BRUN_DUMPCREATE_START", "BRUN_DUMPSCHED_START",
                            "BRUN_REPORT_START"}
                           => job[e] \notin {"pending", "cloning"}
                      /\ run[e[1]].state \in {"BRUN_REPORT_START", "BRUN_CLEANUP_START"}
                           => job[e] \notin {"cloned", "queued", "dumping"}
    BY DEF StagesInOrder
  <2>1. JobsInOrder(e)
    BY DEF OrderInv
  <2> QED  BY <2>1 DEF JobsInOrder, Past, Within, ClonedStates, DumpingStates,
                       ClosingStates
<1> QED  BY <1>1, InitOrder, NextOrder, PTL DEF Spec

-----------------------------------------------------------------------------
(***************************************************************************)
(* Reports are full.  Without operator commands, what a stage left behind  *)
(* for the next ones (entries, jobs, the report) is there until the run    *)
(* has gone past the stages that need it.                                  *)
(***************************************************************************)

\* X are the states in which a run needs what the stage with state c makes.
Needs(X, c) ==
  /\ \A s, t : EndOf(s, t) /\ t \in X => s \in X \/ s = c
  /\ \A s, t : Forks(t, s) /\ t \in X => s \in X
  /\ \A s, t : Forks(s, t) /\ t \in X => s \in X
  /\ \A s, t : Takes(s, t) /\ t \in X => s \in X
  /\ X \cap (RecoverStates \cup {"FAILED", "GONE", "NEW", NoState}) = {}

LEMMA AllNeeds ==
  /\ Needs(ScannedStates, "VLENTRY_WORK")
  /\ Needs(CreatedStates, "BRUN_CLCREATE_WORK")
  /\ Needs(ReportedStates, "BRUN_REPORT_WORK")
<1> USE DEF Needs, RecoverStates, NoState, EndOf, Forks, Takes
<1>1. Needs(ScannedStates, "VLENTRY_WORK")
  BY DEF ScannedStates
<1>2. Needs(CreatedStates, "BRUN_CLCREATE_WORK")
  BY DEF CreatedStates
<1>3. Needs(ReportedStates, "BRUN_REPORT_WORK")
  BY DEF ReportedStates
<1> QED  BY <1>1, <1>2, <1>3

\* A run gets there only from there, or by the last update of the stage's child.
LEMMA RunWithin ==
  ASSUME OrderInv, [Next]_vars, admin' = 0, NEW b \in Brun,
         NEW X, NEW c, Needs(X, c), Within(run'[b], X)
  PROVE  \/ Within(run[b], X)
         \/ /\ ChildMoves(run[b], run'[b])
            /\ run[b].state = c /\ EndOf(c, run'[b].state)
<1> DEFINE r == run[b]
           n == run'[b]
<1>1. RunMoves(b) /\ LastOk(r) /\ admin' # admin + 1
  BY OrderFacts, NextMoves
<1>2. CASE ChildMoves(r, n)
  <2>1. CASE r.state \in WorkStates /\ EndOf(r.state, n.state) /\ n.last = r.last
    BY <1>2, <2>1 DEF Needs, Within, EndOf, RecoverStates
  <2>2. CASE /\ r.state \in {"BRUN_CLSCHED_WORK", "BRUN_DUMPSCHED_WORK"}
             /\ Forks(n.state, r.state) /\ n.last = r.last
    BY <2>2 DEF Needs, Within, Forks, RecoverStates
  <2>3. CASE r.state \in WorkStates /\ n.state = "ERROR" /\ n.last = r.state
    BY <2>3 DEF Needs, Within, RecoverStates
  <2>4. CASE r.state = "BRUN_RECOVER_WORK" /\ n.state = "FAILED" /\ n.last = r.last
    BY <2>4 DEF Needs, Within, RecoverStates
  <2>5. CASE /\ r.state = "BRUN_RECOVER_WORK" /\ n.last = NoState
             /\ r.last \in StayStates /\ n.state = r.last
    BY <2>5 DEF Needs, Within, RecoverStates
  <2>6. CASE /\ r.state = "BRUN_RECOVER_WORK" /\ n.last = NoState
             /\ r.last \in WorkStates /\ Forks(n.state, r.last)
    BY <2>6 DEF Needs, Within, RecoverStates
  <2> QED  BY <1>2, <2>1, <2>2, <2>3, <2>4, <2>5, <2>6, Zenon DEF ChildMoves
<1>3. CASE PassMoves(r, n)
  <2>1. CASE Takes(r.state, n.state) /\ n.last = r.last
    BY <2>1 DEF Needs, Within, Takes, RecoverStates
  <2>2. CASE Forks(r.state, n.state) /\ n.last = r.last
    BY <2>2 DEF Needs, Within, Forks, RecoverStates
  <2>3. CASE n.state = "FAILED"
    BY <2>3 DEF Needs, Within, RecoverStates
  <2> QED  BY <1>3, <2>1, <2>2, <2>3 DEF PassMoves
<1>4. CASE n.state = "GONE" \/ n = NewRun
  BY <1>4 DEF Needs, Within, NewRun, RecoverStates
<1> QED  BY <1>1, <1>2, <1>3, <1>4 DEF RunMoves

\* The states in which the server does not clean up after a run.
AtWork(r) == r.state \notin EndStates \cup NoRow

LEMMA WithinFacts ==
  ASSUME NEW r, NEW X \in {ScannedStates, CreatedStates}, Within(r, X)
  PROVE  AtWork(r)
  BY DEF Within, ScannedStates, CreatedStates, AtWork, EndStates, NoRow, RecoverStates

LEMMA ReportFacts ==
  ASSUME ReportInv, admin = 0
  PROVE  /\ TypeOK /\ CopyInv /\ OrderInv /\ OneKid
         /\ \A b \in Brun : cleaning[b] # "no" => ~ AtWork(run[b])
         /\ \A e \in Entry : Covered(e) /\ e[1] \in Brun
         /\ \A k \in kids : /\ HasCovered(k) /\ k.run \in Brun
                            /\ k.mine => run[k.run].state = k.state
                            /\ ~ k.mine => run[k.run].state = "GONE"
<1>1. TypeOK /\ CopyInv /\ OrderInv /\ OneKid /\ \A k \in kids : Attached(k)
  BY OrderFacts DEF ReportInv, OrderInv
<1>2. \A k \in kids : k.run \in Brun /\ (k.mine => run[k.run].state = k.state)
  BY <1>1, CopyFacts DEF Matches
<1>3. \A b \in Brun : cleaning[b] # "no" => ~ AtWork(run[b])
  BY DEF ReportInv, AtWork, NoRow
<1> QED  BY <1>1, <1>2, <1>3, TypeFacts DEF ReportInv, Attached

\* What there is for a volume is still there.
KeepsEntry(e) == e \in entries => e \in entries'
KeepsJob(e) == job[e] # "none" => job'[e] # "none"
KeepsReport(e) == report[e] # "absent" => report'[e] # "absent"
Keeps(e) == KeepsEntry(e) /\ KeepsJob(e) /\ KeepsReport(e)

LEMMA SameKeeps ==
  ASSUME UNCHANGED <<entries, job, report>>, NEW e
  PROVE  Keeps(e)
  BY DEF Keeps, KeepsEntry, KeepsJob, KeepsReport

\* A child of another run keeps it, and so does the run's own child, but for
\* what its stage begins with or does.
LEMMA KidKeeps ==
  ASSUME TypeOK, NEW k \in kids, KidStep(k), NEW e \in Entry
  PROVE  /\ k.run # e[1] => Keeps(e)
         /\ k.state # "BRUN_CLEANUP_WORK" => KeepsEntry(e)
         /\ k.state \notin {"BRUN_CLEANUP_WORK", "BRUN_CLCREATE_WORK"} => KeepsJob(e)
         /\ k.state # "BRUN_REPORT_WORK" => KeepsReport(e)
<1> USE SetJobsFacts DEF Keeps, KeepsEntry, KeepsJob, KeepsReport
<1>1. CASE ScanEntries(k)
  BY <1>1 DEF ScanEntries
<1>2. CASE ClearClones(k)
  BY <1>2 DEF ClearClones, Of
<1>3. CASE CreateClones(k)
  BY <1>3 DEF CreateClones, Of
<1>4. CASE Schedule(k)
  <2>1. k.state \in DOMAIN Scheduling
    BY <1>4 DEF Schedule
  <2>2. PICK S \in SUBSET JobsIn(k.run, Scheduling[k.state].pending) :
          SetJobs(S, Scheduling[k.state].busy)
    BY <1>4, Zenon DEF Schedule
  <2>3. KeepsJob(e)
    BY <2>1, <2>2, SchedulingFacts
  <2> QED  BY <1>4, <2>3 DEF Schedule
<1>5. CASE CreateDumps(k)
  BY <1>5 DEF CreateDumps
<1>6. CASE Report(k)
  BY <1>6 DEF Report, TypeOK
<1>7. CASE CleanUp(k)
  BY <1>7 DEF CleanUp, Clear, DeleteCruft, DeleteEntries, Cruft, Delete, Of, tables
<1> QED
  BY <1>1, <1>2, <1>3, <1>4, <1>5, <1>6, <1>7
     DEF KidStep, Start, Count, Complete, Abort, Fail, Lose, tables

\* A step of the server, a job or an operator keeps it as long as the run is at
\* work.
LEMMA OtherKeeps ==
  ASSUME ReportInv, admin = 0, [Next]_vars, NEW e \in Entry, AtWork(run[e[1]]),
         \A k \in kids : KidStep(k) => k.run # e[1]
  PROVE  Keeps(e)
<1> USE SetJobsFacts
<1>1. TypeOK /\ e[1] \in Brun /\ cleaning[e[1]] = "no"
  BY ReportFacts
<1>2. ASSUME NEW b \in Brun, Clean(b) PROVE Keeps(e)
  <2>1. CASE cleaning[b] = "no"
    BY <1>2, <2>1 DEF Clean
  <2>2. CASE b # e[1]
    BY <1>2, <2>2, SameKeeps
       DEF Clean, Clear, DeleteCruft, DeleteEntries, Cruft, Delete, GiveUpCleaning,
           Of, tables, Keeps, KeepsEntry, KeepsJob, KeepsReport
  <2> QED  BY <1>1, <2>1, <2>2
<1>3. CASE ServerStep
  <2>1. CASE Take \/ Fork \/ FindCleanable \/ CleanDone
    <3>1. UNCHANGED tables
      BY <2>1, Zenon DEF Take, Fork, FindCleanable, CleanDone
    <3> QED  BY <3>1, SameKeeps DEF tables
  <2>2. CASE EndJobs
    BY <2>2 DEF EndJobs, Keeps, KeepsEntry, KeepsJob, KeepsReport
  <2> QED  BY <1>2, <1>3, <2>1, <2>2 DEF ServerStep
<1>4. ASSUME NEW k \in kids, KidStep(k) PROVE Keeps(e)
  BY <1>1, <1>4, KidKeeps
<1>5. ASSUME NEW k \in kids, Die(k) PROVE Keeps(e)
  BY <1>5, SameKeeps DEF Die, tables
<1>6. ASSUME NEW d \in Entry, JobStep(d) PROVE Keeps(e)
  BY <1>6 DEF JobStep, EndClone, EndDump, Keeps, KeepsEntry, KeepsJob, KeepsReport
<1>7. ASSUME NEW b \in Brun, Create(b) \/ Kill(b) \/ Retry(b) PROVE Keeps(e)
  BY <1>7, SameKeeps DEF Create, Kill, Retry, Command, tables
<1>8. CASE UNCHANGED vars \/ \E b \in Brun : GrowOld(b)
  BY <1>8, SameKeeps DEF vars, GrowOld, tables
<1> QED  BY <1>3, <1>4, <1>5, <1>6, <1>7, <1>8 DEF Next

\* The child that takes its run past a stage does nothing else.
LEMMA EndTables ==
  ASSUME OrderInv, [Next]_vars, admin = 0, NEW b \in Brun, NEW c,
         c \in {"VLENTRY_WORK", "BRUN_CLCREATE_WORK", "BRUN_REPORT_WORK"},
         run[b].state = c, EndOf(c, run'[b].state)
  PROVE  \E k \in kids : /\ k.run = b /\ k.mine /\ k.state = c /\ k.at = "finish"
                         /\ UNCHANGED tables
<1>1. /\ run'[b] # run[b]
      /\ run'[b].state \in {"VLENTRY_DONE", "BRUN_CLCREATE_DONE", "BRUN_REPORT_DONE"}
      /\ TypeOK /\ CopyInv /\ run[b] \in Row
  BY OrderFacts DEF EndOf
<1>2. PICK k \in kids : KidStep(k)
  <2>1. ~ UNCHANGED run
    BY <1>1
  <2>2. ~ ServerStep
    <3>1. ASSUME NEW S, NEW W, Passes(S, W) PROVE FALSE
      BY <1>1, <3>1 DEF Passes, PassMoves, Takes, Forks
    <3>2. ASSUME NEW d \in Brun, Delete(d) PROVE FALSE
      BY <1>1, <3>2 DEF Delete, TypeOK
    <3> QED  BY <1>1, <2>1, <3>1, <3>2, ServerMoves
  <2>3. ASSUME NEW d \in Brun, Create(d) \/ Kill(d) \/ Retry(d) PROVE FALSE
    <3>1. CASE Create(d)
      BY <1>1, <3>1 DEF Create, NewRun, TypeOK
    <3>2. CASE Kill(d) \/ Retry(d)
      BY <1>1, <3>2, OperatorFacts DEF OperatorMoves
    <3> QED  BY <2>3, <3>1, <3>2
  <2> QED  BY <2>1, <2>2, <2>3 DEF Next, vars, Die, JobStep, GrowOld
<1>3. PICK new : Writes(k, new)
  <2>1. ~ Quiet(k)
    BY <1>1 DEF Quiet
  <2>2. ~ Drops(k)
    BY <1>1 DEF Drops, Delete, TypeOK
  <2> QED  BY <1>1, <1>2, <2>1, <2>2, KidMoves
<1>4. /\ k.run = b /\ k.mine /\ k.state = c /\ k.run \in Brun
  <2>1. k.mine /\ k.run = b /\ k.run \in Brun
    BY <1>1, <1>3, CopyFacts DEF Writes, TypeOK
  <2> QED  BY <1>1, <2>1, CopyFacts DEF Matches
<1>5. run' # run
  BY <1>1
<1>6. ~ Schedule(k)
  BY <1>4, SchedulingFacts DEF Schedule
<1>7. CASE Complete(k)
  BY <1>4, <1>7 DEF Complete
<1>8. CASE Fail(k)
  <2>1. run' = [run EXCEPT ![k.run] = Errored(k)]
    BY <1>5, <1>8 DEF Fail, FinishOrExit, Finish
  <2>2. run'[b].state \in {"FAILED", "ERROR"}
    BY <1>1, <1>4, <2>1 DEF Errored, TypeOK, At, Row
  <2> QED  BY <1>1, <2>2
<1>9. ~ CleanUp(k)
  BY <1>4 DEF CleanUp
<1> QED
  BY <1>2, <1>5, <1>6, <1>7, <1>8, <1>9
     DEF KidStep, Start, ScanEntries, ClearClones, CreateClones, Count, CreateDumps,
         Report, Abort, Lose

LEMMA NextCovered ==
  ASSUME ReportInv, [Next]_vars, admin' = 0, admin = 0, NEW e \in Entry
  PROVE  Covered(e)'
<1> DEFINE b == e[1]
<1>1. /\ b \in Brun /\ e \in Of(b, Entry) /\ Covered(e) /\ TypeOK /\ OrderInv
  BY ReportFacts DEF Of
<1>2. ASSUME NEW X, NEW c, Needs(X, c), Within(run'[b], X), ~ Within(run[b], X),
             c \in {"VLENTRY_WORK", "BRUN_CLCREATE_WORK", "BRUN_REPORT_WORK"}
      PROVE  \E k \in kids : /\ k.run = b /\ k.mine /\ k.state = c /\ k.at = "finish"
                             /\ UNCHANGED tables
  <2>1. run[b].state = c /\ EndOf(c, run'[b].state)
    BY <1>1, <1>2, RunWithin
  <2> QED  BY <1>1, <1>2, <2>1, EndTables
<1>3. ASSUME NEW k \in kids, k.run = b, ~ k.mine, NEW X, NEW c, Needs(X, c)
      PROVE  ~ Within(run[b], X)
  BY <1>3, ReportFacts DEF Needs, Within, RecoverStates
<1>4. ASSUME NEW k \in kids, k.run = b, NEW X, NEW c, Needs(X, c),
             Within(run[b], X)
      PROVE  k.state \in X \/ k.state = "BRUN_RECOVER_WORK"
  <2>1. run[b].state = k.state /\ k.state \in WorkStates \cup {"BRUN_RECOVER_WORK"}
    BY <1>3, <1>4, ReportFacts, CopyFacts
  <2> QED  BY <1>4, <2>1 DEF Within, RecoverStates, WorkStates
<1>5. ASSUME Within(run'[b], ScannedStates) PROVE e \in entries'
  <2>1. CASE Within(run[b], ScannedStates)
    <3>1. e \in entries /\ AtWork(run[b])
      BY <1>1, <2>1, WithinFacts DEF Covered
    <3>2. ASSUME NEW k \in kids, KidStep(k), k.run = b PROVE KeepsEntry(e)
      <4>1. k.state # "BRUN_CLEANUP_WORK"
        BY <1>4, <2>1, <3>2, AllNeeds DEF ScannedStates
      <4> QED  BY <1>1, <3>2, <4>1, KidKeeps
    <3> QED  BY <3>1, <3>2, OtherKeeps DEF Keeps, KeepsEntry
  <2>2. CASE ~ Within(run[b], ScannedStates)
    <3>1. PICK k \in kids : /\ k.run = b /\ k.mine /\ k.state = "VLENTRY_WORK"
                            /\ k.at = "finish" /\ UNCHANGED tables
      BY <1>2, <1>5, <2>2, AllNeeds
    <3> QED  BY <1>1, <3>1, ReportFacts DEF HasCovered, tables
  <2> QED  BY <2>1, <2>2
<1>6. ASSUME Within(run'[b], CreatedStates) PROVE job'[e] # "none"
  <2>1. CASE Within(run[b], CreatedStates)
    <3>1. job[e] # "none" /\ AtWork(run[b])
      BY <1>1, <2>1, WithinFacts DEF Covered
    <3>2. ASSUME NEW k \in kids, KidStep(k), k.run = b PROVE KeepsJob(e)
      <4>1. k.state \notin {"BRUN_CLEANUP_WORK", "BRUN_CLCREATE_WORK"}
        BY <1>4, <2>1, <3>2, AllNeeds DEF CreatedStates
      <4> QED  BY <1>1, <3>2, <4>1, KidKeeps
    <3> QED  BY <3>1, <3>2, OtherKeeps DEF Keeps, KeepsJob
  <2>2. CASE ~ Within(run[b], CreatedStates)
    <3>1. PICK k \in kids : /\ k.run = b /\ k.mine /\ k.state = "BRUN_CLCREATE_WORK"
                            /\ k.at = "finish" /\ UNCHANGED tables
      BY <1>2, <1>6, <2>2, AllNeeds
    <3> QED  BY <1>1, <3>1, ReportFacts DEF HasCovered, tables
  <2> QED  BY <2>1, <2>2
<1>7. ASSUME Within(run'[b], ReportedStates) PROVE report'[e] # "absent"
  <2>1. CASE Within(run[b], ReportedStates)
    <3>1. report[e] # "absent"
      BY <1>1, <2>1 DEF Covered
    <3>2. ASSUME NEW k \in kids, KidStep(k), k.run = b PROVE KeepsReport(e)
      <4>1. k.state # "BRUN_REPORT_WORK"
        BY <1>4, <2>1, <3>2, AllNeeds DEF ReportedStates
      <4> QED  BY <1>1, <3>2, <4>1, KidKeeps
    <3>3. ASSUME NEW k \in kids, KidStep(k), k.run # b PROVE KeepsReport(e)
      BY <1>1, <3>3, KidKeeps DEF Keeps
    <3>4. ASSUME ~ \E k \in kids : KidStep(k) PROVE UNCHANGED report
      <4>1. CASE ServerStep
        <5>1. CASE Take \/ Fork \/ FindCleanable \/ CleanDone \/ EndJobs
          BY <5>1, Zenon DEF Take, Fork, FindCleanable, CleanDone, EndJobs, tables
        <5>2. ASSUME NEW d \in Brun, Clean(d) PROVE UNCHANGED report
          BY <5>2 DEF Clean, Clear, DeleteCruft, DeleteEntries, Delete, GiveUpCleaning,
                      tables
        <5> QED  BY <4>1, <5>1, <5>2 DEF ServerStep
      <4>2. ASSUME NEW d \in Brun, Create(d) \/ Kill(d) \/ Retry(d)
            PROVE  UNCHANGED report
        BY <4>2 DEF Create, Kill, Retry, Command, tables
      <4> QED  BY <3>4, <4>1, <4>2 DEF Next, Die, JobStep, GrowOld, tables, vars
    <3> QED  BY <3>1, <3>2, <3>3, <3>4 DEF KeepsReport
  <2>2. CASE ~ Within(run[b], ReportedStates)
    <3>1. PICK k \in kids : /\ k.run = b /\ k.mine /\ k.state = "BRUN_REPORT_WORK"
                            /\ k.at = "finish" /\ UNCHANGED tables
      BY <1>2, <1>7, <2>2, AllNeeds
    <3> QED  BY <1>1, <3>1, ReportFacts DEF HasCovered, tables
  <2> QED  BY <2>1, <2>2
<1> QED  BY <1>5, <1>6, <1>7 DEF Covered, Within

\* What a child did that is about to end its stage is there as long as the step
\* keeps it.
LEMMA CoveredKept ==
  ASSUME ReportInv, admin = 0, NEW l \in kids, NEW m,
         m.run = l.run, m.state = l.state, m.mine => l.mine /\ m.at = l.at,
         m.mine => \A e \in Of(l.run, Entry) : Keeps(e)
  PROVE  HasCovered(m)'
<1>1. SUFFICES ASSUME m.mine, m.at = "finish", NEW e \in Of(m.run, Entry)
               PROVE  /\ m.state = "VLENTRY_WORK" => e \in entries'
                      /\ m.state = "BRUN_CLCREATE_WORK" => job'[e] # "none"
                      /\ m.state = "BRUN_REPORT_WORK" => report'[e] # "absent"
  BY DEF HasCovered, Of, Entry
<1>2. l.mine /\ l.at = "finish" /\ e \in Of(l.run, Entry) /\ Keeps(e)
  BY <1>1
<1>3. HasCovered(l)
  BY ReportFacts
<1> QED  BY <1>2, <1>3 DEF HasCovered, Keeps, KeepsEntry, KeepsJob, KeepsReport

\* A child that goes on to its last update has done the work of its stage.
LEMMA PreparedCovered ==
  ASSUME ReportInv, admin = 0, NEW k \in kids, Prepares(k), k.mine,
         NEW m, m.run = k.run, m.state = k.state
  PROVE  HasCovered(m)'
<1>1. SUFFICES ASSUME NEW e \in Of(k.run, Entry)
               PROVE  /\ m.state = "VLENTRY_WORK" => e \in entries'
                      /\ m.state = "BRUN_CLCREATE_WORK" => job'[e] # "none"
                      /\ m.state = "BRUN_REPORT_WORK" => report'[e] # "absent"
  BY DEF HasCovered, Of, Entry
<1>2. /\ e \in Entry /\ e[1] = k.run /\ Covered(e)
      /\ run[e[1]].state = k.state
  BY ReportFacts DEF Of
<1>3. ASSUME k.state = "VLENTRY_WORK" PROVE e \in entries'
  BY <1>1, <1>3 DEF Prepares
<1>4. ASSUME k.state = "BRUN_CLCREATE_WORK" PROVE job'[e] # "none"
  <2>1. e \in Of(k.run, entries)
    BY <1>2, <1>4 DEF Covered, Within, ScannedStates, Of
  <2>2. SetJobs(Of(k.run, entries), "pending")
    BY <1>4 DEF Prepares
  <2> QED  BY <1>2, <2>1, <2>2, SetJobsFacts
<1>5. ASSUME k.state = "BRUN_REPORT_WORK" PROVE report'[e] # "absent"
  <2>1. job[e] # "none"
    BY <1>2, <1>5 DEF Covered, Within, CreatedStates
  <2>2. Report(k)
    BY <1>5 DEF Prepares
  <2> QED  BY <1>2, <2>1, <2>2 DEF Report
<1> QED  BY <1>3, <1>4, <1>5

LEMMA KidCovered ==
  ASSUME ReportInv, admin = 0, NEW k \in kids, KidStep(k), NEW m \in kids'
  PROVE  HasCovered(m)'
<1>1. /\ OneKid /\ kids \subseteq Kid /\ k \in Kid /\ TypeOK /\ CopyInv
      /\ Entry \subseteq Brun \X Volume
  BY ReportFacts, CopyFacts DEF TypeOK, Entry
\* Another child is that of another run.
<1>2. ASSUME NEW l \in kids, l # k, m.run = l.run, m.state = l.state,
             m.mine => l.mine /\ m.at = l.at
      PROVE  HasCovered(m)'
  <2>1. k.run # l.run
    BY <1>1, <1>2 DEF OneKid
  <2>2. \A e \in Of(l.run, Entry) : Keeps(e)
    BY <1>1, <2>1, KidKeeps DEF Of
  <2> QED  BY <1>2, <2>2, CoveredKept
<1>3. CASE Quiet(k)
  <2>1. CASE kids' = kids \ {k}
    BY <1>2, <2>1
  <2>2. ASSUME NEW at, Go(k, at), at = "finish" => Prepares(k) PROVE HasCovered(m)'
    <3> DEFINE n == [k EXCEPT !.at = at]
    <3>1. /\ n.run = k.run /\ n.state = k.state /\ n.mine = k.mine /\ n.at = at
          /\ kids' = (kids \ {k}) \cup {n}
      BY <1>1, <2>2 DEF Go, Kid
    <3> HIDE DEF n
    <3>2. CASE m \in kids \ {k}
      BY <1>2, <3>2
    <3>3. CASE m = n /\ at = "finish" /\ n.mine
      BY <2>2, <3>1, <3>3, PreparedCovered
    <3>4. CASE m = n /\ ~ (at = "finish" /\ n.mine)
      BY <3>1, <3>4 DEF HasCovered
    <3> QED  BY <3>1, <3>2, <3>3, <3>4
  <2> QED  BY <1>3, <2>1, <2>2 DEF Quiet
<1>4. ASSUME NEW new, Writes(k, new) PROVE HasCovered(m)'
  <2>1. PICK l \in kids \ {k} :
          /\ m = IF l.run \in {k.run} THEN [l EXCEPT !.mine = FALSE] ELSE l
          /\ m.run = l.run /\ m.state = l.state /\ m.at = l.at
          /\ m.last = l.last /\ m.errors = l.errors
          /\ m.mine => l.mine /\ l.run \notin {k.run}
    BY <1>1, <1>4, OutdateFacts DEF Writes
  <2> QED  BY <1>2, <2>1
<1>5. CASE Drops(k)
  <2> DEFINE n == [k EXCEPT !.at = "finish"]
             K == (kids \ {k}) \cup {n}
  <2>1. n.run = k.run /\ n \in Kid /\ K \subseteq Kid
    BY <1>1 DEF Kid
  <2>2. m \in Outdate({k.run}, K)
    BY <1>5 DEF Drops
  <2> HIDE DEF n
  <2>3. PICK l \in K :
          /\ m = IF l.run \in {k.run} THEN [l EXCEPT !.mine = FALSE] ELSE l
          /\ m.run = l.run /\ m.state = l.state /\ m.at = l.at
          /\ m.last = l.last /\ m.errors = l.errors
          /\ m.mine => l.mine /\ l.run \notin {k.run}
    <3> HIDE DEF K
    <3> QED  BY <2>1, <2>2, OutdateFacts
  <2>4. CASE l = n
    BY <2>1, <2>3, <2>4 DEF HasCovered
  <2>5. CASE l \in kids \ {k}
    BY <1>2, <2>3, <2>5
  <2> QED  BY <2>3, <2>4, <2>5
<1> QED  BY <1>1, <1>3, <1>4, <1>5, KidMoves

\* A step that no child takes keeps what the children did.
LEMMA OthersCovered ==
  ASSUME ReportInv, admin = 0, admin' = 0, [Next]_vars,
         ~ \E k \in kids : KidStep(k), NEW m \in kids'
  PROVE  HasCovered(m)'
<1>1. kids \subseteq Kid /\ TypeOK /\ CopyInv /\ Entry \subseteq Brun \X Volume
  BY ReportFacts, CopyFacts DEF TypeOK, Entry
<1>2. ASSUME NEW l \in kids, m.run = l.run, m.state = l.state,
             m.mine => l.mine /\ m.at = l.at
      PROVE  HasCovered(m)'
  <2>1. ASSUME m.mine, NEW e \in Of(l.run, Entry) PROVE Keeps(e)
    <3>1. e \in Entry /\ e[1] = l.run /\ l.mine
      BY <1>2, <2>1 DEF Of
    <3>2. AtWork(run[l.run])
      <4>1. run[l.run].state \in WorkStates \cup {"BRUN_RECOVER_WORK"}
        BY <1>1, <3>1, CopyFacts DEF Matches
      <4> QED  BY <4>1 DEF AtWork, EndStates, NoRow, WorkStates
    <3> QED  BY <3>1, <3>2, OtherKeeps
  <2> QED  BY <1>2, <2>1, CoveredKept
<1>3. CASE m \in kids
  BY <1>2, <1>3
<1>4. ASSUME NEW S, m \in Outdate(S, kids) PROVE HasCovered(m)'
  BY <1>1, <1>2, <1>4, OutdateFacts
<1>5. ASSUME NEW W, m \in ForkedFor(W) PROVE HasCovered(m)'
  <2>1. m.at = FirstCall(m.state)
    BY <1>5 DEF ForkedFor
  <2>2. m.at = "finish" =>
          m.state \in {"INIT_WORK", "VLADDR_WORK", "BRUN_RECOVER_WORK"}
    BY <2>1 DEF FirstCall
  <2> QED  BY <2>2 DEF HasCovered
<1>6. CASE ServerStep
  <2>1. ASSUME NEW S, NEW W, Passes(S, W) PROVE HasCovered(m)'
    BY <1>4, <1>5, <2>1 DEF Passes
  <2> QED  BY <1>1, <1>3, <1>4, <1>6, <2>1, ServerMoves
<1>7. ASSUME NEW b \in Brun, Kill(b) \/ Retry(b) PROVE FALSE
  BY <1>1, <1>7, OperatorFacts
<1> QED  BY <1>3, <1>6, <1>7 DEF Next, Die, JobStep, Create, GrowOld, vars

\* The server cleans up after runs that ended only: it begins when no run is
\* active, and without operator commands a run that ended stays so.
LEMMA NextCleaning ==
  ASSUME ReportInv, admin = 0, admin' = 0, [Next]_vars, NEW b \in Brun,
         cleaning'[b] # "no"
  PROVE  run'[b].state \in EndStates \cup {"GONE"}
<1>1. TypeOK /\ CopyInv
  BY ReportFacts
<1>2. CASE FindCleanable
  BY <1>2 DEF FindCleanable, Recent, Active, Exists
<1>3. ASSUME ~ FindCleanable PROVE cleaning[b] # "no"
  <2>1. ASSUME NEW c \in Brun, Clean(c) PROVE cleaning[b] # "no"
    BY <1>1, <2>1 DEF Clean, GiveUpCleaning, TypeOK
  <2>2. CASE ServerStep
    <3>1. CASE Take \/ Fork \/ CleanDone \/ EndJobs
      <4>1. UNCHANGED cleaning
        BY <3>1, Zenon DEF Take, Fork, CleanDone, EndJobs
      <4> QED  BY <4>1
    <3> QED  BY <1>3, <2>1, <2>2, <3>1 DEF ServerStep
  <2>3. ASSUME NEW c \in Brun, Create(c) \/ Kill(c) \/ Retry(c)
        PROVE  UNCHANGED cleaning
    BY <2>3 DEF Create, Kill, Retry, Command
  <2> QED  BY <2>2, <2>3 DEF Next, KidStep, Die, JobStep, GrowOld, vars
<1>4. CASE ~ FindCleanable
  <2>1. run[b].state \in EndStates \cup {"GONE"}
    BY <1>3, <1>4 DEF ReportInv
  <2>2. CASE run[b].state \in EndStates
    BY <1>1, <2>2, EndsKept
  <2>3. CASE run[b].state = "GONE"
    <3>1. RunMoves(b)
      BY <1>1, NextMoves
    <3>2. ~ ChildMoves(run[b], run'[b]) /\ ~ PassMoves(run[b], run'[b])
      BY <2>3 DEF ChildMoves, WorkStates, PassMoves, Takes, Forks
    <3> QED  BY <2>3, <3>1, <3>2 DEF RunMoves
  <2> QED  BY <2>1, <2>2, <2>3
<1> QED  BY <1>2, <1>4

LEMMA NextReport ==
  ASSUME ReportInv, [Next]_vars
  PROVE  ReportInv'
<1>1. OrderInv' /\ OrderInv
  BY NextOrder DEF ReportInv
<1>2. ASSUME admin' = 0
      PROVE  /\ \A b \in Brun :
                  cleaning'[b] # "no" => run'[b].state \in EndStates \cup {"GONE"}
             /\ \A e \in Entry : Covered(e)'
             /\ \A k \in kids' : HasCovered(k)'
  <2>1. admin = 0
    BY <1>1, <1>2, OrderFacts, AdminMoves
  <2>2. ASSUME NEW m \in kids' PROVE HasCovered(m)'
    BY <1>2, <2>1, KidCovered, OthersCovered
  <2> QED  BY <1>2, <2>1, <2>2, NextCleaning, NextCovered
<1> QED  BY <1>1, <1>2 DEF ReportInv, Entry

LEMMA InitReport == Init => ReportInv
<1> SUFFICES ASSUME Init PROVE ReportInv
  OBVIOUS
<1>1. ASSUME NEW e \in Entry PROVE Covered(e)
  <2>1. run[e[1]].state = "UNBORN"
    BY DEF Init, Entry
  <2> QED  BY <2>1 DEF Covered, Within, ScannedStates, CreatedStates,
                       ReportedStates, RecoverStates
<1> QED  BY <1>1, InitOrder DEF Init, ReportInv

\* A run that no operator touched is DONE only once its report names every
\* volume that was found for it, for any number of runs, volumes, failures and
\* retries.
THEOREM EveryoneIsTold == Spec => []DoneIsReported
<1>1. ReportInv => DoneIsReported
  BY DEF ReportInv, DoneIsReported, Covered, Within, ReportedStates
<1> QED  BY <1>1, InitReport, NextReport, PTL DEF Spec

-----------------------------------------------------------------------------
(***************************************************************************)
(* Errors are counted and bounded.  do_recover looks at the limit after an *)
(* error: the first one is always allowed.                                 *)
(***************************************************************************)

TryLimit == IF ErrorLimit = 0 THEN 1 ELSE ErrorLimit

\* A run in one of these is in no stage.
Stopped == RecoverStates \cup {"FAILED", "GONE"}

\* A run that is in a stage has an error left.
TriesOk(r) ==
  /\ r.errors <= TryLimit
  /\ r.state \notin Stopped => r.errors < TryLimit

TriesInv ==
  /\ CopyInv
  /\ \A b \in Brun : TriesOk(run[b])

\* No run meets more errors than that, unless an operator retries it.
TriesBounded == \A b \in Brun : run[b].errors <= TryLimit

\* An update of the row r to n that counts an error or is none.
Counted(r, n) ==
  \/ /\ n.errors = r.errors
     /\ n.state # "ERROR"
     /\ n.state \in Stopped \/ r.state \notin Stopped \/ r.errors < ErrorLimit
  \/ /\ n.errors = r.errors + 1
     /\ n.state = "ERROR"
     /\ r.state \notin Stopped

\* What becomes of a row: the errors of a run are forgotten when it is made or
\* retried.
CountStep(b) ==
  \/ run'[b] = run[b]
  \/ Counted(run[b], run'[b])
  \/ /\ run'[b].errors = 0
     /\ run'[b].state # "ERROR"
     /\ run[b].state = "UNBORN" \/ admin' # admin

\* An update that only moves the run on.
LEMMA AtCounts ==
  ASSUME NEW r \in Row, NEW s, s # "ERROR", s \in Stopped \/ r.state \notin Stopped
  PROVE  Counted(r, At(r, s))
<1>1. At(r, s).state = s /\ At(r, s).errors = r.errors
  BY DEF At, Row
<1> QED  BY <1>1 DEF Counted

\* Where a stage leads: it is over, or begins again.
LEMMA StagesGoOn ==
  /\ \A s \in WorkStates : s \notin Stopped /\ Ends[s] # "ERROR"
  /\ \A s \in DOMAIN RetryState : RetryState[s] \notin Stopped
  /\ \A s \in StayStates : s \notin Stopped
  /\ \A s \in DOMAIN Scheduling : Scheduling[s].again # "ERROR"
<1>1. \A s \in WorkStates : s \notin Stopped /\ Ends[s] # "ERROR"
  BY EndsFacts DEF EndOf, WorkStates, Stopped, RecoverStates
<1>2. \A s \in DOMAIN RetryState : RetryState[s] \notin Stopped
  BY RetryFacts DEF Forks, WorkStates, Stopped, RecoverStates
<1>3. \A s \in StayStates : s \notin Stopped
  BY DEF StayStates, Stopped, RecoverStates
<1>4. \A s \in DOMAIN Scheduling : Scheduling[s].again # "ERROR"
  BY SchedulingFacts
<1> QED  BY <1>1, <1>2, <1>3, <1>4

\* What the last updates of a child count.
LEMMA OutcomesCount ==
  ASSUME CopyInv, NEW k \in kids, k.mine
  PROVE  /\ k.state \in WorkStates => Counted(run[k.run], At(run[k.run], Ends[k.state]))
         /\ k.state = "BRUN_RECOVER_WORK" => Counted(run[k.run], Recovered(k))
         /\ Counted(run[k.run], Errored(k))
         /\ k.state \in DOMAIN Scheduling =>
              Counted(run[k.run], At(run[k.run], Scheduling[k.state].again))
<1> DEFINE r == run[k.run]
<1>1. /\ r \in Row /\ r.state = k.state /\ r.last = k.last /\ r.errors = k.errors
      /\ k.state \in WorkStates \cup {"BRUN_RECOVER_WORK"} /\ k.errors \in Nat
      /\ ErrorLimit \in Nat
  BY CopyFacts, BackupRunAssumption DEF Matches
<1>2. ASSUME k.state \in WorkStates PROVE Counted(r, At(r, Ends[k.state]))
  BY <1>1, <1>2, StagesGoOn, AtCounts
<1>3. ASSUME k.state = "BRUN_RECOVER_WORK" PROVE Counted(r, Recovered(k))
  <2>1. CASE GiveUp(k)
    BY <1>1, <2>1, AtCounts DEF Recovered, Stopped
  <2>2. CASE ~ GiveUp(k)
    <3>1. k.errors < ErrorLimit /\ k.last \in DOMAIN RetryState \cup StayStates
      BY <1>1, <2>2 DEF GiveUp
    <3> DEFINE s == IF k.last \in StayStates THEN k.last ELSE RetryState[k.last]
               n == [r EXCEPT !.state = s, !.last = NoState]
    <3>2. n.state = s /\ n.errors = r.errors
      BY <1>1 DEF Row
    <3>3. s # "ERROR"
      BY <3>1, StagesGoOn DEF Stopped, RecoverStates
    <3>4. Recovered(k) = n
      BY <2>2 DEF Recovered
    <3> QED  BY <1>1, <3>1, <3>2, <3>3, <3>4 DEF Counted
  <2> QED  BY <2>1, <2>2
<1>4. Counted(r, Errored(k))
  <2>1. CASE k.state = "BRUN_RECOVER_WORK"
    BY <1>1, <2>1, AtCounts DEF Errored, RecoverStates, Stopped
  <2>2. CASE k.state \in WorkStates
    <3>1. Errored(k) = [state |-> "ERROR", last |-> k.state, errors |-> k.errors + 1]
      BY <2>2, StagesGoOn DEF Errored, Stopped
    <3> QED  BY <1>1, <2>2, <3>1, StagesGoOn DEF Counted
  <2> QED  BY <1>1, <2>1, <2>2
<1>5. ASSUME k.state \in DOMAIN Scheduling
      PROVE  Counted(r, At(r, Scheduling[k.state].again))
  <2>1. k.state \in WorkStates
    BY <1>5, SchedulingFacts DEF WorkStates
  <2> QED  BY <1>1, <1>5, <2>1, StagesGoOn, AtCounts
<1> QED  BY <1>2, <1>3, <1>4, <1>5

\* A child leaves the rows alone, makes one of those updates, or deletes its run.
Updates(k) ==
  \/ run' = run
  \/ \E n : run' = [run EXCEPT ![k.run] = n] /\ Counted(run[k.run], n)
  \/ Delete(k.run)

LEMMA FinishUpdates ==
  ASSUME NEW k, NEW n, FinishOrExit(k, n), k.mine => Counted(run[k.run], n)
  PROVE  Updates(k)
  BY DEF FinishOrExit, Finish, Finds, Updates

LEMMA KidUpdates ==
  ASSUME CopyInv, NEW k \in kids, KidStep(k)
  PROVE  Updates(k)
<1>1. CASE \/ Start(k) \/ ScanEntries(k) \/ ClearClones(k) \/ CreateClones(k)
           \/ Count(k) \/ CreateDumps(k) \/ Report(k) \/ Abort(k) \/ Lose(k)
  BY <1>1 DEF Start, ScanEntries, ClearClones, CreateClones, Count, CreateDumps, Report,
              Abort, Lose, Updates
<1>2. CASE Schedule(k)
  <2> DEFINE s == Scheduling[k.state]
             New(S) == At(run[k.run], IF NothingLeft(k, S) THEN Ends[k.state] ELSE s.again)
  <2>1. k.state \in DOMAIN Scheduling
    BY <1>2 DEF Schedule
  <2>2. PICK S \in SUBSET JobsIn(k.run, s.pending) :
          \/ FinishOrExit(k, New(S))
          \/ Go(k, "error") /\ UNCHANGED run
    BY <1>2, Zenon DEF Schedule
  <2>3. k.mine => Counted(run[k.run], New(S))
    BY <2>1, OutcomesCount, SchedulingFacts DEF WorkStates
  <2> HIDE DEF New
  <2> QED  BY <2>2, <2>3, FinishUpdates DEF Updates
<1>3. CASE CleanUp(k)
  BY <1>3, Zenon DEF CleanUp, Updates
<1>4. CASE Complete(k)
  <2> DEFINE new == IF k.state = "BRUN_RECOVER_WORK" THEN Recovered(k)
                    ELSE At(run[k.run], Ends[k.state])
  <2>1. k.mine => Counted(run[k.run], new)
    BY OutcomesCount, CopyFacts
  <2>2. FinishOrExit(k, new)
    BY <1>4 DEF Complete
  <2> HIDE DEF new
  <2> QED  BY <2>1, <2>2, FinishUpdates
<1>5. CASE Fail(k)
  BY <1>5, OutcomesCount, FinishUpdates DEF Fail
<1> QED  BY <1>1, <1>2, <1>3, <1>4, <1>5 DEF KidStep

LEMMA DeleteCounts ==
  ASSUME TypeOK, NEW c \in Brun, Delete(c), NEW b \in Brun
  PROVE  CountStep(b)
<1>1. run' = [run EXCEPT ![c].state = "GONE"] /\ run[b] \in Row /\ run[c] \in Row
  BY TypeFacts DEF Delete
<1>2. CASE b = c
  <2>1. run'[b].state = "GONE" /\ run'[b].errors = run[b].errors
    BY <1>1, <1>2 DEF TypeOK, Row
  <2> QED  BY <2>1 DEF CountStep, Counted, Stopped
<1>3. CASE b # c
  BY <1>1, <1>3 DEF TypeOK, CountStep
<1> QED  BY <1>2, <1>3

\* The table is complete.
LEMMA NextCounts ==
  ASSUME CopyInv, [Next]_vars, NEW b \in Brun
  PROVE  CountStep(b)
<1>0. TypeOK /\ run[b] \in Row /\ admin \in Nat
  BY CopyFacts, TypeFacts, BackupRunAssumption DEF TypeOK
<1>1. ASSUME NEW k \in kids, KidStep(k) PROVE CountStep(b)
  <2>1. Updates(k) /\ k.run \in Brun
    BY <1>1, KidUpdates, CopyFacts
  <2>2. CASE Delete(k.run)
    BY <1>0, <2>1, <2>2, DeleteCounts
  <2>3. ASSUME NEW n, run' = [run EXCEPT ![k.run] = n], Counted(run[k.run], n)
        PROVE  CountStep(b)
    <3>1. CASE b = k.run
      <4>1. run'[b] = n
        BY <1>0, <2>3, <3>1 DEF TypeOK
      <4> QED  BY <2>3, <3>1, <4>1 DEF CountStep
    <3>2. CASE b # k.run
      BY <1>0, <2>3, <3>2 DEF TypeOK, CountStep
    <3> QED  BY <3>1, <3>2
  <2>4. CASE run' = run
    BY <2>4 DEF CountStep
  <2> QED  BY <2>1, <2>2, <2>3, <2>4 DEF Updates
<1>2. CASE ServerStep
  <2>1. CASE \E S, W : Passes(S, W)
    <3>1. PICK S, W : Passes(S, W)
      BY <2>1
    <3>2. CASE b \notin S
      BY <3>1, <3>2 DEF Passes, CountStep
    <3>3. CASE b \in S
      <4>1. PassMoves(run[b], run'[b]) /\ run'[b].errors = run[b].errors
        BY <3>1, <3>3 DEF Passes
      <4>2. /\ run'[b].state # "ERROR"
            /\ run'[b].state \in Stopped \/ run[b].state \notin Stopped
        BY <4>1 DEF PassMoves, Takes, Forks, Stopped, RecoverStates
      <4> QED  BY <4>1, <4>2 DEF CountStep, Counted
    <3> QED  BY <3>2, <3>3
  <2>2. CASE run' = run
    BY <2>2 DEF CountStep
  <2>3. CASE \E c \in Brun : Delete(c)
    BY <1>0, <2>3, DeleteCounts
  <2> QED  BY <1>0, <1>2, <2>1, <2>2, <2>3, ServerMoves
<1>3. ASSUME NEW c \in Brun, Create(c) PROVE CountStep(b)
  BY <1>0, <1>3 DEF Create, NewRun, TypeOK, CountStep
<1>4. ASSUME NEW c \in Brun, Kill(c) PROVE CountStep(b)
  <2> DEFINE l == IF run[c].last = NoState THEN run[c].state ELSE run[c].last
  <2>1. run[c] \in Row /\ run' = [run EXCEPT ![c] = [run[c] EXCEPT !.state = "FAILED",
                                                                   !.last = l]]
    BY <1>0, <1>4, TypeFacts DEF Kill, Command
  <2>2. /\ b # c => run'[b] = run[b]
        /\ b = c => run'[b].state = "FAILED" /\ run'[b].errors = run[b].errors
    BY <1>0, <2>1 DEF TypeOK, Row
  <2> QED  BY <2>2 DEF CountStep, Counted, Stopped
<1>5. ASSUME NEW c \in Brun, Retry(c) PROVE CountStep(b)
  <2>1. /\ run[c] \in Row /\ admin' = admin + 1
        /\ run' = [run EXCEPT ![c] = [run[c] EXCEPT !.state = "BRUN_RECOVER_START",
                                                    !.errors = 0]]
    BY <1>0, <1>5, TypeFacts DEF Retry, Command
  <2>2. /\ b # c => run'[b] = run[b]
        /\ b = c => run'[b].state = "BRUN_RECOVER_START" /\ run'[b].errors = 0
    BY <1>0, <2>1 DEF TypeOK, Row
  <2> QED  BY <1>0, <2>1, <2>2 DEF CountStep
<1>6. CASE \/ \E k \in kids : Die(k)
           \/ \E e \in Entry : JobStep(e)
           \/ UNCHANGED vars \/ \E c \in Brun : GrowOld(c)
  BY <1>6 DEF Die, JobStep, GrowOld, vars, CountStep
<1> QED  BY <1>1, <1>2, <1>3, <1>4, <1>5, <1>6 DEF Next

LEMMA InitTries ==
  ASSUME Init
  PROVE  TriesInv
<1>1. TryLimit \in Nat \ {0}
  BY BackupRunAssumption DEF TryLimit
<1> QED  BY <1>1, InitCopies DEF Init, TriesInv, TriesOk

LEMMA NextTries ==
  ASSUME TriesInv, [Next]_vars
  PROVE  TriesInv'
<1>0. CopyInv /\ CopyInv'
  BY NextCopies DEF TriesInv
<1>1. ASSUME NEW b \in Brun PROVE TriesOk(run[b])'
  <2> DEFINE r == run[b]
             n == run'[b]
  <2>1. CountStep(b) /\ TriesOk(r) /\ r.errors \in Nat
    BY <1>0, NextCounts, CopyFacts, TypeFacts DEF TriesInv, Row
  <2>2. TryLimit \in Nat \ {0} /\ ErrorLimit \in Nat /\ ErrorLimit <= TryLimit
    BY BackupRunAssumption DEF TryLimit
  <2>3. TriesOk(n)
    <3>1. CASE n = r
      BY <2>1, <3>1
    <3>2. CASE Counted(r, n)
      BY <2>1, <2>2, <3>2 DEF Counted, TriesOk, Stopped, RecoverStates
    <3>3. CASE n.errors = 0
      BY <2>2, <3>3 DEF TriesOk
    <3> QED  BY <2>1, <3>1, <3>2, <3>3 DEF CountStep
  <2> QED  BY <2>3 DEF TriesOk, TryLimit
<1> QED  BY <1>0, <1>1 DEF TriesInv

\* A run meets no more errors than the limit, and a first one: it is given up,
\* whatever fails or dies, unless an operator retries it (BackupRun.error,
\* do_recover).
THEOREM RunsAreGivenUp == Spec => []TriesBounded
<1>1. TriesInv => TriesBounded
  BY DEF TriesInv, TriesOk, TriesBounded
<1> QED  BY <1>1, InitTries, NextTries, PTL DEF Spec

\* What a step does to the errors of each run.
ErrorsCounted ==
  \A b \in Brun :
    /\ run'[b].state = "ERROR" /\ run[b].state # "ERROR" =>
         run'[b].errors = run[b].errors + 1
    /\ run'[b].errors # run[b].errors =>
         \/ run'[b].errors = run[b].errors + 1 /\ run'[b].state = "ERROR"
         \/ /\ run'[b].errors = 0
            /\ run[b].state = "UNBORN" \/ admin' # admin

\* Each error of a run is counted, once, and no error is forgotten but when an
\* operator retries the run.
THEOREM EveryErrorCounts == Spec => [][ErrorsCounted]_vars
<1>1. ASSUME CopyInv, [Next]_vars PROVE [ErrorsCounted]_vars
  BY <1>1, NextCounts DEF CountStep, Counted, ErrorsCounted
<1> QED  BY <1>1, InitCopies, NextCopies, PTL DEF Spec

=============================================================================
