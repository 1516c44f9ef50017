--------------------------- MODULE DumpJob_proof ---------------------------
(***************************************************************************)
(* Theorems about DumpJob, for any set of jobs, runs and servers and any   *)
(* quotas and error limit: types, quotas, slots and ends, and one writer   *)
(* per row.                                                                *)
(***************************************************************************)
EXTENDS DumpJob, FiniteSetTheorems, TLAPS

-----------------------------------------------------------------------------
(***************************************************************************)
(* What the counting of the scheduler is worth, for any jobs, servers and  *)
(* quotas.                                                                 *)
(***************************************************************************)

\* Fewer jobs respect the quotas that more jobs respect.
LEMMA FewerFit ==
  ASSUME NEW S \in SUBSET Job, NEW T \in SUBSET S, WithinQuota(S)
  PROVE  WithinQuota(T)
<1>1. IsFiniteSet(S)
  BY QuotaAssumption, FS_Subset
<1>2. Cardinality(T) <= TotalQuota
  <2>1. Cardinality(T) <= Cardinality(S)
    BY <1>1, FS_Subset
  <2> QED  BY <1>1, <2>1, FS_Subset, FS_CardinalityType, QuotaAssumption
              DEF WithinQuota
<1>3. ASSUME NEW s \in Server
      PROVE  Cardinality(OnServer(T, s)) <= ServerQuota
  <2>1. OnServer(T, s) \in SUBSET OnServer(S, s)
    BY DEF OnServer
  <2>2. IsFiniteSet(OnServer(S, s)) /\ IsFiniteSet(OnServer(T, s))
    BY <1>1, FS_Subset DEF OnServer
  <2>3. Cardinality(OnServer(T, s)) <= Cardinality(OnServer(S, s))
    BY <2>1, <2>2, FS_Subset
  <2> QED  BY <2>2, <2>3, FS_CardinalityType, QuotaAssumption DEF WithinQuota
<1>4. ASSUME NEW p \in Partition
      PROVE  Cardinality(OnPartition(T, p)) <= PartQuota
  <2>1. OnPartition(T, p) \in SUBSET OnPartition(S, p)
    BY DEF OnPartition
  <2>2. IsFiniteSet(OnPartition(S, p)) /\ IsFiniteSet(OnPartition(T, p))
    BY <1>1, FS_Subset DEF OnPartition
  <2>3. Cardinality(OnPartition(T, p)) <= Cardinality(OnPartition(S, p))
    BY <2>1, <2>2, FS_Subset
  <2> QED  BY <2>2, <2>3, FS_CardinalityType, QuotaAssumption DEF WithinQuota
<1> QED  BY <1>2, <1>3, <1>4 DEF WithinQuota

\* get_counts never counts too few jobs: each job weighs at least once, for
\* its own partition.
LEMMA CountedEnough ==
  ASSUME NEW S \in SUBSET Job
  PROVE  /\ IsFiniteSet(S)
         /\ CountedTotal(S) \in Nat
         /\ Cardinality(S) \in Nat
         /\ Cardinality(S) <= CountedTotal(S)
<1> DEFINE Parts == {PartOf[i] : i \in S}
<1> DEFINE Pairs == {x \in S \X Parts :
                       /\ ServerOf[PartOf[x[1]]] = ServerOf[x[2]]
                       /\ GroupRank[PartOf[x[1]]] <= GroupRank[x[2]]}
<1>1. IsFiniteSet(S)
  BY QuotaAssumption, FS_Subset
<1>2. IsFiniteSet(Parts)
  <2>1. Parts \in SUBSET Partition
    BY QuotaAssumption
  <2> QED  BY <2>1, QuotaAssumption, FS_Subset
<1>3. IsFiniteSet(Pairs)
  <2>1. IsFiniteSet(S \X Parts)
    <3> HIDE DEF Parts
    <3> QED  BY <1>1, <1>2, FS_Product
  <2>2. Pairs \in SUBSET (S \X Parts)
    OBVIOUS
  <2> HIDE DEF Parts, Pairs
  <2> QED  BY <2>1, <2>2, FS_Subset
<1>4. Cardinality(S) <= Cardinality(Pairs)
  <2> DEFINE own == [j \in S |-> <<j, PartOf[j]>>]
  <2>1. ASSUME NEW j \in S PROVE <<j, PartOf[j]>> \in Pairs
    <3>1. PartOf[j] \in Parts /\ GroupRank[PartOf[j]] \in Nat
      BY QuotaAssumption
    <3> QED  BY <3>1
  <2>2. own \in [S -> Pairs]
    <3> HIDE DEF Pairs
    <3> QED  BY <2>1
  <2>3. \A i, j \in S : own[i] = own[j] => i = j
    OBVIOUS
  <2>4. own \in Injection(S, Pairs)
    <3> HIDE DEF own, Pairs
    <3> QED  BY <2>2, <2>3 DEF Injection, IsInjective
  <2> HIDE DEF own, Pairs
  <2> QED  BY <1>3, <2>4, FS_Injection
<1>5. CountedTotal(S) = Cardinality(Pairs)
  BY DEF CountedTotal
<1>6. CountedTotal(S) \in Nat
  <2> HIDE DEF Pairs
  <2> QED  BY <1>3, <1>5, FS_CardinalityType
<1> QED  BY <1>1, <1>4, <1>5, <1>6, FS_CardinalityType

\* Two sets together have at most as many members as both.
LEMMA UnionBound ==
  ASSUME NEW S, NEW T, IsFiniteSet(S), IsFiniteSet(T)
  PROVE  /\ Cardinality(S) \in Nat
         /\ Cardinality(T) \in Nat
         /\ Cardinality(S \cup T) \in Nat
         /\ Cardinality(S \cup T) <= Cardinality(S) + Cardinality(T)
<1>1. IsFiniteSet(S \cap T) /\ IsFiniteSet(S \cup T)
  BY FS_Intersection, FS_Union
<1>2. Cardinality(S \cap T) \in Nat
  BY <1>1, FS_CardinalityType
<1>3. Cardinality(S) \in Nat /\ Cardinality(T) \in Nat
  BY FS_CardinalityType
<1>4. Cardinality(S \cup T) \in Nat
  BY <1>1, FS_CardinalityType
<1>5. Cardinality(S \cup T)
        = Cardinality(S) + Cardinality(T) - Cardinality(S \cap T)
  BY FS_Union
<1> QED  BY <1>2, <1>3, <1>4, <1>5

\* Whatever counted jobs are still at it, a batch that fits on top of the count
\* keeps the quotas, if they were kept before.
LEMMA BatchFits ==
  ASSUME NEW seen \in SUBSET Job, NEW S \in SUBSET Job,
         NEW T \in SUBSET seen,
         Fits(seen, S), WithinQuota(T)
  PROVE  WithinQuota(T \cup S)
<1>1. CASE S = {}
  <2>1. T \cup S = T
    BY <1>1
  <2> QED  BY <2>1
<1>2. CASE S # {}
  <2>0. IsFiniteSet(seen) /\ IsFiniteSet(S) /\ IsFiniteSet(T)
    BY QuotaAssumption, FS_Subset
  <2>1. Cardinality(T \cup S) <= TotalQuota
    <3>1. Cardinality(T) <= Cardinality(seen)
      BY <2>0, FS_Subset
    <3>2. Cardinality(seen) <= CountedTotal(seen) /\ CountedTotal(seen) \in Nat
      BY CountedEnough
    <3>3. CountedTotal(seen) + Cardinality(S) <= TotalQuota
      BY <1>2 DEF Fits
    <3>4. /\ Cardinality(T) \in Nat /\ Cardinality(S) \in Nat
          /\ Cardinality(T \cup S) \in Nat
          /\ Cardinality(T \cup S) <= Cardinality(T) + Cardinality(S)
      BY <2>0, UnionBound
    <3>5. Cardinality(seen) \in Nat
      BY <2>0, FS_CardinalityType
    <3> QED  BY <3>1, <3>2, <3>3, <3>4, <3>5, QuotaAssumption
  <2>2. ASSUME NEW s \in Server
        PROVE  Cardinality(OnServer(T \cup S, s)) <= ServerQuota
    <3> DEFINE a == OnServer(T, s)
    <3> DEFINE b == OnServer(S, s)
    <3> DEFINE c == OnServer(seen, s)
    <3>1. OnServer(T \cup S, s) = a \cup b
      BY DEF OnServer
    <3>2. IsFiniteSet(a) /\ IsFiniteSet(b) /\ IsFiniteSet(c)
      BY <2>0, FS_Subset DEF OnServer
    <3>3. a \in SUBSET c
      BY DEF OnServer
    <3>4. CASE b = {}
      <4>1. OnServer(T \cup S, s) = a
        BY <3>1, <3>4
      <4> QED  BY <4>1 DEF WithinQuota
    <3>5. CASE b # {}
      <4>1. Cardinality(c) + Cardinality(b) <= ServerQuota
        BY <1>2, <3>5 DEF Fits
      <4> HIDE DEF a, b, c
      <4>2. Cardinality(a) <= Cardinality(c)
        BY <3>2, <3>3, FS_Subset
      <4>3. /\ Cardinality(a) \in Nat /\ Cardinality(b) \in Nat
            /\ Cardinality(a \cup b) \in Nat
            /\ Cardinality(a \cup b) <= Cardinality(a) + Cardinality(b)
        BY <3>2, UnionBound
      <4>4. Cardinality(c) \in Nat
        BY <3>2, FS_CardinalityType
      <4>5. Cardinality(OnServer(T \cup S, s)) = Cardinality(a \cup b)
        BY <3>1
      <4>6. ServerQuota \in Nat
        BY QuotaAssumption
      <4> QED  BY <4>1, <4>2, <4>3, <4>4, <4>5, <4>6
    <3> QED  BY <3>4, <3>5
  <2>3. ASSUME NEW p \in Partition
        PROVE  Cardinality(OnPartition(T \cup S, p)) <= PartQuota
    <3> DEFINE a == OnPartition(T, p)
    <3> DEFINE b == OnPartition(S, p)
    <3> DEFINE c == OnPartition(seen, p)
    <3>1. OnPartition(T \cup S, p) = a \cup b
      BY DEF OnPartition
    <3>2. IsFiniteSet(a) /\ IsFiniteSet(b) /\ IsFiniteSet(c)
      BY <2>0, FS_Subset DEF OnPartition
    <3>3. a \in SUBSET c
      BY DEF OnPartition
    <3>4. CASE b = {}
      <4>1. OnPartition(T \cup S, p) = a
        BY <3>1, <3>4
      <4> QED  BY <4>1 DEF WithinQuota
    <3>5. CASE b # {}
      <4>1. Cardinality(c) + Cardinality(b) <= PartQuota
        BY <1>2, <3>5 DEF Fits
      <4> HIDE DEF a, b, c
      <4>2. Cardinality(a) <= Cardinality(c)
        BY <3>2, <3>3, FS_Subset
      <4>3. /\ Cardinality(a) \in Nat /\ Cardinality(b) \in Nat
            /\ Cardinality(a \cup b) \in Nat
            /\ Cardinality(a \cup b) <= Cardinality(a) + Cardinality(b)
        BY <3>2, UnionBound
      <4>4. Cardinality(c) \in Nat
        BY <3>2, FS_CardinalityType
      <4>5. Cardinality(OnPartition(T \cup S, p)) = Cardinality(a \cup b)
        BY <3>1
      <4>6. PartQuota \in Nat
        BY QuotaAssumption
      <4> QED  BY <4>1, <4>2, <4>3, <4>4, <4>5, <4>6
    <3> QED  BY <3>4, <3>5
  <2> QED  BY <2>1, <2>2, <2>3 DEF WithinQuota
<1> QED  BY <1>1, <1>2

\* No job holds a slot: the quotas hold.
LEMMA NoneFits == WithinQuota({})
<1>1. \A s : OnServer({}, s) = {}
  BY DEF OnServer
<1>2. \A p : OnPartition({}, p) = {}
  BY DEF OnPartition
<1> QED  BY <1>1, <1>2, FS_EmptySet, QuotaAssumption DEF WithinQuota

-----------------------------------------------------------------------------
(***************************************************************************)
(* Types.                                                                  *)
(***************************************************************************)

\* The states by name.
LEMMA StateFacts ==
  /\ EndStates \subseteq State
  /\ RetryStates \subseteq State
  /\ {"CLONE_PENDING", "CLONE_READY", "CLONE_START", "CLONE_WORK", "CLONE_DONE",
      "DUMP_PENDING", "DUMP_READY", "DUMP_START", "DUMP_WORK", "DUMP_DONE",
      "DUMP_SKIPPED", "ERROR", "DUMP_RECOVER_START", "DUMP_RECOVER_WORK",
      "DONE", "FAILED"} = State
  BY DEF State, EndStates, RetryStates, CloneStates, DumpStates

\* The states a pass of the server names.
LEMMA PassFacts ==
  ASSUME NEW pass \in Passes
  PROVE  /\ pass.from \in {"CLONE_READY", "DUMP_READY", "ERROR"}
         /\ pass.start \in {"CLONE_START", "DUMP_START", "DUMP_RECOVER_START"}
         /\ pass.work \in {"CLONE_WORK", "DUMP_WORK", "DUMP_RECOVER_WORK"}
         /\ pass.at \in Call
  BY DEF Passes, Call

\* The states a scheduling stage names.
LEMMA SchedulingFacts ==
  ASSUME NEW s \in Scheduling
  PROVE  /\ {s.start, s.work, s.askPending, s.askRunning, s.over, s.again, s.next}
              \subseteq Stage
         /\ \A t \in Scheduling :
              t.work \notin {s.start, s.askPending, s.askRunning, s.over, s.again, s.next}
         /\ s.pending \in {"CLONE_PENDING", "DUMP_PENDING"}
         /\ s.ready \in {"CLONE_READY", "DUMP_READY"}
  BY DEF Scheduling, Stage, CloneStages, DumpStages, ReportStages

\* What a scheduling child does after it started jobs.
Look(r, s) == AskPending(r, s) \/ AskRunning(r, s) \/ EndSched(r, s)

\* It changes nothing but the stage.
LEMMA LookFacts ==
  ASSUME NEW r \in Run, NEW s \in Scheduling, Look(r, s)
  PROVE  /\ UNCHANGED <<row, kids, counted, given, stored, vdumps, report>>
         /\ \E st \in Stage : /\ \A t \in Scheduling : st # t.work
                              /\ stage' = [stage EXCEPT ![r] = st]
<1>1. PICK st \in {s.start, s.askPending, s.askRunning, s.over, s.again, s.next} :
        stage' = [stage EXCEPT ![r] = st]
  BY DEF Look, AskPending, AskRunning, EndSched
<1>2. st \in Stage /\ \A t \in Scheduling : st # t.work
  BY SchedulingFacts
<1>3. UNCHANGED <<row, kids, counted, given, stored, vdumps, report>>
  BY DEF Look, AskPending, AskRunning, EndSched
<1> QED  BY <1>1, <1>2, <1>3

\* The updates yield rows.
LEMMA RowType ==
  ASSUME NEW r \in Row, NEW s \in State
  PROVE  Timed(r, s) \in Row /\ Untimed(r, s) \in Row /\ Release(r, s) \in Row
<1> DEFINE Moved == [r EXCEPT !.state = s]
<1> DEFINE Bumped == [Moved EXCEPT !.dv = r.dv + 1]
<1>1. Moved \in Row
  BY DEF Row
<1>2. Bumped \in Row
  <2> HIDE DEF Moved
  <2> QED  BY <1>1 DEF Row
<1>3. \A t \in BOOLEAN : [Bumped EXCEPT !.timed = t] \in Row
  <2> HIDE DEF Bumped
  <2> QED  BY <1>2 DEF Row
<1>4. Timed(r, s) = [Bumped EXCEPT !.timed = TRUE]
  BY Zenon DEF Timed
<1>5. Untimed(r, s) = [Bumped EXCEPT !.timed = FALSE]
  BY Zenon DEF Untimed
<1>6. Timed(r, s) \in Row /\ Untimed(r, s) \in Row
  <2> HIDE DEF Bumped
  <2> QED  BY <1>3, <1>4, <1>5
<1>7. Release(r, s) \in Row
  BY <1>6 DEF Release, Row
<1> QED  BY <1>6, <1>7

\* A row that is flagged as an error is a row.
LEMMA ErroredType ==
  ASSUME NEW r \in Row, NEW seen, seen.state \in State, seen.errors \in Nat
  PROVE  Errored(r, seen) \in Row
<1>1. CASE seen.state \in RetryStates
  <2>1. "FAILED" \in State
    BY StateFacts
  <2> QED  BY <1>1, <2>1, RowType DEF Errored
<1>2. CASE seen.state \notin RetryStates
  <2> DEFINE Moved == Untimed(r, "ERROR")
  <2> DEFINE Marked == [Moved EXCEPT !.last = seen.state]
  <2>1. Moved \in Row
    BY StateFacts, RowType
  <2>2. Marked \in Row
    <3> HIDE DEF Moved
    <3> QED  BY <2>1 DEF Row
  <2>3. [Marked EXCEPT !.errors = seen.errors + 1] \in Row
    <3> HIDE DEF Marked
    <3> QED  BY <2>2 DEF Row
  <2>4. Errored(r, seen) = [Marked EXCEPT !.errors = seen.errors + 1]
    BY <1>2, Zenon DEF Errored
  <2> HIDE DEF Marked
  <2> QED  BY <2>3, <2>4
<1> QED  BY <1>1, <1>2

\* A child that goes on is a child.
LEMMA KidType ==
  ASSUME NEW k \in Kid, NEW at \in Call
  PROVE  [k EXCEPT !.at = at, !.dv = @ + 1] \in Kid
<1> DEFINE Moved == [k EXCEPT !.at = at]
<1>1. Moved \in Kid
  BY DEF Kid
<1>2. [Moved EXCEPT !.dv = k.dv + 1] \in Kid
  <2> HIDE DEF Moved
  <2> QED  BY <1>1 DEF Kid
<1> QED  BY <1>2, Zenon

\* An update in the middle of a child's work keeps rows and children.
LEMMA TouchType ==
  ASSUME TypeOK, NEW k \in kids, NEW at \in Call, Touch(k, at)
  PROVE  row' \in [Job -> Row] /\ kids' \subseteq Kid
<1>1. k \in Kid /\ k.job \in Job /\ row[k.job] \in Row
  BY DEF TypeOK, Kid
<1>2. Timed(row[k.job], row[k.job].state) \in Row
  BY <1>1, RowType DEF Row
<1>3. [k EXCEPT !.at = at, !.dv = @ + 1] \in Kid
  BY <1>1, KidType
<1>4. row' = [row EXCEPT ![k.job] = Timed(row[k.job], row[k.job].state)]
  BY DEF Touch
<1>5. kids' = (kids \ {k}) \cup {[k EXCEPT !.at = at, !.dv = @ + 1]}
  BY Zenon DEF Touch, Replace
<1>6. row' \in [Job -> Row]
  BY <1>1, <1>2, <1>4 DEF TypeOK
<1>7. kids' \subseteq Kid
  BY <1>3, <1>5 DEF TypeOK
<1> QED  BY <1>6, <1>7

\* A child's last update keeps rows and children.
LEMMA FinishType ==
  ASSUME TypeOK, NEW k \in kids, NEW new \in Row, Finish(k, new)
  PROVE  row' \in [Job -> Row] /\ kids' \subseteq Kid
BY DEF TypeOK, Finish, Exit, Kid

\* The rows create_clones inserts have the right shape.
LEMMA InitType == Init => TypeOK
<1>1. NewRow \in Row
  BY StateFacts DEF NewRow, Row, NoState
<1> QED  BY <1>1, DumpJobAssumption DEF Init, TypeOK, Stage, CloneStages

\* Scan's third outcome: the job goes on with one more error.
LEMMA ScanErrorType ==
  ASSUME TypeOK, NEW k \in kids,
         row' = [row EXCEPT ![k.job] =
                   [Timed(@, @.state) EXCEPT !.errors = k.errors + 1]],
         Replace(k, [k EXCEPT !.at = "commit", !.dv = @ + 1, !.errors = @ + 1])
  PROVE  row' \in [Job -> Row] /\ kids' \subseteq Kid
<1>1. k \in Kid /\ k.job \in Job /\ row[k.job] \in Row
  BY DEF TypeOK, Kid
<1> DEFINE r == Timed(row[k.job], row[k.job].state)
<1>2. r \in Row
  BY <1>1, RowType DEF Row
<1>3. [r EXCEPT !.errors = k.errors + 1] \in Row
  <2> HIDE DEF r
  <2> QED  BY <1>1, <1>2 DEF Row, Kid
<1>4. row' = [row EXCEPT ![k.job] = [r EXCEPT !.errors = k.errors + 1]]
  BY Zenon
<1>5. row' \in [Job -> Row]
  <2> HIDE DEF r
  <2> QED  BY <1>1, <1>3, <1>4 DEF TypeOK
<1> DEFINE l == [k EXCEPT !.at = "commit", !.dv = @ + 1]
<1>6. l \in Kid
  BY <1>1, KidType DEF Call
<1>7. [l EXCEPT !.errors = k.errors + 1] \in Kid
  <2> HIDE DEF l
  <2> QED  BY <1>1, <1>6 DEF Kid
<1>8. kids' = (kids \ {k}) \cup {[l EXCEPT !.errors = k.errors + 1]}
  BY Zenon DEF Replace
<1>9. kids' \subseteq Kid
  <2> HIDE DEF l
  <2> QED  BY <1>7, <1>8 DEF TypeOK
<1> QED  BY <1>5, <1>9

\* A child whose call failed or succeeded goes on without an update.
LEMMA GoType ==
  ASSUME TypeOK, NEW k \in kids, NEW at \in Call, Replace(k, [k EXCEPT !.at = at])
  PROVE  kids' \subseteq Kid
<1>1. [k EXCEPT !.at = at] \in Kid
  BY DEF TypeOK, Kid
<1> QED  BY <1>1 DEF TypeOK, Replace

\* A child that exits leaves only children.
LEMMA ExitType ==
  ASSUME TypeOK, NEW k, Exit(k)
  PROVE  kids' \subseteq Kid
BY DEF TypeOK, Exit

\* The server's steps.
LEMMA ServerType == ASSUME TypeOK, ServerStep PROVE TypeOK'
<1>1. ASSUME NEW pass \in Passes, TakeUp(pass) PROVE TypeOK'
  <2>1. \A j \in Job : Untimed(row[j], pass.start) \in Row
    BY PassFacts, StateFacts, RowType DEF TypeOK
  <2> QED  BY <1>1, <2>1 DEF TypeOK, TakeUp, UpdateRows
<1>2. ASSUME NEW pass \in Passes, Fork(pass) PROVE TypeOK'
  <2> DEFINE Child(j) == [job |-> j, at |-> pass.at, state |-> pass.work,
                          dv |-> row[j].dv + 1, errors |-> row[j].errors]
  <2>1. \A j \in Job : Timed(row[j], pass.work) \in Row
    BY PassFacts, StateFacts, RowType DEF TypeOK
  <2>2. \A j \in Job : Child(j) \in Kid
    BY PassFacts, StateFacts DEF TypeOK, Kid, Row
  <2>3. row' \in [Job -> Row]
    BY <1>2, <2>1 DEF TypeOK, Fork, UpdateRows
  <2>4. kids' = kids \cup {Child(j) : j \in InState(pass.start)}
    BY <1>2, Zenon DEF Fork
  <2>5. kids' \subseteq Kid
    <3> HIDE DEF Child
    <3> QED  BY <2>2, <2>4 DEF TypeOK, InState
  <2> QED  BY <1>2, <2>3, <2>5 DEF TypeOK, Fork
<1>3. ASSUME NEW from \in {"DUMP_DONE", "DUMP_SKIPPED"}, Retire(from) PROVE TypeOK'
  <2>1. \A j \in Job : Untimed(row[j], "DONE") \in Row
    BY StateFacts, RowType DEF TypeOK
  <2> QED  BY <1>3, <2>1 DEF TypeOK, Retire, UpdateRows
<1> QED  BY <1>1, <1>2, <1>3 DEF ServerStep

\* The sweep over stale jobs.
LEMMA StaleType == ASSUME TypeOK, CheckStale PROVE TypeOK'
<1>1. \A j \in Job : Errored(row[j], row[j]) \in Row
  BY ErroredType DEF TypeOK, Row
<1> QED  BY <1>1 DEF TypeOK, CheckStale, UpdateRows

\* The steps of the runs.
LEMMA RunType == ASSUME TypeOK, NEW r \in Run, RunStep(r) PROVE TypeOK'
<1>1. ASSUME NEW s \in Scheduling, CountRunning(r, s) PROVE TypeOK'
  <2>1. Running(r) \subseteq Job
    BY DEF Running, JobsOf
  <2> QED  BY <1>1, <2>1, SchedulingFacts DEF TypeOK, CountRunning
<1>2. ASSUME NEW s \in Scheduling, Schedule(r, s) PROVE TypeOK'
  <2>1. \A j \in Job : [Timed(row[j], s.ready) EXCEPT !.running = TRUE] \in Row
    <3>1. \A j \in Job : Timed(row[j], s.ready) \in Row
      BY SchedulingFacts, StateFacts, RowType DEF TypeOK
    <3> QED  BY <3>1 DEF Row
  <2>2. PICK S \in Batches(counted[r], Waiting(r, s)) :
          /\ UpdateRows(S, LAMBDA x : [Timed(x, s.ready) EXCEPT !.running = TRUE])
          /\ stage' = [stage EXCEPT ![r] = IF counted[r] = {} /\ S = {}
                                           THEN s.askPending ELSE s.again]
    BY <1>2 DEF Schedule
  <2>3. row' \in [Job -> Row]
    BY <2>1, <2>2 DEF TypeOK, UpdateRows
  <2>4. stage' \in [Run -> Stage]
    BY <2>2, SchedulingFacts DEF TypeOK
  <2> QED  BY <1>2, <2>3, <2>4 DEF TypeOK, Schedule
<1>3. ASSUME CreateDumps(r) PROVE TypeOK'
  <2>1. \A j \in Job : Untimed(row[j], "DUMP_PENDING") \in Row
    BY StateFacts, RowType DEF TypeOK
  <2> QED  BY <1>3, <2>1 DEF TypeOK, CreateDumps, UpdateRows, Stage, DumpStages
<1>4. ASSUME Report(r) PROVE TypeOK'
  BY <1>4 DEF TypeOK, Report, Verdict, Stage, ReportStages
<1>5. ASSUME NEW s \in Scheduling, Look(r, s) PROVE TypeOK'
  BY <1>5, LookFacts DEF TypeOK
<1> QED  BY <1>1, <1>2, <1>3, <1>4, <1>5 DEF RunStep, Look

\* The steps of the children.
LEMMA KidStepType == ASSUME TypeOK, NEW k \in kids, KidStep(k) PROVE TypeOK'
<1> USE DEF Call
<1>0. k \in Kid /\ k.job \in Job /\ row[k.job] \in Row
  BY DEF TypeOK, Kid
<1>1. CASE Clone(k)
  BY <1>1, TouchType DEF Clone, TypeOK
<1>2. CASE Cloned(k)
  <2>1. Release(row[k.job], "CLONE_DONE") \in Row
    BY <1>0, StateFacts, RowType
  <2> QED  BY <1>2, <2>1, FinishType DEF Cloned, TypeOK
<1>3. CASE Skip(k)
  <2>1. [Release(row[k.job], "DUMP_SKIPPED") EXCEPT !.skipped = TRUE] \in Row
    <3>1. Release(row[k.job], "DUMP_SKIPPED") \in Row
      BY <1>0, StateFacts, RowType
    <3> QED  BY <3>1 DEF Row
  <2> QED  BY <1>3, <2>1, FinishType DEF Skip, TypeOK
<1>4. CASE Fetch(k)
  BY <1>4, TouchType DEF Fetch, TypeOK
<1>5. CASE Scan(k)
  <2>1. row' \in [Job -> Row] /\ kids' \subseteq Kid
    <3>1. CASE \E at \in {"error", "commit", "reject"} : Touch(k, at)
      BY <3>1, TouchType
    <3>2. CASE ~ \E at \in {"error", "commit", "reject"} : Touch(k, at)
      <4>1. /\ row' = [row EXCEPT ![k.job] =
                         [Timed(@, @.state) EXCEPT !.errors = k.errors + 1]]
            /\ Replace(k, [k EXCEPT !.at = "commit", !.dv = @ + 1,
                                    !.errors = @ + 1])
        BY <1>5, <3>2, Zenon DEF Scan
      <4> QED  BY <4>1, ScanErrorType
    <3> QED  BY <3>1, <3>2
  <2> QED  BY <1>5, <2>1 DEF Scan, TypeOK
<1>6. CASE Commit(k)
  <2>1. kids' \subseteq Kid
    BY <1>6, GoType DEF Commit
  <2>2. stored' \subseteq Job /\ given' \subseteq Job
    BY <1>0, <1>6 DEF Commit, TypeOK
  <2> QED  BY <1>6, <2>1, <2>2 DEF Commit, TypeOK
<1>7. CASE Record(k)
  <2>1. kids' \subseteq Kid
    BY <1>7, GoType DEF Record
  <2>2. vdumps' \in [Job -> Nat]
    BY <1>0, <1>7 DEF Record, TypeOK
  <2> QED  BY <1>7, <2>1, <2>2 DEF Record, TypeOK
<1>8. CASE Dumped(k)
  <2>1. Release(row[k.job], "DUMP_DONE") \in Row
    BY <1>0, StateFacts, RowType
  <2> QED  BY <1>8, <2>1, FinishType DEF Dumped, TypeOK
<1>9. CASE Reject(k)
  <2>1. [Release(row[k.job], "DUMP_SKIPPED") EXCEPT !.skipped = TRUE] \in Row
    <3>1. Release(row[k.job], "DUMP_SKIPPED") \in Row
      BY <1>0, StateFacts, RowType
    <3> QED  BY <3>1 DEF Row
  <2>2. row' \in [Job -> Row] /\ kids' \subseteq Kid
    BY <1>9, <2>1, FinishType, ExitType DEF Reject, TypeOK
  <2> QED  BY <1>9, <2>2 DEF Reject, TypeOK
<1>10. CASE Recover(k)
  <2> DEFINE r == row[k.job]
  <2> DEFINE back == [Untimed(r, RetryState[r.last]) EXCEPT !.last = NoState]
  <2>1. Release(r, "FAILED") \in Row
    BY <1>0, StateFacts, RowType
  <2>2. ASSUME ~ GiveUp(k) PROVE back \in Row
    <3>1. RetryState[r.last] \in State
      BY <2>2, StateFacts DEF GiveUp, RetryState
    <3>2. Untimed(r, RetryState[r.last]) \in Row
      BY <1>0, <3>1, RowType
    <3> QED  BY <3>2 DEF Row
  <2>3. CASE GiveUp(k)
    BY <1>10, <2>1, <2>3, FinishType DEF Recover, TypeOK
  <2>4. CASE ~ GiveUp(k)
    BY <1>10, <2>2, <2>4, FinishType DEF Recover, TypeOK
  <2> QED  BY <2>3, <2>4
<1>11. CASE Fail(k)
  <2>1. Errored(row[k.job], k) \in Row
    BY <1>0, ErroredType DEF Kid
  <2> QED  BY <1>11, <2>1, FinishType DEF Fail, TypeOK
<1>12. CASE LoseRow(k)
  BY <1>12, ExitType DEF LoseRow, TypeOK
<1> QED  BY <1>1, <1>2, <1>3, <1>4, <1>5, <1>6, <1>7, <1>8, <1>9, <1>10,
            <1>11, <1>12 DEF KidStep

\* Every step keeps the shape of the state.
LEMMA NextType == TypeOK /\ [Next]_vars => TypeOK'
<1> SUFFICES ASSUME TypeOK, [Next]_vars PROVE TypeOK'
  OBVIOUS
<1>1. ASSUME NEW k \in kids, Die(k) PROVE TypeOK'
  BY <1>1, ExitType DEF Die, TypeOK
<1>2. CASE UNCHANGED vars
  BY <1>2 DEF vars, TypeOK
<1> QED  BY <1>1, <1>2, ServerType, StaleType, RunType, KidStepType DEF Next

\* Whatever the servers, the quotas and the error limit, the state keeps its
\* shape.
THEOREM TypeCorrect == Spec => []TypeOK
  BY InitType, NextType, PTL DEF Spec

-----------------------------------------------------------------------------
(***************************************************************************)
(* Quotas.  Only the scheduler lets a job hold a slot; every other step at *)
(* most takes slots away, so that what was counted stays an upper bound    *)
(* until the scheduler acts on it.                                         *)
(***************************************************************************)

\* What the updates do to the fields of a row.
LEMMA RowFields ==
  ASSUME NEW r \in Row, NEW s \in State
  PROVE  /\ Timed(r, s).state = s
         /\ Timed(r, s).dv = r.dv + 1
         /\ (Timed(r, s).running <=> r.running)
         /\ Timed(r, s).last = r.last
         /\ Timed(r, s).errors = r.errors
         /\ Timed(r, s).skipped = r.skipped
         /\ Untimed(r, s).state = s
         /\ Untimed(r, s).dv = r.dv + 1
         /\ (Untimed(r, s).running <=> r.running)
         /\ Untimed(r, s).last = r.last
         /\ Untimed(r, s).errors = r.errors
         /\ Untimed(r, s).skipped = r.skipped
         /\ Release(r, s).state = s
         /\ Release(r, s).dv = r.dv + 1
         /\ ~ Release(r, s).running
         /\ Release(r, s).last = r.last
         /\ Release(r, s).errors = r.errors
         /\ Release(r, s).skipped = r.skipped
<1> DEFINE Moved == [r EXCEPT !.state = s]
<1> DEFINE Bumped == [Moved EXCEPT !.dv = r.dv + 1]
<1> DEFINE Same(x) == /\ x.state = s /\ x.dv = r.dv + 1
                      /\ (x.running <=> r.running) /\ x.last = r.last
                      /\ x.errors = r.errors /\ x.skipped = r.skipped
<1>1. /\ Moved \in Row /\ Moved.state = s /\ (Moved.running <=> r.running)
      /\ Moved.last = r.last /\ Moved.errors = r.errors
      /\ Moved.skipped = r.skipped
  BY DEF Row
<1>2. Bumped \in Row /\ Same(Bumped)
  <2> HIDE DEF Moved
  <2> QED  BY <1>1 DEF Row
<1>3. \A t \in BOOLEAN : Same([Bumped EXCEPT !.timed = t])
  <2> HIDE DEF Bumped
  <2> QED  BY <1>2 DEF Row
<1>4. Timed(r, s) = [Bumped EXCEPT !.timed = TRUE]
  BY Zenon DEF Timed
<1>5. Untimed(r, s) = [Bumped EXCEPT !.timed = FALSE]
  BY Zenon DEF Untimed
<1>6. Same(Timed(r, s)) /\ Same(Untimed(r, s))
  <2> HIDE DEF Bumped, Same
  <2> QED  BY <1>3, <1>4, <1>5
<1>7. Untimed(r, s) \in Row
  BY RowType
<1> QED  BY <1>6, <1>7 DEF Release, Row

\* An error never gives a slot to a job that has none.
LEMMA ErroredRunning ==
  ASSUME NEW r \in Row, NEW seen, seen.state \in State, seen.errors \in Nat,
         Errored(r, seen).running
  PROVE  r.running
<1>1. CASE seen.state \in RetryStates
  BY <1>1, StateFacts, RowFields DEF Errored
<1>2. CASE seen.state \notin RetryStates
  <2> DEFINE Moved == Untimed(r, "ERROR")
  <2> DEFINE Marked == [Moved EXCEPT !.last = seen.state]
  <2>1. Moved \in Row /\ (Moved.running <=> r.running)
    BY StateFacts, RowType, RowFields
  <2>2. Marked \in Row /\ (Marked.running <=> r.running)
    <3> HIDE DEF Moved
    <3> QED  BY <2>1 DEF Row
  <2>3. [Marked EXCEPT !.errors = seen.errors + 1].running <=> r.running
    <3> HIDE DEF Marked
    <3> QED  BY <2>2 DEF Row
  <2>4. Errored(r, seen) = [Marked EXCEPT !.errors = seen.errors + 1]
    BY <1>2, Zenon DEF Errored
  <2> HIDE DEF Marked
  <2> QED  BY <2>3, <2>4
<1> QED  BY <1>1, <1>2

\* No job comes to hold a slot.
NoNewSlot == \A j \in Job : row'[j].running => row[j].running

\* A child that writes its row once gives its job no slot.
LEMMA FinishSlot ==
  ASSUME TypeOK, NEW k \in kids, NEW new, Finish(k, new),
         new.running => row[k.job].running
  PROVE  NoNewSlot
<1>1. k.job \in Job
  BY DEF TypeOK, Kid
<1>2. row' = [row EXCEPT ![k.job] = new]
  BY DEF Finish
<1> QED  BY <1>1, <1>2 DEF NoNewSlot, TypeOK

\* Nor does one that goes on.
LEMMA TouchSlot ==
  ASSUME TypeOK, NEW k \in kids, NEW at, Touch(k, at)
  PROVE  NoNewSlot
<1>1. k.job \in Job /\ row[k.job] \in Row /\ row[k.job].state \in State
  BY DEF TypeOK, Kid, Row
<1>2. row' = [row EXCEPT ![k.job] = Timed(row[k.job], row[k.job].state)]
  BY Zenon DEF Touch
<1>3. Timed(row[k.job], row[k.job].state).running <=> row[k.job].running
  BY <1>1, RowFields
<1> QED  BY <1>1, <1>2, <1>3 DEF NoNewSlot, TypeOK

\* The steps of the children give no job a slot.
LEMMA KidSlot == ASSUME TypeOK, NEW k \in kids, KidStep(k) PROVE NoNewSlot
<1>0. k \in Kid /\ k.job \in Job /\ row[k.job] \in Row
  BY DEF TypeOK, Kid
<1>1. CASE \E at : Touch(k, at)
  BY <1>1, TouchSlot
<1>2. ASSUME NEW s \in State, Finish(k, Release(row[k.job], s)) PROVE NoNewSlot
  <2>1. ~ Release(row[k.job], s).running
    BY <1>0, RowFields
  <2> QED  BY <1>2, <2>1, FinishSlot
<1>3. ASSUME Finish(k, [Release(row[k.job], "DUMP_SKIPPED") EXCEPT !.skipped = TRUE])
      PROVE  NoNewSlot
  <2> DEFINE gone == Release(row[k.job], "DUMP_SKIPPED")
  <2>1. gone \in Row /\ ~ gone.running
    BY <1>0, StateFacts, RowType, RowFields
  <2>2. ~ [gone EXCEPT !.skipped = TRUE].running
    <3> HIDE DEF gone
    <3> QED  BY <2>1 DEF Row
  <2> HIDE DEF gone
  <2> QED  BY <1>3, <2>2, FinishSlot DEF gone
<1>4. ASSUME row' = row PROVE NoNewSlot
  BY <1>4 DEF NoNewSlot
<1>5. CASE Clone(k) \/ Fetch(k)
  BY <1>1, <1>5, Zenon DEF Clone, Fetch
<1>6. CASE Cloned(k) \/ Dumped(k)
  BY <1>2, <1>6, StateFacts DEF Cloned, Dumped
<1>7. CASE Skip(k)
  BY <1>3, <1>7 DEF Skip
<1>8. CASE Reject(k)
  BY <1>3, <1>4, <1>8 DEF Reject
<1>9. CASE Commit(k) \/ Record(k) \/ LoseRow(k)
  BY <1>4, <1>9 DEF Commit, Record, LoseRow
<1>10. CASE Scan(k)
  <2>1. CASE row' = [row EXCEPT ![k.job] =
                       [Timed(@, @.state) EXCEPT !.errors = k.errors + 1]]
    <3> DEFINE r == Timed(row[k.job], row[k.job].state)
    <3>0. row[k.job].state \in State
      BY <1>0 DEF Row
    <3>1. r \in Row /\ (r.running <=> row[k.job].running)
      BY <1>0, <3>0, RowType, RowFields
    <3>2. [r EXCEPT !.errors = k.errors + 1].running <=> row[k.job].running
      <4> HIDE DEF r
      <4> QED  BY <3>1 DEF Row
    <3>3. row' = [row EXCEPT ![k.job] = [r EXCEPT !.errors = k.errors + 1]]
      BY <2>1, Zenon
    <3> HIDE DEF r
    <3> QED  BY <1>0, <3>2, <3>3 DEF NoNewSlot, TypeOK
  <2> QED  BY <1>1, <1>10, <2>1, Zenon DEF Scan
<1>11. CASE Recover(k)
  <2> DEFINE r == row[k.job]
  <2> DEFINE back == [Untimed(r, RetryState[r.last]) EXCEPT !.last = NoState]
  <2>1. CASE GiveUp(k)
    <3>1. Finish(k, Release(row[k.job], "FAILED"))
      BY <1>11, <2>1 DEF Recover
    <3> QED  BY <1>2, <3>1, StateFacts
  <2>2. CASE ~ GiveUp(k)
    <3>1. RetryState[r.last] \in State
      BY <2>2, StateFacts DEF GiveUp, RetryState
    <3>2. /\ Untimed(r, RetryState[r.last]) \in Row
          /\ (Untimed(r, RetryState[r.last]).running <=> r.running)
      BY <1>0, <3>1, RowType, RowFields
    <3>3. back.running <=> r.running
      BY <3>2 DEF Row
    <3>4. Finish(k, back)
      BY <1>11, <2>2 DEF Recover
    <3> HIDE DEF back
    <3> QED  BY <3>3, <3>4, FinishSlot
  <2> QED  BY <2>1, <2>2
<1>12. CASE Fail(k)
  <2>1. k.state \in State /\ k.errors \in Nat
    BY <1>0 DEF Kid
  <2>2. Errored(row[k.job], k).running => row[k.job].running
    BY <1>0, <2>1, ErroredRunning
  <2> QED  BY <1>12, <2>2, FinishSlot DEF Fail
<1> QED  BY <1>5, <1>6, <1>7, <1>8, <1>9, <1>10, <1>11, <1>12 DEF KidStep

\* The passes of the server and the sweep give no job a slot.
LEMMA ServerSlot ==
  ASSUME TypeOK, ServerStep \/ CheckStale
  PROVE  NoNewSlot /\ UNCHANGED <<stage, counted>>
<1>1. ASSUME NEW pass \in Passes, TakeUp(pass) PROVE NoNewSlot
  <2>1. \A j \in Job : Untimed(row[j], pass.start).running <=> row[j].running
    BY PassFacts, StateFacts, RowFields DEF TypeOK
  <2> QED  BY <1>1, <2>1 DEF TakeUp, UpdateRows, NoNewSlot
<1>2. ASSUME NEW pass \in Passes, Fork(pass) PROVE NoNewSlot
  <2>1. \A j \in Job : Timed(row[j], pass.work).running <=> row[j].running
    BY PassFacts, StateFacts, RowFields DEF TypeOK
  <2>2. UpdateRows(InState(pass.start), LAMBDA r : Timed(r, pass.work))
    BY <1>2 DEF Fork
  <2> QED  BY <2>1, <2>2 DEF UpdateRows, NoNewSlot
<1>3. ASSUME NEW from \in {"DUMP_DONE", "DUMP_SKIPPED"}, Retire(from)
      PROVE  NoNewSlot
  <2>1. \A j \in Job : Untimed(row[j], "DONE").running <=> row[j].running
    BY StateFacts, RowFields DEF TypeOK
  <2> QED  BY <1>3, <2>1 DEF Retire, UpdateRows, NoNewSlot
<1>4. ASSUME CheckStale PROVE NoNewSlot
  <2>1. \A j \in Job : Errored(row[j], row[j]).running => row[j].running
    BY ErroredRunning DEF TypeOK, Row
  <2> QED  BY <1>4, <2>1 DEF CheckStale, UpdateRows, NoNewSlot
<1>5. UNCHANGED <<stage, counted>>
  BY DEF ServerStep, CheckStale, TakeUp, Fork, Retire
<1> QED  BY <1>1, <1>2, <1>3, <1>4, <1>5 DEF ServerStep

\* What the proof carries along: the count of a scheduler is an upper bound.
QuotaInv == TypeOK /\ CountHolds /\ QuotaRespected

\* A step that gives no slot and leaves stages and counts alone keeps it.
LEMMA NoNewSlotKeeps ==
  ASSUME TypeOK, CountHolds, QuotaRespected, NoNewSlot,
         UNCHANGED <<stage, counted>>
  PROVE  CountHolds' /\ QuotaRespected'
<1>1. \A r \in Run : Running(r)' \in SUBSET Running(r)
  BY DEF NoNewSlot, Running, JobsOf
<1>2. \A r \in Run : Running(r) \in SUBSET Job
  BY DEF Running, JobsOf
<1>3. CountHolds'
  BY <1>1 DEF CountHolds
<1>4. QuotaRespected'
  BY <1>1, <1>2, FewerFit DEF QuotaRespected
<1> QED  BY <1>3, <1>4

\* The steps of the runs: counting makes the count exact, and what is started
\* on the strength of it fits.
LEMMA RunQuota ==
  ASSUME TypeOK, CountHolds, QuotaRespected, NEW r \in Run, RunStep(r)
  PROVE  CountHolds' /\ QuotaRespected'
<1>1. ASSUME NEW s \in Scheduling, CountRunning(r, s)
      PROVE  CountHolds' /\ QuotaRespected'
  <2>1. UNCHANGED row /\ \A q \in Run : Running(q)' = Running(q)
    BY <1>1 DEF CountRunning, Running
  <2>2. QuotaRespected'
    BY <2>1 DEF QuotaRespected
  <2>3. CountHolds'
    <3>1. ASSUME NEW q \in Run, \E t \in Scheduling : stage'[q] = t.work
          PROVE  Running(q)' \subseteq counted'[q]
      <4>1. CASE q = r
        BY <1>1, <2>1, <4>1 DEF CountRunning, TypeOK
      <4>2. CASE q # r
        BY <1>1, <2>1, <3>1, <4>2 DEF CountRunning, CountHolds, TypeOK
      <4> QED  BY <4>1, <4>2
    <3> QED  BY <3>1 DEF CountHolds
  <2> QED  BY <2>2, <2>3
<1>2. ASSUME NEW s \in Scheduling, Schedule(r, s)
      PROVE  CountHolds' /\ QuotaRespected'
  <2>1. PICK S \in Batches(counted[r], Waiting(r, s)) :
          /\ UpdateRows(S, LAMBDA x : [Timed(x, s.ready) EXCEPT !.running = TRUE])
          /\ stage' = [stage EXCEPT ![r] = IF counted[r] = {} /\ S = {}
                                           THEN s.askPending ELSE s.again]
    BY <1>2 DEF Schedule
  <2>2. S \subseteq Waiting(r, s) /\ Fits(counted[r], S)
    BY <2>1 DEF Batches
  <2>3. S \in SUBSET JobsOf(r) /\ S \in SUBSET Job
    BY <2>2 DEF Waiting, JobsOf
  <2>4. \A j \in Job \ S : row'[j] = row[j]
    BY <2>1 DEF UpdateRows
  <2>5. ASSUME NEW q \in Run, q # r PROVE Running(q)' = Running(q)
    <3>1. \A j \in JobsOf(q) : j \in Job \ S
      BY <2>3, <2>5 DEF JobsOf
    <3> QED  BY <2>4, <3>1 DEF Running
  <2>6. Running(r)' \in SUBSET (Running(r) \cup S)
    BY <2>4 DEF Running, JobsOf
  <2>7. QuotaRespected'
    <3>1. \E t \in Scheduling : stage[r] = t.work
      BY <1>2 DEF Schedule
    <3>2. Running(r) \in SUBSET counted[r]
      BY <3>1 DEF CountHolds
    <3>3. counted[r] \in SUBSET Job
      BY DEF TypeOK
    <3>4. WithinQuota(Running(r) \cup S)
      BY <2>2, <2>3, <3>2, <3>3, BatchFits DEF QuotaRespected
    <3>5. WithinQuota(Running(r)')
      <4>1. Running(r) \cup S \in SUBSET Job
        BY <2>3 DEF Running, JobsOf
      <4> QED  BY <2>6, <3>4, <4>1, FewerFit
    <3> QED  BY <2>5, <3>5 DEF QuotaRespected
  <2>8. CountHolds'
    <3>1. ASSUME NEW q \in Run, \E t \in Scheduling : stage'[q] = t.work
          PROVE  Running(q)' \subseteq counted'[q]
      <4>1. q # r
        <5>1. \A t \in Scheduling : s.askPending # t.work /\ s.again # t.work
          BY SchedulingFacts
        <5> QED  BY <2>1, <3>1, <5>1 DEF TypeOK
      <4>2. stage'[q] = stage[q] /\ counted'[q] = counted[q]
        BY <1>2, <2>1, <4>1 DEF Schedule, TypeOK
      <4> QED  BY <2>5, <3>1, <4>1, <4>2 DEF CountHolds
    <3> QED  BY <3>1 DEF CountHolds
  <2> QED  BY <2>7, <2>8
<1>3. ASSUME CreateDumps(r) PROVE CountHolds' /\ QuotaRespected'
  <2>1. \A j \in Job : Untimed(row[j], "DUMP_PENDING").running <=> row[j].running
    BY StateFacts, RowFields DEF TypeOK
  <2>2. NoNewSlot
    BY <1>3, <2>1 DEF CreateDumps, UpdateRows, NoNewSlot
  <2>3. \A q \in Run : Running(q)' \in SUBSET Running(q)
    BY <2>2 DEF NoNewSlot, Running, JobsOf
  <2>4. \A q \in Run : Running(q) \in SUBSET Job
    BY DEF Running, JobsOf
  <2>5. QuotaRespected'
    BY <2>3, <2>4, FewerFit DEF QuotaRespected
  <2>6. ASSUME NEW q \in Run, \E t \in Scheduling : stage'[q] = t.work
        PROVE  stage'[q] = stage[q]
    <3>1. stage' = [stage EXCEPT ![r] = "BRUN_DUMPSCHED_START"]
      BY <1>3 DEF CreateDumps
    <3>2. \A t \in Scheduling : t.work # "BRUN_DUMPSCHED_START"
      BY DEF Scheduling
    <3> QED  BY <2>6, <3>1, <3>2 DEF TypeOK
  <2>7. CountHolds'
    BY <1>3, <2>3, <2>6 DEF CreateDumps, CountHolds
  <2> QED  BY <2>5, <2>7
<1>4. ASSUME Report(r) PROVE CountHolds' /\ QuotaRespected'
  <2>1. \A q \in Run : Running(q)' = Running(q)
    BY <1>4 DEF Report, Running
  <2>2. ASSUME NEW q \in Run, \E t \in Scheduling : stage'[q] = t.work
        PROVE  stage'[q] = stage[q]
    <3>1. stage' = [stage EXCEPT ![r] = "BRUN_REPORT_DONE"]
      BY <1>4 DEF Report
    <3>2. \A t \in Scheduling : t.work # "BRUN_REPORT_DONE"
      BY DEF Scheduling
    <3> QED  BY <2>2, <3>1, <3>2 DEF TypeOK
  <2>3. CountHolds'
    BY <1>4, <2>1, <2>2 DEF Report, CountHolds
  <2>4. QuotaRespected'
    BY <2>1 DEF QuotaRespected
  <2> QED  BY <2>3, <2>4
<1>5. ASSUME NEW s \in Scheduling, Look(r, s)
      PROVE  CountHolds' /\ QuotaRespected'
  <2>1. UNCHANGED <<row, counted>>
    BY <1>5, LookFacts
  <2>2. PICK st \in Stage : /\ \A t \in Scheduling : st # t.work
                            /\ stage' = [stage EXCEPT ![r] = st]
    BY <1>5, LookFacts
  <2>3. \A q \in Run : Running(q)' = Running(q)
    BY <2>1 DEF Running
  <2>4. ASSUME NEW q \in Run, \E t \in Scheduling : stage'[q] = t.work
        PROVE  stage'[q] = stage[q]
    BY <2>2, <2>4 DEF TypeOK
  <2>5. CountHolds'
    BY <2>1, <2>3, <2>4 DEF CountHolds
  <2>6. QuotaRespected'
    BY <2>3 DEF QuotaRespected
  <2> QED  BY <2>5, <2>6
<1> QED  BY <1>1, <1>2, <1>3, <1>4, <1>5 DEF RunStep, Look

\* No step breaks the quotas.
LEMMA NextQuota == QuotaInv /\ [Next]_vars => QuotaInv'
<1> SUFFICES ASSUME QuotaInv, [Next]_vars PROVE CountHolds' /\ QuotaRespected'
  BY NextType DEF QuotaInv
<1>0. TypeOK /\ CountHolds /\ QuotaRespected
  BY DEF QuotaInv
<1>1. CASE ServerStep \/ CheckStale
  BY <1>0, <1>1, ServerSlot, NoNewSlotKeeps
<1>2. ASSUME NEW r \in Run, RunStep(r) PROVE CountHolds' /\ QuotaRespected'
  BY <1>0, <1>2, RunQuota
<1>3. ASSUME NEW k \in kids, KidStep(k) PROVE CountHolds' /\ QuotaRespected'
  <2>1. NoNewSlot
    BY <1>0, <1>3, KidSlot
  <2>2. UNCHANGED <<stage, counted>>
    BY <1>3 DEF KidStep, Clone, Cloned, Skip, Fetch, Scan, Commit, Record,
                Dumped, Reject, Recover, Fail, LoseRow
  <2> QED  BY <1>0, <2>1, <2>2, NoNewSlotKeeps
<1>4. ASSUME NEW k \in kids, Die(k) PROVE CountHolds' /\ QuotaRespected'
  <2>1. NoNewSlot /\ UNCHANGED <<stage, counted>>
    BY <1>4 DEF Die, NoNewSlot
  <2> QED  BY <1>0, <2>1, NoNewSlotKeeps
<1>5. CASE UNCHANGED vars
  <2>1. NoNewSlot /\ UNCHANGED <<stage, counted>>
    BY <1>5 DEF vars, NoNewSlot
  <2> QED  BY <1>0, <2>1, NoNewSlotKeeps
<1> QED  BY <1>1, <1>2, <1>3, <1>4, <1>5 DEF Next

\* At first no job holds a slot.
LEMMA InitQuota == Init => QuotaInv
<1> SUFFICES ASSUME Init PROVE CountHolds /\ QuotaRespected
  BY InitType DEF QuotaInv
<1>1. \A r \in Run : Running(r) = {}
  BY DEF Init, Running, JobsOf, NewRow
<1>2. QuotaRespected
  BY <1>1, NoneFits DEF QuotaRespected
<1>3. CountHolds
  BY <1>1 DEF CountHolds
<1> QED  BY <1>2, <1>3

\* The jobs of a run never hold more slots than its quotas allow, whatever the
\* quotas, the jobs and the servers are.
THEOREM QuotaHolds == Spec => []QuotaRespected
<1>1. Init => QuotaInv
  BY InitQuota
<1>2. QuotaInv /\ [Next]_vars => QuotaInv'
  BY NextQuota
<1>3. QuotaInv => QuotaRespected
  BY DEF QuotaInv
<1> QED  BY <1>1, <1>2, <1>3, PTL DEF Spec

\* What a scheduler counted is an upper bound when it acts on it.
THEOREM CountIsBound == Spec => []CountHolds
<1>1. Init => QuotaInv
  BY InitQuota
<1>2. QuotaInv /\ [Next]_vars => QuotaInv'
  BY NextQuota
<1>3. QuotaInv => CountHolds
  BY DEF QuotaInv
<1> QED  BY <1>1, <1>2, <1>3, PTL DEF Spec

\* Any job fits where none runs: the quotas are not 0, and the total of no jobs is
\* counted as 0.
LEMMA OneFits == ASSUME NEW j \in Job PROVE Fits({}, {j})
<1>1. CountedTotal({}) = 0
  <2>1. {x \in {} \X {PartOf[i] : i \in {}} :
           /\ ServerOf[PartOf[x[1]]] = ServerOf[x[2]]
           /\ GroupRank[PartOf[x[1]]] <= GroupRank[x[2]]} = {}
    OBVIOUS
  <2> QED  BY <2>1, FS_EmptySet DEF CountedTotal
<1>2. \A S \in SUBSET {j} : S # {} => S = {j}
  OBVIOUS
<1>3. Cardinality({}) = 0 /\ Cardinality({j}) = 1
  BY FS_EmptySet, FS_Singleton
<1>4. \A s : OnServer({}, s) = {} /\ OnServer({j}, s) \in SUBSET {j}
  BY DEF OnServer
<1>5. \A p : OnPartition({}, p) = {} /\ OnPartition({j}, p) \in SUBSET {j}
  BY DEF OnPartition
<1>6. CountedTotal({}) + Cardinality({j}) <= TotalQuota
  BY <1>1, <1>3, QuotaAssumption
<1>7. \A s \in Server : OnServer({j}, s) # {} =>
        Cardinality(OnServer({}, s)) + Cardinality(OnServer({j}, s)) <= ServerQuota
  <2>1. ASSUME NEW s \in Server, OnServer({j}, s) # {}
        PROVE  OnServer({}, s) = {} /\ OnServer({j}, s) = {j}
    BY <1>2, <1>4, <2>1
  <2>2. 0 + 1 <= ServerQuota
    BY QuotaAssumption
  <2>3. ASSUME NEW s \in Server, OnServer({j}, s) # {}
        PROVE  Cardinality(OnServer({}, s)) = 0 /\ Cardinality(OnServer({j}, s)) = 1
    BY <1>3, <2>1, <2>3
  <2> QED  BY <2>2, <2>3
<1>8. \A p \in Partition : OnPartition({j}, p) # {} =>
        Cardinality(OnPartition({}, p)) + Cardinality(OnPartition({j}, p)) <= PartQuota
  <2>1. ASSUME NEW p \in Partition, OnPartition({j}, p) # {}
        PROVE  OnPartition({}, p) = {} /\ OnPartition({j}, p) = {j}
    BY <1>2, <1>5, <2>1
  <2>2. 0 + 1 <= PartQuota
    BY QuotaAssumption
  <2>3. ASSUME NEW p \in Partition, OnPartition({j}, p) # {}
        PROVE  Cardinality(OnPartition({}, p)) = 0 /\ Cardinality(OnPartition({j}, p)) = 1
    BY <1>3, <2>1, <2>3
  <2> QED  BY <2>2, <2>3
<1> QED  BY <1>6, <1>7, <1>8 DEF Fits

\* A scheduling child that counted no running job, and finds jobs that wait, starts
\* one of them at least: however high get_counts makes the total of a server with
\* several partitions, it may delay jobs but never stops the run.
THEOREM SomethingStarts ==
  Spec => [][\A r \in Run, s \in Scheduling :
               Schedule(r, s) /\ counted[r] = {} /\ Waiting(r, s) # {} =>
                 \E j \in Waiting(r, s) : row'[j].running]_vars
<1> DEFINE Starts == \A r \in Run, s \in Scheduling :
             Schedule(r, s) /\ counted[r] = {} /\ Waiting(r, s) # {} =>
               \E j \in Waiting(r, s) : row'[j].running
<1>1. ASSUME TypeOK, NEW r \in Run, NEW s \in Scheduling, Schedule(r, s),
             counted[r] = {}, Waiting(r, s) # {}
      PROVE  \E j \in Waiting(r, s) : row'[j].running
  <2>1. PICK S \in Batches({}, Waiting(r, s)) :
          UpdateRows(S, LAMBDA x : [Timed(x, s.ready) EXCEPT !.running = TRUE])
    BY <1>1 DEF Schedule
  <2>2. Waiting(r, s) \subseteq Job
    BY DEF Waiting, JobsOf
  <2>3. S # {}
    <3>1. PICK j \in Waiting(r, s) : TRUE
      BY <1>1
    <3> QED  BY <2>1, <2>2, <3>1, OneFits DEF Batches
  <2>4. PICK j \in S : j \in Waiting(r, s) /\ j \in Job
    BY <2>1, <2>2, <2>3 DEF Batches
  <2>5. row'[j] = [Timed(row[j], s.ready) EXCEPT !.running = TRUE]
    BY <2>1, <2>4 DEF UpdateRows
  <2>6. Timed(row[j], s.ready) \in Row
    BY <1>1, <2>4, SchedulingFacts, StateFacts, RowType DEF TypeOK
  <2>7. row'[j].running
    BY <2>5, <2>6 DEF Row
  <2> QED  BY <2>4, <2>7
<1>2. TypeOK => [Starts]_vars
  BY <1>1
<1> QED  BY <1>2, TypeCorrect, PTL

-----------------------------------------------------------------------------
(***************************************************************************)
(* Slots and ends.  A row that can time out is active, and the copies of   *)
(* the children are in *_WORK states, so that neither the sweep nor a late *)
(* child finds the row of a job that ended.                                *)
(***************************************************************************)

WorkStates == {"CLONE_WORK", "DUMP_WORK", "DUMP_RECOVER_WORK"}

RowOk(r) ==
  /\ r.running <=> r.state \in ActiveStates
  /\ r.timed => r.state \in ActiveStates

SlotInv ==
  /\ TypeOK
  /\ \A j \in Job : RowOk(row[j])
  /\ \A k \in kids : k.state \in WorkStates

\* The states that hold a slot, by name.
LEMMA ActiveFacts ==
  /\ ActiveStates = {"CLONE_READY", "CLONE_START", "CLONE_WORK",
                     "DUMP_READY", "DUMP_START", "DUMP_WORK",
                     "ERROR", "DUMP_RECOVER_START", "DUMP_RECOVER_WORK"}
  /\ WorkStates \subseteq ActiveStates
  BY DEF ActiveStates, CloneStates, DumpStates, RetryStates, WorkStates

-----------------------------------------------------------------------------
(***************************************************************************)
(* The updates of a row.                                                   *)
(***************************************************************************)

\* Only Timed lets a row time out.
LEMMA TimedField ==
  ASSUME NEW r \in Row, NEW s \in State
  PROVE  ~ Untimed(r, s).timed /\ ~ Release(r, s).timed
<1> DEFINE Moved == [r EXCEPT !.state = s]
<1> DEFINE Bumped == [Moved EXCEPT !.dv = r.dv + 1]
<1>1. Moved \in Row
  BY DEF Row
<1>2. Bumped \in Row
  <2> HIDE DEF Moved
  <2> QED  BY <1>1 DEF Row
<1>3. ~ [Bumped EXCEPT !.timed = FALSE].timed
  <2> HIDE DEF Bumped
  <2> QED  BY <1>2 DEF Row
<1>4. Untimed(r, s) = [Bumped EXCEPT !.timed = FALSE]
  BY Zenon DEF Untimed
<1>5. ~ Untimed(r, s).timed
  <2> HIDE DEF Bumped
  <2> QED  BY <1>3, <1>4
<1>6. Untimed(r, s) \in Row
  BY RowType
<1> QED  BY <1>5, <1>6 DEF Release, Row

\* A job with a slot moves to another active state and keeps it; Release ends
\* it; a job without a slot moves where none is needed.
LEMMA UpdateOk ==
  ASSUME NEW r \in Row, NEW s \in State
  PROVE  /\ s \in ActiveStates /\ r.running => RowOk(Timed(r, s))
         /\ s \in ActiveStates /\ r.running => RowOk(Untimed(r, s))
         /\ s \notin ActiveStates => RowOk(Release(r, s))
         /\ s \notin ActiveStates /\ ~ r.running => RowOk(Untimed(r, s))
BY RowFields, TimedField DEF RowOk

\* The other fields do not matter.
LEMMA FieldOk ==
  ASSUME NEW r \in Row, RowOk(r)
  PROVE  /\ \A s : RowOk([r EXCEPT !.last = s])
         /\ \A n : RowOk([r EXCEPT !.errors = n])
         /\ RowOk([r EXCEPT !.skipped = TRUE])
BY DEF RowOk, Row

\* An error keeps the slot for the retry, or ends the job.
LEMMA ErroredOk ==
  ASSUME NEW r \in Row, r.running, NEW seen, seen.state \in State,
         seen.errors \in Nat
  PROVE  RowOk(Errored(r, seen))
<1>1. CASE seen.state \in RetryStates
  BY <1>1, StateFacts, ActiveFacts, UpdateOk DEF Errored
<1>2. CASE seen.state \notin RetryStates
  <2> DEFINE Moved == Untimed(r, "ERROR")
  <2> DEFINE Marked == [Moved EXCEPT !.last = seen.state]
  <2>1. Moved \in Row /\ RowOk(Moved)
    BY StateFacts, ActiveFacts, RowType, UpdateOk
  <2>2. Marked \in Row /\ RowOk(Marked)
    <3> HIDE DEF Moved
    <3>1. Marked \in Row
      BY <2>1 DEF Row
    <3> QED  BY <2>1, <3>1, FieldOk
  <2>3. RowOk([Marked EXCEPT !.errors = seen.errors + 1])
    <3> HIDE DEF Marked
    <3> QED  BY <2>2, FieldOk
  <2>4. Errored(r, seen) = [Marked EXCEPT !.errors = seen.errors + 1]
    BY <1>2, Zenon DEF Errored
  <2> HIDE DEF Marked
  <2> QED  BY <2>3, <2>4
<1> QED  BY <1>1, <1>2

-----------------------------------------------------------------------------
(***************************************************************************)
(* The steps.                                                              *)
(***************************************************************************)

\* A step changes only jobs that have not ended, and what it makes of them
\* holds a slot if and only if it is active.
OnlyLive ==
  \A j \in Job :
    \/ row'[j] = row[j]
    \/ row[j].state \notin {"DONE", "FAILED"} /\ RowOk(row'[j])

\* A child that still finds its row finds an active one.
LEMMA FreshIsActive ==
  ASSUME SlotInv, NEW k \in kids, Fresh(k)
  PROVE  /\ k.job \in Job /\ row[k.job] \in Row
         /\ row[k.job].state \in ActiveStates
         /\ row[k.job].state \in State
         /\ row[k.job].running
         /\ row[k.job].state \notin {"DONE", "FAILED"}
<1>1. k.job \in Job /\ row[k.job] \in Row
  BY DEF SlotInv, TypeOK, Kid
<1>2. row[k.job].state \in ActiveStates
  BY ActiveFacts DEF SlotInv, Fresh
<1> QED  BY <1>1, <1>2, ActiveFacts DEF SlotInv, RowOk, Row

\* A child's last update.
LEMMA FinishLive ==
  ASSUME SlotInv, NEW k \in kids, NEW new, Finish(k, new), RowOk(new)
  PROVE  OnlyLive
<1>1. Fresh(k) /\ row' = [row EXCEPT ![k.job] = new]
  BY DEF Finish
<1> QED  BY <1>1, FreshIsActive DEF OnlyLive, SlotInv, TypeOK

\* A child's update on the way.
LEMMA TouchLive ==
  ASSUME SlotInv, NEW k \in kids, NEW at, Touch(k, at)
  PROVE  OnlyLive
<1> DEFINE new == Timed(row[k.job], row[k.job].state)
<1>1. Fresh(k) /\ row' = [row EXCEPT ![k.job] = new]
  BY Zenon DEF Touch
<1>2. RowOk(new)
  BY <1>1, FreshIsActive, UpdateOk
<1> HIDE DEF new
<1> QED  BY <1>1, <1>2, FreshIsActive DEF OnlyLive, SlotInv, TypeOK

\* The steps of the children.
LEMMA KidLive ==
  ASSUME SlotInv, NEW k \in kids, KidStep(k)
  PROVE  OnlyLive
<1>0. /\ k \in Kid /\ k.job \in Job /\ row[k.job] \in Row
  BY DEF SlotInv, TypeOK, Kid
<1>1. CASE \E at : Touch(k, at)
  BY <1>1, TouchLive
<1>2. ASSUME NEW s \in State \ ActiveStates, Finish(k, Release(row[k.job], s))
      PROVE  OnlyLive
  <2>1. RowOk(Release(row[k.job], s))
    BY <1>0, UpdateOk
  <2> QED  BY <1>2, <2>1, FinishLive
<1>3. ASSUME Finish(k, [Release(row[k.job], "DUMP_SKIPPED") EXCEPT !.skipped = TRUE])
      PROVE  OnlyLive
  <2> DEFINE gone == Release(row[k.job], "DUMP_SKIPPED")
  <2>1. gone \in Row /\ RowOk(gone)
    BY <1>0, StateFacts, ActiveFacts, RowType, UpdateOk
  <2>2. RowOk([gone EXCEPT !.skipped = TRUE])
    <3> HIDE DEF gone
    <3> QED  BY <2>1, FieldOk
  <2> HIDE DEF gone
  <2> QED  BY <1>3, <2>2, FinishLive DEF gone
<1>4. ASSUME row' = row PROVE OnlyLive
  BY <1>4 DEF OnlyLive
<1>5. CASE Clone(k) \/ Fetch(k)
  BY <1>1, <1>5, Zenon DEF Clone, Fetch
<1>6. CASE Cloned(k) \/ Dumped(k)
  BY <1>2, <1>6, StateFacts, ActiveFacts DEF Cloned, Dumped
<1>7. CASE Skip(k)
  BY <1>3, <1>7 DEF Skip
<1>8. CASE Reject(k)
  BY <1>3, <1>4, <1>8 DEF Reject
<1>9. CASE Commit(k) \/ Record(k) \/ LoseRow(k)
  BY <1>4, <1>9 DEF Commit, Record, LoseRow
<1>10. CASE Scan(k)
  <2> DEFINE r == Timed(row[k.job], row[k.job].state)
  <2>1. CASE /\ Fresh(k)
             /\ row' = [row EXCEPT ![k.job] =
                          [Timed(@, @.state) EXCEPT !.errors = k.errors + 1]]
    <3>1. r \in Row /\ RowOk(r)
      BY <2>1, FreshIsActive, RowType, UpdateOk
    <3>2. RowOk([r EXCEPT !.errors = k.errors + 1])
      <4> HIDE DEF r
      <4> QED  BY <3>1, FieldOk
    <3>3. row' = [row EXCEPT ![k.job] = [r EXCEPT !.errors = k.errors + 1]]
      BY <2>1, Zenon
    <3> HIDE DEF r
    <3> QED  BY <2>1, <3>2, <3>3, FreshIsActive DEF OnlyLive, SlotInv, TypeOK
  <2> QED  BY <1>1, <1>10, <2>1, Zenon DEF Scan
<1>11. CASE Recover(k)
  <2> DEFINE r == row[k.job]
  <2> DEFINE back == [Untimed(r, RetryState[r.last]) EXCEPT !.last = NoState]
  <2>1. CASE GiveUp(k)
    <3>1. Finish(k, Release(row[k.job], "FAILED"))
      BY <1>11, <2>1 DEF Recover
    <3> QED  BY <1>2, <3>1, StateFacts, ActiveFacts
  <2>2. CASE ~ GiveUp(k)
    <3>1. Finish(k, back)
      BY <1>11, <2>2 DEF Recover
    <3>2. RetryState[r.last] \in State /\ RetryState[r.last] \in ActiveStates
      BY <2>2, StateFacts, ActiveFacts DEF GiveUp, RetryState
    <3>3. Fresh(k)
      BY <3>1 DEF Finish
    <3>4. /\ Untimed(r, RetryState[r.last]) \in Row
          /\ RowOk(Untimed(r, RetryState[r.last]))
      BY <1>0, <3>2, <3>3, FreshIsActive, RowType, UpdateOk
    <3>5. RowOk(back)
      BY <3>4, FieldOk
    <3> HIDE DEF back
    <3> QED  BY <3>1, <3>5, FinishLive
  <2> QED  BY <2>1, <2>2
<1>12. CASE Fail(k)
  <2>1. k.state \in State /\ k.errors \in Nat
    BY <1>0 DEF Kid
  <2>2. Finish(k, Errored(row[k.job], k))
    BY <1>12 DEF Fail
  <2>3. RowOk(Errored(row[k.job], k))
    BY <2>1, <2>2, FreshIsActive, ErroredOk DEF Finish
  <2> QED  BY <2>2, <2>3, FinishLive
<1> QED  BY <1>5, <1>6, <1>7, <1>8, <1>9, <1>10, <1>11, <1>12 DEF KidStep

\* The passes of the server, and the sweep: they take up jobs in states that
\* hold a slot, end jobs that gave theirs up, and flag what can time out.
LEMMA ServerLive ==
  ASSUME SlotInv, ServerStep \/ CheckStale
  PROVE  OnlyLive
<1>0. \A j \in Job : row[j] \in Row /\ RowOk(row[j])
  BY DEF SlotInv, TypeOK
<1>1. ASSUME NEW pass \in Passes, TakeUp(pass) PROVE OnlyLive
  <2>1. ASSUME NEW j \in InState(pass.from)
        PROVE  /\ row[j].state \notin {"DONE", "FAILED"}
               /\ RowOk(Untimed(row[j], pass.start))
    <3>1. j \in Job /\ row[j].state \in ActiveStates
      BY PassFacts, ActiveFacts DEF InState
    <3>2. row[j].running
      BY <1>0, <3>1 DEF RowOk
    <3>3. pass.start \in State /\ pass.start \in ActiveStates
      BY PassFacts, StateFacts, ActiveFacts
    <3> QED  BY <1>0, <3>1, <3>2, <3>3, ActiveFacts, UpdateOk
  <2> QED  BY <1>1, <2>1 DEF TakeUp, UpdateRows, OnlyLive
<1>2. ASSUME NEW pass \in Passes, Fork(pass) PROVE OnlyLive
  <2>1. ASSUME NEW j \in InState(pass.start)
        PROVE  /\ row[j].state \notin {"DONE", "FAILED"}
               /\ RowOk(Timed(row[j], pass.work))
    <3>1. j \in Job /\ row[j].state \in ActiveStates
      BY PassFacts, ActiveFacts DEF InState
    <3>2. row[j].running
      BY <1>0, <3>1 DEF RowOk
    <3>3. pass.work \in State /\ pass.work \in ActiveStates
      BY PassFacts, StateFacts, ActiveFacts
    <3> QED  BY <1>0, <3>1, <3>2, <3>3, ActiveFacts, UpdateOk
  <2>2. UpdateRows(InState(pass.start), LAMBDA r : Timed(r, pass.work))
    BY <1>2 DEF Fork
  <2> QED  BY <2>1, <2>2 DEF UpdateRows, OnlyLive
<1>3. ASSUME NEW from \in {"DUMP_DONE", "DUMP_SKIPPED"}, Retire(from)
      PROVE  OnlyLive
  <2>1. ASSUME NEW j \in InState(from)
        PROVE  /\ row[j].state \notin {"DONE", "FAILED"}
               /\ RowOk(Untimed(row[j], "DONE"))
    <3>1. /\ j \in Job
          /\ row[j].state \notin ActiveStates
          /\ row[j].state \notin {"DONE", "FAILED"}
      BY <1>3, ActiveFacts DEF InState
    <3>2. ~ row[j].running
      BY <1>0, <3>1 DEF RowOk
    <3> QED  BY <1>0, <3>1, <3>2, StateFacts, ActiveFacts, UpdateOk
  <2> QED  BY <1>3, <2>1 DEF Retire, UpdateRows, OnlyLive
<1>4. ASSUME CheckStale PROVE OnlyLive
  <2>1. ASSUME NEW j \in Job, row[j].timed
        PROVE  /\ row[j].state \notin {"DONE", "FAILED"}
               /\ RowOk(Errored(row[j], row[j]))
    <3>1. row[j].state \in ActiveStates /\ row[j].running
      BY <1>0, <2>1 DEF RowOk
    <3>2. row[j].state \in State /\ row[j].errors \in Nat
      BY <1>0 DEF Row
    <3> QED  BY <1>0, <3>1, <3>2, ActiveFacts, ErroredOk
  <2> QED  BY <1>4, <2>1 DEF CheckStale, UpdateRows, OnlyLive
<1> QED  BY <1>1, <1>2, <1>3, <1>4 DEF ServerStep

\* The steps of a run: pending jobs get a slot with an active state, cloned
\* ones wait without one.
LEMMA RunLive ==
  ASSUME SlotInv, NEW r \in Run, RunStep(r)
  PROVE  OnlyLive
<1>0. \A j \in Job : row[j] \in Row /\ RowOk(row[j])
  BY DEF SlotInv, TypeOK
<1>1. ASSUME NEW s \in Scheduling, CountRunning(r, s) PROVE OnlyLive
  BY <1>1 DEF CountRunning, OnlyLive
<1>2. ASSUME NEW s \in Scheduling, Schedule(r, s) PROVE OnlyLive
  <2>1. PICK S \in Batches(counted[r], Waiting(r, s)) :
          UpdateRows(S, LAMBDA x : [Timed(x, s.ready) EXCEPT !.running = TRUE])
    BY <1>2 DEF Schedule
  <2>2. S \subseteq InState(s.pending)
    BY <2>1 DEF Batches, Waiting
  <2>3. ASSUME NEW j \in S
        PROVE  /\ row[j].state \notin {"DONE", "FAILED"}
               /\ RowOk([Timed(row[j], s.ready) EXCEPT !.running = TRUE])
    <3> DEFINE x == Timed(row[j], s.ready)
    <3>1. j \in Job /\ row[j].state \in {"CLONE_PENDING", "DUMP_PENDING"}
      BY <2>2, SchedulingFacts DEF InState
    <3>2. s.ready \in State /\ s.ready \in ActiveStates
      BY SchedulingFacts, StateFacts, ActiveFacts
    <3>3. x \in Row /\ x.state \in ActiveStates
      BY <1>0, <3>1, <3>2, RowType, RowFields
    <3>4. RowOk([x EXCEPT !.running = TRUE])
      <4> HIDE DEF x
      <4> QED  BY <3>3 DEF Row, RowOk
    <3> QED  BY <3>1, <3>4
  <2> QED  BY <2>1, <2>3 DEF UpdateRows, OnlyLive
<1>3. ASSUME CreateDumps(r) PROVE OnlyLive
  <2>1. ASSUME NEW j \in InState("CLONE_DONE")
        PROVE  /\ row[j].state \notin {"DONE", "FAILED"}
               /\ RowOk(Untimed(row[j], "DUMP_PENDING"))
    <3>1. j \in Job /\ row[j].state = "CLONE_DONE"
      BY DEF InState
    <3>2. ~ row[j].running
      BY <1>0, <3>1, ActiveFacts DEF RowOk
    <3> QED  BY <1>0, <3>1, <3>2, StateFacts, ActiveFacts, UpdateOk
  <2> QED  BY <1>3, <2>1 DEF CreateDumps, UpdateRows, OnlyLive
<1>4. ASSUME Report(r) PROVE OnlyLive
  BY <1>4 DEF Report, OnlyLive
<1>5. ASSUME NEW s \in Scheduling, Look(r, s) PROVE OnlyLive
  BY <1>5, LookFacts DEF OnlyLive
<1> QED  BY <1>1, <1>2, <1>3, <1>4, <1>5 DEF RunStep, Look

\* Every step.
LEMMA NextLive == SlotInv /\ [Next]_vars => OnlyLive
<1> SUFFICES ASSUME SlotInv, [Next]_vars PROVE OnlyLive
  OBVIOUS
<1>1. ASSUME NEW k \in kids, Die(k) PROVE OnlyLive
  BY <1>1 DEF Die, OnlyLive
<1>2. CASE UNCHANGED vars
  BY <1>2 DEF vars, OnlyLive
<1> QED  BY <1>1, <1>2, ServerLive, RunLive, KidLive DEF Next

-----------------------------------------------------------------------------
(***************************************************************************)
(* The children's copies.                                                  *)
(***************************************************************************)

\* A child keeps the state it was forked in.
LEMMA KidsKeepState ==
  ASSUME SlotInv, NEW k \in kids, KidStep(k)
  PROVE  \A l \in kids' : l.state \in WorkStates
<1>0. k \in Kid
  BY DEF SlotInv, TypeOK
<1>1. ASSUME NEW at, Touch(k, at) PROVE \A l \in kids' : l.state \in WorkStates
  <2>1. kids' = (kids \ {k}) \cup {[k EXCEPT !.at = at, !.dv = @ + 1]}
    BY <1>1, Zenon DEF Touch, Replace
  <2>2. [k EXCEPT !.at = at, !.dv = @ + 1].state = k.state
    BY <1>0 DEF Kid
  <2> QED  BY <2>1, <2>2 DEF SlotInv
<1>2. ASSUME NEW at, Replace(k, [k EXCEPT !.at = at])
      PROVE  \A l \in kids' : l.state \in WorkStates
  BY <1>0, <1>2 DEF Replace, SlotInv, Kid
<1>3. ASSUME Exit(k) PROVE \A l \in kids' : l.state \in WorkStates
  BY <1>3 DEF Exit, SlotInv
<1>4. ASSUME Replace(k, [k EXCEPT !.at = "commit", !.dv = @ + 1, !.errors = @ + 1])
      PROVE  \A l \in kids' : l.state \in WorkStates
  <2> DEFINE new == [k EXCEPT !.at = "commit", !.dv = @ + 1, !.errors = @ + 1]
  <2>1. new.state = k.state
    BY <1>0 DEF Kid
  <2>2. kids' = (kids \ {k}) \cup {new}
    BY <1>4 DEF Replace
  <2> HIDE DEF new
  <2> QED  BY <2>1, <2>2 DEF SlotInv
<1>5. CASE Clone(k) \/ Fetch(k)
  BY <1>1, <1>5, Zenon DEF Clone, Fetch
<1>6. CASE Scan(k)
  BY <1>1, <1>4, <1>6, Zenon DEF Scan
<1>7. CASE Commit(k) \/ Record(k)
  BY <1>2, <1>7, Zenon DEF Commit, Record
<1>8. CASE \/ Cloned(k) \/ Skip(k) \/ Dumped(k) \/ Reject(k) \/ Recover(k)
           \/ Fail(k) \/ LoseRow(k)
  BY <1>3, <1>8, Zenon DEF Cloned, Skip, Dumped, Reject, Recover, Fail,
                          LoseRow, Finish
<1> QED  BY <1>5, <1>6, <1>7, <1>8 DEF KidStep

\* Children are forked in *_WORK states only.
LEMMA NextWork ==
  ASSUME SlotInv, [Next]_vars
  PROVE  \A k \in kids' : k.state \in WorkStates
<1>1. ASSUME NEW pass \in Passes, Fork(pass)
      PROVE  \A k \in kids' : k.state \in WorkStates
  BY <1>1, PassFacts DEF Fork, SlotInv, WorkStates
<1>2. ASSUME NEW k \in kids, Die(k)
      PROVE  \A l \in kids' : l.state \in WorkStates
  BY <1>2 DEF Die, Exit, SlotInv
<1>3. ASSUME kids' = kids PROVE \A k \in kids' : k.state \in WorkStates
  BY <1>3 DEF SlotInv
<1>4. CASE ServerStep
  BY <1>1, <1>3, <1>4 DEF ServerStep, TakeUp, Retire
<1>5. CASE CheckStale
  BY <1>3, <1>5 DEF CheckStale
<1>6. ASSUME NEW r \in Run, RunStep(r)
      PROVE  \A k \in kids' : k.state \in WorkStates
  BY <1>3, <1>6, LookFacts DEF RunStep, Look, CountRunning, Schedule, CreateDumps, Report
<1>7. CASE UNCHANGED vars
  BY <1>3, <1>7 DEF vars
<1> QED  BY <1>2, <1>4, <1>5, <1>6, <1>7, KidsKeepState DEF Next

-----------------------------------------------------------------------------

\* At first every job is pending, without a slot, a time-out or a child.
LEMMA InitSlots == Init => SlotInv
<1> SUFFICES ASSUME Init PROVE SlotInv
  OBVIOUS
<1>1. RowOk(NewRow)
  BY ActiveFacts DEF RowOk, NewRow
<1> QED  BY <1>1, InitType DEF Init, SlotInv

\* The invariant is inductive.
LEMMA NextSlots == SlotInv /\ [Next]_vars => SlotInv'
<1> SUFFICES ASSUME SlotInv, [Next]_vars PROVE SlotInv'
  OBVIOUS
<1>1. TypeOK'
  BY NextType DEF SlotInv
<1>2. \A j \in Job : RowOk(row'[j])
  BY NextLive DEF SlotInv, OnlyLive
<1>3. (\A j \in Job : RowOk(row[j]))'
  BY <1>2 DEF RowOk
<1> QED  BY <1>1, <1>3, NextWork DEF SlotInv

\* A row says "running" exactly while its job holds a quota slot, through all
\* errors, retries, time-outs and late children.
THEOREM NoSlotLeaks == Spec => []RunningIffActive
<1>1. SlotInv => RunningIffActive
  BY DEF SlotInv, RowOk, RunningIffActive
<1> QED  BY <1>1, InitSlots, NextSlots, PTL DEF Spec

\* A job that is DONE or FAILED stays as it is: neither the server nor a child
\* that was given up as stale changes its row.
THEOREM EndsStay == Spec => EndIsFinal
<1> DEFINE Keeps == \A j \in Job : row[j].state \in {"DONE", "FAILED"} => row'[j] = row[j]
<1>1. SlotInv /\ [Next]_vars => [Keeps]_vars
  BY NextLive DEF OnlyLive
<1> QED  BY <1>1, InitSlots, NextSlots, PTL DEF Spec, EndIsFinal

-----------------------------------------------------------------------------
(***************************************************************************)
(* One writer.  However many children were forked for a job after          *)
(* time-outs, at most one of them can still write its row.  The reason is  *)
(* the data version: every update of a row moves it on, no child is ever   *)
(* ahead of its row, and a child that catches up with it is the one that   *)
(* just wrote it or was just forked for it.                                *)
(***************************************************************************)

\* No child's copy is newer than the row.
Behind == \A k \in kids : k.dv <= row[k.job].dv

OwnerInv == TypeOK /\ Behind /\ OneOwner

-----------------------------------------------------------------------------
(***************************************************************************)
(* The two kinds of steps.                                                 *)
(***************************************************************************)

\* The rows of the jobs in S move on, and the children in N, at most one for
\* each of these jobs, are up to date with them.
Advance(S, N) ==
  /\ \A j \in S : row'[j].dv > row[j].dv
  /\ \A j \in Job \ S : row'[j] = row[j]
  /\ kids' \subseteq kids \cup N
  /\ \A n \in N : n.job \in S /\ n.dv = row'[n.job].dv
  /\ \A m, n \in N : m.job = n.job => m = n

\* Such a step leaves each row to the child in N, if there is one: all other
\* copies are out of date.
LEMMA AdvanceKeeps ==
  ASSUME OwnerInv, TypeOK', NEW S \in SUBSET Job, NEW N, Advance(S, N)
  PROVE  OwnerInv'
<1>1. ASSUME NEW k \in kids'
      PROVE  /\ k.job \in Job /\ row[k.job].dv \in Nat /\ row'[k.job].dv \in Nat
             /\ k.dv \in Nat
  BY DEF OwnerInv, TypeOK, Kid, Row
<1>2. ASSUME NEW k \in kids' PROVE k.dv <= row'[k.job].dv
  <2>1. CASE k \in N
    BY <1>1, <2>1 DEF Advance
  <2>2. CASE k \in kids
    <3>1. k.dv <= row[k.job].dv
      BY <2>2 DEF OwnerInv, Behind
    <3> QED  BY <1>1, <3>1 DEF Advance
  <2> QED  BY <2>1, <2>2 DEF Advance
<1>3. ASSUME NEW k \in kids', NEW l \in kids', k.job = l.job, Fresh(k)', Fresh(l)'
      PROVE  k = l
  <2>1. CASE k.job \in S
    <3>1. ASSUME NEW m \in kids', m.job \in S, m.dv = row'[m.job].dv PROVE m \in N
      <4>1. row[m.job].dv < m.dv
        BY <1>1, <3>1 DEF Advance
      <4>2. ~ (m.dv <= row[m.job].dv)
        BY <1>1, <4>1
      <4> QED  BY <4>2 DEF Advance, OwnerInv, Behind
    <3> QED  BY <1>3, <2>1, <3>1 DEF Fresh, Advance
  <2>2. CASE k.job \notin S
    <3>1. k \in kids /\ l \in kids
      BY <1>3, <2>2 DEF Advance
    <3>2. row'[k.job] = row[k.job]
      BY <1>1, <2>2 DEF Advance
    <3> QED  BY <1>3, <3>1, <3>2 DEF Fresh, OwnerInv, OneOwner
  <2> QED  BY <2>1, <2>2
<1>4. Behind'
  BY <1>2 DEF Behind
<1>5. OneOwner'
  BY <1>3 DEF OneOwner
<1> QED  BY <1>4, <1>5 DEF OwnerInv

\* A child goes on and writes no row.
LEMMA GoKeeps ==
  ASSUME OwnerInv, TypeOK', NEW k \in kids, NEW at,
         Replace(k, [k EXCEPT !.at = at]), UNCHANGED row
  PROVE  OwnerInv'
<1> DEFINE new == [k EXCEPT !.at = at]
<1>1. new.job = k.job /\ new.state = k.state /\ new.dv = k.dv
  BY DEF OwnerInv, TypeOK, Kid
<1>2. kids' = (kids \ {k}) \cup {new} /\ row' = row
  BY DEF Replace
<1> HIDE DEF new
<1>3. Behind'
  BY <1>1, <1>2 DEF OwnerInv, Behind
<1>4. OneOwner'
  BY <1>1, <1>2 DEF OwnerInv, OneOwner, Fresh
<1> QED  BY <1>3, <1>4 DEF OwnerInv

-----------------------------------------------------------------------------
(***************************************************************************)
(* Every update moves the data version.                                    *)
(***************************************************************************)

\* Timed, Untimed and Release, whatever else they set.
LEMMA UpdateMoves ==
  ASSUME NEW r \in Row, NEW s \in State
  PROVE  /\ Timed(r, s).dv > r.dv /\ Untimed(r, s).dv > r.dv
         /\ Release(r, s).dv > r.dv
<1>1. r.dv \in Nat
  BY DEF Row
<1> QED  BY <1>1, RowFields

\* The other fields do not matter.
LEMMA FieldMoves ==
  ASSUME NEW r \in Row
  PROVE  /\ \A s : [r EXCEPT !.last = s].dv = r.dv
         /\ \A n : [r EXCEPT !.errors = n].dv = r.dv
         /\ [r EXCEPT !.skipped = TRUE].dv = r.dv
         /\ [r EXCEPT !.running = TRUE].dv = r.dv
BY DEF Row

\* An error.
LEMMA ErroredMoves ==
  ASSUME NEW r \in Row, NEW seen, seen.state \in State, seen.errors \in Nat
  PROVE  Errored(r, seen).dv > r.dv
<1>1. CASE seen.state \in RetryStates
  BY <1>1, StateFacts, UpdateMoves DEF Errored
<1>2. CASE seen.state \notin RetryStates
  <2> DEFINE Moved == Untimed(r, "ERROR")
  <2> DEFINE Marked == [Moved EXCEPT !.last = seen.state]
  <2>1. Moved \in Row /\ Moved.dv > r.dv
    BY StateFacts, RowType, UpdateMoves
  <2>2. Marked \in Row /\ Marked.dv > r.dv
    <3> HIDE DEF Moved
    <3>1. Marked \in Row
      BY <2>1 DEF Row
    <3>2. Marked.dv = Moved.dv
      BY <2>1, FieldMoves
    <3> QED  BY <2>1, <3>1, <3>2
  <2>3. [Marked EXCEPT !.errors = seen.errors + 1].dv > r.dv
    <3> HIDE DEF Marked
    <3> QED  BY <2>2, FieldMoves
  <2>4. Errored(r, seen) = [Marked EXCEPT !.errors = seen.errors + 1]
    BY <1>2, Zenon DEF Errored
  <2> HIDE DEF Marked
  <2> QED  BY <2>3, <2>4
<1> QED  BY <1>1, <1>2

-----------------------------------------------------------------------------
(***************************************************************************)
(* The steps.                                                              *)
(***************************************************************************)

\* A child's last update.
LEMMA FinishKeeps ==
  ASSUME OwnerInv, TypeOK', NEW k \in kids, NEW new, Finish(k, new),
         new.dv > row[k.job].dv
  PROVE  OwnerInv'
<1>1. k.job \in Job
  BY DEF OwnerInv, TypeOK, Kid
<1>2. row' = [row EXCEPT ![k.job] = new] /\ kids' = kids \ {k}
  BY DEF Finish, Exit
<1>3. row'[k.job] = new /\ \A j \in Job \ {k.job} : row'[j] = row[j]
  BY <1>1, <1>2 DEF OwnerInv, TypeOK
<1>4. Advance({k.job}, {})
  BY <1>2, <1>3 DEF Advance
<1> QED  BY <1>1, <1>4, AdvanceKeeps

\* A child's update on the way: it stays the owner.
LEMMA OwnerMoves ==
  ASSUME OwnerInv, TypeOK', NEW k \in kids, Fresh(k), NEW new, NEW moved,
         new.dv = row[k.job].dv + 1, row' = [row EXCEPT ![k.job] = new],
         moved.job = k.job, moved.dv = k.dv + 1, Replace(k, moved)
  PROVE  OwnerInv'
<1>1. k.job \in Job /\ row[k.job].dv \in Nat /\ k.dv = row[k.job].dv
  BY DEF OwnerInv, TypeOK, Kid, Row, Fresh
<1>2. row'[k.job] = new /\ \A j \in Job \ {k.job} : row'[j] = row[j]
  BY <1>1 DEF OwnerInv, TypeOK
<1>3. kids' = (kids \ {k}) \cup {moved}
  BY DEF Replace
<1>4. Advance({k.job}, {moved})
  BY <1>1, <1>2, <1>3 DEF Advance
<1> QED  BY <1>1, <1>4, AdvanceKeeps

\* Touch is such an update.
LEMMA TouchKeeps ==
  ASSUME OwnerInv, TypeOK', NEW k \in kids, NEW at, Touch(k, at)
  PROVE  OwnerInv'
<1> DEFINE new == Timed(row[k.job], row[k.job].state)
<1> DEFINE moved == [k EXCEPT !.at = at, !.dv = @ + 1]
<1>1. k \in Kid /\ row[k.job] \in Row /\ row[k.job].state \in State
  BY DEF OwnerInv, TypeOK, Kid, Row
<1>2. Fresh(k) /\ row' = [row EXCEPT ![k.job] = new] /\ Replace(k, moved)
  BY Zenon DEF Touch
<1>3. new.dv = row[k.job].dv + 1
  BY <1>1, RowFields
<1>4. moved.job = k.job /\ moved.dv = k.dv + 1
  BY <1>1 DEF Kid
<1> HIDE DEF new, moved
<1> QED  BY <1>2, <1>3, <1>4, OwnerMoves

\* A child leaves, or nothing happens to rows and children.
LEMMA QuietKeeps ==
  ASSUME OwnerInv, TypeOK', UNCHANGED row, kids' \subseteq kids
  PROVE  OwnerInv'
BY DEF OwnerInv, Behind, OneOwner, Fresh

\* The steps of the children.
LEMMA KidKeeps ==
  ASSUME OwnerInv, TypeOK', NEW k \in kids, KidStep(k)
  PROVE  OwnerInv'
<1>0. k \in Kid /\ k.job \in Job /\ row[k.job] \in Row /\ row[k.job].state \in State
  BY DEF OwnerInv, TypeOK, Kid, Row
<1>1. ASSUME NEW at, Touch(k, at) PROVE OwnerInv'
  BY <1>1, TouchKeeps
<1>2. ASSUME NEW s \in State, Finish(k, Release(row[k.job], s)) PROVE OwnerInv'
  BY <1>0, <1>2, UpdateMoves, FinishKeeps
<1>3. ASSUME Finish(k, [Release(row[k.job], "DUMP_SKIPPED") EXCEPT !.skipped = TRUE])
      PROVE  OwnerInv'
  <2> DEFINE gone == Release(row[k.job], "DUMP_SKIPPED")
  <2>1. gone \in Row /\ gone.dv > row[k.job].dv
    BY <1>0, StateFacts, RowType, UpdateMoves
  <2>2. [gone EXCEPT !.skipped = TRUE].dv > row[k.job].dv
    <3> HIDE DEF gone
    <3> QED  BY <2>1, FieldMoves
  <2> HIDE DEF gone
  <2> QED  BY <1>3, <2>2, FinishKeeps DEF gone
<1>4. ASSUME Exit(k), UNCHANGED row PROVE OwnerInv'
  BY <1>4, QuietKeeps DEF Exit
<1>5. CASE Clone(k) \/ Fetch(k)
  BY <1>1, <1>5, Zenon DEF Clone, Fetch
<1>6. CASE Cloned(k) \/ Dumped(k)
  BY <1>2, <1>6, StateFacts DEF Cloned, Dumped
<1>7. CASE Skip(k)
  BY <1>3, <1>7 DEF Skip
<1>8. CASE Reject(k)
  BY <1>3, <1>4, <1>8 DEF Reject
<1>9. CASE Commit(k) \/ Record(k)
  BY <1>9, GoKeeps, Zenon DEF Commit, Record
<1>10. CASE LoseRow(k)
  BY <1>4, <1>10 DEF LoseRow
<1>11. CASE Scan(k)
  <2> DEFINE r == Timed(row[k.job], row[k.job].state)
  <2> DEFINE moved == [k EXCEPT !.at = "commit", !.dv = @ + 1, !.errors = @ + 1]
  <2>1. CASE /\ Fresh(k)
             /\ row' = [row EXCEPT ![k.job] =
                          [Timed(@, @.state) EXCEPT !.errors = k.errors + 1]]
             /\ Replace(k, moved)
    <3>1. r \in Row /\ r.dv = row[k.job].dv + 1
      BY <1>0, RowType, RowFields
    <3>2. [r EXCEPT !.errors = k.errors + 1].dv = row[k.job].dv + 1
      <4> HIDE DEF r
      <4> QED  BY <3>1, FieldMoves
    <3>3. row' = [row EXCEPT ![k.job] = [r EXCEPT !.errors = k.errors + 1]]
      BY <2>1, Zenon
    <3>4. moved.job = k.job /\ moved.dv = k.dv + 1
      BY <1>0 DEF Kid
    <3> HIDE DEF r, moved
    <3> QED  BY <2>1, <3>2, <3>3, <3>4, OwnerMoves
  <2> QED  BY <1>1, <1>11, <2>1, Zenon DEF Scan
<1>12. CASE Recover(k)
  <2> DEFINE r == row[k.job]
  <2> DEFINE back == [Untimed(r, RetryState[r.last]) EXCEPT !.last = NoState]
  <2>1. CASE GiveUp(k)
    <3>1. Finish(k, Release(row[k.job], "FAILED"))
      BY <1>12, <2>1 DEF Recover
    <3> QED  BY <1>2, <3>1, StateFacts
  <2>2. CASE ~ GiveUp(k)
    <3>1. Finish(k, back)
      BY <1>12, <2>2 DEF Recover
    <3>2. RetryState[r.last] \in State
      BY <2>2, StateFacts DEF GiveUp, RetryState
    <3>3. /\ Untimed(r, RetryState[r.last]) \in Row
          /\ Untimed(r, RetryState[r.last]).dv > r.dv
      BY <1>0, <3>2, RowType, UpdateMoves
    <3>4. back.dv > r.dv
      BY <3>3, FieldMoves
    <3> HIDE DEF back
    <3> QED  BY <3>1, <3>4, FinishKeeps
  <2> QED  BY <2>1, <2>2
<1>13. CASE Fail(k)
  <2>1. k.state \in State /\ k.errors \in Nat
    BY <1>0 DEF Kid
  <2>2. Errored(row[k.job], k).dv > row[k.job].dv
    BY <1>0, <2>1, ErroredMoves
  <2> QED  BY <1>13, <2>2, FinishKeeps DEF Fail
<1> QED  BY <1>5, <1>6, <1>7, <1>8, <1>9, <1>10, <1>11, <1>12, <1>13 DEF KidStep

\* An update of many rows by one statement, without new children.
LEMMA BulkKeeps ==
  ASSUME OwnerInv, TypeOK', NEW S \in SUBSET Job, UNCHANGED kids,
         \A j \in S : row'[j].dv > row[j].dv,
         \A j \in Job \ S : row'[j] = row[j]
  PROVE  OwnerInv'
<1>1. Advance(S, {})
  BY DEF Advance
<1> QED  BY <1>1, AdvanceKeeps

\* The passes of the server and the sweep; a pass that forks gives each job it
\* moves one child.
LEMMA ServerKeeps ==
  ASSUME OwnerInv, TypeOK', ServerStep \/ CheckStale
  PROVE  OwnerInv'
<1>0. \A j \in Job : row[j] \in Row
  BY DEF OwnerInv, TypeOK
<1>1. ASSUME NEW pass \in Passes, TakeUp(pass) PROVE OwnerInv'
  <2>1. \A j \in Job : Untimed(row[j], pass.start).dv > row[j].dv
    BY <1>0, PassFacts, StateFacts, UpdateMoves
  <2>2. InState(pass.from) \in SUBSET Job
    BY DEF InState
  <2> QED  BY <1>1, <2>1, <2>2, BulkKeeps DEF TakeUp, UpdateRows
<1>2. ASSUME NEW pass \in Passes, Fork(pass) PROVE OwnerInv'
  <2> DEFINE S == InState(pass.start)
  <2> DEFINE Child(j) == [job |-> j, at |-> pass.at, state |-> pass.work,
                          dv |-> row[j].dv + 1, errors |-> row[j].errors]
  <2>1. \A j \in Job : /\ Timed(row[j], pass.work).dv > row[j].dv
                       /\ Timed(row[j], pass.work).dv = row[j].dv + 1
    BY <1>0, PassFacts, StateFacts, UpdateMoves, RowFields
  <2>2. UpdateRows(S, LAMBDA r : Timed(r, pass.work))
    BY <1>2 DEF Fork
  <2>3. kids' = kids \cup {Child(j) : j \in S}
    BY <1>2 DEF Fork
  <2>4. S \in SUBSET Job
    BY DEF InState
  <2>5. Advance(S, {Child(j) : j \in S})
    BY <2>1, <2>2, <2>3, <2>4 DEF Advance, UpdateRows
  <2> QED  BY <2>4, <2>5, AdvanceKeeps
<1>3. ASSUME NEW from \in {"DUMP_DONE", "DUMP_SKIPPED"}, Retire(from)
      PROVE  OwnerInv'
  <2>1. \A j \in Job : Untimed(row[j], "DONE").dv > row[j].dv
    BY <1>0, StateFacts, UpdateMoves
  <2>2. InState(from) \in SUBSET Job
    BY DEF InState
  <2> QED  BY <1>3, <2>1, <2>2, BulkKeeps DEF Retire, UpdateRows
<1>4. ASSUME CheckStale PROVE OwnerInv'
  <2>1. \A j \in Job : Errored(row[j], row[j]).dv > row[j].dv
    BY <1>0, ErroredMoves DEF Row
  <2>2. PICK S \in SUBSET {j \in Job : row[j].timed} :
          UpdateRows(S, LAMBDA r : Errored(r, r))
    BY <1>4 DEF CheckStale
  <2>3. S \in SUBSET Job
    OBVIOUS
  <2> QED  BY <1>4, <2>1, <2>2, <2>3, BulkKeeps DEF CheckStale, UpdateRows
<1> QED  BY <1>1, <1>2, <1>3, <1>4 DEF ServerStep

\* The steps of a run.
LEMMA RunKeeps ==
  ASSUME OwnerInv, TypeOK', NEW r \in Run, RunStep(r)
  PROVE  OwnerInv'
<1>0. \A j \in Job : row[j] \in Row
  BY DEF OwnerInv, TypeOK
<1>1. ASSUME NEW s \in Scheduling, CountRunning(r, s) PROVE OwnerInv'
  BY <1>1, QuietKeeps DEF CountRunning
<1>2. ASSUME NEW s \in Scheduling, Schedule(r, s) PROVE OwnerInv'
  <2>1. PICK S \in Batches(counted[r], Waiting(r, s)) :
          UpdateRows(S, LAMBDA x : [Timed(x, s.ready) EXCEPT !.running = TRUE])
    BY <1>2 DEF Schedule
  <2>2. S \in SUBSET Job
    BY <2>1 DEF Batches, Waiting, InState
  <2>3. ASSUME NEW j \in Job
        PROVE  [Timed(row[j], s.ready) EXCEPT !.running = TRUE].dv > row[j].dv
    <3> DEFINE x == Timed(row[j], s.ready)
    <3>1. x \in Row /\ x.dv > row[j].dv
      BY <1>0, SchedulingFacts, StateFacts, RowType, UpdateMoves
    <3> HIDE DEF x
    <3>2. [x EXCEPT !.running = TRUE].dv > row[j].dv
      BY <3>1, FieldMoves
    <3> QED  BY <3>2 DEF x
  <2>4. UNCHANGED kids
    BY <1>2 DEF Schedule
  <2> QED  BY <2>1, <2>2, <2>3, <2>4, BulkKeeps DEF UpdateRows
<1>3. ASSUME CreateDumps(r) PROVE OwnerInv'
  <2>1. \A j \in Job : Untimed(row[j], "DUMP_PENDING").dv > row[j].dv
    BY <1>0, StateFacts, UpdateMoves
  <2>2. InState("CLONE_DONE") \cap JobsOf(r) \in SUBSET Job
    BY DEF InState
  <2> QED  BY <1>3, <2>1, <2>2, BulkKeeps DEF CreateDumps, UpdateRows
<1>4. ASSUME Report(r) PROVE OwnerInv'
  BY <1>4, QuietKeeps DEF Report
<1>5. ASSUME NEW s \in Scheduling, Look(r, s) PROVE OwnerInv'
  BY <1>5, LookFacts, QuietKeeps
<1> QED  BY <1>1, <1>2, <1>3, <1>4, <1>5 DEF RunStep, Look

-----------------------------------------------------------------------------

\* Every step.
LEMMA NextOwner == OwnerInv /\ [Next]_vars => OwnerInv'
<1> SUFFICES ASSUME OwnerInv, [Next]_vars PROVE OwnerInv'
  OBVIOUS
<1>1. TypeOK'
  BY NextType DEF OwnerInv
<1>2. ASSUME NEW k \in kids, Die(k) PROVE OwnerInv'
  BY <1>1, <1>2, QuietKeeps DEF Die, Exit
<1>3. CASE UNCHANGED vars
  BY <1>1, <1>3, QuietKeeps DEF vars
<1> QED  BY <1>1, <1>2, <1>3, ServerKeeps, RunKeeps, KidKeeps DEF Next

\* Of all the children alive for a job, at most one can still write its row.
THEOREM OneWriter == Spec => []OneOwner
<1>1. Init => OwnerInv
  BY InitType DEF Init, OwnerInv, Behind, OneOwner
<1>2. OwnerInv => OneOwner
  BY DEF OwnerInv
<1> QED  BY <1>1, <1>2, NextOwner, PTL DEF Spec

=============================================================================
