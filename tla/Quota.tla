------------------------------- MODULE Quota -------------------------------
(***************************************************************************)
(* What the dump jobs of a backup run may use at the same time, and how    *)
(* the scheduler counts what they use (fabs/dumpjob.py, DumpJob.get_counts *)
(* and class QuotaCounts; fabs/brun.py, BackupRun._sched).                 *)
(*                                                                         *)
(* A job dumps one volume, which lives on one fileserver partition.  The   *)
(* jobs of a run are bounded in total (dump/parallel/total), per server    *)
(* (dump/parallel/server) and per partition (dump/parallel/partition).     *)
(***************************************************************************)
EXTENDS Integers, FiniteSets

CONSTANTS
  Job,          \* dump jobs, one per volume entry (dump_jobs.vl_id)
  Run,          \* backup runs
  Partition,    \* (server_id, partition) pairs
  Server,       \* fileservers
  RunOf,        \* the run each job belongs to
  PartOf,       \* the partition each job's RW volume is on
  ServerOf,     \* the server of each partition
  GroupRank,    \* the order in which GROUP BY returns the partitions
  TotalQuota,   \* dump/parallel/total
  ServerQuota,  \* dump/parallel/server
  PartQuota     \* dump/parallel/partition

ASSUME QuotaAssumption ==
  /\ IsFiniteSet(Job)
  /\ IsFiniteSet(Partition)
  /\ RunOf \in [Job -> Run]
  /\ PartOf \in [Job -> Partition]
  /\ ServerOf \in [Partition -> Server]
  /\ GroupRank \in [Partition -> Nat]
  /\ \A p, q \in Partition : GroupRank[p] = GroupRank[q] => p = q
  /\ TotalQuota \in Nat \ {0}
  /\ ServerQuota \in Nat \ {0}
  /\ PartQuota \in Nat \ {0}

JobsOf(r) == {j \in Job : RunOf[j] = r}

OnPartition(S, p) == {j \in S : PartOf[j] = p}

OnServer(S, s) == {j \in S : ServerOf[PartOf[j]] = s}

(***************************************************************************)
(* What the quotas promise about a set S of jobs running at the same time. *)
(***************************************************************************)
WithinQuota(S) ==
  /\ Cardinality(S) <= TotalQuota
  /\ \A s \in Server : Cardinality(OnServer(S, s)) <= ServerQuota
  /\ \A p \in Partition : Cardinality(OnPartition(S, p)) <= PartQuota

(***************************************************************************)
(* get_counts adds, for every partition in the order the query returns     *)
(* them, the count its server has reached so far: a job weighs once for    *)
(* its own partition and once more for each later partition of its server  *)
(* that has a job in S.                                                    *)
(***************************************************************************)
CountedTotal(S) ==
  Cardinality({x \in S \X {PartOf[i] : i \in S} :
                 /\ ServerOf[PartOf[x[1]]] = ServerOf[x[2]]
                 /\ GroupRank[PartOf[x[1]]] <= GroupRank[x[2]]})

\* Mutant of Fits: what is running already is not counted.
FitsAfterwards(seen, S) == WithinQuota(S)

(***************************************************************************)
(* QuotaCounts.quota_ok lets the jobs of S start, one after the other, on  *)
(* top of the jobs in `seen' that were counted as running.                 *)
(***************************************************************************)
Fits(seen, S) ==
  S # {} =>
    /\ CountedTotal(seen) + Cardinality(S) <= TotalQuota
    /\ \A s \in Server :
         OnServer(S, s) # {} =>
           Cardinality(OnServer(seen, s)) + Cardinality(OnServer(S, s))
             <= ServerQuota
    /\ \A p \in Partition :
         OnPartition(S, p) # {} =>
           Cardinality(OnPartition(seen, p)) + Cardinality(OnPartition(S, p))
             <= PartQuota

(***************************************************************************)
(* The loop of _sched walks the pending jobs in the order the database     *)
(* returns them, skips those over a quota and stops at the total quota:    *)
(* what it schedules is a batch that fits and that no pending job extends. *)
(***************************************************************************)
Batches(seen, pending) ==
  {S \in SUBSET pending :
     /\ Fits(seen, S)
     /\ \A j \in pending \ S : ~ Fits(seen, S \cup {j})}

=============================================================================
