------------------------------ MODULE JobPool ------------------------------
(***************************************************************************)
(* What the dump jobs of FABS promise to the backup runs that own them,    *)
(* with no database row, no server pass and no child process in sight:     *)
(*                                                                         *)
(*  - a job is cloned, then queued, then dumped, or ends on the way; it    *)
(*    never goes back, however often its work fails and is retried;        *)
(*  - a run queues its dumps only when none of its jobs waits for a clone  *)
(*    or is being cloned;                                                  *)
(*  - the jobs of a run that hold a slot never exceed the quotas.          *)
(*                                                                         *)
(* Module DumpJob implements this one.                                     *)
(***************************************************************************)
EXTENDS Quota

VARIABLE phase

Phase == {"pending", "cloning", "cloned", "queued", "dumping", "ended"}

In(r, phases) == {j \in JobsOf(r) : phase[j] \in phases}

Busy(r) == In(r, {"cloning", "dumping"})

PoolInit == phase = [j \in Job |-> "pending"]

\* A run lets a batch of waiting jobs start; they hold a slot from now on.
Admit(r, waiting, busy) ==
  \E S \in SUBSET In(r, {waiting}) :
    /\ S # {}
    /\ WithinQuota(Busy(r) \cup S)
    /\ phase' = [j \in Job |-> IF j \in S THEN busy ELSE phase[j]]

\* Clones finish: the volume is ready to be dumped, or the job is over.
FinishClones(S) ==
  /\ \A j \in S : phase[j] = "cloning"
  /\ \E ok \in SUBSET S :
       phase' = [j \in Job |-> IF j \in ok THEN "cloned"
                               ELSE IF j \in S THEN "ended" ELSE phase[j]]

\* Every clone of the run is over: the volumes that were cloned wait for
\* their dump.
QueueDumps(r) ==
  /\ In(r, {"pending", "cloning"}) = {}
  /\ phase' = [j \in Job |-> IF j \in In(r, {"cloned"}) THEN "queued"
                             ELSE phase[j]]

\* Jobs that hold a slot end, with a dump or without one.
End(S) ==
  /\ \A j \in S : phase[j] \in {"cloning", "dumping"}
  /\ phase' = [j \in Job |-> IF j \in S THEN "ended" ELSE phase[j]]

PoolNext ==
  \/ \E r \in Run : \/ Admit(r, "pending", "cloning")
                    \/ Admit(r, "queued", "dumping")
                    \/ QueueDumps(r)
  \/ \E S \in SUBSET Job : FinishClones(S) \/ End(S)

PoolSpec == PoolInit /\ [][PoolNext]_phase

=============================================================================
