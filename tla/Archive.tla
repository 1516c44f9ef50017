------------------------------ MODULE Archive ------------------------------
(***************************************************************************)
(* The archive of dumps: the storage directories (Storage) and the         *)
(* database of volume dumps (Catalog, Path), as the children of dump jobs  *)
(* fill it (fabs/dumpjob.py), operators trim and delete what they need no  *)
(* more, and users search in it.                                           *)
(*                                                                         *)
(* The child of a job looks whether the volume was changed since its last  *)
(* dump.  If so, it clones the volume, finds room, dumps, commits the file *)
(* and inserts the row.  It may fail or be killed anywhere, and then the   *)
(* job is retried from the dump on.  Jobs of several backup runs may be at *)
(* work on one volume, while users change it.                              *)
(***************************************************************************)
EXTENDS Storage, Path

CONSTANTS
  Injected,   \* jobs for a dump that an operator brings
  Estimate,   \* how large vos says the dump of a job will be
  Size,       \* how large it may become
  Early,      \* jobs that ended before, in their order
  Home,       \* the store of their dumps
  FudgeTime,  \* FUDGE_TIME
  MaxAge,     \* dump/max_unchanged_age, or 0
  MaxFaults,  \* bound: faults
  MaxTime,    \* bound: time
  MaxWrites,  \* bound: changes of each volume
  Crews       \* who is at work at the same time: jobs and other actors

ASSUME ArchiveAssumption ==
  /\ VolOf \in [Job -> Volume]
  /\ Injected \subseteq Job /\ Early \in Seq(Job) /\ Home \in Store
  /\ Estimate \in [Job -> Nat]
  /\ \A j \in Job : Size[j] \subseteq Nat
  /\ {FudgeTime, MaxAge, MaxFaults, MaxWrites} \subseteq Nat /\ MaxTime \in Nat \ {0}
  /\ Date \subseteq Nat /\ MaxFound \subseteq Nat
  /\ Crews \subseteq
       SUBSET (Job \cup {"trim", "delete", "clean", "search", "walk", "users"})

VARIABLES
  kid,      \* where the child of each job is, and what it read
  volume,   \* the volumes: how often they were changed, and when they say they were
  clone,    \* their clones: the same when they were made, and when that was
  clock,    \* now
  faults,   \* errors and deaths that there were
  muddled,  \* volumes of which a dump was recorded after one of a later clone, or after
            \* its file had gone
  crew      \* who is at work

readers == <<search, walk>>
afs == <<volume, clone>>
others == <<clock, faults, muddled, crew>>
vars == <<storage, catalog, readers, linked, kid, afs, others>>

Fresh == [content |-> 0, updated |-> 0]
FreshClone == [content |-> 0, updated |-> 0, created |-> 0]

\* What it saw of the volume and of its last dump, the header it read, and of the
\* dump the age, the store, the size and the content.
NewKid(at) ==
  [at |-> at, seen |-> Fresh, last |-> 0, hdr |-> FreshClone, mtime |-> 0,
   store |-> NoStore, size |-> 0, content |-> 0]

\* One of the faults there may be.
Fault == faults < MaxFaults /\ faults' = faults + 1

KidAt(j, here) == j \in crew /\ kid[j].at = here
Move(j, k) == kid' = [kid EXCEPT ![j] = k]

\* Time may pass, or what follows happens in the same second.
Passes == clock' \in {clock, clock + 1} /\ clock' <= MaxTime

-----------------------------------------------------------------------------
(***************************************************************************)
(* The child of a job.                                                     *)
(***************************************************************************)

\* should_skip: vos examine of the volume, and then a look at its last dump.
Look(j) ==
  /\ KidAt(j, "look")
  /\ Move(j, [kid[j] EXCEPT !.at = "compare", !.seen = volume[VolOf[j]]])
  /\ UNCHANGED <<storage, catalog, readers, linked, afs, others>>

\* Mutant of Unchanged: the same time means the same volume.
UnchangedStamp(id, updated) == dumps[id].updated = updated

\* The last update is the one that the dump has, the clone was made long enough
\* after it, and is not too old.
Unchanged(id, updated) ==
  /\ dumps[id].updated = updated
  /\ dumps[id].created >= updated + FudgeTime
  /\ MaxAge # 0 => clock <= dumps[id].created + MaxAge

\* The job is skipped, and at the end of its run an injected dump is deleted.
Compare(j) ==
  LET last == Latest(VolOf[j])
  IN  /\ KidAt(j, "compare")
      /\ IF last # NoRow /\ Unchanged(last, kid[j].seen.updated)
         THEN /\ Move(j, [kid[j] EXCEPT !.at = "skipped", !.last = dumps[last].content])
              /\ Cleanup(j)
         ELSE Move(j, [kid[j] EXCEPT !.at = "clone", !.seen = Fresh]) /\ UNCHANGED storage
      /\ UNCHANGED <<catalog, readers, linked, afs, others>>

\* vos backup
Clone(j) ==
  /\ KidAt(j, "clone")
  /\ clone' = [clone EXCEPT ![VolOf[j]] =
                 [content |-> volume[VolOf[j]].content, updated |-> volume[VolOf[j]].updated,
                  created |-> clock]]
  /\ Move(j, [kid[j] EXCEPT !.at = "examine"])
  /\ Passes
  /\ UNCHANGED <<storage, catalog, readers, linked, volume, faults, muddled, crew>>

\* vos examine, vos size; then the room is allocated.
Examine(j) ==
  /\ KidAt(j, "examine")
  /\ Move(j, [kid[j] EXCEPT !.at = "alloc", !.hdr = [clone[VolOf[j]] EXCEPT !.content = 0]])
  /\ IF j \in Injected THEN UNCHANGED alloc ELSE Ask(j, Estimate[j])
  /\ UNCHANGED <<lock, blob, litter, catalog, readers, linked, afs, others>>

Allocating(j) ==
  /\ KidAt(j, "alloc") \/ KidAt(j, "bring")
  /\ \/ Allocate(j) /\ UNCHANGED faults
     \/ FillFails(j) /\ Fault
  /\ UNCHANGED <<catalog, readers, linked, kid, afs, clock, muddled, crew>>

\* vos dump.  The clone may have been made anew since its header was read: if the
\* last update is the same, then the header of the dump matches all the same
\* (_header_match).  The symlinks of an earlier attempt are cleared.
Dumped(j, size) ==
  /\ KidAt(j, "alloc")
  /\ clone[VolOf[j]].updated = kid[j].hdr.updated
  /\ Write(j, size)
  /\ Move(j, [kid[j] EXCEPT !.at = "links", !.mtime = clock, !.content = clone[VolOf[j]].content])
  /\ linked' = linked \ {j}
  /\ Passes
  /\ UNCHANGED <<catalog, readers, afs, faults, muddled, crew>>

\* scan_links, commit.  Without abort_on_error a dump is kept though its links could
\* not be read.
Committed(j) ==
  /\ KidAt(j, "links")
  /\ \/ linked' = linked \cup {j} /\ UNCHANGED faults
     \/ UNCHANGED linked /\ Fault
  /\ Commit(j, kid[j].mtime)
  /\ Move(j, [kid[j] EXCEPT !.at = "record", !.store = alloc[j].store, !.size = alloc[j].size])
  /\ UNCHANGED <<catalog, readers, afs, clock, muddled, crew>>

Recorded(j) ==
  /\ KidAt(j, "record")
  /\ Insert([job |-> j, store |-> kid[j].store, size |-> kid[j].size,
             created |-> kid[j].hdr.created, updated |-> kid[j].hdr.updated,
             content |-> kid[j].content, again |-> FALSE])
  /\ muddled' = IF \/ \E id \in RowsOf(VolOf[j]) : dumps[id].created > kid[j].hdr.created
                   \/ <<kid[j].store, j>> \notin DOMAIN blob
                THEN muddled \cup {VolOf[j]} ELSE muddled
  /\ Move(j, [kid[j] EXCEPT !.at = "told"])
  /\ UNCHANGED <<storage, readers, linked, afs, clock, faults, crew>>

\* The last update of the job; it and its run end.
Ended(j) ==
  /\ KidAt(j, "told")
  /\ Move(j, NewKid("end"))
  /\ UNCHANGED <<storage, catalog, readers, linked, afs, others>>

Busy(j) == j \in crew /\ kid[j].at \in {"bring", "examine", "alloc", "links", "record", "told"}

\* There is no room, the clone is of a changed volume, or the injected dump is gone.
Doomed(j) ==
  \/ At(j, "failed")
  \/ KidAt(j, "alloc") /\ clone[VolOf[j]].updated # kid[j].hdr.updated
  \/ KidAt(j, "alloc") /\ j \in Injected /\ ~ HasFile(j)

\* An exception deletes the temporary file, a death leaves it.
Lose(j, dies) == IF dies THEN Drop(j) ELSE Cleanup(j)

\* The job is retried from the dump on, or had errors enough and ends as FAILED.  An
\* injected dump is kept until then.
Again(j, dies) ==
  \/ /\ kid[j].at # "bring"
     /\ Move(j, [kid[j] EXCEPT !.at = "examine"])
     /\ IF j \in Injected THEN UNCHANGED storage ELSE Lose(j, dies)
  \/ /\ Move(j, NewKid("failed"))
     /\ IF kid[j].at # "bring" /\ j \in Injected THEN Cleanup(j) ELSE Lose(j, dies)

\* Any call may fail.
Fails(j) ==
  /\ Busy(j)
  /\ IF Doomed(j) THEN UNCHANGED faults ELSE Fault
  /\ Again(j, FALSE)
  /\ UNCHANGED <<catalog, readers, linked, afs, clock, muddled, crew>>

Dies(j) ==
  /\ Busy(j)
  /\ Fault
  /\ Again(j, TRUE)
  /\ UNCHANGED <<catalog, readers, linked, afs, clock, muddled, crew>>

-----------------------------------------------------------------------------
(***************************************************************************)
(* backup-inject: the operator's file is copied before its run is made.    *)
(***************************************************************************)

Bring(j) ==
  /\ KidAt(j, "bring") /\ At(j, "none")
  /\ Ask(j, Estimate[j])
  /\ UNCHANGED <<lock, blob, litter, catalog, readers, linked, kid, afs, others>>

Emptied(j) ==
  /\ KidAt(j, "bring")
  /\ Empty(j)
  /\ UNCHANGED <<catalog, readers, linked, kid, afs, others>>

\* Then backup_now makes the run, whose job looks at the volume.
Brought(j) ==
  /\ KidAt(j, "bring")
  /\ Copy(j, Estimate[j])
  /\ Move(j, [kid[j] EXCEPT !.at = "look", !.mtime = clock])
  /\ Passes
  /\ UNCHANGED <<catalog, readers, linked, afs, faults, muddled, crew>>

\* The header of the file matches that of the volume, and so does, one may hope,
\* the file.
Taken(j) ==
  /\ KidAt(j, "alloc") /\ j \in Injected /\ HasFile(j)
  /\ Move(j, [kid[j] EXCEPT !.at = "links", !.content = clone[VolOf[j]].content])
  /\ linked' = linked \ {j}
  /\ UNCHANGED <<storage, catalog, readers, afs, others>>

\* It does not: the file is stale, and the job is skipped.
Skipped(j) ==
  /\ KidAt(j, "alloc") /\ j \in Injected /\ HasFile(j)
  /\ Move(j, NewKid("failed"))
  /\ Cleanup(j)
  /\ UNCHANGED <<catalog, readers, linked, afs, others>>

KidStep(j) ==
  \/ Look(j) \/ Compare(j) \/ Clone(j) \/ Examine(j) \/ Allocating(j)
  \/ (\E size \in Size[j] : Dumped(j, size))
  \/ Committed(j) \/ Recorded(j) \/ Ended(j)
  \/ Bring(j) \/ Emptied(j) \/ Brought(j) \/ Taken(j) \/ Skipped(j)

-----------------------------------------------------------------------------
(***************************************************************************)
(* Operators.                                                              *)
(***************************************************************************)

PathOf(id) == <<dumps[id].store, dumps[id].job>>
OnDisk(id) == PathOf(id) \in DOMAIN blob

\* latest_okay
LatestOkay(id) == OnDisk(id) /\ blob[PathOf(id)].size = dumps[id].size

\* Mutant of Older: files of the same age count as older.
NotNewer(b, c) == blob[b].mtime <= blob[c].mtime

Older(b, c) == blob[b].mtime < blob[c].mtime

\* trimmable_dumps: files on disk whose dump is not the newest of its volume, if
\* the newest is there and the file is older.
Trimmable ==
  {b \in DOMAIN blob :
     \E id \in RowsAt(b) :
       LET latest == Latest(VolumeOf(id))
       IN  id # latest /\ LatestOkay(latest) /\ Older(b, PathOf(latest))}

Actor(a) == a \in crew

\* The operator deletes files that storage-trim lists.
Trim(b) ==
  /\ Actor("trim")
  /\ b \in Trimmable
  /\ Unlink(b)
  /\ UNCHANGED <<catalog, readers, linked, kid, afs, others>>

\* dump-delete of a dump that dump-find --redundant lists, if its run is over.  If
\* there is another row for the job, its entry cannot be deleted: by then the row
\* and the symlinks are gone, and the file stays.
Delete(id) ==
  /\ Actor("delete")
  /\ id \in Redundant(1)
  /\ kid[dumps[id].job].at \in {"end", "failed"}
  /\ Remove(id)
  /\ linked' = linked \ {dumps[id].job}
  /\ IF \E i \in DOMAIN dumps \ {id} : dumps[i].job = dumps[id].job
     THEN UNCHANGED storage
     ELSE Unlink(PathOf(id))
  /\ UNCHANGED <<readers, kid, afs, others>>

Cleaned ==
  /\ Actor("clean")
  /\ CleanTmp
  /\ UNCHANGED <<catalog, readers, linked, kid, afs, others>>

\* A volume is changed.  When it says so may lag behind, but by less than FUDGE_TIME.
Change(v) ==
  /\ Actor("users")
  /\ v \in {VolOf[j] : j \in crew \cap Job}
  /\ volume[v].content < MaxWrites
  /\ \E time \in volume[v].updated .. clock :
       /\ clock < time + FudgeTime
       /\ volume' = [volume EXCEPT ![v] = [content |-> @.content + 1, updated |-> time]]
  /\ Passes
  /\ UNCHANGED <<storage, catalog, readers, linked, kid, clone, faults, muddled, crew>>

Searching ==
  /\ Actor("search")
  /\ SearchStep
  /\ UNCHANGED <<storage, linked, walk, kid, afs, others>>

Walking ==
  /\ Actor("walk")
  /\ WalkStep
  /\ UNCHANGED <<storage, search, kid, afs, others>>

-----------------------------------------------------------------------------

\* The dumps of earlier jobs are there.
Init ==
  /\ crew \in Crews
  /\ lock = {} /\ alloc = [j \in Job |-> NoAlloc]
  /\ litter = [s \in Store |-> 0]
  /\ dumps = [i \in DOMAIN Early |->
                [job |-> Early[i], store |-> Home, size |-> 1,
                 created |-> 0, updated |-> 0, content |-> 0, again |-> FALSE]]
  /\ nextId = Len(Early) + 1
  /\ blob = [b \in {<<Home, j>> : j \in Range(Early)} |-> [size |-> 1, mtime |-> 0]]
  /\ linked = Range(Early)
  /\ kid = [j \in Job |-> NewKid(CASE j \in Range(Early) -> "end"
                              [] j \in Injected     -> "bring"
                              [] OTHER              -> "look")]
  /\ volume = [v \in Volume |-> Fresh]
  /\ clone = [v \in Volume |-> FreshClone]
  /\ clock = 1 /\ faults = 0 /\ muddled = {}
  /\ search = NoSearch /\ walk = NoWalk

Next ==
  \/ \E j \in Job : KidStep(j) \/ Fails(j) \/ Dies(j)
  \/ \E b \in DOMAIN blob : Trim(b)
  \/ \E id \in DOMAIN dumps : Delete(id)
  \/ \E v \in Volume : Change(v)
  \/ Cleaned \/ Searching \/ Walking

Spec == Init /\ [][Next]_vars

-----------------------------------------------------------------------------
(***************************************************************************)
(* Properties.  (Those of searches and paths are in Catalog and Lookup.)   *)
(***************************************************************************)

\* The shape of the state.
TypeOK ==
  /\ lock \subseteq Job /\ litter \in [Store -> Nat]
  /\ \A j \in Job :
       /\ alloc[j].at \in {"none", "lock", "choose", "fill", "got", "copy", "have", "failed"}
       /\ alloc[j].store \in Store \cup {NoStore} /\ alloc[j].bad \subseteq Store
       /\ alloc[j].size \in 0 .. alloc[j].need \cup Size[j]
       /\ kid[j].hdr.created \in 0 .. clock
  /\ DOMAIN blob \subseteq Store \X Job
  /\ DOMAIN dumps \subseteq 1 .. nextId - 1
  /\ \A id \in DOMAIN dumps : dumps[id].job \in Job /\ dumps[id].store \in Store
  /\ \A v \in Volume : clone[v].content <= volume[v].content /\ volume[v].updated <= clock
  /\ linked \subseteq Job /\ muddled \subseteq Volume /\ clock \in 0 .. MaxTime /\ faults \in 0 .. MaxFaults

\* Room that was found stays until it is filled: whoever looks for room does so
\* alone, and a dump is no larger than its room, unless one grows beyond it or is
\* copied by an operator, which happens without the lock.
RoomIsKept ==
  \A j \in Job : alloc[j].at = "fill" /\ ~ alloc[j].robbed => alloc[j].left <= Free(alloc[j].store)

\* A volume that is skipped as unchanged is one whose last dump holds all that was
\* in the volume when the job looked: whichever changes were made in the second of
\* a clone, whichever jobs dumped it in between, and in whichever order.  (What an
\* operator injects is the operator's matter.)
SkippedIsDumped ==
  \A j \in Job : kid[j].at = "skipped" => kid[j].last >= kid[j].seen.content

\* A volume of which a job recorded a dump has one on disk, whichever redundant
\* dumps are deleted and older files trimmed, and though "redundant" goes by the
\* age of the clone, "newest" by the id, and "older" by that of the file.  (But for
\* dumps that were recorded in another order than that of their clones, and for a
\* file that was trimmed as one of an earlier attempt of its job, before the job
\* recorded it.)
OneIsOnDisk ==
  \A j \in Job : kid[j].at = "end" /\ VolOf[j] \notin muddled =>
    \E id \in RowsOf(VolOf[j]) : OnDisk(id)

=============================================================================
