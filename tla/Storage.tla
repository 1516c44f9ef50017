------------------------------ MODULE Storage ------------------------------
(***************************************************************************)
(* The storage directories (fabs/bstore.py): how the children of the dump  *)
(* jobs, and an operator who injects a dump, find room for a dump, and the *)
(* files that they make of it.                                             *)
(*                                                                         *)
(* Room is looked for and filled with zeros under one lock for all stores. *)
(* The dump is written later, without the lock, over the zeros.            *)
(***************************************************************************)
EXTENDS Naturals, FiniteSetsExt

CONSTANTS
  Store,      \* the storage directories
  Job,        \* the dump jobs; the path of a dump tells its job (vl_id)
  Capacity,   \* space of each store
  BufSize,    \* what is written at once ("bufsize")
  NoStore     \* the store of a job that has no temporary file

ASSUME StorageAssumption ==
  /\ IsFiniteSet(Job)
  /\ Capacity \in [Store -> Nat]
  /\ BufSize \in Nat \ {0}
  /\ NoStore \notin Store

VARIABLES
  lock,    \* the holders of the storage lock: at most one
  alloc,   \* where the child of each job is in alloc_blob
  blob,    \* the dumps in the stores
  litter   \* space taken by temporary files that nobody knows any more

storage == <<lock, alloc, blob, litter>>

\* A call of alloc_blob: where it is, the room it needs, what is left to fill,
\* the temporary file, the stores it gave up, and whether someone took room
\* without the lock while it filled its file.
NewAlloc(at, need) ==
  [at |-> at, need |-> need, left |-> 0, store |-> NoStore, size |-> 0,
   bad |-> {}, robbed |-> FALSE]
NoAlloc == NewAlloc("none", 0)

HasFile(j) == alloc[j].store # NoStore

\* The temporary file that the child of a job still has, and its committed dump.
Takes(s, j) ==
  (IF alloc[j].store = s THEN alloc[j].size ELSE 0)
  + (IF <<s, j>> \in DOMAIN blob THEN blob[<<s, j>>].size ELSE 0)

Used(s) == litter[s] + SumFunctionOnSet([j \in Job |-> Takes(s, j)], Job)

\* bytes_free
Free(s) == IF Used(s) > Capacity[s] THEN 0 ELSE Capacity[s] - Used(s)

\* Always a whole buffer more than fits, even if the size is a multiple of it.
RoundUp(size) == BufSize * (size \div BufSize + 1)

Best(stores) == {s \in stores : \A t \in stores : Free(s) >= Free(t)}

Set(j, a) == alloc' = [alloc EXCEPT ![j] = a]

\* The file goes (delete), and with it the room it took.
WithoutFile(a) == [a EXCEPT !.store = NoStore, !.size = 0, !.left = 0]

-----------------------------------------------------------------------------
(***************************************************************************)
(* alloc_blob.                                                             *)
(***************************************************************************)

At(j, here) == alloc[j].at = here

Ask(j, size) == Set(j, NewAlloc("lock", RoundUp(size)))

\* Mutant of Lock: nobody looks who has the lock.
LockAnyway(j) ==
  /\ At(j, "lock")
  /\ lock' = lock \cup {j}
  /\ Set(j, [alloc[j] EXCEPT !.at = "choose"])
  /\ UNCHANGED <<blob, litter>>

\* lock_bstores: the lock of a file, which goes with its holder.
Lock(j) ==
  /\ At(j, "lock") /\ lock = {}
  /\ lock' = {j}
  /\ Set(j, [alloc[j] EXCEPT !.at = "choose"])
  /\ UNCHANGED <<blob, litter>>

\* best_bstore, and the second look at the free space in create_dump: without
\* room the whole call fails (StorageError).
Choose(j) ==
  LET stores == Store \ alloc[j].bad
  IN  /\ At(j, "choose")
      /\ \/ \E s \in Best(stores) :
              /\ Free(s) >= alloc[j].need
              /\ Set(j, [alloc[j] EXCEPT !.at = "fill", !.store = s,
                                         !.left = alloc[j].need, !.robbed = FALSE])
              /\ UNCHANGED lock
         \/ /\ \A s \in Best(stores) : Free(s) < alloc[j].need
            /\ Set(j, [alloc[j] EXCEPT !.at = "failed"])
            /\ lock' = lock \ {j}
      /\ UNCHANGED <<blob, litter>>

\* create_dump writes zeros.
Fill(j) ==
  /\ At(j, "fill")
  /\ Free(alloc[j].store) >= BufSize
  /\ \E left \in {alloc[j].left - BufSize} :
       /\ Set(j, [alloc[j] EXCEPT !.size = @ + BufSize, !.left = left,
                                  !.at = IF left = 0 THEN "got" ELSE "fill"])
       /\ lock' = IF left = 0 THEN lock \ {j} ELSE lock
  /\ UNCHANGED <<blob, litter>>

\* An error of the file system: the file is deleted, and the next best store is
\* tried, for which the lock is taken anew.
FillFails(j) ==
  /\ At(j, "fill")
  /\ \E a \in {[WithoutFile(alloc[j]) EXCEPT !.at = "lock"]} :
       Set(j, [a EXCEPT !.bad = @ \cup {alloc[j].store}])
  /\ lock' = lock \ {j}
  /\ UNCHANGED <<blob, litter>>

Allocate(j) == Lock(j) \/ Choose(j) \/ Fill(j)

-----------------------------------------------------------------------------
(***************************************************************************)
(* What happens to the file.                                               *)
(***************************************************************************)

\* Whoever is filling a file in the store loses room to a file that grows.
Grow(j, size) ==
  alloc' = [i \in Job |->
    IF i = j THEN [alloc[i] EXCEPT !.size = size, !.at = "have"]
    ELSE [alloc[i] EXCEPT !.robbed = @ \/ (At(i, "fill") /\ alloc[i].store = alloc[j].store)]]

\* The dump is written over the zeros, and what is left of them is cut off
\* (DumpJob._handle_vosdump).
Write(j, size) ==
  /\ At(j, "got") /\ HasFile(j)
  /\ IF size <= alloc[j].size
     THEN Set(j, [alloc[j] EXCEPT !.size = size, !.at = "have"])
     ELSE Free(alloc[j].store) >= size - alloc[j].size /\ Grow(j, size)
  /\ UNCHANGED <<lock, blob, litter>>

\* blob_from_user opens the file for writing anew: the room filled with zeros is
\* given back, and taken again as the dump is copied.
Empty(j) ==
  /\ At(j, "got") /\ HasFile(j)
  /\ Set(j, [alloc[j] EXCEPT !.size = 0, !.at = "copy"])
  /\ UNCHANGED <<lock, blob, litter>>

Copy(j, size) ==
  /\ At(j, "copy") /\ HasFile(j)
  /\ Free(alloc[j].store) >= size
  /\ Grow(j, size)
  /\ UNCHANGED <<lock, blob, litter>>

\* commit: the file gets its permanent path, whatever was there.
Commit(j, mtime) ==
  /\ At(j, "have") /\ HasFile(j)
  /\ \E b \in {<<alloc[j].store, j>>} :
       blob' = [c \in DOMAIN blob \cup {b} |->
                  IF c = b THEN [size |-> alloc[j].size, mtime |-> mtime] ELSE blob[c]]
  /\ Set(j, NoAlloc)
  /\ UNCHANGED <<lock, litter>>

\* maybe_delete, cleanup: an exception deletes a file that is still temporary.
Cleanup(j) ==
  /\ Set(j, NoAlloc)
  /\ lock' = lock \ {j}
  /\ UNCHANGED <<blob, litter>>

\* A child that is killed leaves its file.
Drop(j) ==
  /\ litter' = [s \in Store |-> litter[s] + IF alloc[j].store = s THEN alloc[j].size ELSE 0]
  /\ Set(j, NoAlloc)
  /\ lock' = lock \ {j}
  /\ UNCHANGED blob

\* clean_tmp: files that were not written for storage/clean_age, in particular
\* those that nobody has any more.
CleanTmp ==
  /\ \E old \in SUBSET {j \in Job : HasFile(j) /\ alloc[j].at \in {"got", "have", "copy"}} :
       alloc' = [j \in Job |-> IF j \in old THEN WithoutFile(alloc[j]) ELSE alloc[j]]
  /\ litter' = [s \in Store |-> 0]
  /\ UNCHANGED <<lock, blob>>

\* The blob of a volume dump goes (DumpBlob.delete).
Unlink(b) ==
  /\ blob' = [c \in DOMAIN blob \ {b} |-> blob[c]]
  /\ UNCHANGED <<lock, alloc, litter>>

=============================================================================
