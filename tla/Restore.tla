------------------------------ MODULE Restore ------------------------------
(***************************************************************************)
(* Restore requests (fabs/restore.py, class RestoreRequest; the            *)
(* restore_reqs rows of fabs/db.py), the claims they lay on dump blobs     *)
(* (fabs/bstore.py) and the deletion of volume dumps (fabs/voldump.py).    *)
(*                                                                         *)
(* The server moves requests along and forks a child for each that it      *)
(* moves into a *_WORK state.  The child works on a copy of the row, on a  *)
(* hard link to the dump, on a staging volume and on its mount point.  All *)
(* four have names made from the id of the request: two children of one    *)
(* request share them.  At the same time operators kill and retry          *)
(* requests, trim dumps from disk, bring them back from tape and delete    *)
(* them, and the start of a backup run cleans the temporary directories.   *)
(***************************************************************************)
EXTENDS Naturals

CONSTANTS
  Req,         \* restore requests
  Dump,        \* volume dumps
  DumpOf,      \* the dump a request wants
  Old,         \* dumps whose blob is older than storage/clean_age
  ErrorLimit,  \* restore/error_limit
  MaxAdmin,    \* bound: kills and retries
  MaxDeaths,   \* bound: children that die
  MaxTrims     \* bound: blobs trimmed from disk

ASSUME RestoreAssumption ==
  /\ DumpOf \in [Req -> Dump]
  /\ Old \subseteq Dump
  /\ {ErrorLimit, MaxAdmin, MaxDeaths, MaxTrims} \subseteq Nat

VARIABLES
  req,     \* the restore_reqs rows
  kids,    \* the children that are alive
  disk,    \* what lies at the permanent path of a dump
  link,    \* what lies at the temporary path of a request
  volume,  \* what the staging volume of a request holds
  mount,   \* requests whose mount point exists
  aged,    \* requests staged for longer than stage/lifetime
  dumps,   \* the volume_dumps rows
  del,     \* how far dump-delete is with a dump
  left,    \* history: requests whose temporary link could not be deleted
  late,    \* history: requests that had two children at work at once
  admin,   \* kills and retries so far
  deaths,  \* children that died so far
  trims    \* blobs trimmed so far

files == <<disk, link, left>>
staging == <<volume, mount, aged>>
outside == <<dumps, del, late, admin, deaths, trims>>
vars == <<req, kids, files, staging, outside>>

-----------------------------------------------------------------------------
(***************************************************************************)
(* Rows.                                                                   *)
(***************************************************************************)

WorkStates == {"AUTHZ_WORK", "VERIFY_WORK", "RESTORE_WORK", "REMOVE_WORK"}
RestStates == {"NEW", "AUTHZ_START", "AUTHZ_DONE", "VERIFY_START",
               "VERIFY_DONE", "RESTORE_START", "RESTORE_DONE",
               "REMOVE_START", "REMOVE_DONE"}
RetryStates == {"ERROR", "RESTORE_RECOVER_START", "RESTORE_RECOVER_WORK"}
EndStates == {"DONE", "FAILED"}
Absent == {"NONE", "DELETED"}
State == WorkStates \cup RestStates \cup RetryStates \cup EndStates \cup Absent

NoState == "none"

Row == [state : State, last : State \cup {NoState}, errors : Nat,
        due : BOOLEAN,    \* next_update has passed
        tmp : BOOLEAN,    \* tmp_dump_spath is set
        staged : BOOLEAN, \* stage_volume is set
        path : BOOLEAN,   \* stage_path is set
        info : BOOLEAN]   \* backend_req_info is set

\* Mutant of NewRow: the state is left out.
NewRowUnknown(s) == [state |-> NoState, last |-> NoState, errors |-> 0,
                     due |-> TRUE, tmp |-> FALSE, staged |-> FALSE,
                     path |-> FALSE, info |-> FALSE]

\* The row db.rreq.create inserts (or will insert).
NewRow(s) == [state |-> s, last |-> NoState, errors |-> 0, due |-> TRUE,
              tmp |-> FALSE, staged |-> FALSE, path |-> FALSE, info |-> FALSE]

Active(r) == req[r].state \notin EndStates \cup Absent

\* Every update resets next_update, unless it sets it.
To(row, s) == [row EXCEPT !.state = s, !.due = TRUE]
Later(row, s) == [row EXCEPT !.state = s, !.due = FALSE]

\* RestoreRequest.error: an error while recovering from an error is final.
Errored(row) ==
  IF row.state \in RetryStates THEN To(row, "FAILED")
  ELSE [To(row, "ERROR") EXCEPT !.last = row.state, !.errors = @ + 1]

(***************************************************************************)
(* Children.  A child updates its row only if state and data version are   *)
(* those of its copy.  The version only grows, so a child whose row was    *)
(* updated by someone else never finds it again: it is no longer fresh.    *)
(***************************************************************************)

Content == {"none", "good", "bad"}

Call == {"authz", "verify", "claim", "link", "claimed", "absent", "request",
         "wait", "check", "sum", "verified", "restore", "restoring",
         "restored", "undo", "unlink", "unlinked", "mount", "mounted",
         "notify", "remove", "rmvol", "path", "rmmount", "gone", "removed",
         "recover", "error"}

Kid == [req : Req, at : Call, row : Row, fresh : BOOLEAN,
        sum : BOOLEAN, \* the blob at hand has a checksum to compare with
        tries : 0 .. 1]

\* Mutant of Stale: the data version is not incremented.
SameVersion(S, R) == S

Stale(S, R) == {[k EXCEPT !.fresh = @ /\ k.req \notin R] : k \in S}

\* The rows of R change, and no copy of them is good any more.
Overwrite(R, Op(_)) ==
  /\ req' = [r \in Req |-> IF r \in R THEN Op(req[r]) ELSE req[r]]
  /\ kids' = Stale(kids, R)

Go(k, at) == kids' = (kids \ {k}) \cup {[k EXCEPT !.at = at]}
Exit(k) == kids' = kids \ {k}

\* Update the row and go on.  An update that finds no row raises
\* DbNoUpdateError, as does the one that would report this: the child exits.
Touch(k, at, new) ==
  \/ /\ k.fresh
     /\ req' = [req EXCEPT ![k.req] = new]
     /\ kids' = Stale(kids \ {k}, {k.req}) \cup {[k EXCEPT !.at = at, !.row = new]}
  \/ /\ ~ k.fresh
     /\ Exit(k)
     /\ UNCHANGED req

\* Mutant of Finish: state and version are not looked at.
FinishAnyway(k, new) ==
  /\ req' = [req EXCEPT ![k.req] = new]
  /\ kids' = Stale(kids \ {k}, {k.req})

\* The last update of a child.
Finish(k, new) ==
  /\ IF k.fresh THEN req' = [req EXCEPT ![k.req] = new] ELSE UNCHANGED req
  /\ kids' = IF k.fresh THEN Stale(kids \ {k}, {k.req}) ELSE kids \ {k}

-----------------------------------------------------------------------------
(***************************************************************************)
(* The server.                                                             *)
(***************************************************************************)

Passes ==
  {[from |-> "NEW", start |-> "AUTHZ_START",
    work |-> "AUTHZ_WORK", at |-> "authz"],
   [from |-> "AUTHZ_DONE", start |-> "VERIFY_START",
    work |-> "VERIFY_WORK", at |-> "verify"],
   [from |-> "VERIFY_DONE", start |-> "RESTORE_START",
    work |-> "RESTORE_WORK", at |-> "restore"],
   [from |-> "RESTORE_DONE", start |-> "REMOVE_START",
    work |-> "REMOVE_WORK", at |-> "remove"],
   [from |-> "ERROR", start |-> "RESTORE_RECOVER_START",
    work |-> "RESTORE_RECOVER_WORK", at |-> "recover"]}

\* Requests in a state whose next_update is not in the future.
Due(s) == {r \in Req : req[r].state = s /\ req[r].due}

\* find_update, first half: one UPDATE for all requests.
TakeUp(pass) ==
  /\ Due(pass.from) # {}
  /\ Overwrite(Due(pass.from), LAMBDA row : To(row, pass.start))
  /\ UNCHANGED <<files, staging, outside>>

\* find_update, second half, and _process: a child for each of them.
Fork(pass) ==
  LET S == Due(pass.start)
      Child(r) == [req |-> r, at |-> pass.at, row |-> To(req[r], pass.work),
                   fresh |-> TRUE, sum |-> FALSE, tries |-> 0]
  IN  /\ S # {}
      /\ req' = [r \in Req |-> IF r \in S THEN To(req[r], pass.work) ELSE req[r]]
      /\ kids' = Stale(kids, S) \cup {Child(r) : r \in S}
      /\ late' = late \cup {k.req : k \in {k \in kids : /\ k.req \in S
                                                        /\ k.at # "notify"}}
      /\ UNCHANGED <<files, staging, dumps, del, admin, deaths, trims>>

\* _finish_reqs.
FinishReqs ==
  LET S == {r \in Req : req[r].state = "REMOVE_DONE"}
  IN  /\ S # {}
      /\ Overwrite(S, LAMBDA row : To(row, "DONE"))
      /\ UNCHANGED <<files, staging, outside>>

-----------------------------------------------------------------------------
(***************************************************************************)
(* What a child does: authorisation, and the claim on the dump.            *)
(***************************************************************************)

\* do_authz.
Authz(k) ==
  /\ k.at = "authz"
  /\ \/ Finish(k, To(k.row, "AUTHZ_DONE"))
     \/ Go(k, "error") /\ UNCHANGED req
  /\ UNCHANGED <<files, staging, outside>>

\* do_verify, start: is there a temporary blob, and is it still there?
Verify(k) ==
  /\ k.at = "verify"
  /\ \/ /\ k.row.tmp /\ link[k.req] = "none"
        /\ Touch(k, "claim", [To(k.row, k.row.state) EXCEPT !.tmp = FALSE])
     \/ /\ k.row.tmp /\ link[k.req] # "none"
        /\ Go(k, "check")
        /\ UNCHANGED req
     \/ /\ ~ k.row.tmp
        /\ Go(k, "claim")
        /\ UNCHANGED req
  /\ UNCHANGED <<files, staging, outside>>

\* _doclaim, until the link is made: a leftover link of the request goes.
Claim(k) ==
  LET d == DumpOf[k.req]
  IN  /\ k.at = "claim"
      /\ \/ disk[d] = "none" /\ Go(k, "absent") /\ UNCHANGED link
         \/ /\ disk[d] # "none"
            /\ Go(k, "link")
            /\ link' = [link EXCEPT ![k.req] = "none"]
         \/ Go(k, "error") /\ UNCHANGED link
      /\ UNCHANGED <<req, disk, left, staging, outside>>

\* os.link: the dump may have been trimmed since it was seen.  Try once more.
Link(k) ==
  LET d == DumpOf[k.req]
  IN  /\ k.at = "link"
      /\ \/ /\ disk[d] # "none"
            /\ link' = [link EXCEPT ![k.req] = disk[d]]
            /\ kids' = (kids \ {k}) \cup {[k EXCEPT !.at = "claimed", !.sum = TRUE]}
         \/ /\ disk[d] = "none"
            /\ kids' = (kids \ {k}) \cup
                 {IF k.tries = 0 THEN [k EXCEPT !.at = "claim", !.tries = 1]
                  ELSE [k EXCEPT !.at = "error"]}
            /\ UNCHANGED link
         \/ Go(k, "error") /\ UNCHANGED link
      /\ UNCHANGED <<req, disk, left, staging, outside>>

\* maybe_delete: if the claim cannot be recorded, the link is deleted, unless
\* that fails.
Claimed(k) ==
  /\ k.at = "claimed"
  /\ Touch(k, "check", [To(k.row, k.row.state) EXCEPT !.tmp = TRUE])
  /\ \/ UNCHANGED link
     \/ ~ k.fresh /\ link' = [link EXCEPT ![k.req] = "none"]
  /\ UNCHANGED <<disk, left, staging, outside>>

\* The dump is not on disk: the operator is asked for it, once.
AskFor(k) ==
  /\ k.at = "absent"
  /\ \/ k.row.info /\ Go(k, "wait") /\ UNCHANGED req
     \/ ~ k.row.info /\ Touch(k, "request", To(k.row, k.row.state))
  /\ UNCHANGED <<files, staging, outside>>

\* _handle_backend_req: backend/request_cmd.
Request(k) ==
  /\ k.at = "request"
  /\ \/ Touch(k, "wait", [To(k.row, k.row.state) EXCEPT !.info = TRUE])
     \/ Go(k, "error") /\ UNCHANGED req
  /\ UNCHANGED <<files, staging, outside>>

\* Look again in about backend/check_interval.
Wait(k) ==
  /\ k.at = "wait"
  /\ Finish(k, Later(k.row, "VERIFY_START"))
  /\ UNCHANGED <<files, staging, outside>>

Check(k) ==
  /\ k.at = "check"
  /\ Touch(k, "sum", To(k.row, k.row.state))
  /\ UNCHANGED <<files, staging, outside>>

\* Mutant of Checksum: a blob without checksum passes.
ChecksumIfAny(k) ==
  /\ k.at = "sum"
  /\ \/ /\ link[k.req] = "good" \/ ~ k.sum
        /\ Go(k, "verified")
     \/ Go(k, "error")
  /\ UNCHANGED <<req, files, staging, outside>>

\* Size and checksum.  A temporary blob found again in the row comes without
\* a checksum, and then verify_checksum raises whatever the blob holds.
Checksum(k) ==
  /\ k.at = "sum"
  /\ \/ /\ link[k.req] = "good" /\ k.sum
        /\ Go(k, "verified")
     \/ Go(k, "error")
  /\ UNCHANGED <<req, files, staging, outside>>

Verified(k) ==
  /\ k.at = "verified"
  /\ Finish(k, To(k.row, "VERIFY_DONE"))
  /\ UNCHANGED <<files, staging, outside>>

-----------------------------------------------------------------------------
(***************************************************************************)
(* The staging volume.                                                     *)
(***************************************************************************)

\* do_restore, start: a volume restored by an earlier attempt is used.
Start(k) ==
  /\ k.at = "restore"
  /\ Go(k, IF k.row.staged THEN "unlink"
           ELSE IF k.row.tmp THEN "restoring" ELSE "error")
  /\ UNCHANGED <<req, files, staging, outside>>

\* vos restore ends, or fails half-way, or is killed because the updates
\* that accompany it found the row changed.
Restoring(k) ==
  /\ k.at = "restoring"
  /\ \/ /\ link[k.req] # "none"
        /\ volume' = [volume EXCEPT ![k.req] = link[k.req]]
        /\ Go(k, "restored")
     \/ /\ volume' \in {volume, [volume EXCEPT ![k.req] = "part"]}
        /\ Go(k, "undo")
  /\ UNCHANGED <<req, files, mount, aged, outside>>

Restored(k) ==
  /\ k.at = "restored"
  /\ \/ /\ k.fresh
        /\ Touch(k, "unlink", [To(k.row, k.row.state) EXCEPT !.staged = TRUE])
     \/ /\ ~ k.fresh
        /\ Go(k, "undo")
        /\ UNCHANGED req
  /\ UNCHANGED <<files, staging, outside>>

\* The error path of the restore removes the volume; if that fails, too, it
\* stays.
Undo(k) ==
  /\ k.at = "undo"
  /\ volume' \in {volume, [volume EXCEPT ![k.req] = "none"]}
  /\ Go(k, "error")
  /\ UNCHANGED <<req, files, mount, aged, outside>>

\* Mutant of Unlink: the temporary blob stays.
UnlinkNothing(k) ==
  /\ k.at = "unlink"
  /\ Go(k, "unlinked")
  /\ UNCHANGED <<req, files, staging, outside>>

\* The temporary blob is deleted, and then taken out of the row, even if the
\* delete failed (DumpBlob.delete suppresses every OSError).
Unlink(k) ==
  /\ k.at = "unlink"
  /\ \/ /\ k.row.tmp
        /\ link' = [link EXCEPT ![k.req] = "none"]
        /\ left' = left \ {k.req}
     \/ /\ k.row.tmp
        /\ left' = left \cup {k.req}
        /\ UNCHANGED link
     \/ ~ k.row.tmp /\ UNCHANGED <<link, left>>
  /\ Go(k, "unlinked")
  /\ UNCHANGED <<req, disk, staging, outside>>

Unlinked(k) ==
  /\ k.at = "unlinked"
  /\ Touch(k, "mount", [To(k.row, k.row.state) EXCEPT !.tmp = FALSE])
  /\ UNCHANGED <<files, staging, outside>>

\* fs mkmount.  It fails if the mount point exists; a command that failed may
\* have made it all the same.
Mount(k) ==
  /\ k.at = "mount"
  /\ \/ /\ k.req \notin mount
        /\ mount' = mount \cup {k.req}
        /\ Go(k, "mounted")
     \/ /\ mount' \in {mount, mount \cup {k.req}}
        /\ Go(k, "error")
  /\ UNCHANGED <<req, files, volume, aged, outside>>

\* stage_time is now.  The child goes on to tell the user.
Mounted(k) ==
  /\ k.at = "mounted"
  /\ Touch(k, "notify", [To(k.row, "RESTORE_DONE") EXCEPT !.path = TRUE])
  /\ aged' = IF k.fresh THEN aged \ {k.req} ELSE aged
  /\ UNCHANGED <<files, volume, mount, outside>>

\* _handle_notify, after the request is in RESTORE_DONE.
Notify(k) ==
  /\ k.at = "notify"
  /\ Exit(k) \/ Go(k, "error")
  /\ UNCHANGED <<req, files, staging, outside>>

\* do_remove, until vos remove.  The look for the volume may fail, too.
Remove(k) ==
  /\ k.at = "remove"
  /\ \/ /\ k.req \notin aged
        /\ Finish(k, Later(k.row, "REMOVE_START"))
     \/ /\ k.req \in aged
        /\ IF k.row.staged /\ volume[k.req] # "none"
           THEN Touch(k, "rmvol", To(k.row, k.row.state))
           ELSE Go(k, "path") /\ UNCHANGED req
     \/ /\ k.req \in aged /\ k.row.staged
        /\ Go(k, "error")
        /\ UNCHANGED req
  /\ UNCHANGED <<files, staging, outside>>

\* A command that fails may have done its work.
RemoveVolume(k) ==
  /\ k.at = "rmvol"
  /\ \/ /\ volume' = [volume EXCEPT ![k.req] = "none"]
        /\ Go(k, "path") \/ Go(k, "error")
     \/ /\ UNCHANGED volume
        /\ Go(k, "error")
  /\ UNCHANGED <<req, files, mount, aged, outside>>

LookForMount(k) ==
  /\ k.at = "path"
  /\ \/ IF k.row.path /\ k.req \in mount
        THEN Touch(k, "rmmount", To(k.row, k.row.state))
        ELSE Go(k, "gone") /\ UNCHANGED req
     \/ k.row.path /\ Go(k, "error") /\ UNCHANGED req
  /\ UNCHANGED <<files, staging, outside>>

RemoveMount(k) ==
  /\ k.at = "rmmount"
  /\ \/ /\ mount' = mount \ {k.req}
        /\ Go(k, "gone") \/ Go(k, "error")
     \/ /\ UNCHANGED mount
        /\ Go(k, "error")
  /\ UNCHANGED <<req, files, volume, aged, outside>>

\* What is really gone is taken out of the row.
Gone(k) ==
  LET new == [To(k.row, k.row.state) EXCEPT
                !.staged = @ /\ volume[k.req] # "none",
                !.path = @ /\ k.req \in mount]
  IN  /\ k.at = "gone"
      /\ \/ IF new = k.row THEN Go(k, "removed") /\ UNCHANGED req
            ELSE Touch(k, "removed", new)
         \/ /\ k.row.staged \/ k.row.path
            /\ Go(k, "error") /\ UNCHANGED req
      /\ UNCHANGED <<files, staging, outside>>

Removed(k) ==
  /\ k.at = "removed"
  /\ Finish(k, To(k.row, IF k.row.staged \/ k.row.path
                         THEN "REMOVE_START" ELSE "REMOVE_DONE"))
  /\ UNCHANGED <<files, staging, outside>>

-----------------------------------------------------------------------------
(***************************************************************************)
(* Errors.                                                                 *)
(***************************************************************************)

\* Mutant of RetryState: the restore is not done again from its start.
RetryStays == [s \in WorkStates \cup RestStates |-> s]

\* ret_table: work is done again from its start.
RetryState ==
  [s \in WorkStates \cup RestStates |->
     CASE s = "AUTHZ_WORK"   -> "AUTHZ_START"
       [] s = "VERIFY_WORK"  -> "VERIFY_START"
       [] s = "RESTORE_WORK" -> "RESTORE_START"
       [] s = "REMOVE_WORK"  -> "REMOVE_START"
       [] OTHER              -> s]

\* do_recover.
Recover(k) ==
  /\ k.at = "recover"
  /\ IF k.row.errors >= ErrorLimit \/ k.row.last \notin DOMAIN RetryState
     THEN Finish(k, To(k.row, "FAILED"))
     ELSE Finish(k, [To(k.row, RetryState[k.row.last]) EXCEPT !.last = NoState])
  /\ UNCHANGED <<files, staging, outside>>

\* process_child caught an exception.
Fail(k) ==
  /\ k.at = "error"
  /\ Finish(k, Errored(k.row))
  /\ UNCHANGED <<files, staging, outside>>

\* Nothing watches over restore requests: the row stays in its *_WORK state.
Die(k) ==
  /\ deaths < MaxDeaths
  /\ deaths' = deaths + 1
  /\ Exit(k)
  /\ UNCHANGED <<req, files, staging, dumps, del, late, admin, trims>>

KidStep(k) ==
  \/ Authz(k)
  \/ Verify(k) \/ Claim(k) \/ Link(k) \/ Claimed(k) \/ AskFor(k) \/ Request(k)
  \/ Wait(k) \/ Check(k) \/ Checksum(k) \/ Verified(k)
  \/ Start(k) \/ Restoring(k) \/ Restored(k) \/ Undo(k) \/ Unlink(k)
  \/ Unlinked(k) \/ Mount(k) \/ Mounted(k) \/ Notify(k)
  \/ Remove(k) \/ RemoveVolume(k) \/ LookForMount(k) \/ RemoveMount(k)
  \/ Gone(k) \/ Removed(k)
  \/ Recover(k) \/ Fail(k)

-----------------------------------------------------------------------------
(***************************************************************************)
(* Operators, and the dump the request wants.                              *)
(***************************************************************************)

\* restore-start.  The row refers to a volume_dumps row (a foreign key).
Create(r) ==
  /\ req[r].state = "NONE"
  /\ DumpOf[r] \in dumps
  /\ Overwrite({r}, LAMBDA row : NewRow("NEW"))
  /\ UNCHANGED <<files, staging, outside>>

\* restore-kill, in any state.
Kill(r) ==
  /\ req[r].state \notin Absent
  /\ admin < MaxAdmin
  /\ admin' = admin + 1
  /\ Overwrite({r}, LAMBDA row :
       [To(row, "FAILED") EXCEPT
          !.last = IF @ = NoState THEN row.state ELSE @])
  /\ UNCHANGED <<files, staging, dumps, del, late, deaths, trims>>

\* restore-retry.
Retry(r) ==
  /\ req[r].state \in {"ERROR", "FAILED"}
  /\ admin < MaxAdmin
  /\ admin' = admin + 1
  /\ Overwrite({r}, LAMBDA row :
       [To(row, "RESTORE_RECOVER_START") EXCEPT !.errors = 0])
  /\ UNCHANGED <<files, staging, dumps, del, late, deaths, trims>>

\* The operator deletes what storage-trim lists, and restores from tape what
\* requests wait for, not always intact.
Trim(d) ==
  /\ trims < MaxTrims
  /\ disk[d] # "none"
  /\ trims' = trims + 1
  /\ disk' = [disk EXCEPT ![d] = "none"]
  /\ UNCHANGED <<req, kids, link, left, staging, dumps, del, late, admin, deaths>>

FetchFromTape(d) ==
  /\ disk[d] = "none"
  /\ \E r \in Req : DumpOf[r] = d /\ Active(r) /\ req[r].info
  /\ \E c \in {"good", "bad"} : disk' = [disk EXCEPT ![d] = c]
  /\ UNCHANGED <<req, kids, link, left, staging, outside>>

\* BlobStore.clean_tmp goes by the age of the file, and a link is as old as
\* the dump it was made from.
CleanTmp(r) ==
  /\ link[r] # "none"
  /\ DumpOf[r] \in Old
  /\ link' = [link EXCEPT ![r] = "none"]
  /\ UNCHANGED <<req, kids, disk, left, staging, outside>>

\* dump-delete, in steps that are separate transactions: refuse if a request
\* is active; delete the others; delete the dump's row, which a request made
\* or brought back meanwhile forbids; delete the blob, if asked to.
Refers(r, d) == DumpOf[r] = d /\ req[r].state \notin Absent

LookForRequests(d) ==
  /\ del[d] = "no" /\ d \in dumps
  /\ ~ \E r \in Req : DumpOf[r] = d /\ Active(r)
  /\ del' = [del EXCEPT ![d] = "clear"]
  /\ UNCHANGED <<req, kids, files, staging, dumps, late, admin, deaths, trims>>

ClearRequests(d) ==
  /\ del[d] = "clear"
  /\ Overwrite({r \in Req : Refers(r, d) /\ req[r].state \in EndStates},
               LAMBDA row : NewRow("DELETED"))
  /\ del' = [del EXCEPT ![d] = "drop"]
  /\ UNCHANGED <<files, staging, dumps, late, admin, deaths, trims>>

\* Mutant of DropDump: no foreign key.
DropDumpAnyway(d) ==
  /\ del[d] = "drop"
  /\ dumps' = dumps \ {d}
  /\ del' = [del EXCEPT ![d] = "blob"]
  /\ UNCHANGED <<req, kids, files, staging, late, admin, deaths, trims>>

DropDump(d) ==
  /\ del[d] = "drop"
  /\ IF \E r \in Req : Refers(r, d)
     THEN /\ del' = [del EXCEPT ![d] = "no"]
          /\ UNCHANGED dumps
     ELSE /\ del' = [del EXCEPT ![d] = "blob"]
          /\ dumps' = dumps \ {d}
  /\ UNCHANGED <<req, kids, files, staging, late, admin, deaths, trims>>

DropBlob(d) ==
  /\ del[d] = "blob"
  /\ del' = [del EXCEPT ![d] = "done"]
  /\ disk' \in {disk, [disk EXCEPT ![d] = "none"]}
  /\ UNCHANGED <<req, kids, link, left, staging, dumps, late, admin, deaths, trims>>

\* Time passes: next_update comes, stage/lifetime ends.
Tick(r) ==
  /\ ~ req[r].due
  /\ req' = [req EXCEPT ![r].due = TRUE]
  /\ UNCHANGED <<kids, files, staging, outside>>

Age(r) ==
  /\ req[r].path
  /\ r \notin aged
  /\ aged' = aged \cup {r}
  /\ UNCHANGED <<req, kids, files, volume, mount, outside>>

-----------------------------------------------------------------------------

Init ==
  /\ req = [r \in Req |-> NewRow("NONE")]
  /\ kids = {}
  /\ disk \in [Dump -> {"none", "good"}]
  /\ link = [r \in Req |-> "none"]
  /\ volume = [r \in Req |-> "none"]
  /\ mount = {}
  /\ aged = {}
  /\ dumps = Dump
  /\ del = [d \in Dump |-> "no"]
  /\ left = {}
  /\ late = {}
  /\ admin = 0
  /\ deaths = 0
  /\ trims = 0

ServerStep ==
  \/ \E pass \in Passes : TakeUp(pass) \/ Fork(pass)
  \/ FinishReqs

Delete(d) ==
  LookForRequests(d) \/ ClearRequests(d) \/ DropDump(d) \/ DropBlob(d)

Next ==
  \/ ServerStep
  \/ \E k \in kids : KidStep(k) \/ Die(k)
  \/ \E r \in Req : \/ Create(r) \/ Kill(r) \/ Retry(r)
                    \/ CleanTmp(r) \/ Tick(r) \/ Age(r)
  \/ \E d \in Dump : Trim(d) \/ FetchFromTape(d) \/ Delete(d)

Spec == Init /\ [][Next]_vars

(***************************************************************************)
(* The server cycles, children that live go on, time passes, and dumps     *)
(* that were asked for are brought back from tape.                         *)
(***************************************************************************)
Fairness ==
  /\ WF_vars(ServerStep)
  /\ WF_vars(\E k \in kids : KidStep(k))
  /\ \A r \in Req : WF_vars(Tick(r)) /\ WF_vars(Age(r))
  /\ \A d \in Dump : WF_vars(FetchFromTape(d))

FairSpec == Spec /\ Fairness

-----------------------------------------------------------------------------
(***************************************************************************)
(* Properties.                                                             *)
(***************************************************************************)

\* The shape of the state.
TypeOK ==
  /\ req \in [Req -> Row]
  /\ kids \subseteq Kid
  /\ disk \in [Dump -> Content]
  /\ link \in [Req -> Content]
  /\ volume \in [Req -> Content \cup {"part"}]
  /\ mount \subseteq Req
  /\ aged \subseteq Req
  /\ dumps \subseteq Dump
  /\ del \in [Dump -> {"no", "clear", "drop", "blob", "done"}]
  /\ left \subseteq Req
  /\ late \subseteq Req
  /\ {admin, deaths, trims} \subseteq Nat

\* Of the children of a request at most one can still write its row, and what
\* it would write back is what the row holds.
OneWriter ==
  /\ \A k, l \in kids : k.req = l.req /\ k.fresh /\ l.fresh => k = l
  /\ \A k \in kids :
       k.fresh => [k.row EXCEPT !.due = TRUE] = [req[k.req] EXCEPT !.due = TRUE]

\* What a user was told to find at the stage path is there, intact, for as
\* long as stage/lifetime, whatever fails, is killed or retried after that: it
\* was restored from a blob that passed verification, although blobs vanish,
\* come back damaged, and are looked at again after errors.  (Two children of
\* one request at work at once spoil this: a kill does not stop the first.)
StagedIsKept ==
  \A r \in Req \ late :
    req[r].path /\ r \notin aged => volume[r] = "good" /\ r \in mount

\* A request that is DONE left nothing behind: no staging volume, no mount
\* point, and no link to a blob but one that could not be deleted (the code
\* forgets it then).  (Again but for two children at work at once.)
DoneIsClean ==
  \A r \in Req \ late :
    req[r].state = "DONE" => /\ link[r] = "none" \/ r \in left
                             /\ volume[r] = "none"
                             /\ r \notin mount

\* No request refers to a dump that dump-delete removed, although the look for
\* active requests and the removal are separate transactions.
RequestsHaveDumps ==
  \A r \in Req : req[r].state \notin Absent => DumpOf[r] \in dumps

\* DONE is final but for operators, and so is FAILED: no child that outlived a
\* kill brings the request back.
EndStays ==
  [][\A r \in Req :
       req[r].state \in EndStates =>
         req'[r] = req[r] \/ req'[r].state = "DELETED" \/ admin' # admin]_vars

\* Every request ends, unless one of its children died without a word.
RequestEnds ==
  \A r \in Req : []<>(~ Active(r) \/ deaths > 0)

=============================================================================
