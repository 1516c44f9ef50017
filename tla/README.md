# FABS in TLA+

FABS backs up an AFS cell: it clones the volumes of the cell, dumps them into
storage directories, records the dumps in a database, and restores them on
request.  This directory holds TLA+ specifications of all of that: jobs, runs,
restores, the storage, the searches, and the programs it runs.  With them come
TLC configurations that model-check them on small instances, and theorems about
them proved with TLAPS.  File names below are relative to the directory that
holds `fabs/`.

    tlc -config MCDumpJob_quota.cfg MCDumpJob     # one run
    tlapm DumpJob_proof.tla                       # the proofs

`PROJECT.json` lists the components, the runs, for every property a mutated
definition under which it fails, the source lines every definition stands for,
the hazards of the code with the properties aimed at them, and the theorems.

## 1. Inventory of the system

One server process (`fabsys server`) runs a loop over three tables of the
database (backup runs, dump jobs, restore requests).  For the rows in each
state it has *passes*: one UPDATE moves all rows from a waiting state to the
matching `*_START` state, a second one moves them on to `*_WORK`, and one child
process per row does the work.  Child processes and command lines share
nothing with the server but the database (and the storage directories).  Every
update of a row says which state it expects, most also say which data version
(`dv`) they expect, and an update that finds no such row raises an exception.

| Component | State | Operations | Hard behaviours | What makes it correct |
|---|---|---|---|---|
| **Dump jobs** `fabs/dumpjob.py` | `dump_jobs`: state, state_last, errors, dv, timeout, running, skip_reason | `process_jobs` (passes, `_check_stale`), `do_clone`, `do_dump`, `do_recover`, `error`, `get_counts`, `QuotaCounts` | slow children whose job was given up; death at any step; retries; counting and starting in two transactions | one owner per job; slots neither leaked nor exceeded; an ended job stays ended; a dumped job has a row and a blob |
| **Backup runs** `fabs/brun.py` | `backup_runs`, `vl_entries` | nine stages from `NEW` to `DONE`, each with a handler; `do_recover`, `error`, `kill`, `retry`, `_filter_dups`, `clean_cruft` | operators kill and retry at any time; handlers guarded only at their first and last update; cleaning against late children | stages in order; every volume reported; dumps never orphaned; conflicts leave one run; runs end |
| **Main loop** `fabs/server.py` | place in the cycle, wake-up event | `run`, `made_progress`, `_InterruptibleSleep` | an exception cuts a pass short; lost wake-ups | every table is looked at again and again |
| **Database layer** `fabs/db.py` | all tables; schema version | guarded single and bulk updates (`find_update`, `_update`), constraints, connect/upgrade/dump | bulk updates commit in batches; upgrade stops half-way | an update finds the row its writer read, or none |
| **Reports** `fabs/report.py` | none | `report_success`, report commands | reads jobs while the server changes them | what it says of a volume is true |
| **Restore requests** `fabs/restore.py` | `restore_reqs`: state, next_update, stage volume, tmp blob | `create`, authorise, verify, restore, wait, remove, recover, notify, kill, retry | retries of steps that are not idempotent; errors after the last update; dumps that disappear | a request ends; no staging volume or temporary blob is leaked |
| **Blob storage** `fabs/bstore.py` | files in storage directories, storage lock | allocate, `commit`, `claim_restore`, trim, inject, clean temporary files | trimming against claiming; lock time-outs; age-based cleaning against slow writers; room that is found under a lock and used without it | a recorded blob is there until trimmed; a dumped volume has one on disk |
| **Volume dumps** `fabs/voldump.py` | `volume_dumps` | create, find by date, delete | delete against use; a search is several queries; ids, clone times and file ages are three orders | a search misses no dump |
| **Path resolution** `fabs/path.py` | none (reads links) | resolve a path to volume and path | cyclic symlinks, mount points | stops; agrees with the filesystem |
| **Authorisation, utilities** `fabs/util.py` | none | rights evaluation, dates, sizes, `FabsProcess` | negative rights, boundaries | rights as AFS computes them |
| **Configuration** `fabs/config.py`, `fabs/const.py.in` | option tree | read, merge, look up | none at run time | |
| **AFS commands** `fabs/cmd.py` | a process, its pipes, the incomplete line, the parser's state | run, read, time out, kill, parse `vos`, `fs`, `pts`, `afsdump_scan` | output cut anywhere, truncated, or odd; programs that fail half-way, linger or resist signals | a result is all of what a successful program printed |
| **Log, errors** `fabs/log.py`, `fabs/err.py` | none | | | |
| **Operator CLI** `fabs/scripts/fabsys.py` | none | backup-start, -kill, -retry, dump-delete, storage-trim, restore commands | runs at any moment of the server's cycle | acts on the row it read |
| **User CLI** `fabs/scripts/sbaf.py` | none | request and watch restores | | |

How they interact: a backup run creates its jobs (`create_clones`), starts them
within quotas (`_sched`), and otherwise only looks at their state; a job's
child commits a blob (blob storage) and records it (volume dumps), both keyed
by the volume entry of the run; cleaning deletes jobs, unused entries and empty
runs; a report reads the jobs; a restore request links the blob of a volume
dump, and blob storage trims old ones; everything that touches AFS runs a
program and parses what it prints.

## 2. The modules

    Quota  <-- JobPool           what the jobs promise the runs (abstract)
       ^          ^
       |          | refines (ImplementsPool)
       +------ DumpJob <-- MCDumpJob         jobs, children, one scheduler per run
                  ^
                  +-- DumpJob_proof          theorems: types, quotas, slots, one writer
                          ^
                          +-- DumpJobSteps_proof    dumps, errors, reports, work
                                  ^
                                  +-- DumpJobPool_proof    stages, the refinement
    BackupRun <-- MCBackupRun                runs, server cycle, CLI, cleaning
       ^
       +-- BackupRun_proof
    Restore   <-- MCRestore                  requests, claims, staging, dump-delete
       ^
       +-- Restore_proof

    Storage          <--+                    room and files
    Catalog <-- Path <--+-- Archive          dumps, searches, paths; all together
                              ^
                              +-- Lookup <-- MCArchive   reference for paths
    Storage <-- Storage_proof <--+           lemmas: sums, and each operation on files
    Archive <--------------------+-- Archive_proof    theorems: types, room, dumps, searches
    Parsers <--+                             what the programs print
    Command <--+-- MCCommand                 running them
       ^
       +-- Command_proof                     theorems: whole results and dumps, no orphans

An arrow points to the module that is used.

### Quota

Which jobs belong to which run, partition and server, and the arithmetic of
the quotas.  `WithinQuota` is what the options `dump/parallel/{total, server,
partition}` promise.  `Fits` is what `QuotaCounts.quota_ok` tests, with the
peculiar total of `get_counts`: it walks the (server, partition) rows of the
query and adds, at each row, the count its *server* has reached, so a server
with two busy partitions counts its first one twice (`CountedTotal`; the order
of the rows is the constant `GroupRank`).  `Batches` is what the loop of
`_sched` can schedule: a set of pending jobs that fits and that no further one
can join.

### DumpJob

`row` is the `dump_jobs` table.  `timed` stands for "timeout is not 0", `dv`
for the data version.  The server's passes are `TakeUp` (the first half of
`_process`: one UPDATE), `Fork` (the second half), `Retire`, and `CheckStale`.
A child of `kids` holds the state, data version and errors of its copy of the
row (`Fresh`: the WHERE clause of its next update matches) and the call it
makes next:

    clone  -> cloned | skip | error                    do_clone
    fetch  -> scan -> commit -> record -> dumped       do_dump
                 \-> reject (stale injected blob)
    recover                                            do_recover
    error                                              process_child's handler

`LoseRow` is the child whose update finds no row, `Die` a child that is killed
at any step.  Since `Commit` and `Record` touch no row, a child that was given
up as stale carries them out all the same, next to its successor.  The run that
owns the jobs is reduced to its two scheduling stages, the creation of dumps
and the report.  `_sched` is a step for each of its transactions: `CountRunning`,
`Schedule` (the bulk transaction that starts jobs), the two last looks
`AskPending` and `AskRunning`, and `EndSched`, the update of the run's row with
what `_sched` returned.  `Injected` are jobs of a run made with `backup-inject`, whose dump
is a file that exists once.

### JobPool

The abstract specification: a job is pending, cloning, cloned, queued, dumping
or ended; runs admit batches within the quotas; dumps are queued when no clone
is left.  DumpJob implements it with the refinement mapping `PhaseOf`: a job in
`ERROR` or recovery is in the phase where it failed.

### BackupRun

`run` is the `backup_runs` table, `entries` the `vl_entries` table, `dumps` the
entries that `volume_dumps` rows refer to.  The server's place in its cycle is
a variable: `Cycle` is the list of the 24 steps of one cycle in the order of
`process_jobs` (take, fork, ... , cleaning, end of jobs), so the order of the
passes is part of the model.  A child's copy of its row is reduced to one bit,
`mine`: has anyone written the row since?  The handlers are `ScanEntries`
(do_vlentry, with the partial commits of its bulk transactions),
`ClearClones`/`CreateClones`, `Count`/`Schedule`, `CreateDumps`, `Report`,
`CleanUp`; `Complete`, `Abort`, `Fail`, `Lose` are the ways a child ends.
`FindCleanable`, `Clean`, `CleanDone` are `clean_cruft` in the server, and
`CleanUp` is `clean_cruft` in a child.  Both are one step for each statement that
the database executes: the jobs are cleared, the unused entries deleted, the run
is looked at (`is_empty`), and only then its entries and its row are deleted, each
if no job, dump or entry refers to what goes, as the foreign keys demand.  `old`
are the runs that started more than twelve hours ago, which `cleanable_bruns` does
not look at (`Recent`); a run may grow old at any moment (`GrowOld`).  `Create`,
`Kill`, `Retry` are `backup-start`, `backup-kill` and `backup-retry`.  The jobs of a run appear as their phases,
and `dumpers` are children about to insert a volume dump, whether or not their
job still exists.

### Restore

`req` is the `restore_reqs` table.  The server's passes are `TakeUp`, `Fork`
and `FinishReqs`.  A child holds its copy of the row and whether that copy is
still `fresh`, as in DumpJob, and the call it makes next:

    authz                                                    do_authz
    verify -> claim -> link -> claimed -> check -> sum       do_verify, _doclaim
          \-> absent -> request -> wait                      _handle_backend_req
    restore -> restoring -> restored -> unlink -> mount -> notify   do_restore
    remove -> rmvol -> path -> rmmount -> gone               do_remove
    recover, error

Outside the rows are the files (`disk`: what lies at the permanent path of a
dump, good, bad or nothing; `link`: what lies at the request's temporary path),
the staging `volume` and the `mount` point.  Their names are made from the id of
the request, so two children of one request work on the same ones.  An AFS
command that fails may have done its work, half of it, or nothing.  The deletion
of the temporary link may fail, too, which the code does not notice; the history
variable `left` remembers it.  Operators
create, kill and retry requests, trim dumps, fetch them back from tape (not
always intact), and delete them with `dump-delete`, which is four transactions;
`CleanTmp` removes links to old dumps.  `Tick` and `Age` are the two clocks
(`next_update`, `stage/lifetime`).

### Storage

The storage directories as space, the lock, the temporary file of each job
(`alloc`), the committed dumps (`blob`) and the space taken by files nobody knows
any more (`litter`).  `alloc_blob` is a sequence of `Lock` (which may time out),
`Choose` (the store with most room), `Fill` (zeros, a buffer at a time) and
`Allocate`, with the way back from a full disk: the store is given up and the
next one is tried.  `Grow` and `Write` are the dump that is then written over the
zeros without the lock; `Empty` and `Copy` the file that an operator injects.

### Catalog, Path

`dumps` is the `volume_dumps` table; an id is that of the row before it plus
one, or a new one (sqlite gives the id after the highest). `again` marks a row
whose id another one had before. A search (`First`, `Second`, `More`) makes one
query at a step, in both directions of time in turn, as `_search_vol` does. A
translation of a path enters the root volume (`FromRoot`), takes one name after the
other (`Traverse`: the links of the chosen dump), and follows symlinks from the
root again (`Follow`); to enter a volume it looks for a dump since the date
(`FindOldest`) and then, if there is none, for one before it (`FindLatest`).  As in
the code, a path of which nothing is left is done, and a `%` mount point is taken
for a relative symlink.

### Archive

The composition: the child of each job looks at its volume (`Look`) and at the
last dump of it (`Compare`, which is `should_skip`), clones the volume, finds
room, dumps, commits and records (`KidStep`); any step may raise an exception or
be its last (`Fails`, `Dies`), after which the job is retried from the dump on
or ends. `Bring` to `Taken` are `backup-inject`.  Operators trim (`Trimmable`),
delete (`Redundant`) and clean; users change volumes (`Change`), search and
translate paths.  A volume and its clone are a count of changes, which no
program sees, and the time of the last update, which all of them go by.  Times
are those that the code compares: of the clone (`hdr`), of the file (`mtime`),
and `clock`.

### Lookup

The reference for Path: a client of a file server that walks through the tree of
volumes and keeps the directories it went through, so that `..` and relative
symlinks are resolved where they are met, not by name beforehand.  It notes where
the code must differ: a `..` after a symlink (`dots`) and a `%` mount point (`rw`).

### Command, Parsers

A program prints, complains, closes its pipes, exits, or does none of these
(`ProgramStep`); the cursor reads what there is, times out, and sees the program
off (`CursorStep`): wait, SIGTERM, SIGKILL, in that order, or SIGKILL at once
after an error.  Each line of text is two pieces, so that reads end inside lines;
`Split` and `NewText` put them together again (`_TextLines`).  One module serves
both uses of a program: its output goes to a parser (an operator constant), or,
for `vos dump`, to a file that was filled in advance.  `Parsers` has all parsers of
`fabs/cmd.py`.  A line is the set of patterns it matches with what they capture;
the order of the alternatives, merged alternatives, skipped lines, and what an
item, an entry or a mode allows next are as in the code.  `Listing` is the inverse:
what the program prints for a given result.

## 3. Runs

| Run | Asks | Instance and bounds |
|---|---|---|
| `dumpjob_retry` | one owner, final ends, dumped = stored, bounded errors, the run ends, refinement of JobPool | one injected job, error limit 3, links not fatal |
| `dumpjob_quota` | slots, quotas, count, stage barrier, truth of the report, every run ends | two jobs on two partitions of one server, one of them injected; total 2, server 1, partition 1; error limit 1 |
| `brun_stages` | stages in order (up to one operator command), all volumes reported, the run ends, everything unused is cleaned if the run is recent | one run, two volumes, error limit 2, one operator command, one death; the run may grow old |
| `brun_admin` | dumps keep entry and run; ended runs stay ended | one run, one volume, three operator commands |
| `brun_conflict` | a run gives way only to one that it met and that goes on | two runs, error limit 0 |
| `restore` | one writer, staged volumes stay, nothing left behind, requests have dumps, ends stay, requests end | one request for an old dump, error limit 1, two operator commands, one death, one trim |
| `archive` | room, no change skipped, dumps on disk, searches, paths | five jobs of three volumes, two of them done before, one injected; two stores (7 and 5 units, buffer of 2); one fault; time to 3, fudge time 2, maximum age 1, one change of each volume; six crews at work |
| `command` | whole results, right results, whole dumps, no orphans, calls end | every command with complete and with odd output, reads of 2 pieces, a pipe of 3, a dump shorter and longer than its room |
| `dumpjob_tworuns` | *violated*: quotas hold over all runs | two runs |
| `brun_retry` | *violated*: a failed run can be resumed | one run |
| `brun_report` | *violated*: volumes reported as failed have no dump | one run |
| `brun_parallel` | *violated*: two runs for one volume never work at once | two runs |

Why these bounds are enough.  The protocol of a job is per row: its children
compete with each other, never with those of another job, so one job with
several attempts (`dumpjob_retry`, up to three retries, hence up to four
generations of children alive at once) shows every race over a row.  What
relates jobs is the quota and the stage; for these, two jobs that want one slot
(`dumpjob_quota`, where the first error ends a job) are the smallest case in
which counting, starting, failing and retrying interleave.  That `get_counts`
makes the total too high takes two running jobs on two partitions of a server and a
third one that waits, which is out of TLC's time; that the quotas hold all the same,
and that a run in which nothing runs starts something, is proved for any number of
jobs (`QuotaHolds`, `SomethingStarts`, section 5).  Data
versions and volume dumps need no bound: each attempt makes a bounded number of
updates, and errors end the attempts.  In BackupRun the bounds are `MaxAdmin`
(kills and retries; three allow a retry of a run that was killed while the child
of an earlier retry is still at work), `MaxDeaths` (a dead child blocks its run for
good, so one is as telling as two), `MaxOld` (how many runs may grow old before they
are cleaned) and `ErrorLimit`, which bounds the stages that fail.  A bound of the
model is a guard on the operator's or the environment's action, never on the code's.

In Restore one request is enough for the same reason as one job: requests share
nothing but dumps, and what they share of those (trimming, deletion, cleaning)
happens to one request alone.  Two operator commands allow a kill and a retry
while the first child is still at work.  `ErrorLimit` is 1, so that an error
ends a request; what it leaves behind meets the stages again in the operators'
retries.  In Archive, `Crews` says who is at work at the same time.  Two jobs of
one volume compete for room and for being the newest, with cleaning or with
trimming and deleting (j2 estimates 1 and grows to 4, j3 needs 2); a job and an
injected dump compete while one copies without the lock; a job and a deletion
disturb a search; a job disturbs the walk along a path; and two jobs of a volume
look, clone and record in turn while users change it.  One fault at any of the
steps is enough to separate rows from files, and time to 3 lets three clones
differ, and a volume rest long enough to be skipped.  A change may show in the
time of the last update late, by less than `FudgeTime`.  `MaxAge` only forces
more dumps, so it is set but not reached.  The paths of `Paths` go through
nested mount points, absolute and relative symlinks, symlinks to symlinks, a
circle, links out of the cell, to `/` and across mount points, a `%` mount point,
dots before and after links, and a path that leaves the root.  In
Command, two pieces to a line and to a read make every cut happen, and the pipe
is smaller than most outputs, so that the program must wait for the reader.

Deadlock.  In DumpJob the system may really stop (all runs reported), in Restore
(requests done and bounds used up), in Archive (jobs ended, time over) and in
Command (the call is over); their configurations say so.  The server of BackupRun
never stops.

Fairness.  `FairSpec` of DumpJob: weak fairness of the server's passes and of
`CheckStale` (the main loop runs forever, at most 60 seconds apart, and a
passed time-out does not go away), of each run's stages (the same loop), and of
the children that live; `Die` is never required, and dead children are covered
because their job times out.  `FairSpec` of BackupRun: weak fairness of the
server, of the children of each run, and of each job that was started, which is
what `RunEnds` of DumpJob establishes.  A run whose child dies has no time-out
in the code and does stay in its state, so `RunsEnd` and `RequestEnds` of Restore
say "or a child died".  `FairSpec` of Restore: weak fairness of the server, of the
children that live, of the two clocks, and of the operator who fetches a dump
that was asked for from tape (without it the request rightly waits).  `FairSpec`
of Command: the cursor goes on, since its timers run out, and SIGKILL kills;
nothing is assumed of the program itself.

## 4. Where the code and its documentation disagree

* `dumpjob_tworuns`: the quotas are counted per run (`get_counts`, WHERE
  `vl_entries.br_id = brun.id`); `doc/pod1/fabsys_config.pod` says they bound
  the server.
* `brun_retry`: when no run is active, `process_jobs` cleans *all* recent runs,
  failed ones included.  A run that failed loses its jobs (and itself, if it
  has no dump) in the cycle after it failed, so a `backup-retry` that comes
  later cannot go on "from the last known good point" (README.md).
* `brun_report`: a job whose dump is recorded is `DUMP_DONE`, without a slot,
  until a later pass makes it `DONE`; the run can reach its report in between,
  and `report_success` calls the volume failed.
* `brun_parallel`: `_filter_dups` compares runs in one state only, so a second
  run that starts one cycle later follows the first one through all its stages.

Each is a counterexample TLC finds; `PROJECT.json` quotes the lines.

A fifth was met while modelling and has no run of its own: `_handle_link`
(`path.py:179`) tests twice for `#`, so a mount point of a read/write volume
(`%vol.`) is followed as a symlink, and a path through it is translated to the
volume around it, although the comment in `_handle_mntpt` (`path.py:209`) speaks of
"leading '%'/'#'".  Path.tla follows the code here (`Follow`), and `PathFound`
exempts such paths by `rw`; without that disjunct TLC finds the wrong volume.

## 5. What is proved

Every safety invariant that a run checks is a theorem but one (see the end of this
section), and so are the action properties and the refinement of JobPool.  The
theorems are about every value of the constants that these assumptions allow:

| Assumption | What it asks for |
|---|---|
| `QuotaAssumption` | finitely many jobs and partitions, maps of the right shape, a total order of the partitions, positive quotas |
| `DumpJobAssumption` | a natural error limit, a boolean, a set of injected jobs |
| `BackupRunAssumption` | what the scan finds is a set of volumes for each run, each run has a target; natural bounds |
| `RestoreAssumption` | each request is for a dump, some dumps are old; natural bounds |
| `ProgramAssumption` | what a program is; positive pipe and buffer sizes |
| `LinesAssumption` | the parser takes one line after the other: lines in two parts are as good as at once |
| `ParserAssumption` | what the parser makes of the *whole* output of a program that went well is an error or what the output means |
| `StorageAssumption` | finitely many jobs, a capacity for each store, a positive buffer size, and a value that is no store |
| `ArchiveAssumption` | maps and sets of the right shape, natural times and bounds; the clock may tick at least once |

| Module | Theorem | States |
|---|---|---|
| DumpJob_proof | `TypeCorrect` | `Spec => []TypeOK` |
| | `CountIsBound` | `[]CountHolds`: while a scheduling child is between its count and its starts, the jobs that run are among those it counted |
| | `QuotaHolds` | `[]QuotaRespected` |
| | `SomethingStarts` | `[][...]_vars`: `Schedule` starts a job if none was counted and one waits |
| | `NoSlotLeaks` | `[]RunningIffActive` |
| | `EndsStay` | `EndIsFinal` |
| | `OneWriter` | `[]OneOwner` |
| DumpJobSteps_proof | `GivenUp` | `[]ErrorsBounded` |
| | `DumpsAreStored` | `[]DumpedIsStored` |
| | `ReportsAreTrue` | `[]ReportedIsTrue` |
| | `JobsMoveOn` | `MovesOn`: a change of state is progress, and nothing takes progress away; proved, and in no run's cfg |
| | `WorkIsBounded` | `[]ProgressBounded`: the progress of a job stays at or below `13 * (TryLimit + 1) + 12` |
| DumpJobPool_proof | `NoneLeftBehind` | `[]StageBarrier` |
| | `PoolIsImplemented` | `ImplementsPool`: every step is one of JobPool, or none |
| BackupRun_proof | `RunTypes` | `[]TypeOK` |
| | `EndedStays` | `EndStays` |
| | `DumpsAreKept` | `[]DumpsKept` |
| | `OneIsSpared` | `OneGoesOn` |
| | `InOrder` | `[]StagesInOrder`, up to one operator command |
| | `EveryoneIsTold` | `[]DoneIsReported`, without operator commands |
| | `RunsAreGivenUp`, `EveryErrorCounts` | `[]TriesBounded`, `[][ErrorsCounted]_vars`: at most `TryLimit` errors, and each is counted |
| Restore_proof | `RestoreTypes` | `[]TypeOK` |
| | `OnlyOneWrites` | `[]OneWriter` |
| | `StagedStays` | `[]StagedIsKept`, but for requests with two children at work at once (`late`) |
| | `NothingIsLeft` | `[]DoneIsClean`, with the same exception, and but for links whose deletion failed (`left`) |
| | `EndIsFinal` | `EndStays` |
| | `DumpsAreThere` | `[]RequestsHaveDumps` |
| | `RequestsAreGivenUp`, `EveryErrorCounts` | `[]TriesBounded`, `[][ErrorsCounted]_vars`, as for runs |
| Archive_proof | `ArchiveTypes` | `[]TypeOK` |
| | `RoomStaysKept` | `[]RoomIsKept` |
| | `NothingIsMissed` | `[]SkippedIsDumped` |
| | `OneStaysOnDisk` | `[]OneIsOnDisk`, but for `muddled` volumes (section 7) |
| | `SearchIsComplete` | `[]SearchFindsAll`, but for rows whose id is used `again` |
| Command_proof | `CallType`, `WholeResult`, `NoneLeft` | `[]TypeOK`, `[]ResultIsWhole`, `[]NoOrphan` |
| | `WholeDump` | `[]DumpIsWhole` |
| | `CutsDoNotMatter` | `[]ParsedAsWhole`: the result is what the parser makes of the whole output at once |
| | `RightResult` | `[]ResultIsListing` |

The exceptions are parts of the properties themselves, so that the runs check the
same formulas; section 7 says where they come from in the code.

**Quotas** (`DumpJob_proof`).  `QuotaRespected` is not inductive: from a state in
which the child counted too little, `Schedule` would start too much.  The inductive
invariant is

    QuotaInv == TypeOK /\ CountHolds /\ QuotaRespected

The argument has two halves.  *Nobody but the scheduler makes a job hold a slot*
(`NoNewSlot`): a retry goes through `ERROR`, recovery and `*_START` without giving
the slot up, and every end of a job releases it; this is shown action by action
(`KidSlot`, `ServerSlot`), and gives `CountHolds` and, because fewer jobs fit where
more do (`FewerFit`), `QuotaRespected` for every step but `Schedule`.  *What the
scheduler starts fits* (`BatchFits`): although `CountedTotal` counts jobs twice, it
never counts a job less than once (`CountedEnough`), so a batch that passes
`quota_ok` on top of what was counted stays within all three quotas (`UnionBound`),
provided that what was counted covers what runs, which is `CountHolds`.  The quota
theorems are about one scheduling child per run, as in DumpJob; section 7 says when
the code can have two.  `SomethingStarts` is the other half of the too-high total: it
is 0 where nothing was counted, so that any one job fits (`OneFits`).

**Slots and ends** (`DumpJob_proof`).  `RunningIffActive` is not inductive either: a
sweep that could flag a job without a slot, or a child that could still write a job
that ended, would break it.  `SlotInv` adds what rules both out: a row that can time
out is active (every update that ends or parks a job clears its timeout), and the
copies of the children are in `*_WORK` states, so that a child which still finds its
row finds an active one.  Each step then changes only jobs that have not ended
(`OnlyLive`), which gives `EndIsFinal` too.

**One writer** (`DumpJob_proof`).  `OwnerInv` adds to `OneOwner` that no child's
copy is newer than its row (`Behind`).  Every step but the two that write files and
the volume dump is an `Advance`: the rows it writes get a new data version, which
leaves every copy behind but that of the child that wrote the row or was forked for
it.

**Steps of jobs** (`DumpJobSteps_proof`).  What is said of errors, dumps and reports
needs to know not only who writes a row but what it can become.  `RowStep` is the
table of all changes of a row: the job goes on, ends well, is skipped, has a scan
that failed, errs, goes back to a stage, or is left alone.  `NextRows` shows the
table to be complete, action by action, under

    StepInv == SlotInv /\ OwnerInv /\ KidOk for each child /\ RowsOk /\ ReportedIsTrue

A child's row of the table depends on what the child did before: `KidOk` says that
it makes the calls of the state it was forked in, that it knows the errors in its
row as long as it can write it, and that by the time it records a dump the blob is
there, and by the time it says so the row is.  `RowsOk` bounds the errors of each
state and is `DumpedIsStored`; `ReportedIsTrue` then stays because rows that ended do
not change.

**Bounded work** (`DumpJobSteps_proof`).  `RunEnds` says that a run ends; the half of
it that is a safety property is that its jobs change their state only so often.
`Progress` is the errors of a job, times the number of places on the way from one error
to the next, and its place on that way (`Rank`).  By the table `RowStep` each change
of a job's state adds to it (`StepIsProgress`): the only ways back lead through an
error, and every error is counted, also one that a time-out reports, or a child of
an earlier attempt.  With `ErrorsBounded` this bounds the progress, and hence the
changes of state.  It is no bound on the updates of a row: handlers update theirs as
often as they have something to say, which changes the data version and no more.
`ProgressBounded` is stated in the proof module, and not a property of a run.

**The pool** (`DumpJobPool_proof`).  The abstract pool sees the phase of each job
(`PhaseOf`), in which an attempt, its errors and its retries are one.  `PhaseStep`
says how a phase changes in a step, from the table `RowStep` and from `LastOk`: a
job in error remembers an active state as the last one.  With `StagesOk` (the
stage of a run and the phases of its jobs agree; once `Schedule` has counted and
started nothing, none waits or runs until the stage is over, `NoneWaits` and
`NoneRuns`) and the quotas this is `PoolInv`,
and under it each action is mapped to a step of `JobPool!PoolNext` or leaves the
phases alone: scheduling to a start within the quotas, the barrier to the queueing
of all the run's clones, the rest to phases that go on.

**Runs** (`BackupRun_proof`).  Four invariants and a step.

* `CopyInv`: the copy of a child that still owns its row is the row.  It makes
  `EndStays` hold.
* `DumpsInv`: entries belong to runs that exist, and dumps to entries.  What the
  cleaning has seen when it looked whether a run is empty is not part of it, as a late
  child may record a dump after that look, or between two of the deletions.  What keeps
  the dump is that each deletion fails if something refers to what it deletes: the
  entries go only if none has a dump, and the row only if no entry is left; and a
  child finds its entry or records nothing.
* `OneGoesOn` is about one step.  Nothing but an operator, a recovery or a conflict
  fails a run, and in a conflict the runs that met are one set, in one state, of which
  each has a winner with the same target that gets its child (`Fork`, `Winners`).
* `OrderInv` and, on top of it, `ReportInv`: in a state past a stage, or in an error
  after such a state, no job is left in that stage.  A child that is about to end its
  stage has seen to that (`HasQueued`, `HasCovered`), and it is alone (`OneKid`), for
  which a child that lost its row has a run that stays FAILED or is gone (`Attached`).
  A second operator command can retry that run, which is why `InOrder` stops at one.
  `DoneIsReported` stops at none: a retry of a failed run goes back to a stage whose
  jobs may have been deleted since.
* `TriesInv`, for `TriesBounded`: a run that is in a stage has an error left.  An update
  counts an error or is none (`Counted`), and recovery sends a run back only below the
  limit; as a child counts from its own copy, this rests on `CopyInv`.  It is a bound on
  errors, not on work: a scheduling stage starts again as long as it has jobs.

**Restore requests** (`Restore_proof`).  `WriterInv` is `OneWriter` with what it
needs: only a request that waits has its next update in the future, and children are
in the states they work for.  As with jobs, every step is an `Advance` of the rows that it writes.
`StageInv` says, for each request, what is `InPlace` as far as it got (or had got when
it failed): its link, volume and mount point; and for each child at work what it
`Knows` from its calls so far, if it is fresh, or that its row was taken away by a
failure or an operator, without another child being at work on it.  `late` marks the
requests for which this is not so: a kill does not stop a child.  `TriesInv` bounds the
errors of requests as it does for runs, here also for `late` ones, since of two children
only one can write.  TLC checked both invariants for the limits 0, 1 and 2 before they were
proved; `TriesBounded` and `ErrorsCounted` are no properties of a run.

**Calls** (`Command_proof`).  `ResultIsWhole` relates three parties: the parser that
got everything, the pipe that is at its end, and the program that exited with 0.  The
inductive invariant links them one by one: a program that exited with 0 wrote
everything and holds no pipe (`ExitInv`); a stream that the cursor closed was read
up to what was written, and its writer had closed it (`EofInv`, from `EofIsEnd` and,
for the length of what a read returns, `ChunkLength`); and the place of the cursor
says whether the program may still run (`CallInv`).  Nothing is assumed of the
parser here: it is an operator constant.  `FileInv` adds for dumps that the file begins with
what was read so far (`Begins`), which survives the write into the room that was
filled in advance; the truncation at the end then leaves just that.

`CutsDoNotMatter` says that the place of the cuts is lost: `LineInv` keeps the parser
where it would be if it had been given all lines that ended so far at once
(`FedSoFar`), and the incomplete line is what the output has after them.  A read joins
that line with the next pieces of the output (`NewTextIs`), and `SplitText` says what
`Split` makes of any text that begins with a line: the lines that have `Ended`, and the
rest.  It is the longest proof about an operator here, as `Split` chooses the ends of
lines by counting them (`EvenIsUnique`, `EvenIsThere`).  Of the parser only
`LinesAssumption` is used.  `RightResult` adds that the program exited with 0 only if it was
to, and `ParserAssumption`, which says nothing of parts of an output.  TLC evaluates
both assumptions for the parsers of Parsers and all programs of the run `command`.

**Storage** (`Storage_proof`).  Lemmas only.  What a store has used is a sum over its
files, so that the claim of the storage lock, "what I found free stays free until I
have filled it", is about sums: those of functions over finite sets with one value
changed, one element more, or larger values.  `FiniteSetsExt` defines these sums
by a choice of the next element; the lemmas are proved by looking at the smallest
set for which they fail (`WFMin` with `NatLessThanWellFounded`), as the library's
induction theorems take operators.  `StoreInv` says that only the holder of the lock
chooses and fills a store, and that, unless it was `robbed`, the room it still needs is
there (`RoomOk`); each operation on files is shown to keep it.

**The archive** (`Archive_proof`).

* `TypeInv` adds to `StoreInv` what jobs read of volumes: no copy is newer than the
  volume, nor than the clock.
* `SkipInv`, for `SkippedIsDumped`: a clone, a dump, or what a child is about to
  record, that lacks a change which was seen in the volume (by anyone) was made less
  than `FUDGE_TIME` after the last update seen (`Fits`).  A volume that looks
  unchanged for `FUDGE_TIME` before the clone of its last dump has therefore nothing
  that this dump lacks.  That a change shows late in the time of the last update, by
  less than `FUDGE_TIME`, is a guard of `Change`, hence an assumption of the theorem.
* `DiskInv`, for `OneIsOnDisk`: the ids of a volume's rows are in the order of
  their clones, and the latest row has its file on disk.  The two cleaners use
  different orders (ids and file ages, clone times), which agree just there.
* `SearchInv`, for `SearchFindsAll`: what was found is in order (`Ascending`), a row
  not found lies before or after all that was (`Beyond`), and each query that
  came back empty has `Learned` that nothing is left on its side, but for rows newer
  than the search.

**What proving changed.**  Four statements turned out to be false or weaker than
meant when their proofs got stuck, and TLC then showed behaviours:

* `OneIsOnDisk` fails if the file of a job's earlier attempt is trimmed between the
  commit and the record of its next one; `muddled` now covers such volumes.
* `SearchFindsAll` fails if sqlite gives a deleted row's id again and the new row comes to
  lie between two that were found; `again` marks such rows.
* `ErrorsBounded` counts a limit of 0 as one of 1, as the code does (`TryLimit`).
* `StagesInOrder` needs that there was at most one operator command.

**Model-checked only.**

* Liveness (`RunEnds`, `RunsEnd`, `CruftGoes`, `RequestEnds`, `CallEnds`), which is out
  of the prover's reach.  That a dump job does not change its state for ever is proved
  (`JobsMoveOn`, `WorkIsBounded`), and that runs and requests do not err for ever; that they do not
  stop before their end is not.
* That the parsers of Parsers take one line after the other, and are right on whole
  outputs (`LinesAssumption`, `ParserAssumption`): they are folds over lines, and what
  those compute for every listing is an induction over data.  TLC evaluates it for the
  listings of the run `command`.
* `PathFound`: the reference walk of Lookup is RECURSIVE, and the statement is about the
  trees of volumes of the instance.

## 6. Mutants

For each property of a passing run `PROJECT.json` names a mapped definition and
an operator, defined next to it and commented as a mutant, that changes it the
way a plausible slip in the code would: a WHERE clause without `dv`, a retry
that starts from the wrong state, a slot released in an error state, retries
that are not counted, a last look that is left out.  With the mutant in place
TLC finds the property violated in the run's own configuration.

## 7. Abstractions, and what is not modelled

* A pass selects rows and updates them in one transaction each; `find_update`'s
  SELECT and guarded UPDATE are one step.
* `do_vladdr`'s two updates are one step, as nothing happens between them
  that another process can see.
* A bulk insert that fails part-way is any subset of its rows, then an error.
* `cleanable_bruns` is one query.  Whether a run is recent is a bit (`old`), which may
  change at any moment; the clock is not modelled.
* Of `BackupRun.delete` the statements for `vl_entries` and `backup_runs` are steps;
  the other four (`vl_addrs`, `vl_sites`, `vl_fileservers`, `links`) delete rows that
  the model does not have.  One of these is worth a note: a late child whose dump was
  recorded just before it loses its `links` to it, and keeps its dump.
* In DumpJob what a handler says of its progress is one update at most between two of
  its calls (`Touch`): `do_clone` and `do_dump` make several, and one every few seconds
  while `vos dump` runs.  An update that finds no row ends the handler, wherever it
  is, as the modelled one does, and nothing that is stated goes by how many there are.
* In BackupRun the quotas are abstracted to "at least one pending job starts if
  none is running"; which ones is the subject of DumpJob.
* In DumpJob a run has one scheduling child.  A kill and a retry while such a
  child is between its transactions lets the code have two for a moment;
  BackupRun has that interleaving, without the quotas.
* A scheduling child that fails comes back, after recovery, to the start of
  its stage; in DumpJob that is a delay before the next `CountRunning`.
* A symlink scan that fails without ending the dump is merged with the step
  after it.
* `do_cleanup` also deletes an injected blob that was not used; BackupRun
  leaves files out.
* In DumpJob and BackupRun time is not modelled: a time-out may strike whenever
  the row has one, which includes every real timing.  In Restore it is two bits,
  in Archive a clock, since there the order of times matters.
* In Restore the right to restore is one outcome of the first stage, and the
  passing of a notification is a call that may fail.
* In Archive a list that an operator acts on (`storage-trim`, `dump-find
  --redundant`) is true when the operator acts: how long a list lies on a desk is
  no matter of the code.  The blob is deleted along with a dump (no `--keep-blob`).
* In DumpJob a job is skipped or not; why is the matter of Archive, whose times of
  backup and of creation of a clone are one.  Offline volumes are only in DumpJob.
* In Archive the dump of a job that is retried starts from the header of the
  clone again; the row of the job itself is the matter of DumpJob.
* In Command time is a choice: silence for as long as the time-out, and impatience,
  may come at any moment at which the code waits.
* Lines are the patterns they match.  What a regular expression captures of the
  bytes of a line is taken as it is meant, and a part of a line matches only the
  patterns that match any word.
* `_flatten_dots` works on names, before links are looked at; Path does the same.
  Lookup resolves `..` where it is met.

Limits of the code that the models show and that the properties exempt, with the
term that does so:

* A second child of one request (a kill and a retry while the first is at work)
  shares its link, volume and mount point: `late` in Restore.
* If dumps are recorded in another order than that of their clones, trimming (by
  id and file age) and deleting redundant dumps (by clone time) can together leave
  no dump of a volume on disk.  The same happens if an operator trims the file of
  an earlier attempt of a job between the job's second commit and its second row:
  the two attempts share a path, and the new row is then one without a file.
  `muddled` in Archive marks the volumes of both.
* With sqlite the id of a deleted row can be given again.  A dump that got such an
  id can come to lie between two that a search found already: `again` in Catalog.
* A `..` after a symlink is taken out together with the symlink's name, before that
  is looked for, and leads to another place than in AFS: `dots` in `PathFound`.  A `%`
  mount point is not crossed (section 4): `rw` there.  A symlink to `/` at the end of a path leads to the volume that it is in: `Slash` in `Agrees`.
* `DumpBlob.delete` passes over every error, and `do_restore` then forgets the path of
  the temporary link: a link that could not be deleted stays until the temporary files
  are cleaned by age.  `left` in `DoneIsClean`.
* A run that the server could not clean within twelve hours of its start, since some
  run was active all the time, keeps its jobs and unused entries until an operator runs
  `db-clean`, which is not modelled: `old` in `CruftGoes`.
* A dump that its job abandons, since someone changed the row, leaves `vos dump`
  running: the code kills it only if it has already exited (`Abandon`, and
  `"abandoned"` in `NoOrphan`).
* A program that resists SIGKILL keeps its caller for ever, since leaving the block
  that owns the process waits for it (`stuck` in `CallEnds`).
* A run or request whose child died stays where it is (`deaths` in the liveness
  properties).
* With two operator commands (kill, retry) a run can have two scheduling children,
  and then leave a stage too early: `StagesInOrder` holds up to one (`admin <= 1`).
* An attempt whose symlink scan failed counts one error that ends nothing, so that a
  job may have one more error than its limit, and a limit of 0 is one of 1:
  `TryLimit` in DumpJob.

### Not modelled

* *Schema upgrade, database dump and load*: data definitions that the engine
  executes.
* *Rights* (`fabs/util.py`): one bit.
* *Include and exclude patterns, configuration files, logging, wording and layout
  of reports and output, argument lists, packaging*: no state that the properties
  tell apart.

## 8. Plan

Done: the modules of section 2 and the proofs of section 5.  What remains:

1. Lookup: a proof of `PathFound` needs a walk that is not RECURSIVE, and an induction
   over the path.
2. Parsers: that each parser inverts `Listing` for every result, which is an
   induction over the lines of each command's output.
3. DumpJob with two scheduling children for a moment, after a kill and a retry.

Liveness stays with TLC.
