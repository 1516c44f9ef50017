-------------------------------- MODULE Path --------------------------------
(***************************************************************************)
(* From a path to the volume that holds it, at a date (fabs/path.py).      *)
(*                                                                         *)
(* A path is a sequence of names.  The database holds, for each dump, the  *)
(* symlinks and mount points of the volume: a function from paths in the   *)
(* volume to targets [kind, to], where kind is "abs" or "rel" for a        *)
(* symlink to the path "to", "mount" for a mount point of the volume "to"  *)
(* ('#vol.'), and "rw" for a mount point of its read/write site ('%vol.'). *)
(* Each step makes at most one query, between which dumps come and go.     *)
(***************************************************************************)
EXTENDS Catalog

CONSTANTS
  UserPath,     \* the paths that are asked for
  LinksOf,      \* the links in the dump of each job
  Cell,         \* the names of the cell, with and without a dot before it
  Root,         \* its volume root.cell
  MaxSymlinks

VARIABLES
  linked,    \* the jobs whose links are in the database
  walk       \* the translation of a path

\* Where the translation is: the path, how many names of it are done, the dump
\* of the volume it is in, the path in that volume, and the symlinks it met.
\* "torn" says that a dump was seen without its links, "known" which volumes had
\* dumps at the start.
Known == {v \in Volume : RowsOf(v) # {}}
NewWalk(path, time) ==
  [at |-> "root", asked |-> path, path |-> path, pos |-> 0, dump |-> NoRow,
   vol |-> Root, rel |-> <<>>, links |-> 0, time |-> time, torn |-> FALSE,
   known |-> Known]
NoWalk == [at |-> "none"]

StartWalk ==
  /\ walk = NoWalk
  /\ \E path \in UserPath, time \in Date : walk' = NewWalk(path, time)

-----------------------------------------------------------------------------

Rest(p, i) == SubSeq(p, i + 1, Len(p))

\* _flatten_dots: takes out "." and "..", by name, before any link is looked at.
\* A ".." with no name before it has no meaning.
Flat(path) ==
  LET f[i \in 0 .. Len(path)] ==
        IF i = 0 THEN [ok |-> TRUE, p |-> <<>>]
        ELSE CASE ~ f[i - 1].ok     -> f[i - 1]
               [] path[i] = "."     -> f[i - 1]
               [] path[i] = ".."    ->
                    IF f[i - 1].p = <<>> THEN [f[i - 1] EXCEPT !.ok = FALSE]
                    ELSE [f[i - 1] EXCEPT !.p = SubSeq(@, 1, Len(@) - 1)]
               [] OTHER             -> [f[i - 1] EXCEPT !.p = Append(@, path[i])]
  IN  f[Len(path)]

Fail(w) == walk' = [w EXCEPT !.at = "error"]

\* A path that was walked to its end is done.
Proceed(w, at) == walk' = [w EXCEPT !.at = IF w.pos = Len(w.path) THEN "found" ELSE at]

\* _set_vol: the first dump of the volume since the date, or else the last one
\* before it, give or take a second.
Seek(w, v) == walk' = [w EXCEPT !.at = "oldest", !.vol = v, !.rel = <<>>]

Enter(id) == Proceed([walk EXCEPT !.dump = id], "walk")

FindOldest ==
  /\ walk.at = "oldest"
  /\ \E id \in {OldestSince(walk.vol, walk.time - 1)} :
       IF id # NoRow THEN Enter(id) ELSE walk' = [walk EXCEPT !.at = "latest"]

FindLatest ==
  /\ walk.at = "latest"
  /\ \E id \in {LatestUntil(walk.vol, walk.time + 1)} :
       IF id # NoRow THEN Enter(id) ELSE Fail(walk)

\* _traverse_one, from the root.
FromRoot ==
  /\ walk.at = "root"
  /\ \E flat \in {Flat(walk.path)} :
       IF ~ flat.ok \/ Len(flat.p) < 2 \/ flat.p[1] # "afs" \/ flat.p[2] \notin Cell
       THEN Fail(walk)
       ELSE Seek([walk EXCEPT !.path = flat.p, !.pos = 2, !.dump = NoRow], Root)

\* Whether the database is short of links at the moment.
Torn == walk.dump \notin DOMAIN dumps \/ \E id \in DOMAIN dumps : dumps[id].job \notin linked

\* db.links.search: nothing, if the dump is gone.
Target(id, rel) ==
  IF id \notin DOMAIN dumps THEN {}
  ELSE {LinksOf[dumps[id].job][p] :
          p \in {q \in DOMAIN LinksOf[dumps[id].job] : q = rel /\ dumps[id].job \in linked}}

\* The path with the names from i on, up to this one, replaced by the target.  A '%'
\* is not looked for: '%vol.' is a name like any other.
Replaced(w, i, t) ==
  SubSeq(w.path, 1, i - 1) \o (IF t.kind = "rw" THEN <<t.to>> ELSE t.to) \o Rest(w.path, w.pos)

\* Mutant of Follow: the link itself stays in the path.
FollowKeeping(w, t) ==
  IF w.links >= MaxSymlinks THEN Fail(w)
  ELSE Proceed([w EXCEPT !.links = @ + 1, !.pos = 0,
                         !.path = Replaced(w, IF t.kind = "abs" THEN 1 ELSE w.pos + 1, t)], "root")

\* _handle_link: the target takes the place of the name, or of all names so far;
\* then it starts from the root again, if any names are left.
Follow(w, t) ==
  IF w.links >= MaxSymlinks THEN Fail(w)
  ELSE Proceed([w EXCEPT !.links = @ + 1, !.pos = 0,
                         !.path = Replaced(w, IF t.kind = "abs" THEN 1 ELSE w.pos, t)], "root")

\* _traverse_one, in a volume: the next name.
Traverse ==
  /\ walk.at = "walk"
  /\ \E w \in {[walk EXCEPT !.pos = @ + 1, !.rel = Append(@, walk.path[walk.pos + 1]),
                            !.torn = @ \/ Torn]} :
       IF Target(w.dump, w.rel) = {} THEN Proceed(w, "walk")
       ELSE \E t \in Target(w.dump, w.rel) :
              IF t.kind = "mount" THEN Seek(w, t.to) ELSE Follow(w, t)

WalkStep == (StartWalk \/ FromRoot \/ FindOldest \/ FindLatest \/ Traverse) /\ UNCHANGED <<catalog, linked>>

=============================================================================
