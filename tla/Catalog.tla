------------------------------ MODULE Catalog ------------------------------
(***************************************************************************)
(* The volume dumps in the database (fabs/db.py, _VolumeDumpsDb) and the   *)
(* search for the dumps of a volume around a date (fabs/voldump.py).       *)
(*                                                                         *)
(* A row is [job, store, created, size, again]: the job tells the volume   *)
(* and the path of the dump, "created" is when its clone was made, "again" *)
(* whether another row had its id before.  Rows have ids in the order they *)
(* were inserted, which need not be that of "created".  A job that is      *)
(* retried may have several rows.                                          *)
(*                                                                         *)
(* Each query is a transaction of its own: others insert and delete dumps  *)
(* between the queries of one search.                                      *)
(***************************************************************************)
EXTENDS Naturals, Sequences, FiniteSets

CONSTANTS
  Volume,    \* the volumes
  VolOf,     \* the volume of each job
  Date,      \* the dates that are searched for
  MaxFound   \* how many dumps a search asks for (max_dumps)

VARIABLES
  dumps,     \* the rows: a function on ids
  nextId,    \* the counter of their ids
  search     \* a search for the dumps of a volume

catalog == <<dumps, nextId>>

-----------------------------------------------------------------------------
(***************************************************************************)
(* Queries: ids, or none.                                                  *)
(***************************************************************************)

NoRow == 0
VolumeOf(id) == VolOf[dumps[id].job]
RowsOf(v) == {id \in DOMAIN dumps : VolumeOf(id) = v}
Before(ids, time) == {id \in ids : dumps[id].created <= time}
After(ids, time) == {id \in ids : dumps[id].created >= time}

Highest(ids) == IF ids = {} THEN NoRow ELSE CHOOSE id \in ids : \A i \in ids : i <= id
Lowest(ids) == IF ids = {} THEN NoRow ELSE CHOOSE id \in ids : \A i \in ids : i >= id

\* find_latest and find_oldest go by id, whatever limits the rows.
Latest(v) == Highest(RowsOf(v))
OldestSince(v, time) == Lowest(After(RowsOf(v), time))
LatestUntil(v, time) == Highest(Before(RowsOf(v), time))
OldestAfterId(v, id) == Lowest({i \in RowsOf(v) : i > id})
LatestBeforeId(v, id) == Highest({i \in RowsOf(v) : i < id})

Newer(id) == {i \in RowsOf(VolumeOf(id)) : dumps[i].created > dumps[id].created}

\* finditer(redundant=n): at least n dumps of the volume have newer clones.
Redundant(n) ==
  {id \in DOMAIN dumps : Cardinality(Newer(id)) >= n}

\* find_byblob: any row with this path.
RowsAt(b) == {id \in DOMAIN dumps : <<dumps[id].store, dumps[id].job>> = b}

-----------------------------------------------------------------------------

With(id, row) == dumps' = [i \in DOMAIN dumps \cup {id} |-> IF i = id THEN row ELSE dumps[i]]

\* Mutant of Insert: the counter stays.
InsertAgain(row) == With(nextId, row) /\ UNCHANGED nextId

\* An id is never given again; but sqlite gives the one after the highest that is
\* there.
Insert(row) ==
  \E id \in {nextId, Highest(DOMAIN dumps) + 1} :
    /\ With(id, [row EXCEPT !.again = id # nextId])
    /\ nextId' = IF id = nextId THEN nextId + 1 ELSE nextId

Remove(id) ==
  /\ dumps' = [i \in DOMAIN dumps \ {id} |-> dumps[i]]
  /\ UNCHANGED nextId

-----------------------------------------------------------------------------
(***************************************************************************)
(* _search_vol.  "way" is where it looks next; "last" says that there are  *)
(* no more dumps the other way.  "since" is what nextId was at the start.  *)
(***************************************************************************)

NewSearch(v, time, max) ==
  [at |-> "first", vol |-> v, time |-> time, max |-> max, way |-> "back",
   last |-> FALSE, found |-> <<>>, since |-> nextId]
NoSearch == [at |-> "none"]

StartSearch ==
  /\ search = NoSearch
  /\ \E v \in Volume, time \in Date, max \in MaxFound :
       search' = NewSearch(v, time, max)
  /\ UNCHANGED catalog

Go(s, at) == search' = [s EXCEPT !.at = IF Len(s.found) >= s.max THEN "done" ELSE at]

\* Rather the first dump since then, else the last one before.
First ==
  /\ search.at = "first"
  /\ \E id \in {OldestSince(search.vol, search.time)} :
       IF id # NoRow THEN Go([search EXCEPT !.found = <<id>>], "more")
       ELSE search' = [search EXCEPT !.at = "second", !.way = "on"]
  /\ UNCHANGED catalog

Second ==
  /\ search.at = "second"
  /\ \E id \in {LatestUntil(search.vol, search.time)} :
       IF id # NoRow THEN Go([search EXCEPT !.found = <<id>>], "more")
       ELSE search' = [search EXCEPT !.at = "done"]
  /\ UNCHANGED catalog

Other(way) == IF way = "on" THEN "back" ELSE "on"

\* Both ways in turn, until there is nothing more one way, and then the other.
Turned(s) == IF s.last THEN s ELSE [s EXCEPT !.way = Other(@)]

\* Mutant of Missed: the other way is not tried to its end.
MissedOnce(s) == [s EXCEPT !.at = "done"]

Missed(s) == IF s.last THEN [s EXCEPT !.at = "done"] ELSE [s EXCEPT !.last = TRUE]

More ==
  /\ search.at = "more"
  /\ \E s \in {Turned(search)} :
       IF search.way = "on"
       THEN \E id \in {OldestAfterId(search.vol, search.found[Len(search.found)])} :
              IF id = NoRow THEN search' = Missed(s)
              ELSE Go([s EXCEPT !.found = Append(@, id)], "more")
       ELSE \E id \in {LatestBeforeId(search.vol, search.found[1])} :
              IF id = NoRow THEN search' = Missed(s)
              ELSE Go([s EXCEPT !.found = <<id>> \o @], "more")
  /\ UNCHANGED catalog

SearchStep == StartSearch \/ First \/ Second \/ More

-----------------------------------------------------------------------------

\* A search finds dumps of the volume that follow each other, in order, no more
\* than were asked for (but always one); and if it finds fewer, then no dump is
\* left that was there when it began: whatever was inserted or deleted between
\* its queries.  (But for a dump that got the id of one that was deleted: it may
\* come to lie between those that were found already.)
SearchFindsAll ==
  search.at = "done" =>
    LET found == {search.found[i] : i \in DOMAIN search.found}
    IN  /\ \A i, k \in DOMAIN search.found : i < k => search.found[i] < search.found[k]
        /\ Len(search.found) <= search.max \/ Len(search.found) = 1
        /\ \A id \in {i \in RowsOf(search.vol) \ found : ~ dumps[i].again} :
             /\ (\E i \in found : i < id) => \A k \in found : k < id
             /\ id < search.since => Len(search.found) >= search.max
=============================================================================
