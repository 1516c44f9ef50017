---------------------------- MODULE Restore_proof ----------------------------
(***************************************************************************)
(* Theorems about Restore, for any requests, dumps and bounds.             *)
(***************************************************************************)
EXTENDS Restore, TLAPS

-----------------------------------------------------------------------------
(***************************************************************************)
(* The invariants.                                                         *)
(***************************************************************************)

ActiveStates == WorkStates \cup RestStates \cup RetryStates

VerifyCalls == {"verify", "claim", "link", "claimed", "absent", "request",
                "wait", "check", "sum", "verified"}
StageCalls == {"restore", "restoring", "restored", "undo", "unlink",
               "unlinked", "mount", "mounted"}
RemoveCalls == {"remove", "rmvol", "path", "rmmount", "gone", "removed"}

\* The state in which a child makes a call.
Fits(at, s) ==
  /\ at = "authz" => s = "AUTHZ_WORK"
  /\ at \in VerifyCalls => s = "VERIFY_WORK"
  /\ at \in StageCalls => s = "RESTORE_WORK"
  /\ at = "notify" => s = "RESTORE_DONE"
  /\ at \in RemoveCalls => s = "REMOVE_WORK"
  /\ at = "recover" => s = "RESTORE_RECOVER_WORK"
  /\ at = "error" => s \in WorkStates \cup {"RESTORE_DONE"}

InItsState(k) == Fits(k.at, k.row.state)

\* Only a request that waits has its next update in the future.
DueOk(row) == row.due \/ row.state \in {"VERIFY_START", "REMOVE_START"}

\* The updates of children are in order.
WriterInv ==
  /\ TypeOK
  /\ \A r \in Req : DueOk(req[r])
  /\ OneWriter
  /\ \A k \in kids : InItsState(k)

\* How far a request is, or was when an error or an operator stopped it.
Failures == RetryStates \cup {"FAILED"}
Reached(row) == IF row.state \in Failures THEN row.last ELSE row.state

LastIsSet(row) == row.last = NoState <=> row.state \notin Failures

\* The blob was verified, and the volume is not yet staged.
Trusted == {"VERIFY_DONE", "RESTORE_START", "RESTORE_WORK"}

\* The volume is staged.
Staged == {"RESTORE_DONE", "REMOVE_START", "REMOVE_WORK", "REMOVE_DONE", "DONE"}

\* What is in place for a request: its row, what its link holds, whether the link
\* could not be deleted, what its volume holds, and whether it is mounted and
\* aged.
InPlace(row, l, u, v, m, a) ==
  /\ row.state \in Absent => ~ row.staged /\ ~ row.path
  /\ row.path => Reached(row) \in Staged
  /\ a => Reached(row) \in Staged \cup {"DELETED"}
  /\ row.staged /\ ~ a => v = "good"
  /\ row.path /\ ~ a => v = "good" /\ m
  /\ Reached(row) \in Trusted => l \in {"good", "none"} /\ (row.tmp \/ l = "none" \/ u)
  /\ Reached(row) \in Staged => /\ row.staged \/ v = "none"
                                /\ row.path \/ ~ m
                                /\ l = "none" \/ u
  /\ Reached(row) \in {"REMOVE_DONE", "DONE"} => ~ row.staged /\ ~ row.path

Working == Call \ {"notify", "error"}

\* The row of a child at work was updated by someone else: its copy is w.
TakenAway(w, row) ==
  \/ row.state = "DELETED"
  \/ /\ row.state \in {"FAILED", "RESTORE_RECOVER_START"}
     /\ Reached(row) = Reached(w)
     /\ row.staged <=> w.staged

\* What a child at work (at its call, fresh or not, with its copy of the row)
\* has seen to so far.
Knows(at, fresh, w, row, l, u, v, m, a) ==
  at \in Working =>
    /\ at \in {"check", "sum", "verified"} => w.tmp
    /\ at \in {"restoring", "restored", "undo"} => ~ w.staged
    /\ at \in {"unlink", "unlinked", "mount", "mounted"} => w.staged
    /\ fresh /\ at = "verified" => l \in {"good", "none"}
    /\ fresh /\ at = "restored" => v = "good"
    /\ fresh /\ at \in {"unlinked", "mount", "mounted"} => l = "none" \/ u
    /\ fresh /\ at = "mounted" => m
    /\ at \in {"rmvol", "path", "rmmount", "gone", "removed"} => a
    /\ fresh \/ TakenAway(w, row)

RequestOk(r) ==
  /\ LastIsSet(req[r])
  /\ r \notin late =>
       InPlace(req[r], link[r], r \in left, volume[r], r \in mount, r \in aged)

KidOk(k) ==
  k.req \notin late =>
    Knows(k.at, k.fresh, k.row, req[k.req], link[k.req], k.req \in left,
          volume[k.req], k.req \in mount, k.req \in aged)

\* Children at work know their way, and they are alone.
StageInv ==
  /\ WriterInv
  /\ \A r \in Req : RequestOk(r)
  /\ \A k \in kids : KidOk(k)
  /\ \A k, l \in kids : /\ k.req = l.req /\ k.req \notin late
                        /\ k.at \in Working /\ l.at \in Working
                        => k = l

-----------------------------------------------------------------------------
(***************************************************************************)
(* What updates make of a row.                                             *)
(***************************************************************************)

\* The fields of a row, in the order of Row.
Fields(n, s, l, e, d, t, v, p, i) ==
  /\ n \in Row
  /\ n.state = s /\ n.last = l /\ n.errors = e /\ n.due = d
  /\ n.tmp = t /\ n.staged = v /\ n.path = p /\ n.info = i

LEMMA StateFacts ==
  /\ State = {"AUTHZ_WORK", "VERIFY_WORK", "RESTORE_WORK", "REMOVE_WORK",
              "NEW", "AUTHZ_START", "AUTHZ_DONE", "VERIFY_START",
              "VERIFY_DONE", "RESTORE_START", "RESTORE_DONE",
              "REMOVE_START", "REMOVE_DONE",
              "ERROR", "RESTORE_RECOVER_START", "RESTORE_RECOVER_WORK",
              "DONE", "FAILED", "NONE", "DELETED"}
  /\ NoState \notin State
BY DEF State, WorkStates, RestStates, RetryStates, EndStates, Absent, NoState

\* One more field.
LEMMA OneField ==
  ASSUME NEW x \in Row
  PROVE  /\ \A b \in BOOLEAN :
              /\ Fields([x EXCEPT !.due = b], x.state, x.last, x.errors, b,
                        x.tmp, x.staged, x.path, x.info)
              /\ Fields([x EXCEPT !.tmp = b], x.state, x.last, x.errors, x.due,
                        b, x.staged, x.path, x.info)
              /\ Fields([x EXCEPT !.staged = b], x.state, x.last, x.errors, x.due,
                        x.tmp, b, x.path, x.info)
              /\ Fields([x EXCEPT !.path = b], x.state, x.last, x.errors, x.due,
                        x.tmp, x.staged, b, x.info)
              /\ Fields([x EXCEPT !.info = b], x.state, x.last, x.errors, x.due,
                        x.tmp, x.staged, x.path, b)
         /\ \A s \in State :
              Fields([x EXCEPT !.state = s], s, x.last, x.errors, x.due,
                     x.tmp, x.staged, x.path, x.info)
         /\ \A s \in State \cup {NoState} :
              Fields([x EXCEPT !.last = s], x.state, s, x.errors, x.due,
                     x.tmp, x.staged, x.path, x.info)
         /\ \A n \in Nat :
              Fields([x EXCEPT !.errors = n], x.state, x.last, n, x.due,
                     x.tmp, x.staged, x.path, x.info)
BY DEF Fields, Row

\* A new state.
LEMMA ToFields ==
  ASSUME NEW x \in Row, NEW s \in State
  PROVE  /\ Fields(To(x, s), s, x.last, x.errors, TRUE, x.tmp, x.staged, x.path, x.info)
         /\ Fields(Later(x, s), s, x.last, x.errors, FALSE, x.tmp, x.staged, x.path, x.info)
<1> DEFINE y == [x EXCEPT !.state = s]
<1>1. Fields(y, s, x.last, x.errors, x.due, x.tmp, x.staged, x.path, x.info)
  BY OneField
<1>2. To(x, s) = [y EXCEPT !.due = TRUE] /\ Later(x, s) = [y EXCEPT !.due = FALSE]
  BY Zenon DEF To, Later
<1> HIDE DEF y
<1>3. Fields([y EXCEPT !.due = TRUE], y.state, y.last, y.errors, TRUE,
             y.tmp, y.staged, y.path, y.info)
  BY <1>1, OneField DEF Fields
<1>4. Fields([y EXCEPT !.due = FALSE], y.state, y.last, y.errors, FALSE,
             y.tmp, y.staged, y.path, y.info)
  BY <1>1, OneField DEF Fields
<1> QED  BY <1>1, <1>2, <1>3, <1>4 DEF Fields

\* A new row.
LEMMA NewFields ==
  ASSUME NEW s \in State
  PROVE  Fields(NewRow(s), s, NoState, 0, TRUE, FALSE, FALSE, FALSE, FALSE)
BY DEF Fields, NewRow, Row

\* A new state and one more field.
LEMMA ToAndField ==
  ASSUME NEW x \in Row, NEW s \in State
  PROVE  LET y == To(x, s)
         IN  /\ \A b \in BOOLEAN :
                  /\ Fields([y EXCEPT !.tmp = b], s, x.last, x.errors, TRUE,
                            b, x.staged, x.path, x.info)
                  /\ Fields([y EXCEPT !.staged = b], s, x.last, x.errors, TRUE,
                            x.tmp, b, x.path, x.info)
                  /\ Fields([y EXCEPT !.path = b], s, x.last, x.errors, TRUE,
                            x.tmp, x.staged, b, x.info)
                  /\ Fields([y EXCEPT !.info = b], s, x.last, x.errors, TRUE,
                            x.tmp, x.staged, x.path, b)
             /\ \A l \in State \cup {NoState} :
                  Fields([y EXCEPT !.last = l], s, l, x.errors, TRUE,
                         x.tmp, x.staged, x.path, x.info)
             /\ \A n \in Nat :
                  Fields([y EXCEPT !.errors = n], s, x.last, n, TRUE,
                         x.tmp, x.staged, x.path, x.info)
<1> DEFINE y == To(x, s)
<1>1. Fields(y, s, x.last, x.errors, TRUE, x.tmp, x.staged, x.path, x.info)
  BY ToFields
<1> HIDE DEF y
<1>2. y \in Row
  BY <1>1 DEF Fields
<1>3. /\ y.state = s /\ y.last = x.last /\ y.errors = x.errors /\ y.due = TRUE
      /\ y.tmp = x.tmp /\ y.staged = x.staged /\ y.path = x.path /\ y.info = x.info
  BY <1>1 DEF Fields
<1>4. /\ \A b \in BOOLEAN :
           /\ Fields([y EXCEPT !.tmp = b], s, x.last, x.errors, TRUE,
                     b, x.staged, x.path, x.info)
           /\ Fields([y EXCEPT !.staged = b], s, x.last, x.errors, TRUE,
                     x.tmp, b, x.path, x.info)
           /\ Fields([y EXCEPT !.path = b], s, x.last, x.errors, TRUE,
                     x.tmp, x.staged, b, x.info)
           /\ Fields([y EXCEPT !.info = b], s, x.last, x.errors, TRUE,
                     x.tmp, x.staged, x.path, b)
      /\ \A l \in State \cup {NoState} :
           Fields([y EXCEPT !.last = l], s, l, x.errors, TRUE,
                  x.tmp, x.staged, x.path, x.info)
      /\ \A n \in Nat :
           Fields([y EXCEPT !.errors = n], s, x.last, n, TRUE,
                  x.tmp, x.staged, x.path, x.info)
  BY <1>2, <1>3, OneField
<1> QED  BY <1>4 DEF y

\* An error.
LEMMA ErroredFields ==
  ASSUME NEW x \in Row
  PROVE  /\ x.state \in RetryStates =>
              Fields(Errored(x), "FAILED", x.last, x.errors, TRUE,
                     x.tmp, x.staged, x.path, x.info)
         /\ x.state \notin RetryStates =>
              Fields(Errored(x), "ERROR", x.state, x.errors + 1, TRUE,
                     x.tmp, x.staged, x.path, x.info)
<1>0. x.state \in State /\ x.errors + 1 \in Nat
  BY DEF Row
<1>1. CASE x.state \in RetryStates
  BY <1>1, StateFacts, ToFields DEF Errored
<1>2. CASE x.state \notin RetryStates
  <2> DEFINE y == [To(x, "ERROR") EXCEPT !.last = x.state]
  <2>1. Fields(y, "ERROR", x.state, x.errors, TRUE, x.tmp, x.staged, x.path, x.info)
    BY <1>0, StateFacts, ToAndField
  <2>2. Fields(To(x, "ERROR"), "ERROR", x.last, x.errors, TRUE,
               x.tmp, x.staged, x.path, x.info)
    BY StateFacts, ToFields
  <2>3. Errored(x) = [y EXCEPT !.errors = x.errors + 1]
    <3>1. Errored(x) = [y EXCEPT !.errors = To(x, "ERROR").errors + 1]
      BY <1>2, Zenon DEF Errored
    <3> QED  BY <2>2, <3>1 DEF Fields
  <2> HIDE DEF y
  <2>4. Fields([y EXCEPT !.errors = x.errors + 1], y.state, y.last, x.errors + 1, y.due,
               y.tmp, y.staged, y.path, y.info)
    BY <1>0, <2>1, OneField DEF Fields
  <2> QED  BY <1>2, <2>1, <2>3, <2>4 DEF Fields
<1> QED  BY <1>1, <1>2

-----------------------------------------------------------------------------
(***************************************************************************)
(* What happens to the children and to their rows.                         *)
(***************************************************************************)

\* A child that was there before.  If it is still fresh, nothing happened to it.
Before(l, R) ==
  \E k \in kids : /\ l \in Kid /\ l.req = k.req /\ l.at = k.at /\ l.row = k.row
                  /\ l.fresh => l = k /\ l.req \notin R

\* The rows of the requests in R change, and the children in N are those that
\* know how.
Advance(R, N) ==
  /\ \A r \in Req \ R : req'[r] = req[r]
  /\ \A l \in kids' : l \in N \/ Before(l, R)
  /\ \A n \in N : n \in Kid /\ n.req \in R /\ InItsState(n)
                  /\ [n.row EXCEPT !.due = TRUE] = [req'[n.req] EXCEPT !.due = TRUE]
  /\ \A m, n \in N : m.req = n.req => m = n

\* A child whose copy may be out of date.
LEMMA KidFresh ==
  ASSUME NEW k \in Kid, NEW b \in BOOLEAN
  PROVE  LET l == [k EXCEPT !.fresh = b]
         IN  /\ l \in Kid /\ l.req = k.req /\ l.at = k.at /\ l.row = k.row
             /\ l.fresh = b /\ l.sum = k.sum /\ l.tries = k.tries
             /\ (b = k.fresh => l = k)
BY DEF Kid

\* What Stale makes of a set of children.
LEMMA StaleFacts ==
  ASSUME NEW S \in SUBSET kids, kids \subseteq Kid, NEW R, NEW l \in Stale(S, R)
  PROVE  /\ Before(l, R)
         /\ \E k \in S : /\ l.req = k.req /\ l.at = k.at /\ l.row = k.row
                         /\ l \in Kid /\ (l.fresh <=> k.fresh /\ k.req \notin R)
                         /\ (k.fresh /\ k.req \notin R) = k.fresh => l = k
<1>1. PICK k \in S : l = [k EXCEPT !.fresh = @ /\ k.req \notin R]
  BY Zenon DEF Stale
<1> DEFINE b == k.fresh /\ k.req \notin R
<1>2. k \in Kid /\ k \in kids /\ b \in BOOLEAN /\ k.fresh \in BOOLEAN
  BY DEF Kid
<1>3. l = [k EXCEPT !.fresh = b]
  BY <1>1, Zenon
<1>4. b => b = k.fresh
  BY <1>2
<1>5. b <=> k.fresh /\ k.req \notin R
  OBVIOUS
<1> HIDE DEF b
<1>6. /\ l \in Kid /\ l.req = k.req /\ l.at = k.at /\ l.row = k.row
      /\ l.fresh = b /\ (b = k.fresh => l = k)
  BY <1>2, <1>3, KidFresh
<1>7. l.fresh => l = k /\ l.req \notin R
  BY <1>4, <1>5, <1>6
<1>8. Before(l, R)
  BY <1>2, <1>6, <1>7 DEF Before
<1>9. l.fresh <=> k.fresh /\ k.req \notin R
  BY <1>5, <1>6
<1>10. (k.fresh /\ k.req \notin R) = k.fresh => l = k
  BY <1>6 DEF b
<1> QED  BY <1>6, <1>8, <1>9, <1>10

\* The invariant survives if the new children are in order.
LEMMA AdvanceKeeps ==
  ASSUME WriterInv, NEW R \in SUBSET Req, NEW N, Advance(R, N),
         \A r \in R : DueOk(req'[r]) /\ req'[r] \in Row,
         req' \in [Req -> Row]
  PROVE  /\ kids' \subseteq Kid
         /\ \A r \in Req : DueOk(req'[r])
         /\ OneWriter'
         /\ \A k \in kids' : InItsState(k)
<1>1. kids' \subseteq Kid
  BY DEF Advance, Before
<1>2. \A r \in Req : DueOk(req'[r])
  BY DEF WriterInv, Advance
<1>3. ASSUME NEW k \in kids' PROVE InItsState(k)
  <2>1. CASE k \in N
    BY <2>1 DEF Advance
  <2>2. CASE k \notin N
    <3>1. PICK j \in kids : k.at = j.at /\ k.row = j.row
      BY <2>2 DEF Advance, Before
    <3>2. InItsState(j)
      BY DEF WriterInv
    <3> QED  BY <3>1, <3>2 DEF InItsState
  <2> QED  BY <2>1, <2>2
<1>4. ASSUME NEW l \in kids', l.fresh, l \notin N PROVE l \in kids /\ l.req \notin R
  BY <1>4 DEF Advance, Before
<1>5. ASSUME NEW k \in kids', NEW l \in kids', k.req = l.req, k.fresh, l.fresh
      PROVE  k = l
  <2>0. \A n \in N : n.req \in R
    BY DEF Advance
  <2>1. CASE k \in N
    <3>1. l \in N
      BY <1>4, <1>5, <2>0, <2>1
    <3> QED  BY <1>5, <2>1, <3>1 DEF Advance
  <2>2. CASE k \notin N
    <3>1. k \in kids /\ l \in kids
      BY <1>4, <1>5, <2>0, <2>2
    <3> QED  BY <1>5, <3>1 DEF WriterInv, OneWriter
  <2> QED  BY <2>1, <2>2
<1>6. ASSUME NEW k \in kids', k.fresh
      PROVE  [k.row EXCEPT !.due = TRUE] = [req'[k.req] EXCEPT !.due = TRUE]
  <2>1. CASE k \in N
    BY <2>1 DEF Advance
  <2>2. CASE k \notin N
    <3>1. k \in kids /\ k.req \in Req \ R
      BY <1>1, <1>4, <1>6, <2>2 DEF Kid
    <3> QED  BY <1>6, <3>1 DEF Advance, WriterInv, OneWriter
  <2> QED  BY <2>1, <2>2
<1> QED  BY <1>1, <1>2, <1>3, <1>5, <1>6 DEF OneWriter

\* A child goes on, or exits, without an update.
Walks(k, N) ==
  /\ req' = req
  /\ kids' = (kids \ {k}) \cup N
  /\ \A n \in N : /\ n \in Kid /\ n.req = k.req /\ n.row = k.row
                  /\ n.fresh = k.fresh /\ InItsState(n)
  /\ \A m, n \in N : m = n

\* A child updates its row, and goes on or exits.
Writes(k, new, N) ==
  /\ k.fresh
  /\ new \in Row /\ DueOk(new)
  /\ req' = [req EXCEPT ![k.req] = new]
  /\ kids' = Stale(kids \ {k}, {k.req}) \cup N
  /\ \A n \in N : /\ n \in Kid /\ n.req = k.req /\ n.row = new
                  /\ n.fresh /\ InItsState(n)
  /\ \A m, n \in N : m = n

LEMMA WalkKeeps ==
  ASSUME WriterInv, NEW k \in kids, NEW N, Walks(k, N)
  PROVE  /\ req' \in [Req -> Row] /\ kids' \subseteq Kid
         /\ \A r \in Req : DueOk(req'[r])
         /\ OneWriter'
         /\ \A l \in kids' : InItsState(l)
<1>1. req' \in [Req -> Row] /\ \A r \in Req : DueOk(req'[r])
  BY DEF WriterInv, TypeOK, Walks
<1>2. kids' \subseteq Kid /\ \A l \in kids' : InItsState(l)
  BY DEF WriterInv, TypeOK, Walks
<1>3. ASSUME NEW l \in kids', NEW m \in kids', l.req = m.req, l.fresh, m.fresh
      PROVE  l = m
  <2>1. \/ l \in N /\ m \in N
        \/ l \in N /\ m \in kids \ {k} /\ k.fresh /\ k.req = m.req
        \/ m \in N /\ l \in kids \ {k} /\ k.fresh /\ k.req = l.req
        \/ l \in kids /\ m \in kids
    BY <1>3 DEF Walks
  <2> QED  BY <1>3, <2>1 DEF Walks, WriterInv, OneWriter
<1>4. ASSUME NEW l \in kids', l.fresh
      PROVE  [l.row EXCEPT !.due = TRUE] = [req'[l.req] EXCEPT !.due = TRUE]
  BY <1>4 DEF Walks, WriterInv, OneWriter
<1> QED  BY <1>1, <1>2, <1>3, <1>4 DEF OneWriter

LEMMA WriteKeeps ==
  ASSUME WriterInv, NEW k \in kids, NEW new, NEW N, Writes(k, new, N)
  PROVE  /\ req' \in [Req -> Row] /\ kids' \subseteq Kid
         /\ \A r \in Req : DueOk(req'[r])
         /\ OneWriter'
         /\ \A l \in kids' : InItsState(l)
<1>0. k.req \in Req /\ kids \subseteq Kid
  BY DEF WriterInv, TypeOK, Kid
<1>1. req' \in [Req -> Row] /\ req'[k.req] = new /\ \A r \in Req \ {k.req} : req'[r] = req[r]
  BY <1>0 DEF WriterInv, TypeOK, Writes
<1>2. \A l \in Stale(kids \ {k}, {k.req}) : Before(l, {k.req})
  BY <1>0, StaleFacts
<1>3. Advance({k.req}, N)
  BY <1>0, <1>1, <1>2 DEF Writes, Advance
<1>4. \A r \in {k.req} : DueOk(req'[r]) /\ req'[r] \in Row
  BY <1>1 DEF Writes
<1> DEFINE R == {k.req}
<1>5. R \in SUBSET Req
  BY <1>0
<1>6. Advance(R, N) /\ \A r \in R : DueOk(req'[r]) /\ req'[r] \in Row
  BY <1>3, <1>4
<1> HIDE DEF R
<1> QED  BY <1>1, <1>5, <1>6, AdvanceKeeps

-----------------------------------------------------------------------------
(***************************************************************************)
(* What is known of a child and of its request.                            *)
(***************************************************************************)

\* Rows that differ in nothing but due.
Same(x, y) ==
  /\ x.state = y.state /\ x.last = y.last /\ x.errors = y.errors
  /\ x.tmp = y.tmp /\ x.staged = y.staged /\ x.path = y.path /\ x.info = y.info

LEMMA SameFields ==
  ASSUME NEW x \in Row, NEW y \in Row,
         [x EXCEPT !.due = TRUE] = [y EXCEPT !.due = TRUE]
  PROVE  Same(x, y)
<1> DEFINE z == [x EXCEPT !.due = TRUE]
<1>1. Fields(z, x.state, x.last, x.errors, TRUE, x.tmp, x.staged, x.path, x.info)
  BY OneField
<1>2. Fields([y EXCEPT !.due = TRUE], y.state, y.last, y.errors, TRUE,
             y.tmp, y.staged, y.path, y.info)
  BY OneField
<1>3. z = [y EXCEPT !.due = TRUE]
  OBVIOUS
<1> HIDE DEF z
<1>4. Fields(z, y.state, y.last, y.errors, TRUE, y.tmp, y.staged, y.path, y.info)
  BY <1>2, <1>3
<1> QED  BY <1>1, <1>4 DEF Fields, Same

LEMMA Scene ==
  ASSUME StageInv, NEW k \in kids
  PROVE  /\ k \in Kid /\ k.req \in Req /\ k.at \in Call /\ k.fresh \in BOOLEAN
         /\ k.row \in Row /\ req[k.req] \in Row
         /\ Fits(k.at, k.row.state)
         /\ k.fresh => Same(k.row, req[k.req])
         /\ LastIsSet(req[k.req])
         /\ k.req \notin late =>
              /\ InPlace(req[k.req], link[k.req], k.req \in left,
                         volume[k.req], k.req \in mount, k.req \in aged)
              /\ Knows(k.at, k.fresh, k.row, req[k.req], link[k.req], k.req \in left,
                       volume[k.req], k.req \in mount, k.req \in aged)
<1>1. k \in Kid /\ req \in [Req -> Row]
  BY DEF StageInv, WriterInv, TypeOK
<1>2. /\ k.req \in Req /\ k.at \in Call /\ k.fresh \in BOOLEAN
      /\ k.row \in Row /\ req[k.req] \in Row
  BY <1>1 DEF Kid
<1>3. Fits(k.at, k.row.state)
  BY DEF StageInv, WriterInv, InItsState
<1>4. ASSUME k.fresh PROVE Same(k.row, req[k.req])
  <2>1. [k.row EXCEPT !.due = TRUE] = [req[k.req] EXCEPT !.due = TRUE]
    BY <1>4 DEF StageInv, WriterInv, OneWriter
  <2> QED  BY <1>2, <2>1, SameFields
<1>5. RequestOk(k.req) /\ KidOk(k)
  BY <1>2 DEF StageInv
<1> QED  BY <1>1, <1>2, <1>3, <1>4, <1>5 DEF RequestOk, KidOk

\* A child that can update its row is alone.
LEMMA Alone ==
  ASSUME StageInv, NEW k \in kids, k.fresh, k.req \notin late,
         NEW l \in kids, l.at \in Working, l.req = k.req
  PROVE  l = k
<1>1. /\ k.at \in Call /\ Fits(k.at, k.row.state) /\ Same(k.row, req[k.req])
      /\ k.row.state = req[k.req].state
  BY Scene DEF Same
<1>2. k.row.state \notin {"DELETED", "FAILED", "RESTORE_RECOVER_START"}
  BY <1>1 DEF Fits, Call, VerifyCalls, StageCalls, RemoveCalls, WorkStates
<1>3. Knows(l.at, l.fresh, l.row, req[l.req], link[l.req], l.req \in left,
            volume[l.req], l.req \in mount, l.req \in aged)
  BY Scene
<1>4. l.fresh
  BY <1>1, <1>2, <1>3 DEF Knows, TakenAway
<1> QED  BY <1>4 DEF StageInv, WriterInv, OneWriter

-----------------------------------------------------------------------------
(***************************************************************************)
(* A step of a child.                                                      *)
(***************************************************************************)

\* What is in place for other requests than r stays.
Elsewhere(r) ==
  \A q \in Req \ {r} : /\ link'[q] = link[q] /\ volume'[q] = volume[q]
                       /\ q \in left' <=> q \in left
                       /\ q \in mount' <=> q \in mount
                       /\ q \in aged' <=> q \in aged

\* What a step of a child must not break.
Outcome(k) ==
  \E N :
    /\ Walks(k, N) \/ \E new : Writes(k, new, N) /\ LastIsSet(new)
    /\ late' = late
    /\ Elsewhere(k.req)
    /\ k.at \in Working \/ UNCHANGED <<link, left, volume, mount, aged>>
    /\ k.req \notin late =>
         InPlace(req'[k.req], link'[k.req], k.req \in left',
                 volume'[k.req], k.req \in mount', k.req \in aged')
    /\ \A n \in N :
         /\ n.at \in Working => k.at \in Working
         /\ k.req \notin late =>
              Knows(n.at, n.fresh, n.row, req'[k.req], link'[k.req], k.req \in left',
                    volume'[k.req], k.req \in mount', k.req \in aged')

\* The children that are not new are those that were there.
LEMMA OldKids ==
  ASSUME WriterInv, NEW k \in kids, NEW N,
         Walks(k, N) \/ \E new : Writes(k, new, N),
         NEW l \in kids', l \notin N
  PROVE  \E j \in kids : /\ j # k
                         /\ l.req = j.req /\ l.at = j.at /\ l.row = j.row
                         /\ \/ l = j
                            \/ ~ l.fresh /\ j.req = k.req /\ k.fresh
<1>1. CASE Walks(k, N)
  <2>1. l \in kids \ {k}
    BY <1>1 DEF Walks
  <2> QED  BY <2>1
<1>2. CASE \E new : Writes(k, new, N)
  <2>1. k.fresh /\ l \in Stale(kids \ {k}, {k.req})
    BY <1>2 DEF Writes
  <2>2. kids \subseteq Kid /\ kids \ {k} \in SUBSET kids
    BY DEF WriterInv, TypeOK
  <2>3. PICK j \in kids \ {k} : /\ l.req = j.req /\ l.at = j.at /\ l.row = j.row
                                /\ l \in Kid
                                /\ (l.fresh <=> j.fresh /\ j.req \notin {k.req})
                                /\ (j.fresh /\ j.req \notin {k.req}) = j.fresh => l = j
    BY <2>1, <2>2, StaleFacts
  <2>4. j.fresh \in BOOLEAN /\ l.fresh \in BOOLEAN
    BY <2>2, <2>3 DEF Kid
  <2> QED  BY <2>1, <2>3, <2>4
<1> QED  BY <1>1, <1>2

\* The rows of the other requests stay.
LEMMA OtherRows ==
  ASSUME WriterInv, NEW k \in kids, NEW N,
         Walks(k, N) \/ \E new : Writes(k, new, N),
         NEW q \in Req, q # k.req
  PROVE  req'[q] = req[q]
<1>1. k.req \in Req /\ req \in [Req -> Row]
  BY DEF WriterInv, TypeOK, Kid
<1> QED  BY <1>1 DEF Walks, Writes

LEMMA OutcomeKeeps ==
  ASSUME StageInv, NEW k \in kids, Outcome(k)
  PROVE  /\ req' \in [Req -> Row] /\ kids' \subseteq Kid
         /\ \A r \in Req : DueOk(req'[r])
         /\ OneWriter'
         /\ \A l \in kids' : InItsState(l)
         /\ \A r \in Req : RequestOk(r)'
         /\ \A l \in kids' : KidOk(l)'
         /\ \A l, m \in kids' : /\ l.req = m.req /\ l.req \notin late'
                                /\ l.at \in Working /\ m.at \in Working
                                => l = m
<1>0. WriterInv /\ k.req \in Req
  BY Scene DEF StageInv
<1>1. PICK N :
        /\ Walks(k, N) \/ \E new : Writes(k, new, N) /\ LastIsSet(new)
        /\ late' = late
        /\ Elsewhere(k.req)
        /\ k.at \in Working \/ UNCHANGED <<link, left, volume, mount, aged>>
        /\ k.req \notin late =>
             InPlace(req'[k.req], link'[k.req], k.req \in left',
                     volume'[k.req], k.req \in mount', k.req \in aged')
        /\ \A n \in N :
             /\ n.at \in Working => k.at \in Working
             /\ k.req \notin late =>
                  Knows(n.at, n.fresh, n.row, req'[k.req], link'[k.req], k.req \in left',
                        volume'[k.req], k.req \in mount', k.req \in aged')
  BY Zenon DEF Outcome
<1>2. Walks(k, N) \/ \E new : Writes(k, new, N)
  BY <1>1
<1>3. /\ req' \in [Req -> Row] /\ kids' \subseteq Kid
      /\ \A r \in Req : DueOk(req'[r])
      /\ OneWriter'
      /\ \A l \in kids' : InItsState(l)
  <2>1. CASE Walks(k, N)
    BY <1>0, <2>1, WalkKeeps
  <2>2. CASE \E new : Writes(k, new, N)
    <3>1. PICK new : Writes(k, new, N)
      BY <2>2
    <3> QED  BY <1>0, <3>1, WriteKeeps
  <2> QED  BY <1>2, <2>1, <2>2
<1>4. \A q \in Req \ {k.req} :
        /\ req'[q] = req[q] /\ link'[q] = link[q] /\ volume'[q] = volume[q]
        /\ q \in left' <=> q \in left
        /\ q \in mount' <=> q \in mount
        /\ q \in aged' <=> q \in aged
  BY <1>0, <1>1, <1>2, OtherRows DEF Elsewhere
<1>5. ASSUME NEW r \in Req PROVE RequestOk(r)'
  <2>1. RequestOk(r)
    BY DEF StageInv
  <2>2. CASE r # k.req
    BY <1>1, <1>4, <2>1, <2>2 DEF RequestOk
  <2>3. CASE r = k.req
    <3>1. LastIsSet(req'[k.req])
      <4>1. req \in [Req -> Row]
        BY <1>0 DEF WriterInv, TypeOK
      <4>2. CASE Walks(k, N)
        BY <2>1, <2>3, <4>2 DEF Walks, RequestOk
      <4>3. CASE \E new : Writes(k, new, N) /\ LastIsSet(new)
        <5>1. PICK new : Writes(k, new, N) /\ LastIsSet(new)
          BY <4>3
        <5>2. req'[k.req] = new
          BY <1>0, <4>1, <5>1 DEF Writes
        <5> QED  BY <5>1, <5>2
      <4> QED  BY <1>1, <4>2, <4>3
    <3> QED  BY <1>1, <2>3, <3>1 DEF RequestOk
  <2> QED  BY <2>2, <2>3
<1>6. \A n \in N : n.req = k.req
  BY <1>2 DEF Walks, Writes
<1>7. \A m, n \in N : m = n
  BY <1>2 DEF Walks, Writes
<1>8. ASSUME NEW l \in kids', l \notin N, l.at \in Working, l.req = k.req, l.req \notin late
      PROVE  /\ l \in kids /\ k.at \notin Working
             /\ UNCHANGED <<req, link, left, volume, mount, aged>>
  <2>1. PICK j \in kids : /\ j # k
                          /\ l.req = j.req /\ l.at = j.at /\ l.row = j.row
                          /\ \/ l = j
                             \/ ~ l.fresh /\ j.req = k.req /\ k.fresh
    BY <1>0, <1>2, <1>8, OldKids
  <2>2. ~ k.fresh
    BY <1>8, <2>1, Alone
  <2>3. k.at \notin Working
    BY <1>8, <2>1 DEF StageInv
  <2>4. req' = req
    BY <1>2, <2>2 DEF Walks, Writes
  <2> QED  BY <1>1, <2>1, <2>2, <2>3, <2>4
<1>9. ASSUME NEW l \in kids', l \notin N, l.req # k.req
      PROVE  l \in kids
  <2>1. PICK j \in kids : /\ j # k
                          /\ l.req = j.req /\ l.at = j.at /\ l.row = j.row
                          /\ \/ l = j
                             \/ ~ l.fresh /\ j.req = k.req /\ k.fresh
    BY <1>0, <1>2, <1>9, OldKids
  <2> QED  BY <1>9, <2>1
<1>10. ASSUME NEW l \in kids' PROVE KidOk(l)'
  <2>1. SUFFICES ASSUME l.req \notin late, l.at \in Working
                 PROVE  Knows(l.at, l.fresh, l.row, req'[l.req], link'[l.req], l.req \in left',
                              volume'[l.req], l.req \in mount', l.req \in aged')
    BY <1>1, Zenon DEF KidOk, Knows
  <2>2. CASE l \in N
    BY <1>1, <1>6, <2>1, <2>2
  <2>3. CASE l \notin N /\ l.req = k.req
    <3>1. l \in kids /\ UNCHANGED <<req, link, left, volume, mount, aged>>
      BY <1>8, <2>1, <2>3
    <3> QED  BY <2>1, <3>1, Scene
  <2>4. CASE l \notin N /\ l.req # k.req
    <3>1. l \in kids
      BY <1>9, <2>4
    <3>2. l.req \in Req \ {k.req}
      BY <1>0, <2>4, <3>1, Scene
    <3>3. Knows(l.at, l.fresh, l.row, req[l.req], link[l.req], l.req \in left,
                volume[l.req], l.req \in mount, l.req \in aged)
      BY <2>1, <3>1, Scene
    <3> QED  BY <1>4, <3>2, <3>3 DEF Knows, TakenAway
  <2> QED  BY <2>2, <2>3, <2>4
<1>11. ASSUME NEW l \in kids', NEW m \in kids', l.req = m.req, l.req \notin late,
              l.at \in Working, m.at \in Working
       PROVE  l = m
  <2>1. CASE l \in N /\ m \in N
    BY <1>7, <2>1
  <2>2. CASE (l \in N \/ m \in N) /\ ~ (l \in N /\ m \in N)
    BY <1>1, <1>6, <1>8, <1>11, <2>2
  <2>3. CASE l \notin N /\ m \notin N
    <3>1. l \in kids /\ m \in kids
      BY <1>8, <1>9, <1>11, <2>3
    <3> QED  BY <1>11, <3>1 DEF StageInv
  <2> QED  BY <2>1, <2>2, <2>3
<1>12. \A l, m \in kids' : /\ l.req = m.req /\ l.req \notin late'
                           /\ l.at \in Working /\ m.at \in Working
                           => l = m
  BY <1>1, <1>11
<1> QED  BY <1>3, <1>5, <1>10, <1>12

-----------------------------------------------------------------------------
(***************************************************************************)
(* Ways to go on.  In each lemma the rest of the step is given by what is  *)
(* in place for the request afterwards.                                    *)
(***************************************************************************)

LEMMA KidAt ==
  ASSUME NEW k \in Kid, NEW at \in Call
  PROVE  LET n == [k EXCEPT !.at = at]
         IN  /\ n \in Kid /\ n.req = k.req /\ n.at = at /\ n.row = k.row
             /\ n.fresh = k.fresh /\ n.sum = k.sum /\ n.tries = k.tries
BY DEF Kid

LEMMA KidAtAgain ==
  ASSUME NEW k \in Kid, NEW at \in Call, NEW t \in 0 .. 1
  PROVE  LET n == [k EXCEPT !.at = at, !.tries = t]
         IN  /\ n \in Kid /\ n.req = k.req /\ n.at = at /\ n.row = k.row
             /\ n.fresh = k.fresh
BY DEF Kid

LEMMA KidAtRow ==
  ASSUME NEW k \in Kid, NEW at \in Call, NEW new \in Row
  PROVE  LET n == [k EXCEPT !.at = at, !.row = new]
         IN  /\ n \in Kid /\ n.req = k.req /\ n.at = at /\ n.row = new
             /\ n.fresh = k.fresh /\ n.sum = k.sum /\ n.tries = k.tries
BY DEF Kid

\* The rest of the step: what is in place afterwards.
Rest(k, new) ==
  /\ late' = late
  /\ Elsewhere(k.req)
  /\ k.at \in Working \/ UNCHANGED <<link, left, volume, mount, aged>>
  /\ k.req \notin late =>
       InPlace(new, link'[k.req], k.req \in left',
               volume'[k.req], k.req \in mount', k.req \in aged')

\* A child goes on.
LEMMA WalkOn ==
  ASSUME StageInv, NEW k \in kids, NEW n \in Kid,
         n.req = k.req, n.row = k.row, n.fresh = k.fresh,
         req' = req, kids' = (kids \ {k}) \cup {n},
         Rest(k, req[k.req]),
         Fits(n.at, k.row.state), n.at \in Working => k.at \in Working,
         k.req \notin late =>
           Knows(n.at, k.fresh, k.row, req[k.req], link'[k.req], k.req \in left',
                 volume'[k.req], k.req \in mount', k.req \in aged')
  PROVE  Outcome(k)
<1> DEFINE N == {n}
<1>1. Walks(k, N)
  BY DEF Walks, InItsState
<1>2. \A m \in N :
         /\ m.at \in Working => k.at \in Working
         /\ k.req \notin late =>
              Knows(m.at, m.fresh, m.row, req'[k.req], link'[k.req], k.req \in left',
                    volume'[k.req], k.req \in mount', k.req \in aged')
  OBVIOUS
<1> HIDE DEF N
<1> QED  BY <1>1, <1>2 DEF Outcome, Rest

LEMMA GoOn ==
  ASSUME StageInv, NEW k \in kids, NEW at \in Call, Go(k, at), req' = req,
         Rest(k, req[k.req]),
         Fits(at, k.row.state), at \in Working => k.at \in Working,
         k.req \notin late =>
           Knows(at, k.fresh, k.row, req[k.req], link'[k.req], k.req \in left',
                 volume'[k.req], k.req \in mount', k.req \in aged')
  PROVE  Outcome(k)
<1> DEFINE n == [k EXCEPT !.at = at]
<1>1. k \in Kid
  BY Scene
<1>2. /\ n \in Kid /\ n.req = k.req /\ n.at = at /\ n.row = k.row
      /\ n.fresh = k.fresh
  BY <1>1, KidAt
<1>3. kids' = (kids \ {k}) \cup {n}
  BY DEF Go
<1> HIDE DEF n
<1> QED  BY <1>2, <1>3, WalkOn

\* A child exits without an update.
LEMMA ExitOn ==
  ASSUME StageInv, NEW k \in kids, Exit(k), req' = req, Rest(k, req[k.req])
  PROVE  Outcome(k)
<1> DEFINE N == {}
<1>1. Walks(k, N)
  BY DEF Walks, Exit
<1>2. N = {}
  OBVIOUS
<1> HIDE DEF N
<1> QED  BY <1>1, <1>2 DEF Outcome, Rest

\* The first half of an update.
LEMMA WriteOn ==
  ASSUME StageInv, NEW k \in kids, k.fresh,
         NEW new \in Row, DueOk(new), LastIsSet(new),
         req' = [req EXCEPT ![k.req] = new], Rest(k, new)
  PROVE  /\ kids' = Stale(kids \ {k}, {k.req}) => Outcome(k)
         /\ \A n \in Kid :
              /\ kids' = Stale(kids \ {k}, {k.req}) \cup {n}
              /\ n.req = k.req /\ n.row = new /\ n.fresh
              /\ Fits(n.at, new.state)
              /\ n.at \in Working => k.at \in Working
              /\ k.req \notin late =>
                   Knows(n.at, TRUE, new, new, link'[k.req], k.req \in left',
                         volume'[k.req], k.req \in mount', k.req \in aged')
              => Outcome(k)
<1>1. req'[k.req] = new
  <2>1. req \in [Req -> Row] /\ k.req \in Req
    BY Scene DEF StageInv, WriterInv, TypeOK
  <2> QED  BY <2>1
<1>2. ASSUME kids' = Stale(kids \ {k}, {k.req}) PROVE Outcome(k)
  <2> DEFINE N == {}
  <2>1. Writes(k, new, N)
    BY <1>2 DEF Writes
  <2>2. N = {}
    OBVIOUS
  <2> HIDE DEF N
  <2> QED  BY <1>1, <2>1, <2>2 DEF Outcome, Rest
<1>3. ASSUME NEW n \in Kid,
             kids' = Stale(kids \ {k}, {k.req}) \cup {n},
             n.req = k.req, n.row = new, n.fresh,
             Fits(n.at, new.state),
             n.at \in Working => k.at \in Working,
             k.req \notin late =>
               Knows(n.at, TRUE, new, new, link'[k.req], k.req \in left',
                     volume'[k.req], k.req \in mount', k.req \in aged')
      PROVE  Outcome(k)
  <2> DEFINE N == {n}
  <2>1. Writes(k, new, N)
    BY <1>3 DEF Writes, InItsState
  <2>2. \A m \in N :
           /\ m.at \in Working => k.at \in Working
           /\ k.req \notin late =>
                Knows(m.at, m.fresh, m.row, req'[k.req], link'[k.req], k.req \in left',
                      volume'[k.req], k.req \in mount', k.req \in aged')
    <3>1. n.fresh = TRUE
      BY <1>3 DEF Kid
    <3> QED  BY <1>1, <1>3, <3>1
  <2> HIDE DEF N
  <2> QED  BY <1>1, <2>1, <2>2 DEF Outcome, Rest
<1> QED  BY <1>2, <1>3

\* A child updates its row and goes on.
LEMMA TouchOn ==
  ASSUME StageInv, NEW k \in kids, NEW at \in Call, NEW new \in Row,
         Touch(k, at, new), DueOk(new), Fits(at, new.state),
         at \in Working => k.at \in Working,
         k.fresh => LastIsSet(new) /\ Rest(k, new),
         ~ k.fresh => Rest(k, req[k.req]),
         k.fresh /\ k.req \notin late =>
           Knows(at, TRUE, new, new, link'[k.req], k.req \in left',
                 volume'[k.req], k.req \in mount', k.req \in aged')
  PROVE  Outcome(k)
<1> DEFINE n == [k EXCEPT !.at = at, !.row = new]
<1>1. k \in Kid
  BY Scene
<1>2. /\ n \in Kid /\ n.req = k.req /\ n.at = at /\ n.row = new
      /\ n.fresh = k.fresh
  BY <1>1 DEF Kid
<1>3. CASE k.fresh
  <2>1. /\ req' = [req EXCEPT ![k.req] = new]
        /\ kids' = Stale(kids \ {k}, {k.req}) \cup {n}
    BY <1>3 DEF Touch
  <2> HIDE DEF n
  <2> QED  BY <1>2, <1>3, <2>1, WriteOn
<1>4. CASE ~ k.fresh
  BY <1>4, ExitOn DEF Touch
<1> QED  BY <1>3, <1>4

\* A child updates its row and exits.
LEMMA FinishOn ==
  ASSUME StageInv, NEW k \in kids, NEW new \in Row,
         Finish(k, new), DueOk(new),
         k.fresh => LastIsSet(new) /\ Rest(k, new),
         ~ k.fresh => Rest(k, req[k.req])
  PROVE  Outcome(k)
<1>1. CASE k.fresh
  BY <1>1, WriteOn DEF Finish
<1>2. CASE ~ k.fresh
  BY <1>2, ExitOn DEF Finish, Exit
<1> QED  BY <1>1, <1>2

-----------------------------------------------------------------------------
(***************************************************************************)
(* Steps that change only the row.                                         *)
(***************************************************************************)

LEMMA QuietRest ==
  ASSUME StageInv, NEW k \in kids, UNCHANGED <<files, staging, outside>>
  PROVE  /\ Rest(k, req[k.req])
         /\ \A new : (k.req \notin late =>
                        InPlace(new, link[k.req], k.req \in left,
                                volume[k.req], k.req \in mount, k.req \in aged))
                     => Rest(k, new)
<1>1. UNCHANGED <<link, left, volume, mount, aged, late>>
  BY DEF files, staging, outside
<1>2. k.req \notin late => InPlace(req[k.req], link[k.req], k.req \in left,
                                   volume[k.req], k.req \in mount, k.req \in aged)
  BY Scene
<1> QED  BY <1>1, <1>2 DEF Rest, Elsewhere

LEMMA QuietGo ==
  ASSUME StageInv, NEW k \in kids, UNCHANGED <<files, staging, outside>>,
         NEW at \in Call, Go(k, at), req' = req,
         Fits(at, k.row.state), at \in Working => k.at \in Working,
         k.req \notin late =>
           Knows(at, k.fresh, k.row, req[k.req], link[k.req], k.req \in left,
                 volume[k.req], k.req \in mount, k.req \in aged)
  PROVE  Outcome(k)
<1>1. Rest(k, req[k.req])
  BY QuietRest
<1>2. UNCHANGED <<link, left, volume, mount, aged>>
  BY DEF files, staging
<1> QED  BY <1>1, <1>2, GoOn

\* process_child catches an exception.
LEMMA QuietError ==
  ASSUME StageInv, NEW k \in kids, UNCHANGED <<files, staging, outside>>,
         Go(k, "error"), req' = req, k.at \notin {"recover", "error"}
  PROVE  Outcome(k)
<1>1. "error" \in Call /\ "error" \notin Working
  BY DEF Call, Working
<1>2. Fits(k.at, k.row.state) /\ k.at \in Call
  BY Scene
<1>3. Fits("error", k.row.state)
  BY <1>2 DEF Fits, Call, VerifyCalls, StageCalls, RemoveCalls, WorkStates
<1> QED  BY <1>1, <1>3, QuietGo DEF Knows

LEMMA QuietTouch ==
  ASSUME StageInv, NEW k \in kids, UNCHANGED <<files, staging, outside>>,
         NEW at \in Call, NEW new \in Row,
         Touch(k, at, new), DueOk(new), Fits(at, new.state),
         at \in Working => k.at \in Working,
         k.fresh => LastIsSet(new),
         k.fresh /\ k.req \notin late =>
           /\ InPlace(new, link[k.req], k.req \in left,
                      volume[k.req], k.req \in mount, k.req \in aged)
           /\ Knows(at, TRUE, new, new, link[k.req], k.req \in left,
                    volume[k.req], k.req \in mount, k.req \in aged)
  PROVE  Outcome(k)
<1>1. Rest(k, req[k.req]) /\ (k.fresh => Rest(k, new))
  BY QuietRest
<1>2. UNCHANGED <<link, left, volume, mount, aged>>
  BY DEF files, staging
<1> QED  BY <1>1, <1>2, TouchOn

LEMMA QuietFinish ==
  ASSUME StageInv, NEW k \in kids, UNCHANGED <<files, staging, outside>>,
         NEW new \in Row, Finish(k, new), DueOk(new),
         k.fresh => LastIsSet(new),
         k.fresh /\ k.req \notin late =>
           InPlace(new, link[k.req], k.req \in left,
                   volume[k.req], k.req \in mount, k.req \in aged)
  PROVE  Outcome(k)
<1>1. Rest(k, req[k.req]) /\ (k.fresh => Rest(k, new))
  BY QuietRest
<1> QED  BY <1>1, FinishOn

LEMMA AuthzOut ==
  ASSUME StageInv, NEW k \in kids, Authz(k)
  PROVE  Outcome(k)
<1> DEFINE new == To(k.row, "AUTHZ_DONE")
<1>1. /\ k.row \in Row /\ Fits(k.at, k.row.state)
      /\ k.fresh => Same(k.row, req[k.req])
      /\ LastIsSet(req[k.req])
      /\ k.req \notin late =>
           InPlace(req[k.req], link[k.req], k.req \in left,
                   volume[k.req], k.req \in mount, k.req \in aged)
  BY Scene
<1>2. k.at = "authz" /\ k.row.state = "AUTHZ_WORK"
  BY <1>1 DEF Authz, Fits
<1>3. Fields(new, "AUTHZ_DONE", k.row.last, k.row.errors, TRUE,
             k.row.tmp, k.row.staged, k.row.path, k.row.info)
  BY <1>1, StateFacts, ToFields
<1>4. UNCHANGED <<files, staging, outside>>
  BY DEF Authz
<1>5. CASE Finish(k, new)
  <2> HIDE DEF new
  <2>1. new \in Row /\ DueOk(new)
    BY <1>3 DEF Fields, DueOk
  <2>2. k.fresh => LastIsSet(new)
    BY <1>1, <1>2, <1>3 DEF Fields, Same, LastIsSet, Failures, RetryStates
  <2>3. k.fresh /\ k.req \notin late =>
          InPlace(new, link[k.req], k.req \in left,
                  volume[k.req], k.req \in mount, k.req \in aged)
    BY <1>1, <1>2, <1>3 DEF Fields, Same, Reached, Failures, RetryStates,
                            InPlace, Absent, Trusted, Staged
  <2> QED  BY <1>4, <1>5, <2>1, <2>2, <2>3, QuietFinish
<1>6. CASE Go(k, "error") /\ req' = req
  BY <1>2, <1>4, <1>6, QuietError
<1> QED  BY <1>5, <1>6 DEF Authz

-----------------------------------------------------------------------------
(***************************************************************************)
(* The calls of a child, one by one: verification.                         *)
(***************************************************************************)

Setting(k) ==
  /\ k \in Kid /\ k.req \in Req /\ k.at \in Call /\ k.fresh \in BOOLEAN
  /\ k.row \in Row /\ req[k.req] \in Row
  /\ Fits(k.at, k.row.state)
  /\ k.fresh => Same(k.row, req[k.req])
  /\ LastIsSet(req[k.req])
  /\ k.req \notin late =>
       /\ InPlace(req[k.req], link[k.req], k.req \in left,
                  volume[k.req], k.req \in mount, k.req \in aged)
       /\ Knows(k.at, k.fresh, k.row, req[k.req], link[k.req], k.req \in left,
                volume[k.req], k.req \in mount, k.req \in aged)

LEMMA TheSetting ==
  ASSUME StageInv, NEW k \in kids
  PROVE  Setting(k)
BY Scene DEF Setting

\* An update that leaves the state alone.
LEMMA TouchInState ==
  ASSUME StageInv, NEW k \in kids, UNCHANGED <<files, staging, outside>>,
         k.at \in VerifyCalls \cup StageCalls \cup RemoveCalls,
         NEW at \in Call, NEW new, NEW t \in BOOLEAN, NEW i \in BOOLEAN,
         Fields(new, k.row.state, k.row.last, k.row.errors, TRUE,
                t, k.row.staged, k.row.path, i),
         Touch(k, at, new), Fits(at, k.row.state),
         k.fresh /\ k.req \notin late =>
           /\ k.row.state = "RESTORE_WORK" => t \/ link[k.req] = "none" \/ k.req \in left
           /\ Knows(at, TRUE, new, new, link[k.req], k.req \in left,
                    volume[k.req], k.req \in mount, k.req \in aged)
  PROVE  Outcome(k)
<1>1. k.row.state \in {"VERIFY_WORK", "RESTORE_WORK", "REMOVE_WORK"}
  BY TheSetting DEF Setting, Fits
<1>2. new \in Row /\ DueOk(new) /\ Fits(at, new.state)
  BY DEF Fields, DueOk
<1>3. k.at \in Working
  BY TheSetting DEF Setting, Working, VerifyCalls, StageCalls, RemoveCalls
<1>4. k.fresh => LastIsSet(new)
  BY <1>1, TheSetting DEF Setting, Same, Fields, LastIsSet, Failures, RetryStates
<1>5. k.fresh /\ k.req \notin late =>
        InPlace(new, link[k.req], k.req \in left,
                volume[k.req], k.req \in mount, k.req \in aged)
  BY <1>1, TheSetting DEF Setting, Same, Fields, InPlace, Reached, Failures,
                          RetryStates, Absent, Trusted, Staged
<1> QED  BY <1>2, <1>3, <1>4, <1>5, QuietTouch

LEMMA VerifyOut ==
  ASSUME StageInv, NEW k \in kids, Verify(k)
  PROVE  Outcome(k)
<1> DEFINE new == [To(k.row, k.row.state) EXCEPT !.tmp = FALSE]
<1>1. Setting(k) /\ k.at = "verify"
  BY TheSetting DEF Verify
<1>2. k.row.state = "VERIFY_WORK" /\ k.row.state \in State
  BY <1>1, StateFacts DEF Setting, Fits, VerifyCalls
<1>3. UNCHANGED <<files, staging, outside>>
  BY DEF Verify
<1>4. Fields(new, k.row.state, k.row.last, k.row.errors, TRUE,
             FALSE, k.row.staged, k.row.path, k.row.info)
  BY <1>1, <1>2, ToAndField DEF Setting
<1>5. /\ k.at \in VerifyCalls \cup StageCalls \cup RemoveCalls
      /\ k.at \in Working /\ {"claim", "check"} \subseteq Call
      /\ Fits("claim", k.row.state) /\ Fits("check", k.row.state)
      /\ k.row.info \in BOOLEAN
  BY <1>1, <1>2 DEF Setting, Fits, VerifyCalls, StageCalls, RemoveCalls, Working, Call, Row
<1>6. CASE Touch(k, "claim", new)
  <2> HIDE DEF new
  <2>1. Knows("claim", TRUE, new, new, link[k.req], k.req \in left,
              volume[k.req], k.req \in mount, k.req \in aged)
    BY DEF Knows
  <2> QED  BY <1>2, <1>3, <1>4, <1>5, <1>6, <2>1, TouchInState
<1>7. CASE k.row.tmp /\ Go(k, "check") /\ req' = req
  <2>1. k.req \notin late =>
          Knows("check", k.fresh, k.row, req[k.req], link[k.req], k.req \in left,
                volume[k.req], k.req \in mount, k.req \in aged)
    BY <1>1, <1>5, <1>7 DEF Setting, Knows
  <2> QED  BY <1>3, <1>5, <1>7, <2>1, QuietGo
<1>8. CASE Go(k, "claim") /\ req' = req
  <2>1. k.req \notin late =>
          Knows("claim", k.fresh, k.row, req[k.req], link[k.req], k.req \in left,
                volume[k.req], k.req \in mount, k.req \in aged)
    BY <1>1, <1>5, <1>8 DEF Setting, Knows
  <2> QED  BY <1>3, <1>5, <1>8, <2>1, QuietGo
<1> QED  BY <1>6, <1>7, <1>8 DEF Verify

\* A change of the link only.
LEMMA LinkRest ==
  ASSUME StageInv, NEW k \in kids, k.at \in Working, NEW c \in Content,
         link' = [link EXCEPT ![k.req] = c],
         UNCHANGED <<disk, left, staging, outside>>,
         k.req \notin late =>
           LET s == Reached(req[k.req])
           IN  c = "none" \/ s \notin Trusted \cup Staged
  PROVE  Rest(k, req[k.req]) /\ link'[k.req] = c /\ UNCHANGED <<volume, mount, aged>>
<1>1. UNCHANGED <<volume, mount, aged, late>>
  BY DEF staging, outside
<1>2. link'[k.req] = c /\ \A q \in Req \ {k.req} : link'[q] = link[q]
  BY TheSetting DEF Setting, StageInv, WriterInv, TypeOK
<1>3. k.req \notin late =>
        InPlace(req[k.req], c, k.req \in left', volume[k.req], k.req \in mount, k.req \in aged)
  BY TheSetting DEF Setting, InPlace
<1> QED  BY <1>1, <1>2, <1>3 DEF Rest, Elsewhere

\* The request of a child that verifies is not further than that.
LEMMA VerifyStage ==
  ASSUME StageInv, NEW k \in kids, k.at \in VerifyCalls, k.req \notin late
  PROVE  Reached(req[k.req]) \notin Trusted \cup Staged
<1>1. Setting(k) /\ k.row.state = "VERIFY_WORK"
  BY TheSetting DEF Setting, Fits
<1>2. k.at \in Working
  BY DEF VerifyCalls, Working, Call
<1>3. Knows(k.at, k.fresh, k.row, req[k.req], link[k.req], k.req \in left,
            volume[k.req], k.req \in mount, k.req \in aged)
  BY <1>1 DEF Setting
<1> QED  BY <1>1, <1>2, <1>3 DEF Setting, Knows, TakenAway, Same, Reached, Failures,
                                 RetryStates, Trusted, Staged

LEMMA ClaimOut ==
  ASSUME StageInv, NEW k \in kids, Claim(k)
  PROVE  Outcome(k)
<1>1. Setting(k) /\ k.at = "claim"
  BY TheSetting DEF Claim
<1>2. /\ k.at \in VerifyCalls /\ k.at \in Working
      /\ {"absent", "link", "error"} \subseteq Call /\ "none" \in Content
  BY <1>1 DEF VerifyCalls, Working, Call, Content
<1>3. \A at \in {"absent", "link", "error"} :
        /\ Fits(at, k.row.state)
        /\ k.req \notin late =>
             Knows(at, k.fresh, k.row, req[k.req], link'[k.req], k.req \in left',
                   volume'[k.req], k.req \in mount', k.req \in aged')
  BY <1>1, <1>2 DEF Setting, Fits, VerifyCalls, StageCalls, RemoveCalls, WorkStates,
                    Knows, Working
<1>4. UNCHANGED <<req, disk, left, staging, outside>>
  BY DEF Claim
<1>5. CASE link' = [link EXCEPT ![k.req] = "none"] /\ Go(k, "link")
  <2>1. Rest(k, req[k.req])
    BY <1>2, <1>4, <1>5, LinkRest, VerifyStage
  <2> QED  BY <1>2, <1>3, <1>4, <1>5, <2>1, GoOn
<1>6. CASE UNCHANGED link /\ (Go(k, "absent") \/ Go(k, "error"))
  <2>1. UNCHANGED <<files, staging, outside>>
    BY <1>4, <1>6 DEF files
  <2>2. Rest(k, req[k.req])
    BY <2>1, QuietRest
  <2> QED  BY <1>2, <1>3, <1>4, <1>6, <2>2, GoOn
<1> QED  BY <1>5, <1>6 DEF Claim

LEMMA LinkOut ==
  ASSUME StageInv, NEW k \in kids, Link(k)
  PROVE  Outcome(k)
<1> DEFINE d == DumpOf[k.req]
<1>1. Setting(k) /\ k.at = "link"
  BY TheSetting DEF Link
<1>2. /\ k.at \in VerifyCalls /\ k.at \in Working
      /\ link[k.req] \in Content /\ disk[d] \in Content
  BY <1>1, RestoreAssumption
     DEF VerifyCalls, Working, Call, Setting, StageInv, WriterInv, TypeOK
<1>3. /\ Fits("claimed", k.row.state) /\ Fits("claim", k.row.state)
      /\ Fits("error", k.row.state)
      /\ \A at \in {"claimed", "claim", "error"} :
           k.req \notin late =>
             Knows(at, k.fresh, k.row, req[k.req], link'[k.req], k.req \in left',
                   volume'[k.req], k.req \in mount', k.req \in aged')
  BY <1>1 DEF Setting, Fits, VerifyCalls, StageCalls, RemoveCalls, WorkStates, Knows,
              Working, Call
<1>4. req' = req
  BY DEF Link
<1>5. CASE /\ link' = [link EXCEPT ![k.req] = disk[d]]
           /\ kids' = (kids \ {k}) \cup {[k EXCEPT !.at = "claimed", !.sum = TRUE]}
  <2> DEFINE n == [k EXCEPT !.at = "claimed", !.sum = TRUE]
  <2>1. /\ n \in Kid /\ n.req = k.req /\ n.at = "claimed" /\ n.row = k.row
        /\ n.fresh = k.fresh
    BY <1>1 DEF Setting, Kid, Call
  <2>2. kids' = (kids \ {k}) \cup {n}
    BY <1>5
  <2> HIDE DEF n, d
  <2>3. UNCHANGED <<disk, left, staging, outside>>
    BY DEF Link
  <2>4. Rest(k, req[k.req])
    BY <1>2, <1>5, <2>3, LinkRest, VerifyStage
  <2> QED  BY <1>2, <1>3, <1>4, <2>1, <2>2, <2>4, WalkOn
<1>6. CASE /\ kids' = (kids \ {k}) \cup
                {IF k.tries = 0 THEN [k EXCEPT !.at = "claim", !.tries = 1]
                 ELSE [k EXCEPT !.at = "error"]}
           /\ UNCHANGED link
  <2> DEFINE n == IF k.tries = 0 THEN [k EXCEPT !.at = "claim", !.tries = 1]
                  ELSE [k EXCEPT !.at = "error"]
  <2>1. /\ n \in Kid /\ n.req = k.req /\ n.at \in {"claim", "error"} /\ n.row = k.row
        /\ n.fresh = k.fresh
    <3>1. CASE k.tries = 0
      <4> DEFINE m == [k EXCEPT !.at = "claim", !.tries = 1]
      <4>1. /\ m \in Kid /\ m.req = k.req /\ m.at = "claim" /\ m.row = k.row
            /\ m.fresh = k.fresh
        <5>1. "claim" \in Call /\ 1 \in 0 .. 1
          BY DEF Call
        <5> QED  BY <1>1, <5>1, KidAtAgain DEF Setting
      <4>2. n = m
        BY <3>1
      <4> HIDE DEF m, n
      <4> QED  BY <4>1, <4>2
    <3>2. CASE k.tries # 0
      <4> DEFINE m == [k EXCEPT !.at = "error"]
      <4>1. /\ m \in Kid /\ m.req = k.req /\ m.at = "error" /\ m.row = k.row
            /\ m.fresh = k.fresh
        BY <1>1 DEF Setting, Kid, Call
      <4>2. n = m
        BY <3>2
      <4> HIDE DEF m, n
      <4> QED  BY <4>1, <4>2
    <3> QED  BY <3>1, <3>2
  <2>2. kids' = (kids \ {k}) \cup {n}
    BY <1>6
  <2> HIDE DEF n, d
  <2>3. UNCHANGED <<files, staging, outside>>
    BY <1>6 DEF Link, files
  <2>4. Rest(k, req[k.req])
    BY <2>3, QuietRest
  <2> QED  BY <1>2, <1>3, <1>4, <2>1, <2>2, <2>4, WalkOn
<1>7. CASE Go(k, "error") /\ UNCHANGED link
  <2>1. UNCHANGED <<files, staging, outside>>
    BY <1>7 DEF Link, files
  <2>2. Rest(k, req[k.req])
    BY <2>1, QuietRest
  <2>3. "error" \in Call
    BY DEF Call
  <2> QED  BY <1>2, <1>3, <1>4, <1>7, <2>2, <2>3, GoOn
<1> QED  BY <1>5, <1>6, <1>7 DEF Link

LEMMA ClaimedOut ==
  ASSUME StageInv, NEW k \in kids, Claimed(k)
  PROVE  Outcome(k)
<1> DEFINE new == [To(k.row, k.row.state) EXCEPT !.tmp = TRUE]
<1>1. Setting(k) /\ k.at = "claimed"
  BY TheSetting DEF Claimed
<1>2. k.row.state = "VERIFY_WORK" /\ k.row.state \in State
  BY <1>1, StateFacts DEF Setting, Fits, VerifyCalls
<1>3. Touch(k, "check", new)
  BY DEF Claimed
<1>4. Fields(new, k.row.state, k.row.last, k.row.errors, TRUE,
             TRUE, k.row.staged, k.row.path, k.row.info)
  BY <1>1, <1>2, ToAndField DEF Setting
<1>5. /\ k.at \in VerifyCalls \cup StageCalls \cup RemoveCalls /\ k.at \in VerifyCalls
      /\ k.at \in Working /\ "check" \in Call
      /\ Fits("check", k.row.state)
      /\ k.row.info \in BOOLEAN
  BY <1>1, <1>2 DEF Setting, Fits, VerifyCalls, StageCalls, RemoveCalls, Working, Call, Row
<1> HIDE DEF new
<1>6. Knows("check", TRUE, new, new, link[k.req], k.req \in left,
            volume[k.req], k.req \in mount, k.req \in aged)
  BY <1>4 DEF Knows, Fields
<1>7. CASE UNCHANGED link
  <2>1. UNCHANGED <<files, staging, outside>>
    BY <1>7 DEF Claimed, files
  <2> QED  BY <1>2, <1>3, <1>4, <1>5, <1>6, <2>1, TouchInState
<1>8. CASE ~ k.fresh /\ link' = [link EXCEPT ![k.req] = "none"]
  <2>1. UNCHANGED <<disk, left, staging, outside>>
    BY DEF Claimed
  <2>2. "none" \in Content
    BY DEF Content
  <2>3. Rest(k, req[k.req])
    BY <1>5, <1>8, <2>1, <2>2, LinkRest
  <2>4. Exit(k) /\ req' = req
    BY <1>3, <1>8 DEF Touch
  <2> QED  BY <2>3, <2>4, ExitOn
<1> QED  BY <1>7, <1>8 DEF Claimed

LEMMA AskForOut ==
  ASSUME StageInv, NEW k \in kids, AskFor(k)
  PROVE  Outcome(k)
<1> DEFINE new == To(k.row, k.row.state)
<1>1. Setting(k) /\ k.at = "absent"
  BY TheSetting DEF AskFor
<1>2. k.row.state = "VERIFY_WORK" /\ k.row.state \in State
  BY <1>1, StateFacts DEF Setting, Fits, VerifyCalls
<1>3. UNCHANGED <<files, staging, outside>>
  BY DEF AskFor
<1>4. Fields(new, k.row.state, k.row.last, k.row.errors, TRUE,
             k.row.tmp, k.row.staged, k.row.path, k.row.info)
  BY <1>1, <1>2, ToFields DEF Setting
<1>5. /\ k.at \in VerifyCalls \cup StageCalls \cup RemoveCalls
      /\ k.at \in Working /\ {"wait", "request"} \subseteq Call
      /\ Fits("wait", k.row.state) /\ Fits("request", k.row.state)
      /\ k.row.info \in BOOLEAN /\ k.row.tmp \in BOOLEAN
  BY <1>1, <1>2 DEF Setting, Fits, VerifyCalls, StageCalls, RemoveCalls, Working, Call, Row
<1>6. CASE Go(k, "wait") /\ req' = req
  <2>1. k.req \notin late =>
          Knows("wait", k.fresh, k.row, req[k.req], link[k.req], k.req \in left,
                volume[k.req], k.req \in mount, k.req \in aged)
    BY <1>1, <1>5 DEF Setting, Knows
  <2> QED  BY <1>3, <1>5, <1>6, <2>1, QuietGo
<1>7. CASE Touch(k, "request", new)
  <2> HIDE DEF new
  <2>1. Knows("request", TRUE, new, new, link[k.req], k.req \in left,
              volume[k.req], k.req \in mount, k.req \in aged)
    BY DEF Knows
  <2> QED  BY <1>2, <1>3, <1>4, <1>5, <1>7, <2>1, TouchInState
<1> QED  BY <1>6, <1>7 DEF AskFor

LEMMA RequestOut ==
  ASSUME StageInv, NEW k \in kids, Request(k)
  PROVE  Outcome(k)
<1> DEFINE new == [To(k.row, k.row.state) EXCEPT !.info = TRUE]
<1>1. Setting(k) /\ k.at = "request"
  BY TheSetting DEF Request
<1>2. k.row.state = "VERIFY_WORK" /\ k.row.state \in State
  BY <1>1, StateFacts DEF Setting, Fits, VerifyCalls
<1>3. UNCHANGED <<files, staging, outside>>
  BY DEF Request
<1>4. Fields(new, k.row.state, k.row.last, k.row.errors, TRUE,
             k.row.tmp, k.row.staged, k.row.path, TRUE)
  BY <1>1, <1>2, ToAndField DEF Setting
<1>5. /\ k.at \in VerifyCalls \cup StageCalls \cup RemoveCalls
      /\ "wait" \in Call /\ Fits("wait", k.row.state) /\ k.row.tmp \in BOOLEAN
  BY <1>1, <1>2 DEF Setting, Fits, VerifyCalls, StageCalls, RemoveCalls, Call, Row
<1>6. CASE Touch(k, "wait", new)
  <2> HIDE DEF new
  <2>1. Knows("wait", TRUE, new, new, link[k.req], k.req \in left,
              volume[k.req], k.req \in mount, k.req \in aged)
    BY DEF Knows
  <2> QED  BY <1>2, <1>3, <1>4, <1>5, <1>6, <2>1, TouchInState
<1>7. CASE Go(k, "error") /\ req' = req
  BY <1>1, <1>3, <1>7, QuietError
<1> QED  BY <1>6, <1>7 DEF Request

LEMMA WaitOut ==
  ASSUME StageInv, NEW k \in kids, Wait(k)
  PROVE  Outcome(k)
<1> DEFINE new == Later(k.row, "VERIFY_START")
<1>1. Setting(k) /\ k.at = "wait" /\ k.row.state = "VERIFY_WORK"
  BY TheSetting DEF Wait, Setting, Fits, VerifyCalls
<1>2. /\ Finish(k, new) /\ UNCHANGED <<files, staging, outside>>
  BY DEF Wait
<1>3. Fields(new, "VERIFY_START", k.row.last, k.row.errors, FALSE,
             k.row.tmp, k.row.staged, k.row.path, k.row.info)
  BY <1>1, StateFacts, ToFields DEF Setting
<1> HIDE DEF new
<1>4. new \in Row /\ DueOk(new)
  BY <1>3 DEF Fields, DueOk
<1>5. k.fresh => LastIsSet(new)
  BY <1>1, <1>3 DEF Setting, Fields, Same, LastIsSet, Failures, RetryStates
<1>6. k.fresh /\ k.req \notin late =>
        InPlace(new, link[k.req], k.req \in left,
                volume[k.req], k.req \in mount, k.req \in aged)
  BY <1>1, <1>3 DEF Setting, Fields, Same, Reached, Failures, RetryStates,
                    InPlace, Absent, Trusted, Staged
<1> QED  BY <1>2, <1>4, <1>5, <1>6, QuietFinish

LEMMA CheckOut ==
  ASSUME StageInv, NEW k \in kids, Check(k)
  PROVE  Outcome(k)
<1> DEFINE new == To(k.row, k.row.state)
<1>1. Setting(k) /\ k.at = "check"
  BY TheSetting DEF Check
<1>2. k.row.state = "VERIFY_WORK" /\ k.row.state \in State
  BY <1>1, StateFacts DEF Setting, Fits, VerifyCalls
<1>3. Touch(k, "sum", new) /\ UNCHANGED <<files, staging, outside>>
  BY DEF Check
<1>4. Fields(new, k.row.state, k.row.last, k.row.errors, TRUE,
             k.row.tmp, k.row.staged, k.row.path, k.row.info)
  BY <1>1, <1>2, ToFields DEF Setting
<1>5. /\ k.at \in VerifyCalls \cup StageCalls \cup RemoveCalls
      /\ k.at \in Working /\ "sum" \in Call
      /\ Fits("sum", k.row.state)
      /\ k.row.info \in BOOLEAN /\ k.row.tmp \in BOOLEAN
  BY <1>1, <1>2 DEF Setting, Fits, VerifyCalls, StageCalls, RemoveCalls, Working, Call, Row
<1> HIDE DEF new
<1>6. k.req \notin late =>
        Knows("sum", TRUE, new, new, link[k.req], k.req \in left,
              volume[k.req], k.req \in mount, k.req \in aged)
  BY <1>1, <1>4, <1>5 DEF Setting, Knows, Fields
<1> QED  BY <1>2, <1>3, <1>4, <1>5, <1>6, TouchInState

LEMMA ChecksumOut ==
  ASSUME StageInv, NEW k \in kids, Checksum(k)
  PROVE  Outcome(k)
<1>1. Setting(k) /\ k.at = "sum"
  BY TheSetting DEF Checksum
<1>2. UNCHANGED <<files, staging, outside>> /\ req' = req
  BY DEF Checksum
<1>3. CASE link[k.req] = "good" /\ Go(k, "verified")
  <2>1. /\ k.at \in Working /\ "verified" \in Call /\ Fits("verified", k.row.state)
    BY <1>1 DEF Setting, Fits, VerifyCalls, StageCalls, RemoveCalls, Working, Call
  <2>2. k.req \notin late =>
          Knows("verified", k.fresh, k.row, req[k.req], link[k.req], k.req \in left,
                volume[k.req], k.req \in mount, k.req \in aged)
    BY <1>1, <1>3, <2>1 DEF Setting, Knows
  <2> QED  BY <1>2, <1>3, <2>1, <2>2, QuietGo
<1>4. CASE Go(k, "error")
  BY <1>1, <1>2, <1>4, QuietError
<1> QED  BY <1>3, <1>4 DEF Checksum

\* The blob is what the row says it is.
LEMMA VerifiedOut ==
  ASSUME StageInv, NEW k \in kids, Verified(k)
  PROVE  Outcome(k)
<1> DEFINE new == To(k.row, "VERIFY_DONE")
<1>1. Setting(k) /\ k.at = "verified" /\ k.row.state = "VERIFY_WORK"
  BY TheSetting DEF Verified, Setting, Fits, VerifyCalls
<1>2. /\ Finish(k, new) /\ UNCHANGED <<files, staging, outside>>
  BY DEF Verified
<1>3. Fields(new, "VERIFY_DONE", k.row.last, k.row.errors, TRUE,
             k.row.tmp, k.row.staged, k.row.path, k.row.info)
  BY <1>1, StateFacts, ToFields DEF Setting
<1> HIDE DEF new
<1>4. new \in Row /\ DueOk(new)
  BY <1>3 DEF Fields, DueOk
<1>5. k.fresh => LastIsSet(new)
  BY <1>1, <1>3 DEF Setting, Fields, Same, LastIsSet, Failures, RetryStates
<1>6. k.fresh /\ k.req \notin late =>
        InPlace(new, link[k.req], k.req \in left,
                volume[k.req], k.req \in mount, k.req \in aged)
  BY <1>1, <1>3 DEF Setting, Fields, Same, Reached, Failures, RetryStates,
                    InPlace, Absent, Trusted, Staged, Knows, Working, Call
<1> QED  BY <1>2, <1>4, <1>5, <1>6, QuietFinish

-----------------------------------------------------------------------------
(***************************************************************************)
(* Staging.                                                                *)
(***************************************************************************)

\* A change of the volume only.
LEMMA VolumeRest ==
  ASSUME StageInv, NEW k \in kids, k.at \in Working, NEW c \in Content \cup {"part"},
         volume' = [volume EXCEPT ![k.req] = c],
         UNCHANGED <<files, mount, aged, outside>>,
         k.req \notin late =>
           \/ c = "none" /\ k.req \in aged
           \/ /\ ~ req[k.req].staged /\ ~ req[k.req].path
              /\ Reached(req[k.req]) \notin Staged
  PROVE  Rest(k, req[k.req]) /\ volume'[k.req] = c /\ UNCHANGED <<link, left, mount, aged>>
<1>1. UNCHANGED <<link, left, mount, aged, late>>
  BY DEF files, outside
<1>2. volume'[k.req] = c /\ \A q \in Req \ {k.req} : volume'[q] = volume[q]
  BY TheSetting DEF Setting, StageInv, WriterInv, TypeOK
<1>3. k.req \notin late =>
        InPlace(req[k.req], link[k.req], k.req \in left,
                c, k.req \in mount, k.req \in aged)
  BY TheSetting DEF Setting, InPlace
<1> QED  BY <1>1, <1>2, <1>3 DEF Rest, Elsewhere

\* A change of the mount point only.
LEMMA MountRest ==
  ASSUME StageInv, NEW k \in kids, k.at \in Working,
         mount' \in {mount, mount \cup {k.req}, mount \ {k.req}},
         UNCHANGED <<files, volume, aged, outside>>,
         k.req \notin late =>
           \/ k.req \in aged /\ mount' # mount \cup {k.req}
           \/ ~ req[k.req].path /\ Reached(req[k.req]) \notin Staged
  PROVE  Rest(k, req[k.req]) /\ UNCHANGED <<link, left, volume, aged>>
<1>1. UNCHANGED <<link, left, volume, aged, late>>
  BY DEF files, outside
<1>2. \A q \in Req \ {k.req} : q \in mount' <=> q \in mount
  OBVIOUS
<1>3. ASSUME k.req \notin late
      PROVE  InPlace(req[k.req], link[k.req], k.req \in left,
                     volume[k.req], k.req \in mount', k.req \in aged)
  <2>1. InPlace(req[k.req], link[k.req], k.req \in left,
                volume[k.req], k.req \in mount, k.req \in aged)
    BY <1>3, TheSetting DEF Setting
  <2>2. CASE k.req \in mount' <=> k.req \in mount
    BY <2>1, <2>2 DEF InPlace
  <2>3. CASE ~ req[k.req].path /\ Reached(req[k.req]) \notin Staged
    BY <2>1, <2>3 DEF InPlace
  <2>4. CASE k.req \in aged /\ k.req \notin mount'
    BY <2>1, <2>4 DEF InPlace
  <2> QED  BY <1>3, <2>2, <2>3, <2>4
<1> QED  BY <1>1, <1>2, <1>3 DEF Rest, Elsewhere

\* The request of a child that restores has not been told of a stage path.
LEMMA StageStage ==
  ASSUME StageInv, NEW k \in kids, k.at \in StageCalls, k.req \notin late
  PROVE  LET x == req[k.req]
         IN  /\ ~ x.path /\ Reached(x) \notin Staged
             /\ \/ x.state = "DELETED" /\ ~ x.staged /\ ~ k.fresh
                \/ Reached(x) = "RESTORE_WORK" /\ (x.staged <=> k.row.staged)
<1> DEFINE x == req[k.req]
<1>1. Setting(k) /\ k.row.state = "RESTORE_WORK"
  BY TheSetting DEF Setting, Fits
<1>2. k.at \in Working
  BY DEF StageCalls, Working, Call
<1>3. /\ Knows(k.at, k.fresh, k.row, x, link[k.req], k.req \in left,
               volume[k.req], k.req \in mount, k.req \in aged)
      /\ InPlace(x, link[k.req], k.req \in left,
                 volume[k.req], k.req \in mount, k.req \in aged)
      /\ k.fresh => Same(k.row, x)
  BY <1>1 DEF Setting
<1> HIDE DEF x
<1>4. \/ x.state = "DELETED" /\ ~ k.fresh
      \/ Reached(x) = "RESTORE_WORK" /\ (x.staged <=> k.row.staged)
  BY <1>1, <1>2, <1>3 DEF Knows, TakenAway, Same, Reached, Failures, RetryStates
<1>5. x.state = "DELETED" => ~ x.staged /\ Reached(x) = "DELETED"
  BY <1>3 DEF InPlace, Absent, Reached, Failures, RetryStates
<1>6. ~ x.path /\ Reached(x) \notin Staged
  BY <1>3, <1>4, <1>5 DEF InPlace, Staged
<1> QED  BY <1>4, <1>5, <1>6 DEF x

LEMMA StartOut ==
  ASSUME StageInv, NEW k \in kids, Start(k)
  PROVE  Outcome(k)
<1>1. Setting(k) /\ k.at = "restore"
  BY TheSetting DEF Start
<1>2. UNCHANGED <<files, staging, outside>> /\ req' = req
  BY DEF Start
<1>3. /\ k.at \in Working /\ {"unlink", "restoring"} \subseteq Call
      /\ Fits("unlink", k.row.state) /\ Fits("restoring", k.row.state)
  BY <1>1 DEF Setting, Fits, VerifyCalls, StageCalls, RemoveCalls, Working, Call
<1>4. CASE k.row.staged /\ Go(k, "unlink")
  <2>1. k.req \notin late =>
          Knows("unlink", k.fresh, k.row, req[k.req], link[k.req], k.req \in left,
                volume[k.req], k.req \in mount, k.req \in aged)
    BY <1>1, <1>3, <1>4 DEF Setting, Knows
  <2> QED  BY <1>2, <1>3, <1>4, <2>1, QuietGo
<1>5. CASE ~ k.row.staged /\ Go(k, "restoring")
  <2>1. k.req \notin late =>
          Knows("restoring", k.fresh, k.row, req[k.req], link[k.req], k.req \in left,
                volume[k.req], k.req \in mount, k.req \in aged)
    BY <1>1, <1>3, <1>5 DEF Setting, Knows
  <2> QED  BY <1>2, <1>3, <1>5, <2>1, QuietGo
<1>6. CASE Go(k, "error")
  BY <1>1, <1>2, <1>6, QuietError
<1> QED  BY <1>4, <1>5, <1>6 DEF Start

LEMMA RestoringOut ==
  ASSUME StageInv, NEW k \in kids, Restoring(k)
  PROVE  Outcome(k)
<1>1. Setting(k) /\ k.at = "restoring"
  BY TheSetting DEF Restoring
<1>2. UNCHANGED <<files, mount, aged, outside>> /\ req' = req
  BY DEF Restoring
<1>3. /\ k.at \in Working /\ k.at \in StageCalls
      /\ {"restored", "undo"} \subseteq Call
      /\ Fits("restored", k.row.state) /\ Fits("undo", k.row.state)
  BY <1>1 DEF Setting, Fits, VerifyCalls, StageCalls, RemoveCalls, Working, Call
<1>4. k.req \notin late => ~ k.row.staged
  BY <1>1, <1>3 DEF Setting, Knows
<1>5. k.req \notin late => /\ ~ req[k.req].staged /\ ~ req[k.req].path
                           /\ Reached(req[k.req]) \notin Staged
  BY <1>3, <1>4, StageStage
<1>6. link[k.req] \in Content /\ volume \in [Req -> Content \cup {"part"}]
  BY <1>1 DEF Setting, StageInv, WriterInv, TypeOK
<1>7. CASE /\ link[k.req] # "none"
           /\ volume' = [volume EXCEPT ![k.req] = link[k.req]]
           /\ Go(k, "restored")
  <2>1. /\ Rest(k, req[k.req]) /\ volume'[k.req] = link[k.req]
        /\ UNCHANGED <<link, left, mount, aged>>
    BY <1>2, <1>3, <1>5, <1>6, <1>7, VolumeRest
  <2>2. k.fresh /\ k.req \notin late => volume'[k.req] = "good"
    <3>1. k.fresh /\ k.req \notin late => Reached(req[k.req]) \in Trusted
      BY <1>3, StageStage DEF Trusted
    <3> QED  BY <1>1, <1>7, <2>1, <3>1 DEF Setting, InPlace
  <2>3. k.req \notin late =>
          Knows("restored", k.fresh, k.row, req[k.req], link'[k.req], k.req \in left',
                volume'[k.req], k.req \in mount', k.req \in aged')
    BY <1>1, <1>3, <2>2 DEF Setting, Knows
  <2> QED  BY <1>2, <1>3, <1>7, <2>1, <2>3, GoOn
<1>8. CASE /\ volume' \in {volume, [volume EXCEPT ![k.req] = "part"]}
           /\ Go(k, "undo")
  <2>1. PICK c \in Content \cup {"part"} : volume' = [volume EXCEPT ![k.req] = c]
    <3>1. volume = [volume EXCEPT ![k.req] = volume[k.req]]
      BY <1>6
    <3>2. volume[k.req] \in Content \cup {"part"}
      BY <1>1, <1>6 DEF Setting
    <3> QED  BY <1>8, <3>1, <3>2
  <2>2. Rest(k, req[k.req])
    BY <1>2, <1>3, <1>5, <2>1, VolumeRest
  <2>3. k.req \notin late =>
          Knows("undo", k.fresh, k.row, req[k.req], link'[k.req], k.req \in left',
                volume'[k.req], k.req \in mount', k.req \in aged')
    BY <1>1, <1>3 DEF Setting, Knows
  <2> QED  BY <1>2, <1>3, <1>8, <2>2, <2>3, GoOn
<1> QED  BY <1>7, <1>8 DEF Restoring

LEMMA RestoredOut ==
  ASSUME StageInv, NEW k \in kids, Restored(k)
  PROVE  Outcome(k)
<1> DEFINE new == [To(k.row, k.row.state) EXCEPT !.staged = TRUE]
<1>1. Setting(k) /\ k.at = "restored" /\ k.row.state = "RESTORE_WORK"
  BY TheSetting DEF Restored, Setting, Fits, StageCalls
<1>2. UNCHANGED <<files, staging, outside>>
  BY DEF Restored
<1>3. /\ k.at \in Working /\ k.at \in StageCalls
      /\ {"unlink", "undo"} \subseteq Call
      /\ Fits("unlink", k.row.state) /\ Fits("undo", k.row.state)
  BY <1>1 DEF Setting, Fits, VerifyCalls, StageCalls, RemoveCalls, Working, Call
<1>4. CASE k.fresh /\ Touch(k, "unlink", new)
  <2>1. Fields(new, k.row.state, k.row.last, k.row.errors, TRUE,
               k.row.tmp, TRUE, k.row.path, k.row.info)
    BY <1>1, StateFacts, ToAndField DEF Setting
  <2> HIDE DEF new
  <2>2. new \in Row /\ DueOk(new) /\ Fits("unlink", new.state)
    BY <1>3, <2>1 DEF Fields, DueOk
  <2>3. LastIsSet(new)
    BY <1>1, <1>4, <2>1 DEF Setting, Fields, Same, LastIsSet, Failures, RetryStates
  <2>4. k.req \notin late =>
          InPlace(new, link[k.req], k.req \in left,
                  volume[k.req], k.req \in mount, k.req \in aged)
    BY <1>1, <1>3, <1>4, <2>1 DEF Setting, Fields, Same, Reached, Failures, RetryStates,
                      InPlace, Absent, Trusted, Staged, Knows
  <2>5. Knows("unlink", TRUE, new, new, link[k.req], k.req \in left,
              volume[k.req], k.req \in mount, k.req \in aged)
    BY <2>1 DEF Fields, Knows
  <2> QED  BY <1>2, <1>3, <1>4, <2>2, <2>3, <2>4, <2>5, QuietTouch
<1>5. CASE ~ k.fresh /\ Go(k, "undo") /\ req' = req
  <2>1. k.req \notin late =>
          Knows("undo", k.fresh, k.row, req[k.req], link[k.req], k.req \in left,
                volume[k.req], k.req \in mount, k.req \in aged)
    BY <1>1, <1>3 DEF Setting, Knows
  <2> QED  BY <1>2, <1>3, <1>5, <2>1, QuietGo
<1> QED  BY <1>4, <1>5 DEF Restored

LEMMA UndoOut ==
  ASSUME StageInv, NEW k \in kids, Undo(k)
  PROVE  Outcome(k)
<1>1. Setting(k) /\ k.at = "undo" /\ k.row.state = "RESTORE_WORK"
  BY TheSetting DEF Undo, Setting, Fits, StageCalls
<1>2. /\ UNCHANGED <<files, mount, aged, outside>> /\ req' = req
      /\ Go(k, "error")
  BY DEF Undo
<1>3. /\ k.at \in Working /\ k.at \in StageCalls
      /\ "error" \in Call /\ "error" \notin Working
      /\ Fits("error", k.row.state)
  BY <1>1 DEF Setting, Fits, VerifyCalls, StageCalls, RemoveCalls, Working, Call, WorkStates
<1>4. k.req \notin late => /\ ~ req[k.req].staged /\ ~ req[k.req].path
                           /\ Reached(req[k.req]) \notin Staged
  BY <1>1, <1>3, StageStage DEF Setting, Knows
<1>5. PICK c \in Content \cup {"part"} : volume' = [volume EXCEPT ![k.req] = c]
  <2>1. volume \in [Req -> Content \cup {"part"}] /\ "none" \in Content
    BY DEF StageInv, WriterInv, TypeOK, Content
  <2>2. volume = [volume EXCEPT ![k.req] = volume[k.req]]
    BY <2>1
  <2>3. volume[k.req] \in Content \cup {"part"}
    BY <1>1, <2>1 DEF Setting
  <2> QED  BY <2>1, <2>2, <2>3 DEF Undo
<1>6. Rest(k, req[k.req])
  BY <1>2, <1>3, <1>4, <1>5, VolumeRest
<1> QED  BY <1>2, <1>3, <1>6, GoOn DEF Knows

LEMMA UnlinkOut ==
  ASSUME StageInv, NEW k \in kids, Unlink(k)
  PROVE  Outcome(k)
<1>1. Setting(k) /\ k.at = "unlink"
  BY TheSetting DEF Unlink
<1>2. /\ Go(k, "unlinked") /\ req' = req /\ UNCHANGED <<volume, mount, aged, late>>
  BY DEF Unlink, staging, outside
<1>3. /\ k.at \in Working /\ k.at \in StageCalls /\ "unlinked" \in Call
      /\ Fits("unlinked", k.row.state)
  BY <1>1 DEF Setting, Fits, VerifyCalls, StageCalls, RemoveCalls, Working, Call
<1>4. link \in [Req -> Content] /\ k.req \in Req
  BY <1>1 DEF Setting, StageInv, WriterInv, TypeOK
<1>5. \A q \in Req \ {k.req} : link'[q] = link[q] /\ (q \in left' <=> q \in left)
  BY <1>4 DEF Unlink
<1>6. \/ link'[k.req] = "none"
      \/ k.req \in left' /\ link'[k.req] = link[k.req]
      \/ ~ k.row.tmp /\ link'[k.req] = link[k.req] /\ (k.req \in left' <=> k.req \in left)
  BY <1>4 DEF Unlink
<1>7. k.req \notin late =>
        InPlace(req[k.req], link'[k.req], k.req \in left', volume[k.req],
                k.req \in mount, k.req \in aged)
  BY <1>1, <1>6 DEF Setting, InPlace
<1>8. k.fresh /\ k.req \notin late => link'[k.req] = "none" \/ k.req \in left'
  <2>1. k.fresh /\ k.req \notin late => Reached(req[k.req]) \in Trusted
    BY <1>3, StageStage DEF Trusted
  <2> QED  BY <1>1, <1>6, <2>1 DEF Setting, InPlace, Same
<1>9. Rest(k, req[k.req])
  BY <1>2, <1>3, <1>5, <1>7 DEF Rest, Elsewhere
<1>10. k.req \notin late =>
         Knows("unlinked", k.fresh, k.row, req[k.req], link'[k.req], k.req \in left',
               volume'[k.req], k.req \in mount', k.req \in aged')
  BY <1>1, <1>3, <1>8 DEF Setting, Knows
<1> QED  BY <1>2, <1>3, <1>9, <1>10, GoOn

LEMMA UnlinkedOut ==
  ASSUME StageInv, NEW k \in kids, Unlinked(k)
  PROVE  Outcome(k)
<1> DEFINE new == [To(k.row, k.row.state) EXCEPT !.tmp = FALSE]
<1>1. Setting(k) /\ k.at = "unlinked" /\ k.row.state = "RESTORE_WORK"
  BY TheSetting DEF Unlinked, Setting, Fits, StageCalls
<1>2. Touch(k, "mount", new) /\ UNCHANGED <<files, staging, outside>>
  BY DEF Unlinked
<1>3. /\ k.at \in VerifyCalls \cup StageCalls \cup RemoveCalls /\ k.at \in Working
      /\ "mount" \in Call /\ Fits("mount", k.row.state) /\ k.row.info \in BOOLEAN
  BY <1>1 DEF Setting, Fits, VerifyCalls, StageCalls, RemoveCalls, Working, Call, Row
<1>4. Fields(new, k.row.state, k.row.last, k.row.errors, TRUE,
             FALSE, k.row.staged, k.row.path, k.row.info)
  BY <1>1, StateFacts, ToAndField DEF Setting
<1> HIDE DEF new
<1>5. k.fresh /\ k.req \notin late =>
        (link[k.req] = "none" \/ k.req \in left) /\ k.row.staged
  BY <1>1, <1>3 DEF Setting, Knows
<1>6. k.fresh /\ k.req \notin late =>
        Knows("mount", TRUE, new, new, link[k.req], k.req \in left,
              volume[k.req], k.req \in mount, k.req \in aged)
  BY <1>4, <1>5 DEF Knows, Fields
<1> QED  BY <1>2, <1>3, <1>4, <1>5, <1>6, TouchInState

LEMMA MountOut ==
  ASSUME StageInv, NEW k \in kids, Mount(k)
  PROVE  Outcome(k)
<1>1. Setting(k) /\ k.at = "mount"
  BY TheSetting DEF Mount
<1>2. UNCHANGED <<files, volume, aged, outside>> /\ req' = req
  BY DEF Mount
<1>3. /\ k.at \in Working /\ k.at \in StageCalls
      /\ {"mounted", "error"} \subseteq Call /\ "error" \notin Working
      /\ Fits("mounted", k.row.state) /\ Fits("error", k.row.state)
  BY <1>1 DEF Setting, Fits, VerifyCalls, StageCalls, RemoveCalls, Working, Call, WorkStates
<1>4. k.req \notin late => ~ req[k.req].path /\ Reached(req[k.req]) \notin Staged
  BY <1>3, StageStage
<1>5. mount' \in {mount, mount \cup {k.req}, mount \ {k.req}}
  BY DEF Mount
<1>6. Rest(k, req[k.req]) /\ UNCHANGED <<link, left, volume, aged>>
  BY <1>2, <1>3, <1>4, <1>5, MountRest
<1>7. CASE mount' = mount \cup {k.req} /\ Go(k, "mounted")
  <2>1. k.req \notin late =>
          Knows("mounted", k.fresh, k.row, req[k.req], link'[k.req], k.req \in left',
                volume'[k.req], k.req \in mount', k.req \in aged')
    BY <1>1, <1>3, <1>6, <1>7 DEF Setting, Knows
  <2> QED  BY <1>2, <1>3, <1>6, <1>7, <2>1, GoOn
<1>8. CASE Go(k, "error")
  BY <1>2, <1>3, <1>6, <1>8, GoOn DEF Knows
<1> QED  BY <1>7, <1>8 DEF Mount

\* The user is told.
LEMMA MountedOut ==
  ASSUME StageInv, NEW k \in kids, Mounted(k)
  PROVE  Outcome(k)
<1> DEFINE new == [To(k.row, "RESTORE_DONE") EXCEPT !.path = TRUE]
<1>1. Setting(k) /\ k.at = "mounted" /\ k.row.state = "RESTORE_WORK"
  BY TheSetting DEF Mounted, Setting, Fits, StageCalls
<1>2. /\ Touch(k, "notify", new) /\ UNCHANGED <<files, volume, mount, outside>>
      /\ aged' = IF k.fresh THEN aged \ {k.req} ELSE aged
  BY DEF Mounted
<1>3. /\ k.at \in Working /\ k.at \in StageCalls
      /\ "notify" \in Call /\ "notify" \notin Working
      /\ Fits("notify", "RESTORE_DONE")
  BY <1>1 DEF Fits, VerifyCalls, StageCalls, RemoveCalls, Working, Call
<1>4. Fields(new, "RESTORE_DONE", k.row.last, k.row.errors, TRUE,
             k.row.tmp, k.row.staged, TRUE, k.row.info)
  BY <1>1, StateFacts, ToAndField DEF Setting
<1> HIDE DEF new
<1>5. new \in Row /\ DueOk(new) /\ Fits("notify", new.state)
  BY <1>3, <1>4 DEF Fields, DueOk
<1>6. k.fresh => LastIsSet(new)
  BY <1>1, <1>4 DEF Setting, Fields, Same, LastIsSet, Failures, RetryStates
<1>7. UNCHANGED <<link, left, late>>
  BY <1>2 DEF files, outside
<1>8. Elsewhere(k.req)
  BY <1>2, <1>7 DEF Elsewhere
<1>9. ASSUME k.fresh PROVE Rest(k, new)
  <2>1. k.req \notin late =>
          InPlace(new, link[k.req], k.req \in left,
                  volume[k.req], k.req \in mount, FALSE)
    BY <1>1, <1>3, <1>4, <1>9
       DEF Setting, Fields, Same, Reached, Failures, RetryStates,
           InPlace, Absent, Trusted, Staged, Knows
  <2>2. k.req \notin aged'
    BY <1>2, <1>9
  <2> QED  BY <1>2, <1>3, <1>7, <1>8, <2>1, <2>2 DEF Rest, InPlace
<1>10. ASSUME ~ k.fresh PROVE Rest(k, req[k.req])
  BY <1>1, <1>2, <1>3, <1>7, <1>8, <1>10 DEF Rest, Setting
<1> QED  BY <1>2, <1>3, <1>5, <1>6, <1>9, <1>10, TouchOn DEF Knows

LEMMA NotifyOut ==
  ASSUME StageInv, NEW k \in kids, Notify(k)
  PROVE  Outcome(k)
<1>1. k.at = "notify" /\ UNCHANGED <<files, staging, outside>> /\ req' = req
  BY DEF Notify
<1>2. CASE Exit(k)
  BY <1>1, <1>2, QuietRest, ExitOn
<1>3. CASE Go(k, "error")
  BY <1>1, <1>3, QuietError
<1> QED  BY <1>2, <1>3 DEF Notify

-----------------------------------------------------------------------------
(***************************************************************************)
(* Removal.                                                                *)
(***************************************************************************)

LEMMA RemoveOut ==
  ASSUME StageInv, NEW k \in kids, Remove(k)
  PROVE  Outcome(k)
<1> DEFINE new == Later(k.row, "REMOVE_START")
           same == To(k.row, k.row.state)
<1>1. Setting(k) /\ k.at = "remove" /\ k.row.state = "REMOVE_WORK"
  BY TheSetting DEF Remove, Setting, Fits, RemoveCalls
<1>2. UNCHANGED <<files, staging, outside>>
  BY DEF Remove
<1>3. /\ k.at \in VerifyCalls \cup StageCalls \cup RemoveCalls /\ k.at \in Working
      /\ {"rmvol", "path"} \subseteq Call
      /\ Fits("rmvol", k.row.state) /\ Fits("path", k.row.state)
      /\ k.row.info \in BOOLEAN /\ k.row.tmp \in BOOLEAN
  BY <1>1 DEF Setting, Fits, VerifyCalls, StageCalls, RemoveCalls, Working, Call, Row
<1>4. CASE Finish(k, new)
  <2>1. Fields(new, "REMOVE_START", k.row.last, k.row.errors, FALSE,
               k.row.tmp, k.row.staged, k.row.path, k.row.info)
    BY <1>1, StateFacts, ToFields DEF Setting
  <2> HIDE DEF new
  <2>2. new \in Row /\ DueOk(new)
    BY <2>1 DEF Fields, DueOk
  <2>3. k.fresh => LastIsSet(new)
    BY <1>1, <2>1 DEF Setting, Fields, Same, LastIsSet, Failures, RetryStates
  <2>4. k.fresh /\ k.req \notin late =>
          InPlace(new, link[k.req], k.req \in left,
                  volume[k.req], k.req \in mount, k.req \in aged)
    BY <1>1, <2>1 DEF Setting, Fields, Same, Reached, Failures, RetryStates,
                      InPlace, Absent, Trusted, Staged
  <2> QED  BY <1>2, <1>4, <2>2, <2>3, <2>4, QuietFinish
<1>5. CASE k.req \in aged /\ Touch(k, "rmvol", same)
  <2>1. Fields(same, k.row.state, k.row.last, k.row.errors, TRUE,
               k.row.tmp, k.row.staged, k.row.path, k.row.info)
    BY <1>1, StateFacts, ToFields DEF Setting
  <2> HIDE DEF same
  <2>2. Knows("rmvol", TRUE, same, same, link[k.req], k.req \in left,
              volume[k.req], k.req \in mount, k.req \in aged)
    BY <1>5 DEF Knows
  <2> QED  BY <1>1, <1>2, <1>3, <1>5, <2>1, <2>2, TouchInState
<1>6. CASE k.req \in aged /\ Go(k, "path") /\ req' = req
  <2>1. k.req \notin late =>
          Knows("path", k.fresh, k.row, req[k.req], link[k.req], k.req \in left,
                volume[k.req], k.req \in mount, k.req \in aged)
    BY <1>1, <1>3, <1>6 DEF Setting, Knows
  <2> QED  BY <1>2, <1>3, <1>6, <2>1, QuietGo
<1>7. CASE Go(k, "error") /\ req' = req
  BY <1>1, <1>2, <1>7, QuietError
<1> QED  BY <1>4, <1>5, <1>6, <1>7 DEF Remove

LEMMA RemoveVolumeOut ==
  ASSUME StageInv, NEW k \in kids, RemoveVolume(k)
  PROVE  Outcome(k)
<1>1. Setting(k) /\ k.at = "rmvol"
  BY TheSetting DEF RemoveVolume
<1>2. UNCHANGED <<files, mount, aged, outside>> /\ req' = req
  BY DEF RemoveVolume
<1>3. /\ k.at \in Working /\ {"path", "error"} \subseteq Call /\ "error" \notin Working
      /\ Fits("path", k.row.state) /\ Fits("error", k.row.state)
  BY <1>1 DEF Setting, Fits, VerifyCalls, StageCalls, RemoveCalls, Working, Call, WorkStates
<1>4. k.req \notin late => k.req \in aged
  BY <1>1, <1>3 DEF Setting, Knows
<1>5. CASE volume' = [volume EXCEPT ![k.req] = "none"]
  <2>1. "none" \in Content \cup {"part"}
    BY DEF Content
  <2>2. Rest(k, req[k.req])
    BY <1>2, <1>3, <1>4, <1>5, <2>1, VolumeRest
  <2>3. CASE Go(k, "path")
    <3>1. k.req \notin late =>
            Knows("path", k.fresh, k.row, req[k.req], link'[k.req], k.req \in left',
                  volume'[k.req], k.req \in mount', k.req \in aged')
      BY <1>1, <1>2, <1>3, <1>4 DEF Setting, Knows
    <3> QED  BY <1>2, <1>3, <2>2, <2>3, <3>1, GoOn
  <2>4. CASE Go(k, "error")
    BY <1>2, <1>3, <2>2, <2>4, GoOn DEF Knows
  <2> QED  BY <1>5, <2>3, <2>4 DEF RemoveVolume, Go
<1>6. CASE volume' = volume /\ Go(k, "error")
  <2>1. UNCHANGED <<files, staging, outside>>
    BY <1>2, <1>6 DEF staging
  <2> QED  BY <1>1, <1>2, <1>6, <2>1, QuietError
<1> QED  BY <1>5, <1>6 DEF RemoveVolume

LEMMA LookForMountOut ==
  ASSUME StageInv, NEW k \in kids, LookForMount(k)
  PROVE  Outcome(k)
<1> DEFINE same == To(k.row, k.row.state)
<1>1. Setting(k) /\ k.at = "path" /\ k.row.state = "REMOVE_WORK"
  BY TheSetting DEF LookForMount, Setting, Fits, RemoveCalls
<1>2. UNCHANGED <<files, staging, outside>>
  BY DEF LookForMount
<1>3. /\ k.at \in VerifyCalls \cup StageCalls \cup RemoveCalls /\ k.at \in Working
      /\ {"rmmount", "gone"} \subseteq Call
      /\ Fits("rmmount", k.row.state) /\ Fits("gone", k.row.state)
      /\ k.row.info \in BOOLEAN /\ k.row.tmp \in BOOLEAN
  BY <1>1 DEF Setting, Fits, VerifyCalls, StageCalls, RemoveCalls, Working, Call, Row
<1>4. k.req \notin late => k.req \in aged
  BY <1>1, <1>3 DEF Setting, Knows
<1>5. CASE Touch(k, "rmmount", same)
  <2>1. Fields(same, k.row.state, k.row.last, k.row.errors, TRUE,
               k.row.tmp, k.row.staged, k.row.path, k.row.info)
    BY <1>1, StateFacts, ToFields DEF Setting
  <2> HIDE DEF same
  <2>2. k.req \notin late =>
          Knows("rmmount", TRUE, same, same, link[k.req], k.req \in left,
                volume[k.req], k.req \in mount, k.req \in aged)
    BY <1>4 DEF Knows
  <2> QED  BY <1>1, <1>2, <1>3, <1>5, <2>1, <2>2, TouchInState
<1>6. CASE Go(k, "gone") /\ req' = req
  <2>1. k.req \notin late =>
          Knows("gone", k.fresh, k.row, req[k.req], link[k.req], k.req \in left,
                volume[k.req], k.req \in mount, k.req \in aged)
    BY <1>1, <1>3, <1>4 DEF Setting, Knows
  <2> QED  BY <1>2, <1>3, <1>6, <2>1, QuietGo
<1>7. CASE Go(k, "error") /\ req' = req
  BY <1>1, <1>2, <1>7, QuietError
<1> QED  BY <1>5, <1>6, <1>7 DEF LookForMount

LEMMA RemoveMountOut ==
  ASSUME StageInv, NEW k \in kids, RemoveMount(k)
  PROVE  Outcome(k)
<1>1. Setting(k) /\ k.at = "rmmount"
  BY TheSetting DEF RemoveMount
<1>2. UNCHANGED <<files, volume, aged, outside>> /\ req' = req
  BY DEF RemoveMount
<1>3. /\ k.at \in Working /\ {"gone", "error"} \subseteq Call /\ "error" \notin Working
      /\ Fits("gone", k.row.state) /\ Fits("error", k.row.state)
  BY <1>1 DEF Setting, Fits, VerifyCalls, StageCalls, RemoveCalls, Working, Call, WorkStates
<1>4. k.req \notin late => k.req \in aged
  BY <1>1, <1>3 DEF Setting, Knows
<1>5. CASE mount' = mount \ {k.req}
  <2>1. Rest(k, req[k.req])
    BY <1>2, <1>3, <1>4, <1>5, MountRest
  <2>2. CASE Go(k, "gone")
    <3>1. k.req \notin late =>
            Knows("gone", k.fresh, k.row, req[k.req], link'[k.req], k.req \in left',
                  volume'[k.req], k.req \in mount', k.req \in aged')
      BY <1>1, <1>2, <1>3, <1>4 DEF Setting, Knows
    <3> QED  BY <1>2, <1>3, <2>1, <2>2, <3>1, GoOn
  <2>3. CASE Go(k, "error")
    BY <1>2, <1>3, <2>1, <2>3, GoOn DEF Knows
  <2> QED  BY <2>2, <2>3 DEF RemoveMount
<1>6. CASE mount' = mount /\ Go(k, "error")
  <2>1. UNCHANGED <<files, staging, outside>>
    BY <1>2, <1>6 DEF staging
  <2> QED  BY <1>1, <1>2, <1>6, <2>1, QuietError
<1> QED  BY <1>5, <1>6 DEF RemoveMount

LEMMA GoneOut ==
  ASSUME StageInv, NEW k \in kids, Gone(k)
  PROVE  Outcome(k)
<1> DEFINE y == To(k.row, k.row.state)
           v == k.row.staged /\ volume[k.req] # "none"
           p == k.row.path /\ k.req \in mount
           z == [y EXCEPT !.staged = v]
           new == [y EXCEPT !.staged = @ /\ volume[k.req] # "none",
                            !.path = @ /\ k.req \in mount]
<1>1. Setting(k) /\ k.at = "gone" /\ k.row.state = "REMOVE_WORK"
  BY TheSetting DEF Gone, Setting, Fits, RemoveCalls
<1>2. UNCHANGED <<files, staging, outside>>
  BY DEF Gone
<1>3. /\ k.at \in Working /\ "removed" \in Call /\ Fits("removed", k.row.state)
  BY <1>1 DEF Setting, Fits, VerifyCalls, StageCalls, RemoveCalls, Working, Call
<1>4. k.req \notin late => k.req \in aged
  BY <1>1, <1>3 DEF Setting, Knows
<1>5. CASE Touch(k, "removed", new)
  <2>1. /\ k.row.staged \in BOOLEAN /\ k.row.path \in BOOLEAN
        /\ v \in BOOLEAN /\ p \in BOOLEAN
    BY <1>1 DEF Setting, Row
  <2>2. Fields(y, k.row.state, k.row.last, k.row.errors, TRUE,
               k.row.tmp, k.row.staged, k.row.path, k.row.info)
    BY <1>1, StateFacts, ToFields DEF Setting
  <2>3. new = [z EXCEPT !.path = p]
    <3> HIDE DEF y
    <3>1. y \in Row /\ y.staged = k.row.staged /\ y.path = k.row.path
      BY <2>2 DEF Fields
    <3> QED  BY <3>1 DEF Row
  <2>4. (v <=> k.row.staged /\ volume[k.req] # "none") /\ (p <=> k.row.path /\ k.req \in mount)
    OBVIOUS
  <2> HIDE DEF new, y, v, p
  <2>5. Fields(z, k.row.state, k.row.last, k.row.errors, TRUE,
               k.row.tmp, v, k.row.path, k.row.info)
    <3>1. y \in Row
      BY <2>2 DEF Fields
    <3>2. Fields(z, y.state, y.last, y.errors, y.due, y.tmp, v, y.path, y.info)
      BY <2>1, <3>1, OneField
    <3> QED  BY <2>2, <3>2 DEF Fields
  <2> HIDE DEF z
  <2>6. Fields(new, k.row.state, k.row.last, k.row.errors, TRUE,
               k.row.tmp, v, p, k.row.info)
    <3>1. z \in Row
      BY <2>5 DEF Fields
    <3>2. Fields([z EXCEPT !.path = p], z.state, z.last, z.errors, z.due,
                 z.tmp, z.staged, p, z.info)
      BY <2>1, <3>1, OneField
    <3> QED  BY <2>3, <2>5, <3>2 DEF Fields
  <2>7. new \in Row /\ DueOk(new) /\ Fits("removed", new.state)
    BY <1>3, <2>6 DEF Fields, DueOk
  <2>8. k.fresh => LastIsSet(new)
    BY <1>1, <2>6 DEF Setting, Fields, Same, LastIsSet, Failures, RetryStates
  <2>9. k.fresh /\ k.req \notin late =>
          InPlace(new, link[k.req], k.req \in left,
                  volume[k.req], k.req \in mount, k.req \in aged)
    BY <1>1, <1>4, <2>4, <2>6
       DEF Setting, Fields, Same, Reached, Failures, RetryStates,
           InPlace, Absent, Trusted, Staged
  <2>10. k.req \notin late =>
           Knows("removed", TRUE, new, new, link[k.req], k.req \in left,
                 volume[k.req], k.req \in mount, k.req \in aged)
    BY <1>4 DEF Knows
  <2> QED  BY <1>2, <1>3, <1>5, <2>7, <2>8, <2>9, <2>10, QuietTouch
<1>6. CASE Go(k, "removed") /\ req' = req
  <2>1. k.req \notin late =>
          Knows("removed", k.fresh, k.row, req[k.req], link[k.req], k.req \in left,
                volume[k.req], k.req \in mount, k.req \in aged)
    BY <1>1, <1>3, <1>4 DEF Setting, Knows
  <2> QED  BY <1>2, <1>3, <1>6, <2>1, QuietGo
<1>7. CASE Go(k, "error") /\ req' = req
  BY <1>1, <1>2, <1>7, QuietError
<1> QED  BY <1>5, <1>6, <1>7 DEF Gone

LEMMA RemovedOut ==
  ASSUME StageInv, NEW k \in kids, Removed(k)
  PROVE  Outcome(k)
<1> DEFINE s == IF k.row.staged \/ k.row.path THEN "REMOVE_START" ELSE "REMOVE_DONE"
           new == To(k.row, s)
<1>1. Setting(k) /\ k.at = "removed" /\ k.row.state = "REMOVE_WORK"
  BY TheSetting DEF Removed, Setting, Fits, RemoveCalls
<1>2. Finish(k, new) /\ UNCHANGED <<files, staging, outside>>
  BY DEF Removed
<1>3. /\ s \in {"REMOVE_START", "REMOVE_DONE"} /\ s \in State
      /\ s = "REMOVE_DONE" => ~ k.row.staged /\ ~ k.row.path
  BY StateFacts
<1> HIDE DEF s
<1>4. Fields(new, s, k.row.last, k.row.errors, TRUE,
             k.row.tmp, k.row.staged, k.row.path, k.row.info)
  BY <1>1, <1>3, ToFields DEF Setting
<1> HIDE DEF new
<1>5. new \in Row /\ DueOk(new)
  BY <1>4 DEF Fields, DueOk
<1>6. k.fresh => LastIsSet(new)
  BY <1>1, <1>3, <1>4 DEF Setting, Fields, Same, LastIsSet, Failures, RetryStates
<1>7. k.fresh /\ k.req \notin late =>
        InPlace(new, link[k.req], k.req \in left,
                volume[k.req], k.req \in mount, k.req \in aged)
  BY <1>1, <1>3, <1>4 DEF Setting, Fields, Same, Reached, Failures, RetryStates,
                          InPlace, Absent, Trusted, Staged
<1> QED  BY <1>2, <1>5, <1>6, <1>7, QuietFinish

-----------------------------------------------------------------------------
(***************************************************************************)
(* Errors.                                                                 *)
(***************************************************************************)

\* The state that is tried again is as far as the one that failed.
LEMMA RetryFacts ==
  ASSUME NEW s \in WorkStates \cup RestStates
  PROVE  /\ RetryState[s] \in State \ (Failures \cup Absent)
         /\ RetryState[s] \in Trusted <=> s \in Trusted
         /\ RetryState[s] \in Staged <=> s \in Staged
         /\ RetryState[s] \in {"REMOVE_DONE", "DONE"} => s \in {"REMOVE_DONE", "DONE"}
<1>1. s \in {"AUTHZ_WORK", "VERIFY_WORK", "RESTORE_WORK", "REMOVE_WORK",
             "NEW", "AUTHZ_START", "AUTHZ_DONE", "VERIFY_START",
             "VERIFY_DONE", "RESTORE_START", "RESTORE_DONE",
             "REMOVE_START", "REMOVE_DONE"}
  BY DEF WorkStates, RestStates
<1>2. \/ s = "AUTHZ_WORK" /\ RetryState[s] = "AUTHZ_START"
      \/ s = "VERIFY_WORK" /\ RetryState[s] = "VERIFY_START"
      \/ s = "RESTORE_WORK" /\ RetryState[s] = "RESTORE_START"
      \/ s = "REMOVE_WORK" /\ RetryState[s] = "REMOVE_START"
      \/ s \notin WorkStates /\ RetryState[s] = s
  BY <1>1 DEF RetryState, WorkStates
<1> QED  BY <1>1, <1>2, StateFacts
         DEF Trusted, Staged, Failures, RetryStates, Absent, WorkStates

LEMMA RecoverOut ==
  ASSUME StageInv, NEW k \in kids, Recover(k)
  PROVE  Outcome(k)
<1>1. Setting(k) /\ k.at = "recover" /\ k.row.state = "RESTORE_RECOVER_WORK"
  BY TheSetting DEF Recover, Setting, Fits
<1>2. UNCHANGED <<files, staging, outside>>
  BY DEF Recover
<1>3. CASE Finish(k, To(k.row, "FAILED"))
  <2> DEFINE new == To(k.row, "FAILED")
  <2>1. Fields(new, "FAILED", k.row.last, k.row.errors, TRUE,
               k.row.tmp, k.row.staged, k.row.path, k.row.info)
    BY <1>1, StateFacts, ToFields DEF Setting
  <2>2. Finish(k, new)
    BY <1>3
  <2> HIDE DEF new
  <2>3. new \in Row /\ DueOk(new)
    BY <2>1 DEF Fields, DueOk
  <2>4. k.fresh => LastIsSet(new)
    BY <1>1, <2>1 DEF Setting, Fields, Same, LastIsSet, Failures, RetryStates
  <2>5. k.fresh /\ k.req \notin late =>
          InPlace(new, link[k.req], k.req \in left,
                  volume[k.req], k.req \in mount, k.req \in aged)
    BY <1>1, <2>1 DEF Setting, Fields, Same, Reached, Failures, RetryStates,
                      InPlace, Absent, Trusted, Staged
  <2> QED  BY <1>2, <2>2, <2>3, <2>4, <2>5, QuietFinish
<1>4. CASE /\ k.row.last \in WorkStates \cup RestStates
           /\ Finish(k, [To(k.row, RetryState[k.row.last]) EXCEPT !.last = NoState])
  <2> DEFINE s == RetryState[k.row.last]
             new == [To(k.row, s) EXCEPT !.last = NoState]
  <2>1. /\ s \in State \ (Failures \cup Absent)
        /\ s \in Trusted <=> k.row.last \in Trusted
        /\ s \in Staged <=> k.row.last \in Staged
        /\ s \in {"REMOVE_DONE", "DONE"} => k.row.last \in {"REMOVE_DONE", "DONE"}
    BY <1>4, RetryFacts
  <2>2. Finish(k, new)
    BY <1>4
  <2> HIDE DEF s
  <2>3. Fields(new, s, NoState, k.row.errors, TRUE,
               k.row.tmp, k.row.staged, k.row.path, k.row.info)
    BY <1>1, <2>1, ToAndField DEF Setting
  <2> HIDE DEF new
  <2>4. new \in Row /\ DueOk(new)
    BY <2>3 DEF Fields, DueOk
  <2>5. LastIsSet(new)
    BY <2>1, <2>3 DEF Fields, LastIsSet
  <2>6. ASSUME k.fresh, k.req \notin late
        PROVE  InPlace(new, link[k.req], k.req \in left,
                       volume[k.req], k.req \in mount, k.req \in aged)
    <3>1. /\ new.state = s /\ s \notin Absent /\ Reached(new) = s
          /\ new.tmp = k.row.tmp /\ new.staged = k.row.staged /\ new.path = k.row.path
      BY <2>1, <2>3 DEF Fields, Reached
    <3>2. InPlace(k.row, link[k.req], k.req \in left,
                  volume[k.req], k.req \in mount, k.req \in aged)
      BY <1>1, <2>6 DEF Setting, Same, InPlace, Reached
    <3>3. Reached(k.row) = k.row.last
      BY <1>1 DEF Reached, Failures, RetryStates
    <3>4. k.row.last # "DELETED"
      BY <1>4 DEF WorkStates, RestStates
    <3> QED  BY <2>1, <3>1, <3>2, <3>3, <3>4 DEF InPlace, Absent, Failures
  <2> QED  BY <1>2, <2>2, <2>4, <2>5, <2>6, QuietFinish
<1>5. DOMAIN RetryState = WorkStates \cup RestStates
  BY DEF RetryState
<1> QED  BY <1>3, <1>4, <1>5 DEF Recover

LEMMA FailOut ==
  ASSUME StageInv, NEW k \in kids, Fail(k)
  PROVE  Outcome(k)
<1> DEFINE new == Errored(k.row)
<1>1. /\ Setting(k) /\ k.at = "error"
      /\ k.row.state \in {"AUTHZ_WORK", "VERIFY_WORK", "RESTORE_WORK", "REMOVE_WORK",
                          "RESTORE_DONE"}
  BY TheSetting DEF Fail, Setting, Fits, WorkStates
<1>2. Finish(k, new) /\ UNCHANGED <<files, staging, outside>>
  BY DEF Fail
<1>3. Fields(new, "ERROR", k.row.state, k.row.errors + 1, TRUE,
             k.row.tmp, k.row.staged, k.row.path, k.row.info)
  <2>1. k.row.state \notin RetryStates
    BY <1>1 DEF RetryStates
  <2> QED  BY <1>1, <2>1, ErroredFields DEF Setting
<1> HIDE DEF new
<1>4. new \in Row /\ DueOk(new)
  BY <1>3 DEF Fields, DueOk
<1>5. LastIsSet(new)
  BY <1>1, <1>3 DEF Fields, LastIsSet, Failures, RetryStates, NoState
<1>6. k.fresh /\ k.req \notin late =>
        InPlace(new, link[k.req], k.req \in left,
                volume[k.req], k.req \in mount, k.req \in aged)
  BY <1>1, <1>3 DEF Setting, Fields, Same, Reached, Failures, RetryStates,
                    InPlace, Absent, Trusted, Staged
<1> QED  BY <1>2, <1>4, <1>5, <1>6, QuietFinish

-----------------------------------------------------------------------------
(***************************************************************************)
(* The steps of children keep the invariant.                               *)
(***************************************************************************)

Kept ==
  /\ req' \in [Req -> Row] /\ kids' \subseteq Kid
  /\ \A r \in Req : DueOk(req'[r])
  /\ OneWriter'
  /\ \A l \in kids' : InItsState(l)
  /\ \A r \in Req : RequestOk(r)'
  /\ \A l \in kids' : KidOk(l)'
  /\ \A l, m \in kids' : /\ l.req = m.req /\ l.req \notin late'
                         /\ l.at \in Working /\ m.at \in Working
                         => l = m

LEMMA KidOut ==
  ASSUME StageInv, NEW k \in kids, KidStep(k) \/ Die(k)
  PROVE  Outcome(k)
<1>1. CASE Die(k)
  <2>1. Exit(k) /\ req' = req /\ UNCHANGED <<link, left, volume, mount, aged, late>>
    BY <1>1 DEF Die, files, staging
  <2>2. Rest(k, req[k.req])
    BY <2>1, TheSetting DEF Rest, Elsewhere, Setting
  <2> QED  BY <2>1, <2>2, ExitOn
<1>2. CASE KidStep(k)
  BY <1>2, AuthzOut, VerifyOut, ClaimOut, LinkOut, ClaimedOut, AskForOut,
     RequestOut, WaitOut, CheckOut, ChecksumOut, VerifiedOut, StartOut,
     RestoringOut, RestoredOut, UndoOut, UnlinkOut, UnlinkedOut, MountOut,
     MountedOut, NotifyOut, RemoveOut, RemoveVolumeOut, LookForMountOut,
     RemoveMountOut, GoneOut, RemovedOut, RecoverOut, FailOut, Zenon
     DEF KidStep
<1> QED  BY <1>1, <1>2

LEMMA KidKeeps ==
  ASSUME StageInv, NEW k \in kids, KidStep(k) \/ Die(k)
  PROVE  Kept
<1>1. Outcome(k)
  BY KidOut
<1> QED  BY <1>1, OutcomeKeeps DEF Kept

\* A child changes only the row of an active request.
LEMMA KidRows ==
  ASSUME StageInv, NEW k \in kids, KidStep(k) \/ Die(k), NEW r \in Req
  PROVE  req'[r] = req[r] \/ req[r].state \in ActiveStates
<1>1. PICK N : Walks(k, N) \/ \E new : Writes(k, new, N)
  <2>1. Outcome(k)
    BY KidOut
  <2> QED  BY <2>1, Zenon DEF Outcome
<1>2. CASE r # k.req
  <2>1. WriterInv
    BY DEF StageInv
  <2> QED  BY <1>1, <1>2, <2>1, OtherRows
<1>3. CASE r = k.req /\ k.fresh
  <2>1. k.at \in Call /\ Fits(k.at, k.row.state) /\ k.row.state = req[r].state
    BY <1>3, TheSetting DEF Setting, Same
  <2> QED  BY <2>1 DEF Call, Fits, VerifyCalls, StageCalls, RemoveCalls, ActiveStates,
                       WorkStates, RestStates, RetryStates
<1>4. CASE ~ k.fresh
  BY <1>1, <1>4 DEF Walks, Writes
<1> QED  BY <1>2, <1>3, <1>4

-----------------------------------------------------------------------------
(***************************************************************************)
(* Steps that change rows under the children.                              *)
(***************************************************************************)

\* The states of a request a child is at work for.
LEMMA WorkerState ==
  ASSUME StageInv, NEW k \in kids, k.at \in Working, k.req \notin late
  PROVE  /\ req[k.req].state \in WorkStates \cup {"RESTORE_RECOVER_WORK", "DELETED",
                                                  "FAILED", "RESTORE_RECOVER_START"}
         /\ TakenAway(k.row, req[k.req]) \/ k.fresh
<1>1. Setting(k)
  BY TheSetting
<1>2. k.row.state \in WorkStates \cup {"RESTORE_RECOVER_WORK"}
  BY <1>1 DEF Setting, Fits, Working, Call, VerifyCalls, StageCalls, RemoveCalls, WorkStates
<1>3. Knows(k.at, k.fresh, k.row, req[k.req], link[k.req], k.req \in left,
            volume[k.req], k.req \in mount, k.req \in aged)
  BY <1>1 DEF Setting
<1> QED  BY <1>1, <1>2, <1>3 DEF Setting, Same, Knows, TakenAway

\* A child whose copy of the row went out of date.
LEMMA StaleKid ==
  ASSUME NEW S \in SUBSET kids, kids \subseteq Kid, NEW R, NEW l \in Stale(S, R)
  PROVE  \E j \in S : /\ l.req = j.req /\ l.at = j.at /\ l.row = j.row
                      /\ j.req \in R => /\ l.fresh = FALSE
                                       /\ l = [j EXCEPT !.fresh = FALSE]
                      /\ j.req \notin R => l = j
<1>1. PICK j \in S : l = [j EXCEPT !.fresh = @ /\ j.req \notin R]
  BY Zenon DEF Stale
<1> DEFINE b == j.fresh /\ j.req \notin R
<1>2. j \in Kid /\ b \in BOOLEAN /\ j.fresh \in BOOLEAN
  BY DEF Kid
<1>3. l = [j EXCEPT !.fresh = b]
  BY <1>1, Zenon
<1>4. (j.req \in R => b = FALSE) /\ (j.req \notin R => b = j.fresh)
  BY <1>2
<1> HIDE DEF b
<1>5. /\ l.req = j.req /\ l.at = j.at /\ l.row = j.row
      /\ l.fresh = b /\ (b = j.fresh => l = j)
  BY <1>2, <1>3, KidFresh
<1> QED  BY <1>3, <1>4, <1>5

LEMMA OverwriteKeeps ==
  ASSUME StageInv, NEW R \in SUBSET Req, req' \in [Req -> Row],
         \A r \in Req \ R : req'[r] = req[r],
         kids' = Stale(kids, R),
         UNCHANGED <<link, left, volume, mount, aged, late>>,
         \A r \in R : /\ DueOk(req'[r]) /\ LastIsSet(req'[r])
                      /\ r \notin late =>
                           InPlace(req'[r], link[r], r \in left,
                                   volume[r], r \in mount, r \in aged),
         \A k \in kids : k.at \in Working /\ k.req \in R /\ k.req \notin late =>
                           TakenAway(k.row, req'[k.req])
  PROVE  Kept
<1>0. WriterInv /\ kids \subseteq Kid /\ kids \in SUBSET kids
  BY DEF StageInv, WriterInv, TypeOK
<1>1. /\ kids' \subseteq Kid
      /\ \A r \in Req : DueOk(req'[r])
      /\ OneWriter'
      /\ \A k \in kids' : InItsState(k)
  <2> DEFINE N == {}
  <2>1. \A l \in kids' : Before(l, R)
    BY <1>0, StaleFacts
  <2>2. Advance(R, N)
    BY <2>1 DEF Advance
  <2>3. \A r \in R : DueOk(req'[r]) /\ req'[r] \in Row
    OBVIOUS
  <2> HIDE DEF N
  <2> QED  BY <1>0, <2>2, <2>3, AdvanceKeeps
<1>2. ASSUME NEW r \in Req PROVE RequestOk(r)'
  <2>1. RequestOk(r)
    BY DEF StageInv
  <2> QED  BY <2>1 DEF RequestOk
<1>3. ASSUME NEW l \in kids' PROVE KidOk(l)'
  <2>0. l \in Stale(kids, R)
    OBVIOUS
  <2>1. PICK j \in kids : /\ l.req = j.req /\ l.at = j.at /\ l.row = j.row
                          /\ j.req \in R => /\ l.fresh = FALSE
                                           /\ l = [j EXCEPT !.fresh = FALSE]
                          /\ j.req \notin R => l = j
    BY <1>0, <2>0, StaleKid, Zenon
  <2>2. j.req \in Req
    BY <1>0 DEF Kid
  <2>3. KidOk(j)
    BY DEF StageInv
  <2>4. CASE j.req \notin R
    BY <2>1, <2>2, <2>3, <2>4 DEF KidOk
  <2>5. CASE j.req \in R
    <3>1. SUFFICES ASSUME j.req \notin late, j.at \in Working
                   PROVE  Knows(j.at, FALSE, j.row, req'[j.req], link[j.req], j.req \in left,
                                volume[j.req], j.req \in mount, j.req \in aged)
      BY <2>1, <2>5 DEF KidOk, Knows
    <3>2. TakenAway(j.row, req'[j.req])
      BY <2>5, <3>1
    <3> QED  BY <2>3, <3>1, <3>2 DEF KidOk, Knows
  <2> QED  BY <2>4, <2>5
<1>4. ASSUME NEW l \in kids', NEW m \in kids', l.req = m.req, l.req \notin late,
             l.at \in Working, m.at \in Working
      PROVE  l = m
  <2>0. l \in Stale(kids, R) /\ m \in Stale(kids, R)
    OBVIOUS
  <2>1. PICK i \in kids : /\ l.req = i.req /\ l.at = i.at /\ l.row = i.row
                          /\ i.req \in R => /\ l.fresh = FALSE
                                           /\ l = [i EXCEPT !.fresh = FALSE]
                          /\ i.req \notin R => l = i
    BY <1>0, <2>0, StaleKid, Zenon
  <2>2. PICK j \in kids : /\ m.req = j.req /\ m.at = j.at /\ m.row = j.row
                          /\ j.req \in R => /\ m.fresh = FALSE
                                           /\ m = [j EXCEPT !.fresh = FALSE]
                          /\ j.req \notin R => m = j
    BY <1>0, <2>0, StaleKid, Zenon
  <2>3. i = j
    BY <1>4, <2>1, <2>2 DEF StageInv
  <2> QED  BY <2>1, <2>2, <2>3
<1>5. \A l, m \in kids' : /\ l.req = m.req /\ l.req \notin late'
                          /\ l.at \in Working /\ m.at \in Working
                          => l = m
  BY <1>4
<1> QED  BY <1>1, <1>2, <1>3, <1>5 DEF Kept

\* A row moves on to a state that is as far.
LEMMA MoveOn ==
  ASSUME NEW x \in Row, NEW s \in State, LastIsSet(x),
         x.state \notin Absent, s \notin Absent,
         x.state \in Failures <=> s \in Failures,
         x.state \in Trusted <=> s \in Trusted,
         x.state \in Staged <=> s \in Staged,
         s \in {"REMOVE_DONE", "DONE"} => x.state \in {"REMOVE_DONE", "DONE"}
  PROVE  LET y == To(x, s)
         IN  /\ y \in Row /\ y.state = s /\ y.due /\ DueOk(y) /\ LastIsSet(y)
             /\ \A l, u, v, m, a : InPlace(x, l, u, v, m, a) => InPlace(y, l, u, v, m, a)
<1> DEFINE y == To(x, s)
<1>1. Fields(y, s, x.last, x.errors, TRUE, x.tmp, x.staged, x.path, x.info)
  BY ToFields
<1> HIDE DEF y
<1>2. y \in Row /\ y.state = s /\ y.due /\ DueOk(y) /\ LastIsSet(y)
  BY <1>1 DEF Fields, DueOk, LastIsSet
<1>3. ASSUME NEW l, NEW u, NEW v, NEW m, NEW a, InPlace(x, l, u, v, m, a)
      PROVE  InPlace(y, l, u, v, m, a)
  <2>1. CASE s \in Failures
    <3>1. Reached(y) = Reached(x)
      BY <1>1, <2>1 DEF Fields, Reached
    <3> QED  BY <1>1, <1>3, <3>1 DEF Fields, InPlace
  <2>2. CASE s \notin Failures
    <3>1. Reached(y) = s /\ Reached(x) = x.state /\ x.state # "DELETED"
      BY <1>1, <2>2 DEF Fields, Reached, Absent
    <3> QED  BY <1>1, <1>3, <3>1 DEF Fields, InPlace
  <2> QED  BY <2>1, <2>2
<1> QED  BY <1>2, <1>3 DEF y

LEMMA PassFacts ==
  ASSUME NEW pass \in Passes
  PROVE  /\ {pass.from, pass.start, pass.work} \subseteq State \ Absent
         /\ pass.from \notin WorkStates \cup {"RESTORE_RECOVER_WORK", "DELETED", "FAILED",
                                              "RESTORE_RECOVER_START"}
         /\ pass.from \in Failures <=> pass.start \in Failures
         /\ pass.from \in Trusted <=> pass.start \in Trusted
         /\ pass.from \in Staged <=> pass.start \in Staged
         /\ pass.start \in Failures <=> pass.work \in Failures
         /\ pass.start \in Trusted <=> pass.work \in Trusted
         /\ pass.start \in Staged <=> pass.work \in Staged
         /\ {pass.start, pass.work} \cap {"REMOVE_DONE", "DONE"} = {}
         /\ {pass.from, pass.start, pass.work} \subseteq ActiveStates
         /\ Fits(pass.at, pass.work)
         /\ pass.at \in {"authz", "verify", "restore", "remove", "recover"}
<1> USE StateFacts DEF Absent, WorkStates, Failures, RetryStates, Trusted, Staged, ActiveStates,
        RestStates, Fits, VerifyCalls, StageCalls, RemoveCalls
<1>1. \/ /\ pass.from = "NEW" /\ pass.start = "AUTHZ_START"
         /\ pass.work = "AUTHZ_WORK" /\ pass.at = "authz"
      \/ /\ pass.from = "AUTHZ_DONE" /\ pass.start = "VERIFY_START"
         /\ pass.work = "VERIFY_WORK" /\ pass.at = "verify"
      \/ /\ pass.from = "VERIFY_DONE" /\ pass.start = "RESTORE_START"
         /\ pass.work = "RESTORE_WORK" /\ pass.at = "restore"
      \/ /\ pass.from = "RESTORE_DONE" /\ pass.start = "REMOVE_START"
         /\ pass.work = "REMOVE_WORK" /\ pass.at = "remove"
      \/ /\ pass.from = "ERROR" /\ pass.start = "RESTORE_RECOVER_START"
         /\ pass.work = "RESTORE_RECOVER_WORK" /\ pass.at = "recover"
  BY DEF Passes
<1> QED  BY <1>1

\* The rows of requests, one by one.
LEMMA RowFacts ==
  ASSUME StageInv, NEW r \in Req
  PROVE  /\ req[r] \in Row /\ req[r].state \in State /\ LastIsSet(req[r]) /\ DueOk(req[r])
         /\ r \notin late =>
              InPlace(req[r], link[r], r \in left,
                      volume[r], r \in mount, r \in aged)
<1>1. req \in [Req -> Row] /\ RequestOk(r) /\ DueOk(req[r])
  BY DEF StageInv, WriterInv, TypeOK
<1>2. req[r] \in Row
  BY <1>1
<1> QED  BY <1>1, <1>2 DEF RequestOk, Row

LEMMA TakeUpKeeps ==
  ASSUME StageInv, NEW pass \in Passes, TakeUp(pass)
  PROVE  Kept
<1> DEFINE R == Due(pass.from)
<1>1. /\ req' = [r \in Req |-> IF r \in R THEN To(req[r], pass.start) ELSE req[r]]
      /\ kids' = Stale(kids, R)
      /\ UNCHANGED <<link, left, volume, mount, aged, late>>
  BY DEF TakeUp, Overwrite, files, staging, outside
<1>2. R \in SUBSET Req /\ \A r \in R : req[r].state = pass.from
  BY DEF Due
<1> HIDE DEF R
<1>3. \A r \in R : /\ req'[r] = To(req[r], pass.start)
                   /\ req'[r] \in Row /\ DueOk(req'[r]) /\ LastIsSet(req'[r])
                   /\ r \notin late =>
                        InPlace(req'[r], link[r], r \in left,
                                volume[r], r \in mount, r \in aged)
  <2>1. SUFFICES ASSUME NEW r \in R
                 PROVE  LET y == To(req[r], pass.start)
                        IN  /\ y \in Row /\ DueOk(y) /\ LastIsSet(y)
                            /\ r \notin late =>
                                 InPlace(y, link[r], r \in left,
                                         volume[r], r \in mount, r \in aged)
    BY <1>1, <1>2
  <2> DEFINE x == req[r]
             y == To(x, pass.start)
  <2>2. /\ x \in Row /\ LastIsSet(x) /\ x.state = pass.from
        /\ r \notin late => InPlace(x, link[r], r \in left,
                                    volume[r], r \in mount, r \in aged)
    BY <1>2, RowFacts
  <2> HIDE DEF x
  <2>3. /\ y \in Row /\ DueOk(y) /\ LastIsSet(y)
        /\ \A l, u, v, m, a : InPlace(x, l, u, v, m, a) => InPlace(y, l, u, v, m, a)
    BY <2>2, PassFacts, MoveOn
  <2> HIDE DEF y
  <2>4. /\ y \in Row /\ DueOk(y) /\ LastIsSet(y)
        /\ r \notin late => InPlace(y, link[r], r \in left,
                                    volume[r], r \in mount, r \in aged)
    BY <2>2, <2>3
  <2> QED  BY <2>4 DEF x, y
<1>4. \A r \in Req \ R : req'[r] = req[r]
  BY <1>1
<1>5. req' \in [Req -> Row]
  BY <1>1, <1>2, <1>3, <1>4, RowFacts
<1>6. ASSUME NEW k \in kids, k.at \in Working, k.req \in R, k.req \notin late
      PROVE  FALSE
  BY <1>2, <1>6, WorkerState, PassFacts
<1> QED  BY <1>1, <1>2, <1>3, <1>4, <1>5, <1>6, OverwriteKeeps

LEMMA FinishReqsKeeps ==
  ASSUME StageInv, FinishReqs
  PROVE  Kept
<1> DEFINE R == {r \in Req : req[r].state = "REMOVE_DONE"}
<1>1. /\ req' = [r \in Req |-> IF r \in R THEN To(req[r], "DONE") ELSE req[r]]
      /\ kids' = Stale(kids, R)
      /\ UNCHANGED <<link, left, volume, mount, aged, late>>
  BY DEF FinishReqs, Overwrite, files, staging, outside
<1>2. R \in SUBSET Req /\ \A r \in R : req[r].state = "REMOVE_DONE"
  OBVIOUS
<1> HIDE DEF R
<1>3. \A r \in R : /\ req'[r] = To(req[r], "DONE")
                   /\ req'[r] \in Row /\ DueOk(req'[r]) /\ LastIsSet(req'[r])
                   /\ r \notin late =>
                        InPlace(req'[r], link[r], r \in left,
                                volume[r], r \in mount, r \in aged)
  <2>1. SUFFICES ASSUME NEW r \in R
                 PROVE  LET y == To(req[r], "DONE")
                        IN  /\ y \in Row /\ DueOk(y) /\ LastIsSet(y)
                            /\ r \notin late =>
                                 InPlace(y, link[r], r \in left,
                                         volume[r], r \in mount, r \in aged)
    BY <1>1, <1>2
  <2> DEFINE x == req[r]
             y == To(x, "DONE")
  <2>2. /\ x \in Row /\ LastIsSet(x) /\ x.state = "REMOVE_DONE"
        /\ r \notin late => InPlace(x, link[r], r \in left,
                                    volume[r], r \in mount, r \in aged)
    BY <1>2, RowFacts
  <2> HIDE DEF x
  <2>3. /\ y \in Row /\ DueOk(y) /\ LastIsSet(y)
        /\ \A l, u, v, m, a : InPlace(x, l, u, v, m, a) => InPlace(y, l, u, v, m, a)
    <3>1. /\ "DONE" \in State \ Absent /\ "DONE" \notin Failures /\ "DONE" \notin Trusted
          /\ "DONE" \in Staged
          /\ x.state \notin Absent /\ x.state \notin Failures /\ x.state \notin Trusted
          /\ x.state \in Staged
      BY <2>2, StateFacts DEF Absent, Failures, RetryStates, Trusted, Staged
    <3> QED  BY <2>2, <3>1, MoveOn
  <2> HIDE DEF y
  <2>4. /\ y \in Row /\ DueOk(y) /\ LastIsSet(y)
        /\ r \notin late => InPlace(y, link[r], r \in left,
                                    volume[r], r \in mount, r \in aged)
    BY <2>2, <2>3
  <2> QED  BY <2>4 DEF x, y
<1>4. \A r \in Req \ R : req'[r] = req[r]
  BY <1>1
<1>5. req' \in [Req -> Row]
  BY <1>1, <1>2, <1>3, <1>4, RowFacts
<1>6. ASSUME NEW k \in kids, k.at \in Working, k.req \in R, k.req \notin late
      PROVE  FALSE
  BY <1>2, <1>6, WorkerState DEF WorkStates
<1> QED  BY <1>1, <1>2, <1>3, <1>4, <1>5, <1>6, OverwriteKeeps

\* One row changes.
LEMMA OneRow ==
  ASSUME StageInv, NEW r \in Req, NEW y \in Row,
         req' = [q \in Req |-> IF q \in {r} THEN y ELSE req[q]],
         kids' = Stale(kids, {r}),
         UNCHANGED <<link, left, volume, mount, aged, late>>,
         DueOk(y), LastIsSet(y),
         r \notin late => InPlace(y, link[r], r \in left,
                                  volume[r], r \in mount, r \in aged),
         \A k \in kids : k.at \in Working /\ k.req = r /\ k.req \notin late =>
                           TakenAway(k.row, y)
  PROVE  Kept
<1> DEFINE R == {r}
<1>1. R \in SUBSET Req /\ \A q \in R : q = r
  OBVIOUS
<1>2. kids' = Stale(kids, R) /\ req' = [q \in Req |-> IF q \in R THEN y ELSE req[q]]
  OBVIOUS
<1>3. req'[r] = y
  BY <1>2
<1> HIDE DEF R
<1>4. \A q \in Req \ R : req'[q] = req[q]
  BY <1>2
<1>5. req' \in [Req -> Row]
  BY <1>2, RowFacts
<1>6. \A q \in R : /\ DueOk(req'[q]) /\ LastIsSet(req'[q])
                   /\ q \notin late =>
                        InPlace(req'[q], link[q], q \in left,
                                volume[q], q \in mount, q \in aged)
  BY <1>1, <1>3
<1>7. \A k \in kids : k.at \in Working /\ k.req \in R /\ k.req \notin late =>
                        TakenAway(k.row, req'[k.req])
  BY <1>1, <1>3
<1> QED  BY <1>1, <1>2, <1>4, <1>5, <1>6, <1>7, OverwriteKeeps

LEMMA CreateKeeps ==
  ASSUME StageInv, NEW r \in Req, Create(r)
  PROVE  Kept
<1> DEFINE y == NewRow("NEW")
<1>1. /\ req' = [q \in Req |-> IF q \in {r} THEN y ELSE req[q]]
      /\ kids' = Stale(kids, {r})
      /\ UNCHANGED <<link, left, volume, mount, aged, late>>
      /\ req[r].state = "NONE"
  BY DEF Create, Overwrite, files, staging, outside
<1>2. Fields(y, "NEW", NoState, 0, TRUE, FALSE, FALSE, FALSE, FALSE)
  BY StateFacts, NewFields
<1> HIDE DEF y
<1>3. y \in Row /\ DueOk(y) /\ LastIsSet(y)
  BY <1>2 DEF Fields, DueOk, LastIsSet, Failures, RetryStates
<1>4. r \notin late => InPlace(y, link[r], r \in left,
                               volume[r], r \in mount, r \in aged)
  <2>1. r \notin late => r \notin aged
    BY <1>1, RowFacts DEF InPlace, Reached, Failures, RetryStates, Staged
  <2> QED  BY <1>2, <2>1 DEF Fields, InPlace, Reached, Failures, RetryStates,
                             Absent, Trusted, Staged
<1>5. ASSUME NEW k \in kids, k.at \in Working, k.req = r, k.req \notin late
      PROVE  FALSE
  BY <1>1, <1>5, WorkerState DEF WorkStates
<1> QED  BY <1>1, <1>3, <1>4, <1>5, OneRow

LEMMA KillKeeps ==
  ASSUME StageInv, NEW r \in Req, Kill(r)
  PROVE  Kept
<1> DEFINE x == req[r]
           y == [To(x, "FAILED") EXCEPT !.last = IF @ = NoState THEN x.state ELSE @]
           to == IF x.last = NoState THEN x.state ELSE x.last
<1>1. /\ req' = [q \in Req |-> IF q \in {r} THEN y ELSE req[q]]
      /\ kids' = Stale(kids, {r})
      /\ UNCHANGED <<link, left, volume, mount, aged, late>>
      /\ req[r].state \notin Absent
  <2>1. /\ req' = [q \in Req |-> IF q \in {r}
                                 THEN [To(req[q], "FAILED") EXCEPT
                                         !.last = IF @ = NoState THEN req[q].state ELSE @]
                                 ELSE req[q]]
        /\ kids' = Stale(kids, {r})
        /\ UNCHANGED <<link, left, volume, mount, aged, late>>
        /\ req[r].state \notin Absent
    BY DEF Kill, Overwrite, files, staging
  <2> QED  BY <2>1
<1>2. /\ x \in Row /\ x.state \in State /\ LastIsSet(x) /\ x.state \notin Absent
      /\ x.last \in State \cup {NoState} /\ to \in State
      /\ r \notin late => InPlace(x, link[r], r \in left,
                                  volume[r], r \in mount, r \in aged)
  BY <1>1, RowFacts DEF Row
<1>3. Fields(y, "FAILED", to, x.errors, TRUE, x.tmp, x.staged, x.path, x.info)
  <2>1. Fields(To(x, "FAILED"), "FAILED", x.last, x.errors, TRUE,
               x.tmp, x.staged, x.path, x.info)
    BY <1>2, StateFacts, ToFields
  <2>2. y = [To(x, "FAILED") EXCEPT !.last = to]
    <3> DEFINE z == To(x, "FAILED")
    <3>1. z \in Row /\ z.last = x.last
      BY <2>1 DEF Fields
    <3> HIDE DEF z, x
    <3> QED  BY <3>1 DEF z
  <2> HIDE DEF y, to, x
  <2> QED  BY <1>2, <2>2, StateFacts, ToAndField
<1> HIDE DEF y
<1>4. to = Reached(x) /\ to # NoState
  BY <1>2, StateFacts DEF LastIsSet, Reached
<1> HIDE DEF to
<1>5. /\ y \in Row /\ DueOk(y) /\ LastIsSet(y) /\ y.state = "FAILED"
      /\ Reached(y) = Reached(x) /\ (y.staged <=> x.staged)
  BY <1>3, <1>4 DEF Fields, DueOk, LastIsSet, Reached, Failures
<1>6. r \notin late => InPlace(y, link[r], r \in left,
                               volume[r], r \in mount, r \in aged)
  BY <1>2, <1>3, <1>5 DEF Fields, InPlace, Absent
<1>7. ASSUME NEW k \in kids, k.at \in Working, k.req = r, k.req \notin late
      PROVE  TakenAway(k.row, y)
  <2>1. Reached(x) = Reached(k.row) /\ (x.staged <=> k.row.staged)
    <3>1. CASE k.fresh
      BY <1>7, <3>1, TheSetting DEF Setting, Same, Reached
    <3>2. CASE ~ k.fresh
      BY <1>2, <1>7, <3>2, WorkerState DEF TakenAway, Absent
    <3> QED  BY <3>1, <3>2
  <2> QED  BY <1>5, <2>1 DEF TakenAway
<1> QED  BY <1>1, <1>5, <1>6, <1>7, OneRow

LEMMA RetryKeeps ==
  ASSUME StageInv, NEW r \in Req, Retry(r)
  PROVE  Kept
<1> DEFINE x == req[r]
           y == [To(x, "RESTORE_RECOVER_START") EXCEPT !.errors = 0]
<1>1. /\ req' = [q \in Req |-> IF q \in {r} THEN y ELSE req[q]]
      /\ kids' = Stale(kids, {r})
      /\ UNCHANGED <<link, left, volume, mount, aged, late>>
      /\ x.state \in {"ERROR", "FAILED"}
  <2>1. /\ req' = [q \in Req |-> IF q \in {r}
                                 THEN [To(req[q], "RESTORE_RECOVER_START") EXCEPT !.errors = 0]
                                 ELSE req[q]]
        /\ kids' = Stale(kids, {r})
        /\ UNCHANGED <<link, left, volume, mount, aged, late>>
        /\ req[r].state \in {"ERROR", "FAILED"}
    BY DEF Retry, Overwrite, files, staging
  <2> QED  BY <2>1
<1>2. /\ x \in Row /\ LastIsSet(x)
      /\ r \notin late => InPlace(x, link[r], r \in left,
                                  volume[r], r \in mount, r \in aged)
  BY RowFacts
<1>3. Fields(y, "RESTORE_RECOVER_START", x.last, 0, TRUE,
             x.tmp, x.staged, x.path, x.info)
  <2> HIDE DEF x
  <2> QED  BY <1>2, StateFacts, ToAndField
<1> HIDE DEF y
<1>4. /\ y \in Row /\ DueOk(y) /\ LastIsSet(y) /\ y.state = "RESTORE_RECOVER_START"
      /\ Reached(y) = Reached(x) /\ (y.staged <=> x.staged)
  BY <1>1, <1>2, <1>3 DEF Fields, DueOk, LastIsSet, Reached, Failures, RetryStates
<1>5. r \notin late => InPlace(y, link[r], r \in left,
                               volume[r], r \in mount, r \in aged)
  BY <1>2, <1>3, <1>4 DEF Fields, InPlace, Absent
<1>6. ASSUME NEW k \in kids, k.at \in Working, k.req = r, k.req \notin late
      PROVE  TakenAway(k.row, y)
  <2>1. Reached(x) = Reached(k.row) /\ (x.staged <=> k.row.staged)
    <3>1. CASE k.fresh
      BY <1>6, <3>1, TheSetting DEF Setting, Same, Reached
    <3>2. CASE ~ k.fresh
      BY <1>1, <1>6, <3>2, WorkerState DEF TakenAway
    <3> QED  BY <3>1, <3>2
  <2> QED  BY <1>4, <2>1 DEF TakenAway
<1> QED  BY <1>1, <1>4, <1>5, <1>6, OneRow

LEMMA ClearRequestsKeeps ==
  ASSUME StageInv, NEW d \in Dump, ClearRequests(d)
  PROVE  Kept
<1> DEFINE R == {r \in Req : Refers(r, d) /\ req[r].state \in EndStates}
           y == NewRow("DELETED")
<1>1. /\ req' = [r \in Req |-> IF r \in R THEN y ELSE req[r]]
      /\ kids' = Stale(kids, R)
      /\ UNCHANGED <<link, left, volume, mount, aged, late>>
  BY DEF ClearRequests, Overwrite, files, staging
<1>2. R \in SUBSET Req /\ \A r \in R : req[r].state \in EndStates
  OBVIOUS
<1>3. Fields(y, "DELETED", NoState, 0, TRUE, FALSE, FALSE, FALSE, FALSE)
  BY StateFacts, NewFields
<1> HIDE DEF R, y
<1>4. y \in Row /\ DueOk(y) /\ LastIsSet(y) /\ y.state = "DELETED"
  BY <1>3 DEF Fields, DueOk, LastIsSet, Failures, RetryStates
<1>5. \A l, u, v, m, a : InPlace(y, l, u, v, m, a)
  BY <1>3 DEF Fields, InPlace, Reached, Failures, RetryStates, Absent, Trusted, Staged
<1>6. \A r \in R : req'[r] = y
  BY <1>1, <1>2
<1>7. \A r \in Req \ R : req'[r] = req[r]
  BY <1>1
<1>8. req' \in [Req -> Row]
  BY <1>1, <1>4, RowFacts
<1>9. \A r \in R : /\ DueOk(req'[r]) /\ LastIsSet(req'[r])
                   /\ r \notin late =>
                        InPlace(req'[r], link[r], r \in left,
                                volume[r], r \in mount, r \in aged)
  BY <1>4, <1>5, <1>6
<1>10. \A k \in kids : k.at \in Working /\ k.req \in R /\ k.req \notin late =>
                         TakenAway(k.row, req'[k.req])
  BY <1>4, <1>6 DEF TakenAway
<1> QED  BY <1>1, <1>2, <1>7, <1>8, <1>9, <1>10, OverwriteKeeps

LEMMA ForkKeeps ==
  ASSUME StageInv, NEW pass \in Passes, Fork(pass)
  PROVE  Kept
<1> DEFINE S == Due(pass.start)
           Y(r) == To(req[r], pass.work)
           Child(r) == [req |-> r, at |-> pass.at, row |-> Y(r),
                        fresh |-> TRUE, sum |-> FALSE, tries |-> 0]
           N == {Child(r) : r \in S}
<1>1. /\ req' = [r \in Req |-> IF r \in S THEN Y(r) ELSE req[r]]
      /\ kids' = Stale(kids, S) \cup N
      /\ UNCHANGED <<link, left, volume, mount, aged>>
      /\ late' = late \cup {k.req : k \in {k \in kids : k.req \in S /\ k.at # "notify"}}
  BY DEF Fork, files, staging
<1>2. /\ S \in SUBSET Req
      /\ \A r \in S : req[r].state = pass.start
  BY DEF Due
<1> HIDE DEF S
<1>3. ASSUME NEW r \in S
      PROVE  /\ Y(r) \in Row /\ DueOk(Y(r)) /\ LastIsSet(Y(r)) /\ Y(r).state = pass.work
             /\ r \notin late =>
                  InPlace(Y(r), link[r], r \in left,
                          volume[r], r \in mount, r \in aged)
  <2> DEFINE x == req[r]
             y == To(x, pass.work)
  <2>2. /\ x \in Row /\ LastIsSet(x) /\ x.state = pass.start
        /\ r \notin late => InPlace(x, link[r], r \in left,
                                    volume[r], r \in mount, r \in aged)
    BY <1>2, RowFacts
  <2> HIDE DEF x
  <2>3. /\ y \in Row /\ DueOk(y) /\ LastIsSet(y) /\ y.state = pass.work
        /\ \A l, u, v, m, a : InPlace(x, l, u, v, m, a) => InPlace(y, l, u, v, m, a)
    BY <2>2, PassFacts, MoveOn
  <2> HIDE DEF y
  <2>4. /\ y \in Row /\ DueOk(y) /\ LastIsSet(y) /\ y.state = pass.work
        /\ r \notin late => InPlace(y, link[r], r \in left,
                                    volume[r], r \in mount, r \in aged)
    BY <2>2, <2>3
  <2> QED  BY <2>4 DEF x, y
<1> HIDE DEF Y
<1>4. ASSUME NEW r \in S
      PROVE  /\ Child(r) \in Kid /\ Child(r).req = r /\ Child(r).at = pass.at
             /\ Child(r).row = Y(r) /\ Child(r).fresh = TRUE
             /\ InItsState(Child(r))
  <2>1. pass.at \in Call /\ Fits(pass.at, pass.work)
    BY PassFacts DEF Call
  <2>2. r \in Req
    BY <1>2
  <2> QED  BY <1>3, <2>1, <2>2 DEF Kid, InItsState
<1> HIDE DEF Child
<1>5. /\ \A r \in S : req'[r] = Y(r)
      /\ \A r \in Req \ S : req'[r] = req[r]
      /\ req' \in [Req -> Row]
  <2>1. (\A r \in S : req'[r] = Y(r)) /\ (\A r \in Req \ S : req'[r] = req[r])
    BY <1>1, <1>2
  <2> QED  BY <1>1, <1>3, <2>1, RowFacts
<1>6. \A n \in N : \E r \in S : n = Child(r)
  OBVIOUS
<1>7. WriterInv /\ kids \subseteq Kid /\ kids \in SUBSET kids
  BY DEF StageInv, WriterInv, TypeOK
<1> HIDE DEF N
<1>8. ASSUME NEW m \in N, NEW n \in N, m.req = n.req PROVE m = n
  <2>1. PICK r \in S : m = Child(r)
    BY <1>6
  <2>2. PICK q \in S : n = Child(q)
    BY <1>6
  <2>3. m.req = r /\ n.req = q
    BY <1>4, <2>1, <2>2
  <2> QED  BY <1>8, <2>1, <2>2, <2>3
<1>9. /\ kids' \subseteq Kid
      /\ \A r \in Req : DueOk(req'[r])
      /\ OneWriter'
      /\ \A k \in kids' : InItsState(k)
  <2>1. \A l \in Stale(kids, S) : Before(l, S)
    BY <1>7, StaleFacts
  <2>2. ASSUME NEW n \in N
        PROVE  /\ n \in Kid /\ n.req \in S /\ InItsState(n)
               /\ [n.row EXCEPT !.due = TRUE] = [req'[n.req] EXCEPT !.due = TRUE]
    <3>1. PICK r \in S : n = Child(r)
      BY <1>6
    <3>2. n \in Kid /\ n.req = r /\ n.row = Y(r) /\ InItsState(n)
      BY <1>4, <3>1
    <3>3. req'[r] = Y(r)
      BY <1>5
    <3> QED  BY <3>2, <3>3
  <2>3. \A m, n \in N : m.req = n.req => m = n
    BY <1>8
  <2>4. Advance(S, N)
    BY <1>1, <1>5, <2>1, <2>2, <2>3 DEF Advance
  <2>5. \A r \in S : DueOk(req'[r]) /\ req'[r] \in Row
    BY <1>3, <1>5
  <2> QED  BY <1>2, <1>5, <1>7, <2>4, <2>5, AdvanceKeeps
<1>10. late \subseteq late'
  BY <1>1
<1>11. ASSUME NEW r \in Req PROVE RequestOk(r)'
  <2>1. CASE r \in S
    BY <1>1, <1>3, <1>5, <1>10, <2>1 DEF RequestOk
  <2>2. CASE r \notin S
    <3>1. RequestOk(r)
      BY DEF StageInv
    <3> QED  BY <1>1, <1>5, <1>10, <2>2, <3>1 DEF RequestOk
  <2> QED  BY <2>1, <2>2
<1>12. ASSUME NEW l \in kids', l \notin N, l.at \in Working, l.req \notin late'
       PROVE  l \in kids /\ l.req \in Req \ S /\ l.req \notin late
  <2>1. l \in Stale(kids, S)
    BY <1>1, <1>12
  <2>2. PICK j \in kids : /\ l.req = j.req /\ l.at = j.at /\ l.row = j.row
                          /\ j.req \in S => /\ l.fresh = FALSE
                                           /\ l = [j EXCEPT !.fresh = FALSE]
                          /\ j.req \notin S => l = j
    BY <1>7, <2>1, StaleKid, Zenon
  <2>3. l.at # "notify"
    BY <1>12 DEF Working
  <2>4. j.req \notin S
    BY <1>1, <1>12, <2>2, <2>3
  <2> QED  BY <1>7, <1>10, <1>12, <2>2, <2>4 DEF Kid
<1>13. ASSUME NEW l \in kids' PROVE KidOk(l)'
  <2>1. CASE l \in N
    <3>1. PICK r \in S : l = Child(r)
      BY <1>6, <2>1
    <3>2. l.at = pass.at /\ l.fresh
      BY <1>4, <3>1
    <3>3. l.at \in {"authz", "verify", "restore", "remove", "recover"}
      BY <3>2, PassFacts
    <3> QED  BY <3>2, <3>3 DEF KidOk, Knows
  <2>2. CASE l \notin N
    <3>1. SUFFICES ASSUME l.at \in Working, l.req \notin late'
                   PROVE  Knows(l.at, l.fresh, l.row, req'[l.req], link[l.req], l.req \in left,
                                volume[l.req], l.req \in mount, l.req \in aged)
      BY <1>1 DEF KidOk, Knows
    <3>2. l \in kids /\ l.req \in Req \ S /\ l.req \notin late
      BY <1>12, <2>2, <3>1
    <3>3. KidOk(l)
      BY <3>2 DEF StageInv
    <3> QED  BY <1>5, <3>2, <3>3 DEF KidOk
  <2> QED  BY <2>1, <2>2
<1>14. ASSUME NEW l \in kids', NEW m \in kids', l.req = m.req, l.req \notin late',
              l.at \in Working, m.at \in Working
       PROVE  l = m
  <2>1. \A n \in N : n.req \in S
    BY <1>4, <1>6
  <2>2. CASE l \in N /\ m \in N
    BY <1>14, <1>8, <2>2
  <2>3. CASE l \notin N /\ m \notin N
    <3>1. l \in kids /\ m \in kids /\ l.req \notin late
      BY <1>12, <1>14, <2>3
    <3> QED  BY <1>14, <3>1 DEF StageInv
  <2>4. CASE (l \in N /\ m \notin N) \/ (l \notin N /\ m \in N)
    BY <1>12, <1>14, <2>1, <2>4
  <2> QED  BY <2>2, <2>3, <2>4
<1> QED  BY <1>5, <1>9, <1>11, <1>13, <1>14 DEF Kept

-----------------------------------------------------------------------------
(***************************************************************************)
(* Steps that leave children alone: time passes, links vanish.             *)
(***************************************************************************)

LEMMA TimeKeeps ==
  ASSUME StageInv, UNCHANGED <<kids, left, volume, mount, late>>,
         req' \in [Req -> Row],
         \A r \in Req : /\ DueOk(req'[r])
                        /\ [req'[r] EXCEPT !.due = TRUE] = [req[r] EXCEPT !.due = TRUE]
                        /\ link'[r] \in {link[r], "none"}
                        /\ r \in aged => r \in aged'
                        /\ r \in aged' => r \in aged \/ req[r].path
  PROVE  Kept
<1>1. kids' \subseteq Kid /\ \A k \in kids' : InItsState(k) /\ k.req \in Req
  BY DEF StageInv, WriterInv, TypeOK, Kid
<1>2. \A r \in Req : Same(req'[r], req[r])
  BY RowFacts, SameFields
<1>3. OneWriter'
  BY <1>1 DEF StageInv, WriterInv, OneWriter
<1>4. ASSUME NEW r \in Req PROVE RequestOk(r)'
  <2>1. Same(req'[r], req[r]) /\ LastIsSet(req[r])
    BY <1>2, RowFacts
  <2>2. LastIsSet(req'[r])
    BY <2>1 DEF Same, LastIsSet
  <2>3. ASSUME r \notin late
        PROVE  InPlace(req'[r], link'[r], r \in left',
                       volume[r], r \in mount, r \in aged')
    <3>1. InPlace(req[r], link[r], r \in left, volume[r], r \in mount, r \in aged)
      BY <2>3, RowFacts
    <3>2. Reached(req'[r]) = Reached(req[r])
      BY <2>1 DEF Same, Reached
    <3>3. link'[r] = link[r] \/ link'[r] = "none"
      OBVIOUS
    <3>4. (r \in aged => r \in aged') /\ (r \in aged' => r \in aged \/ req[r].path)
      OBVIOUS
    <3> QED  BY <2>1, <3>1, <3>2, <3>3, <3>4 DEF InPlace, Same
  <2> QED  BY <2>2, <2>3 DEF RequestOk
<1>5. ASSUME NEW k \in kids' PROVE KidOk(k)'
  <2>1. k \in kids /\ k.req \in Req /\ KidOk(k)
    BY <1>1 DEF StageInv
  <2>2. Same(req'[k.req], req[k.req])
    BY <1>2, <2>1
  <2>3. Reached(req'[k.req]) = Reached(req[k.req])
    BY <2>2 DEF Same, Reached
  <2>4. link'[k.req] = link[k.req] \/ link'[k.req] = "none"
    BY <2>1
  <2>5. k.req \in aged => k.req \in aged'
    BY <2>1
  <2> QED  BY <2>1, <2>2, <2>3, <2>4, <2>5 DEF KidOk, Knows, TakenAway, Same
<1>6. \A l, m \in kids' : /\ l.req = m.req /\ l.req \notin late'
                          /\ l.at \in Working /\ m.at \in Working
                          => l = m
  BY DEF StageInv
<1> QED  BY <1>1, <1>3, <1>4, <1>5, <1>6 DEF Kept

LEMMA TickKeeps ==
  ASSUME StageInv, NEW r \in Req, Tick(r)
  PROVE  Kept
<1> DEFINE y == [req[r] EXCEPT !.due = TRUE]
<1>1. UNCHANGED <<kids, link, left, volume, mount, aged, late>>
  BY DEF Tick, files, staging, outside
<1>2. req \in [Req -> Row] /\ \A q \in Req : DueOk(req[q])
  BY DEF StageInv, WriterInv, TypeOK
<1>3. Fields(y, req[r].state, req[r].last, req[r].errors, TRUE,
             req[r].tmp, req[r].staged, req[r].path, req[r].info)
  BY RowFacts, OneField
<1>4. Fields([y EXCEPT !.due = TRUE], y.state, y.last, y.errors, TRUE,
             y.tmp, y.staged, y.path, y.info)
  <2> HIDE DEF y
  <2> QED  BY <1>3, OneField DEF Fields
<1>5. [y EXCEPT !.due = TRUE] = y
  BY <1>2 DEF Row
<1>6. req' = [req EXCEPT ![r] = y]
  BY DEF Tick
<1>7. y \in Row /\ DueOk(y)
  BY <1>3 DEF Fields, DueOk
<1>8. req'[r] = y /\ \A q \in Req \ {r} : req'[q] = req[q]
  BY <1>2, <1>6
<1>9. [req'[r] EXCEPT !.due = TRUE] = [req[r] EXCEPT !.due = TRUE]
  BY <1>5, <1>8
<1> HIDE DEF y
<1>10. req' \in [Req -> Row]
  BY <1>2, <1>6, <1>7
<1>11. \A q \in Req : /\ DueOk(req'[q])
                      /\ [req'[q] EXCEPT !.due = TRUE] = [req[q] EXCEPT !.due = TRUE]
                      /\ link'[q] \in {link[q], "none"}
                      /\ q \in aged => q \in aged'
                      /\ q \in aged' => q \in aged \/ req[q].path
  <2> SUFFICES ASSUME NEW q \in Req
               PROVE  /\ DueOk(req'[q])
                      /\ [req'[q] EXCEPT !.due = TRUE] = [req[q] EXCEPT !.due = TRUE]
    BY <1>1
  <2>1. CASE q = r
    BY <1>7, <1>8, <1>9, <2>1
  <2>2. CASE q # r
    BY <1>2, <1>8, <2>2
  <2> QED  BY <2>1, <2>2
<1> QED  BY <1>1, <1>10, <1>11, TimeKeeps

\* All other steps.
LEMMA OtherKeeps ==
  ASSUME StageInv, UNCHANGED <<req, kids, left, volume, mount, late>>,
         \A r \in Req : /\ link'[r] \in {link[r], "none"}
                        /\ r \in aged => r \in aged'
                        /\ r \in aged' => r \in aged \/ req[r].path
  PROVE  Kept
<1>1. req \in [Req -> Row] /\ \A q \in Req : DueOk(req[q])
  BY DEF StageInv, WriterInv, TypeOK
<1>2. req' \in [Req -> Row]
  BY <1>1
<1>3. \A r \in Req : /\ DueOk(req'[r])
                     /\ [req'[r] EXCEPT !.due = TRUE] = [req[r] EXCEPT !.due = TRUE]
  BY <1>1
<1> QED  BY <1>2, <1>3, TimeKeeps

LEMMA RestKeeps ==
  ASSUME StageInv,
         \/ UNCHANGED vars
         \/ \E r \in Req : CleanTmp(r) \/ Age(r)
         \/ \E d \in Dump : \/ Trim(d) \/ FetchFromTape(d) \/ LookForRequests(d)
                            \/ DropDump(d) \/ DropBlob(d)
  PROVE  Kept
<1>1. CASE UNCHANGED <<req, kids, link, left, volume, mount, aged, late>>
  BY <1>1, OtherKeeps
<1>2. CASE \E r \in Req : CleanTmp(r)
  <2>1. PICK r \in Req : CleanTmp(r)
    BY <1>2
  <2>2. /\ UNCHANGED <<req, kids, left, volume, mount, aged, late>>
        /\ link' = [link EXCEPT ![r] = "none"]
    BY <2>1 DEF CleanTmp, staging, outside
  <2>3. link \in [Req -> Content]
    BY DEF StageInv, WriterInv, TypeOK
  <2>4. \A q \in Req : link'[q] \in {link[q], "none"}
    BY <2>2, <2>3
  <2> QED  BY <2>2, <2>4, OtherKeeps
<1>3. CASE \E r \in Req : Age(r)
  <2>1. PICK r \in Req : Age(r)
    BY <1>3
  <2>2. /\ UNCHANGED <<req, kids, link, left, volume, mount, late>>
        /\ req[r].path /\ aged' = aged \cup {r}
    BY <2>1 DEF Age, files, outside
  <2> QED  BY <2>2, OtherKeeps
<1>4. CASE UNCHANGED vars
  BY <1>1, <1>4 DEF vars, files, staging, outside
<1>5. CASE \E d \in Dump : \/ Trim(d) \/ FetchFromTape(d) \/ LookForRequests(d)
                           \/ DropDump(d) \/ DropBlob(d)
  BY <1>1, <1>5 DEF Trim, FetchFromTape, LookForRequests, DropDump, DropBlob,
                    files, staging, outside
<1> QED  BY <1>2, <1>3, <1>4, <1>5

-----------------------------------------------------------------------------
(***************************************************************************)
(* Types.                                                                  *)
(***************************************************************************)

\* What is typed but the rows and the children.
FilesTyped ==
  /\ disk \in [Dump -> Content]
  /\ link \in [Req -> Content]
  /\ volume \in [Req -> Content \cup {"part"}]
  /\ mount \subseteq Req
  /\ aged \subseteq Req
  /\ dumps \subseteq Dump
  /\ del \in [Dump -> {"no", "clear", "drop", "blob", "done"}]
  /\ left \subseteq Req
  /\ late \subseteq Req
  /\ {admin, deaths, trims} \subseteq Nat

LEMMA KidTypes ==
  ASSUME TypeOK, NEW k \in kids, KidStep(k) \/ Die(k)
  PROVE  FilesTyped' /\ UNCHANGED <<dumps, admin>>
<1> USE DEF FilesTyped, files, staging, outside
<1>1. /\ k.req \in Req /\ FilesTyped /\ {"none", "good", "bad"} = Content
      /\ disk[DumpOf[k.req]] \in Content
      /\ link[k.req] \in Content
  BY RestoreAssumption DEF TypeOK, Kid, Content
<1>2. CASE Die(k)
  BY <1>1, <1>2 DEF Die
<1>3. CASE KidStep(k) /\ UNCHANGED <<files, staging, outside>>
  BY <1>1, <1>3
<1>4. CASE /\ UNCHANGED <<disk, staging, outside>> /\ left' \subseteq Req
           /\ \E c \in Content : link' = [link EXCEPT ![k.req] = c]
  BY <1>1, <1>4
<1>5. CASE /\ UNCHANGED <<files, mount, aged, outside>>
           /\ \E c \in Content \cup {"part"} : volume' = [volume EXCEPT ![k.req] = c]
  BY <1>1, <1>5
<1>6. CASE UNCHANGED <<files, volume, aged, outside>> /\ mount' \subseteq Req
  BY <1>1, <1>6
<1>7. CASE UNCHANGED <<files, volume, mount, outside>> /\ aged' \subseteq aged
  BY <1>1, <1>7
<1>8. CASE Claim(k) \/ Link(k) \/ Claimed(k) \/ Unlink(k)
  <2>1. UNCHANGED <<disk, staging, outside>>
    BY <1>8 DEF Claim, Link, Claimed, Unlink
  <2>2. link = [link EXCEPT ![k.req] = link[k.req]]
    BY <1>1
  <2>3. \E c \in Content : link' = [link EXCEPT ![k.req] = c]
    BY <1>1, <1>8, <2>2 DEF Claim, Link, Claimed, Unlink, Content
  <2>4. left' \subseteq Req
    BY <1>1, <1>8 DEF Claim, Link, Claimed, Unlink
  <2> QED  BY <1>4, <2>1, <2>3, <2>4
<1>9. CASE Restoring(k) \/ Undo(k) \/ RemoveVolume(k)
  <2>1. UNCHANGED <<files, mount, aged, outside>>
    BY <1>9 DEF Restoring, Undo, RemoveVolume
  <2>2. volume = [volume EXCEPT ![k.req] = volume[k.req]] /\ volume[k.req] \in Content \cup {"part"}
    BY <1>1
  <2>3. \E c \in Content \cup {"part"} : volume' = [volume EXCEPT ![k.req] = c]
    BY <1>1, <1>9, <2>2 DEF Restoring, Undo, RemoveVolume
  <2> QED  BY <1>5, <2>1, <2>3
<1>10. CASE Mount(k) \/ RemoveMount(k)
  BY <1>1, <1>6, <1>10 DEF Mount, RemoveMount
<1>11. CASE Mounted(k)
  BY <1>1, <1>7, <1>11 DEF Mounted
<1>12. CASE \/ Authz(k) \/ Verify(k) \/ AskFor(k) \/ Request(k) \/ Wait(k) \/ Check(k)
            \/ Checksum(k) \/ Verified(k) \/ Start(k) \/ Restored(k) \/ Unlinked(k)
            \/ Notify(k) \/ Remove(k) \/ LookForMount(k) \/ Gone(k) \/ Removed(k)
            \/ Recover(k) \/ Fail(k)
  <2>1. UNCHANGED <<files, staging, outside>>
    BY <1>12 DEF Authz, Verify, AskFor, Request, Wait, Check, Checksum, Verified,
                 Start, Restored, Unlinked, Notify, Remove, LookForMount, Gone,
                 Removed, Recover, Fail
  <2> QED  BY <1>1, <2>1
<1> QED  BY <1>2, <1>8, <1>9, <1>10, <1>11, <1>12 DEF KidStep

LEMMA OtherTypes ==
  ASSUME TypeOK,
         \/ ServerStep \/ UNCHANGED vars
         \/ \E r \in Req : \/ Create(r) \/ Kill(r) \/ Retry(r)
                           \/ CleanTmp(r) \/ Tick(r) \/ Age(r)
         \/ \E d \in Dump : Trim(d) \/ FetchFromTape(d) \/ Delete(d)
  PROVE  FilesTyped'
<1> USE DEF FilesTyped, files, staging, outside
<1>1. FilesTyped /\ {"none", "good", "bad"} = Content
  BY DEF TypeOK, Content
<1>2. CASE UNCHANGED vars
  BY <1>1, <1>2 DEF vars
<1>3. CASE ServerStep
  <2>1. CASE \E pass \in Passes : Fork(pass)
    <3>1. PICK pass \in Passes : Fork(pass)
      BY <2>1
    <3>2. \A k \in kids : k.req \in Req
      BY DEF TypeOK, Kid
    <3>3. late' \subseteq Req
      BY <1>1, <3>1, <3>2 DEF Fork
    <3>4. UNCHANGED <<files, staging, dumps, del, admin, deaths, trims>>
      BY <3>1 DEF Fork
    <3> QED  BY <1>1, <3>3, <3>4
  <2>2. CASE (\E pass \in Passes : TakeUp(pass)) \/ FinishReqs
    <3>1. UNCHANGED <<files, staging, outside>>
      BY <2>2 DEF TakeUp, FinishReqs
    <3> QED  BY <1>1, <3>1
  <2> QED  BY <1>3, <2>1, <2>2 DEF ServerStep
<1>4. CASE \E r \in Req : Create(r) \/ Kill(r) \/ Retry(r) \/ Tick(r)
  <2>1. PICK r \in Req : Create(r) \/ Kill(r) \/ Retry(r) \/ Tick(r)
    BY <1>4
  <2>2. /\ UNCHANGED <<files, staging, dumps, del, late, deaths, trims>>
        /\ admin' \in {admin, admin + 1}
    BY <2>1 DEF Create, Kill, Retry, Tick
  <2> QED  BY <1>1, <2>2
<1>5. CASE \E r \in Req : CleanTmp(r) \/ Age(r)
  BY <1>1, <1>5 DEF CleanTmp, Age
<1>6. CASE \E d \in Dump : Trim(d) \/ FetchFromTape(d) \/ DropBlob(d)
  BY <1>1, <1>6 DEF Trim, FetchFromTape, DropBlob
<1>7. CASE \E d \in Dump : LookForRequests(d) \/ ClearRequests(d) \/ DropDump(d)
  <2>1. PICK d \in Dump : LookForRequests(d) \/ ClearRequests(d) \/ DropDump(d)
    BY <1>7
  <2>2. /\ UNCHANGED <<files, staging, late, admin, deaths, trims>>
        /\ dumps' \in {dumps, dumps \ {d}}
        /\ \E s \in {"no", "clear", "drop", "blob", "done"} : del' = [del EXCEPT ![d] = s]
    BY <2>1 DEF LookForRequests, ClearRequests, DropDump
  <2> QED  BY <1>1, <2>2
<1> QED  BY <1>2, <1>3, <1>4, <1>5, <1>6, <1>7 DEF Delete

-----------------------------------------------------------------------------
(***************************************************************************)
(* The invariant, and what follows from it.                                *)
(***************************************************************************)

LEMMA StageInit ==
  ASSUME Init
  PROVE  StageInv
<1> DEFINE y == NewRow("NONE")
<1>1. Fields(y, "NONE", NoState, 0, TRUE, FALSE, FALSE, FALSE, FALSE)
  BY StateFacts, NewFields
<1>2. \A r \in Req : req[r] = y
  BY DEF Init
<1>3. /\ req = [r \in Req |-> y] /\ kids = {}
      /\ disk \in [Dump -> {"none", "good"}]
      /\ link = [r \in Req |-> "none"] /\ volume = [r \in Req |-> "none"]
      /\ mount = {} /\ aged = {} /\ left = {} /\ dumps = Dump
      /\ del = [d \in Dump |-> "no"] /\ late = {}
      /\ admin = 0 /\ deaths = 0 /\ trims = 0
  BY DEF Init
<1> HIDE DEF y
<1>4. y \in Row /\ DueOk(y) /\ LastIsSet(y)
  BY <1>1 DEF Fields, DueOk, LastIsSet, Failures, RetryStates
<1>5. TypeOK
  BY <1>3, <1>4 DEF TypeOK, Content
<1>6. \A v, l, u : InPlace(y, l, u, v, FALSE, FALSE)
  BY <1>1 DEF Fields, InPlace, Reached, Failures, RetryStates, Absent, Trusted, Staged
<1>7. \A r \in Req : RequestOk(r)
  <2> SUFFICES ASSUME NEW r \in Req PROVE RequestOk(r)
    OBVIOUS
  <2>1. InPlace(y, link[r], r \in left, volume[r], FALSE, FALSE)
    BY <1>6
  <2>2. r \notin mount /\ r \notin aged /\ req[r] = y
    BY <1>2, <1>3
  <2>3. InPlace(req[r], link[r], r \in left, volume[r], r \in mount, r \in aged)
    BY <2>1, <2>2 DEF InPlace
  <2> QED  BY <1>4, <2>2, <2>3 DEF RequestOk
<1> QED  BY <1>2, <1>3, <1>4, <1>5, <1>7 DEF StageInv, WriterInv, OneWriter

LEMMA StageNext ==
  ASSUME StageInv, [Next]_vars
  PROVE  StageInv'
<1>1. Kept
  <2>1. CASE \E pass \in Passes : TakeUp(pass) \/ Fork(pass)
    BY <2>1, TakeUpKeeps, ForkKeeps
  <2>2. CASE FinishReqs
    BY <2>2, FinishReqsKeeps
  <2>3. CASE \E k \in kids : KidStep(k) \/ Die(k)
    BY <2>3, KidKeeps
  <2>4. CASE \E r \in Req : Create(r) \/ Kill(r) \/ Retry(r) \/ Tick(r)
    BY <2>4, CreateKeeps, KillKeeps, RetryKeeps, TickKeeps
  <2>5. CASE \E d \in Dump : ClearRequests(d)
    BY <2>5, ClearRequestsKeeps
  <2>6. CASE \/ UNCHANGED vars
             \/ \E r \in Req : CleanTmp(r) \/ Age(r)
             \/ \E d \in Dump : \/ Trim(d) \/ FetchFromTape(d) \/ LookForRequests(d)
                                \/ DropDump(d) \/ DropBlob(d)
    BY <2>6, RestKeeps
  <2> QED  BY <2>1, <2>2, <2>3, <2>4, <2>5, <2>6, Zenon DEF Next, ServerStep, Delete
<1>2. FilesTyped'
  <2>0. TypeOK
    BY DEF StageInv, WriterInv
  <2>1. CASE \E k \in kids : KidStep(k) \/ Die(k)
    BY <2>0, <2>1, KidTypes
  <2>2. CASE ~ \E k \in kids : KidStep(k) \/ Die(k)
    BY <2>0, <2>2, OtherTypes, Zenon DEF Next
  <2> QED  BY <2>1, <2>2
<1>3. TypeOK'
  BY <1>1, <1>2 DEF Kept, FilesTyped, TypeOK
<1> QED  BY <1>1, <1>3 DEF Kept, StageInv, WriterInv

\* The state keeps its shape.
THEOREM RestoreTypes == Spec => []TypeOK
<1>1. StageInv => TypeOK
  BY DEF StageInv, WriterInv
<1> QED  BY StageInit, StageNext, <1>1, PTL DEF Spec

\* Of the children of a request at most one can write its row, and what it
\* would write back is what the row holds.
THEOREM OnlyOneWrites == Spec => []OneWriter
<1>1. StageInv => OneWriter
  BY DEF StageInv, WriterInv
<1> QED  BY StageInit, StageNext, <1>1, PTL DEF Spec

\* What a user was told to find at the stage path is there, intact, until
\* stage/lifetime ends.
THEOREM StagedStays == Spec => []StagedIsKept
<1>1. StageInv => StagedIsKept
  BY RowFacts DEF StagedIsKept, InPlace
<1> QED  BY StageInit, StageNext, <1>1, PTL DEF Spec

\* A request that is DONE left nothing behind.
THEOREM NothingIsLeft == Spec => []DoneIsClean
<1>1. ASSUME StageInv PROVE DoneIsClean
  <2> SUFFICES ASSUME NEW r \in Req \ late, req[r].state = "DONE"
               PROVE  /\ link[r] = "none" \/ r \in left
                      /\ volume[r] = "none" /\ r \notin mount
    BY DEF DoneIsClean
  <2>1. Reached(req[r]) = "DONE"
    BY DEF Reached, Failures, RetryStates
  <2>2. InPlace(req[r], link[r], r \in left, volume[r], r \in mount, r \in aged)
    BY <1>1, RowFacts
  <2> QED  BY <2>1, <2>2 DEF InPlace, Staged
<1> QED  BY StageInit, StageNext, <1>1, PTL DEF Spec

\* A step that changes the row of a request that has ended, or that makes one.
LEMMA RowsLive ==
  ASSUME StageInv, Next, NEW r \in Req
  PROVE  \/ req'[r] = req[r]
         \/ req[r].state \in ActiveStates
         \/ req[r].state \notin Absent /\ (req'[r].state = "DELETED" \/ admin' # admin)
         \/ req[r].state = "NONE" /\ DumpOf[r] \in dumps /\ dumps' = dumps
<1>0. req \in [Req -> Row] /\ admin \in Nat
  BY DEF StageInv, WriterInv, TypeOK
<1>1. CASE \E k \in kids : KidStep(k) \/ Die(k)
  BY <1>1, KidRows
<1>2. CASE \E pass \in Passes : TakeUp(pass) \/ Fork(pass)
  <2>1. PICK pass \in Passes : TakeUp(pass) \/ Fork(pass)
    BY <1>2
  <2>2. pass.from \in ActiveStates /\ pass.start \in ActiveStates
    BY PassFacts
  <2>3. req'[r] = req[r] \/ r \in Due(pass.from) \cup Due(pass.start)
    BY <2>1 DEF TakeUp, Fork, Overwrite
  <2> QED  BY <2>2, <2>3 DEF Due
<1>3. CASE FinishReqs
  BY <1>3 DEF FinishReqs, Overwrite, ActiveStates, RestStates
<1>4. CASE \E q \in Req : Kill(q) \/ Retry(q)
  <2>1. PICK q \in Req : Kill(q) \/ Retry(q)
    BY <1>4
  <2>2. /\ admin' # admin
        /\ req'[r] = req[r] \/ r = q
        /\ req[q].state \notin Absent
    BY <1>0, <2>1 DEF Kill, Retry, Overwrite, Absent
  <2> QED  BY <2>2
<1>5. CASE \E q \in Req : Create(q)
  BY <1>5 DEF Create, Overwrite, outside
<1>6. CASE \E q \in Req : Tick(q)
  <2>1. PICK q \in Req : Tick(q)
    BY <1>6
  <2>2. DueOk(req[q]) /\ ~ req[q].due
    BY <2>1, RowFacts DEF Tick
  <2>3. req'[r] = req[r] \/ r = q
    BY <1>0, <2>1 DEF Tick
  <2> QED  BY <2>2, <2>3 DEF DueOk, ActiveStates, RestStates
<1>7. CASE \E q \in Req : CleanTmp(q) \/ Age(q)
  BY <1>7 DEF CleanTmp, Age
<1>8. CASE \E d \in Dump : ClearRequests(d)
  <2>1. PICK d \in Dump : ClearRequests(d)
    BY <1>8
  <2> DEFINE y == NewRow("DELETED")
  <2>2. y.state = "DELETED"
    BY DEF NewRow
  <2> HIDE DEF y
  <2>3. \/ req'[r] = req[r]
        \/ req'[r] = y /\ req[r].state \in EndStates
    BY <2>1 DEF ClearRequests, Overwrite, y
  <2> QED  BY <2>2, <2>3 DEF EndStates, Absent
<1>9. CASE \E d \in Dump : \/ Trim(d) \/ FetchFromTape(d) \/ LookForRequests(d)
                           \/ DropDump(d) \/ DropBlob(d)
  BY <1>9 DEF Trim, FetchFromTape, LookForRequests, DropDump, DropBlob
<1> QED  BY <1>1, <1>2, <1>3, <1>4, <1>5, <1>6, <1>7, <1>8, <1>9, Zenon
         DEF Next, ServerStep, Delete

\* DONE and FAILED are final but for operators.
THEOREM EndIsFinal == Spec => EndStays
<1> DEFINE Stays == \A r \in Req :
                      req[r].state \in EndStates =>
                        req'[r] = req[r] \/ req'[r].state = "DELETED" \/ admin' # admin
<1>1. ASSUME StageInv, [Next]_vars PROVE [Stays]_vars
  <2>1. CASE Next
    BY <1>1, <2>1, RowsLive DEF EndStates, ActiveStates, WorkStates, RestStates, RetryStates
  <2>2. CASE UNCHANGED vars
    BY <2>2
  <2> QED  BY <1>1, <2>1, <2>2
<1> QED  BY StageInit, StageNext, <1>1, PTL DEF Spec, EndStays

\* No request refers to a dump that dump-delete removed.
THEOREM DumpsAreThere == Spec => []RequestsHaveDumps
<1>1. Init => RequestsHaveDumps
  BY RestoreAssumption DEF Init, RequestsHaveDumps
<1>2. ASSUME StageInv, RequestsHaveDumps, [Next]_vars
      PROVE  RequestsHaveDumps'
  <2>1. CASE UNCHANGED vars
    BY <1>2, <2>1 DEF vars, outside, RequestsHaveDumps
  <2>2. CASE Next
    <3>1. CASE \E d \in Dump : DropDump(d)
      <4>1. PICK d \in Dump : DropDump(d)
        BY <3>1
      <4>2. /\ req' = req
            /\ \/ dumps' = dumps
               \/ dumps' = dumps \ {d} /\ ~ \E r \in Req : Refers(r, d)
        BY <4>1 DEF DropDump
      <4> QED  BY <1>2, <4>2 DEF RequestsHaveDumps, Refers
    <3>2. CASE ~ \E d \in Dump : DropDump(d)
      <4>1. dumps' = dumps
        <5>1. CASE \E k \in kids : KidStep(k) \/ Die(k)
          <6>1. TypeOK
            BY <1>2 DEF StageInv, WriterInv
          <6> QED  BY <5>1, <6>1, KidTypes
        <5>2. CASE ServerStep
          BY <5>2 DEF ServerStep, TakeUp, Fork, FinishReqs, outside
        <5>3. CASE \E r \in Req : \/ Create(r) \/ Kill(r) \/ Retry(r)
                                  \/ CleanTmp(r) \/ Tick(r) \/ Age(r)
          BY <5>3 DEF Create, Kill, Retry, CleanTmp, Tick, Age, outside
        <5>4. CASE \E d \in Dump : Trim(d) \/ FetchFromTape(d) \/ Delete(d)
          BY <3>2, <5>4 DEF Trim, FetchFromTape, Delete, LookForRequests, ClearRequests,
                            DropBlob, outside
        <5> QED  BY <2>2, <5>1, <5>2, <5>3, <5>4, Zenon DEF Next
      <4>2. ASSUME NEW r \in Req, req'[r].state \notin Absent PROVE DumpOf[r] \in dumps
        <5>1. CASE req[r].state \notin Absent
          BY <1>2, <5>1 DEF RequestsHaveDumps
        <5>2. CASE req[r].state \in Absent
          <6>1. req'[r] # req[r]
            BY <4>2, <5>2
          <6>2. req[r].state \notin ActiveStates
            BY <5>2 DEF Absent, ActiveStates, WorkStates, RestStates, RetryStates
          <6> QED  BY <1>2, <2>2, <5>2, <6>1, <6>2, RowsLive
        <5> QED  BY <5>1, <5>2
      <4> QED  BY <4>1, <4>2 DEF RequestsHaveDumps
    <3> QED  BY <3>1, <3>2
  <2> QED  BY <1>2, <2>1, <2>2
<1> QED  BY StageInit, StageNext, <1>1, <1>2, PTL DEF Spec

-----------------------------------------------------------------------------
(***************************************************************************)
(* Errors are counted and bounded.  The limit is looked at in do_recover,  *)
(* after an error: the first one is always allowed.                        *)
(***************************************************************************)

TryLimit == IF ErrorLimit = 0 THEN 1 ELSE ErrorLimit

\* A request that goes on has an error left.
TriesOk(row) ==
  /\ row.errors <= TryLimit
  /\ row.state \notin Failures => row.errors < TryLimit

TriesInv ==
  /\ StageInv
  /\ \A r \in Req : TriesOk(req[r])

\* No request meets more errors than that, unless an operator retries it.
TriesBounded == \A r \in Req : req[r].errors <= TryLimit

\* An update (of x to n) that counts an error or is none.
Counted(x, n) ==
  \/ /\ n.errors = x.errors
     /\ n.state # "ERROR"
     /\ n.state \in Failures \/ x.state \notin Failures \/ x.errors < ErrorLimit
  \/ /\ n.errors = x.errors + 1
     /\ n.state = "ERROR"
     /\ x.state \notin Failures

\* What becomes of a row: the errors of a request are forgotten when it is made,
\* deleted or retried.
CountStep(r) ==
  \/ req'[r] = req[r]
  \/ Counted(req[r], req'[r])
  \/ /\ req'[r].errors = 0
     /\ req'[r].state # "ERROR"
     /\ req'[r].state = "DELETED" \/ req[r].state = "NONE" \/ admin' # admin

\* A child leaves the row alone, or updates it from its own copy.
Updates(k) ==
  \/ req' = req
  \/ k.fresh /\ \E n : req' = [req EXCEPT ![k.req] = n] /\ Counted(k.row, n)

LEMMA TouchUpdates ==
  ASSUME NEW k, NEW at, NEW new, Touch(k, at, new), Counted(k.row, new)
  PROVE  Updates(k)
BY DEF Touch, Updates

LEMMA FinishUpdates ==
  ASSUME NEW k, NEW new, Finish(k, new), Counted(k.row, new)
  PROVE  Updates(k)
BY DEF Finish, Updates

\* An update within an attempt is no error.
LEMMA GoingOn ==
  ASSUME NEW x \in Row, x.state \notin Failures, NEW s \in State, s # "ERROR"
  PROVE  /\ Counted(x, To(x, s)) /\ Counted(x, Later(x, s))
         /\ \A b \in BOOLEAN : /\ Counted(x, [To(x, s) EXCEPT !.tmp = b])
                               /\ Counted(x, [To(x, s) EXCEPT !.staged = b])
                               /\ Counted(x, [To(x, s) EXCEPT !.path = b])
                               /\ Counted(x, [To(x, s) EXCEPT !.info = b])
<1>1. Counted(x, To(x, s)) /\ Counted(x, Later(x, s))
  <2> DEFINE y == To(x, s)
             z == Later(x, s)
  <2>1. /\ Fields(y, s, x.last, x.errors, TRUE, x.tmp, x.staged, x.path, x.info)
        /\ Fields(z, s, x.last, x.errors, FALSE, x.tmp, x.staged, x.path, x.info)
    BY ToFields
  <2> HIDE DEF y, z
  <2>2. Counted(x, y) /\ Counted(x, z)
    BY <2>1 DEF Fields, Counted
  <2> QED  BY <2>2 DEF y, z
<1>2. ASSUME NEW b \in BOOLEAN
      PROVE  /\ Counted(x, [To(x, s) EXCEPT !.tmp = b])
             /\ Counted(x, [To(x, s) EXCEPT !.staged = b])
             /\ Counted(x, [To(x, s) EXCEPT !.path = b])
             /\ Counted(x, [To(x, s) EXCEPT !.info = b])
  <2> DEFINE t == [To(x, s) EXCEPT !.tmp = b]
             v == [To(x, s) EXCEPT !.staged = b]
             p == [To(x, s) EXCEPT !.path = b]
             i == [To(x, s) EXCEPT !.info = b]
  <2>1. /\ Fields(t, s, x.last, x.errors, TRUE, b, x.staged, x.path, x.info)
        /\ Fields(v, s, x.last, x.errors, TRUE, x.tmp, b, x.path, x.info)
        /\ Fields(p, s, x.last, x.errors, TRUE, x.tmp, x.staged, b, x.info)
        /\ Fields(i, s, x.last, x.errors, TRUE, x.tmp, x.staged, x.path, b)
    BY ToAndField
  <2> HIDE DEF t, v, p, i
  <2>2. Counted(x, t) /\ Counted(x, v) /\ Counted(x, p) /\ Counted(x, i)
    BY <2>1 DEF Fields, Counted
  <2> QED  BY <2>2 DEF t, v, p, i
<1> QED  BY <1>1, <1>2

\* The state of a child's row, but for the child that recovers it.
LEMMA AtWork ==
  ASSUME StageInv, NEW k \in kids, k.at # "recover"
  PROVE  /\ k.row \in Row /\ k.row.state \in State
         /\ k.row.state \notin Failures /\ k.row.state # "ERROR"
<1>1. k.at \in Call /\ k.row \in Row /\ Fits(k.at, k.row.state)
  BY TheSetting DEF Setting
<1>2. k.row.state \in WorkStates \cup {"RESTORE_DONE"}
  BY <1>1 DEF Fits, Call, VerifyCalls, StageCalls, RemoveCalls, WorkStates
<1> QED  BY <1>1, <1>2 DEF Row, WorkStates, Failures, RetryStates

LEMMA VerifyUpdates ==
  ASSUME StageInv, NEW k \in kids,
         \/ Authz(k) \/ Verify(k) \/ Claimed(k) \/ AskFor(k) \/ Request(k)
         \/ Wait(k) \/ Check(k) \/ Verified(k)
  PROVE  Updates(k)
<1> DEFINE x == k.row
<1>1. k.at # "recover"
  BY DEF Authz, Verify, Claimed, AskFor, Request, Wait, Check, Verified
<1>2. x \in Row /\ x.state \in State /\ x.state \notin Failures /\ x.state # "ERROR"
  BY <1>1, AtWork
<1>3. /\ Counted(x, To(x, x.state))
      /\ Counted(x, To(x, "AUTHZ_DONE")) /\ Counted(x, To(x, "VERIFY_DONE"))
      /\ Counted(x, Later(x, "VERIFY_START"))
      /\ Counted(x, [To(x, x.state) EXCEPT !.tmp = FALSE])
      /\ Counted(x, [To(x, x.state) EXCEPT !.tmp = TRUE])
      /\ Counted(x, [To(x, x.state) EXCEPT !.info = TRUE])
  BY <1>2, GoingOn, StateFacts
<1>4. CASE Authz(k)
  BY <1>3, <1>4, FinishUpdates DEF Authz, Updates
<1>5. CASE Verify(k)
  BY <1>3, <1>5, TouchUpdates DEF Verify, Updates
<1>6. CASE Claimed(k)
  BY <1>3, <1>6, TouchUpdates DEF Claimed
<1>7. CASE AskFor(k)
  BY <1>3, <1>7, TouchUpdates DEF AskFor, Updates
<1>8. CASE Request(k)
  BY <1>3, <1>8, TouchUpdates DEF Request, Updates
<1>9. CASE Wait(k)
  BY <1>3, <1>9, FinishUpdates DEF Wait
<1>10. CASE Check(k)
  BY <1>3, <1>10, TouchUpdates DEF Check
<1>11. CASE Verified(k)
  BY <1>3, <1>11, FinishUpdates DEF Verified
<1> QED  BY <1>4, <1>5, <1>6, <1>7, <1>8, <1>9, <1>10, <1>11

LEMMA StageUpdates ==
  ASSUME StageInv, NEW k \in kids, Restored(k) \/ Unlinked(k) \/ Mounted(k)
  PROVE  Updates(k)
<1> DEFINE x == k.row
<1>1. k.at # "recover"
  BY DEF Restored, Unlinked, Mounted
<1>2. x \in Row /\ x.state \in State /\ x.state \notin Failures /\ x.state # "ERROR"
  BY <1>1, AtWork
<1>3. /\ Counted(x, [To(x, x.state) EXCEPT !.staged = TRUE])
      /\ Counted(x, [To(x, x.state) EXCEPT !.tmp = FALSE])
      /\ Counted(x, [To(x, "RESTORE_DONE") EXCEPT !.path = TRUE])
  BY <1>2, GoingOn, StateFacts
<1>4. CASE Restored(k)
  BY <1>3, <1>4, TouchUpdates DEF Restored, Updates
<1>5. CASE Unlinked(k)
  BY <1>3, <1>5, TouchUpdates DEF Unlinked
<1>6. CASE Mounted(k)
  BY <1>3, <1>6, TouchUpdates DEF Mounted
<1> QED  BY <1>4, <1>5, <1>6

LEMMA GoneUpdates ==
  ASSUME StageInv, NEW k \in kids, Gone(k)
  PROVE  Updates(k)
<1> DEFINE x == k.row
           y == To(x, x.state)
           new == [y EXCEPT !.staged = @ /\ volume[k.req] # "none",
                            !.path = @ /\ k.req \in mount]
<1>1. k.at # "recover"
  BY DEF Gone
<1>2. x \in Row /\ x.state \in State /\ x.state \notin Failures /\ x.state # "ERROR"
  BY <1>1, AtWork
<1>3. y \in Row /\ y.errors = x.errors /\ y.state = x.state
  BY <1>2, ToFields DEF Fields
<1>4. new.errors = x.errors /\ new.state = x.state
  <2> HIDE DEF y
  <2> QED  BY <1>3 DEF Row
<1>5. Touch(k, "removed", new) \/ req' = req
  BY DEF Gone
<1> HIDE DEF new
<1>6. Counted(x, new)
  BY <1>2, <1>4 DEF Counted
<1> QED  BY <1>5, <1>6, TouchUpdates DEF Updates

LEMMA RemoveUpdates ==
  ASSUME StageInv, NEW k \in kids, Remove(k) \/ LookForMount(k) \/ Removed(k)
  PROVE  Updates(k)
<1> DEFINE x == k.row
<1>1. k.at # "recover"
  BY DEF Remove, LookForMount, Removed
<1>2. x \in Row /\ x.state \in State /\ x.state \notin Failures /\ x.state # "ERROR"
  BY <1>1, AtWork
<1>3. /\ Counted(x, To(x, x.state)) /\ Counted(x, Later(x, "REMOVE_START"))
      /\ Counted(x, To(x, "REMOVE_START")) /\ Counted(x, To(x, "REMOVE_DONE"))
  BY <1>2, GoingOn, StateFacts
<1>4. CASE Remove(k)
  BY <1>3, <1>4, FinishUpdates, TouchUpdates DEF Remove, Updates
<1>5. CASE LookForMount(k)
  BY <1>3, <1>5, TouchUpdates DEF LookForMount, Updates
<1>6. CASE Removed(k)
  <2>1. \/ Finish(k, To(x, "REMOVE_START"))
        \/ Finish(k, To(x, "REMOVE_DONE"))
    BY <1>6 DEF Removed
  <2> QED  BY <1>3, <2>1, FinishUpdates
<1> QED  BY <1>4, <1>5, <1>6

\* Recovery goes on only below the limit, and what fails is counted.
LEMMA ErrorUpdates ==
  ASSUME StageInv, NEW k \in kids, Recover(k) \/ Fail(k)
  PROVE  Updates(k)
<1> DEFINE x == k.row
<1>0. x \in Row /\ x.errors \in Nat /\ ErrorLimit \in Nat
  BY TheSetting, RestoreAssumption DEF Setting, Row
<1>1. CASE Fail(k)
  <2>1. x.state \notin Failures
    BY <1>1, AtWork DEF Fail
  <2>2. Fields(Errored(x), "ERROR", x.state, x.errors + 1, TRUE,
               x.tmp, x.staged, x.path, x.info)
    BY <1>0, <2>1, ErroredFields DEF Failures
  <2>3. Counted(x, Errored(x))
    BY <2>1, <2>2 DEF Fields, Counted
  <2> QED  BY <1>1, <2>3, FinishUpdates DEF Fail
<1>2. CASE Finish(k, To(x, "FAILED"))
  <2> DEFINE new == To(x, "FAILED")
  <2>1. Fields(new, "FAILED", x.last, x.errors, TRUE, x.tmp, x.staged, x.path, x.info)
    BY <1>0, StateFacts, ToFields
  <2>2. Finish(k, new)
    BY <1>2
  <2> HIDE DEF new
  <2>3. Counted(x, new)
    BY <2>1 DEF Fields, Counted, Failures
  <2> QED  BY <2>2, <2>3, FinishUpdates
<1>3. CASE /\ x.errors < ErrorLimit /\ x.last \in WorkStates \cup RestStates
           /\ Finish(k, [To(x, RetryState[x.last]) EXCEPT !.last = NoState])
  <2> DEFINE s == RetryState[x.last]
             new == [To(x, s) EXCEPT !.last = NoState]
  <2>1. s \in State \ (Failures \cup Absent)
    BY <1>3, RetryFacts
  <2>2. Finish(k, new)
    BY <1>3
  <2> HIDE DEF s
  <2>3. Fields(new, s, NoState, x.errors, TRUE, x.tmp, x.staged, x.path, x.info)
    BY <1>0, <2>1, ToAndField
  <2> HIDE DEF new
  <2>4. Counted(x, new)
    BY <1>3, <2>1, <2>3 DEF Fields, Counted, Failures, RetryStates
  <2> QED  BY <2>2, <2>4, FinishUpdates
<1>4. Recover(k) =>
        \/ Finish(k, To(x, "FAILED"))
        \/ /\ x.errors < ErrorLimit /\ x.last \in WorkStates \cup RestStates
           /\ Finish(k, [To(x, RetryState[x.last]) EXCEPT !.last = NoState])
  BY <1>0 DEF Recover, RetryState
<1> QED  BY <1>1, <1>2, <1>3, <1>4

LEMMA KidUpdates ==
  ASSUME StageInv, NEW k \in kids, KidStep(k) \/ Die(k)
  PROVE  Updates(k)
<1>1. CASE Die(k)
  BY <1>1 DEF Die, Updates
<1>2. CASE \/ Claim(k) \/ Link(k) \/ Checksum(k) \/ Start(k) \/ Restoring(k)
           \/ Undo(k) \/ Unlink(k) \/ Mount(k) \/ Notify(k) \/ RemoveVolume(k)
           \/ RemoveMount(k)
  BY <1>2 DEF Claim, Link, Checksum, Start, Restoring, Undo, Unlink, Mount, Notify,
              RemoveVolume, RemoveMount, Updates
<1>3. CASE KidStep(k)
  BY <1>2, <1>3, VerifyUpdates, StageUpdates, GoneUpdates, RemoveUpdates, ErrorUpdates,
     Zenon DEF KidStep
<1> QED  BY <1>1, <1>3

\* What children do, as a row of the table.
LEMMA KidCounts ==
  ASSUME StageInv, NEW k \in kids, KidStep(k) \/ Die(k), NEW r \in Req
  PROVE  CountStep(r)
<1>1. CASE req' = req
  BY <1>1 DEF CountStep
<1>2. CASE k.fresh /\ \E n : req' = [req EXCEPT ![k.req] = n] /\ Counted(k.row, n)
  <2>1. PICK n : req' = [req EXCEPT ![k.req] = n] /\ Counted(k.row, n)
    BY <1>2
  <2>2. req \in [Req -> Row] /\ k.req \in Req /\ Same(k.row, req[k.req])
    BY <1>2, TheSetting DEF Setting, StageInv, WriterInv, TypeOK
  <2>3. Counted(req[k.req], n)
    BY <2>1, <2>2 DEF Same, Counted
  <2> QED  BY <2>1, <2>2, <2>3 DEF CountStep
<1> QED  BY <1>1, <1>2, KidUpdates DEF Updates

\* The server moves requests, and counts nothing.
LEMMA ServerCounts ==
  ASSUME StageInv, ServerStep, NEW r \in Req
  PROVE  CountStep(r)
<1> DEFINE x == req[r]
<1>0. x \in Row
  BY RowFacts
<1>1. ASSUME NEW s \in State, NEW t \in State, x.state = s, t # "ERROR",
             t \in Failures \/ s \notin Failures
      PROVE  Counted(x, To(x, t))
  <2> DEFINE y == To(x, t)
  <2>1. Fields(y, t, x.last, x.errors, TRUE, x.tmp, x.staged, x.path, x.info)
    BY <1>0, ToFields
  <2> HIDE DEF y
  <2>2. Counted(x, y)
    BY <1>1, <2>1 DEF Fields, Counted
  <2> QED  BY <2>2 DEF y
<1>2. ASSUME NEW pass \in Passes, TakeUp(pass) \/ Fork(pass)
      PROVE  CountStep(r)
  <2>1. /\ {pass.from, pass.start, pass.work} \subseteq State
        /\ pass.start # "ERROR" /\ pass.work # "ERROR"
        /\ pass.from \in Failures => pass.start \in Failures
        /\ pass.start \in Failures => pass.work \in Failures
    BY PassFacts DEF Passes
  <2>2. \/ req'[r] = x
        \/ req'[r] = To(x, pass.start) /\ x.state = pass.from
        \/ req'[r] = To(x, pass.work) /\ x.state = pass.start
    BY <1>2 DEF TakeUp, Fork, Overwrite, Due
  <2> QED  BY <1>1, <2>1, <2>2 DEF CountStep
<1>3. ASSUME FinishReqs PROVE CountStep(r)
  <2>1. \/ req'[r] = x
        \/ req'[r] = To(x, "DONE") /\ x.state = "REMOVE_DONE"
    BY <1>3 DEF FinishReqs, Overwrite
  <2>2. "REMOVE_DONE" \in State \ Failures /\ "DONE" \in State /\ "DONE" # "ERROR"
    BY StateFacts DEF Failures, RetryStates
  <2>3. x.state = "REMOVE_DONE" => Counted(x, To(x, "DONE"))
    BY <1>1, <2>2
  <2> QED  BY <2>1, <2>3 DEF CountStep
<1> QED  BY <1>2, <1>3 DEF ServerStep

\* Operators kill, and they retry with no errors.
LEMMA OperatorCounts ==
  ASSUME StageInv, NEW q \in Req, Create(q) \/ Kill(q) \/ Retry(q), NEW r \in Req
  PROVE  CountStep(r)
<1> DEFINE x == req[r]
<1>0. x \in Row /\ admin \in Nat /\ (admin + 1 # admin)
  BY RowFacts DEF StageInv, WriterInv, TypeOK
<1>1. CASE r # q
  BY <1>1 DEF Create, Kill, Retry, Overwrite, CountStep
<1>2. CASE r = q /\ Create(q)
  <2> DEFINE y == NewRow("NEW")
  <2>1. req'[r] = y /\ x.state = "NONE"
    BY <1>2 DEF Create, Overwrite
  <2>2. Fields(y, "NEW", NoState, 0, TRUE, FALSE, FALSE, FALSE, FALSE)
    BY StateFacts, NewFields
  <2> HIDE DEF y
  <2> QED  BY <2>1, <2>2 DEF Fields, CountStep
<1>3. CASE r = q /\ Kill(q)
  <2> DEFINE y == To(x, "FAILED")
             l == IF y.last = NoState THEN x.state ELSE y.last
             z == [y EXCEPT !.last = l]
  <2>1. req'[r] = z
    BY <1>3, Zenon DEF Kill, Overwrite
  <2>2. l \in State \cup {NoState}
    <3>1. Fields(y, "FAILED", x.last, x.errors, TRUE, x.tmp, x.staged, x.path, x.info)
      BY <1>0, StateFacts, ToFields
    <3> HIDE DEF y
    <3> QED  BY <1>0, <3>1 DEF Fields, Row
  <2> HIDE DEF l
  <2>3. Fields(z, "FAILED", l, x.errors, TRUE, x.tmp, x.staged, x.path, x.info)
    BY <1>0, <2>2, StateFacts, ToAndField
  <2> HIDE DEF z
  <2> QED  BY <2>1, <2>3 DEF Fields, CountStep, Counted, Failures
<1>4. CASE r = q /\ Retry(q)
  <2> DEFINE y == [To(x, "RESTORE_RECOVER_START") EXCEPT !.errors = 0]
  <2>1. req'[r] = y /\ admin' # admin
    BY <1>0, <1>4 DEF Retry, Overwrite
  <2>2. Fields(y, "RESTORE_RECOVER_START", x.last, 0, TRUE,
               x.tmp, x.staged, x.path, x.info)
    BY <1>0, StateFacts, ToAndField
  <2> HIDE DEF y
  <2> QED  BY <2>1, <2>2 DEF Fields, CountStep
<1> QED  BY <1>1, <1>2, <1>3, <1>4

LEMMA TickCounts ==
  ASSUME StageInv, NEW q \in Req, Tick(q), NEW r \in Req
  PROVE  CountStep(r)
<1> DEFINE x == req[q]
           y == [x EXCEPT !.due = TRUE]
<1>1. x \in Row /\ x.state \in {"VERIFY_START", "REMOVE_START"}
  BY RowFacts DEF Tick, DueOk
<1>2. Fields(y, x.state, x.last, x.errors, TRUE, x.tmp, x.staged, x.path, x.info)
  BY <1>1, OneField
<1>3. req \in [Req -> Row] /\ req' = [req EXCEPT ![q] = y]
  BY DEF Tick, StageInv, WriterInv, TypeOK
<1> HIDE DEF y
<1>4. Counted(x, y)
  BY <1>1, <1>2 DEF Fields, Counted, Failures, RetryStates
<1>5. CASE r = q
  <2>1. req[r] = x /\ req'[r] = y
    BY <1>3, <1>5
  <2> QED  BY <1>4, <2>1 DEF CountStep, Counted
<1>6. CASE r # q
  <2>1. req'[r] = req[r]
    BY <1>3, <1>6
  <2> QED  BY <2>1 DEF CountStep
<1> QED  BY <1>5, <1>6

\* The table is complete.
LEMMA NextCounts ==
  ASSUME StageInv, [Next]_vars, NEW r \in Req
  PROVE  CountStep(r)
<1>1. CASE \E k \in kids : KidStep(k) \/ Die(k)
  BY <1>1, KidCounts
<1>2. CASE ServerStep
  BY <1>2, ServerCounts
<1>3. CASE \E q \in Req : Create(q) \/ Kill(q) \/ Retry(q) \/ Tick(q)
  BY <1>3, OperatorCounts, TickCounts
<1>4. CASE \E d \in Dump : ClearRequests(d)
  <2> DEFINE y == NewRow("DELETED")
  <2>1. Fields(y, "DELETED", NoState, 0, TRUE, FALSE, FALSE, FALSE, FALSE)
    BY StateFacts, NewFields
  <2>2. req'[r] = req[r] \/ req'[r] = y
    BY <1>4 DEF ClearRequests, Overwrite
  <2> HIDE DEF y
  <2> QED  BY <2>1, <2>2 DEF Fields, CountStep
<1>5. CASE \/ UNCHANGED vars
           \/ \E q \in Req : CleanTmp(q) \/ Age(q)
           \/ \E d \in Dump : \/ Trim(d) \/ FetchFromTape(d) \/ LookForRequests(d)
                              \/ DropDump(d) \/ DropBlob(d)
  BY <1>5 DEF vars, CleanTmp, Age, Trim, FetchFromTape, LookForRequests, DropDump,
              DropBlob, CountStep
<1> QED  BY <1>1, <1>2, <1>3, <1>4, <1>5, Zenon DEF Next, Delete

LEMMA InitTries ==
  ASSUME Init
  PROVE  TriesInv
<1>1. Fields(NewRow("NONE"), "NONE", NoState, 0, TRUE, FALSE, FALSE, FALSE, FALSE)
  BY StateFacts, NewFields
<1>2. ASSUME NEW r \in Req PROVE TriesOk(req[r])
  <2>1. req[r] = NewRow("NONE") /\ TryLimit \in Nat \ {0}
    BY RestoreAssumption DEF Init, TryLimit
  <2> QED  BY <1>1, <2>1 DEF Fields, TriesOk
<1> QED  BY <1>2, StageInit DEF TriesInv

LEMMA NextTries ==
  ASSUME TriesInv, [Next]_vars
  PROVE  TriesInv'
<1>0. StageInv /\ StageInv'
  BY StageNext DEF TriesInv
<1>1. ASSUME NEW r \in Req PROVE TriesOk(req[r])'
  <2> DEFINE x == req[r]
             n == req'[r]
  <2>1. CountStep(r) /\ TriesOk(x) /\ x.errors \in Nat
    BY <1>0, NextCounts, RowFacts DEF TriesInv, Row
  <2>2. TryLimit \in Nat \ {0} /\ ErrorLimit \in Nat /\ ErrorLimit <= TryLimit
    BY RestoreAssumption DEF TryLimit
  <2>3. TriesOk(n)
    <3>1. CASE n = x
      BY <2>1, <3>1
    <3>2. CASE Counted(x, n)
      BY <2>1, <2>2, <3>2 DEF Counted, TriesOk, Failures, RetryStates
    <3>3. CASE n.errors = 0
      BY <2>2, <3>3 DEF TriesOk
    <3> QED  BY <2>1, <3>1, <3>2, <3>3 DEF CountStep
  <2> QED  BY <2>3 DEF TriesOk, TryLimit
<1> QED  BY <1>0, <1>1 DEF TriesInv

\* A request meets no more errors than the limit, and a first one: it is given up,
\* whatever fails, dies or is late, unless an operator retries it
\* (RestoreRequest.error, do_recover).
THEOREM RequestsAreGivenUp == Spec => []TriesBounded
<1>1. TriesInv => TriesBounded
  BY DEF TriesInv, TriesOk, TriesBounded
<1> QED  BY <1>1, InitTries, NextTries, PTL DEF Spec

\* What a step does to the errors of each request.
ErrorsCounted ==
  \A r \in Req :
    /\ req'[r].state = "ERROR" /\ req[r].state # "ERROR" =>
         req'[r].errors = req[r].errors + 1
    /\ req'[r].errors # req[r].errors =>
         \/ req'[r].errors = req[r].errors + 1 /\ req'[r].state = "ERROR"
         \/ /\ req'[r].errors = 0
            /\ \/ req'[r].state = "DELETED"
               \/ req[r].state = "NONE"
               \/ admin' # admin

\* Each error is counted, once, and no error is forgotten but with the request, or
\* when an operator retries it.
THEOREM EveryErrorCounts == Spec => [][ErrorsCounted]_vars
<1>1. ASSUME StageInv, [Next]_vars PROVE [ErrorsCounted]_vars
  BY <1>1, NextCounts DEF CountStep, Counted, ErrorsCounted
<1> QED  BY <1>1, StageInit, StageNext, PTL DEF Spec

=============================================================================
