--------------------------- MODULE Archive_proof ---------------------------
(***************************************************************************)
(* Theorems about the archive of dumps.                                    *)
(*                                                                         *)
(* Each theorem has an invariant of its own, over the part of the state    *)
(* that it is about, and one lemma on the steps for each way in which they *)
(* change that part.                                                       *)
(***************************************************************************)
EXTENDS Archive, Storage_proof

-----------------------------------------------------------------------------
(***************************************************************************)
(* Types.                                                                  *)
(***************************************************************************)

KidPlaces ==
  {"look", "compare", "clone", "examine", "alloc", "links", "record", "told", "bring",
   "end", "failed", "skipped"}
VolumeRec == [content : Nat, updated : Nat]
CloneRec == [content : Nat, updated : Nat, created : Nat]
KidRec ==
  [at : KidPlaces, seen : VolumeRec, last : Nat, hdr : CloneRec, mtime : Nat,
   store : Store \cup {NoStore}, size : Nat, content : Nat]
RowRec ==
  [job : Job, store : Store, size : Nat, created : Nat, updated : Nat, content : Nat,
   again : BOOLEAN]

KidTypes ==
  /\ kid \in [Job -> KidRec]
  /\ \A j \in Job : kid[j].at = "record" => kid[j].store \in Store

AfsTypes ==
  /\ volume \in [Volume -> VolumeRec]
  /\ clone \in [Volume -> CloneRec]
  /\ clock \in 0 .. MaxTime
  /\ faults \in 0 .. MaxFaults

RowTypes ==
  /\ nextId \in Nat \ {0}
  /\ DOMAIN dumps \subseteq 1 .. nextId - 1
  /\ \A id \in DOMAIN dumps : dumps[id] \in RowRec
  /\ linked \subseteq Job
  /\ muddled \subseteq Volume

\* What was read of a volume is not newer than the volume, nor than the clock.
TimeInv ==
  /\ \A v \in Volume :
       /\ volume[v].updated <= clock /\ clone[v].created <= clock
       /\ clone[v].content <= volume[v].content
  /\ \A id \in DOMAIN dumps : dumps[id].created <= clock
  /\ \A j \in Job :
       /\ kid[j].hdr.created <= clock
       /\ kid[j].seen.content <= volume[VolOf[j]].content
       /\ kid[j].at = "alloc" => kid[j].hdr.created <= clone[VolOf[j]].created

\* The room that a job asks for, and what it takes of it.
SizeOk(j) ==
  /\ alloc[j].at # "none" => alloc[j].need = RoundUp(Estimate[j])
  /\ alloc[j].size \in 0 .. alloc[j].need \cup Size[j]

TypeInv ==
  /\ StoreInv
  /\ \A j \in Job : SizeOk(j)
  /\ KidTypes
  /\ AfsTypes
  /\ RowTypes
  /\ TimeInv

LEMMA Assumed ==
  /\ VolOf \in [Job -> Volume]
  /\ Injected \subseteq Job /\ Early \in Seq(Job) /\ Home \in Store
  /\ Estimate \in [Job -> Nat]
  /\ \A j \in Job : Size[j] \subseteq Nat
  /\ FudgeTime \in Nat /\ MaxAge \in Nat /\ MaxFaults \in Nat /\ MaxWrites \in Nat
  /\ MaxTime \in Nat /\ MaxTime > 0
  /\ Date \subseteq Nat /\ MaxFound \subseteq Nat
  BY ArchiveAssumption

-----------------------------------------------------------------------------
(***************************************************************************)
(* What steps do to the storage.                                           *)
(***************************************************************************)

StoreStepOf(j) ==
  \/ Ask(j, Estimate[j]) /\ UNCHANGED <<lock, blob, litter>>
  \/ Lock(j) \/ Choose(j) \/ Fill(j) \/ FillFails(j)
  \/ \E size \in Size[j] : Write(j, size)
  \/ Empty(j)
  \/ Copy(j, Estimate[j])
  \/ \E mtime \in Nat : Commit(j, mtime)
  \/ Cleanup(j)
  \/ Drop(j)

StoreStep ==
  \/ UNCHANGED storage
  \/ \E j \in Job : StoreStepOf(j)
  \/ CleanTmp
  \/ \E b \in Store \X Job : Unlink(b)

LEMMA StoreStepKept ==
  ASSUME StoreInv, StoreStep
  PROVE  StoreInv'
<1>1. CASE UNCHANGED storage
  BY <1>1, StorageSame
<1>2. ASSUME NEW j \in Job, StoreStepOf(j) PROVE StoreInv'
  <2>0. Estimate[j] \in Nat /\ Size[j] \subseteq Nat
    BY Assumed
  <2>1. CASE Ask(j, Estimate[j]) /\ UNCHANGED <<lock, blob, litter>>
    BY <2>0, <2>1, AskKept
  <2>2. CASE Lock(j)
    BY <2>2, LockKept
  <2>3. CASE Choose(j)
    BY <2>3, ChooseKept
  <2>4. CASE Fill(j)
    BY <2>4, FillKept
  <2>5. CASE FillFails(j)
    BY <2>5, FillFailsKept
  <2>6. CASE \E size \in Size[j] : Write(j, size)
    BY <2>0, <2>6, WriteKept
  <2>7. CASE Empty(j)
    BY <2>7, EmptyKept
  <2>8. CASE Copy(j, Estimate[j])
    BY <2>0, <2>8, CopyKept
  <2>9. CASE \E mtime \in Nat : Commit(j, mtime)
    BY <2>9, CommitKept
  <2>10. CASE Cleanup(j)
    BY <2>10, CleanupKept
  <2>11. CASE Drop(j)
    BY <2>11, DropKept
  <2> QED
    BY <1>2, <2>1, <2>2, <2>3, <2>4, <2>5, <2>6, <2>7, <2>8, <2>9, <2>10, <2>11 DEF StoreStepOf
<1>3. CASE CleanTmp
  BY <1>3, CleanTmpKept
<1>4. CASE \E b \in Store \X Job : Unlink(b)
  BY <1>4, UnlinkKept
<1> QED  BY <1>1, <1>2, <1>3, <1>4 DEF StoreStep

\* The call of one job, if it needs and takes what it should.
LEMMA SizeSet ==
  ASSUME StoreInv, \A i \in Job : SizeOk(i), NEW j \in Job, NEW a, Set(j, a),
         a.at # "none" => a.need = RoundUp(Estimate[j]),
         a.size \in 0 .. a.need \cup Size[j]
  PROVE  (\A i \in Job : SizeOk(i))'
<1>1. alloc' = [alloc EXCEPT ![j] = a] /\ alloc \in [Job -> AllocRec]
  BY DEF Set, StoreInv, StoreTypes
<1>2. alloc'[j] = a /\ \A i \in Job \ {j} : alloc'[i] = alloc[i]
  BY <1>1
<1> QED  BY <1>2 DEF SizeOk

LEMMA SizeNone ==
  ASSUME NEW j \in Job, NEW need \in Buffers, NEW at
  PROVE  NewAlloc(at, need).size \in 0 .. NewAlloc(at, need).need \cup Size[j]
<1>1. need \in Nat /\ 0 \in 0 .. need
  BY BuffersFacts
<1> QED  BY <1>1 DEF NewAlloc

LEMMA SizeGrow ==
  ASSUME StoreInv, \A i \in Job : SizeOk(i), NEW j \in Job, NEW size, Grow(j, size),
         alloc[j].at # "none", size \in 0 .. alloc[j].need \cup Size[j]
  PROVE  (\A i \in Job : SizeOk(i))'
<1>1. ASSUME NEW i \in Job
      PROVE  /\ i # j => alloc'[i].at = alloc[i].at /\ alloc'[i].size = alloc[i].size
             /\ i = j => alloc'[i].size = size
             /\ alloc'[i].need = alloc[i].need
  <2>1. alloc[i] \in AllocRec
    BY CallFacts
  <2> QED  BY <2>1 DEF Grow, AllocRec
<1>2. SizeOk(j)'
  BY <1>1 DEF SizeOk
<1>3. ASSUME NEW i \in Job \ {j} PROVE SizeOk(i)'
  BY <1>1 DEF SizeOk
<1> QED  BY <1>2, <1>3

LEMMA SizeStep ==
  ASSUME StoreInv, \A i \in Job : SizeOk(i), StoreStep
  PROVE  (\A i \in Job : SizeOk(i))'
<1> DEFINE Sizes == \A i \in Job : SizeOk(i)
<1>1. CASE UNCHANGED alloc
  BY <1>1 DEF SizeOk
<1>2. ASSUME NEW j \in Job, StoreStepOf(j) PROVE Sizes'
  <2>0. /\ Estimate[j] \in Nat /\ Size[j] \subseteq Nat /\ alloc[j] \in AllocRec
        /\ RoundUp(Estimate[j]) \in Buffers /\ RoundUp(Estimate[j]) \in Nat
        /\ Estimate[j] < RoundUp(Estimate[j])
    BY Assumed, CallFacts, BuffersFacts
  <2>1. SizeOk(j) /\ AllocOk(j)
    BY DEF StoreInv
  <2>2. CASE Ask(j, Estimate[j])
    <3> DEFINE a == NewAlloc("lock", RoundUp(Estimate[j]))
    <3>1. a.at = "lock" /\ a.need = RoundUp(Estimate[j]) /\ a.size \in 0 .. a.need \cup Size[j]
      BY <2>0, SizeNone DEF NewAlloc
    <3>2. Set(j, a)
      BY <2>2 DEF Ask
    <3> HIDE DEF a
    <3> QED  BY <3>1, <3>2, SizeSet
  <2>3. CASE Lock(j)
    <3> DEFINE a == [alloc[j] EXCEPT !.at = "choose"]
    <3>1. Set(j, a) /\ alloc[j].at = "lock"
      BY <2>3 DEF Lock, At
    <3>2. a.at = "choose" /\ a.need = alloc[j].need /\ a.size = alloc[j].size
      BY <2>0 DEF AllocRec
    <3> HIDE DEF a
    <3> QED  BY <2>1, <3>1, <3>2, SizeSet DEF SizeOk
  <2>4. CASE Choose(j)
    <3>0. \/ \E s \in Best(Store \ alloc[j].bad) :
               Set(j, [alloc[j] EXCEPT !.at = "fill", !.store = s, !.left = alloc[j].need,
                                       !.robbed = FALSE])
          \/ Set(j, [alloc[j] EXCEPT !.at = "failed"])
      BY <2>4 DEF Choose
    <3>1. PICK a : /\ Set(j, a) /\ a.need = alloc[j].need /\ a.size = alloc[j].size
      <4>1. ASSUME NEW s, Set(j, [alloc[j] EXCEPT !.at = "fill", !.store = s,
                                      !.left = alloc[j].need, !.robbed = FALSE])
            PROVE  \E a : /\ Set(j, a) /\ a.need = alloc[j].need /\ a.size = alloc[j].size
        <5> DEFINE a == [alloc[j] EXCEPT !.at = "fill", !.store = s, !.left = alloc[j].need,
                                         !.robbed = FALSE]
        <5>1. a.need = alloc[j].need /\ a.size = alloc[j].size
          BY <2>0 DEF AllocRec
        <5> QED  BY <4>1, <5>1
      <4>2. ASSUME Set(j, [alloc[j] EXCEPT !.at = "failed"])
            PROVE  \E a : /\ Set(j, a) /\ a.need = alloc[j].need /\ a.size = alloc[j].size
        <5> DEFINE a == [alloc[j] EXCEPT !.at = "failed"]
        <5>1. a.need = alloc[j].need /\ a.size = alloc[j].size
          BY <2>0 DEF AllocRec
        <5> QED  BY <4>2, <5>1
      <4> QED  BY <3>0, <4>1, <4>2
    <3>2. alloc[j].at # "none"
      BY <2>4 DEF Choose, At
    <3> QED  BY <2>1, <3>1, <3>2, SizeSet DEF SizeOk
  <2>5. CASE Fill(j)
    <3> DEFINE a == [alloc[j] EXCEPT !.size = @ + BufSize, !.left = alloc[j].left - BufSize,
                                     !.at = IF alloc[j].left - BufSize = 0 THEN "got" ELSE "fill"]
    <3>1. Set(j, a) /\ alloc[j].at = "fill"
      BY <2>5 DEF Fill, At
    <3>2. a.need = alloc[j].need /\ a.size = alloc[j].size + BufSize
      BY <2>0 DEF AllocRec
    <3> HIDE DEF a
    <3>3. /\ alloc[j].left > 0 /\ alloc[j].left \in Buffers /\ alloc[j].left \in Nat
          /\ alloc[j].size + alloc[j].left = alloc[j].need
          /\ alloc[j].size \in Nat /\ alloc[j].need \in Nat
      BY <2>0, <2>1, <3>1, CallFacts DEF AllocOk, AllocRec
    <3>4. alloc[j].left - BufSize \in Nat /\ BufSize \in Nat
      BY <3>3, BuffersFacts, BufferFacts DEF Buffer
    <3>5. a.size \in 0 .. a.need
      BY <3>2, <3>3, <3>4
    <3> QED  BY <2>1, <3>1, <3>2, <3>5, SizeSet DEF SizeOk
  <2>6. CASE FillFails(j)
    <3> DEFINE c == WithoutFile(alloc[j])
               b == [c EXCEPT !.at = "lock"]
               a == [b EXCEPT !.bad = @ \cup {alloc[j].store}]
    <3>1. Set(j, a) /\ alloc[j].at = "fill"
      BY <2>6 DEF FillFails, At
    <3>2. c.need = alloc[j].need /\ c.size = 0
      BY <2>0 DEF AllocRec, WithoutFile
    <3> HIDE DEF c
    <3>3. b.need = alloc[j].need /\ b.size = 0
      BY <3>2
    <3> HIDE DEF b
    <3>4. a.need = alloc[j].need /\ a.size = 0
      BY <3>3
    <3> HIDE DEF a
    <3>5. alloc[j].need \in Nat
      BY CallFacts
    <3> QED  BY <2>1, <3>1, <3>4, <3>5, SizeSet DEF SizeOk
  <2>7. ASSUME NEW size \in Size[j], Write(j, size) PROVE Sizes'
    <3>1. alloc[j].at # "none"
      BY <2>7 DEF Write, At
    <3>2. CASE Grow(j, size)
      BY <2>7, <3>1, <3>2, SizeGrow
    <3>3. CASE Set(j, [alloc[j] EXCEPT !.size = size, !.at = "have"])
      <4> DEFINE a == [alloc[j] EXCEPT !.size = size, !.at = "have"]
      <4>1. a.need = alloc[j].need /\ a.size = size
        BY <2>0 DEF AllocRec
      <4>2. Set(j, a)
        BY <3>3
      <4> HIDE DEF a
      <4> QED  BY <2>1, <2>7, <3>1, <4>1, <4>2, SizeSet DEF SizeOk
    <3> QED  BY <2>7, <3>2, <3>3 DEF Write
  <2>8. CASE Empty(j)
    <3> DEFINE a == [alloc[j] EXCEPT !.size = 0, !.at = "copy"]
    <3>1. Set(j, a) /\ alloc[j].at = "got"
      BY <2>8 DEF Empty, At
    <3>2. a.need = alloc[j].need /\ a.size = 0
      BY <2>0 DEF AllocRec
    <3> HIDE DEF a
    <3>3. alloc[j].need \in Nat
      BY CallFacts
    <3> QED  BY <2>1, <3>1, <3>2, <3>3, SizeSet DEF SizeOk
  <2>9. CASE Copy(j, Estimate[j])
    <3>1. alloc[j].at = "copy" /\ Grow(j, Estimate[j])
      BY <2>9 DEF Copy, At
    <3>2. Estimate[j] \in 0 .. alloc[j].need
      BY <2>0, <2>1, <3>1 DEF SizeOk
    <3> QED  BY <3>1, <3>2, SizeGrow
  <2>10. CASE Set(j, NoAlloc)
    <3>1. NoAlloc.at = "none" /\ NoAlloc.size \in 0 .. NoAlloc.need \cup Size[j]
      BY BuffersFacts, SizeNone DEF NoAlloc, NewAlloc
    <3> QED  BY <2>10, <3>1, SizeSet
  <2>11. ASSUME NEW mtime \in Nat, Commit(j, mtime) PROVE Sizes'
    BY <2>10, <2>11 DEF Commit
  <2> QED
    BY <1>2, <2>2, <2>3, <2>4, <2>5, <2>6, <2>7, <2>8, <2>9, <2>10, <2>11
       DEF StoreStepOf, Cleanup, Drop
<1>3. CASE CleanTmp
  <2>1. ASSUME NEW i \in Job PROVE alloc'[i] \in {alloc[i], WithoutFile(alloc[i])}
    BY <1>3 DEF CleanTmp
  <2>2. ASSUME NEW i \in Job PROVE SizeOk(i)'
    <3>1. alloc[i] \in AllocRec /\ alloc[i].need \in Nat /\ SizeOk(i)
      BY CallFacts
    <3>2. /\ WithoutFile(alloc[i]).at = alloc[i].at /\ WithoutFile(alloc[i]).need = alloc[i].need
          /\ WithoutFile(alloc[i]).size = 0
      BY <3>1 DEF WithoutFile, AllocRec
    <3>3. /\ alloc'[i].at = alloc[i].at /\ alloc'[i].need = alloc[i].need
          /\ alloc'[i].size \in {alloc[i].size, 0}
      BY <2>1, <3>2
    <3>4. 0 \in 0 .. alloc[i].need
      BY <3>1
    <3> QED  BY <3>1, <3>3, <3>4 DEF SizeOk
  <2> QED  BY <2>2
<1> QED  BY <1>1, <1>2, <1>3 DEF StoreStep, Unlink, storage

-----------------------------------------------------------------------------
(***************************************************************************)
(* What steps do to the rest: nothing, or the child of a job goes on, or   *)
(* a clone, a row, or a volume is changed.                                 *)
(***************************************************************************)

\* How the child of a job may go on.
KidWay(j, k) ==
  /\ k \in KidRec
  /\ k.hdr.created <= clock
  /\ k.seen \in {kid[j].seen, Fresh, volume[VolOf[j]]}
  /\ k.at = "alloc" => k.hdr.created <= clone[VolOf[j]].created
  /\ k.at \in {"links", "record"} =>
       /\ k.hdr = kid[j].hdr
       /\ \/ kid[j].at = "links" /\ k.content = kid[j].content
          \/ kid[j].at = "alloc" /\ k.content = clone[VolOf[j]].content
  /\ k.at = "record" => k.store \in Store
  /\ k.at = "skipped" =>
       /\ k.seen = kid[j].seen
       /\ \E id \in RowsOf(VolOf[j]) :
            k.last = dumps[id].content /\ dumps[id].created >= k.seen.updated + FudgeTime
  /\ k.at \in {"told", "end"} => kid[j].at = "told"

ViewStep ==
  \/ UNCHANGED <<kid, volume, clone, dumps, nextId, muddled>>
  \/ /\ \E j \in Job, k \in KidRec : Move(j, k) /\ KidWay(j, k)
     /\ UNCHANGED <<volume, clone, dumps, nextId, muddled>>
  \/ \E j \in Job : Clone(j) \/ Recorded(j)
  \/ \E id \in DOMAIN dumps : Delete(id)
  \/ \E v \in Volume : Change(v)

Little ==
  /\ clock' \in {clock, clock + 1} /\ clock' \in 0 .. MaxTime
  /\ faults' \in 0 .. MaxFaults
  /\ linked' \subseteq Job

\* Files of dumps go only in two ways.
Goes ==
  \/ DOMAIN blob \subseteq DOMAIN blob'
  \/ (\E b \in DOMAIN blob : Trim(b)) \/ (\E id \in DOMAIN dumps : Delete(id))

LEMMA HighestIs ==
  ASSUME NEW n \in Nat, NEW ids \in SUBSET (1 .. n), ids # {}
  PROVE  Highest(ids) \in ids /\ \A i \in ids : i <= Highest(ids)
<1> DEFINE M == {m \in Nat : n - m \in ids}
<1>1. M # {}
  <2>1. PICK i \in ids : TRUE
    OBVIOUS
  <2>2. n - i \in Nat /\ n - (n - i) = i
    OBVIOUS
  <2> QED  BY <2>1, <2>2
<1>2. PICK m \in M : \A k \in M : ~ (<<k, m>> \in OpToRel(<, Nat))
  BY <1>1, NatLessThanWellFounded, WFMin
<1>3. ASSUME NEW i \in ids PROVE i <= n - m
  <2>1. n - i \in M
    OBVIOUS
  <2>2. ~ (n - i < m)
    BY <1>2, <2>1 DEF OpToRel
  <2> QED  BY <2>2
<1>4. \E id \in ids : \A i \in ids : i <= id
  BY <1>3
<1> QED  BY <1>4 DEF Highest

LEMMA LowestIs ==
  ASSUME NEW n \in Nat, NEW ids \in SUBSET (1 .. n), ids # {}
  PROVE  Lowest(ids) \in ids /\ \A i \in ids : i >= Lowest(ids)
<1>0. ids \in SUBSET Nat
  OBVIOUS
<1>1. PICK m \in ids : \A k \in ids : ~ (<<k, m>> \in OpToRel(<, Nat))
  BY <1>0, NatLessThanWellFounded, WFMin
<1>2. ASSUME NEW i \in ids PROVE i >= m
  <2>1. i \in Nat /\ m \in Nat
    OBVIOUS
  <2>2. ~ (i < m)
    BY <1>1, <2>1 DEF OpToRel
  <2> QED  BY <2>1, <2>2
<1> QED  BY <1>2 DEF Lowest

LEMMA RowFacts ==
  ASSUME RowTypes
  PROVE  /\ nextId - 1 \in Nat /\ DOMAIN dumps \in SUBSET (1 .. (nextId - 1))
         /\ \A v : RowsOf(v) \in SUBSET (1 .. (nextId - 1))
         /\ \A id \in DOMAIN dumps :
              /\ dumps[id].job \in Job /\ dumps[id].store \in Store /\ dumps[id].created \in Nat
              /\ dumps[id].updated \in Nat /\ dumps[id].content \in Nat
              /\ VolumeOf(id) \in Volume /\ id \in RowsOf(VolumeOf(id))
  BY Assumed DEF RowTypes, RowRec, RowsOf, VolumeOf

\* What is known of the child of a job.
LEMMA KidFacts ==
  ASSUME TypeInv, NEW j \in Job
  PROVE  /\ kid \in [Job -> KidRec] /\ kid[j] \in KidRec /\ VolOf[j] \in Volume
         /\ volume[VolOf[j]] \in VolumeRec /\ clone[VolOf[j]] \in CloneRec
         /\ kid[j].seen \in VolumeRec /\ kid[j].hdr \in CloneRec /\ kid[j].mtime \in Nat
         /\ kid[j].content \in Nat /\ kid[j].size \in Nat
         /\ kid[j].hdr.created <= clock /\ clock \in Nat /\ clock <= MaxTime
         /\ Fresh \in VolumeRec /\ FreshClone \in CloneRec /\ FreshClone.created = 0
  BY Assumed DEF TypeInv, KidTypes, KidRec, AfsTypes, TimeInv, Fresh, FreshClone,
       VolumeRec, CloneRec

LEMMA NewKidFacts ==
  ASSUME TypeInv, NEW j \in Job, NEW at \in KidPlaces,
         at \notin {"alloc", "links", "record", "skipped", "told", "end"}
  PROVE  NewKid(at) \in KidRec /\ KidWay(j, NewKid(at))
<1>1. NewKid(at) \in KidRec
  BY KidFacts DEF NewKid, KidRec
<1> QED  BY <1>1, KidFacts DEF NewKid, KidWay

\* A field of the record changed.
LEMMA KidChanged ==
  ASSUME NEW r \in KidRec, NEW at \in KidPlaces
  PROVE  /\ [r EXCEPT !.at = at] \in KidRec
         /\ \A seen \in VolumeRec : [r EXCEPT !.at = at, !.seen = seen] \in KidRec
         /\ \A last \in Nat : [r EXCEPT !.at = at, !.last = last] \in KidRec
         /\ \A hdr \in CloneRec : [r EXCEPT !.at = at, !.hdr = hdr] \in KidRec
         /\ \A mtime \in Nat : [r EXCEPT !.at = at, !.mtime = mtime] \in KidRec
         /\ \A content \in Nat : [r EXCEPT !.at = at, !.content = content] \in KidRec
         /\ \A mtime, content \in Nat :
              [r EXCEPT !.at = at, !.mtime = mtime, !.content = content] \in KidRec
         /\ \A store \in Store, size \in Nat :
              [r EXCEPT !.at = at, !.store = store, !.size = size] \in KidRec
  BY DEF KidRec

\* The same, but for the clock and the faults, that others take care of.
LEMMA BlobsStay ==
  ASSUME NEW j \in Job, StoreStepOf(j)
  PROVE  DOMAIN blob \subseteq DOMAIN blob'
<1>1. CASE UNCHANGED blob
  BY <1>1
<1>2. ASSUME NEW mtime, Commit(j, mtime) PROVE DOMAIN blob \subseteq DOMAIN blob'
  BY <1>2 DEF Commit
<1>3. ASSUME NEW size, Write(j, size) PROVE UNCHANGED blob
  BY <1>3 DEF Write
<1> QED
  BY <1>1, <1>2, <1>3
     DEF StoreStepOf, Lock, Choose, Fill, FillFails, Empty, Copy, Cleanup, Drop

\* What is to be shown of each action.
Viewed == StoreStep /\ ViewStep /\ Little /\ Goes

LEMMA FaultOrNot ==
  ASSUME TypeInv, UNCHANGED clock, UNCHANGED faults \/ Fault, linked' \subseteq Job
  PROVE  Little
<1>1. clock \in 0 .. MaxTime /\ faults \in 0 .. MaxFaults /\ MaxFaults \in Nat
  BY Assumed DEF TypeInv, AfsTypes
<1> QED  BY <1>1 DEF Little, Fault

LEMMA SameClock ==
  ASSUME TypeInv, UNCHANGED <<clock, faults>>, linked' \subseteq Job
  PROVE  Little
  BY FaultOrNot

LEMMA KidViewed ==
  ASSUME NEW j \in Job, NEW k, Move(j, k), KidWay(j, k),
         UNCHANGED <<volume, clone, dumps, nextId, muddled>>, Little,
         UNCHANGED storage \/ StoreStepOf(j)
  PROVE  Viewed
<1>1. StoreStep
  BY DEF StoreStep
<1>2. ViewStep
  BY DEF ViewStep, KidWay
<1>3. Goes
  BY BlobsStay DEF Goes, storage
<1> QED  BY <1>1, <1>2, <1>3 DEF Viewed

LEMMA LookViewed ==
  ASSUME TypeInv, NEW j \in Job, Look(j)
  PROVE  Viewed
<1> DEFINE k == [kid[j] EXCEPT !.at = "compare", !.seen = volume[VolOf[j]]]
<1>1. Move(j, k) /\ UNCHANGED <<storage, catalog, readers, linked, afs, others>>
  BY DEF Look
<1>2. "compare" \in KidPlaces
  BY DEF KidPlaces
<1>3. k \in KidRec
  BY <1>2, KidFacts, KidChanged
<1>4. k.at = "compare" /\ k.seen = volume[VolOf[j]] /\ k.hdr = kid[j].hdr
  BY KidFacts DEF KidRec
<1> HIDE DEF k
<1>5. KidWay(j, k)
  BY <1>3, <1>4, KidFacts DEF KidWay
<1>6. UNCHANGED <<storage, clock, faults, linked, volume, clone, dumps, nextId, muddled>>
  BY <1>1 DEF catalog, readers, afs, others
<1>7. Little
  BY <1>6, SameClock DEF TypeInv, RowTypes
<1> QED  BY <1>1, <1>5, <1>6, <1>7, KidViewed

LEMMA CompareViewed ==
  ASSUME TypeInv, NEW j \in Job, Compare(j)
  PROVE  Viewed
<1> DEFINE last == Latest(VolOf[j])
<1>1. UNCHANGED <<clock, faults, linked, volume, clone, dumps, nextId, muddled>>
  BY DEF Compare, catalog, readers, afs, others
<1>2. Little
  BY <1>1, SameClock DEF TypeInv, RowTypes
<1>3. ASSUME last # NoRow, Unchanged(last, kid[j].seen.updated),
             Move(j, [kid[j] EXCEPT !.at = "skipped", !.last = dumps[last].content]),
             Cleanup(j)
      PROVE  Viewed
  <2> DEFINE k == [kid[j] EXCEPT !.at = "skipped", !.last = dumps[last].content]
  <2>1. Move(j, k) /\ "skipped" \in KidPlaces
    BY <1>3 DEF KidPlaces
  <2>2. RowTypes
    BY DEF TypeInv
  <2>3. last \in RowsOf(VolOf[j])
    <3>1. RowsOf(VolOf[j]) # {}
      BY <1>3 DEF Latest, Highest
    <3>2. nextId - 1 \in Nat /\ RowsOf(VolOf[j]) \in SUBSET (1 .. (nextId - 1))
      BY <2>2, RowFacts
    <3> QED  BY <3>1, <3>2, HighestIs DEF Latest
  <2>4. dumps[last].content \in Nat
    BY <2>2, <2>3, RowFacts DEF RowsOf
  <2>5. k \in KidRec
    BY <2>1, <2>4, KidFacts, KidChanged
  <2>6. /\ k.at = "skipped" /\ k.seen = kid[j].seen /\ k.hdr = kid[j].hdr
        /\ k.last = dumps[last].content
    BY KidFacts DEF KidRec
  <2>7. dumps[last].created >= kid[j].seen.updated + FudgeTime
    BY <1>3 DEF Unchanged
  <2> HIDE DEF k, last
  <2>8. KidWay(j, k)
    BY <2>3, <2>5, <2>6, <2>7, KidFacts DEF KidWay
  <2>9. StoreStepOf(j)
    BY <1>3 DEF StoreStepOf
  <2> QED  BY <1>1, <1>2, <2>1, <2>8, <2>9, KidViewed
<1>4. ASSUME Move(j, [kid[j] EXCEPT !.at = "clone", !.seen = Fresh]), UNCHANGED storage
      PROVE  Viewed
  <2> DEFINE k == [kid[j] EXCEPT !.at = "clone", !.seen = Fresh]
  <2>1. Move(j, k) /\ "clone" \in KidPlaces
    BY <1>4 DEF KidPlaces
  <2>2. k \in KidRec
    BY <2>1, KidFacts, KidChanged
  <2>3. k.at = "clone" /\ k.seen = Fresh /\ k.hdr = kid[j].hdr
    BY KidFacts DEF KidRec
  <2> HIDE DEF k
  <2>4. KidWay(j, k)
    BY <2>2, <2>3, KidFacts DEF KidWay
  <2> QED  BY <1>1, <1>2, <1>4, <2>1, <2>4, KidViewed
<1> QED  BY <1>3, <1>4 DEF Compare

LEMMA CloneViewed ==
  ASSUME TypeInv, NEW j \in Job, Clone(j)
  PROVE  Viewed
<1>1. UNCHANGED <<storage, linked, faults>> /\ Passes
  BY DEF Clone, readers, catalog
<1>2. Little
  BY <1>1 DEF Little, Passes, TypeInv, AfsTypes, RowTypes
<1>3. StoreStep /\ ViewStep /\ Goes
  BY <1>1 DEF StoreStep, ViewStep, Goes, storage
<1> QED  BY <1>2, <1>3 DEF Viewed

LEMMA ExamineViewed ==
  ASSUME TypeInv, NEW j \in Job, Examine(j)
  PROVE  Viewed
<1> DEFINE hdr == [clone[VolOf[j]] EXCEPT !.content = 0]
           k == [kid[j] EXCEPT !.at = "alloc", !.hdr = hdr]
<1>1. /\ Move(j, k) /\ UNCHANGED <<lock, blob, litter>>
      /\ UNCHANGED <<clock, faults, linked, volume, clone, dumps, nextId, muddled>>
  BY DEF Examine, catalog, readers, afs, others
<1>2. /\ hdr \in CloneRec /\ hdr.created = clone[VolOf[j]].created
      /\ hdr.created <= clock
  BY KidFacts DEF CloneRec, TypeInv, TimeInv
<1>3. k \in KidRec
  <2> HIDE DEF hdr
  <2>1. "alloc" \in KidPlaces
    BY DEF KidPlaces
  <2> QED  BY <1>2, <2>1, KidFacts, KidChanged
<1>4. k.at = "alloc" /\ k.seen = kid[j].seen /\ k.hdr = hdr
  <2> HIDE DEF hdr
  <2> QED  BY KidFacts DEF KidRec
<1> HIDE DEF k, hdr
<1>5. KidWay(j, k)
  <2>1. k.hdr.created <= clone[VolOf[j]].created
    BY <1>2, <1>4, KidFacts DEF CloneRec
  <2> QED  BY <1>2, <1>3, <1>4, <2>1 DEF KidWay
<1>6. Little
  BY <1>1, SameClock DEF TypeInv, RowTypes
<1>7. UNCHANGED storage \/ StoreStepOf(j)
  BY <1>1 DEF Examine, StoreStepOf, storage
<1> QED  BY <1>1, <1>5, <1>6, <1>7, KidViewed

LEMMA AllocatingViewed ==
  ASSUME TypeInv, NEW j \in Job, Allocating(j)
  PROVE  Viewed
<1>1. UNCHANGED <<clock, linked, kid, volume, clone, dumps, nextId, muddled>>
  BY DEF Allocating, catalog, readers, afs
<1>2. Little
  BY <1>1, FaultOrNot DEF Allocating, TypeInv, RowTypes
<1>3. StoreStepOf(j)
  BY DEF Allocating, Allocate, StoreStepOf
<1>4. StoreStep /\ ViewStep /\ Goes
  BY <1>1, <1>3, BlobsStay DEF StoreStep, ViewStep, Goes
<1> QED  BY <1>2, <1>4 DEF Viewed

LEMMA DumpedViewed ==
  ASSUME TypeInv, NEW j \in Job, NEW size \in Size[j], Dumped(j, size)
  PROVE  Viewed
<1> DEFINE content == clone[VolOf[j]].content
           k == [kid[j] EXCEPT !.at = "links", !.mtime = clock, !.content = content]
<1>1. /\ Move(j, k) /\ Write(j, size) /\ Passes /\ kid[j].at = "alloc"
      /\ linked' = linked \ {j}
      /\ UNCHANGED <<faults, volume, clone, dumps, nextId, muddled>>
  BY DEF Dumped, catalog, readers, afs, KidAt
<1>2. content \in Nat /\ clock \in Nat /\ "links" \in KidPlaces
  BY KidFacts DEF CloneRec, KidPlaces
<1> HIDE DEF content
<1>3. k \in KidRec
  BY <1>2, KidFacts, KidChanged
<1>4. k.at = "links" /\ k.seen = kid[j].seen /\ k.hdr = kid[j].hdr /\ k.content = content
  BY KidFacts DEF KidRec
<1> HIDE DEF k
<1>5. KidWay(j, k)
  BY <1>1, <1>3, <1>4, KidFacts DEF KidWay, content
<1>6. Little
  BY <1>1 DEF Little, Passes, TypeInv, AfsTypes, RowTypes
<1>7. StoreStepOf(j)
  BY <1>1 DEF StoreStepOf
<1> QED  BY <1>1, <1>5, <1>6, <1>7, KidViewed

LEMMA CommittedViewed ==
  ASSUME TypeInv, NEW j \in Job, Committed(j)
  PROVE  Viewed
<1> DEFINE k == [kid[j] EXCEPT !.at = "record", !.store = alloc[j].store,
                               !.size = alloc[j].size]
<1>1. /\ Move(j, k) /\ Commit(j, kid[j].mtime) /\ kid[j].at = "links"
      /\ linked' \in {linked, linked \cup {j}}
      /\ UNCHANGED faults \/ Fault
      /\ UNCHANGED <<clock, volume, clone, dumps, nextId, muddled>>
  BY DEF Committed, catalog, readers, afs, KidAt
<1>2. alloc[j].store \in Store /\ alloc[j].size \in Nat /\ "record" \in KidPlaces
  <2>1. alloc[j] \in AllocRec
    BY CallFacts DEF TypeInv
  <2> QED  BY <1>1, <2>1 DEF Commit, HasFile, AllocRec, KidPlaces
<1>3. k \in KidRec
  BY <1>2, KidFacts, KidChanged
<1>4. /\ k.at = "record" /\ k.seen = kid[j].seen /\ k.hdr = kid[j].hdr
      /\ k.content = kid[j].content /\ k.store = alloc[j].store
  BY KidFacts DEF KidRec
<1> HIDE DEF k
<1>5. KidWay(j, k)
  BY <1>1, <1>2, <1>3, <1>4, KidFacts DEF KidWay
<1>6. Little
  BY <1>1, FaultOrNot DEF TypeInv, RowTypes
<1>7. StoreStepOf(j)
  BY <1>1, KidFacts DEF StoreStepOf
<1> QED  BY <1>1, <1>5, <1>6, <1>7, KidViewed

LEMMA RecordedViewed ==
  ASSUME TypeInv, NEW j \in Job, Recorded(j)
  PROVE  Viewed
<1>1. UNCHANGED <<storage, linked, clock, faults>>
  BY DEF Recorded, readers, afs
<1>2. Little
  BY <1>1, SameClock DEF TypeInv, RowTypes
<1>3. StoreStep /\ ViewStep /\ Goes
  BY <1>1 DEF StoreStep, ViewStep, Goes, storage
<1> QED  BY <1>2, <1>3 DEF Viewed

LEMMA EndedViewed ==
  ASSUME TypeInv, NEW j \in Job, Ended(j)
  PROVE  Viewed
<1> DEFINE k == NewKid("end")
<1>1. /\ Move(j, k) /\ kid[j].at = "told"
      /\ UNCHANGED <<storage, linked, clock, faults, volume, clone, dumps, nextId, muddled>>
  BY DEF Ended, readers, afs, catalog, others, KidAt
<1>2. k \in KidRec /\ k.at = "end" /\ k.seen = Fresh /\ k.hdr = FreshClone
  BY KidFacts DEF NewKid, KidRec, KidPlaces
<1> HIDE DEF k
<1>3. KidWay(j, k)
  BY <1>1, <1>2, KidFacts DEF KidWay
<1>4. Little
  BY <1>1, SameClock DEF TypeInv, RowTypes
<1> QED  BY <1>1, <1>3, <1>4, KidViewed

\* An error or a death.
LEMMA AgainViewed ==
  ASSUME TypeInv, NEW j \in Job, NEW dies \in BOOLEAN, Again(j, dies),
         UNCHANGED <<catalog, readers, linked, afs, clock, muddled, crew>>,
         UNCHANGED faults \/ Fault
  PROVE  Viewed
<1>1. UNCHANGED <<clock, linked, volume, clone, dumps, nextId, muddled>>
  BY DEF catalog, readers, afs
<1>2. Little
  BY <1>1, FaultOrNot DEF TypeInv, RowTypes
<1>3. UNCHANGED storage \/ StoreStepOf(j)
  BY DEF Again, Lose, StoreStepOf
<1>4. ASSUME Move(j, [kid[j] EXCEPT !.at = "examine"]) PROVE Viewed
  <2> DEFINE k == [kid[j] EXCEPT !.at = "examine"]
  <2>1. "examine" \in KidPlaces
    BY DEF KidPlaces
  <2>2. k \in KidRec
    BY <2>1, KidFacts, KidChanged
  <2>3. k.at = "examine" /\ k.seen = kid[j].seen /\ k.hdr = kid[j].hdr
    BY KidFacts DEF KidRec
  <2>4. Move(j, k)
    BY <1>4
  <2> HIDE DEF k
  <2>5. KidWay(j, k)
    BY <2>2, <2>3, KidFacts DEF KidWay
  <2> QED  BY <1>1, <1>2, <1>3, <2>4, <2>5, KidViewed
<1>5. ASSUME Move(j, NewKid("failed")) PROVE Viewed
  <2>1. "failed" \in KidPlaces
    BY DEF KidPlaces
  <2>2. KidWay(j, NewKid("failed"))
    BY <2>1, NewKidFacts
  <2> QED  BY <1>1, <1>2, <1>3, <1>5, <2>2, KidViewed
<1> QED  BY <1>4, <1>5 DEF Again

LEMMA BringViewed ==
  ASSUME TypeInv, NEW j \in Job, Bring(j) \/ Emptied(j)
  PROVE  Viewed
<1>1. UNCHANGED <<clock, faults, linked, kid, volume, clone, dumps, nextId, muddled>>
  BY DEF Bring, Emptied, catalog, readers, afs, others
<1>2. Little
  BY <1>1, SameClock DEF TypeInv, RowTypes
<1>3. StoreStepOf(j)
  BY DEF Bring, Emptied, StoreStepOf
<1>4. StoreStep /\ ViewStep /\ Goes
  BY <1>1, <1>3, BlobsStay DEF StoreStep, ViewStep, Goes
<1> QED  BY <1>2, <1>4 DEF Viewed

LEMMA BroughtViewed ==
  ASSUME TypeInv, NEW j \in Job, Brought(j)
  PROVE  Viewed
<1> DEFINE k == [kid[j] EXCEPT !.at = "look", !.mtime = clock]
<1>1. /\ Move(j, k) /\ Copy(j, Estimate[j]) /\ Passes
      /\ UNCHANGED <<linked, faults, volume, clone, dumps, nextId, muddled>>
  BY DEF Brought, catalog, readers, afs
<1>2. k \in KidRec
  <2>1. "look" \in KidPlaces /\ clock \in Nat
    BY KidFacts DEF KidPlaces
  <2> QED  BY <2>1, KidFacts, KidChanged
<1>3. k.at = "look" /\ k.seen = kid[j].seen /\ k.hdr = kid[j].hdr
  BY KidFacts DEF KidRec
<1> HIDE DEF k
<1>4. KidWay(j, k)
  BY <1>2, <1>3, KidFacts DEF KidWay
<1>5. Little
  BY <1>1 DEF Little, Passes, TypeInv, AfsTypes, RowTypes
<1>6. StoreStepOf(j)
  BY <1>1 DEF StoreStepOf
<1> QED  BY <1>1, <1>4, <1>5, <1>6, KidViewed

LEMMA TakenViewed ==
  ASSUME TypeInv, NEW j \in Job, Taken(j)
  PROVE  Viewed
<1> DEFINE content == clone[VolOf[j]].content
           k == [kid[j] EXCEPT !.at = "links", !.content = content]
<1>1. /\ Move(j, k) /\ kid[j].at = "alloc" /\ linked' = linked \ {j}
      /\ UNCHANGED <<storage, clock, faults, volume, clone, dumps, nextId, muddled>>
  BY DEF Taken, catalog, readers, afs, others, KidAt
<1>2. content \in Nat /\ "links" \in KidPlaces
  BY KidFacts DEF CloneRec, KidPlaces
<1> HIDE DEF content
<1>3. k \in KidRec
  BY <1>2, KidFacts, KidChanged
<1>4. k.at = "links" /\ k.seen = kid[j].seen /\ k.hdr = kid[j].hdr /\ k.content = content
  BY KidFacts DEF KidRec
<1> HIDE DEF k
<1>5. KidWay(j, k)
  BY <1>1, <1>3, <1>4, KidFacts DEF KidWay, content
<1>6. Little
  BY <1>1, SameClock DEF TypeInv, RowTypes
<1> QED  BY <1>1, <1>5, <1>6, KidViewed

LEMMA SkippedViewed ==
  ASSUME TypeInv, NEW j \in Job, Skipped(j)
  PROVE  Viewed
<1>1. /\ Move(j, NewKid("failed")) /\ StoreStepOf(j)
      /\ UNCHANGED <<linked, clock, faults, volume, clone, dumps, nextId, muddled>>
  BY DEF Skipped, catalog, readers, afs, others, StoreStepOf
<1>2. Little
  BY <1>1, SameClock DEF TypeInv, RowTypes
<1>3. "failed" \in KidPlaces
  BY DEF KidPlaces
<1>4. KidWay(j, NewKid("failed"))
  BY <1>3, NewKidFacts
<1> QED  BY <1>1, <1>2, <1>4, KidViewed

LEMMA OthersViewed ==
  ASSUME TypeInv,
         \/ \E b \in DOMAIN blob : Trim(b)
         \/ \E id \in DOMAIN dumps : Delete(id)
         \/ \E v \in Volume : Change(v)
         \/ Cleaned \/ Searching \/ Walking
  PROVE  Viewed
<1>1. ASSUME NEW b \in DOMAIN blob, Trim(b) PROVE Viewed
  <2>1. /\ UNCHANGED <<clock, faults, linked, kid, volume, clone, dumps, nextId, muddled>>
        /\ Unlink(b)
    BY <1>1 DEF Trim, catalog, readers, afs, others
  <2>2. Little
    BY <2>1, SameClock DEF TypeInv, RowTypes
  <2>3. b \in Store \X Job
    BY DEF TypeInv, StoreInv, StoreTypes
  <2> QED  BY <1>1, <2>1, <2>2, <2>3 DEF Viewed, StoreStep, ViewStep, Goes
<1>2. ASSUME NEW id \in DOMAIN dumps, Delete(id) PROVE Viewed
  <2>1. /\ UNCHANGED <<clock, faults>> /\ linked' \subseteq linked
        /\ UNCHANGED storage \/ Unlink(PathOf(id))
    BY <1>2 DEF Delete, others
  <2>2. Little
    BY <2>1, SameClock DEF TypeInv, RowTypes
  <2>3. StoreStep
    <3>1. PathOf(id) \in Store \X Job
      BY RowFacts DEF PathOf, TypeInv
    <3> QED  BY <2>1, <3>1 DEF StoreStep
  <2> QED  BY <1>2, <2>2, <2>3 DEF Viewed, ViewStep, Goes
<1>3. ASSUME NEW v \in Volume, Change(v) PROVE Viewed
  <2>1. UNCHANGED <<storage, linked, faults>> /\ Passes
    BY <1>3 DEF Change, readers, catalog
  <2>2. Little
    BY <2>1 DEF Little, Passes, TypeInv, AfsTypes, RowTypes
  <2> QED  BY <1>3, <2>1, <2>2 DEF Viewed, StoreStep, ViewStep, Goes, storage
<1>4. CASE Cleaned
  <2>1. /\ UNCHANGED <<clock, faults, linked, kid, volume, clone, dumps, nextId, muddled>>
        /\ CleanTmp
    BY <1>4 DEF Cleaned, catalog, readers, afs, others
  <2>2. Little
    BY <2>1, SameClock DEF TypeInv, RowTypes
  <2> QED  BY <2>1, <2>2 DEF Viewed, StoreStep, ViewStep, Goes, CleanTmp
<1>5. CASE Searching \/ Walking
  <2>1. UNCHANGED catalog
    BY <1>5 DEF Searching, Walking, SearchStep, StartSearch, First, Second, More, WalkStep
  <2>2. /\ UNCHANGED <<clock, faults, linked, kid, volume, clone, dumps, nextId, muddled>>
        /\ UNCHANGED storage
    BY <1>5, <2>1 DEF Searching, Walking, WalkStep, catalog, readers, afs, others
  <2>3. Little
    BY <2>2, SameClock DEF TypeInv, RowTypes
  <2> QED  BY <2>2, <2>3 DEF Viewed, StoreStep, ViewStep, Goes, storage
<1> QED  BY <1>1, <1>2, <1>3, <1>4, <1>5

LEMMA Steps ==
  ASSUME TypeInv, Next
  PROVE  Viewed
<1>1. ASSUME NEW j \in Job, KidStep(j) PROVE Viewed
  BY <1>1, LookViewed, CompareViewed, CloneViewed, ExamineViewed, AllocatingViewed,
     DumpedViewed, CommittedViewed, RecordedViewed, EndedViewed, BringViewed, BroughtViewed,
     TakenViewed, SkippedViewed DEF KidStep
<1>2. ASSUME NEW j \in Job, Fails(j) \/ Dies(j) PROVE Viewed
  <2>1. Again(j, FALSE) \/ Again(j, TRUE)
    BY <1>2 DEF Fails, Dies
  <2>2. /\ UNCHANGED <<catalog, readers, linked, afs, clock, muddled, crew>>
        /\ UNCHANGED faults \/ Fault
    BY <1>2 DEF Fails, Dies
  <2> QED  BY <2>1, <2>2, AgainViewed
<1> QED  BY <1>1, <1>2, OthersViewed DEF Next

-----------------------------------------------------------------------------
(***************************************************************************)
(* Types, and the room that someone fills.                                 *)
(***************************************************************************)

\* A new row gets an id that is higher than all others, and is marked if it may be
\* that of a row that was deleted.
NewRow(id, row) ==
  /\ id \in Nat \ {0} /\ id <= nextId /\ id < nextId'
  /\ \A i \in DOMAIN dumps : i < id
  /\ dumps' = [i \in DOMAIN dumps \cup {id} |->
                 IF i = id THEN [row EXCEPT !.again = id # nextId] ELSE dumps[i]]
  /\ nextId' \in {nextId, nextId + 1}

LEMMA InsertIs ==
  ASSUME RowTypes, NEW row, Insert(row)
  PROVE  \E id : NewRow(id, row)
<1>1. PICK id \in {nextId, Highest(DOMAIN dumps) + 1} :
        /\ dumps' = [i \in DOMAIN dumps \cup {id} |->
                       IF i = id THEN [row EXCEPT !.again = id # nextId] ELSE dumps[i]]
        /\ nextId' = IF id = nextId THEN nextId + 1 ELSE nextId
  BY DEF Insert, With
<1>2. nextId \in Nat \ {0} /\ DOMAIN dumps \in SUBSET (1 .. (nextId - 1)) /\ nextId - 1 \in Nat
  BY RowFacts DEF RowTypes
<1>3. CASE id = nextId
  <2>1. \A i \in DOMAIN dumps : i < id
    BY <1>2, <1>3
  <2> QED  BY <1>1, <1>2, <1>3, <2>1 DEF NewRow
<1>4. CASE id # nextId /\ DOMAIN dumps = {}
  <2>1. id = 1
    BY <1>1, <1>4 DEF Highest, NoRow
  <2>2. 1 <= nextId /\ 1 < nextId' /\ nextId' = nextId
    BY <1>1, <1>2, <1>4, <2>1
  <2> QED  BY <1>1, <1>2, <1>4, <2>1, <2>2 DEF NewRow
<1>5. CASE id # nextId /\ DOMAIN dumps # {}
  <2> DEFINE h == Highest(DOMAIN dumps)
  <2>1. h \in DOMAIN dumps /\ \A i \in DOMAIN dumps : i <= h
    BY <1>2, <1>5, HighestIs
  <2>2. id = h + 1
    BY <1>1, <1>5
  <2> HIDE DEF h
  <2>3. h \in Nat /\ h <= nextId - 1
    BY <1>2, <2>1
  <2>4. id \in Nat \ {0} /\ id <= nextId /\ id < nextId
    BY <1>2, <1>5, <2>2, <2>3
  <2>5. \A i \in DOMAIN dumps : i < id
    BY <1>2, <2>1, <2>2, <2>3
  <2> QED  BY <1>1, <1>5, <2>4, <2>5 DEF NewRow
<1> QED  BY <1>3, <1>4, <1>5

LEMMA NewRowTypes ==
  ASSUME RowTypes, NEW row \in RowRec, NEW id, NewRow(id, row),
         linked' \subseteq Job, muddled' \subseteq Volume
  PROVE  /\ RowTypes'
         /\ DOMAIN dumps' = DOMAIN dumps \cup {id} /\ id \notin DOMAIN dumps
         /\ dumps'[id] = [row EXCEPT !.again = id # nextId]
         /\ \A i \in DOMAIN dumps : dumps'[i] = dumps[i]
<1>1. /\ id \in Nat \ {0} /\ id < nextId' /\ nextId \in Nat \ {0}
      /\ nextId' \in Nat \ {0} /\ nextId <= nextId'
      /\ \A i \in DOMAIN dumps : i \in 1 .. nextId - 1 /\ i < id
  BY DEF NewRow, RowTypes
<1>2. id \notin DOMAIN dumps
  BY <1>1
<1>3. /\ DOMAIN dumps' = DOMAIN dumps \cup {id}
      /\ dumps'[id] = [row EXCEPT !.again = id # nextId]
      /\ \A i \in DOMAIN dumps : dumps'[i] = dumps[i]
  BY <1>2 DEF NewRow
<1>4. [row EXCEPT !.again = id # nextId] \in RowRec
  <2>1. (id # nextId) \in BOOLEAN
    OBVIOUS
  <2> QED  BY <2>1 DEF RowRec
<1>5. DOMAIN dumps' \subseteq 1 .. nextId' - 1
  BY <1>1, <1>3
<1>6. ASSUME NEW i \in DOMAIN dumps' PROVE dumps'[i] \in RowRec
  BY <1>3, <1>4 DEF RowTypes
<1> QED  BY <1>1, <1>2, <1>3, <1>5, <1>6 DEF RowTypes

\* The row that a job inserts, and that it is of its volume.
RowOf(j) ==
  [job |-> j, store |-> kid[j].store, size |-> kid[j].size,
   created |-> kid[j].hdr.created, updated |-> kid[j].hdr.updated,
   content |-> kid[j].content, again |-> FALSE]

LEMMA RecordedIs ==
  ASSUME TypeInv, NEW j \in Job, Recorded(j)
  PROVE  /\ RowOf(j) \in RowRec /\ Insert(RowOf(j))
         /\ kid[j].at = "record" /\ Move(j, [kid[j] EXCEPT !.at = "told"])
         /\ [kid[j] EXCEPT !.at = "told"] \in KidRec
         /\ muddled' \subseteq Volume /\ muddled \subseteq muddled'
         /\ UNCHANGED <<storage, linked, volume, clone, clock, faults>>
<1>1. /\ Insert(RowOf(j)) /\ kid[j].at = "record"
      /\ Move(j, [kid[j] EXCEPT !.at = "told"])
      /\ UNCHANGED <<storage, linked, volume, clone, clock, faults>>
      /\ muddled' \in {muddled, muddled \cup {VolOf[j]}}
  BY DEF Recorded, RowOf, KidAt, readers, afs
<1>2. kid[j].store \in Store
  BY <1>1 DEF TypeInv, KidTypes
<1>3. RowOf(j) \in RowRec
  BY <1>2, KidFacts DEF RowOf, RowRec, CloneRec
<1>4. "told" \in KidPlaces
  BY DEF KidPlaces
<1>5. [kid[j] EXCEPT !.at = "told"] \in KidRec
  BY <1>4, KidFacts, KidChanged
<1>6. muddled \subseteq Volume /\ VolOf[j] \in Volume
  BY Assumed DEF TypeInv, RowTypes
<1> QED  BY <1>1, <1>3, <1>5, <1>6

\* What a volume and its clone are after they changed.
LEMMA ClonedIs ==
  ASSUME TypeInv, NEW j \in Job, Clone(j)
  PROVE  LET v == VolOf[j]
             c == [content |-> volume[v].content, updated |-> volume[v].updated,
                   created |-> clock]
             k == [kid[j] EXCEPT !.at = "examine"]
         IN  /\ c \in CloneRec /\ clone' \in [Volume -> CloneRec] /\ clone'[v] = c
             /\ \A w \in Volume \ {v} : clone'[w] = clone[w]
             /\ k \in KidRec /\ k.at = "examine" /\ k.hdr = kid[j].hdr /\ k.seen = kid[j].seen
             /\ kid' \in [Job -> KidRec] /\ kid'[j] = k
             /\ \A i \in Job \ {j} : kid'[i] = kid[i]
             /\ UNCHANGED <<volume, dumps, nextId, muddled, linked>>
<1> DEFINE v == VolOf[j]
           c == [content |-> volume[v].content, updated |-> volume[v].updated,
                 created |-> clock]
           k == [kid[j] EXCEPT !.at = "examine"]
<1>1. /\ clone' = [clone EXCEPT ![v] = c] /\ kid' = [kid EXCEPT ![j] = k]
      /\ UNCHANGED <<volume, dumps, nextId, muddled, linked>>
  BY DEF Clone, Move, catalog, readers
<1>2. c \in CloneRec
  BY KidFacts DEF CloneRec, VolumeRec
<1>3. clone \in [Volume -> CloneRec] /\ v \in Volume
  BY KidFacts DEF TypeInv, AfsTypes
<1>4. "examine" \in KidPlaces
  BY DEF KidPlaces
<1>5. k \in KidRec
  BY <1>4, KidFacts, KidChanged
<1>6. k.at = "examine" /\ k.hdr = kid[j].hdr /\ k.seen = kid[j].seen
  BY KidFacts DEF KidRec
<1>7. kid \in [Job -> KidRec]
  BY KidFacts
<1> HIDE DEF c, k, v
<1>8. /\ clone' \in [Volume -> CloneRec] /\ clone'[v] = c
      /\ \A w \in Volume \ {v} : clone'[w] = clone[w]
  BY <1>1, <1>2, <1>3
<1>9. kid' \in [Job -> KidRec] /\ kid'[j] = k /\ \A i \in Job \ {j} : kid'[i] = kid[i]
  BY <1>1, <1>5, <1>7
<1> QED  BY <1>1, <1>2, <1>5, <1>6, <1>8, <1>9 DEF c, k, v

LEMMA ChangedIs ==
  ASSUME TypeInv, NEW v \in Volume, Change(v)
  PROVE  \E time \in Nat :
           LET w == [content |-> volume[v].content + 1, updated |-> time]
           IN  /\ time <= clock /\ volume[v].updated <= time /\ clock < time + FudgeTime
               /\ w \in VolumeRec /\ volume' \in [Volume -> VolumeRec] /\ volume'[v] = w
               /\ \A u \in Volume \ {v} : volume'[u] = volume[u]
               /\ UNCHANGED <<kid, clone, dumps, nextId, muddled, linked>>
<1>1. volume \in [Volume -> VolumeRec] /\ volume[v] \in VolumeRec /\ clock \in Nat
  BY DEF TypeInv, AfsTypes
<1>2. volume[v].content \in Nat /\ volume[v].updated \in Nat
  BY <1>1 DEF VolumeRec
<1>3. PICK time \in volume[v].updated .. clock :
        /\ clock < time + FudgeTime
        /\ volume' = [volume EXCEPT ![v] =
                        [content |-> volume[v].content + 1, updated |-> time]]
  BY DEF Change
<1> DEFINE w == [content |-> volume[v].content + 1, updated |-> time]
<1>4. time \in Nat /\ time <= clock /\ volume[v].updated <= time
  BY <1>1, <1>2
<1>5. w \in VolumeRec
  BY <1>2, <1>4 DEF VolumeRec
<1>6. UNCHANGED <<kid, clone, dumps, nextId, muddled, linked>>
  BY DEF Change, catalog, readers
<1> HIDE DEF w
<1>7. /\ volume' \in [Volume -> VolumeRec] /\ volume'[v] = w
      /\ \A u \in Volume \ {v} : volume'[u] = volume[u]
  BY <1>1, <1>3, <1>5 DEF w
<1> QED  BY <1>3, <1>4, <1>5, <1>6, <1>7 DEF w

LEMMA MovedIs ==
  ASSUME TypeInv, NEW j \in Job, NEW k \in KidRec, Move(j, k)
  PROVE  kid' \in [Job -> KidRec] /\ kid'[j] = k /\ \A i \in Job \ {j} : kid'[i] = kid[i]
  BY KidFacts DEF Move

LEMMA TimeFacts ==
  ASSUME TypeInv
  PROVE  /\ clock \in Nat
         /\ \A v \in Volume :
              /\ volume[v] \in VolumeRec /\ clone[v] \in CloneRec
              /\ volume[v].updated \in Nat /\ volume[v].content \in Nat
              /\ clone[v].created \in Nat /\ clone[v].content \in Nat
         /\ \A j \in Job : /\ VolOf[j] \in Volume /\ kid[j].hdr.created \in Nat
                           /\ kid[j].seen.content \in Nat /\ kid[j].seen.updated \in Nat
                           /\ kid[j].content \in Nat
         /\ \A id \in DOMAIN dumps : dumps[id].created \in Nat
         /\ TimeInv
<1>1. clock \in Nat
  BY Assumed DEF TypeInv, AfsTypes
<1>2. ASSUME NEW v \in Volume
      PROVE  /\ volume[v] \in VolumeRec /\ clone[v] \in CloneRec
             /\ volume[v].updated \in Nat /\ volume[v].content \in Nat
             /\ clone[v].created \in Nat /\ clone[v].content \in Nat
  BY DEF TypeInv, AfsTypes, VolumeRec, CloneRec
<1>3. ASSUME NEW j \in Job
      PROVE  /\ VolOf[j] \in Volume /\ kid[j].hdr.created \in Nat
             /\ kid[j].seen.content \in Nat /\ kid[j].seen.updated \in Nat
             /\ kid[j].content \in Nat
  BY KidFacts DEF VolumeRec, CloneRec
<1> QED  BY <1>1, <1>2, <1>3, RowFacts DEF TypeInv

\* Time goes on, and the child of a job perhaps: what was read stays what it is.
LEMMA TimeKept ==
  ASSUME TypeInv, clock' \in {clock, clock + 1}, UNCHANGED <<volume, clone>>,
         DOMAIN dumps' \subseteq DOMAIN dumps,
         \A id \in DOMAIN dumps' : dumps'[id] = dumps[id],
         \A i \in Job : \/ kid'[i] = kid[i]
                        \/ KidWay(i, kid'[i])
  PROVE  TimeInv'
<1> USE TimeFacts
<1>1. clock' >= clock /\ clock' \in Nat
  OBVIOUS
<1>2. ASSUME NEW v \in Volume
      PROVE  /\ volume'[v].updated <= clock' /\ clone'[v].created <= clock'
             /\ clone'[v].content <= volume'[v].content
  BY <1>1 DEF TimeInv
<1>3. ASSUME NEW id \in DOMAIN dumps' PROVE dumps'[id].created <= clock'
  BY <1>1 DEF TimeInv
<1>4. ASSUME NEW i \in Job
      PROVE  /\ kid'[i].hdr.created <= clock'
             /\ kid'[i].seen.content <= volume'[VolOf[i]].content
             /\ kid'[i].at = "alloc" => kid'[i].hdr.created <= clone'[VolOf[i]].created
  <2>1. CASE kid'[i] = kid[i]
    BY <1>1, <2>1 DEF TimeInv
  <2>2. CASE KidWay(i, kid'[i])
    <3> DEFINE k == kid'[i]
    <3>1. k.hdr.created \in Nat /\ k.hdr.created <= clock
      BY <2>2 DEF KidWay, KidRec, CloneRec
    <3>2. k.seen.content <= volume[VolOf[i]].content
      <4>1. Fresh.content <= volume[VolOf[i]].content
        BY DEF Fresh
      <4> QED  BY <2>2, <4>1 DEF KidWay, TimeInv
    <3>3. k.at = "alloc" => k.hdr.created <= clone[VolOf[i]].created
      BY <2>2 DEF KidWay
    <3> HIDE DEF k
    <3>4. k.hdr.created <= clock'
      BY <1>1, <3>1
    <3> QED  BY <3>2, <3>3, <3>4 DEF k
  <2> QED  BY <2>1, <2>2
<1> QED  BY <1>2, <1>3, <1>4 DEF TimeInv

LEMMA TypeStep ==
  ASSUME TypeInv, Next
  PROVE  TypeInv'
<1>0. StoreStep /\ ViewStep /\ Little
  BY Steps DEF Viewed
<1>1. StoreInv' /\ (\A j \in Job : SizeOk(j))'
  BY <1>0, StoreStepKept, SizeStep DEF TypeInv
<1> DEFINE Rest0 == KidTypes' /\ volume' \in [Volume -> VolumeRec]
                    /\ clone' \in [Volume -> CloneRec] /\ RowTypes' /\ TimeInv'
<1>2. linked' \subseteq Job /\ clock' \in {clock, clock + 1} /\ RowTypes /\ KidTypes
      /\ volume \in [Volume -> VolumeRec] /\ clone \in [Volume -> CloneRec]
  BY <1>0 DEF Little, TypeInv, AfsTypes
<1>3. ASSUME UNCHANGED <<kid, volume, clone, dumps, nextId, muddled>> PROVE Rest0
  <2>1. KidTypes' /\ RowTypes'
    BY <1>2, <1>3 DEF KidTypes, RowTypes
  <2>2. TimeInv'
    BY <1>2, <1>3, TimeKept
  <2> QED  BY <1>2, <1>3, <2>1, <2>2
<1>4. ASSUME NEW j \in Job, NEW k \in KidRec, Move(j, k), KidWay(j, k),
             UNCHANGED <<volume, clone, dumps, nextId, muddled>>
      PROVE  Rest0
  <2>1. kid' \in [Job -> KidRec] /\ kid'[j] = k /\ \A i \in Job \ {j} : kid'[i] = kid[i]
    BY <1>4, MovedIs
  <2>2. KidTypes'
    BY <1>2, <1>4, <2>1 DEF KidTypes, KidWay
  <2>3. RowTypes'
    BY <1>2, <1>4 DEF RowTypes
  <2>4. TimeInv'
    BY <1>2, <1>4, <2>1, TimeKept
  <2> QED  BY <1>2, <1>4, <2>2, <2>3, <2>4
<1>5. ASSUME NEW j \in Job, Clone(j) PROVE Rest0
  <2> DEFINE v == VolOf[j]
             c == [content |-> volume[v].content, updated |-> volume[v].updated,
                   created |-> clock]
             k == [kid[j] EXCEPT !.at = "examine"]
  <2>1. /\ c \in CloneRec /\ clone' \in [Volume -> CloneRec] /\ clone'[v] = c
        /\ \A w \in Volume \ {v} : clone'[w] = clone[w]
        /\ k \in KidRec /\ k.at = "examine" /\ k.hdr = kid[j].hdr /\ k.seen = kid[j].seen
        /\ kid' \in [Job -> KidRec] /\ kid'[j] = k
        /\ \A i \in Job \ {j} : kid'[i] = kid[i]
        /\ UNCHANGED <<volume, dumps, nextId, muddled, linked>>
    BY <1>5, ClonedIs
  <2>2. c.created = clock /\ c.content = volume[v].content
    OBVIOUS
  <2> HIDE DEF c, k
  <2>3. KidTypes' /\ RowTypes'
    BY <1>2, <2>1 DEF KidTypes, RowTypes
  <2>4. TimeInv'
    <3> USE TimeFacts
    <3>1. clock' >= clock /\ clock' \in Nat
      BY <1>2
    <3>2. ASSUME NEW w \in Volume
          PROVE  /\ volume'[w].updated <= clock' /\ clone'[w].created <= clock'
                 /\ clone'[w].content <= volume'[w].content
                 /\ clone[w].created <= clone'[w].created
      BY <2>1, <2>2, <3>1 DEF TimeInv
    <3>3. ASSUME NEW id \in DOMAIN dumps' PROVE dumps'[id].created <= clock'
      BY <2>1, <3>1 DEF TimeInv
    <3>4. ASSUME NEW i \in Job
          PROVE  /\ kid'[i].hdr.created <= clock'
                 /\ kid'[i].seen.content <= volume'[VolOf[i]].content
                 /\ kid'[i].at = "alloc" => kid'[i].hdr.created <= clone'[VolOf[i]].created
      <4>1. /\ kid'[i].hdr = kid[i].hdr /\ kid'[i].seen = kid[i].seen
            /\ kid'[i].at = "alloc" => kid[i].at = "alloc"
        BY <2>1
      <4>2. kid[i].hdr.created <= clock'
        BY <3>1 DEF TimeInv
      <4>3. kid[i].at = "alloc" => kid[i].hdr.created <= clone'[VolOf[i]].created
        <5>1. clone'[VolOf[i]].created \in Nat
          BY <2>1 DEF CloneRec
        <5> QED  BY <3>2, <5>1 DEF TimeInv
      <4> QED  BY <2>1, <4>1, <4>2, <4>3 DEF TimeInv
    <3> QED  BY <3>2, <3>3, <3>4 DEF TimeInv
  <2> QED  BY <1>2, <2>1, <2>3, <2>4
<1>6. ASSUME NEW j \in Job, Recorded(j) PROVE Rest0
  <2> DEFINE k == [kid[j] EXCEPT !.at = "told"]
  <2>1. /\ RowOf(j) \in RowRec /\ Insert(RowOf(j)) /\ Move(j, k) /\ k \in KidRec
        /\ muddled' \subseteq Volume /\ UNCHANGED <<volume, clone, clock>>
    BY <1>6, RecordedIs
  <2>2. k.at = "told" /\ k.hdr = kid[j].hdr /\ k.seen = kid[j].seen
    BY KidFacts DEF KidRec
  <2> HIDE DEF k
  <2>3. kid' \in [Job -> KidRec] /\ kid'[j] = k /\ \A i \in Job \ {j} : kid'[i] = kid[i]
    BY <2>1, MovedIs
  <2>4. PICK id : NewRow(id, RowOf(j))
    BY <1>2, <2>1, InsertIs
  <2>5. /\ RowTypes' /\ DOMAIN dumps' = DOMAIN dumps \cup {id}
        /\ dumps'[id] = [RowOf(j) EXCEPT !.again = id # nextId]
        /\ \A i \in DOMAIN dumps : dumps'[i] = dumps[i]
    BY <1>2, <2>1, <2>4, NewRowTypes
  <2>6. KidTypes'
    BY <1>2, <2>2, <2>3 DEF KidTypes
  <2>7. TimeInv'
    <3> USE TimeFacts
    <3>1. dumps'[id].created = kid[j].hdr.created
      BY <2>5 DEF RowOf
    <3>2. ASSUME NEW i \in DOMAIN dumps' PROVE dumps'[i].created <= clock'
      BY <2>1, <2>5, <3>1 DEF TimeInv
    <3>3. ASSUME NEW i \in Job
          PROVE  /\ kid'[i].hdr = kid[i].hdr /\ kid'[i].seen = kid[i].seen
                 /\ kid'[i].at = "alloc" => kid[i].at = "alloc"
      BY <2>2, <2>3
    <3> QED  BY <2>1, <3>2, <3>3 DEF TimeInv
  <2> QED  BY <1>2, <2>1, <2>5, <2>6, <2>7
<1>7. ASSUME NEW id \in DOMAIN dumps, Delete(id) PROVE Rest0
  <2>1. /\ dumps' = [i \in DOMAIN dumps \ {id} |-> dumps[i]]
        /\ UNCHANGED <<nextId, kid, volume, clone, clock, muddled>>
    BY <1>7 DEF Delete, Remove, afs, others
  <2>2. DOMAIN dumps' \subseteq DOMAIN dumps /\ \A i \in DOMAIN dumps' : dumps'[i] = dumps[i]
    BY <2>1
  <2>3. RowTypes' /\ KidTypes'
    BY <1>2, <2>1, <2>2 DEF RowTypes, KidTypes
  <2>4. TimeInv'
    BY <1>2, <2>1, <2>2, TimeKept
  <2> QED  BY <1>2, <2>1, <2>3, <2>4
<1>8. ASSUME NEW v \in Volume, Change(v) PROVE Rest0
  <2>1. PICK time \in Nat :
          LET w == [content |-> volume[v].content + 1, updated |-> time]
          IN  /\ time <= clock /\ volume[v].updated <= time /\ clock < time + FudgeTime
              /\ w \in VolumeRec /\ volume' \in [Volume -> VolumeRec] /\ volume'[v] = w
              /\ \A u \in Volume \ {v} : volume'[u] = volume[u]
              /\ UNCHANGED <<kid, clone, dumps, nextId, muddled, linked>>
    BY <1>8, ChangedIs
  <2>2. KidTypes' /\ RowTypes'
    BY <1>2, <2>1 DEF KidTypes, RowTypes
  <2>3. TimeInv'
    <3> USE TimeFacts
    <3>1. clock' >= clock /\ clock' \in Nat
      BY <1>2
    <3>2. ASSUME NEW w \in Volume
          PROVE  /\ volume'[w].updated <= clock' /\ clone'[w].created <= clock'
                 /\ clone'[w].content <= volume'[w].content
                 /\ volume[w].content <= volume'[w].content /\ volume'[w].content \in Nat
      <4>1. CASE w = v
        <5>1. volume'[v].content = volume[v].content + 1 /\ volume'[v].updated = time
          BY <2>1
        <5> QED  BY <2>1, <3>1, <4>1, <5>1 DEF TimeInv
      <4>2. CASE w # v
        BY <2>1, <3>1, <4>2 DEF TimeInv
      <4> QED  BY <4>1, <4>2
    <3>3. ASSUME NEW id \in DOMAIN dumps' PROVE dumps'[id].created <= clock'
      BY <2>1, <3>1 DEF TimeInv
    <3>4. ASSUME NEW i \in Job
          PROVE  /\ kid'[i].hdr.created <= clock'
                 /\ kid'[i].seen.content <= volume'[VolOf[i]].content
                 /\ kid'[i].at = "alloc" => kid'[i].hdr.created <= clone'[VolOf[i]].created
      BY <2>1, <3>1, <3>2 DEF TimeInv
    <3> QED  BY <3>2, <3>3, <3>4 DEF TimeInv
  <2> QED  BY <1>2, <2>1, <2>2, <2>3
<1> HIDE DEF Rest0
<1>9. Rest0
  BY <1>0, <1>3, <1>4, <1>5, <1>6, <1>7, <1>8 DEF ViewStep
<1> QED  BY <1>0, <1>1, <1>9 DEF Rest0, TypeInv, AfsTypes, Little

LEMMA InitTypes ==
  ASSUME Init
  PROVE  TypeInv
<1> DEFINE first == {<<Home, j>> : j \in Range(Early)}
<1>0. Early \in [1 .. Len(Early) -> Job] /\ Len(Early) \in Nat /\ Range(Early) \subseteq Job
  BY Assumed DEF Range
<1>1. StoreInv
  <2>1. /\ lock = {} /\ alloc = [j \in Job |-> NoAlloc] /\ litter = [s \in Store |-> 0]
        /\ blob = [b \in first |-> [size |-> 1, mtime |-> 0]]
    BY DEF Init
  <2>2. first \subseteq Store \X Job
    BY <1>0, Assumed
  <2>3. /\ NoAlloc \in AllocRec /\ NoAlloc.at = "none" /\ NoAlloc.store = NoStore
        /\ NoAlloc.size = 0
    BY NewAllocFacts, BuffersFacts DEF NoAlloc, NewAlloc, Places
  <2>4. [size |-> 1, mtime |-> 0] \in BlobRec
    BY DEF BlobRec
  <2> HIDE DEF first
  <2>5. StoreTypes
    BY <2>1, <2>2, <2>3, <2>4 DEF StoreTypes
  <2>6. ASSUME NEW j \in Job PROVE AllocOk(j) /\ RoomOk(j)
    BY <2>1, <2>3 DEF AllocOk, RoomOk
  <2> QED  BY <2>5, <2>6 DEF StoreInv
<1>2. \A j \in Job : SizeOk(j)
  BY BuffersFacts, SizeNone DEF Init, SizeOk, NoAlloc, NewAlloc
<1>3. ASSUME NEW j \in Job
      PROVE  \E at \in {"end", "bring", "look"} : kid[j] = NewKid(at)
  BY DEF Init
<1>4. Fresh \in VolumeRec /\ FreshClone \in CloneRec
  BY DEF Fresh, FreshClone, VolumeRec, CloneRec
<1>5. \A at \in {"end", "bring", "look"} :
        /\ NewKid(at) \in KidRec /\ NewKid(at).at = at
        /\ NewKid(at).hdr = FreshClone /\ NewKid(at).seen = Fresh
  BY <1>4 DEF NewKid, KidRec, KidPlaces
<1>6. KidTypes
  <2>1. kid \in [Job -> KidRec]
    <3>1. kid = [j \in Job |-> kid[j]]
      BY DEF Init
    <3> QED  BY <1>3, <1>5, <3>1
  <2> QED  BY <1>3, <1>5, <2>1 DEF KidTypes
<1>7. AfsTypes
  BY <1>4, Assumed DEF Init, AfsTypes
<1>8. RowTypes /\ \A id \in DOMAIN dumps : dumps[id].created = 0
  <2>1. /\ dumps = [i \in DOMAIN Early |->
                      [job |-> Early[i], store |-> Home, size |-> 1,
                       created |-> 0, updated |-> 0, content |-> 0, again |-> FALSE]]
        /\ nextId = Len(Early) + 1 /\ linked = Range(Early) /\ muddled = {}
    BY DEF Init
  <2>2. DOMAIN dumps = 1 .. Len(Early)
    BY <1>0, <2>1
  <2>3. nextId \in Nat \ {0} /\ nextId - 1 = Len(Early)
    BY <1>0, <2>1
  <2>4. ASSUME NEW id \in DOMAIN dumps PROVE dumps[id] \in RowRec /\ dumps[id].created = 0
    <3>1. Early[id] \in Job
      BY <1>0, <2>2
    <3> QED  BY <2>1, <3>1, Assumed DEF RowRec
  <2> QED  BY <1>0, <2>1, <2>2, <2>3, <2>4 DEF RowTypes
<1>9. TimeInv
  <2>1. /\ volume = [v \in Volume |-> Fresh] /\ clone = [v \in Volume |-> FreshClone]
        /\ clock = 1
    BY DEF Init
  <2>2. \A j \in Job : VolOf[j] \in Volume
    BY Assumed
  <2> QED  BY <1>3, <1>5, <1>8, <2>1, <2>2 DEF TimeInv, Fresh, FreshClone
<1> QED  BY <1>1, <1>2, <1>6, <1>7, <1>8, <1>9 DEF TypeInv

LEMMA SameTypes ==
  ASSUME TypeInv, UNCHANGED vars
  PROVE  TypeInv'
<1>1. UNCHANGED storage
  BY DEF vars
<1>2. StoreInv'
  BY <1>1, StorageSame DEF TypeInv
<1> QED
  BY <1>2 DEF TypeInv, SizeOk, KidTypes, AfsTypes, RowTypes, TimeInv, vars, storage, catalog,
       afs, others

LEMMA TypesAlways == Spec => []TypeInv
<1>1. Init => TypeInv
  BY InitTypes
<1>2. TypeInv /\ [Next]_vars => TypeInv'
  BY TypeStep, SameTypes
<1> QED  BY <1>1, <1>2, PTL DEF Spec

\* Every variable has its type, also what the jobs read of clones and volumes, and
\* what they take of the room they asked for.
THEOREM ArchiveTypes == Spec => []TypeOK
<1>1. ASSUME TypeInv PROVE TypeOK
  <2>1. lock \subseteq Job /\ litter \in [Store -> Nat] /\ DOMAIN blob \subseteq Store \X Job
    BY <1>1 DEF TypeInv, StoreInv, StoreTypes
  <2>2. ASSUME NEW j \in Job
        PROVE  /\ alloc[j].at \in {"none", "lock", "choose", "fill", "got", "copy", "have", "failed"}
               /\ alloc[j].store \in Store \cup {NoStore} /\ alloc[j].bad \subseteq Store
               /\ alloc[j].size \in 0 .. alloc[j].need \cup Size[j]
               /\ kid[j].hdr.created \in 0 .. clock
    <3>1. alloc[j] \in AllocRec /\ SizeOk(j)
      BY <1>1, CallFacts DEF TypeInv
    <3>2. kid[j].hdr.created \in 0 .. clock
      BY <1>1, TimeFacts DEF TimeInv
    <3> QED  BY <3>1, <3>2 DEF AllocRec, Places, SizeOk
  <2>3. /\ DOMAIN dumps \subseteq 1 .. nextId - 1
        /\ \A id \in DOMAIN dumps : dumps[id].job \in Job /\ dumps[id].store \in Store
        /\ linked \subseteq Job /\ muddled \subseteq Volume
    BY <1>1, RowFacts DEF TypeInv, RowTypes
  <2>4. /\ \A v \in Volume : clone[v].content <= volume[v].content /\ volume[v].updated <= clock
        /\ clock \in 0 .. MaxTime /\ faults \in 0 .. MaxFaults
    BY <1>1 DEF TypeInv, TimeInv, AfsTypes
  <2> QED  BY <2>1, <2>2, <2>3, <2>4 DEF TypeOK
<1> QED  BY <1>1, TypesAlways, PTL

\* Room that was found stays until it is filled: whoever looks for room holds the
\* lock, what else happens to the files makes them smaller, or goes on without the
\* lock and robs those that are filled.
THEOREM RoomStaysKept == Spec => []RoomIsKept
<1>1. ASSUME TypeInv PROVE RoomIsKept
  <2>1. SUFFICES ASSUME NEW j \in Job, alloc[j].at = "fill", ~ alloc[j].robbed
                 PROVE  alloc[j].left <= Free(alloc[j].store)
    BY DEF RoomIsKept
  <2>2. StoreInv
    BY <1>1 DEF TypeInv
  <2>3. alloc[j].store \in Store
    BY <2>1, <2>2, CallFacts DEF AllocOk
  <2>4. PICK s \in Store : s = alloc[j].store
    BY <2>3
  <2>5. Used(s) + alloc[j].left <= Capacity[s]
    BY <2>1, <2>2, <2>4, CallFacts DEF RoomOk
  <2>6. Used(s) \in Nat
    <3>1. (\A i \in Job : Takes(s, i) \in Nat) /\ litter[s] \in Nat
      BY <2>2, TakesNat DEF StoreInv, StoreTypes
    <3> QED  BY <3>1, UsedNat
  <2>7. alloc[j].left \in Nat /\ Capacity[s] \in Nat
    BY <2>2, CallFacts, StorageAssumption
  <2>8. alloc[j].left <= Free(s)
    BY <2>5, <2>6, <2>7 DEF Free
  <2> QED  BY <2>4, <2>8
<1> QED  BY <1>1, TypesAlways, PTL

-----------------------------------------------------------------------------
(***************************************************************************)
(* What is skipped is dumped.  A clone, and each dump of it, that lacks a  *)
(* change that the volume or a job saw, was made less than FUDGE_TIME      *)
(* after the last update that they saw.                                    *)
(***************************************************************************)

Fits(content, created, seen) == content < seen.content => created < seen.updated + FudgeTime

SnapOk(v, content, created) ==
  /\ Fits(content, created, volume[v])
  /\ \A k \in Job : VolOf[k] = v => Fits(content, created, kid[k].seen)

SkipInv ==
  /\ \A v \in Volume : SnapOk(v, clone[v].content, clone[v].created)
  /\ \A id \in DOMAIN dumps : SnapOk(VolumeOf(id), dumps[id].content, dumps[id].created)
  /\ \A j \in Job : kid[j].at \in {"links", "record"} =>
                      SnapOk(VolOf[j], kid[j].content, kid[j].hdr.created)
  /\ SkippedIsDumped

\* What jobs see of volumes is what the volumes are.
Seen == \A k \in Job : kid'[k].seen \in {kid[k].seen, Fresh, volume[VolOf[k]]}

LEMMA SeenStep ==
  ASSUME TypeInv, ViewStep
  PROVE  Seen /\ (UNCHANGED volume \/ \E v \in Volume : Change(v) /\ UNCHANGED kid)
<1> DEFINE Goal == Seen /\ (UNCHANGED volume \/ \E v \in Volume : Change(v) /\ UNCHANGED kid)
<1>1. ASSUME UNCHANGED <<kid, volume, clone, dumps, nextId, muddled>> PROVE Goal
  BY <1>1 DEF Seen
<1>2. ASSUME NEW j \in Job, NEW k \in KidRec, Move(j, k), KidWay(j, k),
             UNCHANGED <<volume, clone, dumps, nextId, muddled>>
      PROVE  Goal
  <2>1. kid'[j] = k /\ \A i \in Job \ {j} : kid'[i] = kid[i]
    BY <1>2, MovedIs
  <2> QED  BY <1>2, <2>1 DEF Seen, KidWay
<1>3. ASSUME NEW j \in Job, Clone(j) PROVE Goal
  <2>1. (\A i \in Job : kid'[i].seen = kid[i].seen) /\ UNCHANGED volume
    BY <1>3, ClonedIs
  <2> QED  BY <2>1 DEF Seen
<1>4. ASSUME NEW j \in Job, Recorded(j) PROVE Goal
  <2> DEFINE k == [kid[j] EXCEPT !.at = "told"]
  <2>1. Move(j, k) /\ k \in KidRec /\ UNCHANGED volume
    BY <1>4, RecordedIs
  <2>2. k.seen = kid[j].seen
    BY KidFacts DEF KidRec
  <2> HIDE DEF k
  <2>3. kid'[j] = k /\ \A i \in Job \ {j} : kid'[i] = kid[i]
    BY <2>1, MovedIs
  <2> QED  BY <2>1, <2>2, <2>3 DEF Seen
<1>5. ASSUME NEW id \in DOMAIN dumps, Delete(id) PROVE Goal
  <2>1. UNCHANGED <<kid, volume>>
    BY <1>5 DEF Delete, afs
  <2> QED  BY <2>1 DEF Seen
<1>6. ASSUME NEW v \in Volume, Change(v) PROVE Goal
  <2>1. UNCHANGED kid
    BY <1>6 DEF Change
  <2> QED  BY <1>6, <2>1 DEF Seen
<1> HIDE DEF Goal
<1>7. Goal
  BY <1>1, <1>2, <1>3, <1>4, <1>5, <1>6 DEF ViewStep
<1> QED  BY <1>7 DEF Goal

LEMMA SnapKept ==
  ASSUME TypeInv, ViewStep, NEW v \in Volume, NEW content \in Nat, NEW created \in Nat,
         SnapOk(v, content, created), created <= clock
  PROVE  SnapOk(v, content, created)'
<1> USE TimeFacts
<1>1. Seen /\ (UNCHANGED volume \/ \E u \in Volume : Change(u) /\ UNCHANGED kid)
  BY SeenStep
<1>2. ASSUME NEW k \in Job, VolOf[k] = v PROVE Fits(content, created, kid'[k].seen)
  <2>1. Fits(content, created, kid[k].seen) /\ Fits(content, created, volume[v])
    BY <1>2 DEF SnapOk
  <2>2. Fits(content, created, Fresh)
    BY DEF Fits, Fresh
  <2>3. kid'[k].seen \in {kid[k].seen, Fresh, volume[v]}
    BY <1>1, <1>2 DEF Seen
  <2> QED  BY <2>1, <2>2, <2>3
<1>3. Fits(content, created, volume'[v])
  <2>1. CASE UNCHANGED volume
    BY <2>1 DEF SnapOk
  <2>2. ASSUME NEW u \in Volume, Change(u) PROVE Fits(content, created, volume'[v])
    <3>1. PICK time \in Nat :
            LET w == [content |-> volume[u].content + 1, updated |-> time]
            IN  /\ time <= clock /\ volume[u].updated <= time /\ clock < time + FudgeTime
                /\ w \in VolumeRec /\ volume' \in [Volume -> VolumeRec] /\ volume'[u] = w
                /\ \A x \in Volume \ {u} : volume'[x] = volume[x]
                /\ UNCHANGED <<kid, clone, dumps, nextId, muddled, linked>>
      BY <2>2, ChangedIs
    <3>2. CASE u = v
      <4>1. volume'[v].updated = time
        BY <3>1, <3>2
      <4>2. created < time + FudgeTime
        BY <3>1, Assumed
      <4> QED  BY <4>1, <4>2 DEF Fits
    <3>3. CASE u # v
      BY <3>1, <3>3 DEF SnapOk
    <3> QED  BY <3>2, <3>3
  <2> QED  BY <1>1, <2>1, <2>2
<1> QED  BY <1>2, <1>3 DEF SnapOk, Fits

\* An older one fits all the more.
LEMMA SnapOlder ==
  ASSUME TypeInv, NEW v \in Volume, NEW content \in Nat, NEW created \in Nat,
         NEW before \in Nat, before <= created, SnapOk(v, content, created)
  PROVE  SnapOk(v, content, before)
<1> USE TimeFacts
<1>1. volume[v].updated + FudgeTime \in Nat
  BY Assumed
<1>2. ASSUME NEW k \in Job PROVE kid[k].seen.updated + FudgeTime \in Nat
  BY Assumed
<1> QED  BY <1>1, <1>2 DEF SnapOk, Fits

LEMMA SkipStep ==
  ASSUME TypeInv, TypeInv', SkipInv, ViewStep, clock' \in {clock, clock + 1}
  PROVE  SkipInv'
<1> DEFINE Clones == \A v \in Volume : SnapOk(v, clone[v].content, clone[v].created)
           Rows == \A id \in DOMAIN dumps :
                     SnapOk(VolumeOf(id), dumps[id].content, dumps[id].created)
           KidOk(j) == /\ kid[j].at \in {"links", "record"} =>
                            SnapOk(VolOf[j], kid[j].content, kid[j].hdr.created)
                       /\ kid[j].at = "skipped" => kid[j].last >= kid[j].seen.content
           Kids == \A j \in Job : KidOk(j)
\* What stays as it is stays good.
<1>1. ASSUME NEW v \in Volume, clone'[v] = clone[v]
      PROVE  SnapOk(v, clone[v].content, clone[v].created)'
  <2>1. PICK content \in Nat, created \in Nat :
          content = clone[v].content /\ created = clone[v].created
    BY TimeFacts
  <2>2. SnapOk(v, content, created) /\ created <= clock
    BY <2>1, TimeFacts DEF SkipInv, TimeInv
  <2>3. SnapOk(v, content, created)'
    BY <2>2, SnapKept
  <2>4. clone'[v].content = content /\ clone'[v].created = created
    BY <1>1, <2>1
  <2> QED  BY <2>3, <2>4 DEF SnapOk
<1>2. ASSUME NEW id \in DOMAIN dumps, dumps'[id] = dumps[id]
      PROVE  SnapOk(VolumeOf(id), dumps[id].content, dumps[id].created)'
  <2>1. PICK v \in Volume, content \in Nat, created \in Nat :
          v = VolumeOf(id) /\ content = dumps[id].content /\ created = dumps[id].created
    BY RowFacts DEF TypeInv
  <2>2. SnapOk(v, content, created) /\ created <= clock
    BY <2>1, TimeFacts DEF SkipInv, TimeInv
  <2>3. SnapOk(v, content, created)'
    BY <2>2, SnapKept
  <2>4. VolumeOf(id)' = v /\ dumps'[id].content = content /\ dumps'[id].created = created
    BY <1>2, <2>1 DEF VolumeOf
  <2> QED  BY <2>3, <2>4 DEF SnapOk
<1>3. ASSUME NEW j \in Job, kid[j].at \in {"links", "record"}
      PROVE  \E v \in Volume, content \in Nat, created \in Nat :
               /\ v = VolOf[j] /\ content = kid[j].content /\ created = kid[j].hdr.created
               /\ SnapOk(v, content, created)'
  <2>1. PICK v \in Volume, content \in Nat, created \in Nat :
          v = VolOf[j] /\ content = kid[j].content /\ created = kid[j].hdr.created
    BY TimeFacts
  <2>2. SnapOk(v, content, created) /\ created <= clock
    BY <1>3, <2>1, TimeFacts DEF SkipInv, TimeInv
  <2>3. SnapOk(v, content, created)'
    BY <2>2, SnapKept
  <2> QED  BY <2>1, <2>3
<1>4. ASSUME NEW j \in Job, kid'[j] = kid[j] PROVE KidOk(j)'
  <2>1. kid[j].at = "skipped" => kid[j].last >= kid[j].seen.content
    BY DEF SkipInv, SkippedIsDumped
  <2>2. ASSUME kid[j].at \in {"links", "record"}
        PROVE  SnapOk(VolOf[j], kid[j].content, kid[j].hdr.created)'
    BY <1>3, <1>4, <2>2 DEF SnapOk
  <2> QED  BY <1>4, <2>1, <2>2
<1>5. ASSUME NEW j \in Job, KidWay(j, kid'[j]) PROVE KidOk(j)'
  <2> DEFINE k == kid'[j]
  <2>1. ASSUME k.at \in {"links", "record"}
        PROVE  SnapOk(VolOf[j], kid[j].content, kid[j].hdr.created)'
    <3>1. k.hdr = kid[j].hdr
      BY <1>5, <2>1 DEF KidWay
    <3>2. CASE kid[j].at = "links" /\ k.content = kid[j].content
      BY <1>3, <3>1, <3>2 DEF SnapOk
    <3>3. CASE kid[j].at = "alloc" /\ k.content = clone[VolOf[j]].content
      <4>1. PICK v \in Volume, content \in Nat, created \in Nat, before \in Nat :
              /\ v = VolOf[j] /\ content = clone[v].content /\ created = clone[v].created
              /\ before = kid[j].hdr.created
        BY TimeFacts
      <4>2. SnapOk(v, content, created) /\ before <= created /\ before <= clock
        BY <3>3, <4>1, TimeFacts DEF SkipInv, TimeInv
      <4>3. SnapOk(v, content, before)
        BY <4>2, SnapOlder
      <4>4. SnapOk(v, content, before)'
        BY <4>2, <4>3, SnapKept
      <4> QED  BY <3>1, <3>3, <4>1, <4>4 DEF SnapOk
    <3> QED  BY <1>5, <2>1, <3>2, <3>3 DEF KidWay
  <2>2. ASSUME k.at = "skipped" PROVE k.last >= k.seen.content
    <3>1. PICK id \in RowsOf(VolOf[j]) :
            k.last = dumps[id].content /\ dumps[id].created >= k.seen.updated + FudgeTime
      BY <1>5, <2>2 DEF KidWay
    <3>2. k.seen = kid[j].seen
      BY <1>5, <2>2 DEF KidWay
    <3>3. id \in DOMAIN dumps /\ VolumeOf(id) = VolOf[j]
      BY DEF RowsOf
    <3>4. Fits(dumps[id].content, dumps[id].created, kid[j].seen)
      BY <3>3 DEF SkipInv, SnapOk
    <3>5. /\ dumps[id].content \in Nat /\ dumps[id].created \in Nat
          /\ kid[j].seen.content \in Nat /\ kid[j].seen.updated \in Nat
      BY <3>3, RowFacts, TimeFacts DEF TypeInv
    <3>6. FudgeTime \in Nat
      BY Assumed
    <3> HIDE DEF k
    <3>7. ~ (dumps[id].content < kid[j].seen.content)
      BY <3>1, <3>2, <3>4, <3>5, <3>6 DEF Fits
    <3> QED  BY <3>1, <3>2, <3>5, <3>7
  <2> QED  BY <2>1, <2>2
<1> DEFINE Goal == Clones' /\ Rows' /\ Kids'
<1>6. ASSUME UNCHANGED <<kid, volume, clone, dumps, nextId, muddled>> PROVE Goal
  BY <1>1, <1>2, <1>4, <1>6
<1>7. ASSUME NEW j \in Job, NEW k \in KidRec, Move(j, k), KidWay(j, k),
             UNCHANGED <<volume, clone, dumps, nextId, muddled>>
      PROVE  Goal
  <2>1. kid'[j] = k /\ \A i \in Job \ {j} : kid'[i] = kid[i]
    BY <1>7, MovedIs
  <2>2. Kids'
    <3>1. ASSUME NEW i \in Job PROVE KidOk(i)'
      <4>1. CASE i = j
        BY <1>5, <1>7, <2>1, <4>1
      <4>2. CASE i # j
        BY <1>4, <2>1, <4>2
      <4> QED  BY <4>1, <4>2
    <3> QED  BY <3>1
  <2>3. Clones' /\ Rows'
    BY <1>1, <1>2, <1>7
  <2> QED  BY <2>2, <2>3
<1>8. ASSUME NEW j \in Job, Clone(j) PROVE Goal
  <2> DEFINE v == VolOf[j]
             c == [content |-> volume[v].content, updated |-> volume[v].updated,
                   created |-> clock]
             k == [kid[j] EXCEPT !.at = "examine"]
  <2>1. /\ clone'[v] = c
        /\ \A w \in Volume \ {v} : clone'[w] = clone[w]
        /\ k.at = "examine" /\ kid'[j] = k
        /\ \A i \in Job \ {j} : kid'[i] = kid[i]
        /\ UNCHANGED <<volume, dumps, nextId, muddled, linked>>
    BY <1>8, ClonedIs
  <2>2. SnapOk(v, clone[v].content, clone[v].created)'
    <3>1. clone'[v].content = volume'[v].content
      BY <2>1
    <3>2. /\ volume'[v].content \in Nat
          /\ \A i \in Job : VolOf[i] = v =>
               kid'[i].seen.content <= volume'[v].content /\ kid'[i].seen.content \in Nat
      <4>1. v \in Volume /\ volume'[v].content \in Nat
        BY TimeFacts, <2>1
      <4>2. ASSUME NEW i \in Job, VolOf[i] = v
            PROVE  kid'[i].seen.content <= volume'[v].content /\ kid'[i].seen.content \in Nat
        <5>1. kid'[i] \in KidRec
          BY DEF TypeInv, KidTypes
        <5> QED  BY <4>2, <5>1 DEF TypeInv, TimeInv, KidRec, VolumeRec
      <4> QED  BY <4>1, <4>2
    <3> HIDE DEF v, c
    <3> QED  BY <3>1, <3>2 DEF SnapOk, Fits
  <2>3. Clones'
    <3>1. ASSUME NEW w \in Volume PROVE SnapOk(w, clone[w].content, clone[w].created)'
      <4>1. CASE w = v
        BY <2>2, <4>1 DEF SnapOk
      <4>2. CASE w # v
        BY <1>1, <2>1, <4>2
      <4> QED  BY <4>1, <4>2
    <3> QED  BY <3>1
  <2>4. Kids'
    <3>1. ASSUME NEW i \in Job PROVE KidOk(i)'
      <4>1. CASE i = j
        BY <2>1, <4>1
      <4>2. CASE i # j
        BY <1>4, <2>1, <4>2
      <4> QED  BY <4>1, <4>2
    <3> QED  BY <3>1
  <2>5. Rows'
    BY <1>2, <2>1
  <2> QED  BY <2>3, <2>4, <2>5
<1>9. ASSUME NEW j \in Job, Recorded(j) PROVE Goal
  <2> DEFINE k == [kid[j] EXCEPT !.at = "told"]
  <2>1. /\ RowOf(j) \in RowRec /\ Insert(RowOf(j)) /\ Move(j, k) /\ k \in KidRec
        /\ muddled' \subseteq Volume /\ kid[j].at = "record"
        /\ UNCHANGED <<volume, clone, clock, linked>>
    BY <1>9, RecordedIs
  <2>2. k.at = "told"
    BY KidFacts DEF KidRec
  <2> HIDE DEF k
  <2>3. kid'[j] = k /\ \A i \in Job \ {j} : kid'[i] = kid[i]
    BY <2>1, MovedIs
  <2>4. RowTypes /\ linked' \subseteq Job
    BY <2>1 DEF TypeInv, RowTypes
  <2>5. PICK id : NewRow(id, RowOf(j))
    BY <2>1, <2>4, InsertIs
  <2>6. /\ DOMAIN dumps' = DOMAIN dumps \cup {id}
        /\ dumps'[id] = [RowOf(j) EXCEPT !.again = id # nextId]
        /\ \A i \in DOMAIN dumps : dumps'[i] = dumps[i]
    BY <2>1, <2>4, <2>5, NewRowTypes
  <2>7. /\ dumps'[id].content = kid[j].content /\ dumps'[id].created = kid[j].hdr.created
        /\ dumps'[id].job = j
    BY <2>6 DEF RowOf
  <2>8. SnapOk(VolumeOf(id), dumps[id].content, dumps[id].created)'
    <3>1. VolumeOf(id)' = VolOf[j]
      BY <2>7 DEF VolumeOf
    <3> QED  BY <1>3, <2>1, <2>7, <3>1 DEF SnapOk
  <2>9. Rows'
    <3>1. ASSUME NEW i \in DOMAIN dumps' PROVE SnapOk(VolumeOf(i), dumps[i].content, dumps[i].created)'
      <4>1. CASE i = id
        BY <2>8, <4>1
      <4>2. CASE i \in DOMAIN dumps
        BY <1>2, <2>6, <4>2
      <4> QED  BY <2>6, <4>1, <4>2
    <3> QED  BY <3>1
  <2>10. Kids'
    <3>1. ASSUME NEW i \in Job PROVE KidOk(i)'
      <4>1. CASE i = j
        BY <2>2, <2>3, <4>1
      <4>2. CASE i # j
        BY <1>4, <2>3, <4>2
      <4> QED  BY <4>1, <4>2
    <3> QED  BY <3>1
  <2>11. Clones'
    BY <1>1, <2>1
  <2> QED  BY <2>9, <2>10, <2>11
<1>10. ASSUME NEW id \in DOMAIN dumps, Delete(id) PROVE Goal
  <2>1. /\ dumps' = [i \in DOMAIN dumps \ {id} |-> dumps[i]]
        /\ UNCHANGED <<kid, volume, clone>>
    BY <1>10 DEF Delete, Remove, afs
  <2>2. DOMAIN dumps' \subseteq DOMAIN dumps /\ \A i \in DOMAIN dumps' : dumps'[i] = dumps[i]
    BY <2>1
  <2> QED  BY <1>1, <1>2, <1>4, <2>1, <2>2
<1>11. ASSUME NEW v \in Volume, Change(v) PROVE Goal
  <2>1. UNCHANGED <<kid, clone, dumps>>
    BY <1>11 DEF Change, catalog
  <2> QED  BY <1>1, <1>2, <1>4, <2>1
<1> HIDE DEF Goal
<1>12. Goal
  BY <1>6, <1>7, <1>8, <1>9, <1>10, <1>11 DEF ViewStep
<1> QED  BY <1>12 DEF Goal, SkipInv, SkippedIsDumped

LEMMA InitSkip ==
  ASSUME Init
  PROVE  SkipInv
<1>1. \A j \in Job : kid[j].at \in {"end", "bring", "look"} /\ kid[j].seen = Fresh
  BY DEF Init, NewKid
<1>2. /\ volume = [v \in Volume |-> Fresh] /\ clone = [v \in Volume |-> FreshClone]
      /\ \A id \in DOMAIN dumps : dumps[id].content = 0 /\ dumps[id].job \in Job
  BY InitTypes, RowFacts DEF Init, TypeInv
<1>3. \A v \in Volume : \A created : SnapOk(v, 0, created)
  BY <1>1, <1>2 DEF SnapOk, Fits, Fresh
<1>4. \A id \in DOMAIN dumps : VolumeOf(id) \in Volume
  BY InitTypes, RowFacts DEF TypeInv
<1>5. \A v \in Volume : clone[v].content = 0
  BY <1>2 DEF FreshClone
<1> QED  BY <1>1, <1>2, <1>3, <1>4, <1>5 DEF SkipInv, SkippedIsDumped

\* A volume that is skipped as unchanged is one whose last dump holds all that was
\* in it when the job looked: if the dump lacked a change, then its clone would have
\* been made less than FUDGE_TIME after the last update that the job saw.
THEOREM NothingIsMissed == Spec => []SkippedIsDumped
<1>1. Init => SkipInv
  BY InitSkip
<1>2. TypeInv /\ TypeInv' /\ SkipInv /\ [Next]_vars => SkipInv'
  <2>1. ASSUME TypeInv, TypeInv', SkipInv, Next PROVE SkipInv'
    BY <2>1, Steps, SkipStep DEF Viewed, Little
  <2>2. ASSUME SkipInv, UNCHANGED vars PROVE SkipInv'
    BY <2>2 DEF SkipInv, SnapOk, Fits, SkippedIsDumped, VolumeOf, vars, catalog, afs
  <2> QED  BY <2>1, <2>2
<1>3. SkipInv => SkippedIsDumped
  BY DEF SkipInv
<1> QED  BY <1>1, <1>2, <1>3, TypesAlways, PTL DEF Spec

-----------------------------------------------------------------------------
(***************************************************************************)
(* One dump stays on disk.  The rows of a volume are in the order of their *)
(* clones, so that the newest is neither redundant nor older than itself:  *)
(* its file is never the one that goes.                                    *)
(***************************************************************************)

DiskOk(v) ==
  /\ \A i, k \in RowsOf(v) : i < k => dumps[i].created <= dumps[k].created
  /\ RowsOf(v) # {} => OnDisk(Latest(v))
  /\ \A j \in Job : VolOf[j] = v /\ kid[j].at \in {"told", "end"} => RowsOf(v) # {}

DiskInv == \A v \in Volume \ muddled : DiskOk(v)

LEMMA LatestIs ==
  ASSUME RowTypes, NEW v, RowsOf(v) # {}
  PROVE  Latest(v) \in RowsOf(v) /\ \A i \in RowsOf(v) : i <= Latest(v)
  BY RowFacts, HighestIs DEF Latest

\* The rows stay, and the files too.
LEMMA DiskSame ==
  ASSUME RowTypes, NEW v \in Volume, DiskOk(v),
         RowsOf(v)' = RowsOf(v), \A i \in RowsOf(v) : dumps'[i] = dumps[i],
         DOMAIN blob \subseteq DOMAIN blob',
         \A j \in Job : VolOf[j] = v /\ kid'[j].at \in {"told", "end"} =>
                          kid[j].at \in {"told", "end"}
  PROVE  DiskOk(v)'
<1>1. Latest(v)' = Latest(v)
  BY DEF Latest
<1>2. ASSUME RowsOf(v) # {} PROVE OnDisk(Latest(v))'
  <2>1. Latest(v) \in RowsOf(v)
    BY <1>2, LatestIs
  <2>2. PathOf(Latest(v))' = PathOf(Latest(v))
    BY <1>1, <2>1 DEF PathOf
  <2> QED  BY <1>2, <2>2 DEF DiskOk, OnDisk
<1> QED  BY <1>2 DEF DiskOk

LEMMA DiskTrim ==
  ASSUME TypeInv, NEW v \in Volume, DiskOk(v), NEW b \in DOMAIN blob, Trim(b)
  PROVE  DiskOk(v)'
<1>1. /\ blob' = [c \in DOMAIN blob \ {b} |-> blob[c]] /\ b \in Trimmable
      /\ UNCHANGED <<dumps, kid>>
  BY DEF Trim, Unlink, catalog
<1>2. RowsOf(v)' = RowsOf(v) /\ Latest(v)' = Latest(v)
  BY <1>1 DEF Latest, RowsOf, VolumeOf
<1>3. ASSUME RowsOf(v) # {} PROVE OnDisk(Latest(v))'
  <2>0. PICK latest : latest = Latest(v)
    OBVIOUS
  <2>1. latest \in RowsOf(v) /\ PathOf(latest) \in DOMAIN blob
    BY <1>3, <2>0, LatestIs DEF DiskOk, OnDisk, TypeInv
  <2>2. PathOf(latest) # b
    <3>1. SUFFICES ASSUME PathOf(latest) = b PROVE FALSE
      OBVIOUS
    <3>2. PICK id \in RowsAt(b) : Older(b, PathOf(Latest(VolumeOf(id))))
      BY <1>1 DEF Trimmable
    <3>3. dumps[id].job = dumps[latest].job
      BY <3>1, <3>2 DEF RowsAt, PathOf
    <3>4. VolumeOf(id) = v
      BY <2>1, <3>3 DEF RowsOf, VolumeOf
    <3>5. blob[b].mtime < blob[b].mtime
      BY <2>0, <3>1, <3>2, <3>4 DEF Older
    <3>6. blob[b].mtime \in Nat
      BY DEF TypeInv, StoreInv, StoreTypes, BlobRec
    <3> QED  BY <3>5, <3>6
  <2>3. PathOf(Latest(v))' = PathOf(latest)
    BY <1>1, <1>2, <2>0 DEF PathOf
  <2> QED  BY <1>1, <2>1, <2>2, <2>3 DEF OnDisk
<1> QED  BY <1>1, <1>2, <1>3 DEF DiskOk

LEMMA DiskDelete ==
  ASSUME TypeInv, NEW v \in Volume, DiskOk(v), NEW id \in DOMAIN dumps, Delete(id)
  PROVE  DiskOk(v)'
<1>1. /\ dumps' = [i \in DOMAIN dumps \ {id} |-> dumps[i]] /\ id \in Redundant(1)
      /\ UNCHANGED kid
      /\ IF \E i \in DOMAIN dumps \ {id} : dumps[i].job = dumps[id].job
         THEN UNCHANGED blob
         ELSE blob' = [c \in DOMAIN blob \ {PathOf(id)} |-> blob[c]]
  BY DEF Delete, Remove, Unlink, storage
<1>2. RowsOf(v)' = RowsOf(v) \ {id} /\ \A i \in RowsOf(v)' : dumps'[i] = dumps[i]
  BY <1>1 DEF RowsOf, VolumeOf
<1>3. ASSUME RowsOf(v) # {}
      PROVE  RowsOf(v)' # {} /\ OnDisk(Latest(v))'
  <2> DEFINE latest == Latest(v)
  <2>1. latest \in RowsOf(v) /\ PathOf(latest) \in DOMAIN blob
        /\ \A i \in RowsOf(v) : i <= latest
    BY <1>3, LatestIs DEF DiskOk, OnDisk, TypeInv
  <2>2. latest \in DOMAIN dumps /\ VolumeOf(latest) = v
    BY <2>1 DEF RowsOf
  <2> HIDE DEF latest
  <2>3. latest # id
    <3>1. SUFFICES ASSUME latest = id PROVE FALSE
      OBVIOUS
    <3>2. Newer(id) # {}
      <4>1. Cardinality(Newer(id)) >= 1
        BY <1>1 DEF Redundant
      <4>2. Cardinality({}) = 0
        BY FS_EmptySet
      <4> QED  BY <4>1, <4>2
    <3>3. PICK i \in RowsOf(v) : dumps[i].created > dumps[id].created
      BY <2>2, <3>1, <3>2 DEF Newer
    <3>4. /\ i \in Nat /\ id \in Nat /\ i <= id
          /\ dumps[i].created \in Nat /\ dumps[id].created \in Nat
      BY <2>1, <3>1, RowFacts DEF TypeInv, RowsOf
    <3>5. i # id
      BY <3>3, <3>4
    <3>6. dumps[i].created <= dumps[id].created
      BY <2>1, <3>1, <3>4, <3>5 DEF DiskOk
    <3> QED  BY <3>3, <3>4, <3>6
  <2>4. latest \in RowsOf(v)'
    BY <1>2, <2>1, <2>3
  <2>5. Latest(v)' = latest
    <3>1. RowsOf(v)' \in SUBSET (1 .. (nextId - 1)) /\ nextId - 1 \in Nat /\ RowsOf(v)' # {}
      BY <1>2, <2>4, RowFacts DEF TypeInv
    <3> DEFINE rows == RowsOf(v) \ {id}
    <3>2. rows = RowsOf(v)'
      BY <1>2
    <3> HIDE DEF rows
    <3>3. Highest(rows) \in rows /\ \A i \in rows : i <= Highest(rows)
      BY <3>1, <3>2, HighestIs
    <3>4. latest \in rows /\ rows \subseteq RowsOf(v)
      BY <1>2, <2>4, <3>2
    <3>5. latest \in Nat /\ Highest(rows) \in Nat
      BY <3>1, <3>2, <3>3, <3>4
    <3>6. Highest(rows) = latest
      BY <2>1, <3>3, <3>4, <3>5
    <3>7. Latest(v)' = Highest(rows)
      BY <3>2 DEF Latest
    <3> QED  BY <3>6, <3>7
  <2>6. PathOf(Latest(v))' = PathOf(latest)
    <3>1. dumps'[latest] = dumps[latest]
      BY <1>2, <2>4
    <3> QED  BY <2>5, <3>1 DEF PathOf
  <2>7. PathOf(latest) \in DOMAIN blob'
    <3>1. CASE \E i \in DOMAIN dumps \ {id} : dumps[i].job = dumps[id].job
      BY <1>1, <2>1, <3>1
    <3>2. CASE ~ \E i \in DOMAIN dumps \ {id} : dumps[i].job = dumps[id].job
      <4>1. dumps[latest].job # dumps[id].job
        BY <2>2, <2>3, <3>2
      <4>2. PathOf(latest) # PathOf(id)
        BY <4>1 DEF PathOf
      <4> QED  BY <1>1, <2>1, <3>2, <4>2
    <3> QED  BY <3>1, <3>2
  <2> QED  BY <2>4, <2>6, <2>7 DEF OnDisk
<1>4. RowsOf(v)' # {} => RowsOf(v) # {}
  BY <1>2
<1>5. \A i, k \in RowsOf(v)' : i < k => dumps'[i].created <= dumps'[k].created
  BY <1>2 DEF DiskOk
<1> QED  BY <1>1, <1>3, <1>4, <1>5 DEF DiskOk

LEMMA DiskRecorded ==
  ASSUME TypeInv, NEW v \in Volume \ muddled', DiskOk(v), NEW j \in Job, Recorded(j)
  PROVE  DiskOk(v)'
<1> DEFINE row == RowOf(j)
           k == [kid[j] EXCEPT !.at = "told"]
<1>1. /\ row \in RowRec /\ Insert(row) /\ Move(j, k) /\ k \in KidRec
      /\ muddled' \subseteq Volume /\ UNCHANGED <<storage, linked>>
  BY RecordedIs
<1>2. /\ row.job = j /\ row.created = kid[j].hdr.created /\ row.store = kid[j].store
      /\ VolOf[j] \in Volume
  BY KidFacts DEF RowOf
<1>3. kid'[j] = k /\ \A i \in Job \ {j} : kid'[i] = kid[i]
  BY <1>1, MovedIs
<1>4. PICK id : NewRow(id, row)
  BY <1>1, InsertIs DEF TypeInv
<1>5. /\ DOMAIN dumps' = DOMAIN dumps \cup {id} /\ id \notin DOMAIN dumps
      /\ dumps'[id] = [row EXCEPT !.again = id # nextId]
      /\ \A i \in DOMAIN dumps : dumps'[i] = dumps[i]
      /\ RowTypes'
  BY <1>1, <1>4, NewRowTypes DEF TypeInv, RowTypes
<1> HIDE DEF k
<1>6. /\ dumps'[id].job = j /\ dumps'[id].created = kid[j].hdr.created
      /\ dumps'[id].store = kid[j].store
  BY <1>1, <1>2, <1>5 DEF RowRec
<1>7. CASE v # VolOf[j]
  <2>1. RowsOf(v)' = RowsOf(v) /\ \A i \in RowsOf(v) : dumps'[i] = dumps[i]
    BY <1>5, <1>6, <1>7 DEF RowsOf, VolumeOf
  <2>2. DOMAIN blob \subseteq DOMAIN blob'
    BY <1>1 DEF storage
  <2>3. \A i \in Job : VolOf[i] = v => kid'[i] = kid[i]
    BY <1>3, <1>7
  <2> QED  BY <2>1, <2>2, <2>3, DiskSame DEF TypeInv
<1>8. CASE v = VolOf[j]
  <2>1. RowsOf(v)' = RowsOf(v) \cup {id} /\ \A i \in RowsOf(v) : dumps'[i] = dumps[i]
    BY <1>5, <1>6, <1>8 DEF RowsOf, VolumeOf
  <2>2. /\ \A i \in RowsOf(v) : ~ (dumps[i].created > kid[j].hdr.created)
        /\ <<kid[j].store, j>> \in DOMAIN blob
    <3>1. SUFFICES ASSUME \/ \E i \in RowsOf(v) : dumps[i].created > kid[j].hdr.created
                          \/ <<kid[j].store, j>> \notin DOMAIN blob
                   PROVE  FALSE
      OBVIOUS
    <3>2. v \in muddled'
      BY <1>8, <3>1 DEF Recorded
    <3> QED  BY <3>2
  <2>3. id \in Nat /\ \A i \in RowsOf(v) : i \in Nat /\ i < id
    BY <1>4, RowFacts DEF NewRow, TypeInv, RowsOf
  <2>4. \A i \in RowsOf(v) : dumps[i].created \in Nat /\ kid[j].hdr.created \in Nat
    BY TimeFacts DEF RowsOf
  <2>5. ASSUME NEW i \in RowsOf(v)', NEW m \in RowsOf(v)', i < m
        PROVE  dumps'[i].created <= dumps'[m].created
    <3>1. CASE m = id
      <4>1. i \in RowsOf(v)
        BY <2>1, <2>3, <2>5, <3>1
      <4> QED  BY <1>6, <2>1, <2>2, <2>4, <3>1, <4>1
    <3>2. CASE m \in RowsOf(v)
      <4>1. i \in RowsOf(v)
        BY <2>1, <2>3, <2>5, <3>2
      <4> QED  BY <2>1, <2>5, <3>2, <4>1 DEF DiskOk
    <3> QED  BY <2>1, <3>1, <3>2
  <2>6. OnDisk(Latest(v))'
    <3>1. RowsOf(v)' # {} /\ id \in RowsOf(v)'
      BY <2>1
    <3>2. /\ RowsOf(v)' \in SUBSET (1 .. (nextId' - 1)) /\ nextId' - 1 \in Nat
      BY <1>5 DEF RowTypes, RowsOf
    <3> DEFINE rows == RowsOf(v) \cup {id}
               n == nextId' - 1
    <3>3. rows \in SUBSET (1 .. n) /\ n \in Nat /\ rows # {} /\ id \in rows /\ rows = RowsOf(v)'
      BY <2>1, <3>2
    <3> HIDE DEF n
    <3>4. \A i \in rows : i <= id
      BY <2>3
    <3> HIDE DEF rows
    <3>5. Highest(rows) \in rows /\ \A i \in rows : i <= Highest(rows)
      BY <3>3, HighestIs
    <3>6. Highest(rows) = id
      <4>1. Highest(rows) \in Nat /\ id <= Highest(rows) /\ Highest(rows) <= id
        BY <3>3, <3>4, <3>5
      <4> QED  BY <2>3, <4>1
    <3>7. Latest(v)' = id
      BY <3>3, <3>6 DEF Latest
    <3>8. PathOf(Latest(v))' = <<kid[j].store, j>>
      BY <1>6, <3>7 DEF PathOf
    <3>9. DOMAIN blob' = DOMAIN blob
      BY <1>1 DEF storage
    <3> QED  BY <2>2, <3>8, <3>9 DEF OnDisk
  <2>7. RowsOf(v)' # {}
    BY <2>1
  <2> QED  BY <2>5, <2>6, <2>7 DEF DiskOk
<1> QED  BY <1>7, <1>8

LEMMA DiskStep ==
  ASSUME TypeInv, DiskInv, ViewStep, Goes, muddled \subseteq muddled',
         (\E b \in DOMAIN blob : Trim(b)) => UNCHANGED muddled
  PROVE  DiskInv'
<1> SUFFICES ASSUME NEW v \in Volume \ muddled' PROVE DiskOk(v)'
  BY DEF DiskInv
<1>1. DiskOk(v) /\ v \in Volume
  BY DEF DiskInv
<1>2. ASSUME NEW b \in DOMAIN blob, Trim(b) PROVE DiskOk(v)'
  BY <1>1, <1>2, DiskTrim
<1>3. ASSUME NEW id \in DOMAIN dumps, Delete(id) PROVE DiskOk(v)'
  BY <1>1, <1>3, DiskDelete
<1>4. ASSUME NEW j \in Job, Recorded(j) PROVE DiskOk(v)'
  BY <1>1, <1>4, DiskRecorded
<1>5. ASSUME DOMAIN blob \subseteq DOMAIN blob', UNCHANGED dumps,
             \A j \in Job : kid'[j].at \in {"told", "end"} => kid[j].at \in {"told", "end"}
      PROVE  DiskOk(v)'
  <2>1. RowsOf(v)' = RowsOf(v) /\ \A i \in RowsOf(v) : dumps'[i] = dumps[i]
    BY <1>5 DEF RowsOf, VolumeOf
  <2> QED  BY <1>1, <1>5, <2>1, DiskSame DEF TypeInv
<1>6. CASE UNCHANGED <<kid, volume, clone, dumps, nextId, muddled>>
  BY <1>2, <1>3, <1>5, <1>6 DEF Goes
<1>7. ASSUME NEW j \in Job, NEW k \in KidRec, Move(j, k), KidWay(j, k), UNCHANGED dumps
      PROVE  DiskOk(v)'
  <2>1. kid'[j] = k /\ \A i \in Job \ {j} : kid'[i] = kid[i]
    BY <1>7, MovedIs
  <2>2. \A i \in Job : kid'[i].at \in {"told", "end"} => kid[i].at \in {"told", "end"}
    BY <1>7, <2>1 DEF KidWay
  <2> QED  BY <1>2, <1>3, <1>5, <1>7, <2>2 DEF Goes
<1>8. ASSUME NEW j \in Job, Clone(j) PROVE DiskOk(v)'
  <2> DEFINE k == [kid[j] EXCEPT !.at = "examine"]
  <2>1. k.at = "examine" /\ kid'[j] = k /\ (\A i \in Job \ {j} : kid'[i] = kid[i]) /\ UNCHANGED dumps
    BY <1>8, ClonedIs
  <2> HIDE DEF k
  <2>2. \A i \in Job : kid'[i].at \in {"told", "end"} => kid[i].at \in {"told", "end"}
    BY <2>1
  <2> QED  BY <1>2, <1>3, <1>5, <2>1, <2>2 DEF Goes
<1>9. ASSUME NEW u \in Volume, Change(u) PROVE DiskOk(v)'
  <2>1. UNCHANGED <<dumps, kid>>
    BY <1>9 DEF Change, catalog
  <2> QED  BY <1>2, <1>3, <1>5, <2>1 DEF Goes
<1> QED  BY <1>3, <1>4, <1>6, <1>7, <1>8, <1>9 DEF ViewStep

LEMMA InitDisk ==
  ASSUME Init
  PROVE  DiskInv
<1>1. /\ \A id \in DOMAIN dumps : /\ dumps[id].created = 0 /\ dumps[id].store = Home
                                  /\ dumps[id].job \in Range(Early)
      /\ DOMAIN blob = {<<Home, j>> : j \in Range(Early)}
  <2>1. \A i \in DOMAIN Early : Early[i] \in Range(Early)
    BY DEF Range
  <2> QED  BY <2>1 DEF Init
<1>2. RowTypes
  BY InitTypes DEF TypeInv
<1>3. \A id \in DOMAIN dumps : OnDisk(id)
  BY <1>1 DEF OnDisk, PathOf
<1>4. ASSUME NEW v \in Volume, RowsOf(v) # {} PROVE OnDisk(Latest(v))
  BY <1>2, <1>3, <1>4, LatestIs DEF RowsOf
<1>5. ASSUME NEW j \in Job, kid[j].at \in {"told", "end"} PROVE RowsOf(VolOf[j]) # {}
  <2>1. j \in Range(Early)
    <3>1. kid[j].at = CASE j \in Range(Early) -> "end" [] j \in Injected -> "bring" [] OTHER -> "look"
      BY DEF Init, NewKid
    <3> QED  BY <1>5, <3>1
  <2>2. PICK i \in DOMAIN Early : Early[i] = j
    BY <2>1 DEF Range
  <2>3. i \in DOMAIN dumps /\ dumps[i].job = j
    BY <2>2 DEF Init
  <2> QED  BY <2>3 DEF RowsOf, VolumeOf
<1>6. \A i, k \in DOMAIN dumps : dumps[i].created <= dumps[k].created
  BY <1>1
<1> QED  BY <1>4, <1>5, <1>6 DEF DiskInv, DiskOk, RowsOf

\* A volume of which a job recorded a dump has one on disk, however its dumps are
\* deleted and trimmed: the newest one by id has the newest clone.
THEOREM OneStaysOnDisk == Spec => []OneIsOnDisk
<1>1. Init => DiskInv
  BY InitDisk
<1>2. TypeInv /\ DiskInv /\ [Next]_vars => DiskInv'
  <2>1. ASSUME TypeInv, DiskInv, Next PROVE DiskInv'
    <3>1. Viewed
      BY <2>1, Steps
    <3>2. (\E b \in DOMAIN blob : Trim(b)) => UNCHANGED muddled
      BY DEF Trim, others
    <3>3. muddled \subseteq muddled'
      <4>1. \A j \in Job : Clone(j) => UNCHANGED muddled
        BY DEF Clone
      <4>2. \A j \in Job : Recorded(j) => muddled \subseteq muddled'
        BY <2>1, RecordedIs
      <4>3. \A id \in DOMAIN dumps : Delete(id) => UNCHANGED muddled
        BY DEF Delete, others
      <4>4. \A v \in Volume : Change(v) => UNCHANGED muddled
        BY DEF Change
      <4> QED  BY <3>1, <4>1, <4>2, <4>3, <4>4 DEF Viewed, ViewStep
    <3> QED  BY <2>1, <3>1, <3>2, <3>3, DiskStep DEF Viewed
  <2>2. ASSUME DiskInv, UNCHANGED vars PROVE DiskInv'
    BY <2>2 DEF DiskInv, DiskOk, RowsOf, VolumeOf, Latest, OnDisk, PathOf, vars, catalog,
         storage, others
  <2> QED  BY <2>1, <2>2
<1>3. TypeInv /\ DiskInv => OneIsOnDisk
  <2>1. ASSUME TypeInv, DiskInv, NEW j \in Job, kid[j].at = "end", VolOf[j] \notin muddled
        PROVE  \E id \in RowsOf(VolOf[j]) : OnDisk(id)
    <3>1. DiskOk(VolOf[j])
      BY <2>1, Assumed DEF DiskInv
    <3>2. RowsOf(VolOf[j]) # {} /\ OnDisk(Latest(VolOf[j]))
      BY <2>1, <3>1 DEF DiskOk
    <3> QED  BY <2>1, <3>2, LatestIs DEF TypeInv
  <2> QED  BY <2>1 DEF OneIsOnDisk
<1> QED  BY <1>1, <1>2, <1>3, TypesAlways, PTL DEF Spec

-----------------------------------------------------------------------------
(***************************************************************************)
(* A search is complete.  The rows that it has not found lie all on one    *)
(* side or the other of those that it found; a side that it does not look  *)
(* at any more has none that were there when it began.                     *)
(***************************************************************************)

SearchRec ==
  [at : {"first", "second", "more", "done"}, vol : Volume, time : Nat, max : Nat,
   way : {"back", "on"}, last : BOOLEAN, found : Seq(Nat), since : Nat]

FoundBy(r) == {r.found[i] : i \in DOMAIN r.found}
Left(r) == {id \in RowsOf(r.vol) \ FoundBy(r) : ~ dumps[id].again}
Old(r) == {id \in Left(r) : id < r.since}

Ascending(found) == \A i, k \in DOMAIN found : i < k => found[i] < found[k]
Beyond(r) == \A id \in Left(r) : (\E i \in FoundBy(r) : i < id) => \A k \in FoundBy(r) : k < id
FewEnough(r) == Len(r.found) <= r.max \/ Len(r.found) = 1

\* Where the search is, and what it knows there.
Learned(r) ==
  /\ r.at \in {"first", "second"} => r.found = <<>> /\ r.last = FALSE
  /\ r.at = "second" => \A id \in Old(r) : dumps[id].created < r.time
  /\ r.at = "more" =>
       /\ r.found # <<>> /\ Len(r.found) < r.max
       /\ r.last /\ r.way = "back" => \A id \in Old(r) : ~ (r.found[Len(r.found)] < id)
       /\ r.last /\ r.way = "on" => \A id \in Old(r) : ~ (id < r.found[1])
  /\ r.at = "done" => Len(r.found) >= r.max \/ Old(r) = {}

SearchOk(r) ==
  /\ r \in SearchRec /\ r.since <= nextId
  /\ \A i \in FoundBy(r) : i < nextId
  /\ Ascending(r.found)
  /\ Beyond(r)
  /\ FewEnough(r)
  /\ Learned(r)

SearchInv == search = NoSearch \/ SearchOk(search)

\* All that was found lies between the first and the last.
LEMMA FoundFacts ==
  ASSUME NEW found \in Seq(Nat), found # <<>>, Ascending(found), NEW i \in DOMAIN found
  PROVE  /\ found[1] \in Nat /\ found[Len(found)] \in Nat /\ found[i] \in Nat
         /\ Len(found) \in DOMAIN found /\ 1 \in DOMAIN found
         /\ found[1] <= found[i] /\ found[i] <= found[Len(found)]
<1>1. /\ Len(found) \in Nat \ {0} /\ DOMAIN found = 1 .. Len(found)
      /\ \A k \in 1 .. Len(found) : found[k] \in Nat
  OBVIOUS
<1>2. found[1] <= found[i]
  <2>1. CASE i = 1
    BY <1>1, <2>1
  <2>2. CASE 1 < i
    BY <1>1, <2>2 DEF Ascending
  <2> QED  BY <1>1, <2>1, <2>2
<1>3. found[i] <= found[Len(found)]
  <2>1. CASE i = Len(found)
    BY <1>1, <2>1
  <2>2. CASE i < Len(found)
    BY <1>1, <2>2 DEF Ascending
  <2> QED  BY <1>1, <2>1, <2>2
<1> QED  BY <1>1, <1>2, <1>3

\* One more at the end.
LEMMA FoundOn ==
  ASSUME NEW found \in Seq(Nat), found # <<>>, Ascending(found), NEW id \in Nat,
         found[Len(found)] < id
  PROVE  LET more == Append(found, id)
         IN  /\ more \in Seq(Nat) /\ Len(more) = Len(found) + 1 /\ more[1] = found[1]
             /\ Ascending(more)
             /\ {more[i] : i \in DOMAIN more} = {found[i] : i \in DOMAIN found} \cup {id}
<1> DEFINE more == Append(found, id)
           n == Len(found)
<1>1. /\ n \in Nat \ {0} /\ DOMAIN found = 1 .. n
      /\ more \in Seq(Nat) /\ Len(more) = n + 1 /\ DOMAIN more = 1 .. n + 1
      /\ \A i \in 1 .. n : more[i] = found[i]
      /\ more[n + 1] = id
  OBVIOUS
<1>2. \A i \in 1 .. n : found[i] < id /\ found[i] \in Nat
  BY <1>1, FoundFacts
<1> HIDE DEF more, n
<1>3. Ascending(more)
  <2>1. ASSUME NEW i \in 1 .. n + 1, NEW k \in 1 .. n + 1, i < k PROVE more[i] < more[k]
    <3>1. i \in 1 .. n
      BY <1>1, <2>1
    <3>2. CASE k = n + 1
      BY <1>1, <1>2, <3>1, <3>2
    <3>3. CASE k \in 1 .. n
      <4>1. found[i] < found[k]
        BY <1>1, <2>1, <3>1, <3>3 DEF Ascending
      <4> QED  BY <1>1, <3>1, <3>3, <4>1
    <3> QED  BY <1>1, <3>2, <3>3
  <2> QED  BY <1>1, <2>1 DEF Ascending
<1>4. {more[i] : i \in 1 .. n + 1} = {found[i] : i \in 1 .. n} \cup {id}
  <2>1. 1 .. n + 1 = (1 .. n) \cup {n + 1}
    BY <1>1
  <2> QED  BY <1>1, <2>1
<1>5. more[1] = found[1]
  BY <1>1
<1> QED  BY <1>1, <1>3, <1>4, <1>5 DEF more, n

\* One more before the first.
LEMMA FoundBack ==
  ASSUME NEW found \in Seq(Nat), found # <<>>, Ascending(found), NEW id \in Nat,
         id < found[1]
  PROVE  LET more == <<id>> \o found
         IN  /\ more \in Seq(Nat) /\ Len(more) = Len(found) + 1
             /\ more[Len(more)] = found[Len(found)]
             /\ Ascending(more)
             /\ {more[i] : i \in DOMAIN more} = {found[i] : i \in DOMAIN found} \cup {id}
<1> DEFINE more == <<id>> \o found
           n == Len(found)
<1>0. <<id>> \in Seq(Nat) /\ Len(<<id>>) = 1 /\ <<id>>[1] = id
  OBVIOUS
<1>1. /\ n \in Nat \ {0} /\ DOMAIN found = 1 .. n
      /\ more \in Seq(Nat) /\ Len(more) = n + 1 /\ DOMAIN more = 1 .. n + 1
      /\ more[1] = id
      /\ \A i \in 2 .. n + 1 : more[i] = found[i - 1]
  BY <1>0
<1>2. \A i \in 1 .. n : id < found[i] /\ found[i] \in Nat
  BY <1>1, FoundFacts
<1> HIDE DEF more, n
<1>3. Ascending(more)
  <2>1. ASSUME NEW i \in 1 .. n + 1, NEW k \in 1 .. n + 1, i < k PROVE more[i] < more[k]
    <3>1. k \in 2 .. n + 1 /\ k - 1 \in 1 .. n
      BY <1>1, <2>1
    <3>2. CASE i = 1
      BY <1>1, <1>2, <3>1, <3>2
    <3>3. CASE i # 1
      <4>1. i \in 2 .. n + 1 /\ i - 1 \in 1 .. n /\ i - 1 < k - 1
        BY <1>1, <2>1, <3>3
      <4>2. found[i - 1] < found[k - 1]
        BY <1>1, <3>1, <4>1 DEF Ascending
      <4> QED  BY <1>1, <3>1, <4>1, <4>2
    <3> QED  BY <3>2, <3>3
  <2> QED  BY <1>1, <2>1 DEF Ascending
<1>4. {more[i] : i \in 1 .. n + 1} = {found[i] : i \in 1 .. n} \cup {id}
  <2>1. ASSUME NEW i \in 1 .. n + 1
        PROVE  more[i] \in {found[m] : m \in 1 .. n} \cup {id}
    <3>1. CASE i = 1
      BY <1>1, <3>1
    <3>2. CASE i # 1
      <4>1. i \in 2 .. n + 1 /\ i - 1 \in 1 .. n
        BY <1>1, <3>2
      <4> QED  BY <1>1, <4>1
    <3> QED  BY <3>1, <3>2
  <2>2. ASSUME NEW m \in 1 .. n PROVE found[m] \in {more[i] : i \in 1 .. n + 1}
    <3>1. m + 1 \in 2 .. n + 1 /\ m + 1 \in 1 .. n + 1 /\ (m + 1) - 1 = m
      BY <1>1
    <3>2. more[m + 1] = found[m]
      BY <1>1, <3>1
    <3> QED  BY <3>1, <3>2
  <2>3. id \in {more[i] : i \in 1 .. n + 1}
    BY <1>1
  <2> QED  BY <2>1, <2>2, <2>3
<1>5. more[Len(more)] = found[n]
  <2>1. n + 1 \in 2 .. n + 1 /\ (n + 1) - 1 = n
    BY <1>1
  <2> QED  BY <1>1, <2>1
<1> QED  BY <1>1, <1>3, <1>4, <1>5 DEF more, n

LEMMA LowestOf ==
  ASSUME RowTypes, NEW ids \in SUBSET DOMAIN dumps
  PROVE  \/ Lowest(ids) = NoRow /\ ids = {}
         \/ /\ Lowest(ids) \in ids /\ Lowest(ids) \in Nat /\ Lowest(ids) # NoRow
            /\ \A i \in ids : i >= Lowest(ids) /\ i \in Nat
<1>1. CASE ids = {}
  BY <1>1 DEF Lowest
<1>2. CASE ids # {}
  <2>1. ids \in SUBSET (1 .. (nextId - 1)) /\ nextId - 1 \in Nat
    BY RowFacts
  <2>2. Lowest(ids) \in ids /\ \A i \in ids : i >= Lowest(ids)
    BY <1>2, <2>1, LowestIs
  <2> QED  BY <2>1, <2>2 DEF NoRow
<1> QED  BY <1>1, <1>2

LEMMA HighestOf ==
  ASSUME RowTypes, NEW ids \in SUBSET DOMAIN dumps
  PROVE  \/ Highest(ids) = NoRow /\ ids = {}
         \/ /\ Highest(ids) \in ids /\ Highest(ids) \in Nat /\ Highest(ids) # NoRow
            /\ \A i \in ids : i <= Highest(ids) /\ i \in Nat
<1>1. CASE ids = {}
  BY <1>1 DEF Highest
<1>2. CASE ids # {}
  <2>1. ids \in SUBSET (1 .. (nextId - 1)) /\ nextId - 1 \in Nat
    BY RowFacts
  <2>2. Highest(ids) \in ids /\ \A i \in ids : i <= Highest(ids)
    BY <1>2, <2>1, HighestIs
  <2> QED  BY <2>1, <2>2 DEF NoRow
<1> QED  BY <1>1, <1>2

\* Rows go, and come with new ids or marked as such that are not.
LEMMA SearchUnder ==
  ASSUME RowTypes, NEW r, SearchOk(r), nextId' \in Nat, nextId <= nextId',
         \A id \in DOMAIN dumps' : \/ id \in DOMAIN dumps /\ dumps'[id] = dumps[id]
                                   \/ dumps'[id].again
                                   \/ id \in Nat /\ id >= nextId
  PROVE  SearchOk(r)'
<1>1. /\ r \in SearchRec /\ r.since \in Nat /\ r.since <= nextId /\ nextId \in Nat
      /\ \A i \in FoundBy(r) : i < nextId /\ i \in Nat
  BY DEF SearchOk, SearchRec, RowTypes, FoundBy
<1>2. ASSUME NEW id \in Left(r)'
      PROVE  (id \in Left(r) /\ dumps'[id] = dumps[id]) \/ (id \in Nat /\ id >= nextId)
  BY DEF Left, RowsOf, VolumeOf, FoundBy
<1>3. ASSUME NEW id \in Old(r)' PROVE id \in Old(r) /\ dumps'[id] = dumps[id]
  <2>1. id \in Left(r)' /\ id < r.since
    BY DEF Old
  <2> QED  BY <1>1, <1>2, <2>1 DEF Old
<1>4. Beyond(r)'
  <2>1. ASSUME NEW id \in Left(r)', NEW i \in FoundBy(r), i < id, NEW k \in FoundBy(r)
        PROVE  k < id
    <3>1. CASE id \in Left(r)
      BY <2>1, <3>1 DEF SearchOk, Beyond
    <3>2. CASE id \in Nat /\ id >= nextId
      BY <1>1, <3>2
    <3> QED  BY <1>2, <3>1, <3>2
  <2> QED  BY <2>1 DEF Beyond, FoundBy
<1>5. Learned(r)'
  BY <1>3 DEF SearchOk, Learned
<1>6. \A i \in FoundBy(r) : i < nextId'
  BY <1>1
<1>7. r.since <= nextId'
  BY <1>1
<1> QED  BY <1>4, <1>5, <1>6, <1>7 DEF SearchOk, FoundBy, FewEnough

\* What a search goes on with.
Onward(r, q) ==
  /\ q \in SearchRec
  /\ q.vol = r.vol /\ q.time = r.time /\ q.max = r.max /\ q.since = r.since

Next1(q) == q.at = IF Len(q.found) >= q.max THEN "done" ELSE "more"

LEMMA FoundOne ==
  ASSUME RowTypes, NEW r, SearchOk(r), NEW id \in RowsOf(r.vol), NEW q, Onward(r, q),
         q.found = <<id>>, q.last = FALSE, Next1(q)
  PROVE  SearchOk(q)
<1>1. id \in Nat /\ id < nextId /\ nextId \in Nat
  BY RowFacts DEF RowsOf, RowTypes
<1>2. /\ DOMAIN q.found = 1 .. 1 /\ q.found[1] = id /\ Len(q.found) = 1 /\ q.found # <<>>
      /\ q.max \in Nat
  BY <1>1 DEF Onward, SearchRec
<1>3. FoundBy(q) = {id}
  BY <1>2 DEF FoundBy
<1>4. Ascending(q.found)
  BY <1>2 DEF Ascending
<1>5. Learned(q)
  BY <1>2 DEF Learned, Next1
<1> QED  BY <1>1, <1>2, <1>3, <1>4, <1>5 DEF SearchOk, Onward, Beyond, FewEnough

LEMMA FoundNext ==
  ASSUME RowTypes, NEW r, SearchOk(r), r.at = "more", r.way = "on",
         NEW id \in RowsOf(r.vol), r.found[Len(r.found)] < id,
         \A i \in RowsOf(r.vol) : r.found[Len(r.found)] < i => i >= id,
         NEW q, Onward(r, q), q.found = Append(r.found, id), q.last = r.last,
         r.last => q.way = r.way, Next1(q)
  PROVE  SearchOk(q)
<1>1. /\ r.found \in Seq(Nat) /\ r.found # <<>> /\ Ascending(r.found)
      /\ Len(r.found) < r.max /\ r.max \in Nat /\ Len(r.found) \in Nat
  BY DEF SearchOk, SearchRec, Learned
<1>2. id \in Nat /\ id < nextId /\ nextId \in Nat
  BY RowFacts DEF RowsOf, RowTypes
<1>3. /\ Len(q.found) = Len(r.found) + 1 /\ q.found[1] = r.found[1] /\ Ascending(q.found)
      /\ FoundBy(q) = FoundBy(r) \cup {id}
  <2> DEFINE found == r.found
             more == Append(found, id)
  <2>1. found \in Seq(Nat) /\ found # <<>> /\ Ascending(found)
    BY <1>1
  <2>2. /\ Len(more) = Len(found) + 1 /\ more[1] = found[1] /\ Ascending(more)
        /\ {more[i] : i \in DOMAIN more} = {found[i] : i \in DOMAIN found} \cup {id}
    BY <1>2, <2>1, FoundOn
  <2>3. q.found = more /\ r.found = found
    OBVIOUS
  <2> HIDE DEF more, found
  <2> QED  BY <2>2, <2>3 DEF FoundBy
<1>4. ASSUME NEW k \in FoundBy(r)
      PROVE  /\ k \in Nat /\ k <= r.found[Len(r.found)] /\ r.found[Len(r.found)] \in Nat
             /\ k < id
  BY <1>1, <1>2, FoundFacts DEF FoundBy
<1>5. Left(q) = Left(r) \ {id} /\ Old(q) = Old(r) \ {id}
  BY <1>3 DEF Left, Old, Onward
<1>6. ASSUME NEW x \in Left(q), NEW i \in FoundBy(q), i < x, NEW k \in FoundBy(q)
      PROVE  k < x
  <2>0. x \in RowsOf(r.vol) /\ x \in Nat /\ x # id /\ x \in Left(r)
    <3>1. x \in RowsOf(r.vol) /\ x # id /\ x \in Left(r)
      BY <1>5 DEF Left
    <3> QED  BY <3>1, RowFacts DEF RowsOf
  <2>1. id < x
    <3>1. CASE i = id
      BY <1>6, <3>1
    <3>2. CASE i \in FoundBy(r)
      <4>1. Len(r.found) \in DOMAIN r.found
        BY <1>1
      <4>2. r.found[Len(r.found)] \in FoundBy(r)
        BY <4>1 DEF FoundBy
      <4>3. r.found[Len(r.found)] < x
        BY <1>6, <2>0, <3>2, <4>2 DEF SearchOk, Beyond
      <4> QED  BY <1>2, <2>0, <4>3
    <3> QED  BY <1>3, <3>1, <3>2
  <2> QED  BY <1>2, <1>3, <1>4, <2>0, <2>1
<1>7. Beyond(q)
  BY <1>6 DEF Beyond
<1>8. Learned(q)
  <2>1. q.found # <<>>
    BY <1>1, <1>3
  <2>2. ASSUME q.at = "more", q.last, q.way = "on" PROVE \A x \in Old(q) : ~ (x < q.found[1])
    BY <1>3, <1>5, <2>2 DEF SearchOk, Learned
  <2>3. q.at = "more" => ~ (q.last /\ q.way = "back")
    OBVIOUS
  <2>4. Len(q.found) \in Nat /\ q.max \in Nat
    BY <1>1, <1>3 DEF Onward
  <2>5. \/ q.at = "more" /\ Len(q.found) < q.max
        \/ q.at = "done" /\ Len(q.found) >= q.max
    BY <2>4 DEF Next1
  <2>6. q.at \notin {"first", "second"}
    BY <2>5
  <2> QED  BY <2>1, <2>2, <2>3, <2>5, <2>6 DEF Learned
<1>9. FewEnough(q)
  BY <1>1, <1>3 DEF FewEnough, Onward
<1>10. \A i \in FoundBy(q) : i < nextId
  BY <1>2, <1>3 DEF SearchOk
<1> QED  BY <1>3, <1>7, <1>8, <1>9, <1>10 DEF SearchOk, Onward

LEMMA FoundBefore ==
  ASSUME RowTypes, NEW r, SearchOk(r), r.at = "more", r.way = "back",
         NEW id \in RowsOf(r.vol), id < r.found[1],
         \A i \in RowsOf(r.vol) : i < r.found[1] => i <= id,
         NEW q, Onward(r, q), q.found = <<id>> \o r.found, q.last = r.last,
         r.last => q.way = r.way, Next1(q)
  PROVE  SearchOk(q)
<1>1. /\ r.found \in Seq(Nat) /\ r.found # <<>> /\ Ascending(r.found)
      /\ Len(r.found) < r.max /\ r.max \in Nat /\ Len(r.found) \in Nat
  BY DEF SearchOk, SearchRec, Learned
<1>2. id \in Nat /\ id < nextId /\ nextId \in Nat
  BY RowFacts DEF RowsOf, RowTypes
<1>3. /\ Len(q.found) = Len(r.found) + 1 /\ Ascending(q.found)
      /\ q.found[Len(q.found)] = r.found[Len(r.found)]
      /\ FoundBy(q) = FoundBy(r) \cup {id}
  <2> DEFINE found == r.found
             more == <<id>> \o found
  <2>1. found \in Seq(Nat) /\ found # <<>> /\ Ascending(found)
    BY <1>1
  <2>2. /\ Len(more) = Len(found) + 1 /\ more[Len(more)] = found[Len(found)] /\ Ascending(more)
        /\ {more[i] : i \in DOMAIN more} = {found[i] : i \in DOMAIN found} \cup {id}
    BY <1>2, <2>1, FoundBack
  <2>3. q.found = more /\ r.found = found
    OBVIOUS
  <2> HIDE DEF more, found
  <2> QED  BY <2>2, <2>3 DEF FoundBy
<1>4. ASSUME NEW k \in FoundBy(r)
      PROVE  k \in Nat /\ r.found[1] <= k /\ r.found[1] \in Nat /\ r.found[1] \in FoundBy(r)
  BY <1>1, FoundFacts DEF FoundBy
<1>5. Left(q) = Left(r) \ {id} /\ Old(q) = Old(r) \ {id}
  BY <1>3 DEF Left, Old, Onward
<1>6. ASSUME NEW x \in Left(q), NEW i \in FoundBy(q), i < x, NEW k \in FoundBy(q)
      PROVE  k < x
  <2>0. x \in RowsOf(r.vol) /\ x \in Nat /\ x # id /\ x \in Left(r)
    <3>1. x \in RowsOf(r.vol) /\ x # id /\ x \in Left(r)
      BY <1>5 DEF Left
    <3> QED  BY <3>1, RowFacts DEF RowsOf
  <2>1. 1 \in DOMAIN r.found /\ r.found[1] \in FoundBy(r)
    <3>1. 1 \in DOMAIN r.found
      BY <1>1
    <3> QED  BY <3>1 DEF FoundBy
  <2>2. \E m \in FoundBy(r) : m < x
    <3>1. CASE i \in FoundBy(r)
      BY <1>6, <3>1
    <3>2. CASE i = id
      <4>1. ~ (x < r.found[1])
        BY <1>2, <1>6, <2>0, <3>2
      <4>2. x # r.found[1]
        BY <2>0, <2>1 DEF Left
      <4> QED  BY <1>4, <2>0, <2>1, <4>1, <4>2
    <3> QED  BY <1>3, <3>1, <3>2
  <2>3. \A m \in FoundBy(r) : m < x
    BY <2>0, <2>2 DEF SearchOk, Beyond
  <2>4. id < x
    BY <1>2, <1>4, <2>0, <2>1, <2>3
  <2> QED  BY <1>3, <2>3, <2>4
<1>7. Beyond(q)
  BY <1>6 DEF Beyond
<1>8. Learned(q)
  <2>1. q.found # <<>>
    BY <1>1, <1>3
  <2>2. ASSUME q.at = "more", q.last, q.way = "back"
        PROVE  \A x \in Old(q) : ~ (q.found[Len(q.found)] < x)
    BY <1>3, <1>5, <2>2 DEF SearchOk, Learned
  <2>3. q.at = "more" => ~ (q.last /\ q.way = "on")
    OBVIOUS
  <2>4. Len(q.found) \in Nat /\ q.max \in Nat
    BY <1>1, <1>3 DEF Onward
  <2>5. \/ q.at = "more" /\ Len(q.found) < q.max
        \/ q.at = "done" /\ Len(q.found) >= q.max
    BY <2>4 DEF Next1
  <2>6. q.at \notin {"first", "second"}
    BY <2>5
  <2> QED  BY <2>1, <2>2, <2>3, <2>5, <2>6 DEF Learned
<1>9. FewEnough(q)
  BY <1>1, <1>3 DEF FewEnough, Onward
<1>10. \A i \in FoundBy(q) : i < nextId
  BY <1>2, <1>3 DEF SearchOk
<1> QED  BY <1>3, <1>7, <1>8, <1>9, <1>10 DEF SearchOk, Onward

\* Nothing more one way: there is nothing above or below what was found, and the
\* rest lies the other way.
LEMMA FoundNone ==
  ASSUME RowTypes, NEW r, SearchOk(r), r.at = "more",
         \/ r.way = "on" /\ \A i \in RowsOf(r.vol) : ~ (r.found[Len(r.found)] < i)
         \/ r.way = "back" /\ \A i \in RowsOf(r.vol) : ~ (i < r.found[1]),
         NEW q, Onward(r, q), q.found = r.found,
         \/ r.last /\ q.at = "done"
         \/ ~ r.last /\ q.at = "more" /\ q.way = Other(r.way)
  PROVE  SearchOk(q)
<1>1. /\ r.found \in Seq(Nat) /\ r.found # <<>> /\ Ascending(r.found)
      /\ Len(r.found) < r.max /\ 1 \in DOMAIN r.found /\ Len(r.found) \in DOMAIN r.found
      /\ r.way \in {"back", "on"}
  BY DEF SearchOk, SearchRec, Learned
<1>2. FoundBy(q) = FoundBy(r) /\ Left(q) = Left(r) /\ Old(q) = Old(r)
  BY DEF FoundBy, Left, Old, Onward
<1>3. ASSUME NEW x \in Old(r), r.last PROVE FALSE
  <2>0. x \in Left(r) /\ x \in RowsOf(r.vol) /\ x \notin FoundBy(r) /\ x \in Nat
    <3>1. x \in Left(r) /\ x \in RowsOf(r.vol) /\ x \notin FoundBy(r)
      BY DEF Old, Left
    <3> QED  BY <3>1, RowFacts DEF RowsOf
  <2>1. ~ (r.found[Len(r.found)] < x) /\ ~ (x < r.found[1])
    <3>1. CASE r.way = "on"
      BY <1>3, <2>0, <3>1 DEF SearchOk, Learned
    <3>2. CASE r.way = "back"
      BY <1>3, <2>0, <3>2 DEF SearchOk, Learned
    <3> QED  BY <1>1, <3>1, <3>2
  <2>2. /\ r.found[1] \in FoundBy(r) /\ r.found[Len(r.found)] \in FoundBy(r)
        /\ r.found[1] \in Nat /\ r.found[Len(r.found)] \in Nat
    BY <1>1, FoundFacts DEF FoundBy
  <2>3. r.found[1] < x
    BY <2>0, <2>1, <2>2
  <2>4. r.found[Len(r.found)] < x
    BY <2>0, <2>2, <2>3 DEF SearchOk, Beyond
  <2> QED  BY <2>1, <2>4
<1>4. Learned(q)
  <2>1. CASE r.last /\ q.at = "done"
    <3>1. Old(q) = {}
      BY <1>2, <1>3, <2>1
    <3> QED  BY <2>1, <3>1 DEF Learned
  <2>2. CASE ~ r.last /\ q.at = "more" /\ q.way = Other(r.way)
    <3>1. CASE r.way = "on"
      <4>1. q.way = "back"
        BY <2>2, <3>1 DEF Other
      <4>2. \A x \in Old(q) : ~ (q.found[Len(q.found)] < x)
        BY <1>2, <3>1 DEF Old, Left
      <4> QED  BY <1>1, <2>2, <4>1, <4>2 DEF Learned, Onward
    <3>2. CASE r.way = "back"
      <4>1. q.way = "on"
        BY <2>2, <3>2 DEF Other
      <4>2. \A x \in Old(q) : ~ (x < q.found[1])
        BY <1>2, <3>2 DEF Old, Left
      <4> QED  BY <1>1, <2>2, <4>1, <4>2 DEF Learned, Onward
    <3> QED  BY <1>1, <3>1, <3>2
  <2> QED  BY <2>1, <2>2
<1>5. Beyond(q)
  BY <1>2 DEF SearchOk, Beyond
<1> QED  BY <1>2, <1>4, <1>5 DEF SearchOk, Onward, FewEnough

\* The records that the queries make.
LEMMA GoIs ==
  ASSUME NEW r \in SearchRec, NEW s \in SearchRec, Onward(r, s), NEW found \in Seq(Nat),
         Go([s EXCEPT !.found = found], "more")
  PROVE  /\ Onward(r, search') /\ search'.found = found /\ Next1(search')
         /\ search'.last = s.last /\ search'.way = s.way
<1> DEFINE t == [s EXCEPT !.found = found]
           q == [t EXCEPT !.at = IF Len(t.found) >= t.max THEN "done" ELSE "more"]
<1>1. t \in SearchRec
  BY DEF SearchRec
<1>2. /\ t.found = found /\ t.last = s.last /\ t.way = s.way /\ t.vol = s.vol
      /\ t.time = s.time /\ t.max = s.max /\ t.since = s.since
  BY DEF SearchRec
<1>3. search' = q
  BY DEF Go
<1> HIDE DEF t
<1>4. q \in SearchRec
  BY <1>1 DEF SearchRec
<1>5. /\ q.found = t.found /\ q.last = t.last /\ q.way = t.way /\ q.vol = t.vol
      /\ q.time = t.time /\ q.max = t.max /\ q.since = t.since
      /\ q.at = IF Len(t.found) >= t.max THEN "done" ELSE "more"
  BY <1>1 DEF SearchRec
<1> HIDE DEF q
<1> QED  BY <1>2, <1>3, <1>4, <1>5 DEF Onward, Next1

LEMMA TurnedIs ==
  ASSUME NEW r \in SearchRec
  PROVE  /\ Onward(r, Turned(r)) /\ Turned(r).found = r.found /\ Turned(r).last = r.last
         /\ Turned(r).at = r.at
         /\ Turned(r).way = IF r.last THEN r.way ELSE Other(r.way)
<1>1. Other(r.way) \in {"back", "on"}
  BY DEF Other
<1>2. CASE r.last
  BY <1>2 DEF Turned, Onward
<1>3. CASE ~ r.last
  <2>1. Turned(r) = [r EXCEPT !.way = Other(r.way)]
    BY <1>3 DEF Turned
  <2>2. Turned(r) \in SearchRec
    BY <1>1, <2>1 DEF SearchRec
  <2> QED  BY <1>3, <2>1, <2>2 DEF Onward, SearchRec
<1> QED  BY <1>2, <1>3

LEMMA MissedIs ==
  ASSUME NEW r \in SearchRec, NEW q, q = Missed(Turned(r)), r.at = "more"
  PROVE  /\ Onward(r, q) /\ q.found = r.found
         /\ \/ r.last /\ q.at = "done"
            \/ ~ r.last /\ q.at = "more" /\ q.way = Other(r.way)
<1> DEFINE s == Turned(r)
<1>1. /\ Onward(r, s) /\ s.found = r.found /\ s.last = r.last /\ s.at = r.at
      /\ s.way = IF r.last THEN r.way ELSE Other(r.way)
  BY TurnedIs
<1>2. s \in SearchRec
  BY <1>1 DEF Onward
<1>3. q = IF s.last THEN [s EXCEPT !.at = "done"] ELSE [s EXCEPT !.last = TRUE]
  BY DEF Missed
<1> HIDE DEF s
<1>4. CASE r.last
  <2>1. q = [s EXCEPT !.at = "done"]
    BY <1>1, <1>3, <1>4
  <2>2. q \in SearchRec
    BY <1>2, <2>1 DEF SearchRec
  <2> QED  BY <1>1, <1>2, <1>4, <2>1, <2>2 DEF Onward, SearchRec
<1>5. CASE ~ r.last
  <2>1. q = [s EXCEPT !.last = TRUE]
    BY <1>1, <1>3, <1>5
  <2>2. q \in SearchRec
    BY <1>2, <2>1 DEF SearchRec
  <2> QED  BY <1>1, <1>2, <1>5, <2>1, <2>2 DEF Onward, SearchRec
<1> QED  BY <1>4, <1>5

LEMMA StartOk ==
  ASSUME RowTypes, StartSearch
  PROVE  SearchOk(search')
<1>1. PICK v \in Volume, time \in Date, max \in MaxFound : search' = NewSearch(v, time, max)
  BY DEF StartSearch
<1> DEFINE q == NewSearch(v, time, max)
<1>2. time \in Nat /\ max \in Nat /\ nextId \in Nat
  BY Assumed DEF RowTypes
<1>3. /\ q \in SearchRec /\ q.since = nextId /\ q.found = <<>> /\ q.at = "first"
      /\ q.last = FALSE /\ q.max \in Nat
  <2>1. <<>> \in Seq(Nat)
    OBVIOUS
  <2> QED  BY <1>2, <2>1 DEF NewSearch, SearchRec
<1>4. search' = q
  BY <1>1
<1> HIDE DEF q
<1>5. FoundBy(q) = {} /\ Len(q.found) = 0 /\ DOMAIN q.found = {}
  BY <1>3 DEF FoundBy
<1>6. SearchOk(q)
  BY <1>2, <1>3, <1>5 DEF SearchOk, Ascending, Beyond, FewEnough, Learned
<1> QED  BY <1>4, <1>6

LEMMA FirstOk ==
  ASSUME RowTypes, NEW r, r = search, SearchOk(r), First
  PROVE  SearchOk(search')
<1>1. /\ r \in SearchRec /\ r.at = "first" /\ r.found = <<>> /\ r.last = FALSE
      /\ r.time \in Nat /\ r.max \in Nat
  BY DEF First, SearchOk, SearchRec, Learned
<1>2. PICK id : /\ id = Lowest(After(RowsOf(r.vol), r.time))
                /\ IF id # NoRow THEN Go([r EXCEPT !.found = <<id>>], "more")
                   ELSE search' = [r EXCEPT !.at = "second", !.way = "on"]
  BY DEF First, OldestSince
<1>3. After(RowsOf(r.vol), r.time) \in SUBSET DOMAIN dumps
  BY DEF After, RowsOf
<1>4. CASE id # NoRow
  <2>1. id \in RowsOf(r.vol) /\ id \in Nat
    BY <1>2, <1>3, <1>4, LowestOf DEF After
  <2>2. <<id>> \in Seq(Nat) /\ Onward(r, r)
    BY <1>1, <2>1 DEF Onward
  <2>3. Onward(r, search') /\ search'.found = <<id>> /\ search'.last = FALSE /\ Next1(search')
    BY <1>1, <1>2, <1>4, <2>2, GoIs
  <2> QED  BY <2>1, <2>3, FoundOne
<1>5. CASE id = NoRow
  <2> DEFINE q == [r EXCEPT !.at = "second", !.way = "on"]
  <2>1. search' = q
    BY <1>2, <1>5
  <2>2. q \in SearchRec
    BY <1>1 DEF SearchRec
  <2>3. /\ q.at = "second" /\ q.found = <<>> /\ q.last = FALSE /\ q.since = r.since
        /\ q.max = r.max /\ q.vol = r.vol /\ q.time = r.time
    BY <1>1 DEF SearchRec
  <2>4. After(RowsOf(r.vol), r.time) = {}
    BY <1>2, <1>3, <1>5, LowestOf
  <2> HIDE DEF q
  <2>5. \A x \in RowsOf(q.vol) : dumps[x].created < q.time
    <3>1. ASSUME NEW x \in RowsOf(r.vol) PROVE dumps[x].created < r.time
      <4>1. dumps[x].created \in Nat /\ ~ (dumps[x].created >= r.time)
        BY <2>4, RowFacts DEF After, RowsOf
      <4> QED  BY <1>1, <4>1
    <3> QED  BY <2>3, <3>1
  <2>6. FoundBy(q) = {} /\ Len(q.found) = 0 /\ DOMAIN q.found = {}
    BY <2>3 DEF FoundBy
  <2>7. Learned(q)
    BY <2>3, <2>5 DEF Learned, Old, Left
  <2>8. SearchOk(q)
    BY <1>1, <2>2, <2>3, <2>6, <2>7 DEF SearchOk, Ascending, Beyond, FewEnough
  <2> QED  BY <2>1, <2>8
<1> QED  BY <1>4, <1>5

LEMMA SecondOk ==
  ASSUME RowTypes, NEW r, r = search, SearchOk(r), Second
  PROVE  SearchOk(search')
<1>1. /\ r \in SearchRec /\ r.at = "second" /\ r.found = <<>> /\ r.last = FALSE
      /\ r.time \in Nat /\ r.max \in Nat
  BY DEF Second, SearchOk, SearchRec, Learned
<1>2. PICK id : /\ id = Highest(Before(RowsOf(r.vol), r.time))
                /\ IF id # NoRow THEN Go([r EXCEPT !.found = <<id>>], "more")
                   ELSE search' = [r EXCEPT !.at = "done"]
  BY DEF Second, LatestUntil
<1>3. Before(RowsOf(r.vol), r.time) \in SUBSET DOMAIN dumps
  BY DEF Before, RowsOf
<1>4. CASE id # NoRow
  <2>1. id \in RowsOf(r.vol) /\ id \in Nat
    BY <1>2, <1>3, <1>4, HighestOf DEF Before
  <2>2. <<id>> \in Seq(Nat) /\ Onward(r, r)
    BY <1>1, <2>1 DEF Onward
  <2>3. Onward(r, search') /\ search'.found = <<id>> /\ search'.last = FALSE /\ Next1(search')
    BY <1>1, <1>2, <1>4, <2>2, GoIs
  <2> QED  BY <2>1, <2>3, FoundOne
<1>5. CASE id = NoRow
  <2> DEFINE q == [r EXCEPT !.at = "done"]
  <2>1. search' = q
    BY <1>2, <1>5
  <2>2. q \in SearchRec
    BY <1>1 DEF SearchRec
  <2>3. /\ q.at = "done" /\ q.found = <<>> /\ q.last = FALSE /\ q.since = r.since
        /\ q.max = r.max /\ q.vol = r.vol /\ q.time = r.time
    BY <1>1 DEF SearchRec
  <2>4. Before(RowsOf(r.vol), r.time) = {}
    BY <1>2, <1>3, <1>5, HighestOf
  <2> HIDE DEF q
  <2>5. FoundBy(q) = {} /\ FoundBy(r) = {} /\ Len(q.found) = 0 /\ DOMAIN q.found = {}
    BY <1>1, <2>3 DEF FoundBy
  <2>6. Old(q) = {}
    <3>1. ASSUME NEW x \in Old(q) PROVE FALSE
      <4>1. x \in Old(r) /\ x \in RowsOf(r.vol)
        BY <2>3, <2>5 DEF Old, Left
      <4>2. dumps[x].created < r.time
        BY <1>1, <4>1 DEF SearchOk, Learned
      <4>3. dumps[x].created \in Nat
        BY <4>1, RowFacts DEF RowsOf
      <4> QED  BY <1>1, <2>4, <4>1, <4>2, <4>3 DEF Before
    <3> QED  BY <3>1
  <2>7. Learned(q)
    BY <2>3, <2>6 DEF Learned
  <2>8. SearchOk(q)
    BY <1>1, <2>2, <2>3, <2>5, <2>7 DEF SearchOk, Ascending, Beyond, FewEnough
  <2> QED  BY <2>1, <2>8
<1> QED  BY <1>4, <1>5

LEMMA MoreOk ==
  ASSUME RowTypes, NEW r, r = search, SearchOk(r), More
  PROVE  SearchOk(search')
<1>1. /\ r \in SearchRec /\ r.at = "more" /\ r.found \in Seq(Nat) /\ r.found # <<>>
      /\ Ascending(r.found) /\ r.way \in {"back", "on"}
  BY DEF More, SearchOk, SearchRec, Learned
<1> DEFINE s == Turned(r)
<1>2. /\ Onward(r, s) /\ s.found = r.found /\ s.last = r.last
      /\ s.way = IF r.last THEN r.way ELSE Other(r.way)
  BY <1>1, TurnedIs
<1>3. s \in SearchRec
  BY <1>2 DEF Onward
<1>4. \A id \in RowsOf(r.vol) : id \in Nat /\ id \in DOMAIN dumps
  BY RowFacts DEF RowsOf
<1>5. CASE r.way = "on"
  <2> DEFINE top == r.found[Len(r.found)]
             rows == {i \in RowsOf(r.vol) : i > top}
  <2>0. top \in Nat
    BY <1>1, FoundFacts
  <2>1. PICK id : /\ id = Lowest(rows)
                  /\ IF id = NoRow THEN search' = Missed(s)
                     ELSE Go([s EXCEPT !.found = Append(s.found, id)], "more")
    BY <1>5 DEF More, OldestAfterId
  <2>2. rows \in SUBSET DOMAIN dumps
    BY <1>4
  <2>3. \/ id = NoRow /\ rows = {}
        \/ id \in rows /\ id \in Nat /\ id # NoRow /\ \A i \in rows : i >= id
    BY <2>1, <2>2, LowestOf
  <2>4. CASE id = NoRow
    <3>1. \A i \in RowsOf(r.vol) : ~ (top < i)
      BY <1>4, <2>0, <2>3, <2>4
    <3>2. /\ Onward(r, search') /\ search'.found = r.found
          /\ \/ r.last /\ search'.at = "done"
             \/ ~ r.last /\ search'.at = "more" /\ search'.way = Other(r.way)
      BY <1>1, <2>1, <2>4, MissedIs
    <3> QED  BY <1>1, <1>5, <3>1, <3>2, FoundNone
  <2>5. CASE id # NoRow
    <3>1. /\ id \in RowsOf(r.vol) /\ id \in Nat /\ top < id
          /\ \A i \in RowsOf(r.vol) : top < i => i >= id
      BY <1>4, <2>0, <2>3, <2>5
    <3>2. Append(r.found, id) \in Seq(Nat)
      BY <1>1, <3>1
    <3>3. Go([s EXCEPT !.found = Append(r.found, id)], "more")
      BY <1>2, <2>1, <2>5
    <3> HIDE DEF s
    <3>4. /\ Onward(r, search') /\ search'.found = Append(r.found, id) /\ Next1(search')
          /\ search'.last = s.last /\ search'.way = s.way
      BY <1>1, <1>2, <1>3, <3>2, <3>3, GoIs
    <3>5. search'.last = r.last /\ (r.last => search'.way = r.way)
      BY <1>2, <3>4
    <3> QED  BY <1>1, <1>5, <3>1, <3>4, <3>5, FoundNext
  <2> QED  BY <2>4, <2>5
<1>6. CASE r.way = "back"
  <2> DEFINE low == r.found[1]
             rows == {i \in RowsOf(r.vol) : i < low}
  <2>0. low \in Nat
    BY <1>1, FoundFacts
  <2>1. PICK id : /\ id = Highest(rows)
                  /\ IF id = NoRow THEN search' = Missed(s)
                     ELSE Go([s EXCEPT !.found = <<id>> \o s.found], "more")
    BY <1>6 DEF More, LatestBeforeId
  <2>2. rows \in SUBSET DOMAIN dumps
    BY <1>4
  <2>3. \/ id = NoRow /\ rows = {}
        \/ id \in rows /\ id \in Nat /\ id # NoRow /\ \A i \in rows : i <= id
    BY <2>1, <2>2, HighestOf
  <2>4. CASE id = NoRow
    <3>1. \A i \in RowsOf(r.vol) : ~ (i < low)
      BY <1>4, <2>0, <2>3, <2>4
    <3>2. /\ Onward(r, search') /\ search'.found = r.found
          /\ \/ r.last /\ search'.at = "done"
             \/ ~ r.last /\ search'.at = "more" /\ search'.way = Other(r.way)
      BY <1>1, <2>1, <2>4, MissedIs
    <3> QED  BY <1>1, <1>6, <3>1, <3>2, FoundNone
  <2>5. CASE id # NoRow
    <3>1. /\ id \in RowsOf(r.vol) /\ id \in Nat /\ id < low
          /\ \A i \in RowsOf(r.vol) : i < low => i <= id
      BY <1>4, <2>0, <2>3, <2>5
    <3>2. <<id>> \o r.found \in Seq(Nat)
      BY <1>1, <3>1
    <3>3. Go([s EXCEPT !.found = <<id>> \o r.found], "more")
      BY <1>2, <2>1, <2>5
    <3> HIDE DEF s
    <3>4. /\ Onward(r, search') /\ search'.found = <<id>> \o r.found /\ Next1(search')
          /\ search'.last = s.last /\ search'.way = s.way
      BY <1>1, <1>2, <1>3, <3>2, <3>3, GoIs
    <3>5. search'.last = r.last /\ (r.last => search'.way = r.way)
      BY <1>2, <3>4
    <3> QED  BY <1>1, <1>6, <3>1, <3>4, <3>5, FoundBefore
  <2> QED  BY <2>4, <2>5
<1> QED  BY <1>1, <1>5, <1>6

\* Only the search itself changes where it is.
LEMMA SearchStays ==
  ASSUME Next
  PROVE  Searching \/ UNCHANGED search
<1>1. ASSUME NEW j \in Job, KidStep(j) PROVE UNCHANGED search
  BY <1>1 DEF KidStep, Look, Compare, Clone, Examine, Allocating, Dumped, Committed, Recorded,
       Ended, Bring, Emptied, Brought, Taken, Skipped, readers
<1>2. ASSUME NEW j \in Job, Fails(j) \/ Dies(j) PROVE UNCHANGED search
  BY <1>2 DEF Fails, Dies, readers
<1>3. ASSUME NEW b \in DOMAIN blob, Trim(b) PROVE UNCHANGED search
  BY <1>3 DEF Trim, readers
<1>4. ASSUME NEW id \in DOMAIN dumps, Delete(id) PROVE UNCHANGED search
  BY <1>4 DEF Delete, readers
<1>5. ASSUME NEW v \in Volume, Change(v) PROVE UNCHANGED search
  BY <1>5 DEF Change, readers
<1>6. ASSUME Cleaned \/ Walking PROVE UNCHANGED search
  BY <1>6 DEF Cleaned, Walking, readers
<1> QED  BY <1>1, <1>2, <1>3, <1>4, <1>5, <1>6 DEF Next

LEMMA SearchKept ==
  ASSUME TypeInv, TypeInv', SearchInv, Next
  PROVE  SearchInv'
<1>1. RowTypes /\ nextId \in Nat /\ nextId' \in Nat
  BY DEF TypeInv, RowTypes
<1>2. CASE Searching
  <2>1. UNCHANGED catalog /\ SearchStep
    BY <1>2 DEF Searching, SearchStep, StartSearch, First, Second, More
  <2>2. PICK r : r = search
    OBVIOUS
  <2>3. ASSUME First \/ Second \/ More PROVE SearchOk(r)
    <3>1. search # NoSearch
      BY <2>3 DEF First, Second, More, NoSearch
    <3> QED  BY <2>2, <3>1 DEF SearchInv
  <2>4. SearchOk(search')
    BY <1>1, <2>1, <2>2, <2>3, StartOk, FirstOk, SecondOk, MoreOk DEF SearchStep
  <2>5. PICK q : q = search'
    OBVIOUS
  <2>6. SearchOk(q)'
    BY <2>1, <2>4, <2>5 DEF SearchOk, FoundBy, Ascending, Beyond, FewEnough, Learned, Left, Old,
         RowsOf, VolumeOf, catalog
  <2>7. SearchOk(search)'
    BY <2>5, <2>6 DEF SearchOk, FoundBy, Ascending, Beyond, FewEnough, Learned, Left, Old,
         RowsOf, VolumeOf
  <2> QED  BY <2>7 DEF SearchInv
<1>3. CASE UNCHANGED search
  <2>1. /\ nextId <= nextId'
        /\ \A id \in DOMAIN dumps' : \/ id \in DOMAIN dumps /\ dumps'[id] = dumps[id]
                                     \/ dumps'[id].again
                                     \/ id \in Nat /\ id >= nextId
    <3> DEFINE Goal == /\ nextId <= nextId'
                       /\ \A id \in DOMAIN dumps' :
                            \/ id \in DOMAIN dumps /\ dumps'[id] = dumps[id]
                            \/ dumps'[id].again
                            \/ id \in Nat /\ id >= nextId
    <3>1. ASSUME UNCHANGED <<dumps, nextId>> PROVE Goal
      BY <1>1, <3>1
    <3>2. ASSUME NEW j \in Job, Recorded(j) PROVE Goal
      <4>1. RowOf(j) \in RowRec /\ Insert(RowOf(j)) /\ linked' \subseteq Job /\ muddled' \subseteq Volume
        BY <3>2, RecordedIs DEF TypeInv, RowTypes
      <4>2. PICK id : NewRow(id, RowOf(j))
        BY <1>1, <4>1, InsertIs
      <4>3. /\ DOMAIN dumps' = DOMAIN dumps \cup {id}
            /\ dumps'[id] = [RowOf(j) EXCEPT !.again = id # nextId]
            /\ \A i \in DOMAIN dumps : dumps'[i] = dumps[i]
        BY <1>1, <4>1, <4>2, NewRowTypes
      <4>4. id # nextId => dumps'[id].again
        BY <4>1, <4>3 DEF RowRec
      <4>5. nextId <= nextId' /\ id \in Nat
        BY <1>1, <4>2 DEF NewRow
      <4>6. ASSUME NEW i \in DOMAIN dumps'
            PROVE  \/ i \in DOMAIN dumps /\ dumps'[i] = dumps[i]
                   \/ dumps'[i].again
                   \/ i \in Nat /\ i >= nextId
        <5>1. CASE i \in DOMAIN dumps
          BY <4>3, <5>1
        <5>2. CASE i = id /\ id # nextId
          BY <4>4, <5>2
        <5>3. CASE i = id /\ id = nextId
          BY <1>1, <5>3
        <5> QED  BY <4>3, <5>1, <5>2, <5>3
      <4> QED  BY <4>5, <4>6
    <3>3. ASSUME NEW id \in DOMAIN dumps, Delete(id) PROVE Goal
      BY <1>1, <3>3 DEF Delete, Remove
    <3>4. ASSUME NEW j \in Job, Clone(j) PROVE Goal
      BY <3>1, <3>4 DEF Clone, catalog
    <3>5. ASSUME NEW v \in Volume, Change(v) PROVE Goal
      BY <3>1, <3>5 DEF Change, catalog
    <3> HIDE DEF Goal
    <3>6. ViewStep
      BY Steps DEF Viewed
    <3>7. Goal
      BY <3>1, <3>2, <3>3, <3>4, <3>5, <3>6 DEF ViewStep
    <3> QED  BY <3>7 DEF Goal
  <2>2. PICK r : r = search
    OBVIOUS
  <2>3. CASE search = NoSearch
    BY <1>3, <2>3 DEF SearchInv, NoSearch
  <2>4. CASE SearchOk(r)
    <3>1. SearchOk(r)'
      BY <1>1, <2>1, <2>4, SearchUnder
    <3>2. r = search'
      BY <1>3, <2>2
    <3>3. SearchOk(search)'
      BY <3>1, <3>2 DEF SearchOk, FoundBy, Ascending, Beyond, FewEnough, Learned, Left, Old,
           RowsOf, VolumeOf
    <3> QED  BY <3>3 DEF SearchInv
  <2> QED  BY <2>2, <2>3, <2>4 DEF SearchInv
<1> QED  BY <1>2, <1>3, SearchStays

\* A search finds dumps that follow each other, in order, and no more than were asked
\* for; if fewer, then none is left of those that were there at its beginning: though
\* rows come and go between its queries.
THEOREM SearchIsComplete == Spec => []SearchFindsAll
<1>1. Init => SearchInv
  BY DEF Init, SearchInv
<1>2. TypeInv /\ TypeInv' /\ SearchInv /\ [Next]_vars => SearchInv'
  <2>1. ASSUME SearchInv, UNCHANGED vars PROVE SearchInv'
    BY <2>1 DEF SearchInv, SearchOk, FoundBy, Ascending, Beyond, FewEnough, Learned, Left, Old,
         RowsOf, VolumeOf, NoSearch, vars, catalog, readers
  <2> QED  BY <2>1, SearchKept
<1>3. TypeInv /\ SearchInv => SearchFindsAll
  <2> SUFFICES ASSUME TypeInv, SearchInv, search.at = "done" PROVE SearchFindsAll
    BY DEF SearchFindsAll
  <2>1. SearchOk(search)
    BY DEF SearchInv, NoSearch
  <2>2. Len(search.found) >= search.max \/ Old(search) = {}
    BY <2>1 DEF SearchOk, Learned
  <2>3. ASSUME NEW id \in RowsOf(search.vol) \ FoundBy(search), ~ dumps[id].again
        PROVE  /\ (\E i \in FoundBy(search) : i < id) => \A k \in FoundBy(search) : k < id
               /\ id < search.since => Len(search.found) >= search.max
    <3>1. id \in Left(search)
      BY <2>3 DEF Left
    <3> QED  BY <2>1, <2>2, <3>1 DEF SearchOk, Beyond, Old
  <2> QED  BY <2>1, <2>3 DEF SearchFindsAll, SearchOk, Ascending, FewEnough, FoundBy
<1> QED  BY <1>1, <1>2, <1>3, TypesAlways, PTL DEF Spec

=============================================================================
