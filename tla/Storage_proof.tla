--------------------------- MODULE Storage_proof ---------------------------
(***************************************************************************)
(* Theorems about the storage directories: sums, and what every operation  *)
(* leaves of the room that someone is filling.                             *)
(***************************************************************************)
EXTENDS Storage, FiniteSetTheorems, WellFoundedInduction, TLAPS

-----------------------------------------------------------------------------
(***************************************************************************)
(* Sums.  The library defines them by recursion over finite sets; that the *)
(* recursion has a solution, and only one, is shown by induction over the  *)
(* number of elements.                                                     *)
(***************************************************************************)

\* Induction, from the order of the natural numbers.
LEMMA Induct ==
  ASSUME NEW T \in SUBSET Nat, 0 \in T, \A n \in T : n + 1 \in T
  PROVE  T = Nat
<1>1. SUFFICES ASSUME Nat \ T # {} PROVE FALSE
  OBVIOUS
<1>2. PICK n \in Nat \ T : \A m \in Nat \ T : ~ (<<m, n>> \in OpToRel(<, Nat))
  BY <1>1, NatLessThanWellFounded, WFMin
<1>3. \A m \in Nat \ T : ~ (m < n)
  BY <1>2 DEF OpToRel
<1>4. n # 0 /\ n - 1 \in Nat /\ n - 1 < n
  OBVIOUS
<1>5. n - 1 \in T
  BY <1>3, <1>4
<1>6. (n - 1) + 1 \in T
  BY <1>5
<1> QED  BY <1>6

One(s) == CHOOSE x \in s : TRUE

\* g is the recursion over the sets in D.
Adds(f, D, g) ==
  g = [s \in D |-> IF s = {} THEN 0 ELSE f[One(s)] + g[s \ {One(s)}]]

LEMMA OneLess ==
  ASSUME NEW s, IsFiniteSet(s), s # {}
  PROVE  /\ One(s) \in s /\ IsFiniteSet(s \ {One(s)})
         /\ Cardinality(s) \in Nat /\ Cardinality(s \ {One(s)}) \in Nat
         /\ Cardinality(s \ {One(s)}) = Cardinality(s) - 1
  BY FS_RemoveElement, FS_CardinalityType DEF One

\* There is a solution ...
LEMMA AddsExists ==
  ASSUME NEW f, NEW S, IsFiniteSet(S)
  PROVE  \E g : Adds(f, SUBSET S, g)
<1> DEFINE Level(n) == {s \in SUBSET S : Cardinality(s) <= n}
           T == {n \in Nat : \E g : Adds(f, Level(n), g)}
<1>0. \A s \in SUBSET S : IsFiniteSet(s) /\ Cardinality(s) \in Nat
  BY FS_Subset, FS_CardinalityType
<1>1. 0 \in T
  <2> DEFINE g == [s \in Level(0) |-> 0]
  <2>1. \A s \in Level(0) : s = {}
    BY <1>0, FS_EmptySet
  <2>2. g = [s \in Level(0) |-> IF s = {} THEN 0 ELSE f[One(s)] + g[s \ {One(s)}]]
    BY <2>1
  <2> QED  BY <2>2 DEF Adds
<1>2. ASSUME NEW n \in T PROVE n + 1 \in T
  <2>1. PICK g : Adds(f, Level(n), g)
    OBVIOUS
  <2> DEFINE h == [s \in Level(n + 1) |->
                     IF s = {} THEN 0 ELSE f[One(s)] + g[s \ {One(s)}]]
  <2>2. ASSUME NEW s \in Level(n + 1), s # {}
        PROVE  h[s \ {One(s)}] = g[s \ {One(s)}]
    <3> DEFINE t == s \ {One(s)}
    <3>1. t \in Level(n) /\ t \in Level(n + 1)
      BY <1>0, <2>2, OneLess
    <3> HIDE DEF t
    <3>2. g[t] = IF t = {} THEN 0 ELSE f[One(t)] + g[t \ {One(t)}]
      BY <2>1, <3>1 DEF Adds
    <3> QED  BY <3>1, <3>2 DEF t
  <2>3. h = [s \in Level(n + 1) |->
               IF s = {} THEN 0 ELSE f[One(s)] + h[s \ {One(s)}]]
    BY <2>2
  <2>4. \E i : Adds(f, Level(n + 1), i)
    BY <2>3 DEF Adds
  <2> QED  BY <2>4
<1>3. Cardinality(S) \in T
  <2> HIDE DEF T
  <2>1. T = Nat
    BY <1>1, <1>2, Induct DEF T
  <2> QED  BY <1>0, <2>1
<1>4. Level(Cardinality(S)) = SUBSET S
  <2>1. \A s \in SUBSET S : Cardinality(s) <= Cardinality(S)
    BY FS_Subset
  <2> QED  BY <2>1
<1>5. \E g : Adds(f, Level(Cardinality(S)), g)
  BY <1>3
<1> HIDE DEF Level
<1> QED  BY <1>4, <1>5

\* ... and one only, whatever larger set it is for.
LEMMA AddsUnique ==
  ASSUME NEW f, NEW S, NEW R \in SUBSET S, IsFiniteSet(S), NEW g, NEW h,
         Adds(f, SUBSET S, g), Adds(f, SUBSET R, h)
  PROVE  g[R] = h[R]
<1> DEFINE T == {n \in Nat : \A s \in SUBSET R : Cardinality(s) = n => g[s] = h[s]}
<1>0. \A s \in SUBSET R : IsFiniteSet(s) /\ Cardinality(s) \in Nat
  BY FS_Subset, FS_CardinalityType
<1>1. ASSUME NEW s \in SUBSET R
      PROVE  /\ g[s] = IF s = {} THEN 0 ELSE f[One(s)] + g[s \ {One(s)}]
             /\ h[s] = IF s = {} THEN 0 ELSE f[One(s)] + h[s \ {One(s)}]
  BY DEF Adds
<1>2. 0 \in T
  BY <1>0, <1>1, FS_EmptySet
<1>3. ASSUME NEW n \in T PROVE n + 1 \in T
  <2>0. n \in Nat /\ \A s \in SUBSET R : Cardinality(s) = n => g[s] = h[s]
    OBVIOUS
  <2>1. ASSUME NEW s \in SUBSET R, Cardinality(s) = n + 1 PROVE g[s] = h[s]
    <3>1. IsFiniteSet(s) /\ s # {}
      BY <1>0, <2>0, <2>1, FS_EmptySet
    <3>2. Cardinality(s \ {One(s)}) = n /\ s \ {One(s)} \in SUBSET R
      BY <2>0, <2>1, <3>1, OneLess
    <3>3. g[s \ {One(s)}] = h[s \ {One(s)}]
      BY <2>0, <3>2
    <3> QED  BY <1>1, <3>3
  <2> QED  BY <2>0, <2>1
<1>4. T = Nat
  <2> HIDE DEF T
  <2>1. T \in SUBSET Nat
    BY DEF T
  <2> QED  BY <1>2, <1>3, <2>1, Induct
<1>5. Cardinality(R) \in T /\ R \in SUBSET R
  BY <1>0, <1>4
<1>6. \A s \in SUBSET R : Cardinality(s) = Cardinality(R) => g[s] = h[s]
  BY <1>5
<1> QED  BY <1>5, <1>6

Sum(f, S) == SumFunctionOnSet(f, S)

LEMMA SumRecursion ==
  ASSUME NEW f, NEW S, IsFiniteSet(S)
  PROVE  Sum(f, S) = IF S = {} THEN 0 ELSE f[One(S)] + Sum(f, S \ {One(S)})
<1>1. ASSUME NEW R, IsFiniteSet(R)
      PROVE  \E g : Adds(f, SUBSET R, g) /\ Sum(f, R) = g[R]
  <2> DEFINE g == CHOOSE g : Adds(f, SUBSET R, g)
  <2>1. Adds(f, SUBSET R, g)
    BY <1>1, AddsExists
  <2>2. Sum(f, R) = g[R]
    BY DEF Sum, SumFunctionOnSet, FoldFunctionOnSet, MapThenFoldSet, Adds, One
  <2> QED  BY <2>1, <2>2
<1>2. PICK g : Adds(f, SUBSET S, g) /\ Sum(f, S) = g[S]
  BY <1>1
<1>3. g[S] = IF S = {} THEN 0 ELSE f[One(S)] + g[S \ {One(S)}]
  BY <1>2 DEF Adds
<1>4. ASSUME S # {} PROVE Sum(f, S \ {One(S)}) = g[S \ {One(S)}]
  <2> DEFINE R == S \ {One(S)}
  <2>1. IsFiniteSet(R) /\ R \in SUBSET S
    BY <1>4, OneLess
  <2> HIDE DEF R
  <2>2. PICK h : Adds(f, SUBSET R, h) /\ Sum(f, R) = h[R]
    BY <1>1, <2>1
  <2>3. g[R] = h[R]
    BY <1>2, <2>1, <2>2, AddsUnique
  <2> QED  BY <2>2, <2>3 DEF R
<1> QED  BY <1>2, <1>3, <1>4

\* What holds of the empty set, and of a set if it holds of all that have one
\* element less, holds of all finite sets: here for a set P of sets.
LEMMA BySize ==
  ASSUME NEW S, IsFiniteSet(S), NEW P \in SUBSET (SUBSET S), {} \in P,
         \A s \in SUBSET S : s # {} /\ (\A a \in s : s \ {a} \in P) => s \in P
  PROVE  P = SUBSET S
<1> DEFINE T == {n \in Nat : \A s \in SUBSET S : Cardinality(s) = n => s \in P}
<1>0. \A s \in SUBSET S : IsFiniteSet(s) /\ Cardinality(s) \in Nat
  BY FS_Subset, FS_CardinalityType
<1>1. 0 \in T
  BY <1>0, FS_EmptySet
<1>2. ASSUME NEW n \in T PROVE n + 1 \in T
  <2>0. n \in Nat /\ \A s \in SUBSET S : Cardinality(s) = n => s \in P
    OBVIOUS
  <2>1. ASSUME NEW s \in SUBSET S, Cardinality(s) = n + 1 PROVE s \in P
    <3>1. IsFiniteSet(s) /\ s # {}
      BY <1>0, <2>0, <2>1, FS_EmptySet
    <3>2. ASSUME NEW a \in s PROVE s \ {a} \in P
      <4>1. Cardinality(s \ {a}) = Cardinality(s) - 1
        BY <3>1, FS_RemoveElement
      <4>2. Cardinality(s \ {a}) = n /\ s \ {a} \in SUBSET S
        BY <2>0, <2>1, <4>1
      <4> QED  BY <2>0, <4>2
    <3> QED  BY <3>1, <3>2
  <2> QED  BY <2>0, <2>1
<1>3. T = Nat
  <2> HIDE DEF T
  <2>1. T \in SUBSET Nat
    BY DEF T
  <2> QED  BY <1>1, <1>2, <2>1, Induct
<1>4. ASSUME NEW s \in SUBSET S PROVE s \in P
  <2>1. Cardinality(s) \in T
    BY <1>0, <1>3
  <2> QED  BY <2>1
<1> QED  BY <1>4

\* A sum of natural numbers is one ...
LEMMA SumNat ==
  ASSUME NEW S, IsFiniteSet(S), NEW f, \A x \in S : f[x] \in Nat
  PROVE  \A R \in SUBSET S : IsFiniteSet(R) /\ Sum(f, R) \in Nat
<1> DEFINE P == {s \in SUBSET S : Sum(f, s) \in Nat}
<1>0. \A s \in SUBSET S : IsFiniteSet(s)
  BY FS_Subset
<1>1. {} \in P
  <2>1. Sum(f, {}) = 0
    BY <1>0, SumRecursion
  <2> QED  BY <2>1
<1>2. ASSUME NEW s \in SUBSET S, s # {}, \A a \in s : s \ {a} \in P PROVE s \in P
  <2>1. One(s) \in s /\ Sum(f, s) = f[One(s)] + Sum(f, s \ {One(s)})
    BY <1>0, <1>2, OneLess, SumRecursion
  <2> QED  BY <1>2, <2>1
<1>3. P = SUBSET S
  <2> HIDE DEF P
  <2>1. P \in SUBSET (SUBSET S)
    BY DEF P
  <2> QED  BY <1>1, <1>2, <2>1, BySize
<1> QED  BY <1>0, <1>3

\* ... and any element may be taken out.
LEMMA SumWithout ==
  ASSUME NEW S, IsFiniteSet(S), NEW f, \A x \in S : f[x] \in Nat
  PROVE  \A R \in SUBSET S : \A a \in R : Sum(f, R) = f[a] + Sum(f, R \ {a})
<1> DEFINE P == {s \in SUBSET S : \A a \in s : Sum(f, s) = f[a] + Sum(f, s \ {a})}
<1>0. \A s \in SUBSET S : IsFiniteSet(s) /\ Sum(f, s) \in Nat
  BY SumNat
<1>1. {} \in P
  OBVIOUS
<1>2. ASSUME NEW s \in SUBSET S, s # {}, \A a \in s : s \ {a} \in P PROVE s \in P
  <2> DEFINE c == One(s)
  <2>1. c \in s /\ Sum(f, s) = f[c] + Sum(f, s \ {c})
    BY <1>0, <1>2, OneLess, SumRecursion
  <2> HIDE DEF c
  <2>2. ASSUME NEW a \in s, a # c PROVE Sum(f, s) = f[a] + Sum(f, s \ {a})
    <3> DEFINE r == (s \ {a}) \ {c}
    <3>1. s \ {a} \in P /\ s \ {c} \in P
      BY <1>2, <2>1
    <3>2. Sum(f, s \ {a}) = f[c] + Sum(f, (s \ {a}) \ {c})
      BY <2>1, <2>2, <3>1
    <3>3. Sum(f, s \ {c}) = f[a] + Sum(f, (s \ {c}) \ {a})
      BY <2>1, <2>2, <3>1
    <3>4. (s \ {c}) \ {a} = r /\ r \in SUBSET S
      OBVIOUS
    <3>5. f[a] \in Nat /\ f[c] \in Nat /\ Sum(f, r) \in Nat
      BY <1>0, <2>1, <3>4
    <3> HIDE DEF P
    <3>6. Sum(f, s \ {a}) = f[c] + Sum(f, r) /\ Sum(f, s \ {c}) = f[a] + Sum(f, r)
      BY <3>2, <3>3, <3>4
    <3> HIDE DEF r
    <3> QED  BY <2>1, <3>5, <3>6
  <2> QED  BY <2>1, <2>2
<1>3. P = SUBSET S
  <2> HIDE DEF P
  <2>1. P \in SUBSET (SUBSET S)
    BY DEF P
  <2> QED  BY <1>1, <1>2, <2>1, BySize
<1> QED  BY <1>3

\* Sums of the same numbers are the same, and of larger ones larger.
LEMMA SumMono ==
  ASSUME NEW S, IsFiniteSet(S), NEW f, NEW g,
         \A x \in S : f[x] \in Nat /\ g[x] \in Nat /\ f[x] <= g[x]
  PROVE  \A R \in SUBSET S : Sum(f, R) <= Sum(g, R)
<1> DEFINE P == {s \in SUBSET S : Sum(f, s) <= Sum(g, s)}
<1>0. \A s \in SUBSET S : IsFiniteSet(s) /\ Sum(f, s) \in Nat /\ Sum(g, s) \in Nat
  BY SumNat
<1>1. {} \in P
  <2>1. Sum(f, {}) = 0 /\ Sum(g, {}) = 0
    BY <1>0, SumRecursion
  <2> QED  BY <2>1
<1>2. ASSUME NEW s \in SUBSET S, s # {}, \A a \in s : s \ {a} \in P PROVE s \in P
  <2>1. PICK a \in s : TRUE
    BY <1>2
  <2>2. Sum(f, s) = f[a] + Sum(f, s \ {a}) /\ Sum(g, s) = g[a] + Sum(g, s \ {a})
    BY SumWithout
  <2>3. /\ Sum(f, s \ {a}) \in Nat /\ Sum(g, s \ {a}) \in Nat
        /\ Sum(f, s \ {a}) <= Sum(g, s \ {a})
    BY <1>0, <1>2
  <2>4. f[a] \in Nat /\ g[a] \in Nat /\ f[a] <= g[a]
    OBVIOUS
  <2>5. Sum(f, s) <= Sum(g, s)
    BY <2>2, <2>3, <2>4
  <2> QED  BY <2>5
<1>3. P = SUBSET S
  <2> HIDE DEF P
  <2>1. P \in SUBSET (SUBSET S)
    BY DEF P
  <2> QED  BY <1>1, <1>2, <2>1, BySize
<1> QED  BY <1>3

\* What one element adds to a sum, and a change of it.
LEMMA SumChange ==
  ASSUME NEW S, IsFiniteSet(S), NEW f, NEW g, NEW a \in S,
         \A x \in S : f[x] \in Nat /\ g[x] \in Nat,
         \A x \in S \ {a} : g[x] <= f[x]
  PROVE  /\ Sum(f, S) \in Nat /\ Sum(g, S) \in Nat
         /\ Sum(g, S) + f[a] <= Sum(f, S) + g[a]
<1>1. /\ Sum(f, S) = f[a] + Sum(f, S \ {a}) /\ Sum(g, S) = g[a] + Sum(g, S \ {a})
  BY SumWithout
<1>2. Sum(f, S \ {a}) \in Nat /\ Sum(g, S \ {a}) \in Nat
  BY SumNat
<1>3. Sum(g, S \ {a}) <= Sum(f, S \ {a})
  <2>1. IsFiniteSet(S \ {a}) /\ S \ {a} \in SUBSET (S \ {a})
    BY FS_RemoveElement
  <2> QED  BY <2>1, SumMono
<1> QED  BY <1>1, <1>2, <1>3

-----------------------------------------------------------------------------
(***************************************************************************)
(* The invariant.  What is in use never grows but by a file that is being  *)
(* filled, under the lock, or by one that grows, which robs the others.    *)
(***************************************************************************)

Places == {"none", "lock", "choose", "fill", "got", "copy", "have", "failed"}
Buffers == {BufSize * n : n \in Nat}

AllocRec ==
  [at : Places, need : Buffers, left : Buffers, store : Store \cup {NoStore},
   size : Nat, bad : SUBSET Store, robbed : BOOLEAN]
BlobRec == [size : Nat, mtime : Nat]

StoreTypes ==
  /\ lock \subseteq Job
  /\ litter \in [Store -> Nat]
  /\ alloc \in [Job -> AllocRec]
  /\ DOMAIN blob \subseteq Store \X Job
  /\ \A b \in DOMAIN blob : blob[b] \in BlobRec

\* A file takes room only while it is there, and only the holder of the lock
\* chooses and fills.
AllocOk(j) ==
  /\ alloc[j].store = NoStore => alloc[j].size = 0
  /\ alloc[j].at \in {"none", "lock", "choose", "failed"} => alloc[j].store = NoStore
  /\ alloc[j].at \in {"lock", "choose"} => alloc[j].need > 0
  /\ alloc[j].at \in {"choose", "fill"} => lock = {j}
  /\ alloc[j].at = "fill" =>
       /\ alloc[j].store \in Store /\ alloc[j].left > 0
       /\ alloc[j].size + alloc[j].left = alloc[j].need

RoomOk(j) ==
  \A s \in Store :
    alloc[j].at = "fill" /\ alloc[j].store = s /\ ~ alloc[j].robbed =>
      Used(s) + alloc[j].left <= Capacity[s]

StoreInv ==
  /\ StoreTypes
  /\ \A j \in Job : AllocOk(j)
  /\ \A j \in Job : RoomOk(j)

Buffer == BufSize \in Nat /\ BufSize > 0 /\ IsFiniteSet(Job)

LEMMA BufferFacts == Buffer
  BY StorageAssumption DEF Buffer

LEMMA BuffersFacts ==
  /\ Buffers \subseteq Nat
  /\ 0 \in Buffers
  /\ \A x \in Buffers : x > 0 => x - BufSize \in Buffers
  /\ \A size \in Nat : RoundUp(size) \in Buffers /\ size < RoundUp(size)
<1> USE BufferFacts DEF Buffer
<1>1. Buffers \subseteq Nat
  BY DEF Buffers
<1>2. 0 \in Buffers
  <2>1. 0 = BufSize * 0
    OBVIOUS
  <2> QED  BY <2>1 DEF Buffers
<1>3. ASSUME NEW x \in Buffers, x > 0 PROVE x - BufSize \in Buffers
  <2>1. PICK n \in Nat : x = BufSize * n
    BY DEF Buffers
  <2>2. n > 0 /\ x - BufSize = BufSize * (n - 1)
    BY <1>3, <2>1
  <2>3. n - 1 \in Nat
    BY <2>2
  <2> QED  BY <2>2, <2>3 DEF Buffers
<1>4. ASSUME NEW size \in Nat PROVE RoundUp(size) \in Buffers /\ size < RoundUp(size)
  <2>1. size \div BufSize \in Nat
    OBVIOUS
  <2>2. size < BufSize * (size \div BufSize + 1)
    OBVIOUS
  <2> QED  BY <2>1, <2>2 DEF Buffers, RoundUp
<1> QED  BY <1>1, <1>2, <1>3, <1>4

LEMMA TakesNat ==
  ASSUME StoreTypes, NEW s \in Store
  PROVE  \A j \in Job : Takes(s, j) \in Nat
<1>1. ASSUME NEW j \in Job PROVE alloc[j].size \in Nat
  BY DEF StoreTypes, AllocRec
<1>2. ASSUME NEW j \in Job, <<s, j>> \in DOMAIN blob PROVE blob[<<s, j>>].size \in Nat
  BY <1>2 DEF StoreTypes, BlobRec
<1> QED  BY <1>1, <1>2 DEF Takes

LEMMA TakesNatThen ==
  ASSUME StoreTypes', NEW s \in Store
  PROVE  \A j \in Job : Takes(s, j)' \in Nat
<1>1. ASSUME NEW j \in Job PROVE alloc'[j].size \in Nat
  BY DEF StoreTypes, AllocRec
<1>2. ASSUME NEW j \in Job, <<s, j>> \in DOMAIN blob' PROVE blob'[<<s, j>>].size \in Nat
  BY <1>2 DEF StoreTypes, BlobRec
<1> QED  BY <1>1, <1>2 DEF Takes

LEMMA UsedNat ==
  ASSUME NEW s \in Store, \A j \in Job : Takes(s, j) \in Nat, litter[s] \in Nat
  PROVE  Used(s) \in Nat
<1> DEFINE f == [j \in Job |-> Takes(s, j)]
<1>1. Sum(f, Job) \in Nat
  BY SumNat, BufferFacts DEF Buffer
<1> QED  BY <1>1 DEF Used, Sum

\* What is in use when no file grows, and when that of one job does.
LEMMA UsedLess ==
  ASSUME StoreTypes, StoreTypes', NEW s \in Store, litter'[s] <= litter[s],
         \A j \in Job : Takes(s, j)' <= Takes(s, j)
  PROVE  Used(s) \in Nat /\ Used(s)' \in Nat /\ Used(s)' <= Used(s)
<1> DEFINE f == [j \in Job |-> Takes(s, j)]
           g == [j \in Job |-> Takes(s, j)']
<1>1. \A j \in Job : f[j] \in Nat /\ g[j] \in Nat /\ g[j] <= f[j]
  BY TakesNat, TakesNatThen
<1>2. Used(s) = litter[s] + Sum(f, Job) /\ Used(s)' = litter'[s] + Sum(g, Job)
  BY DEF Used, Sum
<1> HIDE DEF f, g
<1>3. Sum(f, Job) \in Nat /\ Sum(g, Job) \in Nat /\ Sum(g, Job) <= Sum(f, Job)
  BY <1>1, SumNat, SumMono, BufferFacts DEF Buffer
<1>4. litter[s] \in Nat /\ litter'[s] \in Nat
  BY DEF StoreTypes
<1> QED  BY <1>2, <1>3, <1>4

LEMMA UsedOfOne ==
  ASSUME StoreTypes, StoreTypes', NEW s \in Store, NEW j \in Job,
         \A i \in Job \ {j} : Takes(s, i)' <= Takes(s, i)
  PROVE  /\ Used(s) \in Nat /\ Used(s)' \in Nat
         /\ Used(s)' + Takes(s, j) + litter[s] <= Used(s) + Takes(s, j)' + litter'[s]
<1> DEFINE f == [i \in Job |-> Takes(s, i)]
           g == [i \in Job |-> Takes(s, i)']
<1>1. \A i \in Job : f[i] \in Nat /\ g[i] \in Nat
  BY TakesNat, TakesNatThen
<1>2. \A i \in Job \ {j} : g[i] <= f[i]
  OBVIOUS
<1>3. Used(s) = litter[s] + Sum(f, Job) /\ Used(s)' = litter'[s] + Sum(g, Job)
  BY DEF Used, Sum
<1>4. f[j] = Takes(s, j) /\ g[j] = Takes(s, j)'
  OBVIOUS
<1>5. litter[s] \in Nat /\ litter'[s] \in Nat
  BY DEF StoreTypes
<1> HIDE DEF f, g
<1>6. /\ Sum(f, Job) \in Nat /\ Sum(g, Job) \in Nat
      /\ Sum(g, Job) + f[j] <= Sum(f, Job) + g[j]
  BY <1>1, <1>2, SumChange, BufferFacts DEF Buffer
<1>7. f[j] \in Nat /\ g[j] \in Nat
  BY <1>1
<1> QED  BY <1>3, <1>4, <1>5, <1>6, <1>7

\* Room stays while nothing grows.
LEMMA RoomStays ==
  ASSUME StoreInv, StoreTypes', \A s \in Store : Used(s) \in Nat /\ Used(s)' \in Nat,
         \A s \in Store : Used(s)' <= Used(s),
         NEW j \in Job, (\A i \in Job : AllocOk(i))',
         alloc'[j].at = "fill" =>
           /\ alloc[j].at = "fill" /\ (alloc[j].robbed => alloc'[j].robbed)
           /\ alloc'[j].store = alloc[j].store /\ alloc'[j].left = alloc[j].left
  PROVE  RoomOk(j)'
<1>1. SUFFICES ASSUME NEW s \in Store, alloc'[j].at = "fill", alloc'[j].store = s,
                      ~ alloc'[j].robbed
               PROVE  Used(s)' + alloc'[j].left <= Capacity[s]
  BY DEF RoomOk
<1>2. /\ alloc'[j].left = alloc[j].left
      /\ Used(s) + alloc[j].left <= Capacity[s]
  BY <1>1 DEF StoreInv, RoomOk
<1>3. alloc[j].left \in Nat /\ Capacity[s] \in Nat
  BY BuffersFacts, StorageAssumption DEF StoreInv, StoreTypes, AllocRec
<1>4. Used(s)' + alloc[j].left <= Capacity[s]
  BY <1>2, <1>3
<1> QED  BY <1>2, <1>4

-----------------------------------------------------------------------------
(***************************************************************************)
(* The operations.                                                         *)
(***************************************************************************)

\* One call of alloc_blob goes on, and its file does not grow.
LEMMA SetKept ==
  ASSUME StoreInv, NEW j \in Job, NEW a \in AllocRec, Set(j, a), UNCHANGED <<blob, litter>>,
         lock' \subseteq Job, \A i \in Job \ {j} : lock = {i} => lock' = {i},
         a.size = 0 \/ (a.store = alloc[j].store /\ a.size <= alloc[j].size),
         a.store = NoStore => a.size = 0,
         a.at \in {"none", "lock", "choose", "failed"} => a.store = NoStore,
         a.at \in {"lock", "choose"} => a.need > 0,
         a.at \in {"choose", "fill"} => lock' = {j},
         a.at = "fill" => a.store \in Store /\ a.left > 0 /\ a.size + a.left = a.need,
         \A s \in Store : a.at = "fill" /\ a.store = s /\ ~ a.robbed =>
           Used(s) + a.left <= Capacity[s]
  PROVE  StoreInv'
<1>1. alloc \in [Job -> AllocRec] /\ alloc' = [alloc EXCEPT ![j] = a] /\ alloc' \in [Job -> AllocRec]
  BY DEF StoreInv, StoreTypes, Set
<1>2. alloc'[j] = a /\ \A i \in Job \ {j} : alloc'[i] = alloc[i]
  BY <1>1
<1>3. StoreTypes'
  BY <1>1 DEF StoreInv, StoreTypes
<1>4. ASSUME NEW i \in Job PROVE AllocOk(i)'
  <2>1. CASE i = j
    BY <1>2, <2>1 DEF AllocOk
  <2>2. CASE i # j
    <3>1. AllocOk(i) /\ alloc'[i] = alloc[i]
      BY <1>2, <2>2 DEF StoreInv
    <3> QED  BY <2>2, <3>1 DEF AllocOk
  <2> QED  BY <2>1, <2>2
<1>5. ASSUME NEW s \in Store, NEW i \in Job PROVE Takes(s, i)' <= Takes(s, i)
  <2>0. Takes(s, i) \in Nat /\ NoStore \notin Store
    BY TakesNat, StorageAssumption DEF StoreInv
  <2>1. CASE i = j
    <3>1. alloc[i].size \in Nat /\ a.size \in Nat
      BY <1>1 DEF AllocRec
    <3>2. <<s, i>> \in DOMAIN blob => blob[<<s, i>>].size \in Nat
      BY DEF StoreInv, StoreTypes, BlobRec
    <3> QED  BY <1>2, <2>0, <2>1, <3>1, <3>2 DEF Takes
  <2>2. CASE i # j
    <3>1. Takes(s, i)' = Takes(s, i)
      BY <1>2, <2>2 DEF Takes
    <3> QED  BY <2>0, <3>1
  <2> QED  BY <2>1, <2>2
<1>6. ASSUME NEW s \in Store PROVE Used(s) \in Nat /\ Used(s)' \in Nat /\ Used(s)' <= Used(s)
  <2>1. litter'[s] <= litter[s]
    BY DEF StoreInv, StoreTypes
  <2>2. StoreTypes /\ \A i \in Job : Takes(s, i)' <= Takes(s, i)
    BY <1>5 DEF StoreInv
  <2> QED  BY <1>3, <2>1, <2>2, UsedLess
<1>7. ASSUME NEW i \in Job PROVE RoomOk(i)'
  <2>1. CASE i = j
    <3>1. SUFFICES ASSUME NEW s \in Store, alloc'[i].at = "fill", alloc'[i].store = s,
                          ~ alloc'[i].robbed
                   PROVE  Used(s)' + alloc'[i].left <= Capacity[s]
      BY DEF RoomOk
    <3>2. Used(s) + a.left <= Capacity[s]
      BY <1>2, <2>1, <3>1
    <3>3. a.left \in Nat /\ Capacity[s] \in Nat
      BY BuffersFacts, StorageAssumption DEF AllocRec
    <3>4. Used(s)' + a.left <= Capacity[s]
      BY <1>6, <3>2, <3>3
    <3> QED  BY <1>2, <2>1, <3>4
  <2>2. CASE i # j
    <3>1. alloc'[i] = alloc[i]
      BY <1>2, <2>2
    <3> QED  BY <1>3, <1>4, <1>6, <3>1, RoomStays
  <2> QED  BY <2>1, <2>2
<1> QED  BY <1>3, <1>4, <1>7 DEF StoreInv

\* The facts on one call that the steps below start from.
LEMMA CallFacts ==
  ASSUME StoreInv, NEW j \in Job
  PROVE  /\ alloc \in [Job -> AllocRec] /\ alloc[j] \in AllocRec /\ AllocOk(j) /\ RoomOk(j)
         /\ lock \subseteq Job /\ lock \ {j} \subseteq Job
         /\ \A i \in Job \ {j} : lock = {i} => lock \ {j} = {i}
         /\ alloc[j].left \in Nat /\ alloc[j].need \in Nat /\ alloc[j].size \in Nat
  BY BuffersFacts DEF StoreInv, StoreTypes, AllocRec

LEMMA NewAllocFacts ==
  ASSUME NEW at \in Places, NEW need \in Buffers
  PROVE  NewAlloc(at, need) \in AllocRec
  BY BuffersFacts DEF NewAlloc, AllocRec

\* A record of a call, some of its fields changed.
LEMMA Changed ==
  ASSUME NEW r \in AllocRec, NEW at \in Places, NEW left \in Buffers,
         NEW store \in Store \cup {NoStore}, NEW size \in Nat, NEW bad \in SUBSET Store
  PROVE  /\ [r EXCEPT !.at = at] \in AllocRec
         /\ [r EXCEPT !.at = at, !.store = store, !.left = left, !.robbed = FALSE] \in AllocRec
         /\ [r EXCEPT !.size = size, !.left = left, !.at = at] \in AllocRec
         /\ [r EXCEPT !.size = size, !.at = at] \in AllocRec
         /\ [r EXCEPT !.store = store, !.size = size, !.left = left] \in AllocRec
         /\ [r EXCEPT !.bad = bad] \in AllocRec
  BY DEF AllocRec

LEMMA AskKept ==
  ASSUME StoreInv, NEW j \in Job, NEW size \in Nat, Ask(j, size), UNCHANGED <<lock, blob, litter>>
  PROVE  StoreInv'
<1> DEFINE a == NewAlloc("lock", RoundUp(size))
<1>1. a \in AllocRec
  BY NewAllocFacts, BuffersFacts DEF Places
<1>2. a.at = "lock" /\ a.store = NoStore /\ a.size = 0 /\ Set(j, a) /\ a.need > 0
  <2>1. RoundUp(size) > 0
    <3>1. RoundUp(size) \in Nat /\ size < RoundUp(size)
      BY BuffersFacts
    <3> QED  BY <3>1
  <2> QED  BY <2>1 DEF NewAlloc, Ask
<1>3. lock' \subseteq Job /\ lock' = lock
  BY DEF StoreInv, StoreTypes
<1> HIDE DEF a
<1> QED  BY <1>1, <1>2, <1>3, SetKept

LEMMA CleanupKept ==
  ASSUME StoreInv, NEW j \in Job, Cleanup(j)
  PROVE  StoreInv'
<1>1. NoAlloc \in AllocRec /\ NoAlloc.at = "none" /\ NoAlloc.store = NoStore /\ NoAlloc.size = 0
  BY NewAllocFacts, BuffersFacts DEF NoAlloc, NewAlloc, Places
<1>2. Set(j, NoAlloc) /\ lock' = lock \ {j} /\ UNCHANGED <<blob, litter>>
  BY DEF Cleanup
<1> QED  BY <1>1, <1>2, CallFacts, SetKept

LEMMA LockKept ==
  ASSUME StoreInv, NEW j \in Job, Lock(j)
  PROVE  StoreInv'
<1> DEFINE a == [alloc[j] EXCEPT !.at = "choose"]
<1>1. /\ a \in AllocRec /\ a.at = "choose" /\ a.store = alloc[j].store
      /\ a.size = alloc[j].size /\ a.need = alloc[j].need
  BY CallFacts DEF AllocRec, Places
<1>2. Set(j, a) /\ lock = {} /\ lock' = {j} /\ UNCHANGED <<blob, litter>> /\ alloc[j].at = "lock"
  BY DEF Lock, At
<1>3. a.store = NoStore /\ a.size = 0 /\ a.need > 0
  BY <1>1, <1>2, CallFacts DEF AllocOk
<1>4. lock' \subseteq Job /\ \A i \in Job \ {j} : lock # {i}
  BY <1>2
<1> HIDE DEF a
<1> QED  BY <1>1, <1>2, <1>3, <1>4, SetKept

LEMMA ChooseKept ==
  ASSUME StoreInv, NEW j \in Job, Choose(j)
  PROVE  StoreInv'
<1>0. /\ alloc[j].at = "choose" /\ alloc[j].store = NoStore /\ alloc[j].size = 0 /\ lock = {j}
      /\ alloc[j].need > 0 /\ UNCHANGED <<blob, litter>>
  BY CallFacts DEF Choose, At, AllocOk
<1>1. ASSUME NEW s \in Store, Free(s) >= alloc[j].need, UNCHANGED lock,
             Set(j, [alloc[j] EXCEPT !.at = "fill", !.store = s, !.left = alloc[j].need,
                                     !.robbed = FALSE])
      PROVE  StoreInv'
  <2> DEFINE a == [alloc[j] EXCEPT !.at = "fill", !.store = s, !.left = alloc[j].need,
                                   !.robbed = FALSE]
  <2>1. /\ a \in AllocRec /\ a.at = "fill" /\ a.store = s /\ a.size = 0
        /\ a.left = alloc[j].need /\ a.need = alloc[j].need
    <3>1. alloc[j] \in AllocRec /\ alloc[j].need \in Buffers
      BY CallFacts DEF AllocRec
    <3>2. "fill" \in Places
      BY DEF Places
    <3>3. a \in AllocRec
      BY <3>1, <3>2, Changed
    <3> QED  BY <1>0, <3>1, <3>3 DEF AllocRec
  <2>2. Set(j, a)
    BY <1>1
  <2>3. Used(s) + a.left <= Capacity[s]
    <3>1. Used(s) \in Nat
      <4>1. (\A i \in Job : Takes(s, i) \in Nat) /\ litter[s] \in Nat
        BY TakesNat DEF StoreInv, StoreTypes
      <4> QED  BY <4>1, UsedNat
    <3>2. a.left \in Nat /\ Capacity[s] \in Nat /\ a.left > 0 /\ Free(s) >= a.left
      BY <1>0, <1>1, <2>1, CallFacts, StorageAssumption
    <3> HIDE DEF a
    <3> QED  BY <3>1, <3>2 DEF Free
  <2>4. a.left > 0 /\ a.size + a.left = a.need
    BY <1>0, <2>1, CallFacts
  <2>5. lock' = {j} /\ lock' \subseteq Job
    BY <1>0, <1>1
  <2>6. s # NoStore
    BY StorageAssumption
  <2> HIDE DEF a
  <2> QED  BY <1>0, <2>1, <2>2, <2>3, <2>4, <2>5, <2>6, SetKept
<1>2. ASSUME lock' = lock \ {j}, Set(j, [alloc[j] EXCEPT !.at = "failed"])
      PROVE  StoreInv'
  <2> DEFINE a == [alloc[j] EXCEPT !.at = "failed"]
  <2>1. a \in AllocRec /\ a.at = "failed" /\ a.store = NoStore /\ a.size = 0
    BY <1>0, CallFacts DEF AllocRec, Places
  <2>2. Set(j, a)
    BY <1>2
  <2> HIDE DEF a
  <2> QED  BY <1>0, <1>2, <2>1, <2>2, CallFacts, SetKept
<1>3. Best(Store \ alloc[j].bad) \subseteq Store
  BY DEF Best
<1> QED  BY <1>1, <1>2, <1>3 DEF Choose

LEMMA FillFailsKept ==
  ASSUME StoreInv, NEW j \in Job, FillFails(j)
  PROVE  StoreInv'
<1> DEFINE b == [WithoutFile(alloc[j]) EXCEPT !.at = "lock"]
           a == [b EXCEPT !.bad = @ \cup {alloc[j].store}]
<1>1. /\ alloc[j].at = "fill" /\ Set(j, a) /\ lock' = lock \ {j} /\ UNCHANGED <<blob, litter>>
  BY DEF FillFails, At
<1>2. alloc[j].store \in Store /\ alloc[j].need > 0
  BY <1>1, CallFacts DEF AllocOk
<1>3. /\ a \in AllocRec /\ a.at = "lock" /\ a.store = NoStore /\ a.size = 0
      /\ a.need = alloc[j].need
  <2> DEFINE c == WithoutFile(alloc[j])
             bad == b.bad \cup {alloc[j].store}
  <2>1. alloc[j] \in AllocRec /\ "lock" \in Places /\ 0 \in Buffers
    BY CallFacts, BuffersFacts DEF Places
  <2>2. c \in AllocRec /\ c.store = NoStore /\ c.size = 0 /\ c.need = alloc[j].need
    <3>1. c \in AllocRec
      BY <2>1, Changed DEF WithoutFile
    <3> QED  BY <2>1 DEF AllocRec, WithoutFile
  <2> HIDE DEF c
  <2>3. /\ b \in AllocRec /\ b.at = "lock" /\ b.store = NoStore /\ b.size = 0
        /\ b.need = alloc[j].need
    <3>1. b = [c EXCEPT !.at = "lock"]
      BY DEF c
    <3> HIDE DEF b
    <3>2. b \in AllocRec
      BY <2>1, <2>2, <3>1, Changed
    <3> QED  BY <2>2, <3>1, <3>2 DEF AllocRec
  <2>4. a = [b EXCEPT !.bad = bad]
    OBVIOUS
  <2> HIDE DEF b, a
  <2>5. bad \in SUBSET Store
    BY <1>2, <2>3 DEF AllocRec
  <2> HIDE DEF bad
  <2>6. a \in AllocRec
    BY <2>1, <2>3, <2>4, <2>5, Changed
  <2> QED  BY <2>3, <2>4, <2>6 DEF AllocRec
<1> HIDE DEF a
<1> QED  BY <1>1, <1>2, <1>3, CallFacts, SetKept

LEMMA EmptyKept ==
  ASSUME StoreInv, NEW j \in Job, Empty(j)
  PROVE  StoreInv'
<1> DEFINE a == [alloc[j] EXCEPT !.size = 0, !.at = "copy"]
<1>1. Set(j, a) /\ UNCHANGED <<lock, blob, litter>>
  BY DEF Empty
<1>2. a \in AllocRec /\ a.at = "copy" /\ a.size = 0
  <2>1. alloc[j] \in AllocRec /\ "copy" \in Places /\ 0 \in Nat /\ 0 \in Buffers
    BY CallFacts, BuffersFacts DEF Places
  <2>2. a \in AllocRec
    BY <2>1, Changed
  <2> QED  BY <2>1, <2>2 DEF AllocRec
<1>3. lock' \subseteq Job
  BY <1>1, CallFacts
<1> HIDE DEF a
<1> QED  BY <1>1, <1>2, <1>3, CallFacts, SetKept

\* Whoever fills a file is alone, so that the room it takes is nobody else's.
LEMMA FillKept ==
  ASSUME StoreInv, NEW j \in Job, Fill(j)
  PROVE  StoreInv'
<1> DEFINE left == alloc[j].left - BufSize
           a == [alloc[j] EXCEPT !.size = @ + BufSize, !.left = left,
                                 !.at = IF left = 0 THEN "got" ELSE "fill"]
<1>1. /\ alloc[j].at = "fill" /\ Set(j, a) /\ UNCHANGED <<blob, litter>>
      /\ lock' = IF left = 0 THEN lock \ {j} ELSE lock
  BY DEF Fill, At
<1>2. /\ alloc[j].store \in Store /\ alloc[j].left > 0 /\ lock = {j}
      /\ alloc[j].size + alloc[j].left = alloc[j].need
  BY <1>1, CallFacts DEF AllocOk
<1>3. left \in Buffers /\ left \in Nat
  BY <1>2, CallFacts, BuffersFacts DEF AllocRec
<1>4. /\ a \in AllocRec /\ a.at = (IF left = 0 THEN "got" ELSE "fill")
      /\ a.store = alloc[j].store /\ a.size = alloc[j].size + BufSize /\ a.left = left
      /\ a.need = alloc[j].need /\ a.robbed = alloc[j].robbed
  <2> DEFINE at == IF left = 0 THEN "got" ELSE "fill"
             size == alloc[j].size + BufSize
  <2>1. alloc[j] \in AllocRec /\ at \in Places /\ size \in Nat
    BY CallFacts, BufferFacts DEF Places, Buffer
  <2>2. a = [alloc[j] EXCEPT !.size = size, !.left = left, !.at = at]
    OBVIOUS
  <2> HIDE DEF a, left
  <2>3. a \in AllocRec
    BY <1>3, <2>1, <2>2, Changed
  <2> QED  BY <2>1, <2>2, <2>3 DEF AllocRec
<1>5. /\ alloc \in [Job -> AllocRec] /\ alloc' = [alloc EXCEPT ![j] = a]
      /\ alloc' \in [Job -> AllocRec] /\ alloc'[j] = a
      /\ \A i \in Job \ {j} : alloc'[i] = alloc[i]
  BY <1>1, <1>4, CallFacts DEF Set
<1>6. StoreTypes'
  <2>1. lock' \subseteq Job
    BY <1>1, <1>2
  <2> QED  BY <1>1, <1>5, <2>1 DEF StoreInv, StoreTypes
<1> HIDE DEF a
<1>7. ASSUME NEW i \in Job PROVE AllocOk(i)'
  <2>1. CASE i = j
    <3>1. a.size + a.left = a.need
      BY <1>2, <1>3, <1>4, CallFacts, BufferFacts DEF Buffer
    <3>2. left # 0 => left > 0 /\ lock' = {j}
      BY <1>1, <1>2, <1>3
    <3>3. alloc[j].store # NoStore
      BY <1>2, StorageAssumption
    <3> HIDE DEF left
    <3> QED  BY <1>2, <1>4, <1>5, <2>1, <3>1, <3>2, <3>3 DEF AllocOk
  <2>2. CASE i # j
    <3>1. AllocOk(i) /\ alloc'[i] = alloc[i] /\ alloc[i].at \notin {"choose", "fill"}
      BY <1>2, <1>5, <2>2, CallFacts DEF AllocOk, StoreInv
    <3> QED  BY <3>1 DEF AllocOk
  <2> QED  BY <2>1, <2>2
<1>8. ASSUME NEW i \in Job PROVE RoomOk(i)'
  <2>1. CASE i = j
    <3>1. SUFFICES ASSUME NEW s \in Store, a.store = s, ~ a.robbed, a.at = "fill"
                   PROVE  Used(s)' + a.left <= Capacity[s]
      BY <1>5, <2>1 DEF RoomOk
    <3>2. Used(s) + alloc[j].left <= Capacity[s]
      BY <1>1, <1>4, <3>1, CallFacts DEF RoomOk
    <3>3. StoreTypes /\ \A k \in Job \ {j} : Takes(s, k)' <= Takes(s, k)
      <4>1. ASSUME NEW k \in Job \ {j} PROVE Takes(s, k)' <= Takes(s, k)
        <5>1. Takes(s, k) \in Nat
          BY TakesNat DEF StoreInv
        <5>2. Takes(s, k)' = Takes(s, k)
          BY <1>1, <1>5 DEF Takes
        <5> QED  BY <5>1, <5>2
      <4> QED  BY <4>1 DEF StoreInv
    <3>4. /\ Used(s) \in Nat /\ Used(s)' \in Nat
          /\ Used(s)' + Takes(s, j) + litter[s] <= Used(s) + Takes(s, j)' + litter'[s]
      BY <1>6, <3>3, UsedOfOne
    <3>5. litter'[s] = litter[s] /\ litter[s] \in Nat
      BY <1>1 DEF StoreInv, StoreTypes
    <3>6. Takes(s, j)' = Takes(s, j) + BufSize /\ Takes(s, j) \in Nat
      <4>1. alloc[j].size \in Nat /\ BufSize \in Nat
        BY CallFacts, BufferFacts DEF Buffer
      <4>2. <<s, j>> \in DOMAIN blob => blob[<<s, j>>].size \in Nat
        BY DEF StoreInv, StoreTypes, BlobRec
      <4> QED  BY <1>1, <1>4, <1>5, <3>1, <4>1, <4>2 DEF Takes
    <3>7. a.left + BufSize = alloc[j].left /\ a.left \in Nat /\ BufSize \in Nat
      BY <1>3, <1>4, CallFacts, BufferFacts DEF Buffer
    <3>8. Capacity[s] \in Nat
      BY StorageAssumption
    <3> HIDE DEF left
    <3> QED  BY <3>2, <3>4, <3>5, <3>6, <3>7, <3>8
  <2>2. CASE i # j
    <3>1. alloc'[i] = alloc[i] /\ alloc[i].at # "fill"
      BY <1>2, <1>5, <2>2 DEF AllocOk, StoreInv
    <3> QED  BY <3>1 DEF RoomOk
  <2> QED  BY <2>1, <2>2
<1> QED  BY <1>6, <1>7, <1>8 DEF StoreInv

\* A file that grows may take the room of one that is being filled, which is robbed.
LEMMA GrowKept ==
  ASSUME StoreInv, NEW j \in Job, NEW size \in Nat, Grow(j, size), HasFile(j),
         UNCHANGED <<lock, blob, litter>>
  PROVE  StoreInv'
<1> DEFINE a == [alloc[j] EXCEPT !.size = size, !.at = "have"]
           Robbed(i) == \/ alloc[i].robbed
                        \/ (At(i, "fill") /\ alloc[i].store = alloc[j].store)
           Other(i) == [alloc[i] EXCEPT !.robbed = Robbed(i)]
<1>1. a \in AllocRec /\ a.at = "have" /\ a.store = alloc[j].store
  <2>1. alloc[j] \in AllocRec /\ "have" \in Places /\ 0 \in Buffers
    BY CallFacts, BuffersFacts DEF Places
  <2>2. a \in AllocRec
    BY <2>1, Changed
  <2> QED  BY <2>1, <2>2 DEF AllocRec
<1>2. ASSUME NEW i \in Job
      PROVE  /\ Other(i) \in AllocRec /\ Other(i).at = alloc[i].at
             /\ Other(i).store = alloc[i].store /\ Other(i).left = alloc[i].left
             /\ Other(i).size = alloc[i].size /\ Other(i).need = alloc[i].need
             /\ Other(i).robbed = Robbed(i)
  <2>1. alloc[i] \in AllocRec
    BY CallFacts
  <2>2. Robbed(i) \in BOOLEAN
    BY <2>1 DEF AllocRec
  <2> HIDE DEF Robbed
  <2> QED  BY <2>1, <2>2 DEF AllocRec
<1>3. alloc' = [i \in Job |-> IF i = j THEN a ELSE Other(i)]
  BY DEF Grow
<1> HIDE DEF a, Other
<1>4. alloc'[j] = a /\ \A i \in Job \ {j} : alloc'[i] = Other(i)
  BY <1>3
<1>5. StoreTypes'
  <2>1. alloc' \in [Job -> AllocRec]
    BY <1>1, <1>2, <1>3
  <2> QED  BY <2>1 DEF StoreInv, StoreTypes
<1>6. ASSUME NEW i \in Job PROVE AllocOk(i)'
  <2>1. CASE i = j
    BY <1>1, <1>4, <2>1 DEF AllocOk, HasFile
  <2>2. CASE i # j
    <3>1. AllocOk(i) /\ alloc'[i] = Other(i)
      BY <1>4, <2>2 DEF StoreInv
    <3> QED  BY <1>2, <3>1 DEF AllocOk
  <2> QED  BY <2>1, <2>2
<1>7. ASSUME NEW i \in Job PROVE RoomOk(i)'
  <2>1. SUFFICES ASSUME NEW s \in Store, alloc'[i].at = "fill", alloc'[i].store = s,
                        ~ alloc'[i].robbed
                 PROVE  Used(s)' + alloc'[i].left <= Capacity[s]
    BY DEF RoomOk
  <2>2. i # j /\ alloc'[i] = Other(i)
    BY <1>1, <1>4, <2>1
  <2>3. /\ alloc[i].at = "fill" /\ alloc[i].store = s /\ ~ alloc[i].robbed
        /\ alloc[j].store # s /\ alloc'[i].left = alloc[i].left
    BY <1>2, <2>1, <2>2 DEF At
  <2>4. Used(s) + alloc[i].left <= Capacity[s]
    BY <2>3, CallFacts DEF RoomOk
  <2>5. ASSUME NEW k \in Job PROVE Takes(s, k)' <= Takes(s, k)
    <3>1. Takes(s, k) \in Nat
      BY TakesNat DEF StoreInv
    <3>2. CASE k = j
      <4>1. Takes(s, k)' = Takes(s, k)
        BY <1>1, <1>4, <2>3, <3>2 DEF Takes
      <4> QED  BY <3>1, <4>1
    <3>3. CASE k # j
      <4>1. alloc'[k].store = alloc[k].store /\ alloc'[k].size = alloc[k].size
        BY <1>2, <1>4, <3>3
      <4>2. Takes(s, k)' = Takes(s, k)
        BY <4>1 DEF Takes
      <4> QED  BY <3>1, <4>2
    <3> QED  BY <3>2, <3>3
  <2>6. StoreTypes /\ litter'[s] <= litter[s]
    BY DEF StoreInv, StoreTypes
  <2>7. Used(s) \in Nat /\ Used(s)' \in Nat /\ Used(s)' <= Used(s)
    BY <1>5, <2>5, <2>6, UsedLess
  <2>8. alloc[i].left \in Nat /\ Capacity[s] \in Nat
    BY CallFacts, StorageAssumption
  <2>9. Used(s)' + alloc[i].left <= Capacity[s]
    BY <2>4, <2>7, <2>8
  <2> QED  BY <2>3, <2>9
<1> QED  BY <1>5, <1>6, <1>7 DEF StoreInv

LEMMA WriteKept ==
  ASSUME StoreInv, NEW j \in Job, NEW size \in Nat, Write(j, size)
  PROVE  StoreInv'
<1>0. HasFile(j) /\ UNCHANGED <<lock, blob, litter>>
  BY DEF Write
<1>1. CASE size <= alloc[j].size
  <2> DEFINE a == [alloc[j] EXCEPT !.size = size, !.at = "have"]
  <2>1. Set(j, a)
    BY <1>1 DEF Write
  <2>2. a \in AllocRec /\ a.at = "have" /\ a.store = alloc[j].store /\ a.size = size
    <3>1. alloc[j] \in AllocRec /\ "have" \in Places /\ 0 \in Buffers
      BY CallFacts, BuffersFacts DEF Places
    <3>2. a \in AllocRec
      BY <3>1, Changed
    <3> QED  BY <3>1, <3>2 DEF AllocRec
  <2>3. lock' \subseteq Job /\ lock' = lock
    BY <1>0, CallFacts
  <2> HIDE DEF a
  <2> QED  BY <1>0, <1>1, <2>1, <2>2, <2>3, SetKept DEF HasFile
<1>2. CASE ~ (size <= alloc[j].size)
  <2>1. Grow(j, size)
    BY <1>2 DEF Write
  <2> QED  BY <1>0, <2>1, GrowKept
<1> QED  BY <1>1, <1>2

LEMMA CopyKept ==
  ASSUME StoreInv, NEW j \in Job, NEW size \in Nat, Copy(j, size)
  PROVE  StoreInv'
  BY GrowKept DEF Copy

\* The jobs are where they were, or nowhere, and nothing takes more than before.
LEMMA LessKept ==
  ASSUME StoreInv, StoreTypes', lock' = lock \/ (\E j \in Job : lock' = lock \ {j}),
         \A s \in Store : Used(s)' <= Used(s) /\ Used(s) \in Nat /\ Used(s)' \in Nat,
         \A i \in Job :
           \/ alloc'[i] = alloc[i] /\ (lock = {i} => lock' = {i})
           \/ alloc'[i] = NoAlloc
           \/ /\ alloc'[i] = WithoutFile(alloc[i])
              /\ alloc[i].at \in {"got", "have", "copy"}
  PROVE  StoreInv'
<1>1. ASSUME NEW i \in Job
      PROVE  /\ AllocOk(i)'
             /\ alloc'[i].at = "fill" => alloc'[i] = alloc[i]
  <2>1. CASE alloc'[i] = alloc[i] /\ (lock = {i} => lock' = {i})
    <3>1. AllocOk(i)
      BY DEF StoreInv
    <3> QED  BY <2>1, <3>1 DEF AllocOk
  <2>2. CASE alloc'[i] = NoAlloc
    BY <2>2 DEF NoAlloc, NewAlloc, AllocOk
  <2>3. CASE /\ alloc'[i] = WithoutFile(alloc[i])
             /\ alloc[i].at \in {"got", "have", "copy"}
    <3>1. alloc[i] \in AllocRec
      BY CallFacts
    <3>2. /\ alloc'[i].at = alloc[i].at /\ alloc'[i].store = NoStore /\ alloc'[i].size = 0
      BY <2>3, <3>1 DEF WithoutFile, AllocRec
    <3> QED  BY <2>3, <3>2 DEF AllocOk
  <2> QED  BY <2>1, <2>2, <2>3
<1>2. ASSUME NEW i \in Job PROVE RoomOk(i)'
  BY <1>1, RoomStays
<1> QED  BY <1>1, <1>2 DEF StoreInv

\* What a temporary file took, the committed dump takes.
LEMMA CommitKept ==
  ASSUME StoreInv, NEW j \in Job, NEW mtime \in Nat, Commit(j, mtime)
  PROVE  StoreInv'
<1> DEFINE b == <<alloc[j].store, j>>
           new == [size |-> alloc[j].size, mtime |-> mtime]
<1>1. /\ alloc[j].store # NoStore /\ UNCHANGED <<lock, litter>>
      /\ blob' = [c \in DOMAIN blob \cup {b} |-> IF c = b THEN new ELSE blob[c]]
      /\ alloc' = [alloc EXCEPT ![j] = NoAlloc]
  BY DEF Commit, HasFile, Set
<1>2. alloc[j] \in AllocRec /\ alloc \in [Job -> AllocRec] /\ NoAlloc \in AllocRec
  BY CallFacts, NewAllocFacts, BuffersFacts DEF NoAlloc, Places
<1>3. alloc[j].store \in Store /\ alloc[j].size \in Nat
  BY <1>1, <1>2 DEF AllocRec
<1>4. new \in BlobRec /\ new.size = alloc[j].size /\ b \in Store \X Job
  BY <1>3 DEF BlobRec
<1>5. alloc' \in [Job -> AllocRec] /\ alloc'[j] = NoAlloc /\ \A i \in Job \ {j} : alloc'[i] = alloc[i]
  BY <1>1, <1>2
<1> HIDE DEF new
<1>6. StoreTypes'
  <2>1. DOMAIN blob' = DOMAIN blob \cup {b}
    BY <1>1
  <2>2. DOMAIN blob' \subseteq Store \X Job
    BY <1>4, <2>1 DEF StoreInv, StoreTypes
  <2>3. \A c \in DOMAIN blob' : blob'[c] \in BlobRec
    BY <1>1, <1>4, <2>1 DEF StoreInv, StoreTypes
  <2> QED  BY <1>1, <1>5, <2>2, <2>3 DEF StoreInv, StoreTypes
<1>7. ASSUME NEW s \in Store, NEW i \in Job PROVE Takes(s, i)' <= Takes(s, i)
  <2>0. Takes(s, i) \in Nat
    BY TakesNat DEF StoreInv
  <2>1. CASE i = j
    <3>1. alloc'[i].store # s
      BY <1>5, <2>1, StorageAssumption DEF NoAlloc, NewAlloc
    <3>2. CASE s = alloc[j].store
      <4>1. Takes(s, i)' = 0 + alloc[j].size
        <5>1. <<s, i>> \in DOMAIN blob' /\ blob'[<<s, i>>].size = alloc[j].size
          BY <1>1, <1>4, <2>1, <3>2
        <5> QED  BY <3>1, <5>1 DEF Takes
      <4>2. <<s, i>> \in DOMAIN blob => blob[<<s, i>>].size \in Nat
        BY DEF StoreInv, StoreTypes, BlobRec
      <4> QED  BY <1>3, <2>1, <3>2, <4>1, <4>2 DEF Takes
    <3>3. CASE s # alloc[j].store
      <4>1. /\ (<<s, i>> \in DOMAIN blob') = (<<s, i>> \in DOMAIN blob)
            /\ <<s, i>> \in DOMAIN blob => blob'[<<s, i>>] = blob[<<s, i>>]
        BY <1>1, <3>3
      <4>2. Takes(s, i)' = Takes(s, i)
        BY <2>1, <3>1, <3>3, <4>1 DEF Takes
      <4> QED  BY <2>0, <4>2
    <3> QED  BY <3>2, <3>3
  <2>2. CASE i # j
    <3>1. /\ (<<s, i>> \in DOMAIN blob') = (<<s, i>> \in DOMAIN blob)
          /\ <<s, i>> \in DOMAIN blob => blob'[<<s, i>>] = blob[<<s, i>>]
      BY <1>1, <2>2
    <3>2. Takes(s, i)' = Takes(s, i)
      BY <1>5, <2>2, <3>1 DEF Takes
    <3> QED  BY <2>0, <3>2
  <2> QED  BY <2>1, <2>2
<1>8. ASSUME NEW s \in Store
      PROVE  Used(s)' <= Used(s) /\ Used(s) \in Nat /\ Used(s)' \in Nat
  <2>1. StoreTypes /\ litter'[s] <= litter[s]
    BY <1>1 DEF StoreInv, StoreTypes
  <2> QED  BY <1>6, <1>7, <2>1, UsedLess
<1> HIDE DEF b
<1> QED  BY <1>1, <1>5, <1>6, <1>8, LessKept

\* What it took, nobody has any more.
LEMMA DropKept ==
  ASSUME StoreInv, NEW j \in Job, Drop(j)
  PROVE  StoreInv'
<1> DEFINE Lost(s) == IF alloc[j].store = s THEN alloc[j].size ELSE 0
<1>1. /\ UNCHANGED blob /\ lock' = lock \ {j} /\ alloc' = [alloc EXCEPT ![j] = NoAlloc]
      /\ litter' = [s \in Store |-> litter[s] + Lost(s)]
  BY DEF Drop, Set
<1>2. alloc \in [Job -> AllocRec] /\ NoAlloc \in AllocRec /\ alloc[j].size \in Nat
  BY CallFacts, NewAllocFacts, BuffersFacts DEF NoAlloc, Places
<1>3. alloc' \in [Job -> AllocRec] /\ alloc'[j] = NoAlloc /\ \A i \in Job \ {j} : alloc'[i] = alloc[i]
  BY <1>1, <1>2
<1>4. StoreTypes'
  <2>1. \A s \in Store : Lost(s) \in Nat /\ litter[s] \in Nat
    BY <1>2 DEF StoreInv, StoreTypes
  <2> HIDE DEF Lost
  <2>2. litter' \in [Store -> Nat]
    BY <1>1, <2>1
  <2> QED  BY <1>1, <1>3, <2>2 DEF StoreInv, StoreTypes
<1>5. ASSUME NEW s \in Store
      PROVE  Used(s)' <= Used(s) /\ Used(s) \in Nat /\ Used(s)' \in Nat
  <2>1. ASSUME NEW i \in Job \ {j} PROVE Takes(s, i)' <= Takes(s, i)
    <3>1. Takes(s, i) \in Nat /\ Takes(s, i)' = Takes(s, i)
      BY <1>1, <1>3, TakesNat DEF Takes, StoreInv
    <3> QED  BY <3>1
  <2>2. Takes(s, j) \in Nat /\ Takes(s, j)' + Lost(s) = Takes(s, j)
    <3>1. alloc'[j].store # s
      BY <1>3, StorageAssumption DEF NoAlloc, NewAlloc
    <3>2. <<s, j>> \in DOMAIN blob => blob[<<s, j>>].size \in Nat
      BY DEF StoreInv, StoreTypes, BlobRec
    <3>3. Takes(s, j) \in Nat
      BY TakesNat DEF StoreInv
    <3> QED  BY <1>1, <1>2, <3>1, <3>2, <3>3 DEF Takes
  <2>3. /\ Used(s) \in Nat /\ Used(s)' \in Nat
        /\ Used(s)' + Takes(s, j) + litter[s] <= Used(s) + Takes(s, j)' + litter'[s]
    <3>1. StoreTypes
      BY DEF StoreInv
    <3> QED  BY <1>4, <2>1, <3>1, UsedOfOne
  <2>4. Takes(s, j)' \in Nat
    BY <1>4, TakesNatThen
  <2>5. litter'[s] = litter[s] + Lost(s) /\ litter[s] \in Nat /\ Lost(s) \in Nat
    BY <1>1, <1>2 DEF StoreInv, StoreTypes
  <2> HIDE DEF Lost
  <2> QED  BY <2>2, <2>3, <2>4, <2>5
<1>6. \A i \in Job \ {j} : lock = {i} => lock' = {i}
  BY <1>1
<1> QED  BY <1>1, <1>3, <1>4, <1>5, <1>6, LessKept

LEMMA CleanTmpKept ==
  ASSUME StoreInv, CleanTmp
  PROVE  StoreInv'
<1>1. PICK old \in SUBSET {j \in Job : HasFile(j) /\ alloc[j].at \in {"got", "have", "copy"}} :
        alloc' = [j \in Job |-> IF j \in old THEN WithoutFile(alloc[j]) ELSE alloc[j]]
  BY DEF CleanTmp
<1>2. litter' = [s \in Store |-> 0] /\ UNCHANGED <<lock, blob>>
  BY DEF CleanTmp
<1>3. ASSUME NEW j \in Job
      PROVE  /\ alloc[j] \in AllocRec /\ WithoutFile(alloc[j]) \in AllocRec
             /\ WithoutFile(alloc[j]).store = NoStore
  <2>1. alloc[j] \in AllocRec /\ "have" \in Places /\ 0 \in Buffers
    BY CallFacts, BuffersFacts DEF Places
  <2>2. WithoutFile(alloc[j]) \in AllocRec
    BY <2>1, Changed DEF WithoutFile
  <2> QED  BY <2>1, <2>2 DEF AllocRec, WithoutFile
<1>4. StoreTypes'
  <2>1. alloc' \in [Job -> AllocRec]
    BY <1>1, <1>3
  <2> QED  BY <1>2, <2>1 DEF StoreInv, StoreTypes
<1>5. ASSUME NEW i \in Job
      PROVE  \/ alloc'[i] = alloc[i]
             \/ /\ alloc'[i] = WithoutFile(alloc[i])
                /\ alloc[i].at \in {"got", "have", "copy"}
  BY <1>1
<1>6. ASSUME NEW s \in Store
      PROVE  Used(s)' <= Used(s) /\ Used(s) \in Nat /\ Used(s)' \in Nat
  <2>1. StoreTypes /\ litter'[s] <= litter[s]
    BY <1>2 DEF StoreInv, StoreTypes
  <2>2. ASSUME NEW i \in Job PROVE Takes(s, i)' <= Takes(s, i)
    <3>1. alloc[i].size \in Nat /\ alloc'[i].store = s => alloc'[i] = alloc[i]
      BY <1>3, <1>5, StorageAssumption
    <3>2. <<s, i>> \in DOMAIN blob => blob[<<s, i>>].size \in Nat
      BY DEF StoreInv, StoreTypes, BlobRec
    <3>3. alloc[i].size \in Nat
      BY CallFacts
    <3> QED  BY <1>2, <3>1, <3>2, <3>3 DEF Takes
  <2> QED  BY <1>4, <2>1, <2>2, UsedLess
<1> QED  BY <1>2, <1>4, <1>5, <1>6, LessKept

LEMMA UnlinkKept ==
  ASSUME StoreInv, NEW b, Unlink(b)
  PROVE  StoreInv'
<1>1. blob' = [c \in DOMAIN blob \ {b} |-> blob[c]] /\ UNCHANGED <<lock, alloc, litter>>
  BY DEF Unlink
<1>2. DOMAIN blob' = DOMAIN blob \ {b} /\ \A c \in DOMAIN blob' : blob'[c] = blob[c]
  BY <1>1
<1>3. StoreTypes'
  BY <1>1, <1>2 DEF StoreInv, StoreTypes
<1>4. ASSUME NEW s \in Store
      PROVE  Used(s)' <= Used(s) /\ Used(s) \in Nat /\ Used(s)' \in Nat
  <2>1. StoreTypes /\ litter'[s] <= litter[s]
    BY <1>1 DEF StoreInv, StoreTypes
  <2>2. ASSUME NEW i \in Job PROVE Takes(s, i)' <= Takes(s, i)
    <3>1. <<s, i>> \in DOMAIN blob => blob[<<s, i>>].size \in Nat
      BY DEF StoreInv, StoreTypes, BlobRec
    <3>2. alloc[i].size \in Nat
      BY CallFacts
    <3> QED  BY <1>1, <1>2, <3>1, <3>2 DEF Takes
  <2> QED  BY <1>3, <2>1, <2>2, UsedLess
<1> QED  BY <1>1, <1>3, <1>4, LessKept

LEMMA StorageSame ==
  ASSUME StoreInv, UNCHANGED storage
  PROVE  StoreInv'
  BY DEF StoreInv, StoreTypes, AllocOk, RoomOk, Used, Takes, storage

=============================================================================
