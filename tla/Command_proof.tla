--------------------------- MODULE Command_proof ---------------------------
(***************************************************************************)
(* Proofs about Command: for any programs, parser, pipe and buffer sizes,  *)
(* a result is all that a successful program printed, and no program       *)
(* outlives its call.                                                      *)
(***************************************************************************)
EXTENDS Command, FiniteSetTheorems, TLAPS

Total == 2 * Len(prog.lines)

\* A program that exited with 0 wrote everything, and no stream of it is open.
ExitInv ==
  child = "exited" => ends = {} /\ (code = 0 => wrote = Total)

\* A stream at its end was read to its end, and its writer closed it.
EofInv ==
  /\ "out" \notin open => read = wrote /\ "out" \notin ends
  /\ calm => open = {}

\* Before the start there is no process; the code is looked at only when it has
\* exited; and a call is over only after that, unless it is abandoned.
CallInv ==
  /\ pc = "start" => child = "none" /\ ~ calm /\ open = Streams
  /\ child = "none" => ends = {} /\ wrote = 0 /\ (pc = "start" \/ outcome = "error")
  /\ pc = "check" => child = "exited"
  /\ outcome = "error" => child # "running"
  /\ outcome = "result" => child = "exited" /\ calm /\ code = 0
  /\ pc = "done" <=> outcome # "none"

IInv == prog \in Program /\ TypeOK /\ ExitInv /\ EofInv /\ CallInv

-----------------------------------------------------------------------------

(***************************************************************************)
(* What one read takes.                                                    *)
(***************************************************************************)

\* A read takes no more than was written and not yet read, and all of it if the
\* stream is at its end.
LEMMA ChunkLength ==
  ASSUME IInv
  PROVE  /\ Len(Chunk) \in Nat
         /\ read + Len(Chunk) \in 0 .. wrote
<1> DEFINE T == Text(prog)
           S == {T[i] : i \in 1 .. Total}
           n == IF "out" \notin open THEN 0
                ELSE IF wrote - read > BufSize THEN BufSize ELSE wrote - read
<1>1. Total \in Nat
  BY ProgramAssumption DEF IInv, Total
<1>2. T \in Seq(S) /\ Len(T) = Total
  <2>1. T \in [1 .. Total -> S]
    BY <1>1 DEF Text, Total
  <2> QED  BY <1>1, <2>1
<1>3. /\ n \in Nat /\ read \in Nat /\ wrote \in Nat
      /\ read + n <= wrote /\ wrote <= Total
  BY <1>1, ProgramAssumption DEF IInv, TypeOK, Total
<1>4. Len(SubSeq(T, read + 1, read + n)) = n
  <2> HIDE DEF T, S, n
  <2> QED  BY <1>1, <1>2, <1>3
<1>5. Len(Chunk) = n
  BY <1>4 DEF Chunk
<1> HIDE DEF n
<1> QED  BY <1>3, <1>5

\* At its end a stream was read to its end.
LEMMA EofIsEnd ==
  ASSUME IInv, "out" \in AtEof
  PROVE  read = wrote /\ "out" \notin ends /\ Len(Chunk) = 0
<1>1. read = wrote /\ "out" \notin ends
  BY DEF IInv, TypeOK, AtEof, Ready, Waiting
<1>2. read \in Nat
  BY DEF IInv, TypeOK
<1> QED  BY <1>1, <1>2, ChunkLength

-----------------------------------------------------------------------------
(***************************************************************************)
(* The invariant.                                                          *)
(***************************************************************************)

LEMMA InitOK == Init => IInv
<1> SUFFICES ASSUME Init PROVE IInv
  OBVIOUS
<1>1. Len(prog.lines) \in Nat /\ stuck \in BOOLEAN
  BY ProgramAssumption DEF Init
<1>2. ~ calm /\ open = Streams
  <2>1. calm = FALSE
    BY Zenon DEF Init
  <2>2. open = Streams
    BY Zenon DEF Init
  <2> QED  BY <2>1, <2>2
<1>3. /\ child = "none" /\ code = 0 /\ ends = {} /\ wrote = 0 /\ told = 0
      /\ pc = "start" /\ read = 0 /\ heard = 0
      /\ sent = "none" /\ outcome = "none"
  BY DEF Init
<1>4. TypeOK
  <2>1. wrote \in 0 .. 2 * Len(prog.lines)
    BY <1>1, <1>3
  <2>2. read \in 0 .. wrote /\ heard \in 0 .. told /\ told \in 0 .. 1 /\ code \in Nat
    BY <1>3
  <2>3. calm \in BOOLEAN
    BY Zenon DEF Init
  <2> QED  BY <1>1, <1>2, <1>3, <2>1, <2>2, <2>3, Zenon DEF TypeOK
<1>5. ExitInv /\ EofInv
  BY <1>2, <1>3 DEF ExitInv, EofInv, Streams
<1>6. CallInv
  BY <1>2, <1>3 DEF CallInv
<1> QED
  BY <1>4, <1>5, <1>6 DEF Init, IInv

LEMMA ProgramOK ==
  ASSUME IInv, ProgramStep
  PROVE  IInv'
<1> USE DEF ByProgram, input
<1>1. Total \in Nat /\ prog.code \in Nat /\ prog' = prog
  BY ProgramAssumption DEF IInv, Total, ProgramStep, Output, Complain, Close, Finish,
     Killed, Exit
<1>2. CASE Output
  BY <1>1, <1>2 DEF Output, IInv, TypeOK, ExitInv, EofInv, CallInv, Total
<1>3. CASE Complain
  BY <1>1, <1>3 DEF Complain, IInv, TypeOK, ExitInv, EofInv, CallInv, Total
<1>4. ASSUME NEW f \in Streams, Close(f) PROVE IInv'
  BY <1>1, <1>4 DEF Close, IInv, TypeOK, ExitInv, EofInv, CallInv, Total
<1>5. CASE Finish
  BY <1>1, <1>5 DEF Finish, Exit, Failure, IInv, TypeOK, ExitInv, EofInv, CallInv, Total
<1>6. CASE Killed
  BY <1>1, <1>6 DEF Killed, Exit, Failure, IInv, TypeOK, ExitInv, EofInv, CallInv, Total
<1> QED  BY <1>2, <1>3, <1>4, <1>5, <1>6 DEF ProgramStep

\* Reading is the one step of the cursor that changes what was read.
LEMMA ReadOK ==
  ASSUME IInv, Read
  PROVE  IInv'
<1>1. /\ pc = "read" /\ pc' \in {"read", "cleanup"}
      /\ calm' \in BOOLEAN
      /\ calm' => open' = {}
  BY DEF Read, Store, Parse
<1>2. /\ open' = open \ AtEof
      /\ read' = read + Len(Chunk)
      /\ heard' \in 0 .. told
      /\ UNCHANGED <<prog, stuck, child, code, ends, wrote, told, sent, outcome>>
  BY DEF Read, program, IInv, TypeOK
<1>3. read' \in 0 .. wrote
  BY <1>2, ChunkLength
<1>4. "out" \notin open' => read' = wrote /\ "out" \notin ends
  <2>1. CASE "out" \in AtEof
    BY <1>2, <2>1, EofIsEnd DEF IInv, TypeOK
  <2>2. CASE "out" \notin AtEof /\ "out" \notin open
    <3>1. read = wrote /\ "out" \notin ends
      BY <2>2 DEF IInv, EofInv
    <3>2. read \in Nat /\ wrote \in Nat /\ Len(Chunk) \in Nat
      BY ChunkLength DEF IInv, TypeOK
    <3> QED  BY <1>2, <3>1, <3>2, ChunkLength
  <2> QED  BY <1>2, <2>1, <2>2
<1>5. TypeOK'
  BY <1>1, <1>2, <1>3 DEF IInv, TypeOK
<1>6. ExitInv' /\ EofInv'
  BY <1>1, <1>2, <1>4 DEF IInv, ExitInv, EofInv, Total
<1>7. CallInv'
  BY <1>1, <1>2 DEF IInv, CallInv
<1> QED  BY <1>2, <1>5, <1>6, <1>7 DEF IInv

LEMMA CursorOK ==
  ASSUME IInv, Start \/ Timeout \/ Cleanup \/ Impatience \/ Reap \/ Check \/ Abandon
  PROVE  IInv'
<1> USE DEF ByCursor, input, program
<1>1. CASE Start
  <2>1. /\ child = "none" /\ ends = {} /\ wrote = 0
        /\ ~ calm /\ open = Streams /\ outcome = "none"
    BY <1>1 DEF Start, IInv, CallInv
  <2>2. TypeOK'
    BY <1>1 DEF Start, IInv, TypeOK
  <2>3. ExitInv' /\ EofInv'
    BY <1>1, <2>1 DEF Start, IInv, TypeOK, ExitInv, EofInv, Total, Streams
  <2>4. CallInv'
    BY <1>1, <2>1 DEF Start, CallInv
  <2> QED  BY <1>1, <2>2, <2>3, <2>4 DEF Start, IInv
<1>2. CASE Timeout
  BY <1>2 DEF Timeout, IInv, TypeOK, ExitInv, EofInv, CallInv, Total
<1>3. CASE Cleanup
  BY <1>3 DEF Cleanup, IInv, TypeOK, ExitInv, EofInv, CallInv, Total
<1>4. CASE Impatience
  BY <1>4 DEF Impatience, Await, IInv, TypeOK, ExitInv, EofInv, CallInv, Total
<1>5. CASE Reap
  BY <1>5 DEF Reap, IInv, TypeOK, ExitInv, EofInv, CallInv, Total
<1>6. CASE Check
  BY <1>6 DEF Check, IInv, TypeOK, ExitInv, EofInv, CallInv, Total
<1>7. CASE Abandon
  BY <1>7 DEF Abandon, IInv, TypeOK, ExitInv, EofInv, CallInv, Total
<1> QED  BY <1>1, <1>2, <1>3, <1>4, <1>5, <1>6, <1>7

LEMMA StepOK == IInv /\ [Next]_vars => IInv'
<1> SUFFICES ASSUME IInv, [Next]_vars PROVE IInv'
  OBVIOUS
<1>1. CASE UNCHANGED vars
  BY <1>1 DEF vars, program, input, IInv, TypeOK, ExitInv, EofInv, CallInv, Total
<1> QED  BY <1>1, ProgramOK, ReadOK, CursorOK DEF Next, CursorStep

\* The state of a call keeps its shape, and what the proofs need of it.
THEOREM Invariance == Spec => []IInv
<1>1. Init => IInv
  BY InitOK
<1>2. IInv /\ [Next]_vars => IInv'
  BY StepOK
<1> QED  BY <1>1, <1>2, PTL DEF Spec

-----------------------------------------------------------------------------
(***************************************************************************)
(* The theorems.                                                           *)
(***************************************************************************)

\* The state of a call keeps its shape.
THEOREM CallType == Spec => []TypeOK
<1>1. IInv => TypeOK
  BY DEF IInv
<1> QED  BY <1>1, Invariance, PTL

\* A result is given only for a program that printed everything and exited with 0
\* (_check_retcode, after the loop of _read_step came to the end of all streams).
THEOREM WholeResult == Spec => []ResultIsWhole
<1>1. IInv => ResultIsWhole
  BY DEF IInv, ExitInv, EofInv, CallInv, ResultIsWhole, Total
<1> QED  BY <1>1, Invariance, PTL

\* A call that is over has no program left (_cleanup_proc), unless a dump was
\* abandoned.
THEOREM NoneLeft == Spec => []NoOrphan
<1>1. IInv => NoOrphan
  BY DEF IInv, CallInv, NoOrphan
<1> QED  BY <1>1, Invariance, PTL

-----------------------------------------------------------------------------
(***************************************************************************)
(* The file of a dump.  What was read is where it belongs, however the     *)
(* output was cut; behind it is what is left of the reserved space.        *)
(***************************************************************************)

Piece == Nat \X Nat

\* The file begins with what was read so far.
Begins ==
  /\ file \in Seq(Piece) /\ read <= Len(file)
  /\ \A i \in 1 .. read : file[i] = Text(prog)[i]

FileInv ==
  /\ IInv
  /\ IsDump /\ outcome = "none" => Begins
  /\ DumpIsWhole

LEMMA TextFacts ==
  ASSUME IInv
  PROVE  Total \in Nat /\ Text(prog) \in Seq(Piece) /\ Len(Text(prog)) = Total
<1>1. Total \in Nat
  BY ProgramAssumption DEF IInv, Total
<1>2. \A i \in 1 .. Total : <<(i + 1) \div 2, 2 - (i % 2)>> \in Piece
  BY <1>1 DEF Piece
<1>3. Text(prog) \in [1 .. Total -> Piece]
  BY <1>2 DEF Text, Total
<1> QED  BY <1>1, <1>3

\* A read takes the pieces that come next.
LEMMA ChunkPieces ==
  ASSUME IInv
  PROVE  /\ Chunk \in Seq(Piece)
         /\ \A i \in 1 .. Len(Chunk) : Chunk[i] = Text(prog)[read + i]
<1> DEFINE T == Text(prog)
           n == IF "out" \notin open THEN 0
                ELSE IF wrote - read > BufSize THEN BufSize ELSE wrote - read
<1>1. T \in Seq(Piece) /\ Len(T) = Total /\ Total \in Nat
  BY TextFacts
<1>2. n \in Nat /\ read \in Nat /\ read + n <= Total
  BY <1>1, ProgramAssumption DEF IInv, TypeOK, Total
<1>3. Chunk = SubSeq(T, read + 1, read + n)
  BY DEF Chunk
<1> HIDE DEF T, n
<1>4. /\ SubSeq(T, read + 1, read + n) \in Seq(Piece)
      /\ Len(SubSeq(T, read + 1, read + n)) = n
      /\ \A i \in 1 .. n : SubSeq(T, read + 1, read + n)[i] = T[read + i]
  BY <1>1, <1>2
<1> QED  BY <1>3, <1>4 DEF T

\* Written where the last read ended, they make the file begin with what was
\* read now.
LEMMA WriteBegins ==
  ASSUME IInv, Begins, file' = Write(read, Chunk), read' = read + Len(Chunk),
         prog' = prog
  PROVE  Begins'
<1> DEFINE n == Len(Chunk)
           end == read + n
           top == IF end > Len(file) THEN end ELSE Len(file)
<1>1. n \in Nat /\ read \in Nat /\ Len(file) \in Nat
  BY ChunkLength DEF IInv, TypeOK, Begins
<1>2. \A i \in 1 .. n : Chunk[i] \in Piece /\ Chunk[i] = Text(prog)[read + i]
  BY ChunkPieces
<1>3. file' = [i \in 1 .. top |-> IF i \in read + 1 .. end THEN Chunk[i - read]
                                  ELSE file[i]]
  BY DEF Write
<1>4. \A i \in 1 .. Len(file) : file[i] \in Piece
  BY DEF Begins
<1> HIDE DEF n
<1>5. top \in Nat /\ end <= top
  BY <1>1
<1>6. ASSUME NEW i \in 1 .. top PROVE file'[i] \in Piece
  <2>1. CASE i \in read + 1 .. end
    BY <1>1, <1>2, <1>3, <2>1
  <2>2. CASE i \notin read + 1 .. end
    BY <1>1, <1>3, <1>4, <2>2 DEF Begins
  <2> QED  BY <2>1, <2>2
<1>7. file' \in Seq(Piece) /\ Len(file') = top
  <2>1. file' \in [1 .. top -> Piece]
    BY <1>3, <1>6
  <2> QED  BY <1>5, <2>1
<1>8. ASSUME NEW i \in 1 .. end PROVE file'[i] = Text(prog)[i]
  <2>1. CASE i \in read + 1 .. end
    <3>1. i - read \in 1 .. n /\ read + (i - read) = i /\ i \in 1 .. top
      BY <1>1, <1>5, <2>1
    <3> QED  BY <1>2, <1>3, <2>1, <3>1
  <2>2. CASE i \notin read + 1 .. end
    <3>1. i \in 1 .. read /\ i \in 1 .. top
      BY <1>1, <1>5, <2>2
    <3> QED  BY <1>3, <2>2, <3>1 DEF Begins
  <2> QED  BY <2>1, <2>2
<1>9. read' = end
  BY DEF n
<1> QED  BY <1>5, <1>7, <1>8, <1>9 DEF Begins, Text

\* Cut to the size of what was read, the file is what was printed.
LEMMA CutFile ==
  ASSUME IInv, Begins, read = Total
  PROVE  SubSeq(file, 1, read) = Text(prog)
<1>1. /\ Text(prog) \in Seq(Piece) /\ Len(Text(prog)) = Total /\ Total \in Nat
      /\ file \in Seq(Piece) /\ read <= Len(file)
  BY TextFacts DEF Begins
<1> DEFINE T == Text(prog)
           c == SubSeq(file, 1, read)
<1>2. c \in Seq(Piece) /\ Len(c) = read /\ \A i \in 1 .. read : c[i] = file[i]
  BY <1>1
<1>3. \A i \in 1 .. read : c[i] = T[i]
  BY <1>2 DEF Begins
<1> HIDE DEF c, T
<1> QED  BY <1>1, <1>2, <1>3 DEF T, c

LEMMA FileKept ==
  ASSUME FileInv, [Next]_vars
  PROVE  FileInv'
<1> USE DEF ByProgram, ByCursor, input, program
<1>1. IInv /\ IInv' /\ prog' = prog /\ (IsDump' <=> IsDump)
  <2>1. prog' = prog
    BY DEF Next, ProgramStep, CursorStep, Output, Complain, Close, Finish, Killed,
           Exit, Start, Read, Timeout, Cleanup, Impatience, Await, Reap, Check,
           Abandon, vars
  <2> QED  BY <2>1, StepOK DEF FileInv, IsDump
<1>2. ASSUME UNCHANGED <<prog, file, read, outcome>> PROVE FileInv'
  BY <1>1, <1>2 DEF FileInv, Begins, DumpIsWhole, IsDump, Text
<1>3. CASE Read
  <2>1. UNCHANGED outcome /\ outcome = "none"
    BY <1>3 DEF Read, FileInv, IInv, CallInv
  <2>2. ASSUME IsDump PROVE Begins'
    <3>1. file' = Write(read, Chunk) /\ read' = read + Len(Chunk) /\ Begins
      BY <1>3, <2>1, <2>2 DEF Read, Store, FileInv
    <3> QED  BY <1>1, <3>1, WriteBegins
  <2> QED  BY <1>1, <2>1, <2>2 DEF FileInv, DumpIsWhole
<1>4. CASE Check
  <2>1. outcome' # "none" /\ outcome = "none" /\ UNCHANGED read
    BY <1>1, <1>4 DEF Check, IInv, CallInv
  <2>2. ASSUME outcome' = "result", IsDump PROVE file' = Text(prog)
    <3>1. calm /\ code = 0 /\ child = "exited"
      BY <1>1, <1>4, <2>2 DEF Check, IInv, CallInv
    <3>2. read = Total
      BY <1>1, <3>1 DEF IInv, ExitInv, EofInv, Total
    <3>3. Begins
      BY <2>1, <2>2 DEF FileInv
    <3> QED  BY <1>1, <1>4, <2>2, <3>2, <3>3, CutFile DEF Check
  <2> QED  BY <1>1, <2>1, <2>2 DEF FileInv, DumpIsWhole, Text
<1>5. CASE Start \/ Reap \/ Abandon
  <2>1. UNCHANGED <<prog, file, read>> /\ outcome = "none" /\ outcome' # "result"
    BY <1>1, <1>5 DEF Start, Reap, Abandon, IInv, CallInv
  <2> QED  BY <1>1, <2>1 DEF FileInv, Begins, DumpIsWhole, IsDump, Text
<1>6. CASE Timeout \/ Cleanup \/ Impatience
  BY <1>2, <1>6 DEF Timeout, Cleanup, Impatience, Await
<1>7. CASE ProgramStep
  BY <1>2, <1>7 DEF ProgramStep, Output, Complain, Close, Finish, Killed, Exit
<1>8. CASE UNCHANGED vars
  BY <1>2, <1>8 DEF vars
<1> QED  BY <1>3, <1>4, <1>5, <1>6, <1>7, <1>8 DEF Next, CursorStep

LEMMA InitFile == Init => FileInv
<1> SUFFICES ASSUME Init PROVE FileInv
  OBVIOUS
<1>1. IInv /\ read = 0 /\ outcome = "none"
  BY InitOK DEF Init
<1>2. ASSUME IsDump PROVE file \in Seq(Piece)
  <2>1. file = [i \in 1 .. Reserved |-> <<0, 0>>]
    BY <1>2 DEF Init, IsDump
  <2>2. file \in [1 .. Reserved -> Piece]
    BY <2>1 DEF Piece
  <2> QED  BY <2>2, ProgramAssumption
<1> QED  BY <1>1, <1>2 DEF FileInv, Begins, DumpIsWhole

\* A dump that was taken holds exactly what vos dump printed, for any output,
\* however it is cut into reads and whatever size was reserved (_handle_vosdump).
THEOREM WholeDump == Spec => []DumpIsWhole
<1>1. FileInv => DumpIsWhole
  BY DEF FileInv
<1> QED  BY <1>1, InitFile, FileKept, PTL DEF Spec

-----------------------------------------------------------------------------
(***************************************************************************)
(* The lines of a text.  However the output is cut, the parser gets the    *)
(* same lines, and what is left over is the beginning of the next one.     *)
(***************************************************************************)

\* The lines that have ended after r pieces of the output.
Ended(p, r) ==
  IF r = 2 * Len(p.lines) /\ r > 0 /\ ~ p.newline THEN (r \div 2) - 1 ELSE r \div 2

\* The lines after the first i, up to the j-th.
LinesOf(i, j) == [m \in 1 .. j - i |-> << <<i + m, 1>>, <<i + m, 2>> >>]

Evens(n) == {2 * m : m \in 1 .. n}

LEMMA CountEvens ==
  ASSUME NEW n \in Nat
  PROVE  Cardinality(Evens(n)) = n
<1> DEFINE f == [m \in 1 .. n |-> 2 * m]
<1>1. f \in [1 .. n -> Evens(n)]
  BY DEF Evens
<1>2. \A a, b \in 1 .. n : f[a] = f[b] => a = b
  OBVIOUS
<1>3. \A e \in Evens(n) : \E m \in 1 .. n : f[m] = e
  BY DEF Evens
<1>4. ExistsBijection(1 .. n, Evens(n))
  BY <1>1, <1>2, <1>3 DEF ExistsBijection, Bijection, Injection, IsInjective, Surjection
<1>5. IsFiniteSet(1 .. n) /\ Cardinality(1 .. n) = n
  BY FS_Interval
<1> QED  BY <1>4, <1>5, FS_Bijection

\* A text ends its m-th line at place 2 * m, if it has a line more than m - 1.
LEMMA EvenIsUnique ==
  ASSUME NEW n \in Nat, NEW m \in 1 .. n,
         NEW e \in Evens(n), Cardinality({k \in Evens(n) : k <= e}) = m
  PROVE  e = 2 * m
<1>1. PICK k \in 1 .. n : e = 2 * k
  BY DEF Evens
<1>2. {x \in Evens(n) : x <= e} = Evens(k)
  BY <1>1 DEF Evens
<1> QED  BY <1>1, <1>2, CountEvens

LEMMA EvenIsThere ==
  ASSUME NEW n \in Nat, NEW m \in 1 .. n
  PROVE  2 * m \in Evens(n) /\ Cardinality({k \in Evens(n) : k <= 2 * m}) = m
<1>1. 2 * m \in Evens(n) /\ {k \in Evens(n) : k <= 2 * m} = Evens(m)
  BY DEF Evens
<1> QED  BY <1>1, CountEvens

LEMMA HalfOfDouble ==
  ASSUME NEW m \in Nat
  PROVE  (2 * m) \div 2 = m
OBVIOUS

\* Sequences are equal if they are as long and have the same elements.
LEMMA SameElements ==
  ASSUME NEW S, NEW x \in Seq(S), NEW y \in Seq(S), Len(x) = Len(y),
         \A k \in 1 .. Len(x) : x[k] = y[k]
  PROVE  x = y
OBVIOUS

LEMMA PartOfSeq ==
  ASSUME NEW S, NEW x \in Seq(S), NEW a \in Nat, NEW b \in Nat, a <= b, b <= Len(x)
  PROVE  /\ SubSeq(x, a + 1, b) \in Seq(S) /\ Len(SubSeq(x, a + 1, b)) = b - a
         /\ DOMAIN SubSeq(x, a + 1, b) = 1 .. b - a
         /\ \A k \in 1 .. b - a : SubSeq(x, a + 1, b)[k] = x[a + k]
<1>1. SubSeq(x, a + 1, b) \in Seq(S) /\ Len(SubSeq(x, a + 1, b)) = b - a
  OBVIOUS
<1>2. \A k \in 1 .. b - a : SubSeq(x, a + 1, b)[k] = x[a + k]
  OBVIOUS
<1> QED  BY <1>1, <1>2

\* The two pieces of a line.
LEMMA PiecesOfLine ==
  ASSUME NEW p, NEW m \in Nat \ {0}, m <= Len(p.lines), Len(p.lines) \in Nat
  PROVE  Text(p)[2 * m - 1] = <<m, 1>> /\ Text(p)[2 * m] = <<m, 2>>
<1>1. 2 * m - 1 \in 1 .. 2 * Len(p.lines) /\ 2 * m \in 1 .. 2 * Len(p.lines)
  OBVIOUS
<1>2. ((2 * m - 1) + 1) \div 2 = m /\ 2 - ((2 * m - 1) % 2) = 1
  OBVIOUS
<1>3. (2 * m + 1) \div 2 = m /\ 2 - ((2 * m) % 2) = 2
  OBVIOUS
<1> QED  BY <1>1, <1>2, <1>3 DEF Text

\* Every place of a text is that of one of them.
LEMMA PlaceIsHalf ==
  ASSUME NEW k \in Nat \ {0}
  PROVE  \E m \in Nat \ {0} : k = 2 * m - 1 \/ k = 2 * m
<1>1. CASE k % 2 = 0
  <2>1. k \div 2 \in Nat \ {0} /\ k = 2 * (k \div 2)
    BY <1>1
  <2> QED  BY <2>1
<1>2. CASE k % 2 = 1
  <2>1. (k + 1) \div 2 \in Nat \ {0} /\ k = 2 * ((k + 1) \div 2) - 1
    BY <1>2
  <2> QED  BY <2>1
<1> QED  BY <1>1, <1>2

LEMMA EndedFacts ==
  ASSUME NEW p \in Program, NEW r \in 0 .. 2 * Len(p.lines)
  PROVE  /\ Ended(p, r) \in Nat /\ 2 * Ended(p, r) <= r
         /\ Ended(p, r) <= Len(p.lines)
         /\ \A m \in Nat \ {0} :
              m <= Ended(p, r) <=> 2 * m <= r /\ (m < Len(p.lines) \/ p.newline)
<1>1. Len(p.lines) \in Nat /\ p.newline \in BOOLEAN
  BY ProgramAssumption
<1>2. r \in Nat /\ r \div 2 \in Nat /\ (r = 2 * (r \div 2) \/ r = 2 * (r \div 2) + 1)
  BY <1>1
<1>3. CASE r = 2 * Len(p.lines) /\ r > 0 /\ ~ p.newline
  <2>1. (2 * Len(p.lines)) \div 2 = Len(p.lines)
    BY <1>1, HalfOfDouble
  <2>2. Ended(p, r) = Len(p.lines) - 1
    BY <1>3, <2>1 DEF Ended
  <2> QED  BY <1>1, <1>2, <1>3, <2>2
<1>4. CASE ~ (r = 2 * Len(p.lines) /\ r > 0 /\ ~ p.newline)
  <2>1. Ended(p, r) = r \div 2
    BY <1>4 DEF Ended
  <2> QED  BY <1>1, <1>2, <1>4, <2>1
<1> QED  BY <1>3, <1>4

\* Text that begins with a line is split into the lines that have ended and the
\* pieces after them.
LEMMA SplitText ==
  ASSUME NEW p \in Program, NEW r \in 0 .. 2 * Len(p.lines),
         NEW i \in 0 .. Ended(p, r)
  PROVE  LET got == Split(p, SubSeq(Text(p), 2 * i + 1, r))
         IN  /\ got.lines = LinesOf(i, Ended(p, r))
             /\ got.part = SubSeq(Text(p), 2 * Ended(p, r) + 1, r)
<1> DEFINE L == Len(p.lines)
           T == Text(p)
           t == SubSeq(T, 2 * i + 1, r)
           E == {k \in DOMAIN t : EndsLine(p, t[k])}
           eol(m) == IF m = 0 THEN 0
                     ELSE CHOOSE k \in E : Cardinality({j \in E : j <= k}) = m
           n == Ended(p, r) - i
<1>1. L \in Nat /\ p.newline \in BOOLEAN
  BY ProgramAssumption
<1>2. /\ r \in Nat /\ i \in Nat /\ Ended(p, r) \in Nat /\ n \in Nat
      /\ 2 * Ended(p, r) <= r /\ Ended(p, r) <= L
  BY <1>1, EndedFacts
<1>3. T \in Seq(Piece) /\ Len(T) = 2 * L
  <2>1. \A k \in 1 .. 2 * L : <<(k + 1) \div 2, 2 - (k % 2)>> \in Piece
    BY <1>1 DEF Piece
  <2>2. T \in [1 .. 2 * L -> Piece] /\ 2 * L \in Nat
    BY <1>1, <2>1 DEF Text
  <2> HIDE DEF T, L, Piece
  <2> QED  BY <2>2
<1>4. /\ t \in Seq(Piece) /\ Len(t) = r - 2 * i /\ DOMAIN t = 1 .. r - 2 * i
      /\ \A k \in 1 .. r - 2 * i : t[k] = T[2 * i + k]
  <2> DEFINE a == 2 * i
             q == SubSeq(T, a + 1, r)
  <2>1. a \in Nat /\ r \in Nat /\ a <= r /\ r <= Len(T)
    BY <1>1, <1>2, <1>3
  <2> HIDE DEF T, Piece, a
  <2>2. /\ q \in Seq(Piece) /\ Len(q) = r - a /\ DOMAIN q = 1 .. r - a
        /\ \A k \in 1 .. r - a : q[k] = T[a + k]
    BY <1>3, <2>1, PartOfSeq
  <2>3. t = q
    BY DEF a
  <2> HIDE DEF t, q
  <2> QED  BY <2>2, <2>3 DEF a
<1>5. E = Evens(n)
  <2>1. ASSUME NEW k \in E PROVE k \in Evens(n)
    <3>1. k \in 1 .. r - 2 * i /\ EndsLine(p, T[2 * i + k])
      BY <1>4
    <3>2. PICK m \in Nat \ {0} : 2 * i + k = 2 * m - 1 \/ 2 * i + k = 2 * m
      <4>1. 2 * i + k \in Nat \ {0}
        BY <1>2, <3>1
      <4> QED  BY <4>1, PlaceIsHalf
    <3>3. m <= L
      BY <1>1, <1>2, <3>1, <3>2
    <3>4. T[2 * m - 1] = <<m, 1>> /\ T[2 * m] = <<m, 2>>
      BY <1>1, <3>3, PiecesOfLine
    <3>5. 2 * i + k = 2 * m /\ (m < L \/ p.newline)
      BY <3>1, <3>2, <3>4 DEF EndsLine
    <3>6. m <= Ended(p, r)
      BY <1>1, <1>2, <3>1, <3>5, EndedFacts
    <3>7. m - i \in 1 .. n /\ k = 2 * (m - i)
      <4>1. k \in Nat \ {0} /\ 2 * i + k = 2 * m /\ m \in Nat
        BY <1>2, <3>1, <3>5
      <4> HIDE DEF E
      <4> QED  BY <1>2, <3>6, <4>1
    <3> HIDE DEF n
    <3> QED  BY <3>7 DEF Evens
  <2>2. ASSUME NEW k \in Evens(n) PROVE k \in E
    <3>1. PICK m \in 1 .. n : k = 2 * m
      BY DEF Evens
    <3>2. i + m \in Nat \ {0} /\ i + m <= Ended(p, r) /\ i + m <= L
      BY <1>1, <1>2
    <3>3. 2 * (i + m) <= r /\ (i + m < L \/ p.newline)
      BY <3>2, EndedFacts
    <3>4. T[2 * (i + m)] = <<i + m, 2>>
      BY <1>1, <3>2, PiecesOfLine
    <3>5. k \in 1 .. r - 2 * i /\ 2 * i + k = 2 * (i + m)
      BY <1>2, <3>1, <3>3
    <3>6. t[k] = <<i + m, 2>>
      BY <1>4, <3>4, <3>5
    <3> QED  BY <1>4, <3>3, <3>5, <3>6 DEF EndsLine
  <2> HIDE DEF E
  <2> QED  BY <2>1, <2>2
<1>6. ASSUME NEW m \in 0 .. n PROVE eol(m) = 2 * m
  <2>1. CASE m = 0
    BY <2>1
  <2>2. CASE m # 0
    <3>1. m \in 1 .. n /\ eol(m) = CHOOSE k \in E : Cardinality({j \in E : j <= k}) = m
      <4>1. m \in 1 .. n
        BY <1>2, <2>2
      <4> HIDE DEF n, E
      <4> QED  BY <2>2, <4>1
    <3> HIDE DEF n, E
    <3>2. /\ 2 * m \in E /\ Cardinality({j \in E : j <= 2 * m}) = m
      BY <1>2, <1>5, <3>1, EvenIsThere
    <3>3. \A k \in E : Cardinality({j \in E : j <= k}) = m => k = 2 * m
      BY <1>2, <1>5, <3>1, EvenIsUnique
    <3> QED  BY <3>1, <3>2, <3>3
  <2> QED  BY <2>1, <2>2
<1>7. Cardinality(E) = n
  BY <1>2, <1>5, CountEvens
<1>8. Split(p, t) =
        [lines |-> [m \in 1 .. Cardinality(E) |-> SubSeq(t, eol(m - 1) + 1, eol(m))],
         part |-> SubSeq(t, eol(Cardinality(E)) + 1, Len(t))]
  BY DEF Split
<1> HIDE DEF eol, E
<1>9. ASSUME NEW m \in 1 .. n
      PROVE  SubSeq(t, eol(m - 1) + 1, eol(m)) = << <<i + m, 1>>, <<i + m, 2>> >>
  <2>1. eol(m - 1) = 2 * (m - 1) /\ eol(m) = 2 * m
    BY <1>2, <1>6
  <2>2. i + m \in Nat \ {0} /\ i + m <= L /\ 2 * (i + m) <= r
    BY <1>1, <1>2
  <2>3. T[2 * (i + m) - 1] = <<i + m, 1>> /\ T[2 * (i + m)] = <<i + m, 2>>
    BY <1>1, <2>2, PiecesOfLine
  <2>4. t[2 * m - 1] = T[2 * (i + m) - 1] /\ t[2 * m] = T[2 * (i + m)]
    <3>1. /\ 2 * m - 1 \in 1 .. r - 2 * i /\ 2 * m \in 1 .. r - 2 * i
          /\ 2 * i + (2 * m - 1) = 2 * (i + m) - 1 /\ 2 * i + 2 * m = 2 * (i + m)
      BY <1>2, <2>2
    <3> HIDE DEF t, T
    <3> QED  BY <1>4, <3>1
  <2>5. SubSeq(t, 2 * m - 1, 2 * m) = <<t[2 * m - 1], t[2 * m]>>
    <3>1. 2 * m - 1 \in 1 .. Len(t) /\ 2 * m \in 1 .. Len(t) /\ m \in Nat
      BY <1>2, <1>4, <2>2
    <3> HIDE DEF t
    <3>2. t \in Seq(Piece)
      BY <1>4
    <3>3. 2 * m - 2 \in Nat /\ (2 * m - 2) + 1 = 2 * m - 1 /\ 2 * m - (2 * m - 2) = 2
          /\ (2 * m - 2) + 2 = 2 * m /\ 2 * m \in Nat /\ 2 * m <= Len(t)
      BY <3>1
    <3> DEFINE q == SubSeq(t, 2 * m - 1, 2 * m)
    <3>4. /\ q \in Seq(Piece) /\ Len(q) = 2
          /\ \A k \in 1 .. 2 : q[k] = t[(2 * m - 2) + k]
      <4> DEFINE a == 2 * m - 2
                 b == 2 * m
      <4>1. a \in Nat /\ b \in Nat /\ a <= b /\ b <= Len(t) /\ b - a = 2
            /\ 2 * m - 1 = a + 1
        BY <3>1, <3>3
      <4> HIDE DEF a, b, Piece
      <4>2. /\ SubSeq(t, a + 1, b) \in Seq(Piece) /\ Len(SubSeq(t, a + 1, b)) = b - a
            /\ \A k \in 1 .. b - a : SubSeq(t, a + 1, b)[k] = t[a + k]
        BY <3>2, <4>1, PartOfSeq
      <4>3. q = SubSeq(t, a + 1, b)
        BY <4>1 DEF b
      <4> HIDE DEF q
      <4> QED  BY <4>1, <4>2, <4>3 DEF a
    <3>5. q[1] = t[2 * m - 1] /\ q[2] = t[2 * m]
      BY <3>3, <3>4
    <3> HIDE DEF q
    <3>6. q = <<q[1], q[2]>>
      BY <3>4
    <3> QED  BY <3>5, <3>6 DEF q
  <2>6. 2 * (m - 1) + 1 = 2 * m - 1
    BY <1>2
  <2> HIDE DEF t, T
  <2> QED  BY <2>1, <2>3, <2>4, <2>5, <2>6
<1>10. SubSeq(t, eol(n) + 1, Len(t)) = SubSeq(T, 2 * Ended(p, r) + 1, r)
  <2>1. eol(n) = 2 * n
    BY <1>2, <1>6
  <2> DEFINE e == Ended(p, r)
  <2>2. e \in Nat /\ 2 * i <= 2 * e /\ 2 * e <= r /\ r <= Len(T) /\ 2 * n = 2 * e - 2 * i
    BY <1>1, <1>2, <1>3
  <2> HIDE DEF e, t, T, n
  <2>3. SubSeq(t, (2 * e - 2 * i) + 1, r - 2 * i) = SubSeq(T, 2 * e + 1, r)
    <3>0. /\ 2 * e - 2 * i \in Nat /\ r - 2 * i \in Nat /\ 2 * e - 2 * i <= r - 2 * i
          /\ (r - 2 * i) - (2 * e - 2 * i) = r - 2 * e /\ r - 2 * e \in Nat
          /\ 2 * e \in Nat /\ r \in Nat
      BY <1>2, <2>2
    <3> DEFINE x == SubSeq(t, (2 * e - 2 * i) + 1, r - 2 * i)
               y == SubSeq(T, 2 * e + 1, r)
    <3>1. /\ x \in Seq(Piece) /\ Len(x) = r - 2 * e
          /\ \A k \in 1 .. r - 2 * e : x[k] = t[(2 * e - 2 * i) + k]
      <4> DEFINE a == 2 * e - 2 * i
                 b == r - 2 * i
      <4>1. a \in Nat /\ b \in Nat /\ a <= b /\ b <= Len(t) /\ b - a = r - 2 * e
        BY <1>4, <3>0
      <4>2. x = SubSeq(t, a + 1, b) /\ t \in Seq(Piece)
        BY <1>4
      <4> HIDE DEF a, b, x, Piece
      <4>3. /\ SubSeq(t, a + 1, b) \in Seq(Piece) /\ Len(SubSeq(t, a + 1, b)) = b - a
            /\ \A k \in 1 .. b - a : SubSeq(t, a + 1, b)[k] = t[a + k]
        BY <4>1, <4>2, PartOfSeq
      <4> QED  BY <4>1, <4>2, <4>3 DEF a
    <3>2. /\ y \in Seq(Piece) /\ Len(y) = r - 2 * e
          /\ \A k \in 1 .. r - 2 * e : y[k] = T[2 * e + k]
      <4> HIDE DEF Piece
      <4> QED  BY <1>3, <2>2, <3>0, PartOfSeq
    <3>3. \A k \in 1 .. r - 2 * e : t[(2 * e - 2 * i) + k] = T[2 * e + k]
      <4>1. ASSUME NEW k \in 1 .. r - 2 * e
            PROVE  (2 * e - 2 * i) + k \in 1 .. r - 2 * i
                   /\ 2 * i + ((2 * e - 2 * i) + k) = 2 * e + k
        BY <1>2, <2>2
      <4> QED  BY <1>4, <4>1
    <3> HIDE DEF x, y, Piece
    <3>4. x = y
      BY <3>1, <3>2, <3>3, SameElements
    <3> QED  BY <3>4 DEF x, y
  <2> QED  BY <1>4, <2>1, <2>2, <2>3 DEF e
<1> DEFINE lines == [m \in 1 .. n |-> SubSeq(t, eol(m - 1) + 1, eol(m))]
<1>11. Split(p, t).lines = LinesOf(i, Ended(p, r))
  <2>1. Split(p, t).lines = lines
    <3>1. Split(p, t) = [lines |-> lines, part |-> SubSeq(t, eol(n) + 1, Len(t))]
      BY <1>7, <1>8, Zenon
    <3> HIDE DEF lines
    <3> QED  BY <3>1
  <2>2. LinesOf(i, Ended(p, r)) = [m \in 1 .. n |-> << <<i + m, 1>>, <<i + m, 2>> >>]
    BY DEF LinesOf
  <2> HIDE DEF n, t
  <2> QED  BY <1>9, <2>1, <2>2
<1>12. Split(p, t).part = SubSeq(T, 2 * Ended(p, r) + 1, r)
  <2> DEFINE rest == SubSeq(t, eol(n) + 1, Len(t))
  <2>1. Split(p, t) = [lines |-> lines, part |-> rest]
    BY <1>7, <1>8, Zenon
  <2> HIDE DEF lines, rest
  <2>2. Split(p, t).part = rest
    BY <2>1
  <2> QED  BY <1>10, <2>2, Zenon DEF rest
<1> QED  BY <1>11, <1>12

LEMMA JoinFacts ==
  ASSUME NEW S, NEW x \in Seq(S), NEW y \in Seq(S)
  PROVE  /\ x \o y \in Seq(S) /\ Len(x \o y) = Len(x) + Len(y)
         /\ \A k \in 1 .. Len(x) : (x \o y)[k] = x[k]
         /\ \A k \in Len(x) + 1 .. Len(x) + Len(y) : (x \o y)[k] = y[k - Len(x)]
OBVIOUS

LEMMA FunIsSeq ==
  ASSUME NEW S, NEW n \in Nat, NEW f \in [1 .. n -> S]
  PROVE  f \in Seq(S) /\ Len(f) = n
OBVIOUS

LEMMA JoinParts ==
  ASSUME NEW S, NEW x \in Seq(S), NEW a \in Nat, NEW b \in Nat, NEW c \in Nat,
         a <= b, b <= c, c <= Len(x)
  PROVE  SubSeq(x, a + 1, b) \o SubSeq(x, b + 1, c) = SubSeq(x, a + 1, c)
<1> DEFINE u == SubSeq(x, a + 1, b)
           v == SubSeq(x, b + 1, c)
           w == SubSeq(x, a + 1, c)
<1>1. u \in Seq(S) /\ Len(u) = b - a /\ \A k \in 1 .. b - a : u[k] = x[a + k]
  BY PartOfSeq
<1>2. v \in Seq(S) /\ Len(v) = c - b /\ \A k \in 1 .. c - b : v[k] = x[b + k]
  BY PartOfSeq
<1>3. w \in Seq(S) /\ Len(w) = c - a /\ \A k \in 1 .. c - a : w[k] = x[a + k]
  BY PartOfSeq
<1> HIDE DEF u, v, w
<1>4. u \o v \in Seq(S) /\ Len(u \o v) = c - a
  <2>1. u \o v \in Seq(S) /\ Len(u \o v) = Len(u) + Len(v)
    BY <1>1, <1>2, JoinFacts
  <2>2. (b - a) + (c - b) = c - a
    OBVIOUS
  <2> QED  BY <1>1, <1>2, <2>1, <2>2
<1>5. ASSUME NEW k \in 1 .. c - a PROVE (u \o v)[k] = w[k]
  <2>1. CASE k \in 1 .. b - a
    BY <1>1, <1>2, <1>3, <2>1, JoinFacts
  <2>2. CASE k \notin 1 .. b - a
    <3>1. k - (b - a) \in 1 .. c - b /\ b + (k - (b - a)) = a + k
          /\ (b - a) + (k - (b - a)) = k
      BY <2>2
    <3> DEFINE j == k - (b - a)
    <3>2. j \in 1 .. Len(v) /\ Len(u) + j = k /\ b + j = a + k /\ j \in 1 .. c - b
      BY <1>1, <1>2, <3>1
    <3> HIDE DEF j
    <3>3. k \in Len(u) + 1 .. Len(u) + Len(v) /\ k - Len(u) = j
      BY <1>1, <1>2, <3>2 DEF j
    <3>4. (u \o v)[k] = v[j]
      <4>1. (u \o v)[k] = v[k - Len(u)]
        BY <1>1, <1>2, <3>3, JoinFacts
      <4> QED  BY <3>3, <4>1
    <3>5. v[j] = x[b + j] /\ w[k] = x[a + k]
      BY <1>2, <1>3, <3>2
    <3>6. x[b + j] = x[a + k]
      BY <3>2, Zenon
    <3> QED  BY <3>4, <3>5, <3>6, Zenon
  <2> QED  BY <2>1, <2>2, Zenon
<1>6. u \o v = w
  BY <1>3, <1>4, <1>5, SameElements
<1> QED  BY <1>6 DEF u, v, w

LEMMA LinesFacts ==
  ASSUME NEW i \in Nat, NEW j \in Nat, i <= j
  PROVE  /\ LinesOf(i, j) \in Seq(Seq(Piece)) /\ Len(LinesOf(i, j)) = j - i
         /\ \A m \in 1 .. j - i :
              LinesOf(i, j)[m] = << <<i + m, 1>>, <<i + m, 2>> >>
<1>1. ASSUME NEW m \in 1 .. j - i
      PROVE  << <<i + m, 1>>, <<i + m, 2>> >> \in Seq(Piece)
  <2>1. <<i + m, 1>> \in Piece /\ <<i + m, 2>> \in Piece
    BY DEF Piece
  <2> HIDE DEF Piece
  <2> QED  BY <2>1
<1>2. LinesOf(i, j) \in [1 .. j - i -> Seq(Piece)]
  BY <1>1 DEF LinesOf
<1>3. \A m \in 1 .. j - i : LinesOf(i, j)[m] = << <<i + m, 1>>, <<i + m, 2>> >>
  BY DEF LinesOf
<1>4. j - i \in Nat
  OBVIOUS
<1> HIDE DEF Piece
<1>5. LinesOf(i, j) \in Seq(Seq(Piece)) /\ Len(LinesOf(i, j)) = j - i
  BY <1>2, <1>4, FunIsSeq, Zenon
<1> QED  BY <1>3, <1>5

LEMMA LinesFromStart ==
  ASSUME NEW n \in Nat
  PROVE  /\ LinesOf(0, n) \in Seq(Seq(Piece)) /\ Len(LinesOf(0, n)) = n
         /\ \A m \in 1 .. n : LinesOf(0, n)[m] = << <<m, 1>>, <<m, 2>> >>
<1>1. 0 \in Nat /\ 0 <= n /\ n - 0 = n /\ \A m \in 1 .. n : 0 + m = m
  OBVIOUS
<1>2. /\ LinesOf(0, n) \in Seq(Seq(Piece)) /\ Len(LinesOf(0, n)) = n - 0
      /\ \A m \in 1 .. n - 0 : LinesOf(0, n)[m] = << <<0 + m, 1>>, <<0 + m, 2>> >>
  BY <1>1, LinesFacts
<1> QED  BY <1>1, <1>2

\* All lines of the output; how many of them end; and the one that may not.
AllLines(p) == LastLines(Split(p, Text(p)))
AllEnded(p) == Ended(p, 2 * Len(p.lines))
Rest(p) == SubSeq(Text(p), 2 * AllEnded(p) + 1, 2 * Len(p.lines))
LastOne(p) == IF Rest(p) = <<>> THEN <<>> ELSE <<Rest(p)>>

LEMMA TextOf ==
  ASSUME NEW p \in Program
  PROVE  /\ Len(p.lines) \in Nat /\ 2 * Len(p.lines) \in Nat
         /\ Text(p) \in Seq(Piece) /\ Len(Text(p)) = 2 * Len(p.lines)
<1> DEFINE L == Len(p.lines)
<1>1. L \in Nat /\ 2 * L \in Nat
  BY ProgramAssumption
<1>2. \A k \in 1 .. 2 * L : <<(k + 1) \div 2, 2 - (k % 2)>> \in Piece
  BY <1>1 DEF Piece
<1>3. Text(p) \in [1 .. 2 * L -> Piece]
  BY <1>1, <1>2 DEF Text
<1> HIDE DEF L, Piece
<1>4. Text(p) \in Seq(Piece) /\ Len(Text(p)) = 2 * L
  BY <1>1, <1>3
<1> QED  BY <1>1, <1>4 DEF L

\* All lines of the output: those that end, and what may follow them.
LEMMA AllLinesAre ==
  ASSUME NEW p \in Program
  PROVE  /\ AllEnded(p) \in Nat
         /\ Rest(p) \in Seq(Piece) /\ LastOne(p) \in Seq(Seq(Piece))
         /\ AllLines(p) = LinesOf(0, AllEnded(p)) \o LastOne(p)
         /\ AllLines(p) \in Seq(Seq(Piece))
         /\ Len(AllLines(p)) = AllEnded(p) + Len(LastOne(p))
<1> DEFINE L == Len(p.lines)
           T == Text(p)
           e == AllEnded(p)
<1>1. L \in Nat /\ 2 * L \in Nat /\ T \in Seq(Piece) /\ Len(T) = 2 * L
  BY TextOf
<1>2. e \in Nat /\ 2 * e <= 2 * L /\ 2 * L \in 0 .. 2 * Len(p.lines)
  BY <1>1, EndedFacts DEF AllEnded
<1>3. SubSeq(T, 2 * 0 + 1, 2 * L) = T
  <2> HIDE DEF T, L, Piece
  <2> QED  BY <1>1
<1>4. Split(p, T).lines = LinesOf(0, e) /\ Split(p, T).part = Rest(p)
  <2>1. 0 \in 0 .. Ended(p, 2 * L)
    BY <1>2 DEF AllEnded
  <2> QED  BY <1>2, <1>3, <2>1, SplitText DEF AllEnded, Rest
<1>5. Rest(p) \in Seq(Piece)
  <2>1. Rest(p) = SubSeq(T, 2 * e + 1, 2 * L)
    BY DEF Rest
  <2>2. 2 * e \in Nat
    BY <1>2
  <2> HIDE DEF T, L, e, Piece
  <2> QED  BY <1>1, <1>2, <2>1, <2>2, PartOfSeq
<1>6. LastOne(p) \in Seq(Seq(Piece))
  <2> HIDE DEF Piece
  <2> QED  BY <1>5 DEF LastOne
<1>7. AllLines(p) = LinesOf(0, e) \o LastOne(p)
  BY <1>4, Zenon DEF AllLines, LastLines, LastOne
<1>8. LinesOf(0, e) \in Seq(Seq(Piece)) /\ Len(LinesOf(0, e)) = e
  BY <1>2, LinesFromStart
<1> HIDE DEF e, Piece
<1>9. LinesOf(0, e) \o LastOne(p) \in Seq(Seq(Piece))
      /\ Len(LinesOf(0, e) \o LastOne(p)) = e + Len(LastOne(p))
  BY <1>6, <1>8, JoinFacts
<1>10. /\ AllLines(p) \in Seq(Seq(Piece))
       /\ Len(AllLines(p)) = e + Len(LastOne(p))
  BY <1>7, <1>9
<1> QED  BY <1>2, <1>5, <1>6, <1>7, <1>10 DEF e

\* Some of the lines that end.
LEMMA SomeLines ==
  ASSUME NEW p \in Program, NEW j \in 0 .. AllEnded(p), NEW i \in 0 .. j
  PROVE  SubSeq(AllLines(p), i + 1, j) = LinesOf(i, j)
<1> DEFINE all == AllLines(p)
           e == AllEnded(p)
           a == LinesOf(0, e)
           x == SubSeq(all, i + 1, j)
           y == LinesOf(i, j)
<1>1. /\ e \in Nat /\ all = a \o LastOne(p) /\ LastOne(p) \in Seq(Seq(Piece))
      /\ all \in Seq(Seq(Piece)) /\ Len(all) = e + Len(LastOne(p))
  BY AllLinesAre
<1>2. /\ a \in Seq(Seq(Piece)) /\ Len(a) = e
      /\ \A m \in 1 .. e : a[m] = << <<m, 1>>, <<m, 2>> >>
  BY <1>1, LinesFromStart
<1>3. i \in Nat /\ j \in Nat /\ i <= j /\ j <= e
  BY <1>1
<1>4. y \in Seq(Seq(Piece)) /\ Len(y) = j - i
      /\ \A m \in 1 .. j - i : y[m] = << <<i + m, 1>>, <<i + m, 2>> >>
  BY <1>3, LinesFacts
<1> HIDE DEF a, e, all, y, Piece
<1>5. j <= Len(all)
  BY <1>1, <1>3
<1>6. x \in Seq(Seq(Piece)) /\ Len(x) = j - i /\ \A m \in 1 .. j - i : x[m] = all[i + m]
  BY <1>1, <1>3, <1>5, PartOfSeq
<1> HIDE DEF x
<1>7. ASSUME NEW m \in 1 .. j - i PROVE x[m] = y[m]
  <2>1. i + m \in 1 .. e
    BY <1>1, <1>3
  <2>2. all[i + m] = a[i + m]
    BY <1>1, <1>2, <2>1
  <2> QED  BY <1>2, <1>4, <1>6, <2>1, <2>2
<1>8. x = y
  BY <1>4, <1>6, <1>7, SameElements
<1> QED  BY <1>8 DEF x, y, all

\* Where the elements of the second of two joined sequences are.
LEMMA SecondHalf ==
  ASSUME NEW S, NEW s \in Seq(S), NEW t \in Seq(S)
  PROVE  \A k \in 1 .. Len(t) : (s \o t)[Len(s) + k] = t[k]
<1>1. Len(s) \in Nat /\ Len(t) \in Nat
  OBVIOUS
<1> SUFFICES ASSUME NEW k \in 1 .. Len(t) PROVE (s \o t)[Len(s) + k] = t[k]
  OBVIOUS
<1>2. Len(s) + k \in 1 .. Len(s) + Len(t) /\ ~ (Len(s) + k <= Len(s))
  BY <1>1
<1> QED  BY <1>1, <1>2

\* All lines that are left.
LEMMA LeftLines ==
  ASSUME NEW p \in Program, NEW i \in 0 .. AllEnded(p)
  PROVE  SubSeq(AllLines(p), i + 1, Len(AllLines(p)))
           = LinesOf(i, AllEnded(p)) \o LastOne(p)
<1> DEFINE all == AllLines(p)
           e == AllEnded(p)
           t == LastOne(p)
           a == LinesOf(0, e)
<1>1. /\ e \in Nat /\ all = a \o t /\ t \in Seq(Seq(Piece))
      /\ all \in Seq(Seq(Piece)) /\ Len(all) = e + Len(t)
  BY AllLinesAre
<1>2. SubSeq(all, i + 1, e) = LinesOf(i, e)
  <2>1. e \in 0 .. AllEnded(p) /\ i \in 0 .. e
    BY <1>1
  <2> QED  BY <2>1, SomeLines
<1>3. a \in Seq(Seq(Piece)) /\ Len(a) = e
  BY <1>1, LinesFromStart
<1> HIDE DEF all, a, t, e, Piece
<1>4. SubSeq(all, e + 1, Len(all)) = t
  <2> DEFINE x == SubSeq(all, e + 1, Len(all))
  <2>1. Len(all) \in Nat /\ e <= Len(all) /\ Len(all) - e = Len(t)
    BY <1>1
  <2>2. x \in Seq(Seq(Piece)) /\ Len(x) = Len(t)
        /\ \A k \in 1 .. Len(t) : x[k] = all[e + k]
    <3> DEFINE b == Len(all)
               S == Seq(Piece)
    <3>0. all \in Seq(S) /\ b \in Nat /\ e \in Nat /\ e <= b /\ b <= Len(all)
      BY <1>1, <2>1
    <3>1. x \in Seq(Seq(Piece)) /\ Len(x) = Len(all) - e
          /\ \A k \in 1 .. Len(all) - e : x[k] = all[e + k]
      <4>1. x = SubSeq(all, e + 1, b)
        OBVIOUS
      <4> HIDE DEF x, b, S
      <4>2. /\ SubSeq(all, e + 1, b) \in Seq(S) /\ Len(SubSeq(all, e + 1, b)) = b - e
            /\ \A k \in 1 .. b - e : SubSeq(all, e + 1, b)[k] = all[e + k]
        BY <3>0, PartOfSeq
      <4>3. x \in Seq(S) /\ Len(x) = b - e /\ \A k \in 1 .. b - e : x[k] = all[e + k]
        BY <4>1, <4>2
      <4> QED  BY <4>3 DEF b, S
    <3> HIDE DEF x
    <3> QED  BY <2>1, <3>1
  <2> HIDE DEF x
  <2>3. \A k \in 1 .. Len(t) : all[e + k] = t[k]
    <3> DEFINE S == Seq(Piece)
    <3>1. a \in Seq(S) /\ t \in Seq(S)
      BY <1>1, <1>3
    <3> HIDE DEF S
    <3>2. \A k \in 1 .. Len(t) : (a \o t)[Len(a) + k] = t[k]
      BY <3>1, SecondHalf
    <3> QED  BY <1>1, <1>3, <3>2
  <2>4. x = t
    BY <1>1, <2>2, <2>3, SameElements
  <2> QED  BY <2>4 DEF x
<1>5. SubSeq(all, i + 1, e) \o SubSeq(all, e + 1, Len(all))
        = SubSeq(all, i + 1, Len(all))
  <2>1. i \in Nat /\ i <= e /\ e <= Len(all) /\ Len(all) \in Nat
    BY <1>1 DEF e
  <2> DEFINE c == Len(all)
  <2>2. c \in Nat /\ e <= c /\ c <= Len(all) /\ all \in Seq(Seq(Piece)) /\ e \in Nat
    BY <1>1, <2>1
  <2> HIDE DEF c
  <2>3. SubSeq(all, i + 1, e) \o SubSeq(all, e + 1, c) = SubSeq(all, i + 1, c)
    BY <2>1, <2>2, JoinParts
  <2> QED  BY <2>3 DEF c
<1> QED  BY <1>2, <1>4, <1>5, Zenon DEF all, e, t

-----------------------------------------------------------------------------
(***************************************************************************)
(* The result.  Before its end, the parser is where it would be if it had  *)
(* been given all lines that ended so far at once; at the end of the whole *)
(* output, if it had been given all of that at once.                       *)
(***************************************************************************)

FedSoFar(p, r) == Fed(p, ParseStart(p), 0, Ended(p, r))

LineInv ==
  ~ IsDump =>
    /\ pc \in {"start", "read"} =>
         /\ st = FedSoFar(prog, read)
         /\ part = SubSeq(Text(prog), 2 * Ended(prog, read) + 1, read)
    /\ calm => ~ st.err /\ (read = Total => st = Whole(prog))

\* The result is what the parser makes of the whole output at once.
ParsedAsWhole ==
  outcome = "result" /\ ~ IsDump => ~ st.err /\ st = Whole(prog)

ParsedInv == IInv /\ LineInv /\ (child = "exited" /\ code = 0 => prog.code = 0)

\* More lines end the more is read.
LEMMA EndedGrows ==
  ASSUME NEW p \in Program, NEW s \in 0 .. 2 * Len(p.lines), NEW r \in 0 .. s
  PROVE  Ended(p, r) \in 0 .. Ended(p, s)
<1>1. Len(p.lines) \in Nat /\ r \in 0 .. 2 * Len(p.lines)
  BY ProgramAssumption
<1>2. Ended(p, r) \in Nat /\ Ended(p, s) \in Nat
  BY <1>1, EndedFacts
<1>3. CASE Ended(p, r) = 0
  BY <1>2, <1>3
<1>4. CASE Ended(p, r) # 0
  <2>1. Ended(p, r) \in Nat \ {0} /\ Ended(p, r) <= Ended(p, r)
    BY <1>2, <1>4
  <2>2. 2 * Ended(p, r) <= r /\ (Ended(p, r) < Len(p.lines) \/ p.newline)
    BY <1>1, <2>1, EndedFacts
  <2>3. 2 * Ended(p, r) <= s
    BY <1>1, <1>2, <2>2
  <2>4. Ended(p, r) <= Ended(p, s)
    BY <1>1, <2>1, <2>2, <2>3, EndedFacts
  <2> QED  BY <1>2, <2>4
<1> QED  BY <1>3, <1>4

\* The text put together from what was left and what a read took.
LEMMA NewTextIs ==
  ASSUME IInv, LineInv, pc = "read", ~ IsDump
  PROVE  LET r == read + Len(Chunk)
         IN  /\ r \in read .. Total
             /\ Ended(prog, read) \in 0 .. Ended(prog, r)
             /\ NewText(Chunk).lines = LinesOf(Ended(prog, read), Ended(prog, r))
             /\ NewText(Chunk).part = SubSeq(Text(prog), 2 * Ended(prog, r) + 1, r)
<1> DEFINE T == Text(prog)
           n == IF "out" \notin open THEN 0
                ELSE IF wrote - read > BufSize THEN BufSize ELSE wrote - read
           r == read + Len(Chunk)
           e == Ended(prog, read)
<1>1. /\ prog \in Program /\ Total \in Nat /\ T \in Seq(Piece) /\ Len(T) = Total
  BY TextFacts DEF IInv
<1>2. n \in Nat /\ read \in Nat /\ read + n <= Total
  BY <1>1, ProgramAssumption DEF IInv, TypeOK, Total
<1>3. Chunk = SubSeq(T, read + 1, read + n)
  BY DEF Chunk
<1>4. Len(Chunk) = n
  <2> HIDE DEF T, n
  <2> QED  BY <1>1, <1>2, <1>3
<1>5. r = read + n /\ r \in read .. Total /\ r \in Nat
  <2> HIDE DEF n
  <2> QED  BY <1>1, <1>2, <1>4
<1>6. r \in 0 .. 2 * Len(prog.lines) /\ read \in 0 .. r
  BY <1>2, <1>5 DEF Total
<1>7. e \in 0 .. Ended(prog, r)
  BY <1>1, <1>6, EndedGrows
<1>8. e \in Nat /\ 2 * e <= read
  <2>1. read \in 0 .. 2 * Len(prog.lines)
    BY <1>1, <1>6 DEF Total
  <2> QED  BY <1>1, <2>1, EndedFacts
<1>9. part = SubSeq(T, 2 * e + 1, read)
  BY DEF LineInv
<1>10. part \o Chunk = SubSeq(T, 2 * e + 1, r)
  <2>1. 2 * e \in Nat /\ r <= Len(T)
    BY <1>1, <1>5, <1>8
  <2> HIDE DEF T, e, r, n, Piece
  <2>2. SubSeq(T, 2 * e + 1, read) \o SubSeq(T, read + 1, r) = SubSeq(T, 2 * e + 1, r)
    <3>1. read <= r
      BY <1>2, <1>5
    <3> DEFINE a == 2 * e
    <3>2. a \in Nat /\ a <= read
      BY <1>8, <2>1
    <3> HIDE DEF a
    <3>3. SubSeq(T, a + 1, read) \o SubSeq(T, read + 1, r) = SubSeq(T, a + 1, r)
      BY <1>1, <1>2, <1>5, <2>1, <3>1, <3>2, JoinParts
    <3> QED  BY <3>3 DEF a
  <2>3. Chunk = SubSeq(T, read + 1, r)
    BY <1>3, <1>5, Zenon
  <2> QED  BY <1>9, <2>2, <2>3, Zenon
<1>11. NewText(Chunk) = Split(prog, SubSeq(T, 2 * e + 1, r))
  BY <1>10, Zenon DEF NewText
<1> HIDE DEF r, e, T
<1>12. /\ NewText(Chunk).lines = LinesOf(e, Ended(prog, r))
       /\ NewText(Chunk).part = SubSeq(T, 2 * Ended(prog, r) + 1, r)
  BY <1>1, <1>6, <1>7, <1>11, SplitText DEF T
<1> QED  BY <1>5, <1>7, <1>12 DEF r, e, T

\* What the parser makes of the lines that a read brought to their end.
LEMMA MoreFed ==
  ASSUME NEW p \in Program, p.cmd # "dump", NEW j \in 0 .. AllEnded(p), NEW i \in 0 .. j
  PROVE  ParseLines(p, Fed(p, ParseStart(p), 0, i), LinesOf(i, j))
           = Fed(p, ParseStart(p), 0, j)
<1>1. SubSeq(AllLines(p), i + 1, j) = LinesOf(i, j)
  BY SomeLines
<1>2. /\ AllEnded(p) \in Nat /\ LastOne(p) \in Seq(Seq(Piece))
      /\ Len(AllLines(p)) = AllEnded(p) + Len(LastOne(p))
  BY AllLinesAre
<1>3. j \in 0 .. Len(AllLines(p))
  <2>1. Len(LastOne(p)) \in Nat
    BY <1>2
  <2> QED  BY <1>2, <2>1
<1>4. Fed(p, Fed(p, ParseStart(p), 0, i), i, j) = Fed(p, ParseStart(p), 0, j)
  BY <1>3, LinesAssumption DEF AllLines
<1> QED  BY <1>1, <1>4 DEF Fed, AllLines

\* And of those that were left at the end of the whole output.
LEMMA RestFed ==
  ASSUME NEW p \in Program, p.cmd # "dump", NEW i \in 0 .. AllEnded(p)
  PROVE  ParseEnd(p, ParseLines(p, Fed(p, ParseStart(p), 0, i),
                                LinesOf(i, AllEnded(p)) \o LastOne(p)))
           = Whole(p)
<1>1. SubSeq(AllLines(p), i + 1, Len(AllLines(p))) = LinesOf(i, AllEnded(p)) \o LastOne(p)
  BY LeftLines
<1>2. /\ AllEnded(p) \in Nat /\ LastOne(p) \in Seq(Seq(Piece))
      /\ Len(AllLines(p)) = AllEnded(p) + Len(LastOne(p))
  BY AllLinesAre
<1>3. Len(AllLines(p)) \in 0 .. Len(AllLines(p)) /\ i \in 0 .. Len(AllLines(p))
  <2>1. Len(LastOne(p)) \in Nat
    BY <1>2
  <2> QED  BY <1>2, <2>1
<1>4. Fed(p, Fed(p, ParseStart(p), 0, i), i, Len(AllLines(p)))
        = Fed(p, ParseStart(p), 0, Len(AllLines(p)))
  BY <1>3, LinesAssumption DEF AllLines
<1> QED  BY <1>1, <1>4 DEF Fed, AllLines, Whole

LEMMA ReadLines ==
  ASSUME ParsedInv, Read
  PROVE  LineInv'
<1> SUFFICES ASSUME ~ IsDump PROVE LineInv'
  BY DEF LineInv, Read, IsDump
<1> DEFINE got == NewText(Chunk)
           r == read + Len(Chunk)
           more == open' # {}
<1>1. /\ IInv /\ LineInv /\ pc = "read" /\ prog \in Program /\ prog.cmd # "dump"
  BY DEF ParsedInv, IInv, Read, IsDump
<1>2. /\ prog' = prog /\ read' = r
      /\ part' = (IF more THEN got.part ELSE <<>>)
      /\ st' = Parsed(got, more)
      /\ pc' = (IF more /\ ~ st'.err THEN "read" ELSE "cleanup")
      /\ calm' = (~ more /\ ~ st'.err)
  <2>1. prog' = prog /\ read' = r /\ Parse(more)
    BY DEF Read
  <2> QED  BY <2>1, Zenon DEF Parse
<1>3. /\ r \in read .. Total
      /\ Ended(prog, read) \in 0 .. Ended(prog, r)
      /\ got.lines = LinesOf(Ended(prog, read), Ended(prog, r))
      /\ got.part = SubSeq(Text(prog), 2 * Ended(prog, r) + 1, r)
  BY <1>1, NewTextIs
<1>4. st = FedSoFar(prog, read)
  BY <1>1 DEF LineInv
<1>5. Total \in Nat /\ Total = 2 * Len(prog.lines) /\ read \in Nat /\ r \in 0 .. Total
      /\ Total' = Total
  <2>1. Total \in Nat /\ read \in Nat
    BY <1>1, TextFacts DEF IInv, TypeOK
  <2> HIDE DEF r
  <2> QED  BY <1>2, <1>3, <2>1 DEF Total
<1>6. Ended(prog, r) \in 0 .. AllEnded(prog)
  <2>1. Total \in 0 .. 2 * Len(prog.lines)
    BY <1>5
  <2> HIDE DEF r
  <2>2. Ended(prog, r) \in 0 .. Ended(prog, Total)
    BY <1>1, <1>5, <2>1, EndedGrows
  <2> QED  BY <1>5, <2>2 DEF AllEnded
<1> HIDE DEF got, r, more
<1>7. ASSUME more
      PROVE  /\ st' = FedSoFar(prog, r)
             /\ part' = SubSeq(Text(prog), 2 * Ended(prog, r) + 1, r)
  <2>1. st' = ParseLines(prog, st, got.lines)
    BY <1>2, <1>7 DEF Parsed
  <2>2. ParseLines(prog, Fed(prog, ParseStart(prog), 0, Ended(prog, read)),
                   LinesOf(Ended(prog, read), Ended(prog, r)))
          = Fed(prog, ParseStart(prog), 0, Ended(prog, r))
    BY <1>1, <1>3, <1>6, MoreFed
  <2> QED  BY <1>2, <1>3, <1>4, <1>7, <2>1, <2>2, Zenon DEF FedSoFar
<1>8. ASSUME ~ more, r = Total PROVE st' = Whole(prog)
  <2>1. st' = ParseEnd(prog, ParseLines(prog, st, LastLines(got)))
    BY <1>2, <1>8 DEF Parsed
  <2>2. Ended(prog, r) = AllEnded(prog) /\ got.part = Rest(prog)
    BY <1>3, <1>5, <1>8, Zenon DEF AllEnded, Rest
  <2>3. LastLines(got) = LinesOf(Ended(prog, read), AllEnded(prog)) \o LastOne(prog)
    BY <1>3, <2>2, Zenon DEF LastLines, LastOne
  <2>4. Ended(prog, read) \in 0 .. AllEnded(prog)
    BY <1>3, <2>2
  <2>5. ParseEnd(prog, ParseLines(prog,
                         Fed(prog, ParseStart(prog), 0, Ended(prog, read)),
                         LinesOf(Ended(prog, read), AllEnded(prog)) \o LastOne(prog)))
          = Whole(prog)
    BY <1>1, <2>4, RestFed
  <2> QED  BY <1>4, <2>1, <2>3, <2>5, Zenon DEF FedSoFar
<1>9. ASSUME pc' \in {"start", "read"}
      PROVE  /\ st' = FedSoFar(prog', read')
             /\ part' = SubSeq(Text(prog'), 2 * Ended(prog', read') + 1, read')
  <2>1. more
    BY <1>2, <1>9
  <2> QED  BY <1>2, <1>7, <2>1, Zenon
<1>10. ASSUME calm' PROVE ~ st'.err /\ (read' = Total' => st' = Whole(prog'))
  <2>1. ~ more /\ ~ st'.err
    BY <1>2, <1>10
  <2> QED  BY <1>2, <1>5, <1>8, <2>1, Zenon
<1>11. LineInv' <=>
         (~ IsDump' =>
            /\ pc' \in {"start", "read"} =>
                 /\ st' = FedSoFar(prog', read')
                 /\ part' = SubSeq(Text(prog'), 2 * Ended(prog', read') + 1, read')
            /\ calm' => ~ st'.err /\ (read' = Total' => st' = Whole(prog')))
  BY Zenon DEF LineInv, FedSoFar, Whole, Fed, Text, Ended, Split, LastLines, EndsLine
<1> QED  BY <1>9, <1>10, <1>11, Zenon

LEMMA InitParsed == Init => ParsedInv
<1> SUFFICES ASSUME Init PROVE ParsedInv
  OBVIOUS
<1>1. IInv /\ read = 0 /\ child = "none" /\ part = <<>> /\ st = ParseStart(prog)
      /\ prog \in Program
  BY InitOK DEF Init
<1>2. ~ calm
  BY <1>1 DEF IInv, CallInv, Init
<1>3. Ended(prog, 0) = 0
  BY DEF Ended
<1>4. ASSUME ~ IsDump PROVE st = FedSoFar(prog, read)
  BY <1>1, <1>3, <1>4, LinesAssumption DEF FedSoFar, IsDump
<1>5. part = SubSeq(Text(prog), 2 * Ended(prog, read) + 1, read)
  <2>1. SubSeq(Text(prog), 1, 0) = <<>>
    BY <1>1, TextOf
  <2> QED  BY <1>1, <1>3, <2>1
<1> QED  BY <1>1, <1>2, <1>4, <1>5 DEF ParsedInv, LineInv

LEMMA ParsedKept ==
  ASSUME ParsedInv, [Next]_vars
  PROVE  ParsedInv'
<1> USE DEF ByProgram, ByCursor, input, program
<1>1. IInv /\ IInv' /\ prog' = prog
  <2>1. prog' = prog
    BY DEF Next, ProgramStep, CursorStep, Output, Complain, Close, Finish, Killed,
           Exit, Start, Read, Timeout, Cleanup, Impatience, Await, Reap, Check,
           Abandon, vars
  <2> QED  BY <2>1, StepOK DEF ParsedInv
<1>2. ASSUME UNCHANGED <<prog, read, part, st, calm>>,
             pc' \in {"start", "read"} => pc \in {"start", "read"}
      PROVE  LineInv'
  BY <1>2 DEF ParsedInv, LineInv, IsDump, Total, FedSoFar, Whole, Fed, Text, Ended
<1>3. LineInv'
  <2>1. CASE Read
    BY <2>1, ReadLines
  <2>2. CASE ProgramStep
    BY <1>2, <2>2 DEF ProgramStep, Output, Complain, Close, Finish, Killed, Exit
  <2>3. CASE Start
    BY <1>2, <2>3 DEF Start
  <2>4. CASE Timeout \/ Cleanup \/ Impatience
    BY <1>2, <2>4 DEF Timeout, Cleanup, Impatience, Await
  <2>5. CASE Reap \/ Check \/ Abandon
    BY <1>2, <2>5 DEF Reap, Check, Abandon
  <2>6. CASE UNCHANGED vars
    BY <1>2, <2>6 DEF vars
  <2> QED  BY <2>1, <2>2, <2>3, <2>4, <2>5, <2>6 DEF Next, CursorStep
<1>4. child' = "exited" /\ code' = 0 => prog'.code = 0
  <2>1. CASE UNCHANGED <<child, code>>
    BY <1>1, <2>1 DEF ParsedInv
  <2>2. CASE Start
    BY <2>2 DEF Start, ParsedInv, IInv, CallInv
  <2>3. CASE Finish \/ Killed
    BY <1>1, <2>3 DEF Finish, Killed, Exit, Failure
  <2>4. CASE Output \/ Complain \/ \E f \in Streams : Close(f)
    BY <2>1, <2>4 DEF Output, Complain, Close
  <2>5. CASE Read \/ Timeout \/ Cleanup \/ Impatience
    BY <2>1, <2>5 DEF Read, Timeout, Cleanup, Impatience, Await
  <2>6. CASE Reap \/ Check \/ Abandon \/ UNCHANGED vars
    BY <2>1, <2>6 DEF Reap, Check, Abandon, vars
  <2> QED  BY <2>2, <2>3, <2>4, <2>5, <2>6 DEF Next, ProgramStep, CursorStep
<1> QED  BY <1>1, <1>3, <1>4 DEF ParsedInv

\* However the output is cut into reads, the parser makes of it what it makes of the
\* whole at once (new_text, got_stdout, _read_step), for any parser that takes one
\* line after the other.
THEOREM CutsDoNotMatter == Spec => []ParsedAsWhole
<1>1. ParsedInv => ParsedAsWhole
  BY DEF ParsedInv, LineInv, ParsedAsWhole, IInv, ExitInv, EofInv, CallInv, Total
<1> QED  BY <1>1, InitParsed, ParsedKept, PTL DEF Spec

\* So the result is what the program printed, if the parser is right on whole
\* outputs (run, _check_retcode).
THEOREM RightResult == Spec => []ResultIsListing
<1>1. ParsedInv => ResultIsListing
  <2> SUFFICES ASSUME ParsedInv, outcome = "result", ~ IsDump
               PROVE  prog.ok /\ ParseResult(prog, st) = prog.wanted
    BY DEF ResultIsListing
  <2>1. ~ st.err /\ st = Whole(prog) /\ child = "exited" /\ code = 0
    BY DEF ParsedInv, LineInv, IInv, ExitInv, EofInv, CallInv, Total
  <2>2. prog \in Program /\ prog.cmd # "dump" /\ prog.code = 0
    BY <2>1 DEF ParsedInv, IInv, IsDump
  <2> QED  BY <2>1, <2>2, ParserAssumption
<1> QED  BY <1>1, InitParsed, ParsedKept, PTL DEF Spec

=============================================================================
