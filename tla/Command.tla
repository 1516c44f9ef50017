------------------------------ MODULE Command ------------------------------
(***************************************************************************)
(* Running a program and reading what it prints (fabs/cmd.py, classes      *)
(* _ProcessCursor, _TextLines and _BaseParser), in both ways it is used:   *)
(* run() feeds the output to a parser line by line and returns the result  *)
(* of the parser; the dump of a volume takes the output as it comes and    *)
(* writes it to a file that was filled in advance (fabs/dumpjob.py,        *)
(* _handle_vosdump).                                                       *)
(*                                                                         *)
(* The program prints when it likes, so that the output arrives cut        *)
(* anywhere.  It may fail half-way, be silent for too long, close its      *)
(* output and linger, or resist all signals.                               *)
(*                                                                         *)
(* Text is a sequence of pieces.  Each line is two pieces, the second of   *)
(* which ends with the newline; the last line may lack it.                 *)
(***************************************************************************)
EXTENDS Naturals, Sequences, FiniteSets

CONSTANTS
  Program,     \* what may be run: see ProgramAssumption
  ParseStart(_), ParseLines(_, _, _), ParseEnd(_, _), ParseResult(_, _),  \* the parser
  BufSize,     \* pieces that one read takes at most
  PipeSize,    \* pieces that the pipe holds
  Reserved,    \* size of the file that a dump is written to
  MayStick     \* whether a program may resist SIGKILL

ASSUME ProgramAssumption ==
  /\ \A p \in Program :
       /\ Len(p.lines) \in Nat
       /\ p.newline \in BOOLEAN \* the last line ends with a newline
       /\ p.code \in Nat        \* how the program exits if all goes well
       /\ p.ok \in BOOLEAN      \* the output is one that means p.wanted
  /\ {BufSize, PipeSize} \subseteq Nat \ {0}
  /\ Reserved \in Nat
  /\ MayStick \in BOOLEAN

VARIABLES
  prog,     \* the program
  child,    \* its process
  code,     \* how it exited
  stuck,    \* it does not exit, whatever happens
  ends,     \* the write ends of the pipes that it has not closed
  wrote,    \* pieces of stdout written so far
  told,     \* messages written to stderr so far
  pc,       \* where the cursor is
  open,     \* the read ends that are not at EOF
  read,     \* pieces of stdout read so far
  heard,    \* messages read from stderr so far
  part,     \* the incomplete line (_lastline)
  st,       \* the state of the parser
  file,     \* the file that a dump is written to
  calm,     \* all was read without an error (graceful)
  sent,     \* the last signal sent
  outcome   \* what became of the call

program == <<child, code, ends, wrote, told>>
input == <<open, read, heard, part, st, file>>
vars == <<prog, stuck, program, input, pc, calm, sent, outcome>>

Streams == {"out", "err"}
Failure == 1

-----------------------------------------------------------------------------
(***************************************************************************)
(* Text.                                                                   *)
(***************************************************************************)

Text(p) == [i \in 1 .. 2 * Len(p.lines) |-> <<(i + 1) \div 2, 2 - (i % 2)>>]
EndsLine(p, piece) == piece[2] = 2 /\ (piece[1] < Len(p.lines) \/ p.newline)

\* The complete lines of a text, and what is left of it.
Split(p, text) ==
  LET eols == {i \in DOMAIN text : EndsLine(p, text[i])}
      n == Cardinality(eols)
      eol(m) == IF m = 0 THEN 0
                ELSE CHOOSE i \in eols : Cardinality({j \in eols : j <= i}) = m
  IN  [lines |-> [m \in 1 .. n |-> SubSeq(text, eol(m - 1) + 1, eol(m))],
       part |-> SubSeq(text, eol(n) + 1, Len(text))]

\* The lines that are left at the end: the incomplete one is one of them.
LastLines(got) == got.lines \o (IF got.part = <<>> THEN <<>> ELSE <<got.part>>)

\* What the parser makes of lines i + 1 to j of all that p prints, from state s.
Fed(p, s, i, j) == ParseLines(p, s, SubSeq(LastLines(Split(p, Text(p))), i + 1, j))

\* What it makes of all of them, and the end.
Whole(p) ==
  ParseEnd(p, Fed(p, ParseStart(p), 0, Len(LastLines(Split(p, Text(p))))))

\* The parser takes one line after the other: it does not matter how many it is
\* given at a time.
ASSUME LinesAssumption ==
  \A p \in Program : p.cmd # "dump" =>
    LET fed(i) == Fed(p, ParseStart(p), 0, i)
    IN  /\ fed(0) = ParseStart(p)
        /\ \A j \in 0 .. Len(LastLines(Split(p, Text(p)))) : \A i \in 0 .. j :
             Fed(p, fed(i), i, j) = fed(j)

\* The parser is right on whole outputs: it makes of one that went well an error, or
\* what the output means.
ASSUME ParserAssumption ==
  \A p \in Program :
    p.cmd # "dump" /\ p.code = 0 /\ ~ Whole(p).err =>
      p.ok /\ ParseResult(p, Whole(p)) = p.wanted

\* Mutant of NewText: the incomplete line is not put before the text.
NewTextAlone(text) == Split(prog, text)

\* new_text.
NewText(text) == Split(prog, part \o text)

\* The reserved file, written from a place on.
Write(at, text) ==
  LET end == at + Len(text)
  IN  [i \in 1 .. (IF end > Len(file) THEN end ELSE Len(file)) |->
         IF i \in at + 1 .. end THEN text[i - at] ELSE file[i]]

-----------------------------------------------------------------------------
(***************************************************************************)
(* The program.                                                            *)
(***************************************************************************)

ByProgram(A) == A /\ UNCHANGED <<prog, stuck, input, pc, calm, sent, outcome>>

\* Once the cursor closed its ends, writing ends the program (SIGPIPE).
Output ==
  /\ "out" \in ends
  /\ wrote < 2 * Len(prog.lines)
  /\ wrote - read < PipeSize
  /\ pc \notin {"reap", "done"}
  /\ ByProgram(wrote' = wrote + 1 /\ UNCHANGED <<child, code, ends, told>>)

Complain ==
  /\ "err" \in ends
  /\ told = 0
  /\ ByProgram(told' = 1 /\ UNCHANGED <<child, code, ends, wrote>>)

Close(f) ==
  /\ f \in ends
  /\ wrote = 2 * Len(prog.lines)
  /\ ByProgram(ends' = ends \ {f} /\ UNCHANGED <<child, code, wrote, told>>)

Exit(c) ==
  ByProgram(/\ child' = "exited" /\ code' = c /\ ends' = {}
            /\ UNCHANGED <<wrote, told>>)

\* All went well, or something fails at any time.
Finish ==
  /\ child = "running" /\ ~ stuck
  /\ \/ wrote = 2 * Len(prog.lines) /\ Exit(prog.code)
     \/ Exit(Failure)

\* SIGTERM may be ignored.
Killed ==
  /\ child = "running" /\ ~ stuck
  /\ sent \in {"term", "kill"}
  /\ Exit(Failure)

-----------------------------------------------------------------------------
(***************************************************************************)
(* The cursor.                                                             *)
(***************************************************************************)

Start ==
  /\ pc = "start"
  /\ \/ /\ child' = "running" /\ ends' = Streams
        /\ pc' = "read"
        /\ UNCHANGED outcome
     \/ /\ pc' = "done" /\ outcome' = "error"
        /\ UNCHANGED <<child, ends>>
  /\ UNCHANGED <<prog, stuck, code, wrote, told, input, calm, sent>>

Waiting(f) == IF f = "out" THEN read < wrote ELSE heard < told
Ready == {f \in open : Waiting(f) \/ f \notin ends}
AtEof == {f \in Ready : ~ Waiting(f)}

\* Mutant of Chunk: a read returns as much as was asked for.
FullChunk ==
  LET n == IF "out" \notin open THEN 0 ELSE BufSize
  IN  [i \in 1 .. n |-> <<1, 1>>]

\* What one read of stdout returns.
Chunk ==
  LET n == IF "out" \notin open THEN 0
           ELSE IF wrote - read > BufSize THEN BufSize ELSE wrote - read
  IN  SubSeq(Text(prog), read + 1, read + n)

IsDump == prog.cmd = "dump"

\* What the parser makes of new lines; at the end it gets the incomplete line,
\* and is told.
Parsed(got, more) ==
  IF more THEN ParseLines(prog, st, got.lines)
  ELSE ParseEnd(prog, ParseLines(prog, st, LastLines(got)))

Parse(more) ==
  \E got \in {NewText(Chunk)} :
    /\ part' = IF more THEN got.part ELSE <<>>
    /\ st' = Parsed(got, more)
    /\ pc' = IF more /\ ~ st'.err THEN "read" ELSE "cleanup"
    /\ calm' = (~ more /\ ~ st'.err)
    /\ UNCHANGED file

Store(more) ==
  /\ file' = Write(read, Chunk)
  /\ pc' = IF more THEN "read" ELSE "cleanup"
  /\ calm' = ~ more
  /\ UNCHANGED <<part, st>>

\* _read_step: take what there is of each stream.
Read ==
  /\ pc = "read" /\ Ready # {}
  /\ open' = open \ AtEof
  /\ read' = read + Len(Chunk)
  /\ heard' = IF "err" \in Ready THEN told ELSE heard
  /\ IF IsDump THEN Store(open' # {}) ELSE Parse(open' # {})
  /\ UNCHANGED <<prog, stuck, program, sent, outcome>>

ByCursor(A) == A /\ UNCHANGED <<prog, stuck, program, input>>

\* Mutant of Timeout: wait for ever.
NoTimeout == FALSE

\* Nothing came for as long as the parser, or the caller, allows.
Timeout ==
  /\ pc = "read" /\ Ready = {}
  /\ ByCursor(pc' = "cleanup" /\ UNCHANGED <<calm, sent, outcome>>)

\* The caller of a dump fails: its job was changed by someone else.  It kills
\* the program only if that has exited.
Abandon ==
  /\ pc = "read" /\ IsDump /\ read > 0
  /\ ByCursor(pc' = "done" /\ outcome' = "abandoned" /\ UNCHANGED <<calm, sent>>)

\* Mutant of Cleanup: after an error the program is left alone.
CleanupIfCalm ==
  /\ pc = "cleanup"
  /\ ByCursor(/\ pc' = IF child = "exited" \/ ~ calm THEN "check" ELSE "nosig"
              /\ UNCHANGED <<calm, sent, outcome>>)

\* _cleanup_proc: after an error the program is killed at once.
Cleanup ==
  /\ pc = "cleanup"
  /\ ByCursor(/\ pc' = IF child = "exited" THEN "check"
                       ELSE IF calm THEN "nosig" ELSE "sigkill"
              /\ sent' = IF pc' = "sigkill" THEN "kill" ELSE sent
              /\ UNCHANGED <<calm, outcome>>)

\* _graceful_exit: wait for the program to exit, but not for long.
Await(here, next, signal) ==
  /\ pc = here
  /\ ByCursor(/\ pc' = IF child = "exited" THEN "check" ELSE next
              /\ sent' = IF child = "exited" THEN sent ELSE signal
              /\ UNCHANGED <<calm, outcome>>)

Impatience ==
  \/ Await("nosig", "sigterm", "term")
  \/ Await("sigterm", "sigkill", "kill")
  \/ Await("sigkill", "reap", "kill")

\* Leaving the block that owns the process waits for it, for ever if need be.
Reap ==
  /\ pc = "reap" /\ child = "exited"
  /\ ByCursor(pc' = "done" /\ outcome' = "error" /\ UNCHANGED <<calm, sent>>)

\* Mutant of Check: the code is not looked at.
CheckAnyCode ==
  /\ pc = "check"
  /\ pc' = "done"
  /\ outcome' = IF calm THEN "result" ELSE "error"
  /\ file' = IF IsDump /\ calm THEN SubSeq(file, 1, read) ELSE file
  /\ UNCHANGED <<prog, stuck, program, open, read, heard, part, st, calm, sent>>

\* Mutant of Check: the file keeps its reserved size.
CheckOnly ==
  /\ pc = "check"
  /\ pc' = "done"
  /\ outcome' = IF calm /\ code = 0 THEN "result" ELSE "error"
  /\ UNCHANGED <<prog, stuck, program, input, calm, sent>>

\* _check_retcode, the result, and the true size of the file.
Check ==
  /\ pc = "check"
  /\ pc' = "done"
  /\ outcome' = IF calm /\ code = 0 THEN "result" ELSE "error"
  /\ file' = IF IsDump /\ outcome' = "result" THEN SubSeq(file, 1, read) ELSE file
  /\ UNCHANGED <<prog, stuck, program, open, read, heard, part, st, calm, sent>>

-----------------------------------------------------------------------------

Init ==
  /\ prog \in Program
  /\ stuck \in (IF MayStick THEN BOOLEAN ELSE {FALSE})
  /\ child = "none" /\ code = 0 /\ ends = {}
  /\ wrote = 0 /\ told = 0
  /\ pc = "start"
  /\ open = Streams
  /\ read = 0 /\ heard = 0
  /\ part = <<>>
  /\ st = ParseStart(prog)
  /\ file = [i \in 1 .. (IF prog.cmd = "dump" THEN Reserved ELSE 0) |-> <<0, 0>>]
  /\ calm = FALSE
  /\ sent = "none"
  /\ outcome = "none"

ProgramStep == Output \/ Complain \/ (\E f \in Streams : Close(f)) \/ Finish \/ Killed

CursorStep ==
  Start \/ Read \/ Timeout \/ Cleanup \/ Impatience \/ Reap \/ Check

Next == ProgramStep \/ CursorStep \/ Abandon

Spec == Init /\ [][Next]_vars

\* The cursor goes on, time passes, and SIGKILL kills.  The program need not do
\* anything.
Fairness == WF_vars(CursorStep) /\ WF_vars(Killed /\ sent = "kill")

FairSpec == Spec /\ Fairness

-----------------------------------------------------------------------------
(***************************************************************************)
(* Properties.                                                             *)
(***************************************************************************)

\* The shape of the state.
TypeOK ==
  /\ child \in {"none", "running", "exited"} /\ code \in Nat /\ stuck \in BOOLEAN
  /\ ends \subseteq Streams /\ open \subseteq Streams
  /\ wrote \in 0 .. 2 * Len(prog.lines) /\ read \in 0 .. wrote
  /\ told \in 0 .. 1 /\ heard \in 0 .. told
  /\ pc \in {"start", "read", "cleanup", "nosig", "sigterm", "sigkill", "reap",
             "check", "done"}
  /\ calm \in BOOLEAN
  /\ sent \in {"none", "term", "kill"}
  /\ outcome \in {"none", "result", "error", "abandoned"}

\* A call returns a result only if the program printed all of its output and
\* exited with 0, whatever failed, timed out or was killed: what it read of the
\* output of a program that failed is never taken for the whole.
ResultIsWhole ==
  outcome = "result" =>
    /\ child = "exited" /\ code = 0
    /\ read = 2 * Len(prog.lines)

\* The result is what the program printed, however its output was cut into
\* reads; output that makes no sense gives no result.
ResultIsListing ==
  outcome = "result" /\ ~ IsDump => prog.ok /\ ParseResult(prog, st) = prog.wanted

\* The file of a dump holds exactly what the program printed, whatever size was
\* reserved for it.
DumpIsWhole == outcome = "result" /\ IsDump => file = Text(prog)

\* When a call is over, so is its program, unless a dump was abandoned.
NoOrphan == outcome \in {"result", "error"} => child # "running"

\* Every call ends, unless the program resists SIGKILL.
CallEnds == <>(outcome # "none" \/ stuck)

=============================================================================
