----------------------------- MODULE ChunkFiles -----------------------------
(***************************************************************************)
(* _chunk_files of the parser: the files of a pull request, in order, are  *)
(* grouped into chunks of at most MaxLines changed lines.  A file is the   *)
(* number of its changed lines; a chunk is the range of positions of its   *)
(* files in the input.                                                     *)
(***************************************************************************)
EXTENDS Integers, Sequences

CONSTANTS
  MaxLines,     \* MAX_CHUNK_LINES; 500 in parser/agent.py
  Inputs        \* the lists of files it may be given

ASSUME ChunkAssumption ==
  /\ MaxLines \in Nat
  /\ Inputs \subseteq Seq(Nat)

VARIABLES
  files,        \* the input
  next,         \* the file the loop is at
  chunks,       \* the chunks closed so far
  start,        \* current_files is files[start] .. files[next - 1]
  lines,        \* current_lines
  done

vars == <<files, next, chunks, start, lines, done>>

Init ==
  /\ files \in Inputs
  /\ next = 1
  /\ chunks = <<>>
  /\ start = 1
  /\ lines = 0
  /\ done = FALSE

\* The chunk current_files makes; of is total_chunks, set at the end.
CurrentChunk ==
  [index |-> Len(chunks), of |-> 0, first |-> start, last |-> next - 1, lines |-> lines]

\* Mutants of TooLong: a chunk may be closed empty; the limit is compared
\* before the file is counted; a chunk that would just fill up is closed.
TooLongEmptyToo == lines + files[next] > MaxLines
TooLongLate == lines > MaxLines /\ start < next
TooLongFull == lines + files[next] >= MaxLines /\ start < next

\* The file does not fit, and there is a chunk to close before it.
TooLong == lines + files[next] > MaxLines /\ start < next

AddFile ==
  /\ next <= Len(files)
  /\ ~TooLong
  /\ next' = next + 1
  /\ lines' = lines + files[next]
  /\ UNCHANGED <<files, chunks, start, done>>

\* Mutant of CloseChunk: current_lines is not reset.
CloseChunkKeepsLines ==
  /\ next <= Len(files)
  /\ TooLong
  /\ chunks' = Append(chunks, CurrentChunk)
  /\ start' = next
  /\ next' = next + 1
  /\ lines' = lines + files[next]
  /\ UNCHANGED <<files, done>>

CloseChunk ==
  /\ next <= Len(files)
  /\ TooLong
  /\ chunks' = Append(chunks, CurrentChunk)
  /\ start' = next
  /\ next' = next + 1
  /\ lines' = files[next]
  /\ UNCHANGED <<files, done>>

\* The last chunk, and total_chunks on all of them.
Finish ==
  /\ next > Len(files)
  /\ ~done
  /\ LET all == IF start < next THEN Append(chunks, CurrentChunk) ELSE chunks
     IN  chunks' = [i \in DOMAIN all |-> [all[i] EXCEPT !.of = Len(all)]]
  /\ done' = TRUE
  /\ UNCHANGED <<files, next, start, lines>>

Returned == done /\ UNCHANGED vars

Next == AddFile \/ CloseChunk \/ Finish \/ Returned

Spec == Init /\ [][Next]_vars

-----------------------------------------------------------------------------
(* Properties *)

Chunk == [index : Nat, of : Nat, first : Nat \ {0}, last : Nat, lines : Nat]

TypeOK ==
  /\ files \in Seq(Nat)
  /\ next \in 1 .. Len(files) + 1
  /\ chunks \in Seq(Chunk)
  /\ start \in 1 .. next
  /\ lines \in Nat
  /\ done \in BOOLEAN

\* The chunks cut the list of files in order: each starts where the one before
\* ended, none is empty, and together they reach the last file once the list is
\* returned, numbered from 0 and all knowing how many they are.
Partition ==
  /\ \A i \in 1 .. Len(chunks) :
       /\ chunks[i].first = (IF i = 1 THEN 1 ELSE chunks[i - 1].last + 1)
       /\ chunks[i].first <= chunks[i].last
       /\ chunks[i].index = i - 1
       /\ done => chunks[i].of = Len(chunks)
  /\ done =>
       Len(files) = (IF chunks = <<>> THEN 0 ELSE chunks[Len(chunks)].last)

\* A chunk exceeds the limit only when it is one file that does.
Bounded ==
  \A i \in 1 .. Len(chunks) :
    chunks[i].lines > MaxLines => chunks[i].first = chunks[i].last

\* No two neighbouring chunks would have fitted into one with the first file of
\* the second: the agents are not sent more chunks than the order requires.
Greedy ==
  \A i \in 2 .. Len(chunks) :
    chunks[i - 1].lines + files[chunks[i].first] > MaxLines

\* The changed lines of the first n files of a list, for every n.
LinesUpTo(list) ==
  LET total[n \in 0 .. Len(list)] == IF n = 0 THEN 0 ELSE total[n - 1] + list[n]
  IN  total

\* The changed lines of list[first] .. list[last].
LinesOf(list, first, last) == LinesUpTo(list)[last] - LinesUpTo(list)[first - 1]

\* total_lines is the number of changed lines of the chunk's files.
TotalsRight ==
  \A i \in 1 .. Len(chunks) :
    chunks[i].lines = LinesOf(files, chunks[i].first, chunks[i].last)

-----------------------------------------------------------------------------
(* The inductive invariant behind the properties *)

\* The files before start are in closed chunks, the others up to next are not.
FrontInv ==
  /\ ~done => start = (IF chunks = <<>> THEN 1 ELSE chunks[Len(chunks)].last + 1)
  /\ chunks # <<>> /\ ~done => start < next
  /\ next > 1 /\ ~done => start < next
  /\ done => next = Len(files) + 1

\* What current_lines says of the chunk that is open.
OpenInv ==
  /\ lines = LinesOf(files, start, next - 1)
  /\ start = next => lines = 0
  /\ lines > MaxLines => start + 1 >= next
  /\ chunks # <<>> /\ ~done => chunks[Len(chunks)].lines + files[start] > MaxLines

IInv ==
  TypeOK /\ Partition /\ Bounded /\ Greedy /\ TotalsRight /\ FrontInv /\ OpenInv
=============================================================================
