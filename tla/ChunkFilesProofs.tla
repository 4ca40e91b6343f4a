-------------------------- MODULE ChunkFilesProofs --------------------------
(***************************************************************************)
(* Proofs about ChunkFiles for every limit and every list of files.        *)
(***************************************************************************)
EXTENDS ChunkFiles, SequenceTheorems, WellFoundedInduction, TLAPS

\* A non-empty set of natural numbers has a least element.
LEMMA LeastNat ==
  ASSUME NEW T \in SUBSET Nat, T # {}
  PROVE  \E x \in T : \A y \in T : x <= y
<1> DEFINE R == OpToRel(<, Nat)
<1>1. IsWellFoundedOn(R, Nat)
  BY NatLessThanWellFounded
<1>2. \A x, y \in Nat : y < x => <<y, x>> \in R
  BY DEF OpToRel
<1> HIDE DEF R
<1>3. PICK x \in T : \A y \in T : ~ (<<y, x>> \in R)
  <2>1. T \subseteq Nat
   OBVIOUS
  <2> QED BY <1>1, <2>1, WFMin, Zenon
<1>4. \A y \in T : ~ (y < x)
  BY <1>2, <1>3
<1> QED
  BY <1>3, <1>4

\* Induction, over a set of natural numbers.
LEMMA SetInduction ==
  ASSUME NEW S \in SUBSET Nat, 0 \in S, \A n \in S : n + 1 \in S
  PROVE  S = Nat
<1> SUFFICES ASSUME Nat \ S # {} PROVE FALSE
  OBVIOUS
<1>1. PICK x \in Nat \ S : \A y \in Nat \ S : x <= y
  BY LeastNat
<1>2. x - 1 \in S
  BY <1>1
<1> QED
  BY <1>1, <1>2

\* Every list has running totals.
LEMMA TotalsExist ==
  ASSUME NEW list \in Seq(Nat)
  PROVE  \E s \in [0 .. Len(list) -> Nat] :
           s[0] = 0 /\ \A i \in 1 .. Len(list) : s[i] = s[i - 1] + list[i]
<1> DEFINE Sums(s, n) == s[0] = 0 /\ \A i \in 1 .. n : s[i] = s[i - 1] + list[i]
           S == {n \in Nat : n <= Len(list) => \E s \in [0 .. n -> Nat] : Sums(s, n)}
<1>1. Len(list) \in Nat /\ \A i \in 1 .. Len(list) : list[i] \in Nat
  OBVIOUS
<1>2. 0 \in S
  <2>1. [i \in 0 .. 0 |-> 0] \in [0 .. 0 -> Nat] /\ Sums([i \in 0 .. 0 |-> 0], 0)
    OBVIOUS
  <2> QED
    BY <2>1, Zenon
<1>3. ASSUME NEW n \in S PROVE n + 1 \in S
  <2>0. n \in Nat /\ n + 1 \in Nat
    BY SMT
  <2> SUFFICES ASSUME n + 1 <= Len(list)
               PROVE  \E s \in [0 .. n + 1 -> Nat] : Sums(s, n + 1)
    BY <2>0, Zenon
  <2>01. n <= Len(list)
    BY <1>1, <2>0
  <2>1. PICK s \in [0 .. n -> Nat] : Sums(s, n)
    BY <2>01, Zenon
  <2> DEFINE t == [i \in 0 .. n + 1 |-> IF i = n + 1 THEN s[n] + list[n + 1] ELSE s[i]]
  <2>2. t \in [0 .. n + 1 -> Nat]
    BY <1>1, <2>0, <2>1
  <2>3. t[0] = 0
    BY <2>0, <2>1
  <2>4. ASSUME NEW i \in 1 .. n + 1 PROVE t[i] = t[i - 1] + list[i]
    BY <2>0, <2>1
  <2> HIDE DEF t
  <2> QED
    BY <2>2, <2>3, <2>4
<1> HIDE DEF Sums
<1>4. S = Nat
  <2>1. S \in SUBSET Nat
    OBVIOUS
  <2> HIDE DEF S
  <2> QED
    BY <1>2, <1>3, <2>1, SetInduction
<1>5. Len(list) \in S
  BY <1>1, <1>4
<1> QED
  BY <1>1, <1>5 DEF Sums

\* LinesUpTo has the values its definition asks for: they exist, by induction.
LEMMA LinesUpToDef ==
  ASSUME NEW list \in Seq(Nat)
  PROVE  /\ LinesUpTo(list) \in [0 .. Len(list) -> Nat]
         /\ LinesUpTo(list)[0] = 0
         /\ \A i \in 1 .. Len(list) :
              LinesUpTo(list)[i] = LinesUpTo(list)[i - 1] + list[i]
<1> DEFINE F(s) == [n \in 0 .. Len(list) |-> IF n = 0 THEN 0 ELSE s[n - 1] + list[n]]
<1>1. Len(list) \in Nat /\ \A i \in 1 .. Len(list) : list[i] \in Nat
  OBVIOUS
<1>2. LinesUpTo(list) = CHOOSE s : s = F(s)
  BY DEF LinesUpTo
<1>3. \E s : s = F(s)
  <2>1. PICK s \in [0 .. Len(list) -> Nat] :
          s[0] = 0 /\ \A i \in 1 .. Len(list) : s[i] = s[i - 1] + list[i]
    BY TotalsExist
  <2>2. \A n \in 0 .. Len(list) : n = 0 \/ n \in 1 .. Len(list)
    BY <1>1
  <2>3. \A n \in 0 .. Len(list) : s[n] = F(s)[n]
    BY <2>1, <2>2
  <2>4. s = F(s)
    BY <2>1, <2>3
  <2> QED
    BY <2>4
<1> DEFINE s == LinesUpTo(list)
<1>4. s = F(s)
  BY <1>2, <1>3, Zenon
<1> HIDE DEF s
<1>5. s[0] = 0 /\ \A i \in 1 .. Len(list) : s[i] = s[i - 1] + list[i]
  BY <1>1, <1>4
<1>6. \A i \in 0 .. Len(list) : s[i] \in Nat
  <2> DEFINE S == {n \in Nat : n <= Len(list) => s[n] \in Nat}
  <2>1. 0 \in S
    BY <1>5
  <2>2. ASSUME NEW n \in S PROVE n + 1 \in S
    BY <1>1, <1>5
  <2>3. S = Nat
    BY <2>1, <2>2, SetInduction
  <2> QED
    BY <1>1, <2>3
<1>7. s \in [0 .. Len(list) -> Nat]
  BY <1>4, <1>6
<1> QED
  BY <1>5, <1>7 DEF s

\* The lines of a range of files, with none and with one more file.
LEMMA LinesOfDef ==
  ASSUME files \in Seq(Nat), NEW k \in 1 .. Len(files) + 1
  PROVE  /\ LinesOf(files, k, k - 1) = 0
         /\ \A n \in k .. Len(files) : LinesOf(files, k, n) = LinesOf(files, k, n - 1) + files[n]
         /\ k <= Len(files) => LinesOf(files, k, k) = files[k]
<1> DEFINE s == LinesUpTo(files)
<1>1. Len(files) \in Nat /\ \A i \in 1 .. Len(files) : files[i] \in Nat
  OBVIOUS
<1>2. /\ \A i \in 0 .. Len(files) : s[i] \in Nat
      /\ \A i \in 1 .. Len(files) : s[i] = s[i - 1] + files[i]
  BY LinesUpToDef
<1>3. \A a, b : LinesOf(files, a, b) = s[b] - s[a - 1]
  BY DEF LinesOf
<1> HIDE DEF s
<1>4. k - 1 \in 0 .. Len(files) /\ s[k - 1] \in Nat
  BY <1>1, <1>2
<1>5. LinesOf(files, k, k - 1) = 0
  BY <1>3, <1>4
<1>6. ASSUME NEW n \in k .. Len(files)
      PROVE  LinesOf(files, k, n) = LinesOf(files, k, n - 1) + files[n]
  <2>1. n \in 1 .. Len(files) /\ n - 1 \in 0 .. Len(files)
    BY <1>1
  <2>2. s[n] = s[n - 1] + files[n] /\ s[n - 1] \in Nat /\ files[n] \in Nat
    BY <1>1, <1>2, <2>1
  <2>3. LinesOf(files, k, n) = s[n] - s[k - 1] /\ LinesOf(files, k, n - 1) = s[n - 1] - s[k - 1]
    BY <1>3
  <2> QED
    BY <1>4, <2>2, <2>3
<1>7. k <= Len(files) => LinesOf(files, k, k) = files[k]
  <2> SUFFICES ASSUME k <= Len(files) PROVE LinesOf(files, k, k) = files[k]
    OBVIOUS
  <2>1. k \in k .. Len(files) /\ files[k] \in Nat
    BY <1>1
  <2> QED
    BY <1>5, <1>6, <2>1
<1> QED
  BY <1>5, <1>6, <1>7

\* The inductive invariant holds before the loop.
LEMMA InitIInv == Init => IInv
<1> SUFFICES ASSUME Init PROVE IInv
  OBVIOUS
<1>1. files \in Seq(Nat) /\ Len(files) \in Nat
  BY ChunkAssumption DEF Init
<1>2. Len(<<>>) = 0 /\ <<>> \in Seq(Chunk)
  BY EmptySeq
<1>3. TypeOK
  <2>1. chunks \in Seq(Chunk)
    BY <1>2, Zenon DEF Init
  <2>2. next = 1 /\ start = 1 /\ lines = 0 /\ done \in BOOLEAN
    BY DEF Init
  <2>3. next \in 1 .. Len(files) + 1 /\ start \in 1 .. next /\ lines \in Nat
    BY <1>1, <2>2
  <2> QED
    BY <1>1, <2>1, <2>2, <2>3 DEF TypeOK
<1>4. Partition /\ Bounded /\ Greedy /\ TotalsRight
  BY <1>2 DEF Init, Partition, Bounded, Greedy, TotalsRight
<1>5. FrontInv /\ OpenInv
  <2>1. LinesOf(files, 1, 0) = 0
    <3>1. 1 \in 1 .. Len(files) + 1 /\ 1 - 1 = 0
      BY <1>1
    <3> QED
      BY <1>1, <3>1, LinesOfDef
  <2> QED
    BY <2>1, ChunkAssumption DEF Init, FrontInv, OpenInv
<1> QED
  BY <1>3, <1>4, <1>5 DEF IInv

\* A file that joins the open chunk: nothing that is closed changes.
LEMMA AddFileStep ==
  ASSUME IInv, AddFile
  PROVE  IInv'
<1> USE ChunkAssumption DEF IInv
<1>1. /\ next <= Len(files) /\ ~TooLong
      /\ next' = next + 1 /\ lines' = lines + files[next]
      /\ files' = files /\ chunks' = chunks /\ start' = start /\ done' = done
  BY DEF AddFile
<1>2. /\ next \in 1 .. Len(files) /\ Len(files) \in Nat /\ files[next] \in Nat
      /\ start \in Nat /\ start >= 1 /\ start <= next /\ lines \in Nat /\ ~done
  BY <1>1 DEF TypeOK, FrontInv
<1>3. TypeOK'
  BY <1>1, <1>2 DEF TypeOK
<1>4. Partition' /\ Bounded' /\ Greedy' /\ TotalsRight'
  BY <1>1 DEF Partition, Bounded, Greedy, TotalsRight
<1>5. FrontInv'
  <2>1. chunks # <<>> \/ next > 1 \/ start = 1
    BY <1>2
  <2> QED
    BY <1>1, <1>2 DEF FrontInv
<1>6. OpenInv'
  <2>1. lines' = LinesOf(files, start, next)
    <3>1. start \in 1 .. Len(files) + 1 /\ next \in start .. Len(files) /\ files \in Seq(Nat)
      BY <1>1, <1>2 DEF TypeOK
    <3>2. LinesOf(files, start, next) = LinesOf(files, start, next - 1) + files[next]
      BY <3>1, LinesOfDef
    <3> QED
      BY <1>1, <3>2 DEF OpenInv
  <2>2. lines' = LinesOf(files', start', next' - 1)
    BY <1>1, <1>2, <2>1
  <2> QED
    BY <1>1, <1>2, <2>2 DEF OpenInv, TooLong
<1> QED
  BY <1>3, <1>4, <1>5, <1>6

\* The open chunk is closed: it starts after the last one and what exceeds the
\* limit in it is one file.
LEMMA CloseChunkStep ==
  ASSUME IInv, CloseChunk
  PROVE  IInv'
<1> USE ChunkAssumption DEF IInv
<1> DEFINE c == CurrentChunk
<1>1. /\ next <= Len(files) /\ lines + files[next] > MaxLines /\ start < next
      /\ chunks' = Append(chunks, c) /\ start' = next /\ next' = next + 1
      /\ lines' = files[next] /\ files' = files /\ done' = done
  BY DEF CloseChunk, TooLong
<1>2. /\ next \in 1 .. Len(files) /\ Len(files) \in Nat /\ files[next] \in Nat
      /\ start \in Nat /\ start >= 1 /\ lines \in Nat /\ ~done
      /\ chunks \in Seq(Chunk) /\ Len(chunks) \in Nat
  <2>1. /\ files \in Seq(Nat) /\ chunks \in Seq(Chunk)
        /\ next \in 1 .. Len(files) + 1 /\ start \in 1 .. next /\ lines \in Nat
    BY DEF TypeOK
  <2>2. Len(files) \in Nat /\ Len(chunks) \in Nat
    BY <2>1
  <2>3. next \in 1 .. Len(files) /\ start \in Nat /\ start >= 1
    BY <1>1, <2>1, <2>2
  <2>4. files[next] \in Nat
    BY <2>1, <2>3
  <2>5. ~done
    BY <1>1, <2>3, <2>2 DEF FrontInv
  <2> QED
    BY <2>1, <2>2, <2>3, <2>4, <2>5
<1>3. /\ c \in Chunk /\ c.index = Len(chunks) /\ c.first = start /\ c.last = next - 1
      /\ c.lines = lines
  BY <1>1, <1>2 DEF CurrentChunk, Chunk
<1> HIDE DEF c
<1>4. /\ Len(chunks') = Len(chunks) + 1 /\ chunks'[Len(chunks) + 1] = c
      /\ \A i \in 1 .. Len(chunks) : chunks'[i] = chunks[i]
      /\ chunks' \in Seq(Chunk) /\ chunks' # <<>>
  BY <1>1, <1>2, <1>3
<1>5. TypeOK'
  BY <1>1, <1>2, <1>4 DEF TypeOK
<1>6. Partition'
  <2> SUFFICES ASSUME NEW i \in 1 .. Len(chunks) + 1
               PROVE  /\ chunks'[i].first = (IF i = 1 THEN 1 ELSE chunks'[i - 1].last + 1)
                      /\ chunks'[i].first <= chunks'[i].last
                      /\ chunks'[i].index = i - 1
    <3>1. ~done' /\ Len(chunks') = Len(chunks) + 1
      BY <1>1, <1>2, <1>4
    <3> QED
      BY <3>1 DEF Partition
  <2>1. CASE i \in 1 .. Len(chunks)
    <3>1. i # 1 => i - 1 \in 1 .. Len(chunks)
      BY <1>2, <2>1
    <3>2. chunks'[i] = chunks[i] /\ (i # 1 => chunks'[i - 1] = chunks[i - 1])
      BY <1>4, <2>1, <3>1
    <3> QED
      BY <2>1, <3>2 DEF Partition
  <2>2. CASE i = Len(chunks) + 1
    <3>1. start = (IF chunks = <<>> THEN 1 ELSE chunks[Len(chunks)].last + 1)
      BY <1>2 DEF FrontInv
    <3>2. chunks = <<>> <=> Len(chunks) = 0
      BY <1>2
    <3> QED
      BY <1>1, <1>2, <1>3, <1>4, <2>2, <3>1, <3>2
  <2> QED
    BY <1>2, <2>1, <2>2
<1>7. Bounded'
  <2> SUFFICES ASSUME NEW i \in 1 .. Len(chunks) + 1
               PROVE  chunks'[i].lines > MaxLines => chunks'[i].first = chunks'[i].last
    BY <1>4 DEF Bounded
  <2>1. CASE i \in 1 .. Len(chunks)
    BY <1>4, <2>1 DEF Bounded
  <2>2. CASE i = Len(chunks) + 1
    BY <1>1, <1>2, <1>3, <1>4, <2>2 DEF OpenInv
  <2> QED
    BY <1>2, <2>1, <2>2
<1>8. Greedy'
  <2> SUFFICES ASSUME NEW i \in 2 .. Len(chunks) + 1
               PROVE  chunks'[i - 1].lines + files[chunks'[i].first] > MaxLines
    BY <1>1, <1>4 DEF Greedy
  <2>1. CASE i \in 2 .. Len(chunks)
    <3>1. i - 1 \in 1 .. Len(chunks) /\ i \in 1 .. Len(chunks)
      BY <1>2, <2>1
    <3>2. chunks'[i] = chunks[i] /\ chunks'[i - 1] = chunks[i - 1]
      BY <1>4, <3>1
    <3> QED
      BY <2>1, <3>2 DEF Greedy
  <2>2. CASE i = Len(chunks) + 1
    <3>1. chunks # <<>> /\ chunks'[i - 1] = chunks[Len(chunks)]
      BY <1>2, <1>4, <2>2
    <3>2. chunks[Len(chunks)].lines + files[start] > MaxLines
      BY <1>2, <3>1 DEF OpenInv
    <3> QED
      BY <1>3, <1>4, <2>2, <3>1, <3>2
  <2> QED
    BY <1>2, <2>1, <2>2
<1>9. FrontInv'
  BY <1>1, <1>2, <1>3, <1>4 DEF FrontInv
<1>10. OpenInv'
  <2>1. LinesOf(files, next, next) = files[next]
    <3>1. next \in 1 .. Len(files) + 1 /\ files \in Seq(Nat)
      BY <1>2 DEF TypeOK
    <3> QED
      BY <1>1, <3>1, LinesOfDef
  <2>2. lines' = LinesOf(files', start', next' - 1)
    BY <1>1, <1>2, <2>1
  <2> QED
    BY <1>1, <1>2, <1>3, <1>4, <2>2 DEF OpenInv
<1>11. TotalsRight'
  <2> SUFFICES ASSUME NEW i \in 1 .. Len(chunks) + 1
               PROVE  chunks'[i].lines = LinesOf(files, chunks'[i].first, chunks'[i].last)
    BY <1>1, <1>4 DEF TotalsRight
  <2>1. CASE i \in 1 .. Len(chunks)
    BY <1>4, <2>1 DEF TotalsRight
  <2>2. CASE i = Len(chunks) + 1
    BY <1>3, <1>4, <2>2 DEF OpenInv
  <2> QED
    BY <1>2, <2>1, <2>2
<1> QED
  BY <1>5, <1>6, <1>7, <1>8, <1>9, <1>10, <1>11

\* The list is returned: the last chunk is closed, and all learn their number.
LEMMA FinishStep ==
  ASSUME IInv, Finish
  PROVE  IInv'
<1> USE ChunkAssumption DEF IInv
<1> DEFINE c == CurrentChunk
           all == IF start < next THEN Append(chunks, c) ELSE chunks
<1>1. /\ next > Len(files) /\ ~done /\ done' = TRUE
      /\ chunks' = [i \in DOMAIN all |-> [all[i] EXCEPT !.of = Len(all)]]
      /\ files' = files /\ next' = next /\ start' = start /\ lines' = lines
  BY DEF Finish
<1>2. /\ next = Len(files) + 1 /\ Len(files) \in Nat /\ next \in Nat
      /\ start \in Nat /\ start >= 1 /\ start <= next /\ lines \in Nat
      /\ chunks \in Seq(Chunk) /\ Len(chunks) \in Nat
      /\ \A i \in 1 .. Len(chunks) : chunks[i] \in Chunk
  BY <1>1 DEF TypeOK
<1>3. start < next => /\ c \in Chunk /\ c.index = Len(chunks) /\ c.first = start
                      /\ c.last = next - 1 /\ c.lines = lines
  BY <1>2 DEF CurrentChunk, Chunk
<1> HIDE DEF c
<1>4. /\ all \in Seq(Chunk) /\ Len(all) \in Nat /\ DOMAIN all = 1 .. Len(all)
      /\ \A i \in 1 .. Len(all) : all[i] \in Chunk
  <2>1. all \in Seq(Chunk)
    BY <1>2, <1>3
  <2> QED
    BY <2>1
<1>5. /\ Len(all) = IF start < next THEN Len(chunks) + 1 ELSE Len(chunks)
      /\ \A i \in 1 .. Len(chunks) : all[i] = chunks[i]
      /\ start < next => all[Len(chunks) + 1] = c
  BY <1>2, <1>3
<1> HIDE DEF all
<1>6. \A i \in 1 .. Len(all) :
        /\ chunks'[i] \in Chunk
        /\ chunks'[i].of = Len(all) /\ chunks'[i].index = all[i].index
        /\ chunks'[i].first = all[i].first /\ chunks'[i].last = all[i].last
        /\ chunks'[i].lines = all[i].lines
  BY <1>1, <1>4 DEF Chunk
<1>7. chunks' \in Seq(Chunk) /\ Len(chunks') = Len(all)
  <2>1. chunks' \in [1 .. Len(all) -> Chunk]
    BY <1>1, <1>4, <1>6
  <2> QED
    BY <1>4, <2>1
<1>8. TypeOK'
  BY <1>1, <1>7 DEF TypeOK
<1>9. Partition'
  <2>1. \A i \in 1 .. Len(all) :
          /\ all[i].first = (IF i = 1 THEN 1 ELSE all[i - 1].last + 1)
          /\ all[i].first <= all[i].last
          /\ all[i].index = i - 1
    <3> SUFFICES ASSUME NEW i \in 1 .. Len(all)
                 PROVE  /\ all[i].first = (IF i = 1 THEN 1 ELSE all[i - 1].last + 1)
                        /\ all[i].first <= all[i].last
                        /\ all[i].index = i - 1
      OBVIOUS
    <3>1. CASE i \in 1 .. Len(chunks)
      <4>1. i # 1 => i - 1 \in 1 .. Len(chunks)
        BY <1>2, <3>1
      <4>2. all[i] = chunks[i] /\ (i # 1 => all[i - 1] = chunks[i - 1])
        BY <1>5, <3>1, <4>1
      <4> QED
        BY <3>1, <4>2 DEF Partition
    <3>2. CASE i = Len(chunks) + 1 /\ start < next
      <4>1. start = (IF chunks = <<>> THEN 1 ELSE chunks[Len(chunks)].last + 1)
        BY <1>1 DEF FrontInv
      <4>2. chunks = <<>> <=> Len(chunks) = 0
        BY <1>2
      <4>3. Len(chunks) # 0 => all[i - 1] = chunks[Len(chunks)]
        BY <1>2, <1>5, <3>2
      <4> QED
        BY <1>2, <1>3, <1>5, <3>2, <4>1, <4>2, <4>3
    <3> QED
      BY <1>2, <1>5, <3>1, <3>2
  <2>2. Len(files) = (IF chunks' = <<>> THEN 0 ELSE chunks'[Len(chunks')].last)
    <3>1. CASE start < next
      <4>1. Len(all) = Len(chunks) + 1 /\ Len(all) \in 1 .. Len(all) /\ all[Len(all)] = c
        BY <1>2, <1>5, <3>1
      <4>2. chunks' # <<>> /\ chunks'[Len(chunks')].last = c.last
        BY <1>6, <1>7, <4>1
      <4> QED
        BY <1>2, <1>3, <3>1, <4>2
    <3>2. CASE ~(start < next)
      <4>1. chunks = <<>> /\ next = 1
        BY <1>1, <1>2, <3>2 DEF FrontInv
      <4>2. Len(chunks') = 0
        BY <1>5, <1>7, <3>2, <4>1, EmptySeq
      <4>3. chunks' = <<>>
        BY <1>7, <4>2, EmptySeq
      <4> QED
        BY <1>2, <4>1, <4>3
    <3> QED
      BY <3>1, <3>2
  <2>3. \A i \in 1 .. Len(all) :
          chunks'[i].first = (IF i = 1 THEN 1 ELSE chunks'[i - 1].last + 1)
    <3> SUFFICES ASSUME NEW i \in 1 .. Len(all)
                 PROVE  chunks'[i].first = (IF i = 1 THEN 1 ELSE chunks'[i - 1].last + 1)
      OBVIOUS
    <3>1. i # 1 => i - 1 \in 1 .. Len(all)
      BY <1>4
    <3> QED
      BY <1>6, <2>1, <3>1
  <2> QED
    BY <1>1, <1>6, <1>7, <2>1, <2>2, <2>3 DEF Partition
<1>10. Bounded'
  <2> SUFFICES ASSUME NEW i \in 1 .. Len(all)
               PROVE  all[i].lines > MaxLines => all[i].first = all[i].last
    BY <1>6, <1>7 DEF Bounded
  <2>1. CASE i \in 1 .. Len(chunks)
    BY <1>5, <2>1 DEF Bounded
  <2>2. CASE i = Len(chunks) + 1 /\ start < next
    BY <1>2, <1>3, <1>5, <2>2 DEF OpenInv
  <2> QED
    BY <1>2, <1>5, <2>1, <2>2
<1>11. Greedy'
  <2> SUFFICES ASSUME NEW i \in 2 .. Len(all)
               PROVE  all[i - 1].lines + files[all[i].first] > MaxLines
    <3>1. \A i \in 2 .. Len(all) : i \in 1 .. Len(all) /\ i - 1 \in 1 .. Len(all)
      BY <1>4
    <3> QED
      BY <1>1, <1>6, <1>7, <3>1 DEF Greedy
  <2>1. CASE i \in 2 .. Len(chunks)
    <3>1. i - 1 \in 1 .. Len(chunks) /\ i \in 1 .. Len(chunks)
      BY <1>2, <2>1
    <3> QED
      BY <1>5, <2>1, <3>1 DEF Greedy
  <2>2. CASE i = Len(chunks) + 1 /\ start < next
    <3>1. chunks # <<>> /\ all[i - 1] = chunks[Len(chunks)]
      BY <1>2, <1>5, <2>2
    <3> QED
      BY <1>1, <1>3, <1>5, <2>2, <3>1 DEF OpenInv
  <2> QED
    BY <1>2, <1>5, <2>1, <2>2
<1>12. FrontInv' /\ OpenInv'
  BY <1>1, <1>2 DEF FrontInv, OpenInv
<1>13. TotalsRight'
  <2> SUFFICES ASSUME NEW i \in 1 .. Len(all)
               PROVE  all[i].lines = LinesOf(files, all[i].first, all[i].last)
    BY <1>1, <1>6, <1>7 DEF TotalsRight
  <2>1. CASE i \in 1 .. Len(chunks)
    BY <1>5, <2>1 DEF TotalsRight
  <2>2. CASE i = Len(chunks) + 1 /\ start < next
    BY <1>3, <1>5, <2>2 DEF OpenInv
  <2> QED
    BY <1>2, <1>5, <2>1, <2>2
<1> QED
  BY <1>8, <1>9, <1>10, <1>11, <1>12, <1>13

\* IInv is inductive.
LEMMA NextIInv == IInv /\ [Next]_vars => IInv'
<1> SUFFICES ASSUME IInv, [Next]_vars PROVE IInv'
  OBVIOUS
<1>1. CASE UNCHANGED vars
  BY <1>1 DEF vars, IInv, TypeOK, Partition, Bounded, Greedy, TotalsRight, FrontInv,
              OpenInv
<1> QED
  BY <1>1, AddFileStep, CloseChunkStep, FinishStep DEF Next, Returned

\* The chunks closed so far and the open one are consecutive, within the limit
\* and filled, at every turn of the loop of _chunk_files, for any list and limit.
THEOREM ChunksInvariant == Spec => []IInv
  BY InitIInv, NextIInv, PTL DEF Spec

\* The chunks cut the list of files in order, without gap, overlap or remainder.
THEOREM ChunksPartition == Spec => [](TypeOK /\ Partition)
<1>1. IInv => TypeOK /\ Partition
  BY DEF IInv
<1> QED
  BY <1>1, InitIInv, NextIInv, PTL DEF Spec

\* No chunk of several files exceeds the limit of lines.
THEOREM ChunksBounded == Spec => []Bounded
<1>1. IInv => Bounded
  BY DEF IInv
<1> QED
  BY <1>1, ChunksInvariant, PTL

\* No chunk could have taken the first file of the next one.
THEOREM ChunksFilled == Spec => []Greedy
<1>1. IInv => Greedy
  BY DEF IInv
<1> QED
  BY <1>1, ChunksInvariant, PTL

\* total_lines of every chunk is the number of changed lines of its files.
THEOREM ChunksTotals == Spec => []TotalsRight
<1>1. IInv => TotalsRight
  BY DEF IInv
<1> QED
  BY <1>1, ChunksInvariant, PTL
=============================================================================
