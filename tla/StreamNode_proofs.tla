-------------------------- MODULE StreamNode_proofs -------------------------
(***************************************************************************)
(* Lemmas about the operators of a node, for every geometry of windows and *)
(* lanes and every FEC ratio, on which the proofs of all modules that use  *)
(* these rest.  They go up through the layers of a node.                   *)
(*                                                                         *)
(* The reorder buffer of ContinuousStreamDecoder: chunks up to K were      *)
(* sent, K is below the period, and chunk c + 1 comes under index c.  What *)
(* process_symbol queues and the loop over get_chunk takes out keeps the   *)
(* buffer so, and what the loop takes out is the next chunks in order.     *)
(*                                                                         *)
(* ContinuousStreamEncoder and the FEC encoder in it: what adding,         *)
(* encoding and acknowledging keep of the window and of the counts, what a *)
(* recovery packet says of the chunks it protects, what the window         *)
(* protects, and how the two counters of a segment keep the ratio.         *)
(*                                                                         *)
(* The FEC decoder: each operator keeps it good (the sections up to        *)
(* "Recovering"), and so does process_symbol with the buffer above it.     *)
(*                                                                         *)
(* The handler: what it takes out is the next of the stream, and the       *)
(* symbols it makes of that tell the truth about the stream.               *)
(***************************************************************************)
EXTENDS StreamNode, IntegerFacts, SequenceTheorems, FunctionTheorems,
        FiniteSetTheorems, TLAPS

-----------------------------------------------------------------------------
(***************************************************************************)
(* A number below the period is its own residue.                           *)
(***************************************************************************)
LEMMA SmallResidue ==
  ASSUME NEW x \in Column
  PROVE  x % ColumnPeriod = x
BY ColumnPeriodAssumption DEF Column

-----------------------------------------------------------------------------
(* The reorder buffer                                                      *)

(***************************************************************************)
(* Under an index, only the chunk of that index waits.                     *)
(***************************************************************************)
QueuesHoldTheirChunk(b) ==
  \A c \in Column : \A i \in 1 .. Len(b.ahead[c]) : b.ahead[c][i] = c + 1

\* What is expected to hold of a buffer when the chunks up to K are sent.
GoodBuffer(b, K) ==
  /\ b \in ReorderBuffers(1 .. K)
  /\ QueuesHoldTheirChunk(b)
  /\ b.next =< K

(***************************************************************************)
(* A symbol brings a chunk, of those up to K, under its own index.         *)
(***************************************************************************)
AreOwnSymbols(symbols, K) ==
  \A s \in symbols : s[2] \in 1 .. K /\ s[2] = s[1] + 1

(***************************************************************************)
(* process_original_chunk queues every chunk under its own index.          *)
(***************************************************************************)
LEMMA ProcessKeepsQueues ==
  ASSUME NEW K \in Nat, NEW b, GoodBuffer(b, K),
         NEW symbols, AreOwnSymbols(symbols, K)
  PROVE  /\ GoodBuffer(ProcessOriginalChunks(b, symbols), K)
         /\ ProcessOriginalChunks(b, symbols).next = b.next
<1> USE DEF GoodBuffer
<1> DEFINE Queued(c) == {s \in symbols : s[1] = c /\ c >= b.next}
           Push(c)   == IF Queued(c) = {} THEN b.ahead[c]
                        ELSE Append(b.ahead[c],
                                    (CHOOSE s \in Queued(c) : TRUE)[2])
           Ahead     == [c \in Column |-> Push(c)]
<1>1. ProcessOriginalChunks(b, symbols) = [b EXCEPT !.ahead = Ahead]
  BY DEF ProcessOriginalChunks
<1>2. ASSUME NEW c \in Column
      PROVE  /\ Push(c) \in Seq(1 .. K)
             /\ \A i \in 1 .. Len(Push(c)) : Push(c)[i] = c + 1
  <2>1. b.ahead[c] \in Seq(1 .. K)
    BY DEF ReorderBuffers
  <2>2. \A i \in 1 .. Len(b.ahead[c]) : b.ahead[c][i] = c + 1
    BY DEF QueuesHoldTheirChunk
  <2>3. CASE Queued(c) = {}
    BY <2>1, <2>2, <2>3
  <2>4. CASE Queued(c) # {}
    <3>1. PICK s : s = (CHOOSE x \in Queued(c) : TRUE)
      OBVIOUS
    <3>2. s \in symbols /\ s[1] = c
      BY <2>4, <3>1
    <3>3. s[2] \in 1 .. K /\ s[2] = c + 1
      BY <3>2 DEF AreOwnSymbols
    <3>4. Push(c) = Append(b.ahead[c], s[2])
      BY <2>4, <3>1
    <3> DEFINE q == b.ahead[c]
               all == Append(q, s[2])
    <3>5. q \in Seq(1 .. K) /\ \A i \in 1 .. Len(q) : q[i] = c + 1
      BY <2>1, <2>2
    <3> HIDE DEF Push, q
    <3>6. /\ all \in Seq(1 .. K)
          /\ Len(all) = Len(q) + 1
          /\ \A i \in 1 .. Len(q) : all[i] = q[i]
          /\ all[Len(q) + 1] = s[2]
      BY <3>3, <3>5, AppendProperties
    <3>7. Push(c) = all /\ Len(q) \in Nat
      BY <3>4, <3>5 DEF q
    <3> HIDE DEF all
    <3>8. ASSUME NEW i \in 1 .. Len(q) + 1 PROVE all[i] = c + 1
      <4>1. i \in 1 .. Len(q) \/ i = Len(q) + 1
        BY <3>7
      <4> QED  BY <3>3, <3>5, <3>6, <4>1
    <3> QED  BY <3>6, <3>7, <3>8
  <2> QED  BY <2>3, <2>4
<1> HIDE DEF Push
<1>3. Ahead \in [Column -> Seq(1 .. K)]
  BY <1>2
<1>4. b = [next |-> b.next, ahead |-> b.ahead] /\ b.next \in Column
  BY DEF ReorderBuffers
<1>5. [b EXCEPT !.ahead = Ahead] = [next |-> b.next, ahead |-> Ahead]
  BY <1>4
<1> QED  BY <1>1, <1>2, <1>3, <1>4, <1>5
         DEF ReorderBuffers, QueuesHoldTheirChunk

(***************************************************************************)
(* process_original_chunk adds to the chunks that wait under an index, one *)
(* at most, if the index is not passed already.                            *)
(***************************************************************************)
LEMMA ProcessResult ==
  ASSUME NEW K \in Nat, NEW b, GoodBuffer(b, K),
         NEW symbols, AreOwnSymbols(symbols, K),
         NEW c \in Column
  PROVE  LET q == ProcessOriginalChunks(b, symbols)
             brought == c >= b.next /\ \E s \in symbols : s[1] = c
         IN  /\ q.ahead[c] # <<>> <=> b.ahead[c] # <<>> \/ brought
             /\ brought  => Len(q.ahead[c]) = Len(b.ahead[c]) + 1
             /\ ~brought => q.ahead[c] = b.ahead[c]
<1> DEFINE Queued == {s \in symbols : s[1] = c /\ c >= b.next}
           x == (CHOOSE s \in Queued : TRUE)[2]
           q == ProcessOriginalChunks(b, symbols)
           brought == c >= b.next /\ \E s \in symbols : s[1] = c
<1>1. q.ahead[c] = IF Queued = {} THEN b.ahead[c] ELSE Append(b.ahead[c], x)
  BY DEF ProcessOriginalChunks, ReorderBuffers
<1>2. brought <=> Queued # {}
  OBVIOUS
<1>3. b.ahead[c] \in Seq(1 .. K)
  BY DEF GoodBuffer, ReorderBuffers
<1>4. Queued # {} => x \in 1 .. K
  <2> SUFFICES ASSUME Queued # {} PROVE x \in 1 .. K
    OBVIOUS
  <2>1. PICK s : s = (CHOOSE t \in Queued : TRUE)
    OBVIOUS
  <2>2. s \in symbols
    BY <2>1
  <2> QED  BY <2>1, <2>2 DEF AreOwnSymbols
<1> HIDE DEF Queued, x, q, brought
<1>5. Queued # {} => /\ Append(b.ahead[c], x) # <<>>
                     /\ Len(Append(b.ahead[c], x)) = Len(b.ahead[c]) + 1
  <2> SUFFICES ASSUME Queued # {}
               PROVE  /\ Append(b.ahead[c], x) # <<>>
                      /\ Len(Append(b.ahead[c], x)) = Len(b.ahead[c]) + 1
    OBVIOUS
  <2> DEFINE waiting == b.ahead[c]
  <2>1. waiting \in Seq(1 .. K) /\ x \in 1 .. K
    BY <1>3, <1>4
  <2> HIDE DEF waiting
  <2>2. /\ Append(waiting, x) # <<>>
        /\ Len(Append(waiting, x)) = Len(waiting) + 1
    BY <2>1, AppendProperties
  <2> QED  BY <2>2 DEF waiting
<1>6. /\ q.ahead[c] # <<>> <=> b.ahead[c] # <<>> \/ brought
      /\ brought  => Len(q.ahead[c]) = Len(b.ahead[c]) + 1
      /\ ~brought => q.ahead[c] = b.ahead[c]
  BY <1>1, <1>2, <1>5
<1> QED  BY <1>6 DEF q, brought

(***************************************************************************)
(* A run of chunks taken out does not go beyond the last chunk, and so it  *)
(* never gets to the point where indices start again at 0.                 *)
(***************************************************************************)
LEMMA RunDoesNotWrap ==
  ASSUME NEW K \in Nat, K < ColumnPeriod,
         NEW b, GoodBuffer(b, K),
         NEW n \in RunLengths, IsWholeRun(b, n)
  PROVE  /\ \A j \in 0 .. n - 1 :
              /\ Taken(b, j) = b.next + j
              /\ b.next + j \in Column
              /\ b.ahead[b.next + j] # <<>>
              /\ Head(b.ahead[b.next + j]) = b.next + j + 1
         /\ b.next + n =< K
<1> USE ColumnPeriodAssumption DEF GoodBuffer
<1>0. b.next \in Column /\ b.ahead \in [Column -> Seq(1 .. K)]
  BY DEF ReorderBuffers
<1>1. ASSUME NEW j \in 0 .. n - 1, b.next + j \in Column
      PROVE  /\ Taken(b, j) = b.next + j
             /\ b.ahead[b.next + j] # <<>>
             /\ Head(b.ahead[b.next + j]) = b.next + j + 1
             /\ b.next + j + 1 =< K
  <2>1. Taken(b, j) = b.next + j
    BY <1>1, SmallResidue DEF Taken, AddColumns
  <2>2. b.ahead[b.next + j] # <<>>
    BY <2>1 DEF IsWholeRun, HasData
  <2>3. b.ahead[b.next + j] \in Seq(1 .. K)
    BY <1>0, <1>1
  <2>4. 1 \in 1 .. Len(b.ahead[b.next + j])
    BY <2>2, <2>3
  <2>5. b.ahead[b.next + j][1] = b.next + j + 1
    BY <1>1, <2>4 DEF QueuesHoldTheirChunk
  <2>6. b.ahead[b.next + j][1] \in 1 .. K
    BY <2>3, <2>4
  <2> QED  BY <2>1, <2>2, <2>3, <2>5, <2>6 
<1>2. ASSUME NEW j \in 0 .. n - 1
      PROVE  b.next + j \in Column
  <2> DEFINE f == b.next
             last == ColumnPeriod - 1 - f
  <2>1. f \in 0 .. ColumnPeriod - 1 /\ n \in Nat
        /\ ColumnPeriod \in Nat /\ K \in Nat
    BY <1>0 DEF Column, RunLengths
  <2>2. ASSUME last \in 0 .. n - 1, f + last \in Column
        PROVE  f + last + 1 =< K
    BY <1>1, <2>2
  <2> HIDE DEF f
  <2>3. f + last = ColumnPeriod - 1
    BY <2>1
  <2>4. f + last \in Column
    BY <2>1, <2>3 DEF Column
  <2>5. ASSUME f + j >= ColumnPeriod PROVE FALSE
    <3>1. last \in 0 .. n - 1
      BY <2>1, <2>5
    <3>2. f + last + 1 =< K
      BY <2>2, <2>4, <3>1
    <3> QED  BY <2>1, <2>3, <3>2 
  <2>6. f + j \in Column
    BY <2>1, <2>5 DEF Column
  <2> QED  BY <2>6 DEF f
<1>3. b.next + n =< K
  <2>1. CASE n = 0
    BY <2>1, <1>0 DEF Column
  <2>2. CASE n # 0
    <3>1. n - 1 \in 0 .. n - 1
      BY <2>2 DEF RunLengths
    <3>2. b.next + (n - 1) + 1 =< K
      BY <3>1, <1>1, <1>2
    <3> QED  BY <3>2, <1>0 DEF Column, RunLengths
  <2> QED  BY <2>1, <2>2
<1> QED  BY <1>1, <1>2, <1>3

(***************************************************************************)
(* Taking a run out leaves a buffer of the same shape, advanced by it.     *)
(***************************************************************************)
LEMMA AfterRunKeepsQueues ==
  ASSUME NEW K \in Nat, K < ColumnPeriod,
         NEW b, GoodBuffer(b, K),
         NEW n \in RunLengths, IsWholeRun(b, n)
  PROVE  /\ GoodBuffer(AfterRun(b, n), K)
         /\ AfterRun(b, n).next = b.next + n
<1> USE ColumnPeriodAssumption DEF GoodBuffer
<1> DEFINE IsTaken(c) == \E j \in 0 .. n - 1 : c = Taken(b, j)
           Rest(c)    == IF IsTaken(c) THEN Tail(b.ahead[c]) ELSE b.ahead[c]
<1>0. b.next \in Column /\ b.ahead \in [Column -> Seq(1 .. K)]
  BY DEF ReorderBuffers
<1>1. /\ b.next + n =< K
      /\ \A j \in 0 .. n - 1 : /\ Taken(b, j) = b.next + j
                               /\ b.ahead[b.next + j] # <<>>
  BY RunDoesNotWrap
<1>2. Taken(b, n) = b.next + n /\ b.next + n \in Column
  <2>1. b.next + n \in Column
    BY <1>0, <1>1 DEF Column, RunLengths
  <2> QED  BY <2>1, SmallResidue DEF Taken, AddColumns
<1>3. ASSUME NEW c \in Column
      PROVE  /\ Rest(c) \in Seq(1 .. K)
             /\ \A i \in 1 .. Len(Rest(c)) : Rest(c)[i] = c + 1
  <2>1. b.ahead[c] \in Seq(1 .. K)
    BY <1>0
  <2>2. \A i \in 1 .. Len(b.ahead[c]) : b.ahead[c][i] = c + 1
    BY DEF QueuesHoldTheirChunk
  <2>3. CASE ~IsTaken(c)
    BY <2>1, <2>2, <2>3
  <2>4. CASE IsTaken(c)
    <3>1. b.ahead[c] # <<>>
      BY <1>1, <2>4
    <3>2. /\ Tail(b.ahead[c]) \in Seq(1 .. K)
          /\ Len(Tail(b.ahead[c])) = Len(b.ahead[c]) - 1
          /\ \A i \in 1 .. Len(b.ahead[c]) - 1 :
               Tail(b.ahead[c])[i] = b.ahead[c][i + 1]
      BY <2>1, <3>1, HeadTailProperties
    <3>3. ASSUME NEW i \in 1 .. Len(b.ahead[c]) - 1
          PROVE  b.ahead[c][i + 1] = c + 1
      BY <2>1, <2>2
    <3> QED  BY <2>4, <3>2, <3>3
  <2> QED  BY <2>3, <2>4
<1>4. AfterRun(b, n)
        = [next |-> Taken(b, n), ahead |-> [c \in Column |-> Rest(c)]]
  BY DEF AfterRun
<1> HIDE DEF Rest
<1>5. [c \in Column |-> Rest(c)] \in [Column -> Seq(1 .. K)]
  BY <1>3
<1> DEFINE after == AfterRun(b, n)
<1>6. /\ after.next = b.next + n
      /\ after.ahead = [c \in Column |-> Rest(c)]
      /\ after \in ReorderBuffers(1 .. K)
  BY <1>2, <1>4, <1>5 DEF ReorderBuffers
<1>7. QueuesHoldTheirChunk(after)
  BY <1>3, <1>6 DEF QueuesHoldTheirChunk
<1> QED  BY <1>1, <1>6, <1>7

(***************************************************************************)
(* A run takes the first chunk from the indices that it passes.            *)
(***************************************************************************)
LEMMA AfterRunResult ==
  ASSUME NEW K \in Nat, K < ColumnPeriod,
         NEW b, GoodBuffer(b, K),
         NEW n \in RunLengths, IsWholeRun(b, n),
         NEW c \in Column
  PROVE  AfterRun(b, n).ahead[c] = IF c \in b.next .. (b.next + n) - 1
                                   THEN Tail(b.ahead[c]) ELSE b.ahead[c]
<1>1. \A j \in 0 .. n - 1 : Taken(b, j) = b.next + j
  BY RunDoesNotWrap
<1>2. b.next \in Int /\ n \in Int /\ c \in Int
  BY ColumnPeriodAssumption DEF GoodBuffer, ReorderBuffers, Column, RunLengths
<1>3. (\E j \in 0 .. n - 1 : c = Taken(b, j))
        <=> c \in b.next .. (b.next + n) - 1
  <2>1. ASSUME c \in b.next .. (b.next + n) - 1
        PROVE  \E j \in 0 .. n - 1 : c = Taken(b, j)
    <3>1. c - b.next \in 0 .. n - 1 /\ c = b.next + (c - b.next)
      BY <1>2, <2>1
    <3> QED  BY <1>1, <3>1
  <2>2. ASSUME NEW j \in 0 .. n - 1, c = Taken(b, j)
        PROVE  c \in b.next .. (b.next + n) - 1
    BY <1>1, <1>2, <2>2
  <2> QED  BY <2>1, <2>2
<1> QED  BY <1>3 DEF AfterRun

(***************************************************************************)
(* A sequence of one element at most: it is empty or its tail is.          *)
(***************************************************************************)
LEMMA ShortSequence ==
  ASSUME NEW S, NEW q \in Seq(S)
  PROVE  /\ Len(q) \in Nat
         /\ q = <<>> <=> Len(q) = 0
         /\ Len(q) = 1 => Tail(q) = <<>>
         /\ q # <<>> /\ Len(q) =< 1 => Len(q) = 1
<1>1. Len(q) \in Nat /\ (q = <<>> <=> Len(q) = 0)
  BY EmptySeq
<1>2. ASSUME Len(q) = 1 PROVE Tail(q) = <<>>
  <2>1. q # <<>>
    BY <1>1, <1>2
  <2>2. Tail(q) \in Seq(S) /\ Len(Tail(q)) = Len(q) - 1
    BY <2>1, HeadTailProperties
  <2>3. Len(Tail(q)) = 0
    BY <1>2, <2>2
  <2> QED  BY <2>2, <2>3, EmptySeq
<1>3. ASSUME q # <<>>, Len(q) =< 1 PROVE Len(q) = 1
  <2> DEFINE l == Len(q)
  <2>1. l \in Nat /\ l # 0 /\ l =< 1
    BY <1>1, <1>3, Zenon
  <2> HIDE DEF l
  <2>2. l = 1
    BY <2>1
  <2> QED  BY <2>2 DEF l
<1> QED  BY <1>1, <1>2, <1>3

(***************************************************************************)
(* The expected chunk is missing after a run: the run ends there.          *)
(***************************************************************************)
LEMMA RunStopsAtMissing ==
  ASSUME NEW K \in Nat, K < ColumnPeriod,
         NEW b, GoodBuffer(b, K),
         NEW n \in RunLengths, IsWholeRun(b, n),
         \A c \in Column : /\ c < b.next => b.ahead[c] = <<>>
                           /\ Len(b.ahead[c]) =< 1
  PROVE  b.next + n \in Column /\ b.ahead[b.next + n] = <<>>
<1> USE ColumnPeriodAssumption
<1>1. /\ \A j \in 0 .. n - 1 : /\ Taken(b, j) = b.next + j
                               /\ b.ahead[b.next + j] # <<>>
      /\ b.next + n =< K
  BY RunDoesNotWrap
<1>2. b.next \in Column /\ b.ahead \in [Column -> Seq(1 .. K)]
      /\ n \in Nat
  BY DEF GoodBuffer, ReorderBuffers, RunLengths
<1>3. b.next + n \in Column
  BY <1>1, <1>2 DEF Column
<1>4. Taken(b, n) = b.next + n
  BY <1>3, SmallResidue DEF Taken, AddColumns
<1>5. ASSUME NEW c \in 0 .. Taken(b, n) - 1
      PROVE  \/ b.ahead[c] = <<>>
             \/ Len(b.ahead[c]) = 1 /\ \E i \in 0 .. n - 1 : c = Taken(b, i)
  <2>1. c \in Column
    BY <1>2, <1>3, <1>4 DEF Column
  <2>2. CASE c < b.next
    BY <2>1, <2>2
  <2>3. CASE ~(c < b.next)
    <3> DEFINE i == c - b.next
    <3>1. i \in 0 .. n - 1 /\ c = b.next + i
      <4> DEFINE f == b.next
      <4>1. f \in Nat /\ c \in 0 .. f + n - 1 /\ c >= f /\ n \in Nat
        BY <1>2, <1>4, <2>3 DEF Column
      <4> HIDE DEF f
      <4> QED  BY <4>1 DEF f
    <3>2. c = Taken(b, i) /\ b.ahead[c] # <<>>
      BY <1>1, <3>1
    <3>3. b.ahead[c] \in Seq(1 .. K)
      BY <1>2, <2>1
    <3>4. Len(b.ahead[c]) = 1
      <4> DEFINE q == b.ahead[c]
      <4>1. q \in Seq(1 .. K) /\ q # <<>> /\ Len(q) =< 1
        BY <2>1, <3>2, <3>3
      <4> HIDE DEF q
      <4>2. Len(q) = 1
        BY <4>1, ShortSequence
      <4> QED  BY <4>2 DEF q
    <3> HIDE DEF i
    <3> QED  BY <3>1, <3>2, <3>4
  <2> QED  BY <2>2, <2>3
<1>6. ~HasData(b, n)
  BY DEF IsWholeRun
<1>7. b.ahead[Taken(b, n)] = <<>>
  BY <1>5, <1>6 DEF HasData
<1> QED  BY <1>3, <1>4, <1>7

(***************************************************************************)
(* The chunks that a run takes out are the next ones in order.             *)
(***************************************************************************)
LEMMA TakenAreNext ==
  ASSUME NEW K \in Nat, K < ColumnPeriod,
         NEW b, GoodBuffer(b, K),
         NEW n \in RunLengths, IsWholeRun(b, n)
  PROVE  TakenChunks(b, n) = [j \in 1 .. n |-> b.next + j]
<1>1. \A j \in 0 .. n - 1 : /\ Taken(b, j) = b.next + j
                            /\ Head(b.ahead[b.next + j]) = b.next + j + 1
  BY RunDoesNotWrap
<1>2. b.next \in Nat /\ n \in Nat
  BY ColumnPeriodAssumption DEF GoodBuffer, ReorderBuffers, Column, RunLengths
<1>3. ASSUME NEW j \in 1 .. n
      PROVE  Head(b.ahead[Taken(b, j - 1)]) = b.next + j
  <2>1. j - 1 \in 0 .. n - 1
    BY <1>2
  <2>2. Head(b.ahead[Taken(b, j - 1)]) = b.next + (j - 1) + 1
    BY <1>1, <2>1
  <2> QED  BY <1>2, <2>2
<1> QED  BY <1>3 DEF TakenChunks

(***************************************************************************)
(* The loop over get_chunk ends: somewhere the next chunk is missing, as   *)
(* no more were sent.                                                      *)
(***************************************************************************)
LEMMA RunExists ==
  ASSUME NEW K \in Nat, K < ColumnPeriod,
         NEW b, GoodBuffer(b, K)
  PROVE  \E n \in RunLengths : IsWholeRun(b, n)
<1> DEFINE Stops == {n \in Nat : ~HasData(b, n)}
<1>1. b.next \in Column /\ b.ahead \in [Column -> Seq(1 .. K)]
      /\ b.next \in Nat /\ b.next =< K
  BY ColumnPeriodAssumption DEF GoodBuffer, ReorderBuffers, Column
<1>2. K - b.next \in Stops /\ K - b.next \in RunLengths
  <2> DEFINE n == K - b.next
  <2>1. n \in RunLengths /\ n \in Nat /\ b.next + n = K /\ K \in Column
    BY <1>1, ColumnPeriodAssumption DEF RunLengths, Column
  <2> HIDE DEF n
  <2>2. Taken(b, n) = K
    BY <2>1, SmallResidue DEF Taken, AddColumns
  <2>3. b.ahead[K] = <<>>
    <3> DEFINE q == b.ahead[K]
    <3>1. q \in Seq(1 .. K)
      BY <1>1, <2>1
    <3>2. ASSUME 1 \in 1 .. Len(q) PROVE FALSE
      <4>1. q[1] \in 1 .. K
        BY <3>1, <3>2, ElementOfSeq
      <4>2. q[1] = K + 1
        BY <2>1, <3>2 DEF GoodBuffer, QueuesHoldTheirChunk
      <4> QED  BY <4>1, <4>2
    <3> HIDE DEF q
    <3>3. q = <<>>
      BY <3>1, <3>2, EmptySeq
    <3> QED  BY <3>3 DEF q
  <2>4. ~HasData(b, n)
    BY <2>2, <2>3 DEF HasData
  <2> QED  BY <2>1, <2>4 DEF n
<1>3. PICK n \in Stops : \A m \in Stops : n =< m
  <2>1. Stops \in SUBSET Nat /\ Stops # {}
    BY <1>2
  <2> HIDE DEF Stops
  <2> QED  BY <2>1, LeastNatural
<1>4. n \in RunLengths
  BY <1>2, <1>3, ColumnPeriodAssumption DEF RunLengths
<1>5. ASSUME NEW j \in 0 .. n - 1 PROVE HasData(b, j)
  BY <1>3
<1> QED  BY <1>3, <1>4, <1>5 DEF IsWholeRun

(***************************************************************************)
(* An empty buffer is good.                                                *)
(***************************************************************************)
LEMMA EmptyBufferIsGood ==
  ASSUME NEW K \in Nat
  PROVE  GoodBuffer(EmptyBuffer, K) /\ EmptyBuffer.next = 0
<1>1. EmptyBuffer \in ReorderBuffers(1 .. K)
  <2>1. <<>> \in Seq(1 .. K) /\ 0 \in Column
    BY ColumnPeriodAssumption DEF Column
  <2> QED  BY <2>1 DEF EmptyBuffer, ReorderBuffers
<1> QED  BY <1>1 DEF EmptyBuffer, GoodBuffer, QueuesHoldTheirChunk

(***************************************************************************)
(* A good buffer stays so as more chunks are sent.                         *)
(***************************************************************************)
LEMMA MoreChunksSent ==
  ASSUME NEW K \in Nat, NEW L \in Nat, K =< L,
         NEW b, GoodBuffer(b, K)
  PROVE  GoodBuffer(b, L)
<1>1. 1 .. K \subseteq 1 .. L
  OBVIOUS
<1>2. Seq(1 .. K) \subseteq Seq(1 .. L)
  BY <1>1, SeqMonotonic
<1>3. b \in ReorderBuffers(1 .. L)
  BY <1>2 DEF GoodBuffer, ReorderBuffers
<1>4. b.next =< L
  BY ColumnPeriodAssumption DEF GoodBuffer, ReorderBuffers, Column
<1> QED  BY <1>3, <1>4 DEF GoodBuffer

(***************************************************************************)
(* Chunks handed out in order, with the next ones, are chunks in order.    *)
(***************************************************************************)
LEMMA NextChunksAppended ==
  ASSUME NEW K \in Nat, NEW d \in Seq(1 .. K),
         \A i \in 1 .. Len(d) : d[i] = i,
         NEW n \in Nat, Len(d) + n =< K
  PROVE  LET all == d \o [j \in 1 .. n |-> Len(d) + j]
         IN  /\ all \in Seq(1 .. K)
             /\ Len(all) = Len(d) + n
             /\ \A i \in 1 .. Len(all) : all[i] = i
<1> DEFINE m == Len(d)
           new == [j \in 1 .. n |-> m + j]
           all == d \o new
<1>1. m \in Nat
  OBVIOUS
<1>2. new \in Seq(1 .. K) /\ Len(new) = n /\ \A j \in 1 .. n : new[j] = m + j
  <2> HIDE DEF m
  <2>1. \A j \in 1 .. n : m + j \in 1 .. K
    BY <1>1 DEF m
  <2> QED  BY <2>1
<1> HIDE DEF new
<1>3. /\ all \in Seq(1 .. K)
      /\ Len(all) = m + n
      /\ \A i \in 1 .. m + n : all[i] = IF i =< m THEN d[i] ELSE new[i - m]
  BY <1>2, ConcatProperties
<1>4. ASSUME NEW i \in 1 .. m + n PROVE all[i] = i
  <2>1. CASE i =< m
    BY <1>1, <1>3, <2>1
  <2>2. CASE ~(i =< m)
    <3>1. i - m \in 1 .. n /\ m + (i - m) = i
      BY <1>1, <2>2
    <3> QED  BY <1>2, <1>3, <2>2, <3>1
  <2> QED  BY <2>1, <2>2
<1> QED  BY <1>3, <1>4 DEF new

-----------------------------------------------------------------------------
USE ColumnPeriodAssumption, SiameseCommonAssumption, SiameseEncoderAssumption,
    FecRatioAssumption

-----------------------------------------------------------------------------
(* Columns                                                                 *)

(***************************************************************************)
(* A sum of columns is a column, and a difference is.                      *)
(***************************************************************************)
LEMMA ColumnOfSum ==
  ASSUME NEW a \in Int, NEW b \in Int
  PROVE  /\ AddColumns(a, b) \in Column
         /\ SubtractColumns(a, b) \in Column
         /\ AddColumns(AddColumns(a, b), -b) = a % ColumnPeriod
<1>1. (((a + b) % ColumnPeriod) + (-b)) % ColumnPeriod
        = ((a + b) + (-b)) % ColumnPeriod
  <2>1. a + b \in Int /\ -b \in Int
    OBVIOUS
  <2> QED  BY <2>1, SumOfResidue
<1>2. (a + b) + (-b) = a
  OBVIOUS
<1> QED  BY <1>1, <1>2 DEF AddColumns, SubtractColumns, Column

(***************************************************************************)
(* Columns can be added to in one step or in two.                          *)
(***************************************************************************)
LEMMA AddColumnsTwice ==
  ASSUME NEW a \in Int, NEW b \in Int, NEW c \in Int
  PROVE  AddColumns(AddColumns(a, b), c) = AddColumns(a, b + c)
<1>1. (((a + b) % ColumnPeriod) + c) % ColumnPeriod
        = ((a + b) + c) % ColumnPeriod
  <2>1. a + b \in Int
    OBVIOUS
  <2> QED  BY <2>1, SumOfResidue
<1>2. (a + b) + c = a + (b + c)
  OBVIOUS
<1> QED  BY <1>1, <1>2 DEF AddColumns

(***************************************************************************)
(* A column is at no distance from itself.                                 *)
(***************************************************************************)
LEMMA NoDistance ==
  ASSUME NEW c \in Column
  PROVE  ~IsColumnDeltaNegative(SubtractColumns(c, c))
<1>1. c - c = 0
  BY DEF Column
<1>2. 0 % ColumnPeriod = 0 /\ ~(0 >= ColumnPeriod \div 2)
  OBVIOUS
<1> QED  BY <1>1, <1>2 DEF SubtractColumns, IsColumnDeltaNegative

-----------------------------------------------------------------------------
(* The FEC encoder                                                         *)

\* The types and the shape of the window, and the next column as counted.
GoodEncoder(e) ==
  /\ e \in SiameseEncoders
  /\ e.nextColumn = e.added % ColumnPeriod
  /\ e.count > 0 =>
       /\ e.firstUnremoved < e.count
       /\ e.count =< MaxPackets
       /\ AddColumns(e.columnStart, e.count) = e.nextColumn

\* The number of chunks that the window protects.
Unacked(e) == IF e.count > 0 THEN e.count - e.firstUnremoved ELSE 0

(***************************************************************************)
(* The ranges of what a good encoder counts.                               *)
(***************************************************************************)
LEMMA UnackedType ==
  ASSUME NEW e, GoodEncoder(e)
  PROVE  /\ Unacked(e) \in 0 .. MaxPackets
         /\ e.added \in Nat /\ e.count \in Nat /\ e.firstUnremoved \in Nat
         /\ e.columnStart \in Column /\ e.columnStart \in Int
         /\ e.nextColumnExpected \in Int
BY DEF GoodEncoder, SiameseEncoders, Unacked, Column

(***************************************************************************)
(* The element d before the end of the window is the column of the chunk d *)
(* before the newest.                                                      *)
(***************************************************************************)
LEMMA WindowEndsAtAdded ==
  ASSUME NEW e, GoodEncoder(e), e.count > 0, NEW d \in Int
  PROVE  (e.columnStart + (e.count - d)) % ColumnPeriod
           = (e.added - d) % ColumnPeriod
<1>1. e.columnStart \in Int /\ e.count \in Int /\ e.added \in Int
  BY UnackedType
<1>2. (e.columnStart + e.count) % ColumnPeriod = e.added % ColumnPeriod
  BY DEF GoodEncoder, AddColumns
<1>3. ((e.columnStart + e.count) + (-d)) % ColumnPeriod
        = (((e.columnStart + e.count) % ColumnPeriod) + (-d)) % ColumnPeriod
  <2>1. e.columnStart + e.count \in Int /\ -d \in Int
    BY <1>1
  <2> QED  BY <2>1, SumOfResidue
<1>4. (e.added + (-d)) % ColumnPeriod
        = ((e.added % ColumnPeriod) + (-d)) % ColumnPeriod
  <2>1. -d \in Int
    OBVIOUS
  <2> QED  BY <1>1, <2>1, SumOfResidue
<1>5. e.columnStart + (e.count - d) = (e.columnStart + e.count) + (-d)
      /\ e.added - d = e.added + (-d)
  BY <1>1
<1> QED  BY <1>2, <1>3, <1>4, <1>5

(***************************************************************************)

(***************************************************************************)
(* siamese_encoder_add keeps the window in shape: its end moves to the     *)
(* next column, whether the window grows or starts anew, and one more      *)
(* packet is unacknowledged.                                               *)
(***************************************************************************)
LEMMA AddResult ==
  ASSUME NEW e, GoodEncoder(e), ~MaxPacketsReached(e)
  PROVE  /\ GoodEncoder(EncoderAdd(e))
         /\ EncoderAdd(e).count > 0
         /\ EncoderAdd(e).added = e.added + 1
         /\ EncoderAdd(e).nextColumnExpected = e.nextColumnExpected
         /\ Unacked(EncoderAdd(e)) = Unacked(e) + 1
<1> DEFINE element == e.nextColumn % LaneCount
           start   == e.nextColumn - element
           window  == IF e.count > 0 THEN [e EXCEPT !.count = @ + 1]
                                     ELSE StartNewWindow(e)
           next    == AddColumns(e.nextColumn, 1)
<1>1. /\ e \in SiameseEncoders /\ e.nextColumn \in Column /\ e.count \in Nat
      /\ e.columnStart \in Column /\ e.firstUnremoved \in Nat
      /\ e.added \in Nat
  BY DEF GoodEncoder, SiameseEncoders
<1>2. element \in Nat /\ element < LaneCount /\ start \in Column
  <2>1. e.nextColumn \in Int /\ LaneCount \in Nat \ {0}
    BY <1>1 DEF Column
  <2>2. /\ element \in 0 .. LaneCount - 1 /\ e.nextColumn \div LaneCount \in Int
        /\ e.nextColumn = LaneCount * (e.nextColumn \div LaneCount) + element
    BY <2>1, Division
  <2>3. e.nextColumn \div LaneCount >= 0
    BY <2>1, <1>1 DEF Column
  <2> HIDE DEF element
  <2>4. LaneCount * (e.nextColumn \div LaneCount) >= 0
    BY <2>2, <2>3
  <2> QED  BY <1>1, <2>2, <2>4 DEF Column
<1>3. next = (e.added + 1) % ColumnPeriod /\ next \in Column
  <2>1. ((e.added % ColumnPeriod) + 1) % ColumnPeriod
          = (e.added + 1) % ColumnPeriod
    BY <1>1, SumOfResidue
  <2>2. (e.added + 1) % ColumnPeriod \in Column
    BY <1>1 DEF Column
  <2> QED  BY <2>1, <2>2 DEF GoodEncoder, AddColumns
<1>4. AddColumns(start, element + 1) = next
  <2>1. start + (element + 1) = e.nextColumn + 1
    BY <1>1, <1>2 DEF Column
  <2> QED  BY <2>1 DEF AddColumns
<1>5. e.count > 0 => AddColumns(e.columnStart, e.count + 1) = next
  <2>1. AddColumns(AddColumns(e.columnStart, e.count), 1)
          = AddColumns(e.columnStart, e.count + 1)
    <3>1. e.columnStart \in Int /\ e.count \in Int /\ 1 \in Int
      BY <1>1 DEF Column
    <3> QED  BY <3>1, AddColumnsTwice
  <2> QED  BY <2>1 DEF GoodEncoder
<1>6. StartNewWindow(e) = [e EXCEPT !.columnStart    = start,
                                    !.firstUnremoved = element,
                                    !.count          = element + 1]
  BY DEF StartNewWindow
<1>7. e.count > 0 => e.firstUnremoved < e.count /\ e.count + 1 =< MaxPackets
  BY <1>1 DEF GoodEncoder, MaxPacketsReached
<1> HIDE DEF element, start, next
<1>8. /\ window \in SiameseEncoders /\ window.added = e.added
      /\ window.nextColumnExpected = e.nextColumnExpected
      /\ window.count > 0
      /\ window.firstUnremoved < window.count /\ window.count =< MaxPackets
      /\ AddColumns(window.columnStart, window.count) = next
      /\ window.count - window.firstUnremoved = Unacked(e) + 1
      /\ window.nextColumn = e.nextColumn
  <2>1. CASE e.count > 0
    BY <1>1, <1>5, <1>7, <2>1 DEF SiameseEncoders, Unacked
  <2>2. CASE ~(e.count > 0)
    <3>1. /\ element + 1 \in Nat /\ element + 1 =< MaxPackets
          /\ element < element + 1 /\ element + 1 > 0
          /\ (element + 1) - element = 1 /\ Unacked(e) = 0
      BY <1>2, <2>2 DEF Unacked
    <3>2. window = StartNewWindow(e)
      BY <2>2
    <3> HIDE DEF window
    <3>3. /\ window \in SiameseEncoders /\ window.added = e.added
          /\ window.nextColumnExpected = e.nextColumnExpected
          /\ window.count = element + 1 /\ window.firstUnremoved = element
          /\ window.columnStart = start /\ window.nextColumn = e.nextColumn
      BY <1>1, <1>2, <1>6, <3>1, <3>2 DEF SiameseEncoders
    <3> QED  BY <1>4, <3>1, <3>3
  <2> QED  BY <2>1, <2>2
<1>9. EncoderAdd(e) = [window EXCEPT !.nextColumn = next, !.added = e.added + 1]
  BY <1>8 DEF EncoderAdd, next
<1> HIDE DEF window
<1>10. EncoderAdd(e) \in SiameseEncoders
  <2>1. e.added + 1 \in Nat
    BY <1>1
  <2> QED  BY <1>3, <1>8, <1>9, <2>1 DEF SiameseEncoders
<1>11. /\ EncoderAdd(e).count = window.count
       /\ EncoderAdd(e).firstUnremoved = window.firstUnremoved
       /\ EncoderAdd(e).columnStart = window.columnStart
       /\ EncoderAdd(e).nextColumnExpected = window.nextColumnExpected
       /\ EncoderAdd(e).nextColumn = next /\ EncoderAdd(e).added = e.added + 1
  BY <1>8, <1>9 DEF SiameseEncoders
<1> QED  BY <1>3, <1>8, <1>10, <1>11 DEF GoodEncoder, Unacked

(***************************************************************************)
(* So does siamese_encode, with the trimming that precedes it, which       *)
(* leaves what is unacknowledged in the window.                            *)
(***************************************************************************)
LEMMA EncodeResult ==
  ASSUME NEW e, GoodEncoder(e), ~EncodeNeedsMoreData(e)
  PROVE  /\ GoodEncoder(Encode(e).encoder)
         /\ Encode(e).encoder.count > 0
         /\ Encode(e).encoder.added = e.added
         /\ Encode(e).encoder.nextColumnExpected = e.nextColumnExpected
         /\ Unacked(Encode(e).encoder) = Unacked(e)
<1> DEFINE removed == WholeSubwindows(e.firstUnremoved)
           start   == AddColumns(e.columnStart, removed)
           count   == e.count - removed
           first   == e.firstUnremoved - removed
           w       == EncoderRemoveElements(e)
           end == AddColumns(AddColumns(w.columnStart, w.firstUnremoved),
                             UnacknowledgedCount(w))
           row     == (w.nextCauchyRow + 1) % CauchyMaxRows
           encoder == Encode(e).encoder
<1>1. /\ e \in SiameseEncoders /\ e.columnStart \in Column /\ e.count \in Nat
      /\ e.firstUnremoved \in Nat /\ e.count > 0 /\ e.firstUnremoved < e.count
      /\ e.count =< MaxPackets
      /\ AddColumns(e.columnStart, e.count) = e.nextColumn
  BY DEF GoodEncoder, SiameseEncoders, EncodeNeedsMoreData
<1>2. removed \in Nat /\ removed =< e.firstUnremoved
  <2> DEFINE whole == e.firstUnremoved \div SubwindowSize
  <2>1. /\ whole \in Int
        /\ e.firstUnremoved % SubwindowSize \in 0 .. SubwindowSize - 1
        /\ e.firstUnremoved = SubwindowSize * whole
                                + (e.firstUnremoved % SubwindowSize)
    <3>1. e.firstUnremoved \in Int /\ SubwindowSize \in Nat \ {0}
      BY <1>1
    <3> QED  BY <3>1, Division
  <2>2. whole >= 0
    BY <1>1
  <2>3. removed = whole * SubwindowSize
    BY DEF WholeSubwindows
  <2> HIDE DEF whole, removed
  <2>4. whole * SubwindowSize = SubwindowSize * whole
        /\ whole * SubwindowSize \in Nat
    BY <2>1, <2>2
  <2> QED  BY <1>1, <2>1, <2>3, <2>4
<1>3. /\ start \in Column /\ count \in Nat /\ first \in Nat
      /\ count > 0 /\ first < count /\ count =< MaxPackets
      /\ count - first = e.count - e.firstUnremoved
      /\ AddColumns(start, count) = e.nextColumn
  <2>1. AddColumns(AddColumns(e.columnStart, removed), count)
          = AddColumns(e.columnStart, removed + count)
    <3>1. e.columnStart \in Int /\ removed \in Int /\ count \in Int
      BY <1>1, <1>2 DEF Column
    <3> QED  BY <3>1, AddColumnsTwice
  <2>2. removed + count = e.count
    BY <1>1, <1>2
  <2>3. start \in Column
    <3>1. e.columnStart \in Int /\ removed \in Int
      BY <1>1, <1>2 DEF Column
    <3> QED  BY <3>1, ColumnOfSum
  <2> HIDE DEF removed
  <2> QED  BY <1>1, <1>2, <2>1, <2>2, <2>3
<1>4. \/ w = e
      \/ w = [e EXCEPT !.columnStart    = start,
                       !.count          = count,
                       !.firstUnremoved = first]
  BY DEF EncoderRemoveElements
<1>5. \/ encoder = w
      \/ encoder = [w EXCEPT !.nextParityColumn = end]
      \/ encoder = [w EXCEPT !.nextCauchyRow = row]
  BY DEF Encode
<1> HIDE DEF removed, start, count, first, w
<1>6. /\ w \in SiameseEncoders /\ w.added = e.added
      /\ w.nextColumnExpected = e.nextColumnExpected
      /\ w.nextColumn = e.nextColumn
      /\ w.count > 0 /\ w.firstUnremoved < w.count /\ w.count =< MaxPackets
      /\ w.count - w.firstUnremoved = e.count - e.firstUnremoved
      /\ AddColumns(w.columnStart, w.count) = e.nextColumn
  BY <1>1, <1>3, <1>4 DEF SiameseEncoders
<1>7. end \in Column /\ row \in Nat
  <2>1. /\ w.columnStart \in Int /\ w.firstUnremoved \in Int
        /\ w.count \in Int /\ w.nextCauchyRow \in Nat
    BY <1>6 DEF SiameseEncoders, Column
  <2>2. AddColumns(w.columnStart, w.firstUnremoved) \in Int
    BY <2>1 DEF AddColumns
  <2>3. UnacknowledgedCount(w) \in Int
    BY <2>1 DEF UnacknowledgedCount
  <2>4. end \in Column
    BY <2>2, <2>3, ColumnOfSum
  <2> QED  BY <2>1, <2>4
<1> HIDE DEF end, row, encoder
<1>8. /\ encoder \in SiameseEncoders /\ encoder.added = w.added
      /\ encoder.nextColumnExpected = w.nextColumnExpected
      /\ encoder.nextColumn = w.nextColumn
      /\ encoder.columnStart = w.columnStart /\ encoder.count = w.count
      /\ encoder.firstUnremoved = w.firstUnremoved
  BY <1>5, <1>6, <1>7 DEF SiameseEncoders
<1>9. GoodEncoder(encoder) /\ Unacked(encoder) = Unacked(e)
  BY <1>1, <1>6, <1>8 DEF GoodEncoder, Unacked
<1> QED  BY <1>6, <1>8, <1>9 DEF encoder

(***************************************************************************)
(* siamese_encoder_ack keeps the window in shape, and the column           *)
(* acknowledged moves forward or not at all.                               *)
(***************************************************************************)
LEMMA AcknowledgeResult ==
  ASSUME NEW e, GoodEncoder(e), NEW expected \in Column
  PROVE  /\ GoodEncoder(Acknowledge(e, expected))
         /\ Acknowledge(e, expected).added = e.added
         /\ Unacked(Acknowledge(e, expected)) =< Unacked(e)
         /\ ~IsColumnDeltaNegative(
               SubtractColumns(Acknowledge(e, expected).nextColumnExpected,
                               e.nextColumnExpected))
<1>1. /\ e \in SiameseEncoders /\ e.nextColumnExpected \in Column
      /\ e.columnStart \in Column
  BY DEF GoodEncoder, SiameseEncoders
<1>2. CASE IsOldAck(e, expected)
  <2>1. Unacked(e) \in Int
    BY UnackedType
  <2> QED  BY <1>1, <1>2, <2>1, NoDistance DEF Acknowledge
<1>3. CASE ~IsOldAck(e, expected)
  <2> DEFINE noted   == [e EXCEPT !.nextColumnExpected = expected]
             element == EncoderElement(noted, expected)
             acked   == RemoveBefore(noted, expected)
  <2>1. /\ noted \in SiameseEncoders /\ noted.nextColumnExpected = expected
        /\ noted.columnStart = e.columnStart /\ noted.count = e.count
        /\ noted.firstUnremoved = e.firstUnremoved /\ noted.added = e.added
        /\ noted.nextColumn = e.nextColumn
    BY <1>1 DEF SiameseEncoders
  <2>2. Acknowledge(e, expected) = acked
    BY <1>3 DEF Acknowledge
  <2> HIDE DEF noted
  <2>3. element \in Nat
    <3>1. e.columnStart \in Int /\ expected \in Int
      BY <1>1 DEF Column
    <3>2. SubtractColumns(expected, e.columnStart) \in Column
      BY <3>1, ColumnOfSum
    <3> QED  BY <2>1, <3>2 DEF EncoderElement, Column
  <2>4. \/ acked = noted
        \/ /\ element < noted.count /\ noted.firstUnremoved < element
           /\ acked = [noted EXCEPT !.firstUnremoved = element]
        \/ acked = [noted EXCEPT !.count = 0]
    BY DEF RemoveBefore
  <2> HIDE DEF element, acked
  <2>5. GoodEncoder(noted)
    BY <2>1 DEF GoodEncoder
  <2>6. /\ acked \in SiameseEncoders /\ acked.nextColumnExpected = expected
        /\ acked.added = e.added
    BY <2>1, <2>3, <2>4 DEF SiameseEncoders
  <2>7. GoodEncoder(acked)
    BY <2>3, <2>4, <2>5, <2>6 DEF GoodEncoder, SiameseEncoders
  <2>8. Unacked(acked) =< Unacked(e)
    BY <2>1, <2>3, <2>4, <2>5 DEF GoodEncoder, SiameseEncoders, Unacked
  <2> QED  BY <1>3, <2>2, <2>6, <2>7, <2>8 DEF IsOldAck
<1> QED  BY <1>2, <1>3

(***************************************************************************)
(* What a recovery packet says: it protects the unacknowledged chunks, up  *)
(* to the newest, and names the column of the first one.                   *)
(***************************************************************************)
LEMMA PacketResult ==
  ASSUME NEW e, GoodEncoder(e), ~EncodeNeedsMoreData(e)
  PROVE  LET p == Encode(e).packet
         IN  /\ p = [columnStart |-> (e.added - Unacked(e)) % ColumnPeriod,
                     sumCount    |-> Unacked(e),
                     row         |-> p.row,
                     first       |-> e.added - Unacked(e) + 1]
             /\ p.row \in Nat
             /\ Unacked(e) \in 1 .. MaxPackets
<1> DEFINE w == EncoderRemoveElements(e)
           f == Encode(e).encoder
           p == Encode(e).packet
           n == Unacked(e)
<1>1. /\ GoodEncoder(f) /\ f.count > 0 /\ f.added = e.added /\ Unacked(f) = n
  BY EncodeResult
<1>2. /\ f.columnStart = w.columnStart /\ f.count = w.count
      /\ f.firstUnremoved = w.firstUnremoved /\ f.added = w.added
      /\ \E row \in {0, w.nextCauchyRow + 1} : p = RecoveryPacket(w, row)
  BY DEF Encode
<1>3. w.nextCauchyRow = e.nextCauchyRow
  BY DEF EncoderRemoveElements
<1>4. w.nextCauchyRow + 1 \in Nat
  BY <1>3 DEF GoodEncoder, SiameseEncoders
<1> HIDE DEF w, f, p, n
<1>5. UnacknowledgedCount(w) = n /\ n \in 1 .. MaxPackets
  BY <1>1, <1>2 DEF GoodEncoder, SiameseEncoders, Unacked, UnacknowledgedCount
<1>6. AddColumns(w.columnStart, w.firstUnremoved) = (e.added - n) % ColumnPeriod
  <2>1. w.firstUnremoved = f.count - n
    BY <1>1, <1>2 DEF GoodEncoder, SiameseEncoders, Unacked
  <2>2. (f.columnStart + (f.count - n)) % ColumnPeriod
          = (f.added - n) % ColumnPeriod
    BY <1>1, <1>5, WindowEndsAtAdded
  <2> QED  BY <1>1, <1>2, <2>1, <2>2 DEF AddColumns
<1>7. PICK row \in {0, w.nextCauchyRow + 1} : p = RecoveryPacket(w, row)
  BY <1>2
<1>8. row \in Nat
  BY <1>4, <1>7
<1>9. p = [columnStart |-> (e.added - n) % ColumnPeriod, sumCount |-> n,
           row |-> row, first |-> e.added - n + 1]
  BY <1>1, <1>2, <1>5, <1>6, <1>7 DEF RecoveryPacket
<1> QED  BY <1>5, <1>8, <1>9 DEF p, n

-----------------------------------------------------------------------------
(* The ratio of recovery symbols                                           *)

(***************************************************************************)
(* Ceil is division rounded up.                                            *)
(***************************************************************************)
LEMMA CeilBounds ==
  ASSUME NEW a \in Nat, NEW b \in Nat \ {0}
  PROVE  /\ Ceil(a, b) \in Nat
         /\ a =< b * Ceil(a, b)
         /\ b * Ceil(a, b) =< a + b - 1
<1> DEFINE q == (a + b - 1) \div b
           r == (a + b - 1) % b
<1>1. a + b - 1 \in Nat
  OBVIOUS
<1>2. q \in Int /\ r \in 0 .. b - 1 /\ a + b - 1 = b * q + r
  <2>1. a + b - 1 \in Int
    BY <1>1
  <2> QED  BY <2>1, Division
<1>3. Ceil(a, b) = q
  BY DEF Ceil
<1> HIDE DEF q, r
<1>4. q >= 0
  <2> SUFFICES ASSUME q + 1 =< 0 PROVE FALSE
    BY <1>2
  <2>1. b * (q + 1) =< b * 0
    <3>1. b \in Nat /\ q + 1 \in Int /\ 0 \in Int
      BY <1>2
    <3> QED  BY <3>1, ProductAtLeast
  <2>2. b * (q + 1) = b * q + b /\ b * 0 = 0
    BY <1>2
  <2> QED  BY <1>1, <1>2, <2>1, <2>2
<1> QED  BY <1>2, <1>3, <1>4

\* Chunks of the cycle that were sent: m_segment_chunk_index1 starts again after
\* the recovery symbol that completes a cycle, with the next chunk.
Position(c, f) == IF f = 0 /\ c = FecDenominator THEN 0 ELSE c

\* Recovery symbol f was due, and recovery symbol f + 1 was not passed over.
InCycle(c, f) ==
  /\ f * FecDenominator =< c * FecNumerator
  /\ c * FecNumerator =< (f + 1) * FecDenominator + FecNumerator - 1

\* q cycles are complete.
RatioInv(c, f, chunks, recoveries) ==
  \E q \in Nat :
    /\ InCycle(Position(c, f), f)
    /\ chunks = q * FecDenominator + Position(c, f)
    /\ recoveries = q * FecNumerator + f

IsNext(c, f) == c = Ceil((f + 1) * FecDenominator, FecNumerator)

(***************************************************************************)
(* Within a cycle of FecDenominator chunks and FecNumerator recovery       *)
(* symbols: a recovery symbol is due at the chunk that completes its       *)
(* share, the last one at the end of the cycle, and while none is due no   *)
(* share is complete.                                                      *)
(***************************************************************************)
LEMMA NextIsReached ==
  ASSUME NEW c \in 0 .. FecDenominator, NEW f \in 0 .. FecNumerator - 1,
         InCycle(Position(c, f), f)
  PROVE  /\ IsNext(c, f) => /\ Position(c, f) = c
                            /\ (f + 1) * FecDenominator =< c * FecNumerator
                            /\ f = FecNumerator - 1 => c = FecDenominator
         /\ ~IsNext(c, f) =>
              /\ Position(c, f) < FecDenominator
              /\ Position(c, f) * FecNumerator < (f + 1) * FecDenominator
<1> DEFINE D == FecDenominator
           F == FecNumerator
           fD == (f + 1) * FecDenominator
           n == Ceil(fD, FecNumerator)
           p == Position(c, f)
<1>1. /\ c \in Nat /\ f \in Nat /\ f + 1 =< F /\ F \in Nat /\ F >= 2
         /\ D \in Nat
      /\ F =< D /\ c =< D /\ D >= 2
  OBVIOUS
<1>2. fD \in Nat /\ D =< fD /\ fD =< F * D
  <2>1. D * 1 =< D * (f + 1) /\ D * (f + 1) =< D * F
    <3>1. D \in Nat /\ 1 \in Int /\ f + 1 \in Int /\ F \in Int
          /\ 1 =< f + 1 /\ f + 1 =< F
      BY <1>1
    <3> HIDE DEF D, F
    <3> QED  BY <3>1, ProductAtLeast
  <2>2. D * (f + 1) = fD /\ D * F = F * D /\ D * 1 = D
    BY <1>1
  <2>3. D * (f + 1) \in Nat
    BY <1>1
  <2> QED  BY <2>1, <2>2, <2>3
<1>3. n \in Nat /\ fD =< F * n /\ F * n =< fD + F - 1
  <2>1. FecNumerator \in Nat \ {0}
    OBVIOUS
  <2> HIDE DEF fD
  <2> QED  BY <1>2, <2>1, CeilBounds
<1>4. p \in Nat /\ p =< D /\ (p = c \/ (p = 0 /\ c = D /\ f = 0))
  BY <1>1 DEF Position
<1>5. p * F =< fD + F - 1
  BY DEF InCycle
<1>6. IsNext(c, f) <=> c = n
  BY DEF IsNext
<1>7. n =< D
  <2> SUFFICES ASSUME D + 1 =< n PROVE FALSE
    BY <1>1, <1>3
  <2>1. F * (D + 1) =< F * n
    BY <1>1, <1>3, ProductAtLeast
  <2>2. F * (D + 1) = F * D + F
    BY <1>1
  <2>3. F * D \in Nat /\ F * n \in Int
    BY <1>1, <1>3
  <2> QED  BY <1>1, <1>2, <1>3, <2>1, <2>2, <2>3
<1>8. p =< n
  <2> SUFFICES ASSUME n + 1 =< p PROVE FALSE
    BY <1>3, <1>4
  <2>1. F * (n + 1) =< F * p
    BY <1>1, <1>3, <1>4, ProductAtLeast
  <2>2. F * (n + 1) = F * n + F /\ F * p = p * F /\ F * n \in Nat
        /\ F * p \in Nat
    BY <1>1, <1>3, <1>4
  <2> QED  BY <1>1, <1>2, <1>3, <1>5, <2>1, <2>2
<1>9. n >= 1
  <2>1. n = 0 => F * n = 0
    BY <1>1
  <2> QED  BY <1>1, <1>2, <1>3, <2>1
<1>10. f = 0 => n < D
  <2> SUFFICES ASSUME f = 0, D =< n PROVE FALSE
    BY <1>1, <1>3
  <2>1. fD = D
    BY <1>1
  <2>2. F * D =< F * n
    BY <1>1, <1>3, ProductAtLeast
  <2>3. D * 2 =< D * F /\ D * F = F * D /\ F * D \in Nat /\ F * n \in Nat
    BY <1>1, <1>3, ProductAtLeast
  <2> QED  BY <1>1, <1>3, <2>1, <2>2, <2>3
<1>11. ASSUME IsNext(c, f)
       PROVE  p = c /\ fD =< c * F /\ (f = F - 1 => c = D)
  <2>1. p = c
    BY <1>4, <1>6, <1>10, <1>11
  <2>2. fD =< c * F
    BY <1>1, <1>3, <1>6, <1>11
  <2>3. ASSUME f = F - 1 PROVE c = D
    <3>1. fD = F * D
      BY <2>3, <1>1
    <3>2. ASSUME c + 1 =< D PROVE FALSE
      <4>1. F * (c + 1) =< F * D
        BY <1>1, <3>2, ProductAtLeast
      <4>2. F * (c + 1) = F * c + F /\ F * c = c * F /\ F * c \in Nat
            /\ F * D \in Nat
        BY <1>1
      <4> QED  BY <1>1, <2>2, <3>1, <4>1, <4>2
    <3> QED  BY <1>1, <3>2
  <2> QED  BY <2>1, <2>2, <2>3
<1>12. ASSUME ~IsNext(c, f)
       PROVE  p < D /\ p * F < fD
  <2>1. p < n
    BY <1>3, <1>4, <1>6, <1>8, <1>9, <1>12
  <2>2. p < D
    BY <1>1, <1>3, <1>4, <1>7, <2>1
  <2>3. F * (p + 1) =< F * n
    BY <1>1, <1>3, <1>4, <2>1, ProductAtLeast
  <2>4. F * (p + 1) = F * p + F /\ F * p = p * F /\ F * p \in Nat
        /\ F * n \in Nat
    BY <1>1, <1>3, <1>4
  <2> QED  BY <1>1, <1>2, <1>3, <2>2, <2>3, <2>4
<1> QED  BY <1>11, <1>12

(***************************************************************************)
(* A chunk that is sent while no recovery symbol is due is the next one of *)
(* its cycle, or the first of the next.                                    *)
(***************************************************************************)
LEMMA ChunkKeepsRatio ==
  ASSUME NEW c \in 0 .. FecDenominator, NEW f \in 0 .. FecNumerator - 1,
         NEW chunks \in Nat, NEW recoveries,
         RatioInv(c, f, chunks, recoveries), ~IsNext(c, f)
  PROVE  RatioInv((c % FecDenominator) + 1, f, chunks + 1, recoveries)
<1> DEFINE D == FecDenominator
           F == FecNumerator
           p == Position(c, f)
           c1 == (c % FecDenominator) + 1
<1>1. PICK q \in Nat : /\ InCycle(p, f)
                       /\ chunks = q * D + p
                       /\ recoveries = q * F + f
  BY DEF RatioInv
<1>2. /\ c \in Nat /\ f \in Nat /\ f + 1 =< F /\ F \in Nat /\ F >= 2
         /\ D \in Nat
      /\ F =< D /\ c =< D /\ D >= 2
  OBVIOUS
<1>3. p < D /\ p * F < (f + 1) * D
  BY <1>1, NextIsReached
<1>4. p \in Nat /\ (p = c \/ (p = 0 /\ c = D /\ f = 0))
  BY <1>2 DEF Position
<1>5. c1 = p + 1
  <2>1. ASSUME NEW m \in 0 .. D - 1 PROVE m % D = m
    BY <1>2
  <2>2. p \in 0 .. D - 1
    BY <1>2, <1>3, <1>4
  <2>3. p % D = p
    BY <2>1, <2>2
  <2>4. D % D = 0
    BY <1>2
  <2> QED  BY <1>2, <1>3, <1>4, <2>3, <2>4
<1> HIDE DEF c1
<1>6. Position(c1, f) = c1
  <2>1. CASE f = 0
    <3>1. p < D - 1
      <4> SUFFICES ASSUME p = D - 1 PROVE FALSE
        BY <1>2, <1>3, <1>4
      <4>1. (D - 1) * F < D
        BY <1>2, <1>3, <2>1
      <4>2. (D - 1) * 2 =< (D - 1) * F
        <5>1. D - 1 \in Nat /\ 2 \in Int /\ F \in Int /\ 2 =< F
          BY <1>2
        <5> HIDE DEF D, F
        <5> QED  BY <5>1, ProductAtLeast
      <4>3. (D - 1) * 2 = D + D - 2 /\ (D - 1) * F \in Int
        BY <1>2
      <4>4. D = 2
        BY <1>2, <4>1, <4>2, <4>3
      <4> QED  BY <1>2, <4>1, <4>4
    <3> QED  BY <1>2, <1>4, <1>5, <3>1 DEF Position
  <2>2. CASE f # 0
    BY <2>2 DEF Position
  <2> QED  BY <2>1, <2>2
<1>7. InCycle(c1, f)
  <2>1. c1 * F = p * F + F /\ p * F \in Nat /\ f * D \in Nat
        /\ (f + 1) * D \in Nat
    BY <1>2, <1>4, <1>5
  <2>2. f * D =< p * F
    BY <1>1 DEF InCycle
  <2> QED  BY <1>2, <1>3, <2>1, <2>2 DEF InCycle
<1>8. chunks + 1 = q * D + c1
  <2>1. q * D \in Nat
    BY <1>2
  <2> QED  BY <1>1, <1>4, <1>5, <2>1
<1> QED  BY <1>1, <1>6, <1>7, <1>8 DEF RatioInv, c1

(***************************************************************************)
(* A recovery symbol that is due is the next one of its cycle; the last    *)
(* one completes the cycle.                                                *)
(***************************************************************************)
LEMMA RecoveryKeepsRatio ==
  ASSUME NEW c \in 0 .. FecDenominator, NEW f \in 0 .. FecNumerator - 1,
         NEW chunks \in Nat, NEW recoveries \in Nat,
         RatioInv(c, f, chunks, recoveries), IsNext(c, f)
  PROVE  RatioInv(c, (f + 1) % FecNumerator, chunks, recoveries + 1)
<1> DEFINE D == FecDenominator
           F == FecNumerator
           p == Position(c, f)
           f1 == (f + 1) % FecNumerator
<1>1. PICK q \in Nat : /\ InCycle(p, f)
                       /\ chunks = q * D + p
                       /\ recoveries = q * F + f
  BY DEF RatioInv
<1>2. /\ c \in Nat /\ f \in Nat /\ f + 1 =< F /\ F \in Nat /\ F >= 2
         /\ D \in Nat
      /\ F =< D /\ c =< D /\ D >= 2
  OBVIOUS
<1>3. p = c /\ (f + 1) * D =< c * F /\ (f = F - 1 => c = D)
  BY <1>1, NextIsReached
<1>4. q * F \in Nat /\ q * D \in Nat /\ c * F \in Nat /\ (f + 1) * D \in Nat
  BY <1>2
<1>5. CASE f + 1 < F
  <2>1. f1 = f + 1 /\ f1 # 0
    BY <1>2, <1>5
  <2>2. Position(c, f1) = c
    BY <2>1 DEF Position
  <2>3. (f1 + 1) * D = (f + 1) * D + D
    BY <1>2, <2>1
  <2>4. InCycle(c, f1)
    BY <1>1, <1>2, <1>3, <1>4, <2>1, <2>3 DEF InCycle
  <2>5. recoveries + 1 = q * F + f1
    BY <1>1, <1>2, <1>4, <2>1
  <2> HIDE DEF f1
  <2> QED  BY <1>1, <1>3, <2>2, <2>4, <2>5 DEF RatioInv, f1
<1>6. CASE f + 1 = F
  <2>1. f1 = 0 /\ c = D
    BY <1>2, <1>3, <1>6
  <2>2. Position(c, f1) = 0
    BY <2>1 DEF Position
  <2>3. InCycle(0, 0)
    BY <1>2 DEF InCycle
  <2>4. (q + 1) * D = q * D + D /\ (q + 1) * F = q * F + F /\ q + 1 \in Nat
    BY <1>2
  <2>5. chunks = (q + 1) * D + 0 /\ recoveries + 1 = (q + 1) * F + 0
    BY <1>1, <1>2, <1>3, <1>4, <1>6, <2>1, <2>4
  <2> HIDE DEF f1
  <2> QED  BY <2>1, <2>2, <2>3, <2>4, <2>5 DEF RatioInv, f1
<1> QED  BY <1>2, <1>5, <1>6

(***************************************************************************)
(* While no recovery symbol is due, the recovery symbols sent are the      *)
(* integer part of the ratio times the chunks sent.                        *)
(***************************************************************************)
LEMMA RatioIsExact ==
  ASSUME NEW c \in 0 .. FecDenominator, NEW f \in 0 .. FecNumerator - 1,
         NEW chunks \in Nat, NEW recoveries \in Nat,
         RatioInv(c, f, chunks, recoveries), ~IsNext(c, f)
  PROVE  recoveries = (chunks * FecNumerator) \div FecDenominator
<1> DEFINE D == FecDenominator
           F == FecNumerator
           p == Position(c, f)
           r == p * F - f * D
<1>1. PICK q \in Nat : /\ InCycle(p, f)
                       /\ chunks = q * D + p
                       /\ recoveries = q * F + f
  BY DEF RatioInv
<1>2. /\ c \in Nat /\ f \in Nat /\ F \in Nat /\ F >= 2 /\ D \in Nat \ {0}
  OBVIOUS
<1>3. p * F < (f + 1) * D /\ p \in Nat
  BY <1>1, <1>2, NextIsReached DEF Position
<1>4. r \in 0 .. D - 1
  <2>1. p * F \in Nat /\ f * D \in Nat /\ (f + 1) * D = f * D + D
    BY <1>2, <1>3
  <2>2. f * D =< p * F
    BY <1>1 DEF InCycle
  <2> QED  BY <1>2, <1>3, <2>1, <2>2
<1>5. chunks * F = D * recoveries + r
  <2>1. chunks * F = q * D * F + p * F
    BY <1>1, <1>2, <1>3
  <2>2. D * recoveries = D * (q * F) + D * f
    BY <1>1, <1>2
  <2>3. q * D * F = D * (q * F) /\ D * f = f * D
    BY <1>2
  <2>4. q * D * F \in Nat /\ p * F \in Nat /\ f * D \in Nat
    BY <1>2, <1>3
  <2> QED  BY <2>1, <2>2, <2>3, <2>4
<1>6. D \in Nat \ {0} /\ recoveries \in Int
  BY <1>2
<1> HIDE DEF r, D, F
<1>7. (D * recoveries + r) \div D = recoveries
  BY <1>4, <1>6, DivisionIsUnique
<1>8. (chunks * F) \div D = recoveries
  BY <1>5, <1>7
<1> QED  BY <1>8 DEF D, F

(***************************************************************************)
(* Two recovery symbols never follow each other: there is a chunk between  *)
(* them, as the ratio is at most 1.                                        *)
(***************************************************************************)
LEMMA OneRecoveryAtATime ==
  ASSUME NEW c \in 0 .. FecDenominator, NEW f \in 0 .. FecNumerator - 1,
         IsNext(c, f)
  PROVE  ~IsNext(c, (f + 1) % FecNumerator)
<1> DEFINE D == FecDenominator
           F == FecNumerator
           fc == F * c
           fD == (f + 1) * D
           f1 == (f + 1) % F
           fD1 == (f1 + 1) * D
<1>1. /\ D \in Nat /\ F \in Nat /\ F >= 2 /\ F =< D
      /\ f \in 0 .. F - 1 /\ c \in Nat
  OBVIOUS
<1>2. fD =< fc /\ fc =< fD + F - 1
  BY <1>1, CeilBounds DEF IsNext
<1> SUFFICES ASSUME IsNext(c, f1) PROVE FALSE
  OBVIOUS
<1>3. f1 = IF f + 1 = F THEN 0 ELSE f + 1
  BY <1>1
<1>4. fD1 =< fc /\ fc =< fD1 + F - 1
  <2>1. f1 \in Nat
    BY <1>1, <1>3
  <2> QED  BY <1>1, <2>1, CeilBounds DEF IsNext
<1>5. fD \in Nat /\ fD1 \in Nat /\ fc \in Nat
  BY <1>1, <1>3
<1>6. CASE f + 1 = F
  <2>1. fD = F * D /\ fD1 = D
    BY <1>1, <1>3, <1>6
  <2> DEFINE FD == F * D
  <2>2. FD >= 2 * D
    <3>1. D * 2 =< D * F
      BY <1>1, ProductAtLeast
    <3> QED  BY <1>1, <3>1
  <2>3. FD = fD /\ FD \in Nat
    BY <1>5, <2>1
  <2> HIDE DEF FD, fD, fD1, fc, f1, D, F
  <2> QED  BY <1>1, <1>2, <1>4, <1>5, <2>1, <2>2, <2>3
<1>7. CASE f + 1 # F
  <2>1. fD1 = fD + D
    BY <1>1, <1>3, <1>7
  <2> HIDE DEF fD, fD1, fc, f1, D, F
  <2> QED  BY <1>1, <1>2, <1>4, <1>5, <2>1
<1> QED  BY <1>6, <1>7

-----------------------------------------------------------------------------
(* What the window protects                                                *)

\* nextColumnExpected is the column after the newest chunk acknowledged.
AckIsExact(e) ==
  e.nextColumnExpected = (e.added - Unacked(e)) % ColumnPeriod

(***************************************************************************)
(* An acknowledgement is taken for old exactly if it is older than the     *)
(* newest one: half the period of columns tells them apart.                *)
(***************************************************************************)
LEMMA OldAckIsTold ==
  ASSUME MaxPackets < ColumnPeriod \div 2,
         NEW e, GoodEncoder(e), AckIsExact(e),
         NEW n \in 0 .. e.added, e.added - n =< ColumnPeriod \div 2
  PROVE  IsOldAck(e, n % ColumnPeriod) <=> n < e.added - Unacked(e)
<1> DEFINE newest == e.added - Unacked(e)
           delta  == n - newest
           half   == ColumnPeriod \div 2
<1>1. /\ newest \in Int /\ n \in Int /\ delta \in Int
         /\ Unacked(e) \in 0 .. MaxPackets
      /\ e.added \in Nat
  BY UnackedType
<1>2. SubtractColumns(n % ColumnPeriod, e.nextColumnExpected)
        = delta % ColumnPeriod
  <2>1. ((n % ColumnPeriod) - (newest % ColumnPeriod)) % ColumnPeriod
          = ((n % ColumnPeriod) - newest) % ColumnPeriod
    <3>1. n % ColumnPeriod \in Int
      BY <1>1
    <3> HIDE DEF newest
    <3> QED  BY <1>1, <3>1, SumOfResidue
  <2>2. ((n % ColumnPeriod) + (-newest)) % ColumnPeriod
          = (n + (-newest)) % ColumnPeriod
    <3>1. -newest \in Int
      BY <1>1
    <3> HIDE DEF newest
    <3> QED  BY <1>1, <3>1, SumOfResidue
  <2>3. (n % ColumnPeriod) - newest = (n % ColumnPeriod) + (-newest)
        /\ n - newest = n + (-newest)
    BY <1>1
  <2> QED  BY <2>1, <2>2, <2>3 DEF AckIsExact, SubtractColumns
<1>3. /\ half \in Nat /\ half + half =< ColumnPeriod
      /\ MaxPackets < half
  OBVIOUS
<1>4. delta =< Unacked(e) /\ -half =< delta
  BY <1>1
<1> HIDE DEF half, newest, delta
<1>5. CASE delta >= 0
  <2>1. delta \in 0 .. ColumnPeriod - 1 /\ delta < half
    BY <1>1, <1>3, <1>4, <1>5
  <2>2. delta % ColumnPeriod = delta
    BY <2>1
  <2> QED  BY <1>1, <1>2, <1>5, <2>1, <2>2
           DEF IsOldAck, IsColumnDeltaNegative, half, newest, delta
<1>6. CASE delta < 0
  <2>1. delta + ColumnPeriod \in 0 .. ColumnPeriod - 1
        /\ delta + ColumnPeriod >= half
    BY <1>1, <1>3, <1>4, <1>6
  <2>2. delta % ColumnPeriod = delta + ColumnPeriod
    <3>1. (delta + ColumnPeriod * 1) % ColumnPeriod = delta % ColumnPeriod
      <4>1. delta \in Int /\ 1 \in Int /\ ColumnPeriod \in Nat \ {0}
        BY <1>1 DEF delta
      <4> QED  BY <4>1, AddMultiple
    <3>2. delta + ColumnPeriod * 1 = delta + ColumnPeriod
      BY <1>1
    <3> QED  BY <2>1, <3>1, <3>2
  <2> QED  BY <1>1, <1>2, <1>6, <2>1, <2>2
           DEF IsOldAck, IsColumnDeltaNegative, half, newest, delta
<1> QED  BY <1>1, <1>5, <1>6

(***************************************************************************)
(* After an acknowledgement, what is unacknowledged is what it and the     *)
(* newest one before it leave open.                                        *)
(***************************************************************************)
LEMMA AckStaysExact ==
  ASSUME MaxPackets < ColumnPeriod \div 2,
         NEW e, GoodEncoder(e), AckIsExact(e),
         NEW n \in 0 .. e.added, e.added - n =< ColumnPeriod \div 2
  PROVE  AckIsExact(Acknowledge(e, n % ColumnPeriod))
<1> DEFINE column  == n % ColumnPeriod
           noted   == [e EXCEPT !.nextColumnExpected = column]
           element == EncoderElement(noted, column)
           acked   == RemoveBefore(noted, column)
           d       == e.added - n
<1>1. CASE n < e.added - Unacked(e)
  <2>1. Acknowledge(e, column) = e
    BY <1>1, OldAckIsTold DEF Acknowledge
  <2> QED  BY <2>1
<1>2. CASE ~(n < e.added - Unacked(e))
  <2>1. Acknowledge(e, column) = acked
    BY <1>2, OldAckIsTold DEF Acknowledge
  <2>2. /\ e \in SiameseEncoders /\ Unacked(e) \in 0 .. MaxPackets
        /\ e.added \in Nat /\ e.count \in Nat /\ e.firstUnremoved \in Nat
        /\ e.columnStart \in Column /\ e.columnStart \in Int /\ n \in Nat
    BY UnackedType DEF GoodEncoder
  <2>3. column \in Column
    BY <2>2 DEF Column
  <2> HIDE DEF column
  <2>4. /\ noted \in SiameseEncoders /\ noted.nextColumnExpected = column
        /\ noted.columnStart = e.columnStart /\ noted.count = e.count
        /\ noted.firstUnremoved = e.firstUnremoved /\ noted.added = e.added
    BY <2>2, <2>3 DEF SiameseEncoders
  <2> HIDE DEF noted
  <2>5. d \in 0 .. Unacked(e) /\ n = e.added - d
    BY <1>2, <2>2
  <2>6. CASE e.count > 0
    <3>1. Unacked(e) = e.count - e.firstUnremoved /\ e.count =< MaxPackets
          /\ MaxPackets < ColumnPeriod \div 2
      BY <2>6 DEF Unacked, GoodEncoder
    <3>2. e.count - d \in 0 .. ColumnPeriod - 1 /\ e.count < ColumnPeriod \div 2
          /\ e.firstUnremoved =< e.count - d /\ e.count - d =< e.count
      BY <2>2, <2>5, <3>1
    <3>3. element = e.count - d
      <4>1. (e.columnStart + (e.count - d)) % ColumnPeriod = n % ColumnPeriod
        <5>1. d \in Int
          BY <2>5
        <5> HIDE DEF d
        <5> QED  BY <2>5, <2>6, <5>1, WindowEndsAtAdded
      <4>2. element = (column - e.columnStart) % ColumnPeriod
        BY <2>4 DEF EncoderElement, SubtractColumns
      <4> DEFINE k == e.count - d
                 x == e.columnStart + k
      <4>3. k \in Int /\ x \in Int /\ -e.columnStart \in Int
        BY <2>2, <2>5
      <4>4. ((x % ColumnPeriod) + (-e.columnStart)) % ColumnPeriod
              = (x + (-e.columnStart)) % ColumnPeriod
        <5> HIDE DEF x, k
        <5> QED  BY <4>3, SumOfResidue
      <4>5. x + (-e.columnStart) = k
        BY <2>2, <4>3
      <4>6. (x % ColumnPeriod) + (-e.columnStart) = column - e.columnStart
        BY <2>2, <4>1, <4>3 DEF column
      <4>7. k % ColumnPeriod = k
        <5>1. k \in 0 .. ColumnPeriod - 1
          BY <3>2
        <5> HIDE DEF k
        <5> QED  BY <5>1
      <4> QED  BY <4>2, <4>4, <4>5, <4>6, <4>7
    <3> HIDE DEF element, d
    <3>4. CASE d = 0
      <4>1. acked = [noted EXCEPT !.count = 0]
        BY <2>2, <2>4, <3>2, <3>3, <3>4
           DEF RemoveBefore, element, IsColumnDeltaNegative
      <4>2. Unacked(acked) = 0 /\ acked.nextColumnExpected = column
            /\ acked.added = e.added
        BY <2>4, <4>1 DEF SiameseEncoders, Unacked
      <4>3. e.added - 0 = n
        BY <2>2, <2>5, <3>4
      <4> QED  BY <2>1, <4>2, <4>3 DEF AckIsExact, column
    <3>5. CASE d # 0
      <4>1. element < e.count
        BY <2>2, <2>5, <3>3, <3>5
      <4>2. \/ e.firstUnremoved < element
               /\ acked = [noted EXCEPT !.firstUnremoved = element]
            \/ ~(e.firstUnremoved < element) /\ acked = noted
        BY <2>4, <4>1 DEF RemoveBefore, element
      <4>3. /\ acked.count = e.count /\ acked.firstUnremoved = element
            /\ acked.nextColumnExpected = column /\ acked.added = e.added
        BY <2>2, <2>4, <2>5, <3>2, <3>3, <4>2 DEF SiameseEncoders
      <4>4. Unacked(acked) = d
        BY <2>2, <2>5, <2>6, <3>3, <4>3 DEF Unacked
      <4> QED  BY <2>1, <2>5, <4>3, <4>4 DEF AckIsExact, column
    <3> QED  BY <3>4, <3>5
  <2>7. CASE ~(e.count > 0)
    <3>1. Unacked(e) = 0 /\ d = 0 /\ n = e.added
      BY <2>2, <2>5, <2>7 DEF Unacked
    <3>2. element \in Nat
      <4>1. e.columnStart \in Int /\ column \in Int
        BY <2>2, <2>3 DEF Column
      <4>2. SubtractColumns(column, e.columnStart) \in Column
        BY <4>1, ColumnOfSum
      <4> QED  BY <2>4, <4>2 DEF EncoderElement, Column
    <3>3. acked = noted \/ acked = [noted EXCEPT !.count = 0]
      BY <2>2, <2>4, <2>7, <3>2 DEF RemoveBefore
    <3>4. /\ acked.count = 0 /\ acked.nextColumnExpected = column
          /\ acked.added = e.added
      BY <2>2, <2>4, <2>7, <3>3 DEF SiameseEncoders
    <3>5. Unacked(acked) = 0 /\ e.added - 0 = n
      BY <2>2, <3>1, <3>4 DEF Unacked
    <3> QED  BY <2>1, <3>4, <3>5 DEF AckIsExact, column
  <2> QED  BY <2>6, <2>7
<1> QED  BY <1>1, <1>2

-----------------------------------------------------------------------------
(* Sequences and columns                                                   *)

(***************************************************************************)
(* The sequence t is q with x put in at place p: what is before it stays,  *)
(* and what is behind it moves on.                                         *)
(***************************************************************************)
IsInserted(q, p, x, t) ==
  /\ Len(t) = Len(q) + 1
  /\ \A i \in 1 .. Len(q) + 1 :
       t[i] = IF i < p THEN q[i] ELSE IF i = p THEN x ELSE q[i - 1]

(***************************************************************************)
(* That is what the library's InsertAt gives.                              *)
(***************************************************************************)
LEMMA InsertAtResult ==
  ASSUME NEW S, NEW q \in Seq(S), NEW p \in 1 .. Len(q) + 1, NEW x \in S
  PROVE  /\ InsertAt(q, p, x) \in Seq(S)
         /\ IsInserted(q, p, x, InsertAt(q, p, x))
<1> DEFINE n == Len(q)
           a == SubSeq(q, 1, p - 1)
           b == SubSeq(q, p, n)
           m == a \o <<x>>
           t == InsertAt(q, p, x)
<1>1. n \in Nat /\ p \in 1 .. n + 1
  BY LenProperties
<1>2. /\ a \in Seq(S) /\ Len(a) = p - 1
      /\ \A i \in 1 .. p - 1 : a[i] = q[i]
  <2>1. \A i \in 1 .. p - 1 : q[i] \in S
    BY <1>1, ElementOfSeq
  <2>2. /\ a \in Seq(S)
        /\ Len(a) = IF 1 =< p - 1 THEN (p - 1) - 1 + 1 ELSE 0
        /\ \A i \in 1 .. (p - 1) - 1 + 1 : a[i] = q[1 + i - 1]
    BY <1>1, <2>1, SubSeqProperties
  <2> HIDE DEF a
  <2> QED  BY <1>1, <2>2
<1>3. /\ b \in Seq(S) /\ Len(b) = n - p + 1
      /\ \A i \in 1 .. n - p + 1 : b[i] = q[p + i - 1]
  <2>1. \A i \in p .. n : q[i] \in S
    BY <1>1, ElementOfSeq
  <2>2. /\ b \in Seq(S)
        /\ Len(b) = IF p =< n THEN n - p + 1 ELSE 0
        /\ \A i \in 1 .. n - p + 1 : b[i] = q[p + i - 1]
    BY <1>1, <2>1, SubSeqProperties
  <2> HIDE DEF b
  <2> QED  BY <1>1, <2>2
<1>4. t = m \o b
  BY DEF InsertAt
<1> HIDE DEF a, b, t
<1>5. /\ m \in Seq(S) /\ Len(m) = p
      /\ \A i \in 1 .. p : m[i] = IF i < p THEN q[i] ELSE x
  <2> DEFINE one == <<x>>
  <2>1. one \in Seq(S) /\ Len(one) = 1 /\ one[1] = x
    OBVIOUS
  <2>2. m = a \o one
    OBVIOUS
  <2> HIDE DEF one, m
  <2>0. /\ a \o one \in Seq(S) /\ Len(a \o one) = Len(a) + Len(one)
        /\ \A i \in 1 .. Len(a) + Len(one) :
             (a \o one)[i] = IF i <= Len(a) THEN a[i] ELSE one[i - Len(a)]
    BY <1>2, <2>1, ConcatProperties
  <2>3. /\ m \in Seq(S) /\ Len(m) = (p - 1) + 1
        /\ \A i \in 1 .. (p - 1) + 1 :
             m[i] = IF i <= p - 1 THEN a[i] ELSE one[i - (p - 1)]
    BY <1>2, <2>0, <2>1, <2>2
  <2>4. ASSUME NEW i \in 1 .. p PROVE m[i] = IF i < p THEN q[i] ELSE x
    <3>1. CASE i < p
      BY <1>1, <1>2, <2>3, <3>1
    <3>2. CASE ~(i < p)
      <4>1. i - (p - 1) = 1 /\ ~(i <= p - 1) /\ i \in 1 .. (p - 1) + 1
        BY <1>1, <3>2
      <4>2. m[i] = one[i - (p - 1)]
        BY <2>3, <4>1
      <4> QED  BY <2>1, <3>2, <4>1, <4>2
    <3> QED  BY <3>1, <3>2
  <2> QED  BY <1>1, <2>3, <2>4
<1> HIDE DEF m
<1>6. /\ t \in Seq(S) /\ Len(t) = n + 1
      /\ \A i \in 1 .. n + 1 :
           t[i] = IF i <= p THEN m[i] ELSE b[i - p]
  <2>1. /\ m \o b \in Seq(S) /\ Len(m \o b) = Len(m) + Len(b)
        /\ \A i \in 1 .. Len(m) + Len(b) :
             (m \o b)[i] = IF i <= Len(m) THEN m[i] ELSE b[i - Len(m)]
    <3>1. m \in Seq(S) /\ b \in Seq(S)
      BY <1>3, <1>5
    <3> QED  BY <3>1, ConcatProperties, Zenon
  <2>2. Len(m) = p /\ Len(b) = n - p + 1 /\ Len(m) + Len(b) = n + 1
    BY <1>1, <1>3, <1>5
  <2> QED  BY <1>4, <2>1, <2>2
<1>7. ASSUME NEW i \in 1 .. n + 1
      PROVE  t[i] = IF i < p THEN q[i] ELSE IF i = p THEN x ELSE q[i - 1]
  <2>1. CASE i =< p
    BY <1>1, <1>5, <1>6, <2>1
  <2>2. CASE i > p
    <3>1. i - p \in 1 .. n - p + 1 /\ p + (i - p) - 1 = i - 1
      BY <1>1, <2>2
    <3>2. t[i] = b[i - p] /\ b[i - p] = q[p + (i - p) - 1]
      BY <1>1, <1>3, <1>6, <2>2, <3>1
    <3> QED  BY <1>1, <2>2, <3>1, <3>2
  <2> QED  BY <1>1, <2>1, <2>2
<1>8. t \in Seq(S) /\ IsInserted(q, p, x, t)
  BY <1>1, <1>6, <1>7 DEF IsInserted
<1> QED  BY <1>8 DEF t

(***************************************************************************)
(* Columns up to half the period do not wrap: a distance between two of    *)
(* them that does not count as negative is their difference.               *)
(***************************************************************************)
LEMMA ElementOfColumn ==
  ASSUME NEW K \in Nat, K =< ColumnPeriod \div 2,
         NEW x \in 0 .. K, NEW c \in 0 .. K,
         ~IsColumnDeltaNegative(SubtractColumns(x, c))
  PROVE  SubtractColumns(x, c) = x - c /\ x >= c
<1> DEFINE P == ColumnPeriod
           h == ColumnPeriod \div 2
<1>1. P \in Nat /\ h \in Nat /\ 2 * h =< P /\ P > 1 /\ K =< h
  BY ColumnPeriodAssumption
<1>2. ASSUME NEW y \in 0 .. P - 1 PROVE y % P = y
  BY <1>1, <1>2
<1>3. CASE x >= c
  <2>1. x - c \in 0 .. P - 1
    BY <1>1, <1>3
  <2> QED  BY <1>2, <1>3, <2>1 DEF SubtractColumns
<1>4. CASE x < c
  <2> DEFINE y == P + x - c
  <2>1. y \in 0 .. P - 1 /\ x - c = y + P * (-1)
    BY <1>1, <1>4
  <2>2. y % P = y
    BY <1>2, <2>1
  <2>3. (y + P * (-1)) % P = y % P
    <3>1. y \in Int /\ -1 \in Int /\ P \in Nat \ {0}
      BY <1>1, <2>1
    <3> HIDE DEF y, P
    <3> QED  BY <3>1, AddMultiple
  <2>4. SubtractColumns(x, c) = y
    BY <2>1, <2>2, <2>3 DEF SubtractColumns
  <2>5. y >= h
    BY <1>1, <1>4
  <2> QED  BY <2>4, <2>5 DEF IsColumnDeltaNegative
<1> QED  BY <1>3, <1>4

(***************************************************************************)
(* And adding within them does not wrap either.                            *)
(***************************************************************************)
LEMMA SumOfColumns ==
  ASSUME NEW K \in Nat, K =< ColumnPeriod \div 2,
         NEW c \in Int, NEW n \in Int, c + n \in 0 .. K
  PROVE  AddColumns(c, n) = c + n
<1>1. K < ColumnPeriod
  BY ColumnPeriodAssumption
<1>2. c + n \in Column
  BY <1>1, ColumnPeriodAssumption DEF Column
<1> QED  BY <1>2, SmallResidue DEF AddColumns

-----------------------------------------------------------------------------
(* What holds of a decoder                                                 *)

Entries == [columnStart : Nat, start : Int, end : Int, row : Nat, first : Int]

Regions == [count : Nat, start : Int, end : Int, lost : Nat]

Decoders ==
  [columnStart : Nat, count : Nat, got : SUBSET Int, next : Int,
   latestColumn : Int, recs : Seq(Entries),
   lastMetadata : [columnStart : Nat, sumCount : Nat],
   recovered : SUBSET (Nat \X Nat), checked : Regions, disabled : BOOLEAN]

(***************************************************************************)
(* The window is within the columns of the chunks 1 .. K, what was got is  *)
(* within the window, and all that is before the next expected element was *)
(* got.                                                                    *)
(***************************************************************************)
WindowFits(d, K) ==
  /\ d.columnStart + d.count =< K
  /\ d.got \subseteq 0 .. d.count - 1
  /\ 0 .. d.next - 1 \subseteq d.got

(***************************************************************************)
(* A recovery packet that is held protects elements of the window, and its *)
(* data is of the chunks of their columns.                                 *)
(***************************************************************************)
EntryFits(d, r) ==
  /\ 0 =< r.start /\ r.start < r.end /\ r.end =< d.count
  /\ r.first = d.columnStart + r.start + 1

EntriesFit(d) == \A i \in 1 .. Len(d.recs) : EntryFits(d, d.recs[i])

(***************************************************************************)
(* The last recovery packet in order ended at an element that is passed,   *)
(* or is followed by one that is held: trimming by it, when none is held,  *)
(* drops only what is passed.                                              *)
(***************************************************************************)
MetadataEnd(d) == d.lastMetadata.columnStart + d.lastMetadata.sumCount
                    - d.columnStart

MetadataPassed(d) ==
  /\ d.lastMetadata.sumCount = 0 => d.lastMetadata.columnStart = 0
  /\ d.lastMetadata.sumCount > 0 =>
       \/ d.next < 0
       \/ MetadataEnd(d) =< d.next
       \/ \E i \in 1 .. Len(d.recs) : MetadataEnd(d) =< d.recs[i].end
  /\ d.count = 0 => d.lastMetadata.sumCount = 0

GoodWindow(d, K) ==
  /\ d \in Decoders
  /\ WindowFits(d, K)
  /\ EntriesFit(d)
  /\ d.next < 0 => d.recs # <<>>
  /\ MetadataPassed(d)
  /\ AreOwnSymbols(d.recovered, K)

(***************************************************************************)
(* A region is what a fresh count over its recovery packets would say.     *)
(***************************************************************************)
GoodRegion(d, c) ==
  /\ c.count \in 1 .. Len(d.recs)
  /\ c.start = d.recs[1].start
  /\ \A i \in 1 .. c.count : d.recs[i].end =< c.end
  /\ \E i \in 1 .. c.count : d.recs[i].end = c.end
  /\ c.lost = Cardinality(RangeLost(d, c.start, c.end))

(***************************************************************************)
(* The region that is cached is right, and its first packet has a loss: an *)
(* original that would make that packet useless drops the region.          *)
(***************************************************************************)
FirstHasLoss(d) == RangeLost(d, d.recs[1].start, d.recs[1].end) # {}

GoodChecked(d) ==
  d.checked.count > 0 => GoodRegion(d, d.checked) /\ FirstHasLoss(d)

GoodDecoder(d, K) == GoodWindow(d, K) /\ GoodChecked(d)

-----------------------------------------------------------------------------
(* The list of recovery packets and the next expected element              *)

(***************************************************************************)
(* Min and Max of the community modules are what they say.                 *)
(***************************************************************************)
LEMMA MinResult ==
  ASSUME NEW S \in SUBSET Nat, S # {}
  PROVE  /\ Min(S) \in S
         /\ \A m \in S : Min(S) =< m
<1>1. \E n \in S : \A m \in S : n =< m
  BY LeastNatural
<1> QED  BY <1>1 DEF Min

(***************************************************************************)
(* The same of the greatest of a set that is bounded.                      *)
(***************************************************************************)
LEMMA MaxResult ==
  ASSUME NEW n \in Nat, NEW S \in SUBSET (0 .. n), S # {}
  PROVE  /\ Max(S) \in S
         /\ \A m \in S : m =< Max(S)
<1> DEFINE T == {k \in Nat : n - k \in S}
<1>1. T # {}
  <2>1. PICK m : m \in S
    OBVIOUS
  <2>2. n - m \in Nat /\ n - (n - m) = m
    BY <2>1
  <2> QED  BY <2>1, <2>2
<1>2. PICK k \in T : \A j \in T : k =< j
  <2>1. T \in SUBSET Nat
    OBVIOUS
  <2> HIDE DEF T
  <2> QED  BY <1>1, <2>1, LeastNatural
<1>3. ASSUME NEW m \in S PROVE m =< n - k
  <2>1. m \in 0 .. n /\ k \in Nat
    BY <1>2, <1>3
  <2>2. n - m \in T
    BY <1>3, <2>1
  <2> HIDE DEF T
  <2>3. k =< n - m
    BY <1>2, <2>2
  <2> QED  BY <2>1, <2>3
<1>4. \E x \in S : \A m \in S : x >= m
  <2>1. n - k \in S /\ n - k \in Int
    BY <1>2
  <2>2. \A m \in S : n - k >= m
    BY <1>2, <1>3
  <2> QED  BY <2>1, <2>2
<1>5. Max(S) \in S /\ \A m \in S : Max(S) >= m
  BY <1>4 DEF Max
<1> QED  BY <1>5

(***************************************************************************)
(* DeletePacketsBefore removes the first packets of the list, all of which *)
(* end at the element or before it.                                        *)
(***************************************************************************)
LEMMA DeleteResult ==
  ASSUME NEW d \in Decoders, NEW x \in Int
  PROVE  LET e == DeletePacketsBefore(d, x)
         IN  /\ e = [d EXCEPT !.recs = e.recs]
             /\ e \in Decoders
             /\ e.recs \in Seq(Entries)
             /\ \E k \in 0 .. Len(d.recs) :
                  /\ Len(e.recs) = Len(d.recs) - k
                  /\ \A i \in 1 .. Len(d.recs) - k : e.recs[i] = d.recs[i + k]
                  /\ \A i \in 1 .. k : d.recs[i].end =< x
<1> DEFINE e == DeletePacketsBefore(d, x)
           q == d.recs
           n == Len(q)
           kept == {i \in 1 .. n : q[i].end > x}
           m == Min(kept)
<1>1. q \in Seq(Entries) /\ n \in Nat
  BY LenProperties DEF Decoders
<1>2. \A i \in 1 .. n : q[i] \in Entries /\ q[i].end \in Int
  <2>1. ASSUME NEW i \in 1 .. n PROVE q[i] \in Entries
    BY <1>1, ElementOfSeq
  <2> QED  BY <2>1 DEF Entries
<1>3. /\ e.recs = IF kept = {} THEN <<>> ELSE SubSeq(q, m, n)
      /\ e = [d EXCEPT !.recs = IF kept = {} THEN <<>> ELSE SubSeq(q, m, n)]
  BY DEF DeletePacketsBefore, Decoders
<1>4. e = [d EXCEPT !.recs = e.recs]
  BY <1>3
<1>5. CASE kept = {}
  <2>1. e.recs = <<>> /\ e.recs \in Seq(Entries) /\ Len(e.recs) = 0
    BY <1>3, <1>5
  <2>2. \A i \in 1 .. n : q[i].end =< x
    BY <1>2, <1>5
  <2>3. e \in Decoders
    BY <1>4, <2>1 DEF Decoders
  <2>4. n \in 0 .. n /\ n - n = 0 /\ \A i \in 1 .. 0 : e.recs[i] = q[i + n]
    BY <1>1
  <2> HIDE DEF e, q, n, kept, m
  <2> QED  BY <1>4, <2>1, <2>2, <2>3, <2>4 DEF e, q, n
<1>6. CASE kept # {}
  <2>1. m \in kept /\ \A i \in kept : m =< i
    <3>1. kept \in SUBSET Nat
      OBVIOUS
    <3> HIDE DEF kept
    <3> QED  BY <1>6, <3>1, MinResult
  <2>2. m \in 1 .. n
    BY <2>1
  <2> HIDE DEF m
  <2> DEFINE t == SubSeq(q, m, n)
  <2>3. /\ t \in Seq(Entries)
        /\ Len(t) = IF m <= n THEN n - m + 1 ELSE 0
        /\ \A i \in 1 .. n - m + 1 : t[i] = q[m + i - 1]
    <3>1. \A i \in m .. n : q[i] \in Entries
      BY <1>1, <1>2, <2>2
    <3>2. m \in Int /\ n \in Int
      BY <1>1, <2>2
    <3> HIDE DEF q, n
    <3> QED  BY <3>1, <3>2, SubSeqProperties
  <2>4. e.recs = t
    BY <1>3, <1>6
  <2> HIDE DEF t
  <2> DEFINE k == m - 1
  <2>5. k \in 0 .. n /\ Len(t) = n - k
    BY <1>1, <2>2, <2>3
  <2>6. ASSUME NEW i \in 1 .. n - k PROVE t[i] = q[i + k]
    <3>1. i \in 1 .. n - m + 1 /\ m + i - 1 = i + k
      BY <1>1, <2>2
    <3> QED  BY <2>3, <3>1
  <2>7. ASSUME NEW i \in 1 .. k PROVE q[i].end =< x
    <3>1. i \in 1 .. n /\ ~(m =< i)
      BY <1>1, <2>2
    <3>2. i \notin kept
      BY <2>1, <3>1
    <3> QED  BY <1>2, <3>1, <3>2
  <2>8. e \in Decoders
    BY <1>4, <2>3, <2>4 DEF Decoders
  <2> HIDE DEF e, q, n, kept, k
  <2> QED  BY <1>4, <2>3, <2>4, <2>5, <2>6, <2>7, <2>8 DEF e, q, n
<1> QED  BY <1>5, <1>6

(***************************************************************************)
(* FindNextLostElement: all from the start of the search up to the element *)
(* it returns was got.                                                     *)
(***************************************************************************)
LEMMA NextLostResult ==
  ASSUME NEW d \in Decoders, NEW from \in Nat
  PROVE  /\ NextLost(d, from) \in Nat
         /\ NextLost(d, from) =< d.count
         /\ from =< d.count => from =< NextLost(d, from)
         /\ \A x \in from .. NextLost(d, from) - 1 : x \in d.got
<1>1. d.count \in Nat /\ d.got \in SUBSET Int
  BY DEF Decoders
<1>2. CASE from >= d.count
  BY <1>1, <1>2 DEF NextLost
<1>3. CASE from < d.count
  <2> DEFINE S == RangeLost(d, from, d.count) \cup {d.count}
             m == Min(S)
  <2>1. S \in SUBSET Nat /\ S # {}
    BY <1>1 DEF RangeLost
  <2>2. NextLost(d, from) = m
    BY <1>1, <1>3 DEF NextLost
  <2>3. m \in S /\ \A y \in S : m =< y
    <3> HIDE DEF S
    <3> QED  BY <2>1, MinResult
  <2>4. m \in from .. d.count
    BY <1>1, <1>3, <2>3 DEF RangeLost
  <2>5. m =< d.count
    BY <2>3
  <2>6. ASSUME NEW x \in from .. m - 1 PROVE x \in d.got
    <3>1. ~(m =< x) /\ x \in from .. d.count - 1
      BY <1>1, <2>4
    <3>2. x \notin S
      BY <2>3, <3>1
    <3> QED  BY <3>1, <3>2 DEF RangeLost
  <2> HIDE DEF m
  <2> QED  BY <1>1, <2>2, <2>4, <2>6
<1> QED  BY <1>1, <1>2, <1>3

\* What AdvanceNext gives: the decoder e.
Advanced(d, e, from, K) ==
  /\ e \in Decoders
  /\ e = [d EXCEPT !.next = e.next, !.recs = e.recs]
  /\ from =< e.next
  /\ WindowFits(e, K) /\ EntriesFit(e) /\ MetadataPassed(e)
  /\ \E k \in 0 .. Len(d.recs) :
       /\ Len(e.recs) = Len(d.recs) - k
       /\ \A i \in 1 .. Len(d.recs) - k : e.recs[i] = d.recs[i + k]
       /\ \A i \in 1 .. k : d.recs[i].end =< e.next

(***************************************************************************)
(* IterateNextExpectedElement, from an element up to which all was got:    *)
(* the next expected element moves there at least, and the recovery        *)
(* packets that are of no more use are deleted.                            *)
(***************************************************************************)
LEMMA AdvanceResult ==
  ASSUME NEW K \in Nat, NEW d \in Decoders, WindowFits(d, K), EntriesFit(d),
         MetadataPassed(d),
         NEW from \in Nat, from =< d.count, 0 .. from - 1 \subseteq d.got,
         0 =< d.next, d.next < d.count
  PROVE  Advanced(d, AdvanceNext(d, from), from, K)
<1> DEFINE y == NextLost(d, from)
           f == [d EXCEPT !.next = y]
           e == DeletePacketsBefore(f, y)
<1>1. /\ d.count \in Nat /\ d.got \in SUBSET Int /\ d.columnStart \in Nat
      /\ d.next \in Int /\ d.recs \in Seq(Entries)
      /\ d.lastMetadata \in [columnStart : Nat, sumCount : Nat]
  BY DEF Decoders
<1>2. /\ y \in Nat /\ y =< d.count /\ from =< y
      /\ \A x \in from .. y - 1 : x \in d.got
  BY NextLostResult
<1> HIDE DEF y
<1>3. AdvanceNext(d, from) = e
  <2>1. ~NextIsFrom(d, d.count)
    BY <1>1 DEF NextIsFrom
  <2>2. f.next = y
    BY DEF Decoders
  <2> QED  BY <2>1, <2>2 DEF AdvanceNext, y
<1>4. f \in Decoders /\ f.next = y /\ f.recs = d.recs
  <2>1. y \in Int
    BY <1>2
  <2> QED  BY <2>1 DEF Decoders
<1>5. /\ e = [f EXCEPT !.recs = e.recs]
      /\ e \in Decoders
      /\ e.recs \in Seq(Entries)
      /\ \E k \in 0 .. Len(d.recs) :
           /\ Len(e.recs) = Len(d.recs) - k
           /\ \A i \in 1 .. Len(d.recs) - k : e.recs[i] = d.recs[i + k]
           /\ \A i \in 1 .. k : d.recs[i].end =< y
  <2> DEFINE Deleted(g) ==
               /\ g = [f EXCEPT !.recs = g.recs]
               /\ g \in Decoders
               /\ g.recs \in Seq(Entries)
               /\ \E k \in 0 .. Len(f.recs) :
                    /\ Len(g.recs) = Len(f.recs) - k
                    /\ \A i \in 1 .. Len(f.recs) - k : g.recs[i] = f.recs[i + k]
                    /\ \A i \in 1 .. k : f.recs[i].end =< y
  <2>1. y \in Int
    BY <1>2
  <2>2. Deleted(e)
    <3> HIDE DEF f
    <3> QED  BY <1>4, <2>1, DeleteResult
  <2>3. f.recs = d.recs
    BY <1>4
  <2> HIDE DEF f, e
  <2> QED  BY <2>2, <2>3
<1> HIDE DEF e
<1>6. /\ e = [d EXCEPT !.next = e.next, !.recs = e.recs]
      /\ e.next = y /\ e.count = d.count /\ e.got = d.got
      /\ e.columnStart = d.columnStart /\ e.lastMetadata = d.lastMetadata
  <2>1. e = [[d EXCEPT !.next = y] EXCEPT !.recs = e.recs]
    BY <1>5
  <2>2. e.next = y
    BY <2>1 DEF Decoders
  <2> QED  BY <2>1, <2>2 DEF Decoders
<1>7. WindowFits(e, K)
  <2>1. ASSUME NEW x \in 0 .. y - 1 PROVE x \in d.got
    BY <1>1, <1>2
  <2> QED  BY <1>6, <2>1 DEF WindowFits
<1>8. PICK k \in 0 .. Len(d.recs) :
           /\ Len(e.recs) = Len(d.recs) - k
           /\ \A i \in 1 .. Len(d.recs) - k : e.recs[i] = d.recs[i + k]
           /\ \A i \in 1 .. k : d.recs[i].end =< y
  BY <1>5
<1>9. Len(d.recs) \in Nat /\ k \in Nat
  BY <1>1, LenProperties
<1>10. EntriesFit(e)
  <2>1. ASSUME NEW i \in 1 .. Len(e.recs) PROVE EntryFits(e, e.recs[i])
    <3>1. i \in 1 .. Len(d.recs) - k /\ i + k \in 1 .. Len(d.recs)
      BY <1>8, <1>9
    <3>2. e.recs[i] = d.recs[i + k] /\ EntryFits(d, d.recs[i + k])
      BY <1>8, <3>1 DEF EntriesFit
    <3> QED  BY <1>6, <3>2 DEF EntryFits
  <2> QED  BY <2>1 DEF EntriesFit
<1>11. MetadataPassed(e)
  <2> DEFINE end == MetadataEnd(d)
  <2>1. MetadataEnd(e) = end /\ end \in Int
    <3>1. MetadataEnd(e) = end
      BY <1>6 DEF MetadataEnd
    <3>2. /\ d.lastMetadata.columnStart \in Nat
          /\ d.lastMetadata.sumCount \in Nat /\ d.columnStart \in Nat
      BY <1>1
    <3> QED  BY <3>1, <3>2 DEF MetadataEnd
  <2>2. ASSUME d.lastMetadata.sumCount > 0
        PROVE  end =< y \/ \E i \in 1 .. Len(e.recs) : end =< e.recs[i].end
    <3>1. CASE end =< d.next
      <4>1. d.next =< y
        <5>1. CASE d.next < from
          BY <1>1, <1>2, <5>1
        <5>2. CASE d.next >= from
          <6>1. ASSUME y < d.next PROVE FALSE
            <7>1. y \in 0 .. d.next - 1 /\ y < d.count
              BY <1>1, <1>2, <6>1
            <7>2. y \in d.got
              BY <7>1 DEF WindowFits
            <7>3. from < d.count
              BY <1>1, <5>2
            <7> DEFINE S == RangeLost(d, from, d.count) \cup {d.count}
            <7>4. y = Min(S)
              BY <1>1, <7>3 DEF y, NextLost
            <7>5. Min(S) \in S
              <8>1. S \in SUBSET Nat /\ S # {}
                BY <1>1 DEF RangeLost
              <8> HIDE DEF S
              <8> QED  BY <8>1, MinResult
            <7> QED  BY <1>1, <7>1, <7>2, <7>4, <7>5 DEF RangeLost
          <6> QED  BY <1>1, <1>2, <6>1
        <5> QED  BY <1>1, <5>1, <5>2
      <4> QED  BY <1>1, <1>2, <2>1, <3>1, <4>1
    <3>2. CASE \E i \in 1 .. Len(d.recs) : end =< d.recs[i].end
      <4>1. PICK i \in 1 .. Len(d.recs) : end =< d.recs[i].end
        BY <3>2
      <4>2. d.recs[i].end \in Int
        <5>1. d.recs[i] \in Entries
          BY <1>1, ElementOfSeq
        <5> QED  BY <5>1 DEF Entries
      <4>3. CASE i =< k
        <5>1. d.recs[i].end =< y
          BY <1>8, <1>9, <4>3
        <5> QED  BY <1>2, <2>1, <4>1, <4>2, <5>1
      <4>4. CASE i > k
        <5>1. i - k \in 1 .. Len(d.recs) - k /\ (i - k) + k = i
          BY <1>9, <4>4
        <5>2. e.recs[i - k] = d.recs[i] /\ i - k \in 1 .. Len(e.recs)
          BY <1>8, <5>1
        <5> QED  BY <4>1, <5>2
      <4> QED  BY <1>9, <4>3, <4>4
    <3>3. ~(d.next < 0)
      BY <1>1
    <3> QED  BY <2>2, <3>1, <3>2, <3>3 DEF MetadataPassed
  <2>3. e.count # 0
    BY <1>1, <1>6
  <2> HIDE DEF end
  <2> QED  BY <1>6, <2>1, <2>2, <2>3 DEF MetadataPassed
<1>12. e \in Decoders /\ from =< e.next
  BY <1>2, <1>5, <1>6
<1> HIDE DEF f
<1> QED  BY <1>3, <1>6, <1>7, <1>8, <1>10, <1>11, <1>12 DEF Advanced

(***************************************************************************)
(* What the invariant says of the types of a decoder's fields and of the   *)
(* packets it holds.                                                       *)
(***************************************************************************)
LEMMA DecoderType ==
  ASSUME NEW d \in Decoders
  PROVE  /\ d.columnStart \in Nat /\ d.count \in Nat /\ d.got \in SUBSET Int
         /\ d.next \in Int /\ d.recs \in Seq(Entries) /\ Len(d.recs) \in Nat
         /\ d.lastMetadata \in [columnStart : Nat, sumCount : Nat]
         /\ d.checked \in Regions /\ d.recovered \in SUBSET (Nat \X Nat)
         /\ d.checked.count \in Nat
         /\ d.checked.start \in Int /\ d.checked.end \in Int
         /\ \A i \in 1 .. Len(d.recs) : /\ d.recs[i] \in Entries
                                        /\ d.recs[i].columnStart \in Nat
                                        /\ d.recs[i].start \in Int
                                        /\ d.recs[i].end \in Int
                                        /\ d.recs[i].first \in Int
<1>1. d.recs \in Seq(Entries)
  BY DEF Decoders
<1>2. Len(d.recs) \in Nat
  BY <1>1, LenProperties
<1>3. ASSUME NEW i \in 1 .. Len(d.recs)
      PROVE  d.recs[i] \in Entries
  BY <1>1, ElementOfSeq
<1>4. ASSUME NEW i \in 1 .. Len(d.recs)
      PROVE  /\ d.recs[i].columnStart \in Nat
             /\ d.recs[i].start \in Int /\ d.recs[i].end \in Int
             /\ d.recs[i].first \in Int
  BY <1>3 DEF Entries
<1>5. d.checked \in Regions
  BY DEF Decoders
<1>6. d.checked.count \in Nat /\ d.checked.start \in Int
      /\ d.checked.end \in Int
  BY <1>5 DEF Regions
<1> QED  BY <1>1, <1>2, <1>3, <1>4, <1>5, <1>6 DEF Decoders

(***************************************************************************)
(* A region stays right as long as its packets and what was got in it do.  *)
(***************************************************************************)
LEMMA SameRegion ==
  ASSUME NEW d \in Decoders, NEW e \in Decoders, NEW c \in Regions,
         GoodRegion(d, c), FirstHasLoss(d),
         Len(d.recs) =< Len(e.recs),
         \A i \in 1 .. Len(d.recs) : e.recs[i] = d.recs[i],
         \A y \in c.start .. c.end - 1 : y \in e.got <=> y \in d.got
  PROVE  GoodRegion(e, c) /\ FirstHasLoss(e)
<1>1. Len(d.recs) \in Nat /\ Len(e.recs) \in Nat
  BY DecoderType
<1>2. c.count \in 1 .. Len(d.recs) /\ c.count \in Nat
  BY <1>1 DEF GoodRegion
<1>3. /\ 1 \in 1 .. Len(d.recs) /\ 1 \in 1 .. c.count
      /\ c.count \in 1 .. Len(e.recs)
      /\ \A i \in 1 .. c.count : i \in 1 .. Len(d.recs)
  BY <1>1, <1>2
<1>4. \A i \in 1 .. c.count : e.recs[i] = d.recs[i]
  BY <1>3
<1>5. RangeLost(e, c.start, c.end) = RangeLost(d, c.start, c.end)
  BY DEF RangeLost
<1>6. GoodRegion(e, c)
  BY <1>3, <1>4, <1>5 DEF GoodRegion
<1>7. d.recs[1].start = c.start /\ d.recs[1].end =< c.end
  BY <1>3 DEF GoodRegion
<1>8. e.recs[1] = d.recs[1]
  BY <1>3
<1>9. d.recs[1].end \in Int /\ c.start \in Int /\ c.end \in Int
  <2>1. d.recs[1] \in Entries
    BY <1>3, DecoderType
  <2> QED  BY <2>1 DEF Entries, Regions
<1>10. RangeLost(e, e.recs[1].start, e.recs[1].end)
         = RangeLost(d, d.recs[1].start, d.recs[1].end)
  <2>1. \A y \in c.start .. d.recs[1].end - 1 : y \in c.start .. c.end - 1
    BY <1>7, <1>9
  <2> QED  BY <1>7, <1>8, <2>1 DEF RangeLost
<1> QED  BY <1>6, <1>10 DEF FirstHasLoss

(***************************************************************************)
(* An element is taken in that comes or is recovered: a region that        *)
(* contains it is dropped, any other stays right.  If it makes packets of  *)
(* the list useless, those of a region included, that region contains it.  *)
(***************************************************************************)
LEMMA TakingInKeepsRegion ==
  ASSUME NEW K \in Nat, NEW d, GoodDecoder(d, K),
         NEW e \in Decoders, WindowFits(e, K),
         NEW x \in Int, e.got = d.got \cup {x},
         e.checked = IF x >= d.checked.start /\ x < d.checked.end
                     THEN NothingChecked ELSE d.checked,
         NEW k \in 0 .. Len(d.recs),
         Len(e.recs) = Len(d.recs) - k,
         \A i \in 1 .. Len(d.recs) - k : e.recs[i] = d.recs[i + k],
         \A i \in 1 .. k : d.recs[i].end =< e.next
  PROVE  GoodChecked(e)
<1> DEFINE c == d.checked
<1>1. d \in Decoders /\ c \in Regions
  BY DecoderType DEF GoodDecoder, GoodWindow
<1>2. /\ Len(d.recs) \in Nat /\ c.count \in Nat
      /\ c.start \in Int /\ c.end \in Int /\ d.got \in SUBSET Int
      /\ e.next \in Int
      /\ \A i \in 1 .. Len(d.recs) : /\ d.recs[i].start \in Int
                                     /\ d.recs[i].end \in Int
  BY <1>1, DecoderType
<1> SUFFICES ASSUME e.checked.count > 0
             PROVE  GoodRegion(e, e.checked) /\ FirstHasLoss(e)
  BY DEF GoodChecked
<1>3. e.checked = c /\ ~(x >= c.start /\ x < c.end)
  BY DEF NothingChecked
<1>4. GoodRegion(d, c) /\ FirstHasLoss(d)
  BY <1>3 DEF GoodDecoder, GoodChecked
<1>5. /\ 1 \in 1 .. Len(d.recs) /\ 1 \in 1 .. c.count
      /\ d.recs[1].start = c.start /\ d.recs[1].end =< c.end
  <2> HIDE DEF c
  <2>1. /\ c.count \in 1 .. Len(d.recs) /\ d.recs[1].start = c.start
        /\ \A i \in 1 .. c.count : d.recs[i].end =< c.end
    BY <1>4 DEF GoodRegion
  <2>2. 1 \in 1 .. Len(d.recs) /\ 1 \in 1 .. c.count
    BY <1>2, <2>1
  <2> QED  BY <2>1, <2>2
<1>6. k = 0
  <2> SUFFICES ASSUME k >= 1 PROVE FALSE
    BY <1>2
  <2>1. PICK y : y \in RangeLost(d, d.recs[1].start, d.recs[1].end)
    BY <1>4 DEF FirstHasLoss
  <2>2. y \in c.start .. d.recs[1].end - 1 /\ y \notin d.got
    BY <1>5, <2>1 DEF RangeLost
  <2>3. 1 \in 1 .. k
    BY <1>2
  <2>4. d.recs[1].end =< e.next
    BY <2>3
  <2>5. c.start >= 0
    BY <1>5 DEF GoodDecoder, GoodWindow, EntriesFit, EntryFits
  <2>6. y \in 0 .. e.next - 1
    <3> DEFINE a == c.start
               b == d.recs[1].end
               f == e.next
    <3>1. /\ a \in Int /\ b \in Int /\ f \in Int /\ y \in a .. b - 1
          /\ a >= 0 /\ b =< f
      BY <1>2, <1>5, <2>2, <2>4, <2>5
    <3> HIDE DEF a, b, f
    <3>2. y \in 0 .. f - 1
      BY <3>1
    <3> QED  BY <3>2 DEF f
  <2>7. y \in e.got
    BY <2>6 DEF WindowFits
  <2>8. y = x
    BY <2>2, <2>7
  <2> QED  BY <1>2, <1>3, <1>5, <2>2, <2>8
<1>7. Len(d.recs) =< Len(e.recs)
      /\ \A i \in 1 .. Len(d.recs) : e.recs[i] = d.recs[i]
  BY <1>2, <1>6
<1>8. \A y \in c.start .. c.end - 1 : y \in e.got <=> y \in d.got
  BY <1>2, <1>3
<1> HIDE DEF c
<1>9. GoodRegion(e, c) /\ FirstHasLoss(e)
  BY <1>1, <1>4, <1>7, <1>8, SameRegion
<1> QED  BY <1>3, <1>9

(***************************************************************************)
(* The conditions on a decoder do not mention the newest column it saw,    *)
(* nor whether it is disabled, and those on its window not the region.     *)
(***************************************************************************)
SameWindow(d, e) ==
  /\ e.columnStart = d.columnStart /\ e.count = d.count /\ e.got = d.got
  /\ e.next = d.next /\ e.recs = d.recs
  /\ e.lastMetadata = d.lastMetadata /\ e.recovered = d.recovered

(***************************************************************************)
(* A decoder with the same window is as good.                              *)
(***************************************************************************)
LEMMA SameWindowIsGood ==
  ASSUME NEW K \in Nat, NEW d, GoodWindow(d, K),
         NEW e \in Decoders, SameWindow(d, e)
  PROVE  /\ GoodWindow(e, K)
         /\ e.checked = d.checked /\ GoodChecked(d) => GoodChecked(e)
<1> USE DEF SameWindow
<1>1. WindowFits(e, K) /\ EntriesFit(e)
  BY DEF GoodWindow, WindowFits, EntriesFit, EntryFits
<1>2. MetadataPassed(e)
  BY DEF GoodWindow, MetadataPassed, MetadataEnd
<1>3. (e.next < 0 => e.recs # <<>>) /\ AreOwnSymbols(e.recovered, K)
  BY DEF GoodWindow
<1>4. GoodWindow(e, K)
  BY <1>1, <1>2, <1>3 DEF GoodWindow
<1>5. e.checked = d.checked /\ GoodChecked(d) => GoodChecked(e)
  BY DEF GoodChecked, GoodRegion, FirstHasLoss, RangeLost
<1> QED  BY <1>4, <1>5

(***************************************************************************)
(* The cached region is no part of what makes a window good.               *)
(***************************************************************************)
LEMMA WindowWithoutChecked ==
  ASSUME NEW K \in Nat, NEW d, GoodWindow(d, K), NEW c \in Regions
  PROVE  /\ GoodWindow([d EXCEPT !.checked = c], K)
         /\ [d EXCEPT !.checked = c].checked = c
<1> DEFINE e == [d EXCEPT !.checked = c]
<1>1. d \in Decoders
  BY DEF GoodWindow
<1>2. e \in Decoders /\ SameWindow(d, e) /\ e.checked = c
  BY <1>1 DEF Decoders, SameWindow
<1> HIDE DEF e
<1>3. GoodWindow(e, K)
  BY <1>2, SameWindowIsGood
<1> QED  BY <1>2, <1>3 DEF e

(***************************************************************************)
(* An element is taken in, and the next expected one moves on if it was    *)
(* that: the window stays right, and so does a region that is dropped when *)
(* it contains the element.                                                *)
(***************************************************************************)
LEMMA TakingInKeepsDecoder ==
  ASSUME NEW K \in Nat, NEW d, GoodDecoder(d, K),
         NEW n \in Nat, d.count =< n, d.columnStart + n =< K,
         NEW x \in 0 .. n - 1, NEW a \in Decoders,
         a.columnStart = d.columnStart, a.count = n,
         a.got = d.got \cup {x}, a.next = d.next, a.recs = d.recs,
         a.lastMetadata = d.lastMetadata, AreOwnSymbols(a.recovered, K)
  PROVE  LET e == IF x = d.next THEN AdvanceNext(a, x + 1) ELSE a
         IN  /\ GoodWindow(e, K)
             /\ e.checked = a.checked
             /\ GoodDecoder([e EXCEPT !.checked =
                               IF x >= d.checked.start /\ x < d.checked.end
                               THEN NothingChecked ELSE d.checked], K)
<1> DEFINE e == IF x = d.next THEN AdvanceNext(a, x + 1) ELSE a
           c == IF x >= d.checked.start /\ x < d.checked.end
                THEN NothingChecked ELSE d.checked
           f == [e EXCEPT !.checked = c]
<1>1. d \in Decoders /\ GoodWindow(d, K)
  BY DEF GoodDecoder, GoodWindow
<1>2. /\ d.columnStart \in Nat /\ d.count \in Nat /\ d.got \in SUBSET Int
      /\ d.next \in Int /\ Len(d.recs) \in Nat /\ d.checked \in Regions
      /\ d.lastMetadata \in [columnStart : Nat, sumCount : Nat]
      /\ \A i \in 1 .. Len(d.recs) : d.recs[i].end \in Int
  BY <1>1, DecoderType
<1>3. WindowFits(a, K)
  <2>1. d.got \subseteq 0 .. d.count - 1 /\ 0 .. d.next - 1 \subseteq d.got
    BY <1>1 DEF GoodWindow, WindowFits
  <2>2. a.got \subseteq 0 .. n - 1
    BY <1>2, <2>1
  <2>3. 0 .. a.next - 1 \subseteq a.got
    BY <2>1
  <2> QED  BY <2>2, <2>3 DEF WindowFits
<1>4. EntriesFit(a)
  <2>1. ASSUME NEW i \in 1 .. Len(d.recs) PROVE EntryFits(a, d.recs[i])
    <3>1. EntryFits(d, d.recs[i]) /\ d.recs[i].end \in Int
      BY <1>1, <1>2 DEF GoodWindow, EntriesFit
    <3> QED  BY <1>2, <3>1 DEF EntryFits
  <2> QED  BY <2>1 DEF EntriesFit
<1>5. MetadataPassed(a)
  <2>1. a.count # 0
    OBVIOUS
  <2>2. MetadataPassed(d)
    BY <1>1 DEF GoodWindow
  <2> QED  BY <2>1, <2>2 DEF MetadataPassed, MetadataEnd
<1>6. a.next < 0 => a.recs # <<>>
  BY <1>1 DEF GoodWindow
<1>7. /\ e \in Decoders /\ WindowFits(e, K) /\ EntriesFit(e)
      /\ MetadataPassed(e) /\ (e.next < 0 => e.recs # <<>>)
      /\ e.checked = a.checked /\ e.recovered = a.recovered
      /\ e.got = a.got
      /\ \E k \in 0 .. Len(d.recs) :
           /\ Len(e.recs) = Len(d.recs) - k
           /\ \A i \in 1 .. Len(d.recs) - k : e.recs[i] = d.recs[i + k]
           /\ \A i \in 1 .. k : d.recs[i].end =< e.next
  <2>1. CASE x # d.next
    <3>1. e = a
      BY <2>1
    <3>2. /\ 0 \in 0 .. Len(d.recs)
          /\ Len(a.recs) = Len(d.recs) - 0
          /\ \A i \in 1 .. Len(d.recs) - 0 : a.recs[i] = d.recs[i + 0]
          /\ \A i \in 1 .. 0 : d.recs[i].end =< a.next
      BY <1>2
    <3> HIDE DEF e
    <3> QED  BY <1>3, <1>4, <1>5, <1>6, <3>1, <3>2
  <2>2. CASE x = d.next
    <3> DEFINE from == x + 1
               g == AdvanceNext(a, from)
    <3>1. from \in Nat /\ from =< a.count /\ 0 =< a.next /\ a.next < a.count
      BY <1>2, <2>2
    <3>2. 0 .. from - 1 \subseteq a.got
      <4>1. 0 .. x - 1 \subseteq d.got
        BY <1>1, <2>2 DEF GoodWindow, WindowFits
      <4> QED  BY <1>2, <2>2, <4>1
    <3>3. e = g
      BY <2>2
    <3> HIDE DEF from, e
    <3>4. /\ g \in Decoders
          /\ g = [a EXCEPT !.next = g.next, !.recs = g.recs]
          /\ from =< g.next
          /\ WindowFits(g, K) /\ EntriesFit(g) /\ MetadataPassed(g)
          /\ \E k \in 0 .. Len(a.recs) :
               /\ Len(g.recs) = Len(a.recs) - k
               /\ \A i \in 1 .. Len(a.recs) - k : g.recs[i] = a.recs[i + k]
               /\ \A i \in 1 .. k : a.recs[i].end =< g.next
      <4>1. Advanced(a, AdvanceNext(a, from), from, K)
        BY <1>3, <1>4, <1>5, <3>1, <3>2, AdvanceResult
      <4> QED  BY <4>1 DEF Advanced
    <3> HIDE DEF g
    <3>5. /\ g.checked = a.checked /\ g.recovered = a.recovered
          /\ g.got = a.got
      <4>1. g = [a EXCEPT !.next = g.next, !.recs = g.recs]
        BY <3>4
      <4> QED  BY <4>1 DEF Decoders
    <3>6. ~(g.next < 0)
      <4>1. g.next \in Int
        BY <3>4, DecoderType
      <4> QED  BY <3>1, <3>4, <4>1
    <3> QED  BY <3>3, <3>4, <3>5, <3>6
  <2> QED  BY <2>1, <2>2
<1> HIDE DEF e
<1>8. GoodWindow(e, K)
  BY <1>7 DEF GoodWindow
<1>9. c \in Regions
  BY <1>2 DEF NothingChecked, Regions
<1>10. GoodWindow(f, K) /\ f.checked = c
  <2> HIDE DEF c
  <2> QED  BY <1>8, <1>9, WindowWithoutChecked
<1>11. f.got = d.got \cup {x} /\ f.recs = e.recs /\ f.next = e.next
  BY <1>7 DEF Decoders
<1>12. GoodChecked(f)
  <2>1. PICK k \in 0 .. Len(d.recs) :
           /\ Len(e.recs) = Len(d.recs) - k
           /\ \A i \in 1 .. Len(d.recs) - k : e.recs[i] = d.recs[i + k]
           /\ \A i \in 1 .. k : d.recs[i].end =< e.next
    BY <1>7
  <2>2. f \in Decoders /\ WindowFits(f, K) /\ x \in Int
    BY <1>10 DEF GoodWindow
  <2>3. f.checked = c
    BY <1>10
  <2> HIDE DEF f
  <2>4. /\ f.got = d.got \cup {x} /\ Len(f.recs) = Len(d.recs) - k
        /\ \A i \in 1 .. Len(d.recs) - k : f.recs[i] = d.recs[i + k]
        /\ \A i \in 1 .. k : d.recs[i].end =< f.next
    BY <1>11, <2>1
  <2> QED  BY <2>2, <2>3, <2>4, TakingInKeepsRegion
<1>13. GoodDecoder(f, K)
  BY <1>10, <1>12 DEF GoodDecoder
<1> QED  BY <1>7, <1>8, <1>13 DEF e

(***************************************************************************)
(* siamese_decoder_add_original, of the column of a chunk that was sent.   *)
(***************************************************************************)
LEMMA AddOriginalResult ==
  ASSUME NEW K \in Nat, K =< ColumnPeriod \div 2,
         NEW d, GoodDecoder(d, K), NEW column \in 0 .. K - 1
  PROVE  GoodDecoder(AddOriginal(d, column), K)
<1> DEFINE x == DecoderElement(d, column)
           n == IF x + 1 > d.count THEN x + 1 ELSE d.count
           grown == GrowWindow(d, x + 1)
           a == [grown EXCEPT !.got = @ \cup {x}]
           e == IF x = d.next THEN AdvanceNext(a, x + 1) ELSE a
<1>1. CASE IsColumnDeltaNegative(x) \/ x \in d.got
  BY <1>1 DEF AddOriginal
<1>2. CASE ~(IsColumnDeltaNegative(x) \/ x \in d.got)
  <2>1. d \in Decoders /\ WindowFits(d, K)
    BY DEF GoodDecoder, GoodWindow
  <2>2. /\ d.columnStart \in Nat /\ d.count \in Nat /\ d.got \in SUBSET Int
        /\ d.checked \in Regions
    BY <2>1, DecoderType
  <2>3. d.columnStart + d.count =< K
    BY <2>1 DEF WindowFits
  <2>4. x = column - d.columnStart /\ x >= 0
    <3>1. d.columnStart \in 0 .. K /\ column \in 0 .. K
      BY <2>2, <2>3
    <3>2. ~IsColumnDeltaNegative(SubtractColumns(column, d.columnStart))
      BY <1>2 DEF DecoderElement
    <3>3. /\ SubtractColumns(column, d.columnStart) = column - d.columnStart
          /\ column >= d.columnStart
      BY <3>1, <3>2, ElementOfColumn
    <3> QED  BY <2>2, <3>3 DEF DecoderElement
  <2>5. x \in Nat /\ d.columnStart + (x + 1) =< K
    BY <2>2, <2>4
  <2>6. AddOriginal(d, column) = ResetIfChecked(e, x)
    <3>1. AddOriginal(d, column)
            = IF IsColumnDeltaNegative(x) \/ x \in d.got THEN d
              ELSE ResetIfChecked(e, x)
      BY DEF AddOriginal
    <3> QED  BY <1>2, <3>1, Zenon
  <2> HIDE DEF x
  <2>7. /\ a \in Decoders /\ a.count = n /\ a.got = d.got \cup {x}
        /\ a.columnStart = d.columnStart /\ a.next = d.next
        /\ a.recs = d.recs /\ a.lastMetadata = d.lastMetadata
        /\ a.recovered = d.recovered /\ a.checked = d.checked
    <3>1. grown = [d EXCEPT !.count = n]
      BY <2>1 DEF GrowWindow, Decoders
    <3>2. n \in Nat
      BY <2>2, <2>5
    <3> HIDE DEF n, grown
    <3>3. /\ grown \in Decoders /\ grown.count = n /\ grown.got = d.got
          /\ grown.columnStart = d.columnStart /\ grown.next = d.next
          /\ grown.recs = d.recs /\ grown.lastMetadata = d.lastMetadata
          /\ grown.recovered = d.recovered /\ grown.checked = d.checked
      BY <2>1, <3>1, <3>2 DEF Decoders
    <3>4. d.got \cup {x} \in SUBSET Int
      BY <2>2, <2>5
    <3>5. a = [grown EXCEPT !.got = d.got \cup {x}]
      BY <3>3
    <3> HIDE DEF a
    <3> QED  BY <3>3, <3>4, <3>5 DEF Decoders
  <2>8. n \in Nat /\ d.count =< n /\ d.columnStart + n =< K /\ x \in 0 .. n - 1
    BY <2>2, <2>3, <2>5
  <2>9. AreOwnSymbols(a.recovered, K)
    BY <2>7 DEF GoodDecoder, GoodWindow
  <2> DEFINE c == IF x >= d.checked.start /\ x < d.checked.end
                  THEN NothingChecked ELSE d.checked
  <2> HIDE DEF a, n
  <2>10. /\ GoodWindow(e, K)
         /\ e.checked = a.checked
         /\ GoodDecoder([e EXCEPT !.checked = c], K)
    BY <2>7, <2>8, <2>9, TakingInKeepsDecoder
  <2>11. ResetIfChecked(e, x) = [e EXCEPT !.checked = c]
    <3>1. e \in Decoders /\ e.checked = d.checked
      BY <2>7, <2>10 DEF GoodWindow
    <3> HIDE DEF e
    <3> QED  BY <3>1 DEF ResetIfChecked, ResetChecked, Decoders
  <2> QED  BY <2>6, <2>10, <2>11
<1> QED  BY <1>1, <1>2

-----------------------------------------------------------------------------
(* Trimming the window                                                     *)

\* The set S moved down by n.
ShiftedBy(S, n) == {x - n : x \in S}

(***************************************************************************)
(* As many numbers are in a set as in the set shifted.                     *)
(***************************************************************************)
LEMMA ShiftedCardinality ==
  ASSUME NEW S \in SUBSET Int, IsFiniteSet(S), NEW n \in Int
  PROVE  Cardinality(ShiftedBy(S, n)) = Cardinality(S)
<1> DEFINE T == {x - n : x \in S}
           F == [x \in S |-> x - n]
<1>1. F \in [S -> T] /\ \A a, b \in S : F[a] = F[b] => a = b
  OBVIOUS
<1>2. \A t \in T : \E s \in S : F[s] = t
  OBVIOUS
<1> HIDE DEF F, T
<1>3. F \in Bijection(S, T)
  BY <1>1, <1>2, Fun_IsBij
<1>4. ExistsBijection(S, T)
  BY <1>3 DEF ExistsBijection
<1>5. Cardinality(T) = Cardinality(S)
  BY <1>4, FS_Bijection
<1> QED  BY <1>5 DEF T, ShiftedBy

(***************************************************************************)
(* The losses of a range are finitely many.                                *)
(***************************************************************************)
LEMMA LossesFinite ==
  ASSUME NEW d, NEW a \in Int, NEW b \in Int
  PROVE  /\ IsFiniteSet(RangeLost(d, a, b))
         /\ Cardinality(RangeLost(d, a, b)) \in Nat
         /\ RangeLost(d, a, b) \in SUBSET Int
<1> DEFINE S == a .. b - 1
           T == RangeLost(d, a, b)
<1>1. IsFiniteSet(S)
  BY FS_Interval
<1>2. T \in SUBSET S /\ S \in SUBSET Int
  BY DEF RangeLost
<1> HIDE DEF S, T
<1>3. IsFiniteSet(T)
  BY <1>1, <1>2, FS_Subset
<1>4. Cardinality(T) \in Nat
  BY <1>3, FS_CardinalityType
<1> QED  BY <1>2, <1>3, <1>4 DEF T

(***************************************************************************)
(* Shifting a packet of the list, or the cached region, by n elements.     *)
(***************************************************************************)
LEMMA ShiftedEntry ==
  ASSUME NEW r \in Entries, NEW n \in Int
  PROVE  /\ ShiftPacket(r, n) \in Entries
         /\ ShiftPacket(r, n).start = r.start - n
         /\ ShiftPacket(r, n).end = r.end - n
         /\ ShiftPacket(r, n).first = r.first
         /\ ShiftPacket(r, n).row = r.row
<1> DEFINE s == ShiftPacket(r, n)
<1>1. r.start - n \in Int /\ r.end - n \in Int
  BY DEF Entries
<1>2. s = [r EXCEPT !.start = r.start - n, !.end = r.end - n]
  BY DEF Entries, ShiftPacket
<1> HIDE DEF s
<1>3. /\ s \in Entries /\ s.start = r.start - n /\ s.end = r.end - n
      /\ s.first = r.first /\ s.row = r.row
  BY <1>1, <1>2 DEF Entries
<1> QED  BY <1>3 DEF s

(***************************************************************************)
(* A region moved along with the window is a region.                       *)
(***************************************************************************)
LEMMA ShiftedRegion ==
  ASSUME NEW c \in Regions, NEW n \in Int
  PROVE  ShiftChecked(c, n) \in Regions
<1>1. c.start - n \in Int /\ c.end - n \in Int
  BY DEF Regions
<1>2. NothingChecked \in Regions
  BY DEF NothingChecked, Regions
<1>3. [c EXCEPT !.start = @ - n, !.end = @ - n] \in Regions
  <2>1. [c EXCEPT !.start = @ - n, !.end = @ - n]
          = [c EXCEPT !.start = c.start - n, !.end = c.end - n]
    BY DEF Regions
  <2> QED  BY <1>1, <2>1 DEF Regions
<1> QED  BY <1>2, <1>3 DEF ShiftChecked

(***************************************************************************)
(* The fields of a decoder whose window lost its first n elements.         *)
(***************************************************************************)
LEMMA DropFields ==
  ASSUME NEW K \in Nat, K =< ColumnPeriod \div 2,
         NEW d, GoodWindow(d, K), NEW n \in Nat, n < d.count
  PROVE  LET e == DropFront(d, n)
         IN  /\ e \in Decoders
             /\ e.columnStart = d.columnStart + n
             /\ e.count = d.count - n
             /\ e.got = {g - n : g \in {h \in d.got : h >= n}}
             /\ e.next = d.next - n
             /\ Len(e.recs) = Len(d.recs)
             /\ \A i \in 1 .. Len(d.recs) :
                  /\ e.recs[i].start = d.recs[i].start - n
                  /\ e.recs[i].end = d.recs[i].end - n
                  /\ e.recs[i].first = d.recs[i].first
                  /\ e.recs[i].row = d.recs[i].row
             /\ e.lastMetadata = d.lastMetadata
             /\ e.recovered = d.recovered
             /\ e.latestColumn = d.latestColumn /\ e.disabled = d.disabled
             /\ e.checked = ShiftChecked(d.checked, n)
<1> DEFINE q == d.recs
           t == [i \in DOMAIN q |->
                   ShiftPacket(q[i], n)]
           start == AddColumns(d.columnStart, n)
           got == {g - n : g \in {h \in d.got : h >= n}}
           e == DropFront(d, n)
<1>1. d \in Decoders /\ d.columnStart + d.count =< K
  BY DEF GoodWindow, WindowFits
<1>2. /\ d.columnStart \in Nat /\ d.count \in Nat /\ d.got \in SUBSET Int
      /\ d.next \in Int /\ q \in Seq(Entries) /\ Len(q) \in Nat
      /\ d.checked \in Regions
      /\ \A i \in 1 .. Len(q) : q[i] \in Entries
  BY <1>1, DecoderType
<1>3. start = d.columnStart + n
  <2>1. d.columnStart + n \in 0 .. K
    BY <1>1, <1>2
  <2>2. d.columnStart \in Int /\ n \in Int
    BY <1>2
  <2> QED  BY <2>1, <2>2, SumOfColumns
<1>4. DOMAIN q = 1 .. Len(q)
  BY <1>2
<1>5. ASSUME NEW i \in 1 .. Len(q)
      PROVE  LET r == ShiftPacket(q[i], n)
             IN  /\ r \in Entries
                 /\ r.start = q[i].start - n /\ r.end = q[i].end - n
                 /\ r.first = q[i].first /\ r.row = q[i].row
  <2>1. q[i] \in Entries /\ n \in Int
    BY <1>2
  <2> HIDE DEF q
  <2> QED  BY <2>1, ShiftedEntry
<1>6. /\ t \in Seq(Entries) /\ Len(t) = Len(q)
      /\ \A i \in 1 .. Len(q) : t[i].start = q[i].start - n
                                /\ t[i].end = q[i].end - n
                                /\ t[i].first = q[i].first
                                /\ t[i].row = q[i].row
  <2> HIDE DEF q
  <2>1. t = [i \in 1 .. Len(q) |-> ShiftPacket(q[i], n)]
    BY <1>4
  <2>2. t \in [1 .. Len(q) -> Entries]
    BY <1>5, <2>1
  <2>3. t \in Seq(Entries) /\ Len(t) = Len(q)
    <3>1. \A m \in Nat : \A f \in [1 .. m -> Entries] :
            f \in Seq(Entries) /\ Len(f) = m
      OBVIOUS
    <3> HIDE DEF t
    <3> QED  BY <1>2, <2>2, <3>1
  <2> QED  BY <1>5, <2>1, <2>3
<1>7. ShiftChecked(d.checked, n) \in Regions
  <2>1. n \in Int
    OBVIOUS
  <2> QED  BY <1>2, <2>1, ShiftedRegion
<1>8. e = [d EXCEPT !.columnStart = start, !.count = d.count - n, !.got = got,
                    !.next = d.next - n, !.recs = t,
                    !.checked = ShiftChecked(d.checked, n)]
  BY DEF DropFront
<1>9. /\ start \in Nat /\ d.count - n \in Nat /\ got \in SUBSET Int
      /\ d.next - n \in Int
  BY <1>2, <1>3
<1> HIDE DEF start, got, t, e
<1>10. /\ e \in Decoders /\ e.columnStart = start /\ e.count = d.count - n
       /\ e.got = got /\ e.next = d.next - n /\ e.recs = t
       /\ e.lastMetadata = d.lastMetadata /\ e.recovered = d.recovered
       /\ e.checked = ShiftChecked(d.checked, n)
       /\ e.latestColumn = d.latestColumn /\ e.disabled = d.disabled
  <2> DEFINE checked == ShiftChecked(d.checked, n)
             m == d.count - n
             f == d.next - n
  <2>1. /\ d \in Decoders /\ t \in Seq(Entries) /\ checked \in Regions
        /\ start \in Nat /\ m \in Nat /\ got \in SUBSET Int /\ f \in Int
    BY <1>1, <1>6, <1>7, <1>9
  <2>2. e = [d EXCEPT !.columnStart = start, !.count = m, !.got = got,
                      !.next = f, !.recs = t, !.checked = checked]
    BY <1>8
  <2> HIDE DEF checked, m, f
  <2>3. e \in Decoders
    BY <2>1, <2>2 DEF Decoders
  <2>4. /\ e.columnStart = start /\ e.count = m /\ e.got = got
        /\ e.next = f /\ e.recs = t /\ e.checked = checked
        /\ e.lastMetadata = d.lastMetadata /\ e.recovered = d.recovered
        /\ e.latestColumn = d.latestColumn /\ e.disabled = d.disabled
    <3>1. d \in Decoders
      BY <2>1
    <3> QED  BY <2>2, <3>1 DEF Decoders
  <2> QED  BY <2>3, <2>4 DEF checked, m, f
<1> QED  BY <1>3, <1>6, <1>10 DEF e, got, q

(***************************************************************************)
(* RemoveElements drops elements that no recovery packet protects, and, if *)
(* none is held, only such as are passed.                                  *)
(***************************************************************************)
LEMMA DropResult ==
  ASSUME NEW K \in Nat, K =< ColumnPeriod \div 2,
         NEW d, GoodWindow(d, K), NEW n \in Nat, n < d.count,
         \A i \in 1 .. Len(d.recs) : n =< d.recs[i].start,
         d.recs = <<>> => n =< d.next
  PROVE  GoodWindow(DropFront(d, n), K)
<1> DEFINE e == DropFront(d, n)
<1>1. /\ e \in Decoders
      /\ e.columnStart = d.columnStart + n
      /\ e.count = d.count - n
      /\ e.got = {g - n : g \in {h \in d.got : h >= n}}
      /\ e.next = d.next - n
      /\ Len(e.recs) = Len(d.recs)
      /\ \A i \in 1 .. Len(d.recs) :
           /\ e.recs[i].start = d.recs[i].start - n
           /\ e.recs[i].end = d.recs[i].end - n
           /\ e.recs[i].first = d.recs[i].first
      /\ e.lastMetadata = d.lastMetadata
      /\ e.recovered = d.recovered
  BY DropFields
<1> HIDE DEF e
<1>2. d \in Decoders /\ WindowFits(d, K) /\ EntriesFit(d) /\ MetadataPassed(d)
  BY DEF GoodWindow
<1>3. /\ d.columnStart \in Nat /\ d.count \in Nat /\ d.got \in SUBSET Int
      /\ d.next \in Int /\ d.recs \in Seq(Entries) /\ Len(d.recs) \in Nat
      /\ e.recs \in Seq(Entries)
      /\ d.lastMetadata \in [columnStart : Nat, sumCount : Nat]
      /\ \A i \in 1 .. Len(d.recs) : /\ d.recs[i].start \in Int
                                     /\ d.recs[i].end \in Int
  BY <1>1, <1>2, DecoderType
<1>4. WindowFits(e, K)
  <2>1. e.columnStart + e.count =< K
    <3> DEFINE o == d.columnStart
               m == d.count
    <3>1. o \in Nat /\ m \in Nat /\ o + m =< K
      BY <1>2, <1>3 DEF WindowFits
    <3>2. e.columnStart = o + n /\ e.count = m - n
      BY <1>1
    <3> HIDE DEF o, m
    <3> QED  BY <3>1, <3>2
  <2>2. ASSUME NEW y \in e.got PROVE y \in 0 .. e.count - 1
    <3>1. PICK g \in d.got : g >= n /\ y = g - n
      BY <1>1
    <3>2. g \in 0 .. d.count - 1
      BY <1>2 DEF WindowFits
    <3> DEFINE m == d.count
               l == e.count
    <3>3. /\ g \in 0 .. m - 1 /\ g >= n /\ y = g - n /\ l = m - n
          /\ m \in Nat
      BY <1>1, <1>3, <3>1, <3>2
    <3> HIDE DEF m, l
    <3>4. y \in 0 .. l - 1
      BY <3>3
    <3> QED  BY <3>4 DEF l
  <2>3. ASSUME NEW y \in 0 .. e.next - 1 PROVE y \in e.got
    <3>1. y + n \in 0 .. d.next - 1 /\ y + n >= n /\ (y + n) - n = y
      <4> DEFINE f == d.next
                 g == e.next
      <4>1. f \in Int /\ g = f - n /\ y \in 0 .. g - 1
        BY <1>1, <1>3
      <4> HIDE DEF f, g
      <4>2. y + n \in 0 .. f - 1 /\ y + n >= n /\ (y + n) - n = y
        BY <4>1
      <4> QED  BY <4>2 DEF f
    <3>2. y + n \in d.got
      BY <1>2, <3>1 DEF WindowFits
    <3>3. \E g \in {h \in d.got : h >= n} : y = g - n
      BY <3>1, <3>2
    <3> QED  BY <1>1, <3>3
  <2> QED  BY <2>1, <2>2, <2>3 DEF WindowFits
<1>5. EntriesFit(e)
  <2>1. ASSUME NEW i \in 1 .. Len(d.recs) PROVE EntryFits(e, e.recs[i])
    <3>1. EntryFits(d, d.recs[i]) /\ n =< d.recs[i].start
          /\ d.recs[i].start \in Int /\ d.recs[i].end \in Int
      BY <1>2, <1>3 DEF EntriesFit
    <3>2. e.recs[i].start = d.recs[i].start - n
          /\ e.recs[i].end = d.recs[i].end - n
          /\ e.recs[i].first = d.recs[i].first
      BY <1>1
    <3>3. /\ 0 =< d.recs[i].start /\ d.recs[i].start < d.recs[i].end
          /\ d.recs[i].end =< d.count
          /\ d.recs[i].first = d.columnStart + d.recs[i].start + 1
      BY <3>1 DEF EntryFits
    <3>4. e.columnStart = d.columnStart + n /\ e.count = d.count - n
      BY <1>1
    <3>5. /\ 0 =< e.recs[i].start /\ e.recs[i].start < e.recs[i].end
          /\ e.recs[i].end =< e.count
      <4> DEFINE a == d.recs[i].start
                 b == d.recs[i].end
      <4>1. /\ a \in Int /\ b \in Int /\ n =< a /\ a < b /\ b =< d.count
            /\ d.count \in Nat
        BY <1>3, <3>1, <3>3
      <4>2. e.recs[i].start = a - n /\ e.recs[i].end = b - n
        BY <3>2
      <4> HIDE DEF a, b
      <4> QED  BY <3>4, <4>1, <4>2
    <3>6. e.recs[i].first = e.columnStart + e.recs[i].start + 1
      <4> DEFINE a == d.recs[i].start
                 o == d.columnStart
      <4>1. /\ a \in Int /\ o \in Int
            /\ d.recs[i].first = o + a + 1
        BY <1>3, <3>1, <3>3
      <4>2. /\ e.recs[i].first = d.recs[i].first
            /\ e.recs[i].start = a - n /\ e.columnStart = o + n
        BY <3>2, <3>4
      <4> HIDE DEF a, o
      <4> QED  BY <4>1, <4>2
    <3> QED  BY <3>5, <3>6 DEF EntryFits
  <2> QED  BY <1>1, <2>1 DEF EntriesFit
<1>6. d.recs = <<>> <=> e.recs = <<>>
  <2>1. \A r \in Seq(Entries) : r = <<>> <=> Len(r) = 0
    BY ShortSequence
  <2> QED  BY <1>1, <1>3, <2>1
<1>7. e.next < 0 => e.recs # <<>>
  BY <1>1, <1>3, <1>6
<1>8. MetadataPassed(e)
  <2>1. e.count # 0
    <3> DEFINE m == d.count
    <3>1. m \in Nat /\ n < m /\ e.count = m - n
      BY <1>1, <1>3
    <3> HIDE DEF m
    <3> QED  BY <3>1
  <2>2. /\ MetadataEnd(e) = MetadataEnd(d) - n
        /\ MetadataEnd(d) \in Int
    <3> DEFINE lm == d.lastMetadata
               o == d.columnStart
               c == lm.columnStart
               m == lm.sumCount
    <3>1. c \in Nat /\ m \in Nat /\ o \in Nat
      BY <1>3
    <3>2. MetadataEnd(d) = c + m - o /\ MetadataEnd(e) = c + m - (o + n)
      BY <1>1 DEF MetadataEnd
    <3> HIDE DEF o, c, m
    <3> QED  BY <3>1, <3>2
  <2>3. ASSUME d.lastMetadata.sumCount > 0
        PROVE  \/ e.next < 0 \/ MetadataEnd(e) =< e.next
               \/ \E i \in 1 .. Len(e.recs) : MetadataEnd(e) =< e.recs[i].end
    <3>1. CASE d.next < 0 \/ MetadataEnd(d) =< d.next
      BY <1>1, <1>3, <2>2, <3>1
    <3>2. CASE \E i \in 1 .. Len(d.recs) : MetadataEnd(d) =< d.recs[i].end
      <4>1. PICK i \in 1 .. Len(d.recs) : MetadataEnd(d) =< d.recs[i].end
        BY <3>2
      <4>2. e.recs[i].end = d.recs[i].end - n /\ d.recs[i].end \in Int
        BY <1>1, <1>3
      <4>3. MetadataEnd(e) =< e.recs[i].end
        BY <2>2, <4>1, <4>2
      <4> QED  BY <1>1, <4>3
    <3> QED  BY <1>2, <2>3, <3>1, <3>2 DEF MetadataPassed
  <2>4. d.lastMetadata.sumCount = 0 => d.lastMetadata.columnStart = 0
    BY <1>2 DEF MetadataPassed
  <2> QED  BY <1>1, <2>1, <2>3, <2>4 DEF MetadataPassed
<1>9. AreOwnSymbols(e.recovered, K)
  BY <1>1 DEF GoodWindow
<1>10. GoodWindow(e, K)
  BY <1>1, <1>4, <1>5, <1>7, <1>8, <1>9 DEF GoodWindow
<1> QED  BY <1>10 DEF e

(***************************************************************************)
(* The losses of a range are those of the range shifted.                   *)
(***************************************************************************)
LEMMA DropLosses ==
  ASSUME NEW K \in Nat, K =< ColumnPeriod \div 2,
         NEW d, GoodWindow(d, K), NEW n \in Nat, n < d.count,
         NEW a \in Int, NEW b \in Int, n =< a
  PROVE  RangeLost(DropFront(d, n), a - n, b - n)
           = ShiftedBy(RangeLost(d, a, b), n)
<1> DEFINE e == DropFront(d, n)
<1>1. e.got = {g - n : g \in {h \in d.got : h >= n}}
  BY DropFields
<1>2. d.got \in SUBSET Int
  BY DecoderType DEF GoodWindow
<1> HIDE DEF e
<1>3. ASSUME NEW y \in RangeLost(e, a - n, b - n)
      PROVE  y \in {x - n : x \in RangeLost(d, a, b)}
  <2>1. y \in (a - n) .. (b - n) - 1 /\ y \notin e.got
    BY <1>3 DEF RangeLost
  <2>2. y + n \in a .. b - 1 /\ y + n >= n /\ (y + n) - n = y
    BY <2>1
  <2>3. y + n \notin d.got
    <3>1. y + n \in d.got => \E g \in {h \in d.got : h >= n} : y = g - n
      BY <2>2
    <3> QED  BY <1>1, <2>1, <3>1
  <2>4. y + n \in RangeLost(d, a, b)
    BY <2>2, <2>3 DEF RangeLost
  <2> QED  BY <2>2, <2>4
<1>4. ASSUME NEW x \in RangeLost(d, a, b)
      PROVE  x - n \in RangeLost(e, a - n, b - n)
  <2>1. x \in a .. b - 1 /\ x \notin d.got
    BY <1>4 DEF RangeLost
  <2>2. x - n \in (a - n) .. (b - n) - 1
    BY <2>1
  <2>3. x - n \notin e.got
    <3> SUFFICES ASSUME x - n \in e.got PROVE FALSE
      OBVIOUS
    <3>1. PICK g \in d.got : g >= n /\ x - n = g - n
      BY <1>1
    <3>2. g = x
      BY <1>2, <2>1, <3>1
    <3> QED  BY <2>1, <3>2
  <2> QED  BY <2>2, <2>3 DEF RangeLost
<1>5. RangeLost(e, a - n, b - n) = ShiftedBy(RangeLost(d, a, b), n)
  BY <1>3, <1>4 DEF ShiftedBy
<1> QED  BY <1>5 DEF e

(***************************************************************************)
(* Trimming shifts the region, or drops it when it reaches before what is  *)
(* left; the count of its losses stays right.                              *)
(***************************************************************************)
LEMMA DropKeepsRegion ==
  ASSUME NEW K \in Nat, K =< ColumnPeriod \div 2,
         NEW d, GoodDecoder(d, K), NEW n \in Nat, n < d.count
  PROVE  GoodChecked(DropFront(d, n))
<1> DEFINE e == DropFront(d, n)
           c == d.checked
           s == ShiftChecked(c, n)
<1>1. GoodWindow(d, K) /\ d \in Decoders
  BY DEF GoodDecoder, GoodWindow
<1>2. /\ e \in Decoders /\ Len(e.recs) = Len(d.recs)
      /\ \A i \in 1 .. Len(d.recs) :
           /\ e.recs[i].start = d.recs[i].start - n
           /\ e.recs[i].end = d.recs[i].end - n
      /\ e.checked = s
  BY <1>1, DropFields
<1>3. /\ Len(d.recs) \in Nat /\ c \in Regions
      /\ c.count \in Nat /\ c.start \in Int /\ c.end \in Int
      /\ \A i \in 1 .. Len(d.recs) : /\ d.recs[i].start \in Int
                                     /\ d.recs[i].end \in Int
  BY <1>1, DecoderType
<1> SUFFICES ASSUME s.count > 0
             PROVE  GoodRegion(e, s) /\ FirstHasLoss(e)
  BY <1>2 DEF GoodChecked
<1>4. /\ c.start >= n /\ c.count > 0
      /\ s.count = c.count /\ s.start = c.start - n /\ s.end = c.end - n
      /\ s.lost = c.lost
  <2>1. ~(c.start < n \/ c.end < n)
    BY DEF ShiftChecked, NothingChecked
  <2>2. s = [c EXCEPT !.start = c.start - n, !.end = c.end - n]
    BY <1>3, <2>1 DEF ShiftChecked, Regions
  <2> HIDE DEF c, s
  <2>3. /\ s.count = c.count /\ s.start = c.start - n /\ s.end = c.end - n
        /\ s.lost = c.lost
    BY <1>3, <2>2 DEF Regions
  <2> QED  BY <1>3, <2>1, <2>3
<1>5. GoodRegion(d, c) /\ FirstHasLoss(d)
  BY <1>4 DEF GoodDecoder, GoodChecked
<1> HIDE DEF c, s, e
<1>6. /\ c.count \in 1 .. Len(d.recs) /\ c.start = d.recs[1].start
      /\ \A i \in 1 .. c.count : d.recs[i].end =< c.end
      /\ \E i \in 1 .. c.count : d.recs[i].end = c.end
      /\ c.lost = Cardinality(RangeLost(d, c.start, c.end))
  BY <1>5 DEF GoodRegion
<1>7. /\ 1 \in 1 .. Len(d.recs)
      /\ \A i \in 1 .. c.count : i \in 1 .. Len(d.recs)
  BY <1>3, <1>6
<1>8. RangeLost(e, s.start, s.end)
      = ShiftedBy(RangeLost(d, c.start, c.end), n)
  <2> DEFINE a == c.start
             b == c.end
  <2>1. a \in Int /\ b \in Int /\ n =< a
    BY <1>3, <1>4
  <2>2. s.start = a - n /\ s.end = b - n
    BY <1>4
  <2> HIDE DEF a, b
  <2>3. RangeLost(DropFront(d, n), a - n, b - n)
          = ShiftedBy(RangeLost(d, a, b), n)
    <3>1. a \in Int /\ b \in Int /\ n =< a /\ GoodWindow(d, K)
      BY <1>1, <2>1
    <3> QED  BY <3>1, DropLosses
  <2> QED  BY <2>2, <2>3 DEF a, b, e
<1>9. Cardinality(RangeLost(e, s.start, s.end)) = c.lost
  <2> DEFINE S == RangeLost(d, c.start, c.end)
  <2>1. IsFiniteSet(S) /\ S \in SUBSET Int
    BY <1>3, LossesFinite
  <2>2. Cardinality(S) = c.lost
    BY <1>6
  <2>3. RangeLost(e, s.start, s.end) = ShiftedBy(S, n)
    BY <1>8
  <2> HIDE DEF S
  <2> QED  BY <2>1, <2>2, <2>3, ShiftedCardinality
<1>10. GoodRegion(e, s)
  <2>1. s.count \in 1 .. Len(e.recs) /\ s.start = e.recs[1].start
    BY <1>2, <1>4, <1>6, <1>7
  <2>2. ASSUME NEW i \in 1 .. s.count PROVE e.recs[i].end =< s.end
    <3>1. i \in 1 .. Len(d.recs) /\ d.recs[i].end =< c.end
          /\ d.recs[i].end \in Int
      BY <1>3, <1>4, <1>6, <1>7
    <3>2. e.recs[i].end = d.recs[i].end - n
      BY <1>2, <3>1
    <3> QED  BY <1>3, <1>4, <3>1, <3>2
  <2>3. \E i \in 1 .. s.count : e.recs[i].end = s.end
    <3>1. PICK i \in 1 .. c.count : d.recs[i].end = c.end
      BY <1>6
    <3>2. e.recs[i].end = d.recs[i].end - n
      BY <1>2, <1>7
    <3> QED  BY <1>4, <3>1, <3>2
  <2> QED  BY <1>4, <1>9, <2>1, <2>2, <2>3 DEF GoodRegion
<1>11. FirstHasLoss(e)
  <2> DEFINE a == d.recs[1].start
             b == d.recs[1].end
  <2>1. a \in Int /\ b \in Int /\ n =< a
    BY <1>3, <1>4, <1>6, <1>7
  <2>2. e.recs[1].start = a - n /\ e.recs[1].end = b - n
    BY <1>2, <1>7
  <2>3. RangeLost(d, a, b) # {}
    BY <1>5 DEF FirstHasLoss
  <2> HIDE DEF a, b
  <2>4. RangeLost(DropFront(d, n), a - n, b - n)
          = ShiftedBy(RangeLost(d, a, b), n)
    <3>1. a \in Int /\ b \in Int /\ n =< a /\ GoodWindow(d, K)
      BY <1>1, <2>1
    <3> QED  BY <3>1, DropLosses
  <2>5. RangeLost(e, a - n, b - n) # {}
    BY <2>3, <2>4 DEF e, ShiftedBy
  <2> QED  BY <2>2, <2>5 DEF FirstHasLoss
<1> QED  BY <1>10, <1>11

(***************************************************************************)
(* Trimming goes by whole subwindows, and never beyond what it may drop.   *)
(***************************************************************************)
LEMMA WholeResult ==
  ASSUME NEW m \in Nat
  PROVE  WholeSubwindows(m) \in Nat /\ WholeSubwindows(m) =< m
<1> DEFINE w == SubwindowSize
           q == m \div SubwindowSize
           r == m % SubwindowSize
<1>1. w \in Nat \ {0}
  BY SiameseCommonAssumption
<1>2. q \in Int /\ r \in 0 .. w - 1 /\ m = w * q + r
  <2>1. m \in Int
    OBVIOUS
  <2> QED  BY <1>1, <2>1, Division
<1>3. q >= 0
  BY <1>1
<1>4. WholeSubwindows(m) = q * w
  BY DEF WholeSubwindows
<1> HIDE DEF q, r, w
<1>5. q * w = w * q /\ q * w \in Nat
  BY <1>1, <1>2, <1>3
<1> QED  BY <1>1, <1>2, <1>4, <1>5

(***************************************************************************)
(* What a decoder that disables itself keeps.                              *)
(***************************************************************************)
LEMMA DisabledKeepsDecoder ==
  ASSUME NEW K \in Nat, NEW d, GoodWindow(d, K)
  PROVE  /\ GoodWindow([d EXCEPT !.disabled = TRUE], K)
         /\ GoodChecked(d) => GoodChecked([d EXCEPT !.disabled = TRUE])
<1> DEFINE e == [d EXCEPT !.disabled = TRUE]
<1>1. d \in Decoders
  BY DEF GoodWindow
<1>2. e \in Decoders /\ SameWindow(d, e) /\ e.checked = d.checked
  BY <1>1 DEF Decoders, SameWindow
<1> HIDE DEF e
<1>3. GoodWindow(e, K) /\ (GoodChecked(d) => GoodChecked(e))
  BY <1>2, SameWindowIsGood
<1> QED  BY <1>3 DEF e

(***************************************************************************)
(* All that is before the next expected element is in the window.          *)
(***************************************************************************)
LEMMA NextInWindow ==
  ASSUME NEW K \in Nat, NEW d \in Decoders, WindowFits(d, K)
  PROVE  d.next =< d.count
<1>1. d.next \in Int /\ d.count \in Nat
  BY DecoderType
<1> SUFFICES ASSUME d.next > d.count PROVE FALSE
  BY <1>1
<1>2. d.next - 1 \in 0 .. d.next - 1
  BY <1>1
<1>3. d.next - 1 \in 0 .. d.count - 1
  BY <1>2 DEF WindowFits
<1> QED  BY <1>1, <1>3

(***************************************************************************)
(* RemoveElements                                                          *)
(***************************************************************************)
LEMMA FirstKeptResult ==
  ASSUME NEW K \in Nat, K =< ColumnPeriod \div 2,
         NEW d, GoodWindow(d, K), NextIsFrom(d, RemoveThreshold),
         FirstKept(d) # -1, ~(FirstKept(d) < RemoveThreshold)
  PROVE  /\ FirstKept(d) \in Nat
         /\ FirstKept(d) < d.count
         /\ \A i \in 1 .. Len(d.recs) : FirstKept(d) =< d.recs[i].start
         /\ d.recs = <<>> =>
              /\ FirstKept(d) =< d.next
              /\ d.columnStart + FirstKept(d) = d.lastMetadata.columnStart
<1> DEFINE kept == FirstKept(d)
           q == d.recs
<1>1. d \in Decoders /\ WindowFits(d, K) /\ EntriesFit(d) /\ MetadataPassed(d)
  BY DEF GoodWindow
<1>2. /\ d.columnStart \in Nat /\ d.count \in Nat /\ d.got \in SUBSET Int
      /\ d.next \in Int /\ q \in Seq(Entries) /\ Len(q) \in Nat
      /\ d.lastMetadata \in [columnStart : Nat, sumCount : Nat]
      /\ \A i \in 1 .. Len(q) : q[i].start \in Int /\ q[i].end \in Int
  BY <1>1, DecoderType
<1>3. d.next =< d.count
  BY <1>1, NextInWindow
<1>4. RemoveThreshold \in Nat /\ RemoveThreshold >= 2
  BY SiameseCommonAssumption DEF RemoveThreshold
<1>5. q = <<>> <=> Len(q) = 0
  <2>1. \A r \in Seq(Entries) : r = <<>> <=> Len(r) = 0
    BY ShortSequence
  <2> HIDE DEF q
  <2> QED  BY <1>2, <2>1
<1>6. CASE q # <<>>
  <2> DEFINE S == {q[i].start : i \in 1 .. Len(q)}
  <2>1. \A i \in 1 .. Len(q) : /\ 0 =< q[i].start /\ q[i].start < d.count
    <3>1. ASSUME NEW i \in 1 .. Len(q)
          PROVE  0 =< q[i].start /\ q[i].start < d.count
      <4> DEFINE a == q[i].start
                 b == q[i].end
      <4>1. EntryFits(d, q[i]) /\ a \in Int /\ b \in Int
        BY <1>1, <1>2 DEF EntriesFit
      <4>2. 0 =< a /\ a < b /\ b =< d.count
        BY <4>1 DEF EntryFits
      <4> HIDE DEF a, b
      <4>3. 0 =< a /\ a < d.count
        BY <1>2, <4>1, <4>2
      <4> QED  BY <4>3 DEF a
    <3> QED  BY <3>1
  <2>2. kept = Min(S)
    BY <1>6 DEF FirstKept
  <2> HIDE DEF q, kept
  <2>3. S \in SUBSET Nat /\ S # {}
    BY <1>2, <1>5, <1>6, <2>1
  <2> HIDE DEF S
  <2>4. Min(S) \in S /\ \A m \in S : Min(S) =< m
    BY <2>3, MinResult
  <2>5. kept \in Nat /\ kept < d.count
    BY <2>1, <2>2, <2>3, <2>4 DEF S
  <2>6. \A i \in 1 .. Len(q) : kept =< q[i].start
    BY <2>2, <2>4 DEF S
  <2> QED  BY <1>6, <2>5, <2>6 DEF q, kept
<1>7. CASE q = <<>>
  <2> DEFINE lm == d.lastMetadata
             x == lm.columnStart + lm.sumCount
             end == SubtractColumns(x, d.columnStart)
  <2>1. ~(d.next < 0) /\ d.next >= RemoveThreshold
    BY <1>7 DEF GoodWindow, NextIsFrom
  <2>2. lm.columnStart \in Nat /\ lm.sumCount \in Nat
    BY <1>2
  <2>3. /\ ~IsColumnDeltaNegative(end)
        /\ kept = end - lm.sumCount
    BY <1>7 DEF FirstKept, DecoderElement
  <2>4. d.columnStart + d.count =< K
    BY <1>1 DEF WindowFits
  <2>5. /\ lm.sumCount = 0 => lm.columnStart = 0
        /\ lm.sumCount > 0 => x - d.columnStart =< d.next
    <3>1. ~\E i \in 1 .. Len(q) : MetadataEnd(d) =< q[i].end
      BY <1>5, <1>7
    <3>2. /\ d.lastMetadata.sumCount = 0 => d.lastMetadata.columnStart = 0
          /\ d.lastMetadata.sumCount > 0 => MetadataEnd(d) =< d.next
      BY <1>1, <2>1, <3>1 DEF MetadataPassed
    <3>3. MetadataEnd(d) = x - d.columnStart
      BY <1>2, <2>2 DEF MetadataEnd
    <3> QED  BY <3>2, <3>3
  <2> HIDE DEF lm, kept, q
  <2>6. x \in 0 .. K
    <3> DEFINE a == lm.columnStart
               b == lm.sumCount
               o == d.columnStart
               n == d.count
               f == d.next
    <3>1. /\ a \in Nat /\ b \in Nat /\ o \in Nat /\ n \in Nat /\ f \in Int
          /\ f =< n /\ o + n =< K
          /\ b = 0 => a = 0
          /\ b > 0 => (a + b) - o =< f
      BY <1>2, <1>3, <2>2, <2>4, <2>5
    <3> HIDE DEF a, b, o, n, f
    <3>2. a + b \in 0 .. K
      <4>1. CASE b = 0
        BY <3>1, <4>1
      <4>2. CASE b > 0
        BY <3>1, <4>2
      <4> QED  BY <3>1, <4>1, <4>2
    <3> QED  BY <3>2 DEF a, b
  <2>7. d.columnStart \in 0 .. K
    BY <1>2, <2>4
  <2> HIDE DEF x
  <2>8. end = x - d.columnStart /\ x >= d.columnStart
    BY <2>3, <2>6, <2>7, ElementOfColumn
  <2> HIDE DEF end
  <2>9. kept = x - d.columnStart - lm.sumCount /\ kept >= RemoveThreshold
    BY <1>4, <2>2, <2>3, <2>6, <2>7, <2>8 DEF kept
  <2>10. lm.sumCount > 0
    <3> SUFFICES ASSUME lm.sumCount = 0 PROVE FALSE
      BY <2>2
    <3>1. x = 0
      BY <2>5 DEF x
    <3> QED  BY <1>2, <1>4, <2>8, <2>9, <3>1
  <2> DEFINE y == x - d.columnStart
             m == lm.sumCount
             t == RemoveThreshold
  <2>11. kept \in Nat /\ kept < d.count /\ kept =< d.next
    <3>1. /\ y \in Int /\ m \in Nat /\ m > 0 /\ y =< d.next
          /\ kept = y - m /\ kept >= t /\ t \in Nat
      BY <1>2, <1>4, <2>2, <2>5, <2>6, <2>9, <2>10
    <3> HIDE DEF y, m, t
    <3> QED  BY <1>2, <1>3, <3>1
  <2>12. d.columnStart + kept = lm.columnStart
    <3> DEFINE a == lm.columnStart
               o == d.columnStart
    <3>1. x = a + m /\ a \in Nat /\ m \in Nat /\ kept = x - o - m
      BY <2>2, <2>9 DEF x
    <3>2. o \in Int
      BY <1>2
    <3> HIDE DEF a, m, o, kept
    <3>3. o + kept = a
      BY <3>1, <3>2
    <3> QED  BY <3>3 DEF a, o
  <2> QED  BY <1>5, <1>7, <2>11, <2>12 DEF q, kept, lm
<1> QED  BY <1>6, <1>7

(***************************************************************************)
(* Trimming the window (RemoveElements) keeps it good, and the cached      *)
(* region right.                                                           *)
(***************************************************************************)
LEMMA RemoveResult ==
  ASSUME NEW K \in Nat, K =< ColumnPeriod \div 2,
         NEW d, GoodWindow(d, K)
  PROVE  /\ GoodWindow(RemoveElements(d), K)
         /\ GoodChecked(d) => GoodChecked(RemoveElements(d))
<1> DEFINE kept == FirstKept(d)
           n == WholeSubwindows(kept)
<1>1. CASE ~NextIsFrom(d, RemoveThreshold)
  BY <1>1 DEF RemoveElements
<1>2. CASE NextIsFrom(d, RemoveThreshold) /\ kept = -1
  <2>1. RemoveElements(d) = [d EXCEPT !.disabled = TRUE]
    BY <1>2 DEF RemoveElements
  <2> QED  BY <2>1, DisabledKeepsDecoder
<1>3. CASE NextIsFrom(d, RemoveThreshold) /\ kept # -1 /\ kept < RemoveThreshold
  BY <1>3 DEF RemoveElements
<1>4. CASE NextIsFrom(d, RemoveThreshold) /\ kept # -1
      /\ ~(kept < RemoveThreshold)
  <2>1. RemoveElements(d) = DropFront(d, n)
    BY <1>4 DEF RemoveElements
  <2>2. /\ kept \in Nat /\ kept < d.count
        /\ \A i \in 1 .. Len(d.recs) : kept =< d.recs[i].start
        /\ d.recs = <<>> => kept =< d.next
    BY <1>4, FirstKeptResult
  <2> HIDE DEF kept
  <2>3. n \in Nat /\ n =< kept
    BY <2>2, WholeResult
  <2> HIDE DEF n
  <2>4. d \in Decoders
    BY DEF GoodWindow
  <2>5. /\ d.count \in Nat /\ d.next \in Int
        /\ \A i \in 1 .. Len(d.recs) : d.recs[i].start \in Int
    BY <2>4, DecoderType
  <2>6. /\ n < d.count /\ \A i \in 1 .. Len(d.recs) : n =< d.recs[i].start
        /\ d.recs = <<>> => n =< d.next
    BY <2>2, <2>3, <2>5
  <2>7. GoodWindow(DropFront(d, n), K)
    BY <2>3, <2>6, DropResult
  <2>8. GoodChecked(d) => GoodChecked(DropFront(d, n))
    BY <2>3, <2>6, DropKeepsRegion DEF GoodDecoder
  <2> QED  BY <2>1, <2>7, <2>8
<1> QED  BY <1>1, <1>2, <1>3, <1>4

(***************************************************************************)
(* So does trimming it after the region is checked.                        *)
(***************************************************************************)
LEMMA TrimResult ==
  ASSUME NEW K \in Nat, K =< ColumnPeriod \div 2,
         NEW d, GoodWindow(d, K)
  PROVE  /\ GoodWindow(TrimPastChecked(d), K)
         /\ GoodChecked(d) => GoodChecked(TrimPastChecked(d))
BY RemoveResult DEF TrimPastChecked

-----------------------------------------------------------------------------
(* A recovery packet comes                                                 *)

\* A recovery packet of a stream of which the chunks up to K are sent.
GoodPacket(p, K) ==
  /\ p \in [columnStart : Nat, sumCount : Nat \ {0}, row : Nat, first : Nat]
  /\ p.first = p.columnStart + 1
  /\ p.columnStart + p.sumCount =< K

(***************************************************************************)
(* The window grows by elements that are not received yet.                 *)
(***************************************************************************)
LEMMA GrowResult ==
  ASSUME NEW K \in Nat, NEW d, GoodDecoder(d, K),
         NEW m \in Nat, d.columnStart + m =< K
  PROVE  LET e == GrowWindow(d, m)
         IN  /\ GoodDecoder(e, K)
             /\ m =< e.count
             /\ e = [d EXCEPT !.count = e.count]
<1> DEFINE e == GrowWindow(d, m)
           n == IF m > d.count THEN m ELSE d.count
<1>1. d \in Decoders /\ GoodWindow(d, K) /\ GoodChecked(d)
  BY DEF GoodDecoder, GoodWindow
<1>2. d.count \in Nat /\ d.columnStart \in Nat
  BY <1>1, DecoderType
<1>3. n \in Nat /\ m =< n /\ d.count =< n /\ d.columnStart + n =< K
  BY <1>1, <1>2 DEF GoodWindow, WindowFits
<1>4. e = [d EXCEPT !.count = n]
  BY <1>1 DEF GrowWindow, Decoders
<1> HIDE DEF n, e
<1>5. /\ e \in Decoders /\ e.count = n /\ e.checked = d.checked
      /\ e.columnStart = d.columnStart /\ e.got = d.got
      /\ e.next = d.next /\ e.recs = d.recs
      /\ e.lastMetadata = d.lastMetadata /\ e.recovered = d.recovered
  BY <1>1, <1>3, <1>4 DEF Decoders
<1>6. WindowFits(e, K)
  BY <1>1, <1>2, <1>3, <1>5 DEF GoodWindow, WindowFits
<1>7. EntriesFit(e)
  <2>1. ASSUME NEW i \in 1 .. Len(d.recs) PROVE EntryFits(e, d.recs[i])
    <3>1. EntryFits(d, d.recs[i]) /\ d.recs[i].end \in Int
      BY <1>1, DecoderType DEF GoodWindow, EntriesFit
    <3> QED  BY <1>2, <1>3, <1>5, <3>1 DEF EntryFits
  <2> QED  BY <1>5, <2>1 DEF EntriesFit
<1>8. MetadataPassed(e)
  <2>1. e.count = 0 => d.count = 0
    BY <1>2, <1>3, <1>5
  <2> QED  BY <1>1, <1>5, <2>1 DEF GoodWindow, MetadataPassed, MetadataEnd
<1>9. GoodWindow(e, K)
  BY <1>1, <1>5, <1>6, <1>7, <1>8 DEF GoodWindow
<1>10. GoodChecked(e)
  BY <1>1, <1>5 DEF GoodChecked, GoodRegion, FirstHasLoss, RangeLost
<1>11. e = [d EXCEPT !.count = e.count]
  BY <1>4, <1>5
<1> QED  BY <1>3, <1>5, <1>9, <1>10, <1>11 DEF e, GoodDecoder

(***************************************************************************)
(* RecoveryPacketList::Insert, whatever the order it sorts by: a region    *)
(* that is not dropped is one of the packets before the one that came.     *)
(***************************************************************************)
LEMMA InsertResult ==
  ASSUME NEW K \in Nat, NEW d, GoodDecoder(d, K),
         NEW r \in Entries, EntryFits(d, r)
  PROVE  LET e == Insert(d, r)
         IN  /\ GoodDecoder(e, K)
             /\ \E i \in 1 .. Len(e.recs) : e.recs[i] = r
             /\ e.columnStart = d.columnStart /\ e.count = d.count
             /\ e.next = d.next
<1> DEFINE q == d.recs
           n == Len(q)
           prev == InsertionPoint(d, r)
           p == prev + 1
           t == InsertAt(q, p, r)
           a == [d EXCEPT !.recs = t]
           e == Insert(d, r)
<1>1. d \in Decoders /\ GoodWindow(d, K) /\ GoodChecked(d)
  BY DEF GoodDecoder, GoodWindow
<1>2. /\ q \in Seq(Entries) /\ n \in Nat /\ d.checked \in Regions
      /\ d.columnStart \in Nat /\ d.count \in Nat /\ d.next \in Int
      /\ d.lastMetadata \in [columnStart : Nat, sumCount : Nat]
  BY <1>1, DecoderType
<1>3. prev \in 0 .. n
  <2> DEFINE S == {0} \cup {i \in 1 .. n : GoesAfter(r, q[i])}
  <2>1. prev = Max(S)
    BY DEF InsertionPoint
  <2>2. S \in SUBSET (0 .. n) /\ S # {}
    BY <1>2
  <2> HIDE DEF S, n
  <2> QED  BY <1>2, <2>1, <2>2, MaxResult
<1>4. Insert(d, r) = IF prev = 0 \/ prev < n THEN ResetChecked(a) ELSE a
  BY <1>1 DEF Insert, Decoders
<1> HIDE DEF prev
<1>5. p \in 1 .. n + 1
  BY <1>2, <1>3
<1>6. /\ t \in Seq(Entries) /\ Len(t) = n + 1
      /\ \A i \in 1 .. n + 1 :
           t[i] = IF i < p THEN q[i] ELSE IF i = p THEN r ELSE q[i - 1]
  <2>1. q \in Seq(Entries) /\ p \in 1 .. Len(q) + 1
    BY <1>2, <1>5
  <2> HIDE DEF q, p
  <2>2. InsertAt(q, p, r) \in Seq(Entries)
        /\ IsInserted(q, p, r, InsertAt(q, p, r))
    BY <2>1, InsertAtResult
  <2> QED  BY <2>2 DEF IsInserted
<1>7. t[p] = r /\ p \in 1 .. Len(t)
  BY <1>2, <1>5, <1>6
<1>8. \A i \in 1 .. n : \E j \in 1 .. Len(t) : t[j] = q[i]
  <2> SUFFICES ASSUME NEW i \in 1 .. n PROVE \E j \in 1 .. Len(t) : t[j] = q[i]
    OBVIOUS
  <2>1. CASE i < p
    <3>1. i \in 1 .. n + 1 /\ i \in 1 .. Len(t)
      BY <1>2, <1>6
    <3> QED  BY <1>6, <2>1, <3>1
  <2>2. CASE ~(i < p)
    <3>1. /\ i + 1 \in 1 .. n + 1 /\ i + 1 \in 1 .. Len(t)
          /\ ~(i + 1 < p) /\ i + 1 # p /\ (i + 1) - 1 = i
      BY <1>2, <1>5, <1>6, <2>2
    <3>2. t[i + 1] = q[i]
      BY <1>6, <3>1
    <3> QED  BY <3>1, <3>2
  <2> QED  BY <2>1, <2>2
<1>9. \A j \in 1 .. Len(t) : t[j] = r \/ \E i \in 1 .. n : t[j] = q[i]
  <2> SUFFICES ASSUME NEW j \in 1 .. Len(t), j # p
               PROVE  \E i \in 1 .. n : t[j] = q[i]
    BY <1>7
  <2>1. CASE j < p
    <3>1. j \in 1 .. n /\ j \in 1 .. n + 1
      BY <1>2, <1>5, <1>6, <2>1
    <3> QED  BY <1>6, <2>1, <3>1
  <2>2. CASE ~(j < p)
    <3>1. j - 1 \in 1 .. n /\ j \in 1 .. n + 1
      BY <1>2, <1>5, <1>6, <2>2
    <3>2. t[j] = q[j - 1]
      BY <1>6, <2>2, <3>1
    <3> QED  BY <3>1, <3>2
  <2> QED  BY <2>1, <2>2
<1> HIDE DEF t, a
<1>10. /\ a \in Decoders /\ a.recs = t /\ a.checked = d.checked
       /\ a.columnStart = d.columnStart /\ a.got = d.got
       /\ a.next = d.next /\ a.count = d.count
       /\ a.lastMetadata = d.lastMetadata /\ a.recovered = d.recovered
  BY <1>1, <1>6 DEF Decoders, a
<1>11. GoodWindow(a, K)
  <2>1. WindowFits(a, K)
    BY <1>1, <1>10 DEF GoodWindow, WindowFits
  <2>2. EntriesFit(a)
    <3>1. \A i \in 1 .. n : EntryFits(a, q[i])
      BY <1>1, <1>10 DEF GoodWindow, EntriesFit, EntryFits
    <3>2. EntryFits(a, r)
      BY <1>10 DEF EntryFits
    <3> QED  BY <1>9, <1>10, <3>1, <3>2 DEF EntriesFit
  <2>3. MetadataPassed(a)
    <3>1. MetadataEnd(a) = MetadataEnd(d)
      BY <1>10 DEF MetadataEnd
    <3>2. (\E i \in 1 .. Len(d.recs) : MetadataEnd(d) =< d.recs[i].end)
            => \E j \in 1 .. Len(a.recs) : MetadataEnd(d) =< a.recs[j].end
      BY <1>8, <1>10
    <3> QED  BY <1>1, <1>10, <3>1, <3>2 DEF GoodWindow, MetadataPassed
  <2>4. a.recs # <<>>
    <3>1. Len(t) # 0
      BY <1>2, <1>6
    <3>2. \A s \in Seq(Entries) : s = <<>> <=> Len(s) = 0
      BY ShortSequence
    <3> QED  BY <1>6, <1>10, <3>1, <3>2
  <2> QED  BY <1>1, <1>10, <2>1, <2>2, <2>3, <2>4 DEF GoodWindow
<1>12. CASE prev = 0 \/ prev < n
  <2>1. e = [a EXCEPT !.checked = NothingChecked]
    BY <1>4, <1>12 DEF ResetChecked
  <2>2. NothingChecked \in Regions /\ ~(NothingChecked.count > 0)
    BY DEF NothingChecked, Regions
  <2> HIDE DEF e
  <2>3. GoodWindow(e, K) /\ e.checked = NothingChecked
    BY <1>11, <2>1, <2>2, WindowWithoutChecked
  <2>4. GoodChecked(e)
    BY <2>2, <2>3 DEF GoodChecked
  <2>5. /\ e.recs = t /\ e.columnStart = a.columnStart
        /\ e.count = a.count /\ e.next = a.next
    BY <1>10, <2>1 DEF Decoders
  <2> QED  BY <1>7, <1>10, <2>3, <2>4, <2>5 DEF GoodDecoder, e
<1>13. CASE ~(prev = 0 \/ prev < n)
  <2>1. e = a
    BY <1>4, <1>13
  <2>2. n =< Len(a.recs) /\ \A i \in 1 .. n : a.recs[i] = q[i]
    <3>1. prev = n /\ p = n + 1
      BY <1>2, <1>3, <1>13
    <3>2. n =< Len(a.recs)
      BY <1>2, <1>6, <1>10
    <3>3. ASSUME NEW i \in 1 .. n PROVE a.recs[i] = q[i]
      <4>1. i \in 1 .. n + 1 /\ i < p
        BY <1>2, <3>1
      <4> QED  BY <1>6, <1>10, <4>1
    <3> QED  BY <3>2, <3>3
  <2>3. GoodChecked(a)
    <3> SUFFICES ASSUME d.checked.count > 0
                 PROVE  GoodRegion(a, d.checked) /\ FirstHasLoss(a)
      BY <1>10 DEF GoodChecked
    <3> DEFINE c == d.checked
    <3>1. GoodRegion(d, c) /\ FirstHasLoss(d) /\ c \in Regions
      BY <1>1, <1>2 DEF GoodChecked
    <3>2. \A y \in c.start .. c.end - 1 : y \in a.got <=> y \in d.got
      BY <1>10
    <3> HIDE DEF c
    <3>3. GoodRegion(a, c) /\ FirstHasLoss(a)
      BY <1>1, <1>10, <2>2, <3>1, <3>2, SameRegion
    <3> QED  BY <3>3 DEF c
  <2> QED  BY <1>7, <1>10, <1>11, <2>1, <2>3 DEF GoodDecoder
<1> QED  BY <1>12, <1>13

(***************************************************************************)
(* The last recovery packet in order is remembered: it ends at an element  *)
(* that is passed, or it is in the list.                                   *)
(***************************************************************************)
LEMMA RememberResult ==
  ASSUME NEW K \in Nat, NEW d, GoodDecoder(d, K),
         NEW p, GoodPacket(p, K), d.count # 0,
         NEW end \in Int, p.columnStart + p.sumCount = d.columnStart + end,
         \/ d.next < 0 \/ end =< d.next
         \/ \E i \in 1 .. Len(d.recs) : d.recs[i].end = end
  PROVE  GoodDecoder(RememberMetadata(d, p), K)
<1> DEFINE e == RememberMetadata(d, p)
           lm == [columnStart |-> p.columnStart, sumCount |-> p.sumCount]
<1>1. d \in Decoders /\ GoodWindow(d, K) /\ GoodChecked(d)
  BY DEF GoodDecoder, GoodWindow
<1>2. p.columnStart \in Nat /\ p.sumCount \in Nat /\ p.sumCount > 0
  BY DEF GoodPacket
<1>3. lm \in [columnStart : Nat, sumCount : Nat]
  BY <1>2
<1>4. e = [d EXCEPT !.lastMetadata = lm]
  BY DEF RememberMetadata
<1>5. lm.columnStart = p.columnStart /\ lm.sumCount = p.sumCount
  OBVIOUS
<1> HIDE DEF e, lm
<1>6. /\ e \in Decoders /\ e.recs = d.recs /\ e.checked = d.checked
      /\ e.columnStart = d.columnStart /\ e.got = d.got
      /\ e.next = d.next /\ e.count = d.count
      /\ e.lastMetadata = lm /\ e.recovered = d.recovered
  BY <1>1, <1>3, <1>4 DEF Decoders
<1>7. WindowFits(e, K) /\ EntriesFit(e)
  BY <1>1, <1>6 DEF GoodWindow, WindowFits, EntriesFit, EntryFits
<1>8. MetadataPassed(e)
  <2>1. d.columnStart \in Nat
    BY <1>1, DecoderType
  <2>2. MetadataEnd(e) = end
    <3>1. MetadataEnd(e) = p.columnStart + p.sumCount - d.columnStart
      BY <1>5, <1>6 DEF MetadataEnd
    <3> QED  BY <1>2, <2>1, <3>1
  <2>3. \A i \in 1 .. Len(d.recs) : d.recs[i].end = end => end =< d.recs[i].end
    OBVIOUS
  <2>4. e.lastMetadata.sumCount # 0 /\ e.count # 0
    BY <1>2, <1>5, <1>6
  <2> QED  BY <1>6, <2>2, <2>3, <2>4 DEF MetadataPassed
<1>9. GoodWindow(e, K)
  BY <1>1, <1>6, <1>7, <1>8 DEF GoodWindow
<1>10. GoodChecked(e)
  BY <1>1, <1>6 DEF GoodChecked, GoodRegion, FirstHasLoss, RangeLost
<1> QED  BY <1>9, <1>10 DEF e, GoodDecoder

(***************************************************************************)
(* AddSingleRecovery                                                       *)
(***************************************************************************)
LEMMA SingleResult ==
  ASSUME NEW K \in Nat, K =< ColumnPeriod \div 2,
         NEW d, GoodDecoder(d, K), NEW p, GoodPacket(p, K),
         NEW x \in Nat, x < d.count, p.columnStart = d.columnStart + x
  PROVE  GoodDecoder(AddSingleRecovery(d, p, x), K)
<1> DEFINE symbol == <<p.columnStart, p.first>>
           got == d.got \cup {x}
           recovered == d.recovered \cup {symbol}
           b == [d EXCEPT !.got = got, !.recovered = recovered]
           a == ResetIfChecked(b, x)
           c == IF x >= d.checked.start /\ x < d.checked.end
                THEN NothingChecked ELSE d.checked
           e == IF x = d.next THEN AdvanceNext(a, x + 1) ELSE a
<1>1. d \in Decoders /\ GoodWindow(d, K) /\ d.columnStart + d.count =< K
  BY DEF GoodDecoder, GoodWindow, WindowFits
<1>2. /\ d.columnStart \in Nat /\ d.count \in Nat /\ d.got \in SUBSET Int
      /\ d.next \in Int /\ d.checked \in Regions
      /\ d.recovered \in SUBSET (Nat \X Nat)
  BY <1>1, DecoderType
<1>3. AddSingleRecovery(d, p, x)
        = IF x \in d.got THEN d
          ELSE IF x # d.next THEN a ELSE TrimPastChecked(AdvanceNext(a, x + 1))
  <2>1. b = [d EXCEPT !.got       = @ \cup {x},
                      !.recovered = @ \cup {<<p.columnStart, p.first>>}]
    OBVIOUS
  <2> HIDE DEF b
  <2> QED  BY <2>1, Zenon DEF AddSingleRecovery
<1>4. /\ symbol \in Nat \X Nat /\ symbol[2] \in 1 .. K
         /\ symbol[2] = symbol[1] + 1
  <2>1. /\ p.columnStart \in Nat /\ p.sumCount \in Nat /\ p.sumCount > 0
        /\ p.first = p.columnStart + 1 /\ p.columnStart + p.sumCount =< K
    BY DEF GoodPacket
  <2>2. symbol[1] = p.columnStart /\ symbol[2] = p.columnStart + 1
    BY <2>1
  <2>3. p.columnStart + 1 \in 1 .. K
    BY <2>1
  <2> QED  BY <2>1, <2>2, <2>3
<1> HIDE DEF symbol
<1>5. recovered \in SUBSET (Nat \X Nat) /\ AreOwnSymbols(recovered, K)
  <2>1. AreOwnSymbols(d.recovered, K)
    BY <1>1 DEF GoodWindow
  <2> QED  BY <1>2, <1>4, <2>1 DEF AreOwnSymbols
<1>6. got \in SUBSET Int
  BY <1>2
<1> HIDE DEF got, recovered
<1>7. /\ b \in Decoders /\ b.count = d.count /\ b.got = got
      /\ b.columnStart = d.columnStart /\ b.next = d.next
      /\ b.recs = d.recs /\ b.lastMetadata = d.lastMetadata
      /\ b.recovered = recovered /\ b.checked = d.checked
  BY <1>1, <1>5, <1>6 DEF Decoders
<1>8. c \in Regions
  BY <1>2 DEF NothingChecked, Regions
<1> HIDE DEF b
<1>9. a = [b EXCEPT !.checked = c]
  BY <1>7 DEF ResetIfChecked, ResetChecked, Decoders
<1> HIDE DEF a, c
<1>10. /\ a \in Decoders /\ a.count = d.count /\ a.got = d.got \cup {x}
       /\ a.columnStart = d.columnStart /\ a.next = d.next
       /\ a.recs = d.recs /\ a.lastMetadata = d.lastMetadata
       /\ AreOwnSymbols(a.recovered, K) /\ a.checked = c
  <2>1. a \in Decoders /\ a.checked = c /\ a.got = b.got
        /\ a.recovered = b.recovered
    BY <1>7, <1>8, <1>9 DEF Decoders
  <2>2. /\ a.columnStart = b.columnStart /\ a.next = b.next /\ a.count = b.count
        /\ a.recs = b.recs /\ a.lastMetadata = b.lastMetadata
    BY <1>7, <1>9 DEF Decoders
  <2> QED  BY <1>5, <1>7, <2>1, <2>2 DEF got
<1>11. /\ GoodWindow(e, K) /\ e.checked = a.checked
       /\ GoodDecoder([e EXCEPT !.checked = c], K)
  <2> DEFINE n == d.count
  <2>1. n \in Nat /\ d.count =< n /\ d.columnStart + n =< K /\ x \in 0 .. n - 1
        /\ a.count = n
    BY <1>1, <1>2, <1>10
  <2> HIDE DEF n
  <2>2. /\ GoodWindow(e, K) /\ e.checked = a.checked
        /\ GoodDecoder([e EXCEPT !.checked =
                          IF x >= d.checked.start /\ x < d.checked.end
                          THEN NothingChecked ELSE d.checked], K)
    <3>1. /\ a \in Decoders /\ a.columnStart = d.columnStart /\ a.count = n
          /\ a.got = d.got \cup {x} /\ a.next = d.next /\ a.recs = d.recs
          /\ a.lastMetadata = d.lastMetadata /\ AreOwnSymbols(a.recovered, K)
      BY <1>10, <2>1
    <3>2. n \in Nat /\ d.count =< n /\ d.columnStart + n =< K
          /\ x \in 0 .. n - 1
      BY <2>1
    <3> QED  BY <3>1, <3>2, TakingInKeepsDecoder
  <2> QED  BY <2>2 DEF c
<1>12. GoodDecoder(e, K)
  <2>1. e \in Decoders /\ e.checked = c
    BY <1>10, <1>11 DEF GoodWindow
  <2> HIDE DEF e
  <2>2. [e EXCEPT !.checked = c] = e
    BY <2>1 DEF Decoders
  <2> QED  BY <1>11, <2>2
<1>13. GoodDecoder(TrimPastChecked(e), K)
  BY <1>12, TrimResult DEF GoodDecoder
<1>14. CASE x \in d.got
  BY <1>3, <1>14
<1>15. CASE x \notin d.got /\ x # d.next
  BY <1>3, <1>12, <1>15
<1>16. CASE x \notin d.got /\ x = d.next
  BY <1>3, <1>13, <1>16
<1> QED  BY <1>14, <1>15, <1>16

(***************************************************************************)
(* A packet goes into the list.                                            *)
(***************************************************************************)
LEMMA KeepResult ==
  ASSUME NEW K \in Nat, K =< ColumnPeriod \div 2,
         NEW d, GoodDecoder(d, K), NEW p, GoodPacket(p, K),
         NEW x \in Nat, x + p.sumCount =< d.count,
         p.columnStart = d.columnStart + x, NEW late \in BOOLEAN
  PROVE  GoodDecoder(KeepRecovery(d, p, x, late), K)
<1> DEFINE end == x + p.sumCount
           r == [columnStart |-> p.columnStart, start |-> x,
                 end |-> x + p.sumCount, row |-> p.row, first |-> p.first]
           inserted == Insert(d, r)
           noted == IF late THEN inserted ELSE RememberMetadata(inserted, p)
<1>1. /\ p.columnStart \in Nat /\ p.sumCount \in Nat /\ p.sumCount > 0
      /\ p.row \in Nat /\ p.first \in Nat /\ p.first = p.columnStart + 1
      /\ p.columnStart + p.sumCount =< K
  BY DEF GoodPacket
<1>2. d \in Decoders
  BY DEF GoodDecoder, GoodWindow
<1>3. d.columnStart \in Nat /\ d.count \in Nat
  BY <1>2, DecoderType
<1>4. KeepRecovery(d, p, x, late)
        = IF x >= RemoveThreshold THEN RemoveElements(noted) ELSE noted
  BY DEF KeepRecovery
<1>5. /\ r \in Entries /\ r.start = x /\ r.end = end /\ r.first = p.first
  <2>1. x \in Int /\ end \in Int /\ p.first \in Int
    BY <1>1
  <2> QED  BY <1>1, <2>1 DEF Entries
<1> HIDE DEF r
<1>6. EntryFits(d, r)
  BY <1>1, <1>3, <1>5 DEF EntryFits
<1>7. /\ GoodDecoder(inserted, K)
      /\ \E i \in 1 .. Len(inserted.recs) : inserted.recs[i] = r
      /\ inserted.columnStart = d.columnStart /\ inserted.count = d.count
  <2>1. /\ K \in Nat /\ GoodDecoder(d, K)
        /\ r \in Entries /\ EntryFits(d, r)
    BY <1>5, <1>6
  <2>2. LET e == Insert(d, r)
        IN  /\ GoodDecoder(e, K)
            /\ \E i \in 1 .. Len(e.recs) : e.recs[i] = r
            /\ e.columnStart = d.columnStart /\ e.count = d.count
            /\ e.next = d.next
    BY <2>1, InsertResult
  <2> QED  BY <2>2 DEF inserted
<1> HIDE DEF inserted
<1>8. GoodDecoder(RememberMetadata(inserted, p), K)
  <2>1. inserted.count # 0
    BY <1>1, <1>3, <1>7
  <2>2. end \in Int /\ p.columnStart + p.sumCount = inserted.columnStart + end
    <3>1. end \in Int /\ p.columnStart + p.sumCount = d.columnStart + end
      BY <1>1, <1>3
    <3> HIDE DEF end
    <3> QED  BY <1>7, <3>1
  <2>3. \E i \in 1 .. Len(inserted.recs) : inserted.recs[i].end = end
    BY <1>5, <1>7
  <2> HIDE DEF end
  <2> QED  BY <1>7, <2>1, <2>2, <2>3, RememberResult
<1>9. GoodDecoder(noted, K)
  BY <1>7, <1>8
<1> HIDE DEF noted
<1>10. GoodDecoder(RemoveElements(noted), K)
  BY <1>9, RemoveResult DEF GoodDecoder
<1> QED  BY <1>4, <1>9, <1>10

(***************************************************************************)
(* A recovery packet that protects an element that is not passed.          *)
(***************************************************************************)
LEMMA UseResult ==
  ASSUME NEW K \in Nat, K =< ColumnPeriod \div 2,
         NEW d, GoodDecoder(d, K), NEW p, GoodPacket(p, K),
         NEW x \in Nat, p.columnStart = d.columnStart + x, NEW late \in BOOLEAN
  PROVE  GoodDecoder(UseRecovery(d, p, x, late), K)
<1> DEFINE m == x + p.sumCount
           e == GrowWindow(d, m)
<1>1. p.sumCount \in Nat /\ p.sumCount > 0 /\ p.columnStart + p.sumCount =< K
  BY DEF GoodPacket
<1>2. d \in Decoders
  BY DEF GoodDecoder, GoodWindow
<1>3. d.columnStart \in Nat
  BY <1>2, DecoderType
<1>4. m \in Nat /\ d.columnStart + m =< K
  BY <1>1, <1>3
<1>5. GoodDecoder(e, K) /\ m =< e.count /\ e = [d EXCEPT !.count = e.count]
  <2> HIDE DEF m
  <2> QED  BY <1>4, GrowResult
<1>6. UseRecovery(d, p, x, late)
        = IF p.sumCount = 1 THEN AddSingleRecovery(e, p, x)
                            ELSE KeepRecovery(e, p, x, late)
  BY DEF UseRecovery
<1> HIDE DEF e
<1>7. e \in Decoders
  BY <1>5 DEF GoodDecoder, GoodWindow
<1>8. e.columnStart = d.columnStart /\ e.count \in Nat
  BY <1>2, <1>5, <1>7, DecoderType DEF Decoders
<1>9. x < e.count /\ x + p.sumCount =< e.count
      /\ p.columnStart = e.columnStart + x
  BY <1>1, <1>5, <1>8
<1>10. GoodDecoder(AddSingleRecovery(e, p, x), K)
  BY <1>5, <1>9, SingleResult
<1>11. GoodDecoder(KeepRecovery(e, p, x, late), K)
  BY <1>5, <1>9, KeepResult
<1> QED  BY <1>6, <1>10, <1>11

(***************************************************************************)
(* A window that is empty can start at any column.                         *)
(***************************************************************************)
LEMMA EmptyWindowResult ==
  ASSUME NEW K \in Nat, NEW d, GoodDecoder(d, K), d.count = 0,
         NEW c \in 0 .. K
  PROVE  GoodDecoder([d EXCEPT !.columnStart = c], K)
<1> DEFINE e == [d EXCEPT !.columnStart = c]
<1>1. d \in Decoders /\ GoodWindow(d, K) /\ GoodChecked(d)
  BY DEF GoodDecoder, GoodWindow
<1>2. /\ d.recs \in Seq(Entries) /\ Len(d.recs) \in Nat /\ d.next \in Int
      /\ d.checked.count \in Nat
      /\ \A i \in 1 .. Len(d.recs) : d.recs[i].start \in Int
         /\ d.recs[i].end \in Int
  BY <1>1, DecoderType
<1>3. /\ e \in Decoders /\ e.columnStart = c /\ e.recs = d.recs
      /\ e.count = d.count /\ e.got = d.got /\ e.next = d.next
      /\ e.lastMetadata = d.lastMetadata /\ e.recovered = d.recovered
      /\ e.checked = d.checked
  <2>1. e \in Decoders
    <3>1. c \in Nat
      OBVIOUS
    <3>2. \A m \in Nat : [d EXCEPT !.columnStart = m] \in Decoders
      BY <1>1 DEF Decoders
    <3> QED  BY <3>1, <3>2
  <2>2. /\ e.columnStart = c /\ e.recs = d.recs /\ e.count = d.count
        /\ e.got = d.got /\ e.next = d.next
    BY <1>1 DEF Decoders
  <2>3. /\ e.lastMetadata = d.lastMetadata /\ e.recovered = d.recovered
        /\ e.checked = d.checked
    BY <1>1 DEF Decoders
  <2> QED  BY <2>1, <2>2, <2>3
<1> HIDE DEF e
<1>4. Len(d.recs) = 0
  <2> SUFFICES ASSUME Len(d.recs) > 0 PROVE FALSE
    BY <1>2
  <2>1. 1 \in 1 .. Len(d.recs)
    BY <1>2
  <2>2. EntryFits(d, d.recs[1]) /\ d.recs[1].start \in Int
        /\ d.recs[1].end \in Int
    BY <1>1, <1>2, <2>1 DEF GoodWindow, EntriesFit
  <2> QED  BY <2>2 DEF EntryFits
<1>5. ~(d.next < 0)
  <2>1. \A s \in Seq(Entries) : s = <<>> <=> Len(s) = 0
    BY ShortSequence
  <2> QED  BY <1>1, <1>2, <1>4, <2>1 DEF GoodWindow
<1>6. d.lastMetadata.sumCount = 0 /\ d.lastMetadata.columnStart = 0
  BY <1>1 DEF GoodWindow, MetadataPassed
<1>7. WindowFits(e, K)
  BY <1>1, <1>3 DEF GoodWindow, WindowFits
<1>8. EntriesFit(e) /\ MetadataPassed(e)
  BY <1>3, <1>4, <1>6 DEF EntriesFit, MetadataPassed
<1>9. GoodWindow(e, K)
  BY <1>1, <1>3, <1>5, <1>7, <1>8 DEF GoodWindow
<1>10. ~(d.checked.count > 0)
  BY <1>1, <1>2, <1>4 DEF GoodChecked, GoodRegion
<1>11. GoodChecked(e)
  BY <1>3, <1>10 DEF GoodChecked
<1> QED  BY <1>9, <1>11 DEF e, GoodDecoder

(***************************************************************************)
(* A packet that protects nothing new.                                     *)
(***************************************************************************)
LEMMA PassOverResult ==
  ASSUME NEW K \in Nat, K =< ColumnPeriod \div 2,
         NEW d, GoodDecoder(d, K), NEW p, GoodPacket(p, K), d.count # 0,
         NEW end \in Int, p.columnStart + p.sumCount = d.columnStart + end,
         NextIsFrom(d, end), NEW x, NEW late \in BOOLEAN
  PROVE  GoodDecoder(PassOver(d, p, x, late), K)
<1> DEFINE e == RememberMetadata(d, p)
<1>1. d.next \in Int
  BY DecoderType DEF GoodDecoder, GoodWindow
<1>2. d.next < 0 \/ end =< d.next
  BY <1>1 DEF NextIsFrom
<1>3. GoodDecoder(e, K)
  BY <1>2, RememberResult
<1> HIDE DEF e
<1>4. GoodDecoder(RemoveElements(e), K)
  BY <1>3, RemoveResult DEF GoodDecoder
<1> QED  BY <1>4 DEF PassOver, e

(***************************************************************************)
(* siamese_decoder_add_recovery                                            *)
(***************************************************************************)
LEMMA AddRecoveryResult ==
  ASSUME NEW K \in Nat, K =< ColumnPeriod \div 2,
         NEW d, GoodDecoder(d, K), NEW p, GoodPacket(p, K)
  PROVE  GoodDecoder(AddRecovery(d, p), K)
<1> DEFINE x == p.columnStart + p.sumCount
           later == IsRawDeltaNegative(x - d.latestColumn)
           newest == x % ColumnPeriod
           seen == IF later THEN d ELSE [d EXCEPT !.latestColumn = newest]
           end == DecoderElement(d, x)
           start == end - p.sumCount
           fresh == [seen EXCEPT !.columnStart = p.columnStart]
<1>1. /\ p.columnStart \in Nat /\ p.sumCount \in Nat /\ p.sumCount > 0
      /\ x \in 0 .. K /\ x \in Int
  BY DEF GoodPacket
<1>2. d \in Decoders /\ GoodWindow(d, K) /\ GoodChecked(d)
      /\ d.columnStart + d.count =< K
  BY DEF GoodDecoder, GoodWindow, WindowFits
<1>3. d.columnStart \in Nat /\ d.count \in Nat /\ d.columnStart \in 0 .. K
  BY <1>2, DecoderType
<1>4. later \in BOOLEAN
  BY DEF IsRawDeltaNegative, IsColumnDeltaNegative
<1>5. AddRecovery(d, p)
        = IF d.count = 0
          THEN IF later THEN seen ELSE UseRecovery(fresh, p, 0, later)
          ELSE IF IsColumnDeltaNegative(end) \/ start < 0 THEN seen
          ELSE IF NextIsFrom(d, end) THEN PassOver(seen, p, start, later)
          ELSE UseRecovery(seen, p, start, later)
  BY Zenon DEF AddRecovery
<1>6. newest \in Int
  <2> HIDE DEF x
  <2> QED  BY <1>1, ColumnPeriodAssumption
<1> HIDE DEF x, later, newest
<1>7. GoodDecoder(seen, K) /\ seen.count = d.count
      /\ seen.columnStart = d.columnStart
      /\ seen.next = d.next
  <2> DEFINE e == [d EXCEPT !.latestColumn = newest]
  <2>1. e \in Decoders /\ SameWindow(d, e) /\ e.checked = d.checked
    BY <1>2, <1>6 DEF Decoders, SameWindow
  <2> HIDE DEF e
  <2>2. GoodWindow(e, K) /\ GoodChecked(e)
    BY <1>2, <2>1, SameWindowIsGood
  <2>3. seen = d \/ seen = e
    BY DEF e
  <2> QED  BY <2>1, <2>2, <2>3 DEF GoodDecoder, SameWindow
<1> HIDE DEF seen
<1>8. PICK late \in BOOLEAN : late = later
  BY <1>4
<1>9. CASE d.count = 0
  <2>1. p.columnStart \in 0 .. K
    BY <1>1 DEF x
  <2>2. GoodDecoder(fresh, K)
    <3> DEFINE c == p.columnStart
    <3>1. c \in 0 .. K
      BY <2>1
    <3> HIDE DEF c
    <3>2. GoodDecoder([seen EXCEPT !.columnStart = c], K)
      BY <1>7, <1>9, <3>1, EmptyWindowResult
    <3> QED  BY <3>2 DEF c
  <2>3. seen \in Decoders
    BY <1>7 DEF GoodDecoder, GoodWindow
  <2>4. fresh.columnStart = p.columnStart
    BY <2>3 DEF Decoders
  <2> HIDE DEF fresh
  <2>5. 0 \in Nat /\ p.columnStart = fresh.columnStart + 0
    BY <1>1, <2>4
  <2>6. GoodDecoder(UseRecovery(fresh, p, 0, late), K)
    BY <2>2, <2>5, UseResult
  <2> QED  BY <1>5, <1>7, <1>8, <1>9, <2>6
<1>10. CASE d.count # 0 /\ (IsColumnDeltaNegative(end) \/ start < 0)
  BY <1>5, <1>7, <1>9, <1>10
<1>11. CASE d.count # 0 /\ ~(IsColumnDeltaNegative(end) \/ start < 0)
  <2>1. end = x - d.columnStart /\ x >= d.columnStart
    BY <1>1, <1>3, <1>11, ElementOfColumn DEF DecoderElement
  <2> HIDE DEF end
  <2>2. end \in Int /\ x = d.columnStart + end
    BY <1>1, <1>3, <2>1
  <2>3. /\ start \in Nat /\ p.columnStart = d.columnStart + start
    BY <1>1, <1>3, <1>11, <2>2 DEF x
  <2> HIDE DEF start
  <2>4. NextIsFrom(d, end) => GoodDecoder(PassOver(seen, p, start, late), K)
    <3> SUFFICES ASSUME NextIsFrom(d, end)
                 PROVE  GoodDecoder(PassOver(seen, p, start, late), K)
      OBVIOUS
    <3>1. NextIsFrom(seen, end)
      BY <1>7 DEF NextIsFrom
    <3>2. p.columnStart + p.sumCount = seen.columnStart + end /\ seen.count # 0
      BY <1>7, <1>11, <2>2 DEF x
    <3> QED  BY <1>7, <2>2, <3>1, <3>2, PassOverResult
  <2>5. GoodDecoder(UseRecovery(seen, p, start, late), K)
    <3>1. p.columnStart = seen.columnStart + start
      BY <1>7, <2>3
    <3> QED  BY <1>7, <2>3, <3>1, UseResult
  <2> QED  BY <1>5, <1>8, <1>11, <2>4, <2>5
<1> QED  BY <1>9, <1>10, <1>11

-----------------------------------------------------------------------------
(* The cached region                                                       *)

(***************************************************************************)
(* Losses of adjacent ranges add up.                                       *)
(***************************************************************************)
LEMMA LossesAddUp ==
  ASSUME NEW d, NEW a \in Int, NEW b \in Int, NEW c \in Int, a =< b, b =< c
  PROVE  Cardinality(RangeLost(d, a, c))
           = Cardinality(RangeLost(d, a, b)) + Cardinality(RangeLost(d, b, c))
<1> DEFINE S == RangeLost(d, a, b)
           T == RangeLost(d, b, c)
           U == RangeLost(d, a, c)
<1>1. /\ IsFiniteSet(S) /\ IsFiniteSet(T)
      /\ Cardinality(S) \in Nat /\ Cardinality(T) \in Nat
  BY LossesFinite
<1>2. U = S \cup T
  BY DEF RangeLost
<1>3. S \cap T = {}
  BY DEF RangeLost
<1> HIDE DEF S, T, U
<1>4. Cardinality(S \cup T)
        = Cardinality(S) + Cardinality(T) - Cardinality(S \cap T)
  BY <1>1, FS_Union
<1>5. Cardinality(S \cap T) = 0
  BY <1>3, FS_EmptySet
<1> QED  BY <1>1, <1>2, <1>4, <1>5 DEF S, T, U

(***************************************************************************)
(* CheckRecoveryPossible starts with the first packet, and each turn takes *)
(* in the next one.                                                        *)
(***************************************************************************)
LEMMA HeadRegion ==
  ASSUME NEW K \in Nat, NEW d, GoodWindow(d, K), d.recs # <<>>
  PROVE  CheckedHead(d) \in Regions /\ GoodRegion(d, CheckedHead(d))
<1> DEFINE r == d.recs[1]
           c == CheckedHead(d)
           lost == Cardinality(RangeLost(d, r.start, r.end))
<1>1. d \in Decoders
  BY DEF GoodWindow
<1>2. d.recs \in Seq(Entries) /\ Len(d.recs) \in Nat
  BY <1>1, DecoderType
<1>3. Len(d.recs) # 0
  <2>1. \A q \in Seq(Entries) : q = <<>> <=> Len(q) = 0
    BY ShortSequence
  <2> QED  BY <1>2, <2>1
<1>4. 1 \in 1 .. Len(d.recs)
  BY <1>2, <1>3
<1>5. r.start \in Int /\ r.end \in Int
  BY <1>1, <1>4, DecoderType
<1>6. lost \in Nat
  BY <1>5, LossesFinite
<1>7. c = [count |-> 1, start |-> r.start, end |-> r.end, lost |-> lost]
  BY DEF CheckedHead
<1> HIDE DEF r, c, lost
<1>8. /\ c \in Regions /\ c.count = 1 /\ c.start = r.start
      /\ c.end = r.end /\ c.lost = lost
  BY <1>5, <1>6, <1>7 DEF Regions
<1>9. \A i \in 1 .. c.count : i = 1
  BY <1>8
<1>10. 1 \in 1 .. c.count /\ r.end =< r.end
  BY <1>5, <1>8
<1>11. GoodRegion(d, c)
  BY <1>4, <1>8, <1>9, <1>10 DEF GoodRegion, r, lost
<1> QED  BY <1>8, <1>11 DEF c

(***************************************************************************)
(* Adding the next packet to a region that is right gives one that is      *)
(* right.                                                                  *)
(***************************************************************************)
LEMMA OneMoreRegion ==
  ASSUME NEW K \in Nat, NEW d, GoodWindow(d, K),
         NEW c \in Regions, GoodRegion(d, c), c.count < Len(d.recs)
  PROVE  CheckOneMore(d, c) \in Regions /\ GoodRegion(d, CheckOneMore(d, c))
<1> DEFINE n == c.count + 1
           r == d.recs[n]
           end == Max({c.end, r.end})
           lost == Cardinality(RangeLost(d, c.end, end))
           e == CheckOneMore(d, c)
<1>1. d \in Decoders /\ EntriesFit(d)
  BY DEF GoodWindow
<1>2. /\ Len(d.recs) \in Nat /\ d.count \in Nat
      /\ \A i \in 1 .. Len(d.recs) : d.recs[i].start \in Int
         /\ d.recs[i].end \in Int
  BY <1>1, DecoderType
<1>3. c.count \in Nat /\ c.start \in Int /\ c.end \in Int /\ c.lost \in Nat
  BY DEF Regions
<1>4. /\ c.count \in 1 .. Len(d.recs) /\ c.start = d.recs[1].start
      /\ \A i \in 1 .. c.count : d.recs[i].end =< c.end
      /\ \E i \in 1 .. c.count : d.recs[i].end = c.end
      /\ c.lost = Cardinality(RangeLost(d, c.start, c.end))
  BY DEF GoodRegion
<1>5. n \in 1 .. Len(d.recs) /\ 1 \in 1 .. Len(d.recs) /\ 1 \in 1 .. c.count
      /\ \A i \in 1 .. c.count : i \in 1 .. Len(d.recs)
  BY <1>2, <1>3, <1>4
<1>6. \A i \in 1 .. Len(d.recs) :
        /\ 0 =< d.recs[i].start /\ d.recs[i].start < d.recs[i].end
        /\ d.recs[i].end =< d.count
  BY <1>1 DEF EntriesFit, EntryFits
<1>7. r.end \in 0 .. d.count /\ c.end \in 0 .. d.count /\ c.start =< c.end
  <2>1. r.end \in 0 .. d.count
    <3> HIDE DEF n
    <3>1. /\ 0 =< r.start /\ r.start < r.end /\ r.end =< d.count
          /\ r.start \in Int /\ r.end \in Int
      BY <1>2, <1>5, <1>6
    <3> QED  BY <1>2, <3>1
  <2>2. PICK i \in 1 .. c.count : d.recs[i].end = c.end
    BY <1>4
  <2>3. c.end \in 0 .. d.count
    <3> DEFINE a == d.recs[i].start
               b == c.end
    <3>1. 0 =< a /\ a < b /\ b =< d.count /\ a \in Int /\ b \in Int
      BY <1>2, <1>3, <1>5, <1>6, <2>2
    <3> HIDE DEF a, b
    <3>2. b \in 0 .. d.count
      BY <1>2, <3>1
    <3> QED  BY <3>2 DEF b
  <2>4. c.start =< c.end
    <3> DEFINE a == c.start
               b == d.recs[1].end
               f == c.end
    <3>1. a < b /\ b =< f /\ a \in Int /\ b \in Int /\ f \in Int
      BY <1>2, <1>3, <1>4, <1>5, <1>6
    <3> HIDE DEF a, b, f
    <3>2. a =< f
      BY <3>1
    <3> QED  BY <3>2 DEF a, f
  <2> QED  BY <2>1, <2>3, <2>4
<1>8. /\ end \in {c.end, r.end} /\ c.end =< end /\ r.end =< end /\ end \in Int
  <2> DEFINE S == {c.end, r.end}
  <2>1. S \in SUBSET (0 .. d.count) /\ S # {}
    BY <1>7
  <2>2. c.end \in S /\ r.end \in S /\ \A m \in S : m \in Int
    BY <1>7
  <2> HIDE DEF S
  <2>3. Max(S) \in S /\ \A m \in S : m =< Max(S)
    BY <1>2, <2>1, MaxResult
  <2>4. end = Max(S)
    BY DEF S
  <2> HIDE DEF end, r, n
  <2>5. end \in S /\ c.end =< end /\ r.end =< end
    BY <2>2, <2>3, <2>4
  <2>6. end \in Int
    BY <2>2, <2>3, <2>4
  <2> QED  BY <2>5, <2>6 DEF S, r, n
<1>9. e = [c EXCEPT !.count = n, !.end = end, !.lost = c.lost + lost]
  BY DEF CheckOneMore
<1> HIDE DEF end, e
<1>10. lost \in Nat
  BY <1>3, <1>8, LossesFinite
<1>11. c.lost + lost = Cardinality(RangeLost(d, c.start, end))
  BY <1>3, <1>4, <1>7, <1>8, LossesAddUp
<1> HIDE DEF lost
<1>12. /\ e \in Regions /\ e.count = n /\ e.start = c.start
       /\ e.end = end /\ e.lost = c.lost + lost
  <2>1. n \in Nat /\ c.lost + lost \in Nat
    BY <1>3, <1>10
  <2> HIDE DEF n
  <2> QED  BY <1>8, <1>9, <2>1 DEF Regions
<1>13. \A i \in 1 .. e.count : i \in 1 .. c.count \/ i = n
  BY <1>3, <1>12
<1>14. ASSUME NEW i \in 1 .. e.count PROVE d.recs[i].end =< e.end
  <2>1. CASE i = n
    BY <1>8, <1>12, <2>1
  <2>2. CASE i \in 1 .. c.count
    <3>1. d.recs[i].end =< c.end /\ d.recs[i].end \in Int
      BY <1>2, <1>4, <1>5, <2>2
    <3> QED  BY <1>3, <1>8, <1>12, <3>1
  <2> QED  BY <1>13, <2>1, <2>2
<1>15. \E i \in 1 .. e.count : d.recs[i].end = e.end
  <2>1. CASE end = r.end
    <3>1. n \in 1 .. e.count
      BY <1>3, <1>12
    <3> HIDE DEF n
    <3> QED  BY <1>12, <2>1, <3>1
  <2>2. CASE end = c.end
    <3>1. PICK i \in 1 .. c.count : d.recs[i].end = c.end
      BY <1>4
    <3>2. i \in 1 .. e.count
      BY <1>3, <1>12
    <3> QED  BY <1>12, <2>2, <3>1, <3>2
  <2> QED  BY <1>8, <2>1, <2>2
<1>16. GoodRegion(d, e)
  BY <1>4, <1>5, <1>11, <1>12, <1>14, <1>15 DEF GoodRegion
<1> QED  BY <1>12, <1>16 DEF e

\* One turn of the loop of CheckRecoveryPossible.
GrowOnce(d, c) ==
  IF c.count < c.lost /\ c.count < Len(d.recs) THEN CheckOneMore(d, c) ELSE c

\* The loop goes from one member of X to another.
GrowsWithin(d, from, X) ==
  \E turn \in [Nat -> X] :
    /\ turn[0] = from
    /\ \A n \in Nat : turn[n + 1] = GrowOnce(d, turn[n])
    /\ GrowChecked(d, from) = turn[Len(d.recs)]

(***************************************************************************)
(* The turns of CheckRecoveryPossible stay in a set of regions that is     *)
(* closed under a turn.                                                    *)
(***************************************************************************)
LEMMA GrowIsIterated ==
  ASSUME NEW d, Len(d.recs) \in Nat,
         NEW X, NEW from \in X, \A c \in X : GrowOnce(d, c) \in X
  PROVE  GrowsWithin(d, from, X)
<1> DEFINE step  == [c \in X |-> GrowOnce(d, c)]
           turn  == CHOOSE g : g = [n \in Nat |-> IF n = 0 THEN from
                                                  ELSE GrowOnce(d, g[n - 1])]
<1>1. step \in [X -> X]
  OBVIOUS
<1>2. GrowChecked(d, from) = turn[Len(d.recs)]
  BY DEF GrowChecked, GrowOnce
<1>3. \A c \in X : step[c] = GrowOnce(d, c)
  OBVIOUS
<1> HIDE DEF step
<1>4. PICK g : IsIteration(g, X, from, step)
  BY <1>1, Iteration
<1>5. /\ g \in [Nat -> X]
      /\ g[0] = from
      /\ \A n \in Nat : g[n + 1] = step[g[n]]
  BY <1>4 DEF IsIteration
<1>6. g = [n \in Nat |-> IF n = 0 THEN from ELSE GrowOnce(d, g[n - 1])]
  <2>1. ASSUME NEW n \in Nat
        PROVE  g[n] = IF n = 0 THEN from ELSE GrowOnce(d, g[n - 1])
    <3>1. CASE n = 0
      BY <1>5, <3>1
    <3>2. CASE n # 0
      <4>1. n - 1 \in Nat /\ (n - 1) + 1 = n
        BY <3>2
      <4>2. g[(n - 1) + 1] = step[g[n - 1]] /\ g[n - 1] \in X
        BY <1>5, <4>1
      <4> QED  BY <1>3, <3>2, <4>1, <4>2
    <3> QED  BY <3>1, <3>2
  <2> QED  BY <1>5, <2>1
<1>7. turn = [n \in Nat |-> IF n = 0 THEN from ELSE GrowOnce(d, turn[n - 1])]
  BY <1>6
<1> HIDE DEF turn
<1>8. \A n \in Nat : turn[n] \in X
  <2> DEFINE S == {n \in Nat : turn[n] \in X}
  <2>1. 0 \in S
    BY <1>7
  <2>2. ASSUME NEW n \in Nat, n \in S PROVE n + 1 \in S
    <3>1. turn[n + 1] = GrowOnce(d, turn[n])
      BY <1>7
    <3> QED  BY <2>2, <3>1
  <2> HIDE DEF S
  <2>3. \A n \in Nat : n \in S
    BY <2>1, <2>2, SetInduction
  <2> QED  BY <2>3 DEF S
<1>9. turn \in [Nat -> X] /\ turn[0] = from
  BY <1>7, <1>8
<1>10. ASSUME NEW n \in Nat PROVE turn[n + 1] = GrowOnce(d, turn[n])
  BY <1>7
<1> QED  BY <1>2, <1>9, <1>10 DEF GrowsWithin

(***************************************************************************)
(* What holds of a region and is kept by adding a packet holds of the      *)
(* region in the end.                                                      *)
(***************************************************************************)
LEMMA GrowStaysIn ==
  ASSUME NEW d, Len(d.recs) \in Nat,
         NEW X, NEW from \in X, \A c \in X : GrowOnce(d, c) \in X
  PROVE  GrowChecked(d, from) \in X
<1>1. PICK turn \in [Nat -> X] :
           /\ turn[0] = from
           /\ \A n \in Nat : turn[n + 1] = GrowOnce(d, turn[n])
           /\ GrowChecked(d, from) = turn[Len(d.recs)]
  <2>1. GrowsWithin(d, from, X)
    BY GrowIsIterated
  <2> QED  BY <2>1 DEF GrowsWithin
<1> QED  BY <1>1

(***************************************************************************)
(* CheckRecoveryPossible caches a right region; when nothing can be        *)
(* recovered from it, its first packet has a loss.                         *)
(***************************************************************************)
LEMMA CheckResult ==
  ASSUME NEW K \in Nat, NEW d, GoodDecoder(d, K)
  PROVE  LET e == CheckRecoveryPossible(d)
         IN  /\ GoodWindow(e, K)
             /\ e.checked.count > 0 => GoodRegion(e, e.checked)
             /\ ~IsRecoveryPossible(e) => GoodDecoder(e, K)
             /\ e.recs = d.recs
<1> DEFINE from == IF d.checked.count = 0 THEN CheckedHead(d) ELSE d.checked
           c == GrowChecked(d, from)
           e == CheckRecoveryPossible(d)
<1>1. d \in Decoders /\ GoodWindow(d, K) /\ GoodChecked(d)
  BY DEF GoodDecoder, GoodWindow
<1>2. CASE d.recs = <<>>
  <2>1. e = d
    BY <1>2 DEF CheckRecoveryPossible
  <2> HIDE DEF e
  <2> QED  BY <1>1, <2>1 DEF e, GoodChecked
<1>3. CASE d.recs # <<>>
  <2>1. d.checked \in Regions /\ Len(d.recs) \in Nat /\ d.checked.count \in Nat
    BY <1>1, DecoderType
  <2>2. from \in Regions /\ GoodRegion(d, from)
    <3>1. CheckedHead(d) \in Regions /\ GoodRegion(d, CheckedHead(d))
      BY <1>1, <1>3, HeadRegion
    <3> QED  BY <1>1, <2>1, <3>1 DEF GoodChecked
  <2>3. e = [d EXCEPT !.checked = c]
    BY <1>3 DEF CheckRecoveryPossible
  <2>4. c \in Regions /\ GoodRegion(d, c)
    <3> DEFINE X == {a \in Regions : GoodRegion(d, a)}
    <3>1. ASSUME NEW a \in X PROVE GrowOnce(d, a) \in X
      <4>1. CASE a.count < a.lost /\ a.count < Len(d.recs)
        <5>1. CheckOneMore(d, a) \in Regions
              /\ GoodRegion(d, CheckOneMore(d, a))
          BY <1>1, <4>1, OneMoreRegion
        <5> QED  BY <4>1, <5>1 DEF GrowOnce
      <4>2. CASE ~(a.count < a.lost /\ a.count < Len(d.recs))
        BY <4>2 DEF GrowOnce
      <4> QED  BY <4>1, <4>2
    <3>2. from \in X
      BY <2>2
    <3> HIDE DEF X, from
    <3>3. c \in X
      BY <2>1, <3>1, <3>2, GrowStaysIn
    <3> QED  BY <3>3 DEF X
  <2>5. ~(from.count < from.lost) => c = from
    <3> SUFFICES ASSUME ~(from.count < from.lost) PROVE c \in {from}
      OBVIOUS
    <3> DEFINE X == {from}
    <3>1. \A a \in X : GrowOnce(d, a) \in X
      BY DEF GrowOnce
    <3>2. from \in X
      OBVIOUS
    <3> HIDE DEF X, from
    <3>3. c \in X
      BY <2>1, <3>1, <3>2, GrowStaysIn
    <3> QED  BY <3>3 DEF X
  <2> HIDE DEF c, e
  <2>6. GoodWindow(e, K) /\ e.checked = c
    BY <1>1, <2>3, <2>4, WindowWithoutChecked
  <2>7. /\ e \in Decoders /\ e.recs = d.recs /\ e.got = d.got
    BY <1>1, <2>3, <2>6 DEF Decoders, GoodWindow
  <2>8. GoodRegion(e, c)
    BY <2>4, <2>7 DEF GoodRegion, RangeLost
  <2>9. ASSUME ~IsRecoveryPossible(e) PROVE FirstHasLoss(d)
    <3>1. CASE d.checked.count # 0
      BY <1>1, <2>1, <3>1 DEF GoodChecked
    <3>2. CASE d.checked.count = 0
      <4> DEFINE a == d.recs[1].start
                 b == d.recs[1].end
                 S == RangeLost(d, a, b)
      <4>1. from = CheckedHead(d)
        BY <3>2
      <4>2. from.count = 1 /\ from.lost = Cardinality(S)
        BY <4>1 DEF CheckedHead
      <4> SUFFICES ASSUME S = {} PROVE FALSE
        BY DEF FirstHasLoss
      <4>3. from.lost = 0
        BY <4>2, FS_EmptySet
      <4>4. c = from
        BY <2>5, <4>2, <4>3
      <4>5. IsRecoveryPossible(e)
        BY <2>6, <4>2, <4>3, <4>4, SiameseDecoderAssumption
           DEF IsRecoveryPossible
      <4> QED  BY <2>9, <4>5
    <3> QED  BY <3>1, <3>2
  <2>10. FirstHasLoss(d) => FirstHasLoss(e)
    BY <2>7 DEF FirstHasLoss, RangeLost
  <2>11. ~IsRecoveryPossible(e) => GoodDecoder(e, K)
    BY <2>6, <2>8, <2>9, <2>10 DEF GoodDecoder, GoodChecked
  <2> QED  BY <2>6, <2>7, <2>8, <2>11 DEF e
<1> QED  BY <1>2, <1>3

-----------------------------------------------------------------------------
(* Recovering                                                              *)

(***************************************************************************)
(* A region that can be solved has a packet for each of its losses.        *)
(***************************************************************************)
LEMMA SolvableIsProtected ==
  ASSUME NEW d \in Decoders, IsSolvable(d), NEW x \in CheckedLost(d)
  PROVE  \E i \in 1 .. d.checked.count :
           d.recs[i].start =< x /\ x < d.recs[i].end
<1> DEFINE R == {r \in MatrixRows(d) : x \in r[2]}
           L == {y \in CheckedLost(d) : y >= x}
<1>1. Cardinality(R) >= Cardinality(L)
  BY DEF IsSolvable
<1>2. d.checked.start \in Int /\ d.checked.end \in Int
  BY DecoderType
<1>3. IsFiniteSet(CheckedLost(d)) /\ x \in Int
  BY <1>2, LossesFinite DEF CheckedLost
<1>4. L \in SUBSET CheckedLost(d) /\ x \in L
  BY <1>3
<1> HIDE DEF L, R
<1>5. IsFiniteSet(L) /\ L # {}
  BY <1>3, <1>4, FS_Subset
<1>6. Cardinality(L) \in Nat /\ Cardinality(L) # 0
  BY <1>5, FS_CardinalityType, FS_EmptySet
<1>7. R # {}
  <2> SUFFICES ASSUME R = {} PROVE FALSE
    OBVIOUS
  <2>1. Cardinality(R) = 0
    BY FS_EmptySet
  <2> QED  BY <1>1, <1>6, <2>1
<1>8. PICK r \in MatrixRows(d) : x \in r[2]
  BY <1>7 DEF R
<1>9. PICK i \in 1 .. d.checked.count :
        r = <<d.recs[i].row, RowEntries(d, d.recs[i])>>
  BY <1>8 DEF MatrixRows
<1>10. x \in RowEntries(d, d.recs[i])
  BY <1>8, <1>9
<1>11. d.recs[i].start =< x /\ x < d.recs[i].end
  BY <1>3, <1>10 DEF RowEntries
<1> QED  BY <1>11

(***************************************************************************)
(* What is recovered is the chunk of its column.                           *)
(***************************************************************************)
LEMMA RecoveredResult ==
  ASSUME NEW K \in Nat, K =< ColumnPeriod \div 2,
         NEW d, GoodWindow(d, K), GoodRegion(d, d.checked), IsSolvable(d)
  PROVE  /\ AreOwnSymbols(RecoveredChunks(d), K)
         /\ RecoveredChunks(d) \in SUBSET (Nat \X Nat)
<1>1. d \in Decoders /\ EntriesFit(d) /\ d.columnStart + d.count =< K
  BY DEF GoodWindow, WindowFits
<1>2. /\ d.columnStart \in Nat /\ d.count \in Nat /\ Len(d.recs) \in Nat
      /\ d.checked.count \in Nat
      /\ d.checked.start \in Int /\ d.checked.end \in Int
      /\ \A i \in 1 .. Len(d.recs) : /\ d.recs[i].start \in Int
                                     /\ d.recs[i].end \in Int
                                     /\ d.recs[i].first \in Int
  BY <1>1, DecoderType
<1>3. d.checked.count \in 1 .. Len(d.recs)
  BY DEF GoodRegion
<1> SUFFICES ASSUME NEW x \in CheckedLost(d)
             PROVE  LET s == <<AddColumns(d.columnStart, x), ChunkAt(d, x)>>
                    IN  /\ s[2] \in 1 .. K /\ s[2] = s[1] + 1
                        /\ s \in Nat \X Nat
  BY DEF AreOwnSymbols, RecoveredChunks
<1> DEFINE Protects(i) == d.recs[i].start =< x /\ x < d.recs[i].end
           i == CHOOSE i \in 1 .. d.checked.count : Protects(i)
<1>4. \E j \in 1 .. d.checked.count : Protects(j)
  BY <1>1, SolvableIsProtected
<1>5. i \in 1 .. d.checked.count /\ Protects(i)
  BY <1>4
<1>6. ChunkAt(d, x) = d.recs[i].first + (x - d.recs[i].start)
  BY DEF ChunkAt
<1> HIDE DEF i
<1>7. i \in 1 .. Len(d.recs)
  BY <1>2, <1>3, <1>5
<1>8. /\ 0 =< d.recs[i].start /\ d.recs[i].end =< d.count
      /\ d.recs[i].first = d.columnStart + d.recs[i].start + 1
  BY <1>1, <1>7 DEF EntriesFit, EntryFits
<1>9. x \in Int
  BY <1>2 DEF CheckedLost, RangeLost
<1>10. x >= 0 /\ x < d.count /\ ChunkAt(d, x) = d.columnStart + x + 1
  <2> DEFINE a == d.recs[i].start
             b == d.recs[i].end
             f == d.recs[i].first
  <2>1. /\ a \in Int /\ b \in Int /\ a =< x /\ x < b /\ 0 =< a /\ b =< d.count
        /\ f = d.columnStart + a + 1 /\ ChunkAt(d, x) = f + (x - a)
    BY <1>2, <1>5, <1>6, <1>7, <1>8
  <2> HIDE DEF a, b, f
  <2>2. x >= 0 /\ x < d.count
    BY <1>2, <1>9, <2>1
  <2>3. f + (x - a) = d.columnStart + x + 1
    BY <1>2, <1>9, <2>1
  <2> QED  BY <2>1, <2>2, <2>3
<1>11. d.columnStart + x \in 0 .. K
  <2> DEFINE o == d.columnStart
             n == d.count
  <2>1. o \in Nat /\ n \in Nat /\ o + n =< K /\ x < n /\ x >= 0
    BY <1>1, <1>2, <1>10 DEF WindowFits
  <2> HIDE DEF o, n
  <2>2. o + x \in 0 .. K
    BY <1>9, <2>1
  <2> QED  BY <2>2 DEF o
<1>12. AddColumns(d.columnStart, x) = d.columnStart + x
  <2>1. d.columnStart \in Int
    BY <1>2
  <2> QED  BY <1>9, <1>11, <2>1, SumOfColumns
<1>13. d.columnStart + x + 1 \in 1 .. K
  BY <1>1, <1>2, <1>9, <1>10
<1> QED  BY <1>2, <1>9, <1>10, <1>12, <1>13

(***************************************************************************)
(* BackSubstitution: the lost columns are taken in, the next expected      *)
(* element moves behind the region, and the window is trimmed.             *)
(***************************************************************************)
LEMMA BackResult ==
  ASSUME NEW K \in Nat, K =< ColumnPeriod \div 2,
         NEW d, GoodWindow(d, K), GoodRegion(d, d.checked)
  PROVE  LET e == BackSubstitution(d)
         IN  e \in Decoders /\ (e.disabled \/ GoodDecoder(e, K))
<1> DEFINE c == d.checked
           got == d.got \cup CheckedLost(d)
           b == [d EXCEPT !.got = got]
           f == AdvanceNext(b, c.end)
           t == TrimPastChecked(f)
           e == BackSubstitution(d)
<1>1. d \in Decoders /\ WindowFits(d, K) /\ EntriesFit(d) /\ MetadataPassed(d)
      /\ AreOwnSymbols(d.recovered, K)
  BY DEF GoodWindow
<1>2. /\ d.columnStart \in Nat /\ d.count \in Nat /\ Len(d.recs) \in Nat
      /\ d.got \in SUBSET Int /\ d.next \in Int
      /\ c.count \in Nat /\ c.start \in Int /\ c.end \in Int
      /\ \A i \in 1 .. Len(d.recs) : /\ d.recs[i].start \in Int
                                     /\ d.recs[i].end \in Int
  BY <1>1, DecoderType
<1>3. /\ c.count \in 1 .. Len(d.recs) /\ c.start = d.recs[1].start
      /\ \E i \in 1 .. c.count : d.recs[i].end = c.end
  BY DEF GoodRegion
<1>4. c.start >= 0 /\ c.end =< d.count /\ c.end \in Nat
  <2>1. \A i \in 1 .. Len(d.recs) :
          /\ 0 =< d.recs[i].start /\ d.recs[i].start < d.recs[i].end
          /\ d.recs[i].end =< d.count
    BY <1>1 DEF EntriesFit, EntryFits
  <2> HIDE DEF c, got, b, f, t, e
  <2>2. /\ 1 \in 1 .. Len(d.recs)
        /\ \A i \in 1 .. c.count : i \in 1 .. Len(d.recs)
    <3>1. c.count \in Nat /\ 1 =< c.count /\ c.count =< Len(d.recs)
      BY <1>2, <1>3
    <3> QED  BY <1>2, <3>1
  <2>3. PICK i \in 1 .. c.count : d.recs[i].end = c.end
    BY <1>3
  <2>4. /\ 0 =< d.recs[i].start /\ d.recs[i].start < c.end /\ c.end =< d.count
        /\ d.recs[i].start \in Int
    BY <1>2, <2>1, <2>2, <2>3
  <2>5. c.start >= 0
    BY <1>3, <2>1, <2>2
  <2>6. c.end \in Nat
    BY <1>2, <2>4
  <2> QED  BY <2>4, <2>5, <2>6
<1>5. CASE d.next \notin CheckedLost(d)
  <2>1. e = ResetChecked([b EXCEPT !.disabled = TRUE])
    BY <1>5 DEF BackSubstitution
  <2>2. got \in SUBSET Int
    BY <1>2 DEF CheckedLost, RangeLost
  <2>3. NothingChecked \in Regions
    BY DEF NothingChecked, Regions
  <2> HIDE DEF got
  <2>4. b \in Decoders
    BY <1>1, <2>2 DEF Decoders
  <2> HIDE DEF b, e
  <2>5. e \in Decoders /\ e.disabled = TRUE
    BY <2>1, <2>3, <2>4 DEF ResetChecked, Decoders
  <2> QED  BY <2>5 DEF e
<1>6. CASE d.next \in CheckedLost(d)
  <2>1. e = [t EXCEPT !.checked = NothingChecked]
    BY <1>6 DEF BackSubstitution, ResetChecked
  <2>2. d.next >= c.start /\ d.next < c.end
    BY <1>2, <1>6 DEF CheckedLost, RangeLost
  <2>3. \A y \in CheckedLost(d) : y \in 0 .. d.count - 1
    BY <1>2, <1>4 DEF CheckedLost, RangeLost
  <2>4. got \in SUBSET Int /\ got \subseteq 0 .. d.count - 1
        /\ d.got \subseteq got
    BY <1>1, <2>3 DEF WindowFits
  <2>5. \A y \in 0 .. c.end - 1 : y \in got
    <3> SUFFICES ASSUME NEW y \in 0 .. c.end - 1, y \notin d.got
                 PROVE  y \in CheckedLost(d)
      OBVIOUS
    <3>1. ~(y < d.next)
      <4>1. y < d.next => y \in 0 .. d.next - 1
        BY <1>2
      <4> QED  BY <1>1, <4>1 DEF WindowFits
    <3>2. y \in c.start .. c.end - 1
      BY <1>2, <2>2, <3>1
    <3> QED  BY <3>2 DEF CheckedLost, RangeLost
  <2> HIDE DEF got
  <2>6. /\ b \in Decoders /\ b.got = got /\ b.next = d.next
        /\ b.columnStart = d.columnStart /\ b.count = d.count
        /\ b.recs = d.recs /\ b.lastMetadata = d.lastMetadata
        /\ b.recovered = d.recovered /\ b.checked = c
    BY <1>1, <2>4 DEF Decoders
  <2> HIDE DEF b
  <2>7. WindowFits(b, K)
    <3>1. 0 .. d.next - 1 \subseteq got
      BY <1>1, <2>4 DEF WindowFits
    <3> QED  BY <1>1, <2>4, <2>6, <3>1 DEF WindowFits
  <2>8. EntriesFit(b) /\ MetadataPassed(b)
    BY <1>1, <2>6 DEF EntriesFit, EntryFits, MetadataPassed, MetadataEnd
  <2>9. /\ c.end =< b.count /\ 0 .. c.end - 1 \subseteq b.got
        /\ 0 =< b.next /\ b.next < b.count
    BY <1>2, <1>4, <2>2, <2>5, <2>6
  <2>10. /\ f \in Decoders /\ f = [b EXCEPT !.next = f.next, !.recs = f.recs]
         /\ c.end =< f.next
         /\ WindowFits(f, K) /\ EntriesFit(f) /\ MetadataPassed(f)
    <3> DEFINE from == c.end
    <3>1. /\ from =< b.count /\ 0 .. from - 1 \subseteq b.got /\ from \in Nat
          /\ 0 =< b.next /\ b.next < b.count
      BY <1>4, <2>9
    <3> HIDE DEF from
    <3>2. /\ K \in Nat /\ b \in Decoders
          /\ WindowFits(b, K) /\ EntriesFit(b) /\ MetadataPassed(b)
          /\ from \in Nat /\ from =< b.count /\ 0 .. from - 1 \subseteq b.got
          /\ 0 =< b.next /\ b.next < b.count
      BY <2>6, <2>7, <2>8, <3>1
    <3>3. Advanced(b, AdvanceNext(b, from), from, K)
      BY <3>2, AdvanceResult
    <3> QED  BY <3>3 DEF from, Advanced
  <2> HIDE DEF f
  <2>11. ~(f.next < 0)
    <3>1. f.next \in Int
      BY <2>10, DecoderType
    <3> QED  BY <1>4, <2>10, <3>1
  <2>12. f.recovered = d.recovered
    BY <2>6, <2>10 DEF Decoders
  <2>13. GoodWindow(f, K)
    BY <1>1, <2>10, <2>11, <2>12 DEF GoodWindow
  <2>14. GoodWindow(t, K)
    BY <2>13, TrimResult
  <2>15. NothingChecked \in Regions /\ ~(NothingChecked.count > 0)
    BY DEF NothingChecked, Regions
  <2> HIDE DEF t, e
  <2>16. GoodWindow(e, K) /\ e.checked = NothingChecked
    BY <2>1, <2>14, <2>15, WindowWithoutChecked
  <2>17. GoodDecoder(e, K)
    BY <2>15, <2>16 DEF GoodDecoder, GoodChecked
  <2>18. e \in Decoders
    BY <2>16 DEF GoodWindow
  <2> QED  BY <2>17, <2>18 DEF e
<1> QED  BY <1>5, <1>6

(***************************************************************************)
(* The turns of process_symbol: the decoder stays right, and the chunks    *)
(* recovered are those of their columns, unless it throws.                 *)
(***************************************************************************)
Works(K) ==
  {w \in [fec : Decoders, chunks : SUBSET (Nat \X Nat), threw : BOOLEAN] :
     w.threw \/ (GoodDecoder(w.fec, K) /\ AreOwnSymbols(w.chunks, K))}

(***************************************************************************)
(* Taking what is recovered keeps the works good.                          *)
(***************************************************************************)
LEMMA TakeRecoveredResult ==
  ASSUME NEW K \in Nat, NEW w \in Works(K), ~w.threw
  PROVE  [w EXCEPT !.chunks = @ \cup w.fec.recovered, !.fec.recovered = {}]
           \in Works(K)
<1> DEFINE d == w.fec
           chunks == w.chunks \cup d.recovered
           e == [d EXCEPT !.recovered = {}]
           v == [w EXCEPT !.chunks = chunks, !.fec = e]
<1>1. /\ w \in [fec : Decoders, chunks : SUBSET (Nat \X Nat), threw : BOOLEAN]
      /\ GoodDecoder(d, K) /\ AreOwnSymbols(w.chunks, K)
  BY DEF Works
<1>2. d \in Decoders /\ GoodWindow(d, K) /\ GoodChecked(d)
  BY <1>1 DEF GoodDecoder, GoodWindow
<1>3. [w EXCEPT !.chunks = @ \cup w.fec.recovered, !.fec.recovered = {}] = v
  BY <1>1
<1> HIDE DEF d
<1>4. /\ e \in Decoders /\ e.recovered = {} /\ e.checked = d.checked
      /\ e.columnStart = d.columnStart /\ e.count = d.count /\ e.got = d.got
      /\ e.next = d.next /\ e.recs = d.recs
      /\ e.lastMetadata = d.lastMetadata
  BY <1>2 DEF Decoders
<1> HIDE DEF e
<1>5. WindowFits(e, K) /\ EntriesFit(e) /\ MetadataPassed(e)
  BY <1>2, <1>4 DEF GoodWindow, WindowFits, EntriesFit, EntryFits,
                    MetadataPassed, MetadataEnd
<1>6. GoodWindow(e, K)
  BY <1>2, <1>4, <1>5 DEF GoodWindow, AreOwnSymbols
<1>7. GoodChecked(e)
  BY <1>2, <1>4 DEF GoodChecked, GoodRegion, FirstHasLoss, RangeLost
<1>8. chunks \in SUBSET (Nat \X Nat) /\ AreOwnSymbols(chunks, K)
  <2>1. d.recovered \in SUBSET (Nat \X Nat)
    BY <1>2, DecoderType
  <2>2. AreOwnSymbols(d.recovered, K)
    BY <1>2 DEF GoodWindow
  <2> QED  BY <1>1, <2>1, <2>2 DEF AreOwnSymbols
<1> HIDE DEF chunks
<1>9. v \in [fec : Decoders, chunks : SUBSET (Nat \X Nat), threw : BOOLEAN]
      /\ v.fec = e /\ v.chunks = chunks
  BY <1>1, <1>4, <1>8
<1>10. v \in Works(K)
  BY <1>6, <1>7, <1>8, <1>9 DEF Works, GoodDecoder
<1> QED  BY <1>3, <1>10

(***************************************************************************)
(* So does decoding what can be solved.                                    *)
(***************************************************************************)
LEMMA DecodedResult ==
  ASSUME NEW K \in Nat, K =< ColumnPeriod \div 2,
         NEW w \in Works(K), ~w.threw,
         NEW d, GoodWindow(d, K), GoodRegion(d, d.checked), IsSolvable(d)
  PROVE  Decoded(w, d, BackSubstitution(d)) \in Works(K)
<1> DEFINE e == BackSubstitution(d)
           new == RecoveredChunks(d)
           chunks == w.chunks \cup new
           v == [fec |-> e, chunks |-> chunks, threw |-> e.disabled]
<1>1. w.chunks \in SUBSET (Nat \X Nat) /\ AreOwnSymbols(w.chunks, K)
  BY DEF Works
<1>2. e \in Decoders /\ (e.disabled \/ GoodDecoder(e, K))
  BY BackResult
<1>3. AreOwnSymbols(new, K) /\ new \in SUBSET (Nat \X Nat)
  BY RecoveredResult
<1>4. Decoded(w, d, e) = v
  BY DEF Decoded
<1> HIDE DEF e, new
<1>5. chunks \in SUBSET (Nat \X Nat) /\ AreOwnSymbols(chunks, K)
  BY <1>1, <1>3 DEF AreOwnSymbols
<1>6. e.disabled \in BOOLEAN
  BY <1>2 DEF Decoders
<1> HIDE DEF chunks
<1>7. v \in [fec : Decoders, chunks : SUBSET (Nat \X Nat), threw : BOOLEAN]
      /\ v.fec = e /\ v.chunks = chunks /\ v.threw = e.disabled
  BY <1>2, <1>5, <1>6
<1>8. v \in Works(K)
  BY <1>2, <1>5, <1>7 DEF Works
<1> QED  BY <1>4, <1>8 DEF e

(***************************************************************************)
(* One turn of the loop that takes new chunks keeps the works good.        *)
(***************************************************************************)
LEMMA GetNewResult ==
  ASSUME NEW K \in Nat, K =< ColumnPeriod \div 2,
         NEW w \in Works(K), NEW lucky \in BOOLEAN
  PROVE  GetNewChunks(w, lucky) \in Works(K)
<1> DEFINE d == CheckRecoveryPossible(w.fec)
           idle == [w EXCEPT !.fec = d]
           fails == [w EXCEPT !.threw = TRUE]
<1>1. CASE w.threw
  BY <1>1 DEF GetNewChunks
<1>2. CASE ~w.threw /\ w.fec.recovered # {}
  BY <1>2, TakeRecoveredResult DEF GetNewChunks
<1>3. CASE ~w.threw /\ w.fec.recovered = {}
  <2>1. /\ w \in [fec : Decoders, chunks : SUBSET (Nat \X Nat), threw : BOOLEAN]
        /\ GoodDecoder(w.fec, K) /\ AreOwnSymbols(w.chunks, K)
    BY <1>3 DEF Works
  <2>2. GetNewChunks(w, lucky)
          = IF ~IsRecoveryPossible(d) THEN idle
            ELSE IF ~IsSolvable(d) \/ ~lucky THEN fails
            ELSE Decoded(w, d, BackSubstitution(d))
    BY <1>3 DEF GetNewChunks, DecodeIfReady
  <2>3. /\ GoodWindow(d, K)
        /\ d.checked.count > 0 => GoodRegion(d, d.checked)
        /\ ~IsRecoveryPossible(d) => GoodDecoder(d, K)
    BY <2>1, CheckResult
  <2> HIDE DEF d
  <2>4. ~IsRecoveryPossible(d) => idle \in Works(K)
    <3> SUFFICES ASSUME ~IsRecoveryPossible(d) PROVE idle \in Works(K)
      OBVIOUS
    <3>1. d \in Decoders
      BY <2>3 DEF GoodWindow
    <3>2. idle \in [fec : Decoders, chunks : SUBSET (Nat \X Nat),
          threw : BOOLEAN]
          /\ idle.fec = d /\ idle.chunks = w.chunks
      BY <2>1, <3>1
    <3> HIDE DEF idle
    <3> QED  BY <2>1, <2>3, <3>2 DEF Works
  <2>5. fails \in Works(K)
    <3>1. fails \in [fec : Decoders, chunks : SUBSET (Nat \X Nat),
          threw : BOOLEAN]
          /\ fails.threw = TRUE
      BY <2>1
    <3> HIDE DEF fails
    <3> QED  BY <3>1 DEF Works
  <2>6. IsRecoveryPossible(d) /\ IsSolvable(d)
          => Decoded(w, d, BackSubstitution(d)) \in Works(K)
    <3> SUFFICES ASSUME IsRecoveryPossible(d), IsSolvable(d)
                 PROVE  Decoded(w, d, BackSubstitution(d)) \in Works(K)
      OBVIOUS
    <3>1. GoodRegion(d, d.checked)
      BY <2>3 DEF IsRecoveryPossible
    <3> QED  BY <1>3, <2>3, <3>1, DecodedResult
  <2> HIDE DEF idle, fails
  <2> QED  BY <2>2, <2>4, <2>5, <2>6
<1> QED  BY <1>1, <1>2, <1>3

\* The loop that gathers new chunks, before its first turn.
AllNewStart(d) == [fec |-> d, chunks |-> {}, threw |-> d.disabled]

\* The loop goes from one member of X to another.
GathersWithin(d, lucky, X) ==
  \E turn \in [Nat -> X] :
    /\ turn[0] = AllNewStart(d)
    /\ \A n \in Nat : turn[n + 1] = GetNewChunks(turn[n], lucky)
    /\ AllNewChunks(d, lucky) = turn[Len(d.recs) + 2]

(***************************************************************************)
(* The loop is its turn, iterated.                                         *)
(***************************************************************************)
LEMMA AllNewIsIterated ==
  ASSUME NEW d, Len(d.recs) \in Nat, NEW lucky,
         NEW X, AllNewStart(d) \in X,
         \A w \in X : GetNewChunks(w, lucky) \in X
  PROVE  GathersWithin(d, lucky, X)
<1> DEFINE start == AllNewStart(d)
           step  == [w \in X |-> GetNewChunks(w, lucky)]
           turn  == CHOOSE g : g = [n \in Nat |-> IF n = 0 THEN start
                                        ELSE GetNewChunks(g[n - 1], lucky)]
<1>1. Len(d.recs) + 2 \in Nat /\ start \in X
  OBVIOUS
<1>2. AllNewChunks(d, lucky) = turn[Len(d.recs) + 2]
  BY DEF AllNewChunks, AllNewStart
<1> HIDE DEF start
<1>3. step \in [X -> X] /\ \A w \in X : step[w] = GetNewChunks(w, lucky)
  OBVIOUS
<1> HIDE DEF step
<1>4. PICK g : IsIteration(g, X, start, step)
  BY <1>1, <1>3, Iteration
<1>5. /\ g \in [Nat -> X]
      /\ g[0] = start
      /\ \A n \in Nat : g[n + 1] = step[g[n]]
  BY <1>4 DEF IsIteration
<1>6. g = [n \in Nat |-> IF n = 0 THEN start ELSE GetNewChunks(g[n - 1], lucky)]
  <2>1. ASSUME NEW n \in Nat
        PROVE  g[n] = IF n = 0 THEN start ELSE GetNewChunks(g[n - 1], lucky)
    <3>1. CASE n = 0
      BY <1>5, <3>1
    <3>2. CASE n # 0
      <4>1. n - 1 \in Nat /\ (n - 1) + 1 = n
        BY <3>2
      <4>2. g[(n - 1) + 1] = step[g[n - 1]] /\ g[n - 1] \in X
        BY <1>5, <4>1
      <4> QED  BY <1>3, <3>2, <4>1, <4>2
    <3> QED  BY <3>1, <3>2
  <2> QED  BY <1>5, <2>1
<1>7. turn = [n \in Nat |-> IF n = 0 THEN start
                            ELSE GetNewChunks(turn[n - 1], lucky)]
  BY <1>6
<1> HIDE DEF turn
<1>8. \A n \in Nat : turn[n] \in X
  <2> DEFINE S == {n \in Nat : turn[n] \in X}
  <2>1. 0 \in S
    BY <1>1, <1>7
  <2>2. ASSUME NEW n \in Nat, n \in S PROVE n + 1 \in S
    <3>1. turn[n + 1] = GetNewChunks(turn[n], lucky)
      BY <1>7
    <3> QED  BY <2>2, <3>1
  <2> HIDE DEF S
  <2>3. \A n \in Nat : n \in S
    BY <2>1, <2>2, SetInduction
  <2> QED  BY <2>3 DEF S
<1>9. turn \in [Nat -> X] /\ turn[0] = start
  BY <1>7, <1>8
<1>10. ASSUME NEW n \in Nat PROVE turn[n + 1] = GetNewChunks(turn[n], lucky)
  BY <1>7
<1> QED  BY <1>1, <1>2, <1>9, <1>10 DEF start, GathersWithin

(***************************************************************************)
(* So does the loop: what it gives is of the stream, and the decoder is    *)
(* good unless it throws.                                                  *)
(***************************************************************************)
LEMMA AllNewResult ==
  ASSUME NEW K \in Nat, K =< ColumnPeriod \div 2,
         NEW d, GoodDecoder(d, K), NEW lucky \in BOOLEAN
  PROVE  AllNewChunks(d, lucky) \in Works(K)
<1> DEFINE X == Works(K)
           start == AllNewStart(d)
<1>1. d \in Decoders /\ Len(d.recs) + 2 \in Nat /\ Len(d.recs) \in Nat
  <2>1. d \in Decoders
    BY DEF GoodDecoder, GoodWindow
  <2> QED  BY <2>1, DecoderType
<1>2. start \in X
  <2>1. /\ start \in [fec : Decoders, chunks : SUBSET (Nat \X Nat),
           threw : BOOLEAN]
        /\ start.fec = d /\ start.chunks = {}
    BY <1>1 DEF Decoders, AllNewStart
  <2> HIDE DEF start
  <2> QED  BY <2>1 DEF Works, AreOwnSymbols
<1>3. \A w \in X : GetNewChunks(w, lucky) \in X
  BY GetNewResult
<1> HIDE DEF X, start
<1>4. PICK turn \in [Nat -> X] :
           /\ turn[0] = AllNewStart(d)
           /\ \A n \in Nat : turn[n + 1] = GetNewChunks(turn[n], lucky)
           /\ AllNewChunks(d, lucky) = turn[Len(d.recs) + 2]
  <2>1. Len(d.recs) \in Nat /\ AllNewStart(d) \in X
    BY <1>1, <1>2 DEF start
  <2>2. GathersWithin(d, lucky, X)
    BY <1>3, <2>1, AllNewIsIterated
  <2> QED  BY <2>2 DEF GathersWithin
<1> QED  BY <1>1, <1>4 DEF X

-----------------------------------------------------------------------------
(* A node                                                                  *)

\* A symbol of a stream of which the chunks up to K are sent.
GoodSymbol(symbol, K) ==
  \/ symbol.fec = TRUE /\ GoodPacket(symbol.packet, K)
  \/ symbol.fec = FALSE /\ symbol.index \in 0 .. K - 1
                        /\ symbol.chunk = symbol.index + 1

GoodStream(s, K) ==
  /\ s = [fec |-> s.fec, buffer |-> s.buffer]
  /\ GoodDecoder(s.fec, K)
  /\ GoodBuffer(s.buffer, K)

(***************************************************************************)
(* process_symbol                                                          *)
(***************************************************************************)
LEMMA ProcessSymbolResult ==
  ASSUME NEW K \in Nat, K =< ColumnPeriod \div 2,
         NEW s, GoodStream(s, K), NEW symbol, GoodSymbol(symbol, K),
         NEW lucky \in BOOLEAN
  PROVE  LET p == ProcessSymbol(s, symbol, lucky)
         IN  /\ p.threw \in BOOLEAN
             /\ ~p.threw => GoodStream(p.stream, K)
             /\ p.stream.buffer.next = s.buffer.next
<1> DEFINE d == AddSymbol(s.fec, symbol)
           new == AllNewChunks(d, lucky)
           own == IF symbol.fec THEN {} ELSE {<<symbol.index, symbol.chunk>>}
           chunks == new.chunks \cup own
           b == ProcessOriginalChunks(s.buffer, chunks)
           p == ProcessSymbol(s, symbol, lucky)
<1>1. GoodDecoder(s.fec, K) /\ GoodBuffer(s.buffer, K)
  BY DEF GoodStream
<1>2. GoodDecoder(d, K)
  <2>1. CASE symbol.fec = TRUE /\ GoodPacket(symbol.packet, K)
    <3>1. GoodDecoder(AddRecovery(s.fec, symbol.packet), K)
      BY <1>1, <2>1, AddRecoveryResult
    <3> QED  BY <2>1, <3>1 DEF AddSymbol
  <2>2. CASE symbol.fec = FALSE /\ symbol.index \in 0 .. K - 1
    <3>1. GoodDecoder(AddOriginal(s.fec, symbol.index), K)
      BY <1>1, <2>2, AddOriginalResult
    <3> QED  BY <2>2, <3>1 DEF AddSymbol
  <2> QED  BY <2>1, <2>2 DEF GoodSymbol
<1> HIDE DEF d
<1>3. new \in Works(K)
  BY <1>2, AllNewResult
<1>4. p = [threw  |-> new.threw \/ AckNeedsMoreData(new.fec),
           stream |-> [fec |-> new.fec, buffer |-> b]]
  BY DEF ProcessSymbol, Processed, d
<1> HIDE DEF new
<1>5. /\ new.threw \in BOOLEAN /\ new.fec \in Decoders
      /\ ~new.threw => GoodDecoder(new.fec, K) /\ AreOwnSymbols(new.chunks, K)
  BY <1>3 DEF Works
<1>6. AreOwnSymbols(own, K)
  <2>1. CASE symbol.fec = TRUE
    BY <2>1 DEF AreOwnSymbols
  <2>2. CASE symbol.fec = FALSE /\ symbol.index \in 0 .. K - 1
             /\ symbol.chunk = symbol.index + 1
    <3>1. symbol.chunk \in 1 .. K
      BY <2>2
    <3> QED  BY <2>2, <3>1 DEF AreOwnSymbols
  <2> QED  BY <2>1, <2>2 DEF GoodSymbol
<1> HIDE DEF own
<1>7. ~new.threw => AreOwnSymbols(chunks, K)
  BY <1>5, <1>6 DEF AreOwnSymbols
<1> HIDE DEF chunks
<1>8. ~new.threw => GoodBuffer(b, K) /\ b.next = s.buffer.next
  BY <1>1, <1>7, ProcessKeepsQueues
<1>9. b.next = s.buffer.next
  BY <1>1 DEF ProcessOriginalChunks, GoodBuffer, ReorderBuffers
<1> HIDE DEF b
<1>10. AckNeedsMoreData(new.fec) \in BOOLEAN
  BY DEF AckNeedsMoreData
<1>11. /\ p.threw = (new.threw \/ AckNeedsMoreData(new.fec))
       /\ p.stream = [fec |-> new.fec, buffer |-> b]
       /\ p.stream.fec = new.fec /\ p.stream.buffer = b
  BY <1>4
<1> HIDE DEF p
<1>12. ~p.threw => GoodStream(p.stream, K)
  BY <1>5, <1>8, <1>11 DEF GoodStream
<1>13. p.threw \in BOOLEAN
  BY <1>5, <1>10, <1>11
<1> QED  BY <1>9, <1>11, <1>12, <1>13 DEF p

-----------------------------------------------------------------------------
(* The encoder of a node                                                   *)

\* Where the loop that takes symbols starts.
TakeStart(s) == [stream |-> s, symbols |-> <<>>, threw |-> FALSE]

(***************************************************************************)
(* TakeSymbols is iterated TakeSymbol, and stays in any set that           *)
(* TakeSymbol stays in.                                                    *)
(***************************************************************************)
LEMMA TakeSymbolsIsIterated ==
  ASSUME NEW s, Len(s.pending) \in Nat,
         NEW X, TakeStart(s) \in X, \A w \in X : TakeSymbol(w) \in X
  PROVE  \E turn \in [Nat -> X] :
           /\ turn[0] = TakeStart(s)
           /\ \A n \in Nat : turn[n + 1] = TakeSymbol(turn[n])
           /\ TakeSymbols(s) = turn[(Len(s.pending) + 1) * (FecNumerator + 1)]
<1> DEFINE start == TakeStart(s)
           step  == [w \in X |-> TakeSymbol(w)]
           N     == (Len(s.pending) + 1) * (FecNumerator + 1)
           turn  == CHOOSE g : g = [n \in Nat |-> IF n = 0 THEN start
                                                  ELSE TakeSymbol(g[n - 1])]
<1>1. TakeSymbols(s) = turn[N]
  BY DEF TakeSymbols, TakeStart
<1> HIDE DEF start, N
<1>2. step \in [X -> X] /\ \A w \in X : step[w] = TakeSymbol(w)
  OBVIOUS
<1> HIDE DEF step
<1>3. PICK g : IsIteration(g, X, start, step)
  BY <1>2, Iteration DEF start
<1>4. /\ g \in [Nat -> X]
      /\ g[0] = start
      /\ \A n \in Nat : g[n + 1] = step[g[n]]
  BY <1>3 DEF IsIteration
<1>5. g = [n \in Nat |-> IF n = 0 THEN start ELSE TakeSymbol(g[n - 1])]
  <2>1. ASSUME NEW n \in Nat
        PROVE  g[n] = IF n = 0 THEN start ELSE TakeSymbol(g[n - 1])
    <3>1. CASE n = 0
      BY <1>4, <3>1
    <3>2. CASE n # 0
      <4>1. n - 1 \in Nat /\ (n - 1) + 1 = n
        BY <3>2
      <4>2. g[(n - 1) + 1] = step[g[n - 1]] /\ g[n - 1] \in X
        BY <1>4, <4>1
      <4> QED  BY <1>2, <3>2, <4>1, <4>2
    <3> QED  BY <3>1, <3>2
  <2> QED  BY <1>4, <2>1
<1>6. turn = [n \in Nat |-> IF n = 0 THEN start ELSE TakeSymbol(turn[n - 1])]
  BY <1>5
<1> HIDE DEF turn
<1>7. turn[0] = start /\ \A n \in Nat : turn[n + 1] = TakeSymbol(turn[n])
  BY <1>6
<1>8. \A n \in Nat : turn[n] \in X
  <2> DEFINE S == {n \in Nat : turn[n] \in X}
  <2>1. 0 \in S
    BY <1>7 DEF start
  <2>2. ASSUME NEW n \in Nat, n \in S PROVE n + 1 \in S
    <3>1. turn[n + 1] = TakeSymbol(turn[n]) /\ turn[n] \in X
      BY <1>7, <2>2
    <3>2. turn[n + 1] \in X
      BY <3>1
    <3> QED  BY <3>2
  <2> HIDE DEF S
  <2>3. \A n \in Nat : n \in S
    BY <2>1, <2>2, SetInduction
  <2> QED  BY <2>3 DEF S
<1>9. turn \in [Nat -> X]
  BY <1>6, <1>8
<1> QED  BY <1>1, <1>7, <1>9 DEF start, N

\* The states of a stream encoder, and those whose window is in shape.
Segments ==
  [pending : Seq(Nat), encoder : SiameseEncoders,
   receiverExpects : Column, nextIndex : Column,
   chunkIndex1 : 0 .. FecDenominator, fecIndex : 0 .. FecNumerator - 1]

GoodSegments == {s \in Segments : GoodEncoder(s.encoder)}

AllSymbols ==
  [fec : {TRUE}, packet : [columnStart : Column, sumCount : 1 .. MaxPackets,
                           row : Nat, first : Int]]
    \cup [fec : {FALSE}, index : Column, chunk : Nat]

\* The states of the loop that takes symbols.
Takes == [stream : GoodSegments, symbols : Seq(AllSymbols), threw : BOOLEAN]

(***************************************************************************)
(* What the type says of the fields.                                       *)
(***************************************************************************)
LEMMA SegmentType ==
  ASSUME NEW s \in GoodSegments
  PROVE  /\ s \in Segments /\ s.pending \in Seq(Nat)
         /\ s.encoder \in SiameseEncoders /\ GoodEncoder(s.encoder)
         /\ s.receiverExpects \in Column /\ s.nextIndex \in Column
         /\ s.chunkIndex1 \in 0 .. FecDenominator
         /\ s.fecIndex \in 0 .. FecNumerator - 1
         /\ s.encoder.added \in Nat
         /\ IsNextSymbolFec(s) <=> IsNext(s.chunkIndex1, s.fecIndex)
<1>1. s \in Segments /\ GoodEncoder(s.encoder)
  BY DEF GoodSegments
<1>2. s.encoder.added \in Nat
  BY <1>1, UnackedType
<1>3. IsNextSymbolFec(s) <=> IsNext(s.chunkIndex1, s.fecIndex)
  BY DEF IsNextSymbolFec, IsNext
<1> QED  BY <1>1, <1>2, <1>3 DEF Segments

(***************************************************************************)
(* A recovery symbol protects what is not acknowledged, and no second one  *)
(* follows it.                                                             *)
(***************************************************************************)
LEMMA FecSymbolResult ==
  ASSUME NEW s \in GoodSegments,
         IsNextSymbolFec(s), ~EncodeNeedsMoreData(s.encoder)
  PROVE  LET got == FecSymbol(s)
             e == s.encoder
             p == got.symbol.packet
         IN  /\ got.stream \in GoodSegments
             /\ got.stream.pending = s.pending
             /\ got.stream.encoder.added = e.added
             /\ got.stream.encoder.nextColumnExpected = e.nextColumnExpected
             /\ Unacked(got.stream.encoder) = Unacked(e)
             /\ ~IsNextSymbolFec(got.stream)
             /\ got.symbol = [fec |-> TRUE, packet |-> p]
             /\ p = [columnStart |-> (e.added - Unacked(e)) % ColumnPeriod,
                     sumCount |-> Unacked(e), row |-> p.row,
                     first |-> e.added - Unacked(e) + 1]
             /\ p.row \in Nat
             /\ Unacked(e) \in 1 .. MaxPackets
<1> DEFINE e == s.encoder
           f == Encode(e).encoder
           p == Encode(e).packet
           index == (s.fecIndex + 1) % FecNumerator
           r == [s EXCEPT !.fecIndex = index, !.encoder = f]
<1>1. FecSymbol(s) = [symbol |-> [fec |-> TRUE, packet |-> p], stream |-> r]
  BY DEF FecSymbol
<1>2. /\ GoodEncoder(e) /\ s \in Segments
      /\ s.chunkIndex1 \in 0 .. FecDenominator
      /\ s.fecIndex \in 0 .. FecNumerator - 1
      /\ IsNext(s.chunkIndex1, s.fecIndex)
  BY SegmentType
<1>3. /\ GoodEncoder(f) /\ f.added = e.added /\ Unacked(f) = Unacked(e)
      /\ f.nextColumnExpected = e.nextColumnExpected
  BY <1>2, EncodeResult
<1>4. /\ p = [columnStart |-> (e.added - Unacked(e)) % ColumnPeriod,
              sumCount |-> Unacked(e), row |-> p.row,
              first |-> e.added - Unacked(e) + 1]
      /\ p.row \in Nat
      /\ Unacked(e) \in 1 .. MaxPackets
  BY <1>2, PacketResult
<1>5. ~IsNext(s.chunkIndex1, index)
  BY <1>2, OneRecoveryAtATime
<1>6. index \in 0 .. FecNumerator - 1
  BY <1>2, FecRatioAssumption
<1>7. f \in SiameseEncoders
  BY <1>3 DEF GoodEncoder
<1> HIDE DEF f, p, index
<1>8. /\ r \in Segments /\ r.encoder = f /\ r.pending = s.pending
      /\ r.chunkIndex1 = s.chunkIndex1 /\ r.fecIndex = index
  BY <1>2, <1>6, <1>7 DEF Segments
<1> HIDE DEF r
<1>9. r \in GoodSegments
  BY <1>3, <1>8 DEF GoodSegments
<1>10. ~IsNextSymbolFec(r)
  BY <1>5, <1>8, <1>9, SegmentType
<1>11. /\ FecSymbol(s).stream = r
       /\ FecSymbol(s).symbol = [fec |-> TRUE, packet |-> p]
       /\ FecSymbol(s).symbol.packet = p
  BY <1>1
<1> QED  BY <1>3, <1>4, <1>8, <1>9, <1>10, <1>11

(***************************************************************************)
(* An original symbol has the column of its chunk.                         *)
(***************************************************************************)
LEMMA ChunkSymbolResult ==
  ASSUME NEW s \in GoodSegments, s.pending # <<>>,
         ~MaxPacketsReached(s.encoder)
  PROVE  LET got == ChunkSymbol(s)
             e == s.encoder
         IN  /\ got.stream \in GoodSegments
             /\ got.stream.pending = Tail(s.pending)
             /\ got.stream.encoder.added = e.added + 1
             /\ got.stream.encoder.nextColumnExpected = e.nextColumnExpected
             /\ Unacked(got.stream.encoder) = Unacked(e) + 1
             /\ got.symbol = [fec |-> FALSE, index |-> e.added % ColumnPeriod,
                              chunk |-> Head(s.pending)]
             /\ Head(s.pending) \in Nat
<1> DEFINE e == s.encoder
           f == EncoderAdd(e)
           pending == Tail(s.pending)
           next == AddColumns(e.nextColumn, 1)
           index == (s.chunkIndex1 % FecDenominator) + 1
           r == [s EXCEPT !.pending = pending, !.encoder = f,
                          !.nextIndex = next, !.chunkIndex1 = index]
<1>1. ChunkSymbol(s) = [symbol |-> [fec |-> FALSE, index |-> e.nextColumn,
                                    chunk |-> Head(s.pending)],
                        stream |-> r]
  BY DEF ChunkSymbol
<1>2. /\ GoodEncoder(e) /\ s \in Segments /\ s.pending \in Seq(Nat)
      /\ s.chunkIndex1 \in 0 .. FecDenominator
  BY SegmentType
<1>3. /\ GoodEncoder(f) /\ f.added = e.added + 1
      /\ Unacked(f) = Unacked(e) + 1
      /\ f.nextColumnExpected = e.nextColumnExpected
  BY <1>2, AddResult
<1>4. pending \in Seq(Nat) /\ Head(s.pending) \in Nat
  BY <1>2, HeadTailProperties
<1>5. next \in Column
  <2>1. e.nextColumn \in Int
    BY <1>2 DEF GoodEncoder, SiameseEncoders, Column
  <2> DEFINE c == e.nextColumn
  <2>2. c \in Int /\ c + 1 \in Int
    BY <2>1
  <2> HIDE DEF c
  <2>3. AddColumns(c, 1) \in Column
    BY <2>2, ColumnOfSum
  <2> QED  BY <2>3 DEF c
<1>6. index \in 0 .. FecDenominator
  <2>1. FecDenominator \in Nat \ {0} /\ s.chunkIndex1 \in Int
    BY <1>2, FecRatioAssumption
  <2>2. s.chunkIndex1 % FecDenominator \in 0 .. FecDenominator - 1
    BY <2>1
  <2> QED  BY <2>1, <2>2
<1>7. f \in SiameseEncoders
  BY <1>3 DEF GoodEncoder
<1>8. e.nextColumn = e.added % ColumnPeriod
  BY <1>2 DEF GoodEncoder
<1> HIDE DEF f, pending, next, index
<1>9. r \in Segments /\ r.encoder = f /\ r.pending = pending
  BY <1>2, <1>4, <1>5, <1>6, <1>7 DEF Segments
<1> HIDE DEF r
<1>10. r \in GoodSegments
  BY <1>3, <1>9 DEF GoodSegments
<1> QED  BY <1>1, <1>3, <1>4, <1>8, <1>9, <1>10 DEF pending

(***************************************************************************)
(* Taking a symbol keeps the types.                                        *)
(***************************************************************************)
LEMMA WithSymbolType ==
  ASSUME NEW w \in Takes, NEW got, got.stream \in GoodSegments,
         got.symbol \in AllSymbols
  PROVE  /\ WithSymbol(w, got) \in Takes
         /\ WithSymbol(w, got).stream = got.stream
         /\ WithSymbol(w, got).symbols = Append(w.symbols, got.symbol)
         /\ WithSymbol(w, got).threw = w.threw
<1> DEFINE stream == got.stream
           symbols == Append(w.symbols, got.symbol)
<1>1. WithSymbol(w, got) = [w EXCEPT !.stream = stream, !.symbols = symbols]
  BY DEF WithSymbol
<1>2. stream \in GoodSegments
  OBVIOUS
<1>3. symbols \in Seq(AllSymbols)
  <2>1. w.symbols \in Seq(AllSymbols)
    BY DEF Takes
  <2> QED  BY <2>1, AppendProperties
<1> HIDE DEF stream, symbols
<1>4. /\ WithSymbol(w, got) \in Takes
      /\ WithSymbol(w, got).stream = stream
      /\ WithSymbol(w, got).symbols = symbols
      /\ WithSymbol(w, got).threw = w.threw
  BY <1>1, <1>2, <1>3 DEF Takes
<1> QED  BY <1>4 DEF stream, symbols

(***************************************************************************)
(* The records that are symbols.                                           *)
(***************************************************************************)
LEMMA SymbolType ==
  /\ \A i \in Column, c \in Nat :
       [fec |-> FALSE, index |-> i, chunk |-> c] \in AllSymbols
  /\ \A p \in [columnStart : Column, sumCount : 1 .. MaxPackets,
               row : Nat, first : Int] :
       [fec |-> TRUE, packet |-> p] \in AllSymbols
BY Zenon DEF AllSymbols

(***************************************************************************)
(* Taking a symbol keeps the types.                                        *)
(***************************************************************************)
LEMMA TakeSymbolType ==
  ASSUME NEW w \in Takes
  PROVE  TakeSymbol(w) \in Takes
<1> DEFINE s == w.stream
           e == s.encoder
<1>1. s \in GoodSegments /\ w.symbols \in Seq(AllSymbols) /\ w.threw \in BOOLEAN
  BY DEF Takes
<1>2. GoodEncoder(e) /\ e.added \in Nat
  BY <1>1, SegmentType
<1>3. CASE w.threw \/ ~HasSymbol(s)
  BY <1>3 DEF TakeSymbol
<1>4. CASE ~(w.threw \/ ~HasSymbol(s)) /\ GetSymbolThrows(s)
  <2>1. TakeSymbol(w) = [w EXCEPT !.threw = TRUE]
    BY <1>4 DEF TakeSymbol
  <2> QED  BY <2>1 DEF Takes
<1>5. CASE ~(w.threw \/ ~HasSymbol(s)) /\ ~GetSymbolThrows(s)
           /\ IsNextSymbolFec(s)
  <2> DEFINE got == FecSymbol(s)
             p == got.symbol.packet
  <2>1. TakeSymbol(w) = WithSymbol(w, got)
    BY <1>5 DEF TakeSymbol, GetSymbol
  <2>2. ~EncodeNeedsMoreData(e)
    BY <1>5 DEF GetSymbolThrows
  <2>3. /\ got.stream \in GoodSegments
        /\ got.symbol = [fec |-> TRUE, packet |-> p]
        /\ p = [columnStart |-> (e.added - Unacked(e)) % ColumnPeriod,
                sumCount |-> Unacked(e), row |-> p.row,
                first |-> e.added - Unacked(e) + 1]
        /\ p.row \in Nat
        /\ Unacked(e) \in 1 .. MaxPackets
    BY <1>1, <1>5, <2>2, FecSymbolResult
  <2> HIDE DEF got, p
  <2> DEFINE first == e.added - Unacked(e) + 1
             column == (e.added - Unacked(e)) % ColumnPeriod
  <2>4. Unacked(e) \in Int /\ e.added - Unacked(e) \in Int
    BY <1>2, <2>3
  <2>5. first \in Int
    BY <2>4
  <2>6. column \in Column
    BY <2>4, ColumnPeriodAssumption DEF Column
  <2> HIDE DEF first, column
  <2>7. p \in [columnStart : Column, sumCount : 1 .. MaxPackets,
               row : Nat, first : Int]
    BY <2>3, <2>5, <2>6 DEF first, column
  <2>8. got.symbol \in AllSymbols
    <3>1. [fec |-> TRUE, packet |-> p] \in AllSymbols
      BY <2>7, SymbolType
    <3> QED  BY <2>3, <3>1
  <2>9. WithSymbol(w, got) \in Takes
    BY <2>3, <2>8, WithSymbolType
  <2> QED  BY <2>1, <2>9
<1>6. CASE ~(w.threw \/ ~HasSymbol(s)) /\ ~GetSymbolThrows(s)
           /\ ~IsNextSymbolFec(s)
  <2> DEFINE got == ChunkSymbol(s)
  <2>1. TakeSymbol(w) = WithSymbol(w, got)
    BY <1>6 DEF TakeSymbol, GetSymbol
  <2>2. ~MaxPacketsReached(e) /\ s.pending # <<>>
    BY <1>6 DEF GetSymbolThrows, HasSymbol
  <2>3. /\ got.stream \in GoodSegments
        /\ got.symbol = [fec |-> FALSE, index |-> e.added % ColumnPeriod,
                         chunk |-> Head(s.pending)]
        /\ Head(s.pending) \in Nat
    BY <1>1, <2>2, ChunkSymbolResult
  <2> HIDE DEF got
  <2>4. e.added % ColumnPeriod \in Column
    BY <1>2, ColumnPeriodAssumption DEF Column
  <2>5. got.symbol \in AllSymbols
    <3> DEFINE i == e.added % ColumnPeriod
               c == Head(s.pending)
    <3>1. i \in Column /\ c \in Nat
      BY <2>3, <2>4
    <3>2. [fec |-> FALSE, index |-> i, chunk |-> c] \in AllSymbols
      BY <3>1, SymbolType
    <3> QED  BY <2>3, <3>2
  <2>6. WithSymbol(w, got) \in Takes
    BY <2>3, <2>5, WithSymbolType
  <2> QED  BY <2>1, <2>6
<1> QED  BY <1>3, <1>4, <1>5, <1>6

(***************************************************************************)
(* Queueing chunks only touches the queue.                                 *)
(***************************************************************************)
LEMMA QueuedResult ==
  ASSUME NEW s \in GoodSegments, NEW chunks \in Seq(Nat)
  PROVE  LET q == [s EXCEPT !.pending = @ \o chunks]
         IN  /\ q \in GoodSegments
             /\ q.pending = s.pending \o chunks
             /\ q.encoder = s.encoder
             /\ q.chunkIndex1 = s.chunkIndex1 /\ q.fecIndex = s.fecIndex
             /\ Len(q.pending) \in Nat
             /\ TakeStart(q) \in Takes
<1> DEFINE pending == s.pending \o chunks
           q == [s EXCEPT !.pending = pending]
<1>1. s \in Segments /\ s.pending \in Seq(Nat) /\ GoodEncoder(s.encoder)
  BY SegmentType
<1>2. pending \in Seq(Nat)
  BY <1>1, ConcatProperties
<1>3. [s EXCEPT !.pending = @ \o chunks] = q
  OBVIOUS
<1> HIDE DEF pending
<1>4. /\ q \in Segments /\ q.pending = pending /\ q.encoder = s.encoder
      /\ q.chunkIndex1 = s.chunkIndex1 /\ q.fecIndex = s.fecIndex
  BY <1>1, <1>2 DEF Segments
<1> HIDE DEF q
<1>5. q \in GoodSegments
  BY <1>1, <1>4 DEF GoodSegments
<1>6. Len(q.pending) \in Nat
  BY <1>2, <1>4, LenProperties
<1>7. TakeStart(q) \in Takes
  <2>1. <<>> \in Seq(AllSymbols)
    BY EmptySeq
  <2> QED  BY <1>5, <2>1 DEF TakeStart, Takes
<1> QED  BY <1>3, <1>4, <1>5, <1>6, <1>7 DEF pending

(***************************************************************************)
(* The encoder of a node stays good, whatever its queue.                   *)
(***************************************************************************)
LEMMA EncodeChunksType ==
  ASSUME NEW s \in GoodSegments, NEW chunks \in Seq(Nat)
  PROVE  EncodeChunks(s, chunks) \in Takes
<1> DEFINE q == [s EXCEPT !.pending = @ \o chunks]
<1>1. Len(q.pending) \in Nat /\ TakeStart(q) \in Takes
  BY QueuedResult
<1>2. EncodeChunks(s, chunks) = TakeSymbols(q)
  BY DEF EncodeChunks
<1> HIDE DEF q
<1>3. \A w \in Takes : TakeSymbol(w) \in Takes
  BY TakeSymbolType
<1>4. PICK turn \in [Nat -> Takes] :
        /\ turn[0] = TakeStart(q)
        /\ \A n \in Nat : turn[n + 1] = TakeSymbol(turn[n])
        /\ TakeSymbols(q) = turn[(Len(q.pending) + 1) * (FecNumerator + 1)]
  BY <1>1, <1>3, TakeSymbolsIsIterated
<1> DEFINE a == Len(q.pending) + 1
           b == FecNumerator + 1
<1>5. a \in Nat /\ b \in Nat
  BY <1>1, FecRatioAssumption
<1> HIDE DEF a, b
<1>6. a * b \in Nat
  BY <1>5
<1>7. TakeSymbols(q) = turn[a * b]
  BY <1>4 DEF a, b
<1> QED  BY <1>2, <1>4, <1>6, <1>7

-----------------------------------------------------------------------------
(* The encoder of the forwarding node                                      *)

\* The symbols of a stream of which the chunks up to K are sent.
SentSymbols(K) == {y \in AllSymbols : GoodSymbol(y, K)}

\* Nothing waits, and no recovery symbol is due.
Idle(s) == s.pending = <<>> /\ ~IsNextSymbolFec(s)

\* What the forwarding node knows of its encoder after K chunks.
GoodForwarder(s, K) ==
  /\ s \in GoodSegments
  /\ Idle(s)
  /\ s.encoder.added = K
  /\ Unacked(s.encoder) =< K

(***************************************************************************)
(* The symbol of chunk n, and a recovery symbol right after it.            *)
(***************************************************************************)
LEMMA OriginalIsSent ==
  ASSUME NEW n \in Nat, n < ColumnPeriod
  PROVE  [fec |-> FALSE, index |-> n % ColumnPeriod, chunk |-> n + 1]
           \in SentSymbols(n + 1)
<1> DEFINE y == [fec |-> FALSE, index |-> n, chunk |-> n + 1]
<1>1. n \in Column /\ n + 1 \in Nat /\ n \in 0 .. (n + 1) - 1
  BY ColumnPeriodAssumption DEF Column
<1>2. n % ColumnPeriod = n
  BY <1>1, SmallResidue
<1>3. y \in AllSymbols
  BY <1>1, SymbolType
<1>4. GoodSymbol(y, n + 1)
  BY <1>1 DEF GoodSymbol
<1> QED  BY <1>2, <1>3, <1>4 DEF SentSymbols

(***************************************************************************)
(* A recovery packet of the newest u chunks tells the truth about them.    *)
(***************************************************************************)
LEMMA RecoveryIsSent ==
  ASSUME NEW n \in Nat, n < ColumnPeriod, NEW u \in 1 .. MaxPackets, u =< n,
         NEW row \in Nat
  PROVE  [fec |-> TRUE,
          packet |-> [columnStart |-> (n - u) % ColumnPeriod, sumCount |-> u,
                      row |-> row, first |-> n - u + 1]]
           \in SentSymbols(n)
<1> DEFINE c == n - u
           p == [columnStart |-> c, sumCount |-> u, row |-> row,
                 first |-> c + 1]
           y == [fec |-> TRUE, packet |-> p]
<1>1. /\ c \in Column /\ c \in Nat /\ c + 1 \in Int /\ c + u = n
      /\ u \in Nat \ {0}
  BY ColumnPeriodAssumption DEF Column
<1>2. (n - u) % ColumnPeriod = c /\ n - u + 1 = c + 1
  BY <1>1, SmallResidue
<1> HIDE DEF c
<1>3. /\ p.columnStart = c /\ p.sumCount = u /\ p.row = row /\ p.first = c + 1
      /\ p \in [columnStart : Column, sumCount : 1 .. MaxPackets,
                row : Nat, first : Int]
      /\ p \in [columnStart : Nat, sumCount : Nat \ {0}, row : Nat,
                first : Nat]
  BY <1>1
<1>4. GoodPacket(p, n)
  BY <1>1, <1>3 DEF GoodPacket
<1> HIDE DEF p
<1>5. y \in AllSymbols
  BY <1>3, SymbolType
<1>6. GoodSymbol(y, n)
  BY <1>4 DEF GoodSymbol
<1> QED  BY <1>2, <1>5, <1>6 DEF SentSymbols, p

\* Of the symbols, only the first may be an original one, of column c.
OneOriginal(symbols, c) ==
  \A i \in 1 .. Len(symbols) :
    symbols[i].fec = FALSE => i = 1 /\ symbols[i].index = c

\* The chunk is taken, and maybe a recovery symbol after it; or the loop threw.
Midway(K) ==
  {w \in Takes :
     \/ w.threw
     \/ /\ w.stream.pending = <<>>
        /\ w.stream.encoder.added = K
        /\ Unacked(w.stream.encoder) =< K
        /\ w.symbols \in Seq(SentSymbols(K))
        /\ OneOriginal(w.symbols, K - 1)}

Done(K) == {w \in Midway(K) : w.threw \/ ~IsNextSymbolFec(w.stream)}

(***************************************************************************)
(* The first turn takes the chunk.                                         *)
(***************************************************************************)
LEMMA FirstTurn ==
  ASSUME NEW K \in Nat, K < ColumnPeriod, NEW q \in GoodSegments,
         q.pending = <<K + 1>>, ~IsNextSymbolFec(q), q.encoder.added = K,
         Unacked(q.encoder) =< K, TakeStart(q) \in Takes
  PROVE  TakeSymbol(TakeStart(q)) \in Midway(K + 1)
<1> DEFINE w == TakeStart(q)
           e == q.encoder
           got == ChunkSymbol(q)
           n == K + 1
<1>1. w.stream = q /\ w.symbols = <<>> /\ w.threw = FALSE
  BY DEF TakeStart
<1>2. HasSymbol(q)
  BY DEF HasSymbol
<1>3. TakeSymbol(w) \in Takes
  BY TakeSymbolType
<1> HIDE DEF w
<1>4. CASE MaxPacketsReached(e)
  <2>1. TakeSymbol(w) = [w EXCEPT !.threw = TRUE]
    BY <1>1, <1>2, <1>4 DEF TakeSymbol, GetSymbolThrows
  <2>2. TakeSymbol(w).threw
    BY <2>1 DEF Takes, w
  <2> QED  BY <1>3, <2>2 DEF Midway, w
<1>5. CASE ~MaxPacketsReached(e)
  <2>1. TakeSymbol(w) = WithSymbol(w, got)
    BY <1>1, <1>2, <1>5 DEF TakeSymbol, GetSymbolThrows, GetSymbol
  <2>2. q.pending # <<>> /\ Head(q.pending) = n /\ Tail(q.pending) = <<>>
    OBVIOUS
  <2>3. /\ got.stream \in GoodSegments
        /\ got.stream.pending = Tail(q.pending)
        /\ got.stream.encoder.added = e.added + 1
        /\ Unacked(got.stream.encoder) = Unacked(e) + 1
        /\ got.symbol = [fec |-> FALSE, index |-> e.added % ColumnPeriod,
                         chunk |-> Head(q.pending)]
    BY <1>5, <2>2, ChunkSymbolResult
  <2> HIDE DEF got
  <2>4. got.symbol \in SentSymbols(n)
    BY <2>2, <2>3, OriginalIsSent
  <2>5. got.symbol \in AllSymbols
    BY <2>4 DEF SentSymbols
  <2>6. /\ TakeSymbol(w).stream = got.stream
        /\ TakeSymbol(w).symbols = Append(<<>>, got.symbol)
    BY <1>1, <2>1, <2>3, <2>5, WithSymbolType DEF w
  <2>7. Append(<<>>, got.symbol) \in Seq(SentSymbols(n))
    BY <2>4, EmptySeq, AppendProperties
  <2>8. Unacked(e) \in Int
    BY SegmentType, UnackedType
  <2>9. Unacked(got.stream.encoder) =< n /\ got.stream.encoder.added = n
    BY <2>3, <2>8
  <2>10. OneOriginal(Append(<<>>, got.symbol), n - 1)
    <3>1. got.symbol.index = n - 1
      <4>1. K \in Column
        BY ColumnPeriodAssumption DEF Column
      <4> QED  BY <2>3, <4>1, SmallResidue
    <3> DEFINE one == Append(<<>>, got.symbol)
    <3>2. Len(one) = 1 /\ one[1] = got.symbol
      OBVIOUS
    <3> HIDE DEF one
    <3> QED  BY <3>1, <3>2 DEF OneOriginal
  <2> QED  BY <1>3, <2>2, <2>3, <2>6, <2>7, <2>9, <2>10 DEF Midway, w
<1> QED  BY <1>4, <1>5 DEF w

(***************************************************************************)
(* A later turn takes the recovery symbol that is due, or nothing.         *)
(***************************************************************************)
LEMMA LaterTurn ==
  ASSUME NEW K \in Nat, K < ColumnPeriod, NEW w \in Midway(K)
  PROVE  TakeSymbol(w) \in Done(K)
<1> DEFINE s == w.stream
           e == s.encoder
           got == FecSymbol(s)
           p == got.symbol.packet
<1>1. /\ w \in Takes /\ s \in GoodSegments /\ w.threw \in BOOLEAN
      /\ w.symbols \in Seq(AllSymbols)
  BY DEF Midway, Takes
<1>2. TakeSymbol(w) \in Takes
  BY <1>1, TakeSymbolType
<1>3. CASE w.threw
  <2>1. TakeSymbol(w) = w
    BY <1>3 DEF TakeSymbol
  <2> QED  BY <1>3, <2>1 DEF Done
<1>4. CASE ~w.threw /\ ~IsNextSymbolFec(s)
  <2>1. ~HasSymbol(s)
    BY <1>4 DEF HasSymbol, Midway
  <2>2. TakeSymbol(w) = w
    BY <2>1 DEF TakeSymbol
  <2> QED  BY <1>4, <2>2 DEF Done
<1>5. CASE ~w.threw /\ IsNextSymbolFec(s) /\ EncodeNeedsMoreData(e)
  <2>1. TakeSymbol(w) = [w EXCEPT !.threw = TRUE]
    BY <1>5 DEF TakeSymbol, HasSymbol, GetSymbolThrows
  <2>2. TakeSymbol(w).threw
    BY <1>1, <2>1 DEF Takes
  <2> QED  BY <1>2, <2>2 DEF Midway, Done
<1>6. CASE ~w.threw /\ IsNextSymbolFec(s) /\ ~EncodeNeedsMoreData(e)
  <2>1. TakeSymbol(w) = WithSymbol(w, got)
    BY <1>6 DEF TakeSymbol, HasSymbol, GetSymbolThrows, GetSymbol
  <2>2. /\ s.pending = <<>> /\ e.added = K /\ Unacked(e) =< K
        /\ w.symbols \in Seq(SentSymbols(K))
        /\ OneOriginal(w.symbols, K - 1)
    BY <1>6 DEF Midway
  <2>3. /\ got.stream \in GoodSegments
        /\ got.stream.pending = s.pending
        /\ got.stream.encoder.added = e.added
        /\ Unacked(got.stream.encoder) = Unacked(e)
        /\ ~IsNextSymbolFec(got.stream)
        /\ got.symbol = [fec |-> TRUE, packet |-> p]
        /\ p = [columnStart |-> (e.added - Unacked(e)) % ColumnPeriod,
                sumCount |-> Unacked(e), row |-> p.row,
                first |-> e.added - Unacked(e) + 1]
        /\ p.row \in Nat
        /\ Unacked(e) \in 1 .. MaxPackets
    BY <1>1, <1>6, FecSymbolResult
  <2> HIDE DEF got, p
  <2>4. got.symbol \in SentSymbols(K)
    <3> DEFINE u == Unacked(e)
               row == p.row
    <3>1. u \in 1 .. MaxPackets /\ u =< K /\ row \in Nat
      BY <2>2, <2>3
    <3>2. got.symbol =
            [fec |-> TRUE,
             packet |-> [columnStart |-> (K - u) % ColumnPeriod, sumCount |-> u,
                         row |-> row, first |-> K - u + 1]]
      BY <2>2, <2>3
    <3> HIDE DEF u, row
    <3> QED  BY <3>1, <3>2, RecoveryIsSent
  <2>5. got.symbol \in AllSymbols
    BY <2>4 DEF SentSymbols
  <2>6. /\ TakeSymbol(w).stream = got.stream
        /\ TakeSymbol(w).symbols = Append(w.symbols, got.symbol)
    <3>1. w \in Takes /\ got.stream \in GoodSegments
      BY <1>1, <2>3
    <3>2. /\ WithSymbol(w, got).stream = got.stream
          /\ WithSymbol(w, got).symbols = Append(w.symbols, got.symbol)
      BY <2>5, <3>1, WithSymbolType
    <3> QED  BY <2>1, <3>2
  <2>7. Append(w.symbols, got.symbol) \in Seq(SentSymbols(K))
    BY <2>2, <2>4, AppendProperties
  <2>8. OneOriginal(Append(w.symbols, got.symbol), K - 1)
    <3> DEFINE a == w.symbols
               x == got.symbol
               b == Append(a, x)
    <3>1. /\ Len(b) = Len(a) + 1 /\ b[Len(a) + 1] = x
          /\ \A i \in 1 .. Len(a) : b[i] = a[i]
          /\ Len(a) \in Nat
      BY <1>1, <2>5, AppendProperties, LenProperties
    <3>2. x.fec = TRUE
      BY <2>3
    <3>3. OneOriginal(a, K - 1)
      BY <2>2
    <3> HIDE DEF a, b, x
    <3>4. OneOriginal(b, K - 1)
      BY <3>1, <3>2, <3>3 DEF OneOriginal
    <3> QED  BY <3>4 DEF a, b, x
  <2>9. TakeSymbol(w) \in Midway(K)
    BY <1>2, <2>2, <2>3, <2>6, <2>7, <2>8 DEF Midway
  <2> QED  BY <2>3, <2>6, <2>9 DEF Done
<1> QED  BY <1>1, <1>3, <1>4, <1>5, <1>6

(***************************************************************************)
(* The forwarding node encodes one chunk: unless it throws, it queues the  *)
(* symbol of the chunk and at most one recovery symbol, and is idle.       *)
(***************************************************************************)
LEMMA EncodeChunkResult ==
  ASSUME NEW K \in Nat, K + 1 < ColumnPeriod, NEW s, GoodForwarder(s, K)
  PROVE  LET encoded == EncodeChunks(s, <<K + 1>>)
         IN  /\ encoded.threw \in BOOLEAN
             /\ ~encoded.threw => /\ GoodForwarder(encoded.stream, K + 1)
                                  /\ encoded.symbols \in Seq(SentSymbols(K + 1))
                                  /\ OneOriginal(encoded.symbols, K)
<1> DEFINE chunks == <<K + 1>>
           q == [s EXCEPT !.pending = @ \o chunks]
           n == K + 1
           F == FecNumerator
<1>1. /\ s \in GoodSegments /\ s.pending = <<>> /\ ~IsNextSymbolFec(s)
      /\ s.encoder.added = K /\ Unacked(s.encoder) =< K
  BY DEF GoodForwarder, Idle
<1>2. chunks \in Seq(Nat) /\ n \in Nat
  OBVIOUS
<1>3. <<>> \o <<K + 1>> = <<K + 1>>
  OBVIOUS
<1> HIDE DEF chunks
<1>4. /\ q \in GoodSegments
      /\ q.pending = s.pending \o chunks
      /\ q.encoder = s.encoder
      /\ q.chunkIndex1 = s.chunkIndex1 /\ q.fecIndex = s.fecIndex
      /\ Len(q.pending) \in Nat
      /\ TakeStart(q) \in Takes
  BY <1>1, <1>2, QueuedResult
<1>5. EncodeChunks(s, <<K + 1>>) = TakeSymbols(q)
  BY DEF EncodeChunks, chunks
<1> HIDE DEF q
<1>6. q.pending = <<K + 1>> /\ Len(q.pending) = 1
  <2>1. q.pending = <<K + 1>>
    BY <1>1, <1>3, <1>4 DEF chunks
  <2> QED  BY <2>1
<1>7. ~IsNextSymbolFec(q)
  BY <1>1, <1>4 DEF IsNextSymbolFec
<1>8. TakeSymbol(TakeStart(q)) \in Midway(n)
  <2>1. K < ColumnPeriod
    BY ColumnPeriodAssumption
  <2>2. /\ q \in GoodSegments /\ q.pending = <<K + 1>> /\ ~IsNextSymbolFec(q)
        /\ q.encoder.added = K /\ Unacked(q.encoder) =< K
        /\ TakeStart(q) \in Takes
    BY <1>1, <1>4, <1>6, <1>7
  <2> QED  BY <2>1, <2>2, FirstTurn
<1>9. \A w \in Takes : TakeSymbol(w) \in Takes
  BY TakeSymbolType
<1>10. PICK turn \in [Nat -> Takes] :
        /\ turn[0] = TakeStart(q)
        /\ \A i \in Nat : turn[i + 1] = TakeSymbol(turn[i])
        /\ TakeSymbols(q) = turn[(Len(q.pending) + 1) * (F + 1)]
  BY <1>4, <1>9, TakeSymbolsIsIterated
<1> HIDE DEF n
<1>11. \A i \in Nat : turn[i + 1] \in Midway(n)
  <2> DEFINE S == {i \in Nat : turn[i + 1] \in Midway(n)}
  <2>1. 0 \in S
    <3>1. turn[0 + 1] = TakeSymbol(TakeStart(q))
      BY <1>10
    <3> QED  BY <1>8, <3>1
  <2>2. ASSUME NEW i \in Nat, i \in S PROVE i + 1 \in S
    <3>1. i + 1 \in Nat
      OBVIOUS
    <3>2. turn[(i + 1) + 1] = TakeSymbol(turn[i + 1])
      BY <1>10, <3>1
    <3>3. TakeSymbol(turn[i + 1]) \in Done(n)
      BY <1>2, <2>2, LaterTurn DEF n
    <3>4. Done(n) \subseteq Midway(n)
      BY DEF Done
    <3> QED  BY <3>1, <3>2, <3>3, <3>4
  <2> HIDE DEF S
  <2>3. \A i \in Nat : i \in S
    BY <2>1, <2>2, SetInduction
  <2> QED  BY <2>3 DEF S
<1>12. TakeSymbols(q) \in Done(n)
  <2>1. (1 + 1) * (F + 1) = (2 * F) + 1 + 1
    BY FecRatioAssumption
  <2> DEFINE m == 2 * F
  <2>2. m \in Nat /\ m + 1 \in Nat
    BY FecRatioAssumption
  <2>3. TakeSymbols(q) = turn[(m + 1) + 1]
    BY <1>6, <1>10, <2>1
  <2> HIDE DEF m
  <2>4. turn[(m + 1) + 1] = TakeSymbol(turn[m + 1]) /\ turn[m + 1] \in Midway(n)
    BY <1>10, <1>11, <2>2
  <2>5. TakeSymbol(turn[m + 1]) \in Done(n)
    BY <1>2, <2>4, LaterTurn DEF n
  <2> QED  BY <2>3, <2>4, <2>5
<1> DEFINE encoded == TakeSymbols(q)
<1> HIDE DEF encoded
<1>13. encoded \in Midway(n) /\ encoded \in Takes
       /\ (encoded.threw \/ ~IsNextSymbolFec(encoded.stream))
  BY <1>12 DEF Done, Midway, encoded
<1>14. encoded.threw \in BOOLEAN /\ encoded.stream \in GoodSegments
  BY <1>13 DEF Takes
<1>15. ~encoded.threw => /\ GoodForwarder(encoded.stream, n)
                         /\ encoded.symbols \in Seq(SentSymbols(n))
                         /\ OneOriginal(encoded.symbols, n - 1)
  BY <1>13, <1>14 DEF Midway, GoodForwarder, Idle
<1>16. n - 1 = K
  BY DEF n
<1> QED  BY <1>5, <1>14, <1>15, <1>16 DEF encoded, n

-----------------------------------------------------------------------------
(* handle_packet                                                           *)

GoodNode(m, K) ==
  /\ m = [decoder |-> m.decoder, encoder |-> m.encoder]
  /\ GoodStream(m.decoder, K)
  /\ m.encoder \in GoodSegments

\* The chunks taken out are the next of those sent, and the buffer knows it.
Delivers(h, next, K) ==
  \E n \in Nat :
    /\ next + n =< K
    /\ h.chunks = [j \in 1 .. n |-> next + j]
    /\ h.node.decoder.buffer.next = next + n

(***************************************************************************)
(* The chunks that a handler takes out are the next of those sent, it      *)
(* acknowledges a column, and the node stays good.                         *)
(***************************************************************************)
LEMMA HandleStreamResult ==
  ASSUME NEW K \in Nat, K =< ColumnPeriod \div 2,
         NEW m, GoodNode(m, K), NEW symbol, GoodSymbol(symbol, K),
         NEW lucky \in BOOLEAN
  PROVE  LET h == HandleStream(m, symbol, lucky)
         IN  /\ h.threw \in BOOLEAN
             /\ h.acks \in SUBSET Column
             /\ GoodNode(h.node, K)
             /\ Delivers(h, m.decoder.buffer.next, K)
<1> DEFINE p == ProcessSymbol(m.decoder, symbol, lucky)
           s == p.stream
           b == s.buffer
           next == m.decoder.buffer.next
           h == HandleStream(m, symbol, lucky)
<1>1. /\ p.threw \in BOOLEAN
      /\ ~p.threw => GoodStream(s, K)
      /\ b.next = next
  BY ProcessSymbolResult DEF GoodNode
<1>2. h = HandleProcessed(m, p)
  BY DEF HandleStream
<1>3. K < ColumnPeriod
  BY ColumnPeriodAssumption
<1>4. next \in Nat /\ next =< K
  BY DEF GoodNode, GoodStream, GoodBuffer, ReorderBuffers, Column
<1> HIDE DEF p, h
<1>5. CASE p.threw
  <2>1. h = [threw |-> TRUE, acks |-> {}, chunks |-> <<>>, symbols |-> <<>>,
             node |-> m]
    BY <1>2, <1>5 DEF HandleProcessed
  <2>2. <<>> = [j \in 1 .. 0 |-> next + j]
    BY <1>4
  <2>3. next + 0 = next
    BY <1>4
  <2>4. /\ h.chunks = [j \in 1 .. 0 |-> next + j]
        /\ h.node.decoder.buffer.next = next + 0
        /\ next + 0 =< K
    BY <1>4, <2>1, <2>2, <2>3
  <2>5. h.threw \in BOOLEAN /\ h.acks \in SUBSET Column /\ GoodNode(h.node, K)
    BY <2>1
  <2>6. Delivers(h, next, K)
    BY <2>4 DEF Delivers
  <2> QED  BY <2>5, <2>6 DEF h
<1>6. CASE ~p.threw
  <2> DEFINE n == CHOOSE n \in RunLengths : IsWholeRun(b, n)
             taken == TakenChunks(b, n)
             encoded == EncodeChunks(m.encoder, taken)
             after == AfterRun(b, n)
             decoder == [s EXCEPT !.buffer = after]
  <2>1. h = [threw   |-> encoded.threw,
             acks    |-> {GenerateAck(s)},
             chunks  |-> taken,
             symbols |-> IF encoded.threw THEN <<>> ELSE encoded.symbols,
             node    |-> [decoder |-> decoder, encoder |-> encoded.stream]]
    BY <1>2, <1>6 DEF HandleProcessed, AfterDecoding, AfterEncoding
  <2>2. GoodStream(s, K) /\ GoodBuffer(b, K) /\ GoodDecoder(s.fec, K)
        /\ s = [fec |-> s.fec, buffer |-> b]
    BY <1>1, <1>6 DEF GoodStream
  <2>3. \E i \in RunLengths : IsWholeRun(b, i)
    BY <1>3, <2>2, RunExists
  <2>4. n \in RunLengths /\ IsWholeRun(b, n)
    BY <2>3
  <2>5. n \in Nat
    BY <2>4 DEF RunLengths
  <2> HIDE DEF n
  <2>6. taken = [j \in 1 .. n |-> b.next + j]
    BY <1>3, <2>2, <2>4, TakenAreNext
  <2>7. b.next + n =< K
    BY <1>3, <2>2, <2>4, RunDoesNotWrap
  <2>8. GoodBuffer(after, K) /\ after.next = b.next + n
    BY <1>3, <2>2, <2>4, AfterRunKeepsQueues
  <2> HIDE DEF taken, after
  <2>9. taken \in Seq(Nat)
    <3>1. \A j \in 1 .. n : next + j \in Nat
      BY <1>4, <2>5
    <3>2. taken \in [1 .. n -> Nat]
      BY <1>1, <2>6, <3>1
    <3> QED  BY <2>5, <3>2
  <2>10. encoded \in Takes
    <3>1. m.encoder \in GoodSegments
      BY DEF GoodNode
    <3> QED  BY <2>9, <3>1, EncodeChunksType
  <2> HIDE DEF encoded
  <2>11. encoded.threw \in BOOLEAN /\ encoded.stream \in GoodSegments
    BY <2>10 DEF Takes
  <2>12. GenerateAck(s) \in Column
    <3>1. s.fec.columnStart \in Int /\ s.fec.next \in Int
      BY <2>2 DEF GoodDecoder, GoodWindow, Decoders
    <3> DEFINE a == s.fec.columnStart
               c == s.fec.next
    <3>2. GenerateAck(s) = AddColumns(a, c)
      BY DEF GenerateAck, AckColumn
    <3> HIDE DEF a, c
    <3>3. AddColumns(a, c) \in Column
      BY <3>1, ColumnOfSum DEF a, c
    <3> QED  BY <3>2, <3>3
  <2>13. decoder = [fec |-> s.fec, buffer |-> after]
    BY <2>2
  <2> HIDE DEF decoder
  <2>14. GoodStream(decoder, K) /\ decoder.buffer.next = next + n
    BY <1>1, <2>2, <2>8, <2>13 DEF GoodStream
  <2>15. /\ h.threw = encoded.threw /\ h.acks = {GenerateAck(s)}
         /\ h.chunks = taken
         /\ h.node = [decoder |-> decoder, encoder |-> encoded.stream]
    BY <2>1
  <2>16. GoodNode(h.node, K) /\ h.node.decoder.buffer.next = next + n
    BY <2>11, <2>14, <2>15 DEF GoodNode
  <2>17. h.threw \in BOOLEAN /\ h.acks \in SUBSET Column
    BY <2>11, <2>12, <2>15
  <2>18. h.chunks = [j \in 1 .. n |-> next + j] /\ next + n =< K
    BY <1>1, <2>6, <2>7, <2>15
  <2>19. Delivers(h, next, K)
    BY <2>5, <2>16, <2>18 DEF Delivers
  <2> QED  BY <2>16, <2>17, <2>19 DEF h
<1> QED  BY <1>1, <1>5, <1>6

(***************************************************************************)
(* What is good stays so when more chunks are sent.                        *)
(***************************************************************************)
LEMMA MoreSentToNode ==
  ASSUME NEW K \in Nat, NEW L \in Nat, K =< L, NEW m, GoodNode(m, K)
  PROVE  GoodNode(m, L)
<1> DEFINE d == m.decoder.fec
           b == m.decoder.buffer
<1>1. GoodWindow(d, K) /\ GoodChecked(d) /\ GoodBuffer(b, K)
  BY DEF GoodNode, GoodStream, GoodDecoder
<1> HIDE DEF d, b
<1>2. GoodBuffer(b, L)
  BY <1>1, MoreChunksSent
<1>3. WindowFits(d, L)
  <2>1. d.columnStart \in Nat /\ d.count \in Nat
    BY <1>1, DecoderType DEF GoodWindow
  <2> QED  BY <1>1, <2>1 DEF GoodWindow, WindowFits
<1>4. AreOwnSymbols(d.recovered, L)
  BY <1>1 DEF GoodWindow, AreOwnSymbols
<1>5. GoodDecoder(d, L)
  BY <1>1, <1>3, <1>4 DEF GoodWindow, GoodDecoder
<1> QED  BY <1>2, <1>5 DEF GoodNode, GoodStream, d, b

(***************************************************************************)
(* So do the symbols in flight.                                            *)
(***************************************************************************)
LEMMA MoreSentSymbols ==
  ASSUME NEW K \in Nat, NEW L \in Nat, K =< L
  PROVE  /\ SentSymbols(K) \subseteq SentSymbols(L)
         /\ Seq(SentSymbols(K)) \subseteq Seq(SentSymbols(L))
<1>1. ASSUME NEW p, GoodPacket(p, K) PROVE GoodPacket(p, L)
  <2>1. p.columnStart \in Nat /\ p.sumCount \in Nat
    BY <1>1 DEF GoodPacket
  <2> QED  BY <1>1, <2>1 DEF GoodPacket
<1>2. ASSUME NEW y, GoodSymbol(y, K) PROVE GoodSymbol(y, L)
  BY <1>1, <1>2 DEF GoodSymbol
<1>3. SentSymbols(K) \subseteq SentSymbols(L)
  BY <1>2 DEF SentSymbols
<1> QED  BY <1>3, SeqMonotonic

(***************************************************************************)
(* What the network does to the packets in flight.                         *)
(***************************************************************************)
LEMMA InFlightResult ==
  ASSUME NEW S, NEW q \in Seq(S)
  PROVE  /\ Len(q) \in Nat
         /\ q # <<>> => Tail(q) \in Seq(S) /\ <<Head(q)>> \o q \in Seq(S)
         /\ \A i \in 1 .. Len(q) : q[i] \in S /\ RemoveAt(q, i) \in Seq(S)
<1>1. Len(q) \in Nat
  BY LenProperties
<1>2. ASSUME q # <<>>
      PROVE  Tail(q) \in Seq(S) /\ <<Head(q)>> \o q \in Seq(S)
  <2>1. Tail(q) \in Seq(S) /\ Head(q) \in S
    BY <1>2, HeadTailProperties
  <2>2. <<Head(q)>> \in Seq(S)
    BY <2>1
  <2> QED  BY <2>1, <2>2, ConcatProperties
<1>3. ASSUME NEW i \in 1 .. Len(q)
      PROVE  q[i] \in S /\ RemoveAt(q, i) \in Seq(S)
  <2>1. q[i] \in S
    BY ElementOfSeq
  <2> DEFINE a == SubSeq(q, 1, i - 1)
             b == SubSeq(q, i + 1, Len(q))
  <2>2. a \in Seq(S)
    <3>1. \A j \in 1 .. i - 1 : q[j] \in S
      BY <1>1, ElementOfSeq
    <3>2. i - 1 \in Nat
      BY <1>1
    <3> QED  BY <1>1, <3>1, <3>2, SubSeqProperties
  <2>3. b \in Seq(S)
    <3>1. \A j \in i + 1 .. Len(q) : q[j] \in S
      BY <1>1, ElementOfSeq
    <3> QED  BY <1>1, <3>1, SubSeqProperties
  <2>4. a \o b \in Seq(S)
    BY <2>2, <2>3, ConcatProperties
  <2> QED  BY <2>1, <2>4 DEF RemoveAt
<1> QED  BY <1>1, <1>2, <1>3

(***************************************************************************)
(* The encoder and the decoder start good.                                 *)
(***************************************************************************)
LEMMA InitialSegment ==
  /\ GoodForwarder(StreamEncoderInit, 0)
  /\ StreamEncoderInit.encoder.added = 0
<1>1. 0 \in Column
  BY ColumnPeriodAssumption DEF Column
<1>2. /\ EncoderInit \in SiameseEncoders
      /\ EncoderInit.count = 0 /\ EncoderInit.added = 0
      /\ EncoderInit.nextColumn = 0
  BY <1>1 DEF EncoderInit, SiameseEncoders
<1>3. GoodEncoder(EncoderInit)
  <2>1. 0 % ColumnPeriod = 0
    BY ColumnPeriodAssumption
  <2> QED  BY <1>2, <2>1 DEF GoodEncoder
<1>4. Unacked(EncoderInit) = 0
  BY <1>2 DEF Unacked
<1> HIDE DEF EncoderInit
<1> DEFINE s == StreamEncoderInit
<1>5. /\ s.encoder = EncoderInit /\ s.pending = <<>>
      /\ s.chunkIndex1 = 0 /\ s.fecIndex = 0
  BY DEF StreamEncoderInit
<1>6. s \in Segments
  <2>1. <<>> \in Seq(Nat)
    BY EmptySeq
  <2> QED  BY <1>1, <1>2, <2>1, FecRatioAssumption
        DEF StreamEncoderInit, Segments
<1>7. ~IsNextSymbolFec(s)
  <2>1. /\ 0 \in 0 .. FecDenominator /\ 0 \in 0 .. FecNumerator - 1
        /\ Position(0, 0) = 0 /\ InCycle(0, 0)
    BY FecRatioAssumption DEF Position, InCycle
  <2>2. IsNext(0, 0) => (0 + 1) * FecDenominator =< 0 * FecNumerator
    BY <2>1, NextIsReached
  <2>3. ~IsNext(0, 0)
    BY <2>2, FecRatioAssumption
  <2> QED  BY <1>5, <2>3 DEF IsNextSymbolFec, IsNext
<1> HIDE DEF s
<1> QED  BY <1>2, <1>3, <1>4, <1>5, <1>6, <1>7
      DEF s, GoodForwarder, GoodSegments, Idle

(***************************************************************************)
(* A new node has nothing, and expects the first chunk.                    *)
(***************************************************************************)
LEMMA InitialNode ==
  ASSUME NEW K \in Nat
  PROVE  GoodNode(ContinuousStreamInit, K)
         /\ ContinuousStreamInit.decoder.buffer.next = 0
<1> DEFINE d == DecoderInit
<1>1. d \in Decoders /\ d.columnStart = 0 /\ d.count = 0 /\ d.got = {}
      /\ d.next = 0 /\ d.recs = <<>> /\ d.recovered = {}
      /\ d.lastMetadata = [columnStart |-> 0, sumCount |-> 0]
      /\ d.checked.count = 0
  <2>1. <<>> \in Seq(Entries)
    BY EmptySeq
  <2>2. NothingChecked \in Regions /\ NothingChecked.count = 0
    BY DEF NothingChecked, Regions
  <2> QED  BY <2>1, <2>2 DEF DecoderInit, Decoders
<1> HIDE DEF d
<1>2. Len(d.recs) = 0
  BY <1>1
<1>3. WindowFits(d, K) /\ EntriesFit(d) /\ MetadataPassed(d)
      /\ AreOwnSymbols(d.recovered, K) /\ ~(d.next < 0)
  BY <1>1, <1>2 DEF WindowFits, EntriesFit, MetadataPassed, AreOwnSymbols
<1>4. GoodDecoder(d, K)
  BY <1>1, <1>3 DEF GoodDecoder, GoodWindow, GoodChecked
<1>5. GoodBuffer(EmptyBuffer, K) /\ EmptyBuffer.next = 0
  BY EmptyBufferIsGood
<1>6. StreamEncoderInit \in GoodSegments
  BY InitialSegment DEF GoodForwarder
<1> DEFINE s == StreamDecoderInit
<1>7. s = [fec |-> d, buffer |-> EmptyBuffer]
  BY DEF StreamDecoderInit, d
<1>8. ContinuousStreamInit = [decoder |-> s, encoder |-> StreamEncoderInit]
  BY DEF ContinuousStreamInit
<1> HIDE DEF s
<1>9. GoodStream(s, K) /\ s.buffer.next = 0
  BY <1>4, <1>5, <1>7 DEF GoodStream
<1> QED  BY <1>6, <1>8, <1>9 DEF GoodNode

-----------------------------------------------------------------------------
(* Encoding what a handler took out                                        *)

\* The chunks after K up to N, in order.
ChunksAfter(K, N) == [j \in 1 .. N - K |-> K + j]

(***************************************************************************)
(* The first of these chunks, and the others.                              *)
(***************************************************************************)
LEMMA ChunksAfterResult ==
  ASSUME NEW K \in Nat, NEW N \in Nat, K =< N
  PROVE  /\ ChunksAfter(K, N) \in Seq(Nat)
         /\ ChunksAfter(K, N) = <<>> <=> K = N
         /\ K < N => /\ Head(ChunksAfter(K, N)) = K + 1
                     /\ Tail(ChunksAfter(K, N)) = ChunksAfter(K + 1, N)
<1> DEFINE c == ChunksAfter(K, N)
           n == N - K
<1>1. n \in Nat /\ c = [j \in 1 .. n |-> K + j]
  BY DEF ChunksAfter
<1> HIDE DEF c, n
<1>2. \A j \in 1 .. n : K + j \in Nat
  BY <1>1
<1>3. c \in Seq(Nat) /\ Len(c) = n
  BY <1>1, <1>2
<1>4. c = <<>> <=> n = 0
  BY <1>3
<1>5. ASSUME K < N
      PROVE  Head(c) = K + 1 /\ Tail(c) = ChunksAfter(K + 1, N)
  <2>1. n >= 1 /\ 1 \in 1 .. n
    BY <1>1, <1>5 DEF n
  <2>2. Head(c) = c[1] /\ c # <<>>
    BY <1>3, <1>4, <2>1
  <2>3. Tail(c) = [j \in 1 .. n - 1 |-> c[j + 1]]
    <3> DEFINE t == Tail(c)
    <3>1. /\ t \in Seq(Nat) /\ Len(t) = n - 1
          /\ \A j \in 1 .. n - 1 : t[j] = c[j + 1]
      BY <1>3, <2>2, HeadTailProperties
    <3> HIDE DEF t
    <3>2. t \in [1 .. n - 1 -> Nat]
      BY <3>1, LenProperties
    <3>3. t = [j \in 1 .. n - 1 |-> t[j]]
      BY <3>2
    <3> QED  BY <3>1, <3>3 DEF t
  <2>4. \A j \in 1 .. n - 1 : c[j + 1] = (K + 1) + j
    <3> SUFFICES ASSUME NEW j \in 1 .. n - 1 PROVE c[j + 1] = (K + 1) + j
      OBVIOUS
    <3>1. j + 1 \in 1 .. n /\ K + (j + 1) = (K + 1) + j
      BY <1>1
    <3> QED  BY <1>1, <3>1
  <2>5. N - (K + 1) = n - 1
    BY DEF n
  <2>6. ChunksAfter(K + 1, N) = [j \in 1 .. n - 1 |-> (K + 1) + j]
    BY <2>5 DEF ChunksAfter
  <2>7. Tail(c) = [j \in 1 .. n - 1 |-> (K + 1) + j]
    BY <2>3, <2>4
  <2> QED  BY <1>1, <2>1, <2>2, <2>6, <2>7
<1> QED  BY <1>3, <1>4, <1>5 DEF c, n

(***************************************************************************)
(* Works of an encoder that sends the chunks up to N: those not added wait *)
(* in order, and its symbols tell the truth.                               *)
(***************************************************************************)
Underway(N) ==
  {w \in Takes :
     LET e == w.stream.encoder
     IN  /\ e.added =< N /\ Unacked(e) =< e.added
         /\ w.stream.pending = ChunksAfter(e.added, N)
         /\ w.symbols \in Seq(SentSymbols(N))}

\* The loop that takes symbols has nothing more to do.
IsFinished(w) == w.threw \/ ~HasSymbol(w.stream)

\* Each chunk that waits may be followed by a recovery symbol.
TurnsLeft(w, N) == 2 * (N - w.stream.encoder.added)
                     + (IF IsNextSymbolFec(w.stream) THEN 1 ELSE 0)

(***************************************************************************)
(* One turn of the loop: it ends, or fewer turns are left.                 *)
(***************************************************************************)
LEMMA TurnResult ==
  ASSUME NEW N \in Nat, N < ColumnPeriod, NEW w \in Underway(N)
  PROVE  LET t == TakeSymbol(w)
         IN  /\ t \in Underway(N)
             /\ IsFinished(w) => IsFinished(t)
             /\ ~IsFinished(w) =>
                  IsFinished(t) \/ TurnsLeft(t, N) < TurnsLeft(w, N)
<1> DEFINE s == w.stream
           e == s.encoder
           a == e.added
           t == TakeSymbol(w)
<1>1. /\ w \in Takes /\ s \in GoodSegments /\ w.symbols \in Seq(SentSymbols(N))
      /\ a \in Nat /\ a =< N /\ Unacked(e) =< a
      /\ s.pending = ChunksAfter(a, N)
      /\ w.threw \in BOOLEAN
  BY SegmentType DEF Underway, Takes
<1>2. t \in Takes
  BY <1>1, TakeSymbolType
<1>3. CASE IsFinished(w)
  <2>1. t = w
    BY <1>3 DEF TakeSymbol, IsFinished
  <2> QED  BY <1>3, <2>1
<1>4. CASE ~IsFinished(w) /\ GetSymbolThrows(s)
  <2>1. t = [w EXCEPT !.threw = TRUE]
    BY <1>4 DEF TakeSymbol, IsFinished
  <2>2. /\ t.stream = s /\ t.symbols = w.symbols
        /\ t.threw = TRUE
    BY <1>1, <2>1 DEF Takes
  <2> HIDE DEF t
  <2> QED  BY <1>1, <1>2, <1>4, <2>2 DEF t, Underway, IsFinished
<1>5. CASE ~IsFinished(w) /\ ~GetSymbolThrows(s) /\ IsNextSymbolFec(s)
  <2> DEFINE got == FecSymbol(s)
             p == got.symbol.packet
             u == Unacked(e)
  <2>1. t = WithSymbol(w, got)
    BY <1>5 DEF TakeSymbol, GetSymbol, IsFinished
  <2>2. ~EncodeNeedsMoreData(e)
    BY <1>5 DEF GetSymbolThrows
  <2>3. /\ got.stream \in GoodSegments
        /\ got.stream.pending = s.pending
        /\ got.stream.encoder.added = a
        /\ Unacked(got.stream.encoder) = u
        /\ ~IsNextSymbolFec(got.stream)
        /\ got.symbol = [fec |-> TRUE, packet |-> p]
        /\ p = [columnStart |-> (a - u) % ColumnPeriod,
                sumCount |-> u, row |-> p.row, first |-> a - u + 1]
        /\ p.row \in Nat
        /\ u \in 1 .. MaxPackets
    BY <1>1, <1>5, <2>2, FecSymbolResult
  <2> HIDE DEF got, p, u, t, a, s
  <2>4. u =< a
    BY <1>1 DEF u
  <2>5. got.symbol \in SentSymbols(a)
    <3>1. a < ColumnPeriod
      BY <1>1, ColumnPeriodAssumption
    <3>2. [fec |-> TRUE,
           packet |-> [columnStart |-> (a - u) % ColumnPeriod, sumCount |-> u,
                       row |-> p.row, first |-> a - u + 1]] \in SentSymbols(a)
      BY <1>1, <2>3, <2>4, <3>1, RecoveryIsSent
    <3> QED  BY <2>3, <3>2
  <2>6. got.symbol \in SentSymbols(N) /\ got.symbol \in AllSymbols
    BY <1>1, <2>5, MoreSentSymbols DEF SentSymbols
  <2>7. /\ t.stream = got.stream /\ t.threw = w.threw
        /\ t.symbols = Append(w.symbols, got.symbol)
    BY <1>1, <2>1, <2>3, <2>6, WithSymbolType
  <2>8. t.symbols \in Seq(SentSymbols(N))
    BY <1>1, <2>6, <2>7, AppendProperties
  <2>9. t \in Underway(N)
    BY <1>1, <1>2, <2>3, <2>4, <2>7, <2>8 DEF Underway, t
  <2>10. TurnsLeft(t, N) < TurnsLeft(w, N)
    <3>1. TurnsLeft(t, N) = 2 * (N - a) + 0
      BY <2>3, <2>7 DEF TurnsLeft
    <3>2. TurnsLeft(w, N) = 2 * (N - a) + 1
      BY <1>5 DEF TurnsLeft, a, s
    <3> QED  BY <1>1, <3>1, <3>2
  <2> QED  BY <1>5, <2>9, <2>10 DEF t
<1>6. CASE ~IsFinished(w) /\ ~GetSymbolThrows(s) /\ ~IsNextSymbolFec(s)
  <2> DEFINE got == ChunkSymbol(s)
  <2>1. t = WithSymbol(w, got)
    BY <1>6 DEF TakeSymbol, GetSymbol, IsFinished
  <2>2. ~MaxPacketsReached(e) /\ s.pending # <<>>
    BY <1>6 DEF GetSymbolThrows, IsFinished, HasSymbol
  <2>3. a < N /\ Head(s.pending) = a + 1
        /\ Tail(s.pending) = ChunksAfter(a + 1, N)
    <3> HIDE DEF a, s
    <3>1. a # N /\ a \in Nat
      BY <1>1, <2>2, ChunksAfterResult
    <3>2. a < N
      BY <1>1, <3>1
    <3> QED  BY <1>1, <3>1, <3>2, ChunksAfterResult
  <2>4. /\ got.stream \in GoodSegments
        /\ got.stream.pending = Tail(s.pending)
        /\ got.stream.encoder.added = a + 1
        /\ Unacked(got.stream.encoder) = Unacked(e) + 1
        /\ got.symbol = [fec |-> FALSE, index |-> a % ColumnPeriod,
                         chunk |-> Head(s.pending)]
    BY <1>1, <2>2, ChunkSymbolResult
  <2>5. Unacked(e) \in Int
    BY <1>1, SegmentType, UnackedType
  <2> HIDE DEF got, t
  <2>6. got.symbol \in SentSymbols(a + 1)
    <3> HIDE DEF a, s
    <3>1. a < ColumnPeriod
      BY <1>1, ColumnPeriodAssumption
    <3>2. [fec |-> FALSE, index |-> a % ColumnPeriod, chunk |-> a + 1]
            \in SentSymbols(a + 1)
      BY <1>1, <3>1, OriginalIsSent
    <3> QED  BY <2>3, <2>4, <3>2
  <2>7. got.symbol \in SentSymbols(N) /\ got.symbol \in AllSymbols
    <3> HIDE DEF a
    <3>1. a + 1 \in Nat /\ a + 1 =< N
      BY <1>1, <2>3
    <3> QED  BY <2>6, <3>1, MoreSentSymbols DEF SentSymbols
  <2>8. /\ t.stream = got.stream /\ t.threw = w.threw
        /\ t.symbols = Append(w.symbols, got.symbol)
    BY <1>1, <2>1, <2>4, <2>7, WithSymbolType
  <2>9. t.symbols \in Seq(SentSymbols(N))
    BY <1>1, <2>7, <2>8, AppendProperties
  <2>10. t \in Underway(N)
    <3> DEFINE b == Unacked(e)
               f == got.stream.encoder
    <3> HIDE DEF a, b, s, f
    <3>1. a + 1 =< N /\ b + 1 =< a + 1
      BY <1>1, <2>3, <2>5 DEF b
    <3>2. f.added = a + 1 /\ Unacked(f) = b + 1
      BY <2>4 DEF b, f
    <3>3. f.added =< N /\ Unacked(f) =< f.added
          /\ t.stream.encoder = f
          /\ t.stream.pending = ChunksAfter(f.added, N)
      BY <2>3, <2>4, <2>8, <3>1, <3>2 DEF f
    <3>4. t \in Takes
      BY <1>2 DEF t
    <3> QED  BY <2>9, <3>3, <3>4 DEF Underway
  <2>11. TurnsLeft(t, N) < TurnsLeft(w, N)
    <3> HIDE DEF a
    <3>1. TurnsLeft(t, N) =< 2 * (N - (a + 1)) + 1
      BY <1>1, <2>4, <2>8 DEF TurnsLeft
    <3>2. TurnsLeft(w, N) = 2 * (N - a) + 0
      BY <1>6 DEF TurnsLeft, a
    <3>3. TurnsLeft(t, N) \in Int
      BY <1>1, <2>4, <2>8 DEF TurnsLeft
    <3> QED  BY <1>1, <3>1, <3>2, <3>3
  <2> QED  BY <1>6, <2>10, <2>11 DEF t
<1> QED  BY <1>3, <1>4, <1>5, <1>6

(***************************************************************************)
(* Encoding the next chunks of a stream gives symbols that tell the truth, *)
(* and leaves the encoder idle, unless it throws.                          *)
(***************************************************************************)
LEMMA EncodeChunksResult ==
  ASSUME NEW K \in Nat, NEW N \in Nat, K =< N, N < ColumnPeriod,
         NEW s, GoodForwarder(s, K)
  PROVE  LET encoded == EncodeChunks(s, ChunksAfter(K, N))
         IN  /\ encoded.threw \in BOOLEAN
             /\ encoded.symbols \in Seq(SentSymbols(N))
             /\ ~encoded.threw => GoodForwarder(encoded.stream, N)
<1> DEFINE chunks == ChunksAfter(K, N)
           q == [s EXCEPT !.pending = @ \o chunks]
           F == FecNumerator
           last == (Len(q.pending) + 1) * (F + 1)
<1>1. /\ s \in GoodSegments /\ s.pending = <<>> /\ ~IsNextSymbolFec(s)
      /\ s.encoder.added = K /\ Unacked(s.encoder) =< K
  BY DEF GoodForwarder, Idle
<1>2. chunks \in Seq(Nat) /\ Len(chunks) = N - K
  <2>1. chunks \in Seq(Nat)
    BY ChunksAfterResult
  <2>2. N - K \in Nat
    OBVIOUS
  <2> QED  BY <2>1, <2>2 DEF ChunksAfter
<1>3. EncodeChunks(s, ChunksAfter(K, N)) = TakeSymbols(q)
  BY DEF EncodeChunks
<1>4. <<>> \o chunks = chunks
  <2> HIDE DEF chunks
  <2> QED  BY <1>2, ConcatEmptySeq
<1> HIDE DEF chunks
<1>5. /\ q \in GoodSegments
      /\ q.pending = s.pending \o chunks
      /\ q.encoder = s.encoder
      /\ q.chunkIndex1 = s.chunkIndex1 /\ q.fecIndex = s.fecIndex
      /\ Len(q.pending) \in Nat
      /\ TakeStart(q) \in Takes
  BY <1>1, <1>2, QueuedResult
<1> HIDE DEF q
<1>6. q.pending = chunks /\ Len(q.pending) = N - K /\ ~IsNextSymbolFec(q)
  BY <1>1, <1>2, <1>4, <1>5 DEF IsNextSymbolFec
<1> DEFINE start == TakeStart(q)
<1>7. start \in Underway(N) /\ TurnsLeft(start, N) = 2 * (N - K)
  <2>1. start.stream = q /\ start.symbols = <<>>
    BY DEF TakeStart
  <2>2. <<>> \in Seq(SentSymbols(N))
    BY EmptySeq
  <2>3. start \in Underway(N)
    BY <1>1, <1>5, <1>6, <2>1, <2>2 DEF Underway, chunks
  <2>4. TurnsLeft(start, N) = 2 * (N - K)
    BY <1>1, <1>5, <1>6, <2>1 DEF TurnsLeft
  <2> QED  BY <2>3, <2>4
<1>8. \A w \in Underway(N) : TakeSymbol(w) \in Underway(N)
  BY TurnResult
<1>9. PICK turn \in [Nat -> Underway(N)] :
        /\ turn[0] = start
        /\ \A i \in Nat : turn[i + 1] = TakeSymbol(turn[i])
        /\ TakeSymbols(q) = turn[last]
  BY <1>5, <1>7, <1>8, TakeSymbolsIsIterated
<1>10. \A i \in Nat : \/ IsFinished(turn[i])
                      \/ TurnsLeft(turn[i], N) + i =< 2 * (N - K)
  <2> DEFINE S == {i \in Nat : \/ IsFinished(turn[i])
                               \/ TurnsLeft(turn[i], N) + i =< 2 * (N - K)}
  <2>1. 0 \in S
    BY <1>7, <1>9
  <2>2. ASSUME NEW i \in Nat, i \in S PROVE i + 1 \in S
    <3> DEFINE w == turn[i]
               t == turn[i + 1]
    <3>1. w \in Underway(N) /\ t \in Underway(N) /\ t = TakeSymbol(w)
      <4>1. i + 1 \in Nat
        OBVIOUS
      <4> QED  BY <1>9, <4>1
    <3>2. /\ IsFinished(w) => IsFinished(t)
          /\ ~IsFinished(w) =>
               IsFinished(t) \/ TurnsLeft(t, N) < TurnsLeft(w, N)
      BY <3>1, TurnResult
    <3>3. IsFinished(w) \/ TurnsLeft(w, N) + i =< 2 * (N - K)
      BY <2>2
    <3>4. TurnsLeft(w, N) \in Int /\ TurnsLeft(t, N) \in Int
      <4>1. ASSUME NEW x \in Underway(N) PROVE TurnsLeft(x, N) \in Int
        <5>1. x.stream \in GoodSegments
          BY DEF Underway, Takes
        <5>2. x.stream.encoder.added \in Nat
          BY <5>1, SegmentType
        <5> QED  BY <5>2 DEF TurnsLeft
      <4> QED  BY <3>1, <4>1
    <3> HIDE DEF w, t
    <3>5. IsFinished(t) \/ TurnsLeft(t, N) + (i + 1) =< 2 * (N - K)
      BY <3>2, <3>3, <3>4
    <3> QED  BY <3>5 DEF t
  <2> HIDE DEF S
  <2>3. \A i \in Nat : i \in S
    BY <2>1, <2>2, SetInduction
  <2> QED  BY <2>3 DEF S
<1>11. last \in Nat /\ last > 2 * (N - K)
  <2> DEFINE n == N - K
  <2>1. n \in Nat /\ F \in Nat /\ F >= 2 /\ last = (n + 1) * (F + 1)
    BY <1>6, FecRatioAssumption
  <2> HIDE DEF n, last
  <2>2. (n + 1) * 3 =< (n + 1) * (F + 1)
    BY <2>1, ProductAtLeast
  <2>3. last \in Nat
    BY <2>1
  <2> QED  BY <2>1, <2>2, <2>3 DEF n
<1> DEFINE encoded == TakeSymbols(q)
<1> HIDE DEF encoded, last
<1>12. encoded \in Underway(N) /\ IsFinished(encoded)
  <2>1. encoded = turn[last] /\ encoded \in Underway(N)
    BY <1>9, <1>11 DEF encoded
  <2>2. IsFinished(encoded) \/ TurnsLeft(encoded, N) + last =< 2 * (N - K)
    BY <1>10, <1>11, <2>1
  <2>3. TurnsLeft(encoded, N) \in Int /\ TurnsLeft(encoded, N) >= 0
    <3>1. encoded.stream \in GoodSegments /\ encoded.stream.encoder.added =< N
      BY <2>1 DEF Underway, Takes
    <3>2. encoded.stream.encoder.added \in Nat
      BY <3>1, SegmentType
    <3> QED  BY <3>1, <3>2 DEF TurnsLeft
  <2> QED  BY <1>11, <2>1, <2>2, <2>3
<1>13. /\ encoded.threw \in BOOLEAN /\ encoded.stream \in GoodSegments
       /\ encoded.symbols \in Seq(SentSymbols(N))
       /\ encoded.stream.encoder.added =< N
       /\ Unacked(encoded.stream.encoder) =< encoded.stream.encoder.added
       /\ encoded.stream.pending = ChunksAfter(encoded.stream.encoder.added, N)
  BY <1>12 DEF Underway, Takes
<1>14. ASSUME ~encoded.threw PROVE GoodForwarder(encoded.stream, N)
  <2>1. encoded.stream.pending = <<>> /\ ~IsNextSymbolFec(encoded.stream)
    BY <1>12, <1>14 DEF IsFinished, HasSymbol
  <2> DEFINE a == encoded.stream.encoder.added
  <2>2. a \in Nat
    BY <1>13, SegmentType
  <2>3. a = N
    <3>1. ChunksAfter(a, N) = <<>> /\ a =< N
      BY <1>13, <2>1
    <3> HIDE DEF a
    <3> QED  BY <2>2, <3>1, ChunksAfterResult
  <2> QED  BY <1>13, <2>1, <2>3 DEF GoodForwarder, Idle
<1> QED  BY <1>3, <1>13, <1>14 DEF encoded

(***************************************************************************)
(* What a handler gives on: symbols that tell the truth about the chunks   *)
(* its node has taken out, and unless it throws the encoder is idle again, *)
(* after these chunks.                                                     *)
(***************************************************************************)
LEMMA HandleStreamForwards ==
  ASSUME NEW K \in Nat, K =< ColumnPeriod \div 2,
         NEW m, GoodNode(m, K), NEW symbol, GoodSymbol(symbol, K),
         NEW lucky \in BOOLEAN,
         GoodForwarder(m.encoder, m.decoder.buffer.next)
  PROVE  LET h == HandleStream(m, symbol, lucky)
             N == h.node.decoder.buffer.next
         IN  /\ h.symbols \in Seq(SentSymbols(N))
             /\ ~h.threw => GoodForwarder(h.node.encoder, N)
<1> DEFINE p == ProcessSymbol(m.decoder, symbol, lucky)
           s == p.stream
           b == s.buffer
           next == m.decoder.buffer.next
           h == HandleStream(m, symbol, lucky)
           N == h.node.decoder.buffer.next
<1>1. /\ ~p.threw => GoodStream(s, K)
      /\ b.next = next
  BY ProcessSymbolResult DEF GoodNode
<1>2. h = HandleProcessed(m, p)
  BY DEF HandleStream
<1>3. K < ColumnPeriod
  BY ColumnPeriodAssumption
<1>4. next \in Nat /\ next =< K
  BY DEF GoodNode, GoodStream, GoodBuffer, ReorderBuffers, Column
<1>5. <<>> \in Seq(SentSymbols(N))
  BY EmptySeq
<1> HIDE DEF p, h
<1>6. CASE p.threw
  <2>1. h.symbols = <<>> /\ h.threw = TRUE
    BY <1>2, <1>6 DEF HandleProcessed
  <2> QED  BY <1>5, <2>1 DEF h
<1>7. CASE ~p.threw
  <2> DEFINE n == CHOOSE n \in RunLengths : IsWholeRun(b, n)
             taken == TakenChunks(b, n)
             encoded == EncodeChunks(m.encoder, taken)
             after == AfterRun(b, n)
             decoder == [s EXCEPT !.buffer = after]
  <2>1. h = [threw   |-> encoded.threw,
             acks    |-> {GenerateAck(s)},
             chunks  |-> taken,
             symbols |-> IF encoded.threw THEN <<>> ELSE encoded.symbols,
             node    |-> [decoder |-> decoder, encoder |-> encoded.stream]]
    BY <1>2, <1>7 DEF HandleProcessed, AfterDecoding, AfterEncoding
  <2>2. GoodBuffer(b, K) /\ s = [fec |-> s.fec, buffer |-> b]
    BY <1>1, <1>7 DEF GoodStream
  <2>3. \E i \in RunLengths : IsWholeRun(b, i)
    BY <1>3, <2>2, RunExists
  <2>4. n \in RunLengths /\ IsWholeRun(b, n)
    BY <2>3
  <2>5. n \in Nat
    BY <2>4 DEF RunLengths
  <2> HIDE DEF n
  <2>6. taken = [j \in 1 .. n |-> b.next + j]
    BY <1>3, <2>2, <2>4, TakenAreNext
  <2>7. b.next + n =< K
    BY <1>3, <2>2, <2>4, RunDoesNotWrap
  <2>8. after.next = b.next + n
    BY <1>3, <2>2, <2>4, AfterRunKeepsQueues
  <2>9. decoder.buffer = after
    BY <2>2
  <2> HIDE DEF taken, after, decoder, encoded
  <2>10. /\ h.threw = encoded.threw
         /\ h.symbols = IF encoded.threw THEN <<>> ELSE encoded.symbols
         /\ h.node.encoder = encoded.stream
         /\ N = next + n
    BY <1>1, <2>1, <2>8, <2>9
  <2> DEFINE M == next + n
  <2>11. M \in Nat /\ next =< M /\ M < ColumnPeriod /\ M - next = n
    BY <1>1, <1>3, <1>4, <2>5, <2>7, ColumnPeriodAssumption
  <2>12. taken = ChunksAfter(next, M)
    BY <1>1, <2>6, <2>11 DEF ChunksAfter
  <2> HIDE DEF M, next
  <2>13. /\ encoded.symbols \in Seq(SentSymbols(M))
         /\ ~encoded.threw => GoodForwarder(encoded.stream, M)
    <3>1. GoodForwarder(m.encoder, next)
      BY DEF next
    <3> QED  BY <1>4, <2>11, <2>12, <3>1, EncodeChunksResult DEF encoded
  <2>14. N = M
    BY <2>10 DEF M
  <2> QED  BY <1>5, <2>10, <2>13, <2>14 DEF h
<1> QED  BY <1>6, <1>7

(***************************************************************************)
(* process_ack keeps the encoder idle, whatever it is told.                *)
(***************************************************************************)
LEMMA ProcessAckResult ==
  ASSUME NEW K \in Nat, NEW s, GoodForwarder(s, K), NEW expected \in Column
  PROVE  GoodForwarder(ProcessAck(s, expected), K)
<1>1. /\ s \in GoodSegments /\ s \in Segments /\ GoodEncoder(s.encoder)
      /\ Idle(s) /\ s.encoder.added = K /\ Unacked(s.encoder) =< K
  BY SegmentType DEF GoodForwarder
<1> DEFINE e == s.encoder
           f == Acknowledge(e, expected)
           expects == f.nextColumnExpected
           t == ProcessAck(s, expected)
<1>2. GoodEncoder(f) /\ f.added = e.added /\ Unacked(f) =< Unacked(e)
  BY <1>1, AcknowledgeResult
<1>3. f \in SiameseEncoders /\ expects \in Column
  BY <1>2 DEF GoodEncoder, SiameseEncoders
<1>4. Unacked(f) \in Int /\ Unacked(e) \in Int
  BY <1>1, <1>2, UnackedType
<1>5. t = [s EXCEPT !.encoder = f, !.receiverExpects = expects]
  BY DEF ProcessAck
<1> HIDE DEF f, expects, t
<1>6. /\ t \in Segments /\ t.encoder = f /\ t.pending = s.pending
      /\ t.chunkIndex1 = s.chunkIndex1 /\ t.fecIndex = s.fecIndex
  BY <1>1, <1>3, <1>5 DEF Segments
<1>7. Idle(t)
  BY <1>1, <1>6 DEF Idle, IsNextSymbolFec
<1>8. Unacked(f) =< K /\ f.added = K
  BY <1>1, <1>2, <1>4
<1>9. GoodForwarder(t, K)
  BY <1>2, <1>6, <1>7, <1>8 DEF GoodForwarder, GoodSegments
<1> QED  BY <1>9 DEF t

=============================================================================
