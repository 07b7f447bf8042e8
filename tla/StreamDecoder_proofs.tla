------------------------ MODULE StreamDecoder_proofs ------------------------
(***************************************************************************)
(* What is proved of StreamDecoder, for every number of chunks below the   *)
(* period of column numbers, every delay and every size of batch: the      *)
(* decoder implements ChunkFifo, so that chunks come out in order, also    *)
(* when some come twice; and when none comes twice, each is handed out as  *)
(* soon as all before it have arrived.                                     *)
(***************************************************************************)
EXTENDS StreamDecoder, StreamNode_proofs

-----------------------------------------------------------------------------
(* Symbols                                                                 *)

(***************************************************************************)
(* While the column numbers do not wrap, a chunk has its own column.       *)
(***************************************************************************)
NoWraparound == MaxChunks < ColumnPeriod

LEMMA ColumnIsChunk ==
  ASSUME NoWraparound, NEW n \in Chunk
  PROVE  ColumnOfChunk(n) = n - 1
<1>1. n - 1 \in Column
  BY ColumnPeriodAssumption, StreamDecoderAssumption
     DEF NoWraparound, Chunk, Column
<1> QED  BY <1>1, SmallResidue DEF ColumnOfChunk

LEMMA SymbolsAreOwn ==
  ASSUME NoWraparound, TypeOK, NEW chunks \in SUBSET (1 .. sent)
  PROVE  AreOwnSymbols(Symbols(chunks), sent)
<1>1. 1 .. sent \subseteq Chunk
  BY StreamDecoderAssumption DEF TypeOK, Chunk
<1>2. ASSUME NEW n \in chunks PROVE n = ColumnOfChunk(n) + 1
  BY <1>1, ColumnIsChunk DEF Chunk
<1> QED  BY <1>2 DEF Symbols, AreOwnSymbols

-----------------------------------------------------------------------------
(* The invariant                                                           *)

(***************************************************************************)
(* What is delivered is the stream from its start.                         *)
(***************************************************************************)
InOrder == \A i \in 1 .. Len(delivered) : delivered[i] = i

(***************************************************************************)
(* InOrder is not inductive: it takes that the buffer expects the chunk    *)
(* after the last one delivered, and finds it under its own index.  That   *)
(* what is delivered was sent takes that what waits was sent.              *)
(***************************************************************************)
IInv ==
  /\ TypeOK
  /\ GoodBuffer(buffer, sent)
  /\ buffer.next = Len(delivered)
  /\ InOrder

(***************************************************************************)
(* The invariant holds of an empty buffer.                                 *)
(***************************************************************************)
LEMMA InitEstablishesIInv ==
  Init => IInv
<1> SUFFICES ASSUME Init PROVE IInv
  OBVIOUS
<1>1. sent = 0 /\ arrived = {} /\ buffer = EmptyBuffer /\ delivered = <<>>
  BY DEF Init
<1>2. GoodBuffer(buffer, MaxChunks) /\ GoodBuffer(buffer, sent)
      /\ buffer.next = 0
  BY <1>1, EmptyBufferIsGood, StreamDecoderAssumption
<1>3. TypeOK
  BY <1>1, <1>2, StreamDecoderAssumption DEF TypeOK, Chunk, GoodBuffer
<1> QED  BY <1>1, <1>2, <1>3 DEF IInv, InOrder

(***************************************************************************)
(* What the invariant says of the numbers involved.                        *)
(***************************************************************************)
LEMMA Ranges ==
  ASSUME NoWraparound, IInv
  PROVE  /\ sent \in Nat /\ sent < ColumnPeriod /\ sent =< MaxChunks
         /\ Len(delivered) \in 0 .. sent
         /\ delivered \in Seq(1 .. sent)
<1>1. sent \in Nat /\ sent =< MaxChunks /\ sent < ColumnPeriod
  BY StreamDecoderAssumption, ColumnPeriodAssumption
     DEF IInv, TypeOK, NoWraparound
<1>2. delivered \in Seq(Chunk) /\ Len(delivered) \in Nat
  BY DEF IInv, TypeOK
<1>3. Len(delivered) =< sent
  BY DEF IInv, GoodBuffer
<1>4. delivered \in Seq(1 .. sent)
  <2> DEFINE m == Len(delivered)
             S == 1 .. sent
  <2>1. ASSUME NEW i \in 1 .. m PROVE delivered[i] \in S
    BY <1>1, <1>2, <1>3, <2>1 DEF IInv, InOrder
  <2>2. delivered = [i \in 1 .. m |-> delivered[i]] /\ m \in Nat
    BY <1>2
  <2> HIDE DEF m, S
  <2>3. delivered \in [1 .. m -> S]
    BY <2>1, <2>2
  <2>4. delivered \in Seq(S)
    BY <2>2, <2>3
  <2> QED  BY <2>4 DEF S
<1> QED  BY <1>1, <1>2, <1>3, <1>4

(***************************************************************************)
(* Handling a packet keeps the invariant, and to the abstract              *)
(* specification it is a delivery.                                         *)
(***************************************************************************)
LEMMA HandleChunksKeepsIInv ==
  ASSUME NoWraparound, IInv,
         NEW chunks \in SUBSET InTransit, HandleChunks(chunks)
  PROVE  IInv' /\ Fifo!Deliver
<1> DEFINE queued == ProcessOriginalChunks(buffer, Symbols(chunks))
<1>1. PICK n \in RunLengths :
        /\ IsWholeRun(queued, n)
        /\ buffer' = AfterRun(queued, n)
        /\ delivered' = delivered \o TakenChunks(queued, n)
        /\ arrived' = arrived \cup chunks
        /\ UNCHANGED sent
  BY DEF HandleChunks
<1>2. chunks \in SUBSET (1 .. sent)
  BY DEF InTransit
<1>3. AreOwnSymbols(Symbols(chunks), sent)
  BY <1>2, SymbolsAreOwn DEF IInv
<1>4. GoodBuffer(queued, sent) /\ queued.next = Len(delivered)
  BY <1>3, Ranges, ProcessKeepsQueues DEF IInv
<1> HIDE DEF queued
<1>5. /\ GoodBuffer(buffer', sent)
      /\ buffer'.next = Len(delivered) + n
  BY <1>1, <1>4, Ranges, AfterRunKeepsQueues
<1>6. TakenChunks(queued, n) = [j \in 1 .. n |-> Len(delivered) + j]
  <2>1. TakenChunks(queued, n) = [j \in 1 .. n |-> queued.next + j]
    BY <1>1, <1>4, Ranges, TakenAreNext
  <2> QED  BY <1>4, <2>1
<1>7. n \in Nat /\ Len(delivered) + n =< sent
  BY <1>5 DEF GoodBuffer, RunLengths
<1> DEFINE k == Len(delivered)
           all == delivered \o [j \in 1 .. n |-> k + j]
<1>8. delivered' = all
  BY <1>1, <1>6
<1>9. /\ all \in Seq(1 .. sent)
      /\ Len(all) = k + n
      /\ \A i \in 1 .. Len(all) : all[i] = i
  BY <1>7, Ranges, NextChunksAppended DEF IInv, InOrder
<1>10. Fifo!Deliver
  <2> DEFINE m == k + n
  <2>1. m \in k .. sent /\ m - k = n
    BY <1>7, Ranges
  <2>2. delivered' = delivered \o [i \in 1 .. m - k |-> k + i]
    BY <1>8, <2>1
  <2> HIDE DEF m
  <2> QED  BY <1>1, <2>1, <2>2 DEF Fifo!Deliver
<1> HIDE DEF all
<1>11. TypeOK'
  <2>1. 1 .. sent \subseteq Chunk
    BY Ranges, StreamDecoderAssumption DEF Chunk
  <2>2. all \in Seq(Chunk)
    BY <1>9, <2>1, SeqMonotonic
  <2>3. GoodBuffer(buffer', MaxChunks)
    BY <1>5, Ranges, StreamDecoderAssumption, MoreChunksSent
  <2> QED  BY <1>1, <1>2, <1>8, <2>1, <2>2, <2>3
           DEF IInv, TypeOK, GoodBuffer, Chunk
<1> QED  BY <1>1, <1>5, <1>8, <1>9, <1>10, <1>11 DEF IInv, InOrder

(***************************************************************************)
(* So does sending a chunk, which is the sending of the abstract one.      *)
(***************************************************************************)
LEMMA NextKeepsIInv ==
  ASSUME NoWraparound, IInv, [Next]_vars
  PROVE  IInv' /\ [Fifo!Next]_<<sent, delivered>>
<1>1. CASE Send
  <2>1. TypeOK' /\ sent' >= sent /\ Fifo!Send
    BY <1>1, StreamDecoderAssumption DEF IInv, TypeOK, Send, Fifo!Send
  <2>2. sent' \in Nat /\ sent =< sent' /\ buffer' = buffer
    BY <1>1, Ranges DEF Send
  <2>3. GoodBuffer(buffer', sent')
    BY <2>2, Ranges, MoreChunksSent DEF IInv
  <2> QED  BY <1>1, <2>1, <2>3 DEF IInv, InOrder, Send, Fifo!Next
<1>2. ASSUME NEW chunks \in SUBSET InTransit, HandleChunks(chunks)
      PROVE  IInv' /\ Fifo!Deliver
  BY <1>2, HandleChunksKeepsIInv
<1>3. CASE UNCHANGED vars
  BY <1>3 DEF vars, IInv, TypeOK, InOrder
<1> QED  BY <1>1, <1>2, <1>3 DEF Next, Fifo!Next

(***************************************************************************)
(* The types of the reorder buffer and of what it hands out, whatever      *)
(* arrives late, early or again: what waits in m_symbols_ahead are chunks  *)
(* that were sent, and m_next_index stays a column (stream.hpp:23-75).     *)
(***************************************************************************)
THEOREM DecoderTypes ==
  ASSUME NoWraparound
  PROVE  Spec => []TypeOK
<1>1. Init => IInv
  BY InitEstablishesIInv
<1>2. IInv /\ [Next]_vars => IInv'
  BY NextKeepsIInv
<1>3. IInv => TypeOK
  BY DEF IInv
<1> QED  BY <1>1, <1>2, <1>3, PTL DEF Spec

(***************************************************************************)
(* The decoder implements ChunkFifo, as long as the column numbers do not  *)
(* wrap around: a step sends chunks or hands out the next of those sent,   *)
(* in order, each once and with no gap, whatever arrives late, early or    *)
(* again (stream.hpp:23-75).                                               *)
(***************************************************************************)
THEOREM DecoderImplementsFifo ==
  ASSUME NoWraparound
  PROVE  Spec => ImplementsFifo
<1>1. Init => IInv /\ Fifo!Init
  BY InitEstablishesIInv DEF Init, Fifo!Init
<1>2. IInv /\ [Next]_vars => IInv' /\ [Fifo!Next]_<<sent, delivered>>
  BY NextKeepsIInv
<1> QED  BY <1>1, <1>2, PTL DEF Spec, ImplementsFifo, Fifo!Spec

-----------------------------------------------------------------------------
(* Nothing is held back                                                    *)

(***************************************************************************)
(* If no chunk comes twice, the chunks that wait are those that arrived    *)
(* and were not handed out, each once, and the expected one is not there.  *)
(***************************************************************************)
WaitingIsExact(b, seen) ==
  /\ 1 .. b.next \subseteq seen
  /\ b.next + 1 \notin seen
  /\ \A c \in Column :
       /\ b.ahead[c] # <<>> <=> c >= b.next /\ c + 1 \in seen
       /\ Len(b.ahead[c]) =< 1

(***************************************************************************)
(* What NothingHeldBack needs besides: a chunk that was not sent did not   *)
(* arrive.                                                                 *)
(***************************************************************************)
HInv ==
  /\ IInv
  /\ arrived \subseteq 1 .. sent
  /\ WaitingIsExact(buffer, arrived)

(***************************************************************************)
(* Handling a packet keeps the exactness of what waits: the chunks that it *)
(* brings wait or are handed out, and the run ends at the first that is    *)
(* missing.                                                                *)
(***************************************************************************)
LEMMA HandleChunksKeepsHInv ==
  ASSUME NoWraparound, ~AllowRepeats, HInv,
         NEW chunks \in SUBSET InTransit, HandleChunks(chunks)
  PROVE  HInv'
<1> USE ColumnPeriodAssumption, StreamDecoderAssumption
<1> DEFINE queued == ProcessOriginalChunks(buffer, Symbols(chunks))
           seen == arrived \cup chunks
<1>1. PICK n \in RunLengths :
        /\ IsWholeRun(queued, n)
        /\ buffer' = AfterRun(queued, n)
        /\ arrived' = seen
        /\ UNCHANGED sent
  BY DEF HandleChunks
<1>2. /\ sent \in Nat /\ sent < ColumnPeriod /\ sent =< MaxChunks
      /\ GoodBuffer(buffer, sent)
      /\ buffer.next \in Column
      /\ arrived \subseteq 1 .. sent
  BY Ranges DEF HInv, IInv, GoodBuffer, ReorderBuffers
<1>3. chunks \in SUBSET (1 .. sent) /\ chunks \cap arrived = {}
      /\ chunks \in SUBSET Chunk
  BY <1>2 DEF InTransit, Chunk
<1>4. IInv'
  BY HandleChunksKeepsIInv DEF HInv
<1>5. arrived' \subseteq 1 .. sent'
  BY <1>1, <1>2, <1>3
<1>6. AreOwnSymbols(Symbols(chunks), sent)
  BY <1>3, SymbolsAreOwn DEF HInv, IInv
<1>7. GoodBuffer(queued, sent) /\ queued.next = buffer.next
  BY <1>2, <1>6, ProcessKeepsQueues
<1>8. ASSUME NEW c \in Column
      PROVE  (\E s \in Symbols(chunks) : s[1] = c) <=> c + 1 \in chunks
  <2>1. ASSUME NEW s \in Symbols(chunks), s[1] = c PROVE c + 1 \in chunks
    <3>1. PICK k \in chunks : s = <<ColumnOfChunk(k), k>>
      BY DEF Symbols
    <3> QED  BY <1>6, <2>1, <3>1 DEF AreOwnSymbols
  <2>2. ASSUME c + 1 \in chunks PROVE \E s \in Symbols(chunks) : s[1] = c
    <3>1. ColumnOfChunk(c + 1) = c
      BY <1>3, <2>2, ColumnIsChunk DEF Column
    <3>2. <<c, c + 1>> \in Symbols(chunks)
      BY <2>2, <3>1 DEF Symbols
    <3> QED  BY <3>2
  <2> QED  BY <2>1, <2>2
<1>9. ASSUME NEW c \in Column
      PROVE  /\ queued.ahead[c] # <<>> <=> c >= queued.next /\ c + 1 \in seen
             /\ Len(queued.ahead[c]) =< 1
  <2> DEFINE brought == c >= buffer.next /\ c + 1 \in chunks
  <2>1. /\ queued.ahead[c] # <<>> <=> buffer.ahead[c] # <<>> \/ brought
        /\ brought  => Len(queued.ahead[c]) = Len(buffer.ahead[c]) + 1
        /\ ~brought => queued.ahead[c] = buffer.ahead[c]
    BY <1>2, <1>6, <1>8, ProcessResult
  <2>2. /\ buffer.ahead[c] # <<>> <=> c >= buffer.next /\ c + 1 \in arrived
        /\ Len(buffer.ahead[c]) =< 1
    BY DEF HInv, WaitingIsExact
  <2>3. brought => buffer.ahead[c] = <<>>
    BY <1>3, <2>2
  <2>4. brought => Len(queued.ahead[c]) = 1
    <3> SUFFICES ASSUME brought PROVE Len(queued.ahead[c]) = 1
      OBVIOUS
    <3> DEFINE p == buffer.ahead[c]
               q == queued.ahead[c]
    <3>1. p = <<>> /\ Len(q) = Len(p) + 1
      BY <2>1, <2>3
    <3> HIDE DEF p, q
    <3>2. Len(q) = 1
      BY <3>1
    <3> QED  BY <3>2 DEF q
  <2>5. c + 1 \in seen <=> c + 1 \in arrived \/ c + 1 \in chunks
    OBVIOUS
  <2> HIDE DEF queued, seen
  <2>6. queued.ahead[c] # <<>> <=> c >= queued.next /\ c + 1 \in seen
    BY <1>7, <2>1, <2>2, <2>5
  <2>7. Len(queued.ahead[c]) =< 1
    <3>1. CASE brought
      <4> HIDE DEF brought
      <4>1. Len(queued.ahead[c]) = 1
        BY <2>4, <3>1
      <4> QED  BY <4>1
    <3>2. CASE ~brought
      <4>1. queued.ahead[c] = buffer.ahead[c]
        BY <2>1, <3>2
      <4> QED  BY <2>2, <4>1, Zenon
    <3> QED  BY <3>1, <3>2
  <2> QED  BY <2>6, <2>7
<1> HIDE DEF queued
<1>10. queued.next =< sent /\ n \in Nat /\ queued.next \in Nat
  BY <1>2, <1>7 DEF GoodBuffer, RunLengths, Column
<1>11. \A c \in Column : c < queued.next => queued.ahead[c] = <<>>
  BY <1>9, <1>10 DEF Column
<1>12. queued.next + n \in Column /\ queued.ahead[queued.next + n] = <<>>
  BY <1>1, <1>2, <1>7, <1>9, <1>11, RunStopsAtMissing
<1>13. \A j \in 0 .. n - 1 : /\ queued.next + j \in Column
                             /\ queued.ahead[queued.next + j] # <<>>
  BY <1>1, <1>2, <1>7, RunDoesNotWrap
<1>14. buffer'.next = queued.next + n
  BY <1>1, <1>2, <1>7, AfterRunKeepsQueues
<1>15. 1 .. buffer'.next \subseteq seen
  <2>1. ASSUME NEW i \in 1 .. queued.next + n PROVE i \in seen
    <3>1. CASE i =< queued.next
      <4>1. i \in 1 .. buffer.next
        BY <1>7, <1>10, <3>1
      <4> QED  BY <4>1 DEF HInv, WaitingIsExact
    <3>2. CASE i > queued.next
      <4> DEFINE j == (i - queued.next) - 1
      <4>1. j \in 0 .. n - 1 /\ queued.next + j = i - 1
        BY <1>10, <3>2
      <4>2. i - 1 \in Column /\ queued.ahead[i - 1] # <<>>
        BY <1>13, <4>1
      <4>3. (i - 1) + 1 = i
        OBVIOUS
      <4> QED  BY <1>9, <4>2, <4>3
    <3> QED  BY <1>10, <3>1, <3>2
  <2> QED  BY <1>14, <2>1
<1>16. buffer'.next + 1 \notin seen
  BY <1>9, <1>10, <1>12, <1>14
<1>17. ASSUME NEW c \in Column
       PROVE  /\ buffer'.ahead[c] # <<>> <=> c >= buffer'.next /\ c + 1 \in seen
              /\ Len(buffer'.ahead[c]) =< 1
  <2>1. buffer'.ahead[c] = IF c \in queued.next .. (queued.next + n) - 1
                           THEN Tail(queued.ahead[c]) ELSE queued.ahead[c]
    BY <1>1, <1>2, <1>7, AfterRunResult
  <2>2. queued.ahead[c] \in Seq(1 .. sent) /\ Len(queued.ahead[c]) =< 1
    BY <1>7, <1>9 DEF GoodBuffer, ReorderBuffers
  <2>3. c \in Nat
    BY DEF Column
  <2>4. CASE c \in queued.next .. (queued.next + n) - 1
    <3>1. c - queued.next \in 0 .. n - 1 /\ c = queued.next + (c - queued.next)
      BY <1>10, <2>3, <2>4
    <3>2. queued.ahead[c] # <<>>
      BY <1>13, <3>1
    <3>3. Tail(queued.ahead[c]) = <<>> /\ Len(<<>>) = 0
      <4> DEFINE q == queued.ahead[c]
      <4>1. q \in Seq(1 .. sent) /\ Len(q) =< 1 /\ q # <<>>
        BY <2>2, <3>2
      <4> HIDE DEF q
      <4>2. Tail(q) = <<>>
        BY <4>1, ShortSequence
      <4> QED  BY <4>2 DEF q
    <3>4. ~(c >= buffer'.next)
      BY <1>10, <1>14, <2>3, <2>4
    <3>5. buffer'.ahead[c] = <<>>
      BY <2>1, <2>4, <3>3
    <3> QED  BY <3>3, <3>4, <3>5
  <2>5. CASE ~(c \in queued.next .. (queued.next + n) - 1)
    <3>1. c >= queued.next
            <=> c >= buffer'.next \/ c \in queued.next .. (queued.next + n) - 1
      BY <1>10, <1>14, <2>3
    <3> QED  BY <1>9, <2>1, <2>2, <2>5, <3>1
  <2> QED  BY <2>4, <2>5
<1>18. WaitingIsExact(buffer, arrived)'
  BY <1>1, <1>15, <1>16, <1>17 DEF WaitingIsExact
<1> QED  BY <1>4, <1>5, <1>18 DEF HInv

(***************************************************************************)
(* As long as no chunk comes twice, every chunk is handed out as soon as   *)
(* all before it have arrived, by the handler that gets the last of them   *)
(* (stream.hpp, has_data and get_chunk).                                   *)
(***************************************************************************)
THEOREM HandedOutAtOnce ==
  ASSUME NoWraparound, ~AllowRepeats
  PROVE  Spec => []NothingHeldBack
<1>1. Init => HInv
  <2> SUFFICES ASSUME Init PROVE HInv
    OBVIOUS
  <2>1. buffer = [next |-> 0, ahead |-> [c \in Column |-> <<>>]]
        /\ arrived = {}
    BY DEF Init, EmptyBuffer
  <2>2. WaitingIsExact(buffer, arrived)
    BY <2>1 DEF WaitingIsExact
  <2> QED  BY <2>1, <2>2, InitEstablishesIInv DEF HInv
<1>2. HInv /\ [Next]_vars => HInv'
  <2> SUFFICES ASSUME HInv, [Next]_vars PROVE HInv'
    OBVIOUS
  <2>1. IInv'
    BY NextKeepsIInv DEF HInv
  <2>2. CASE Send
    <3>1. arrived' \subseteq 1 .. sent'
      BY <2>2 DEF HInv, IInv, TypeOK, Send
    <3> QED  BY <2>1, <2>2, <3>1 DEF HInv, Send
  <2>3. ASSUME NEW chunks \in SUBSET InTransit, HandleChunks(chunks)
        PROVE  HInv'
    BY <2>3, HandleChunksKeepsHInv
  <2>4. CASE UNCHANGED vars
    BY <2>1, <2>4 DEF vars, HInv
  <2> QED  BY <2>2, <2>3, <2>4 DEF Next
<1>3. HInv => NothingHeldBack
  <2> SUFFICES ASSUME HInv, NEW k \in 1 .. sent, 1 .. k \subseteq arrived
               PROVE  Len(delivered) >= k
    BY DEF NothingHeldBack
  <2>1. buffer.next = Len(delivered) /\ Len(delivered) \in Nat /\ sent \in Nat
    BY Ranges DEF HInv, IInv
  <2>2. buffer.next + 1 \notin arrived
    BY DEF HInv, WaitingIsExact
  <2> QED  BY <2>1, <2>2
<1> QED  BY <1>1, <1>2, <1>3, PTL DEF Spec

=============================================================================
