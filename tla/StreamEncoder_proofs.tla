------------------------ MODULE StreamEncoder_proofs ------------------------
(***************************************************************************)
(* What is proved of StreamEncoder, for every geometry of windows, every   *)
(* FEC ratio, every number of chunks and acknowledgements that are late,   *)
(* repeated and in any order: its types, the shape of the window, that a   *)
(* recovery packet is never asked of an empty window and that the FEC      *)
(* ratio is kept; and, as long as half the period of columns exceeds what  *)
(* is in flight, that the window protects exactly what is not acknowledged.*)
(***************************************************************************)
EXTENDS StreamEncoder, StreamNode_proofs

USE ColumnPeriodAssumption, SiameseCommonAssumption, SiameseEncoderAssumption,
    FecRatioAssumption, StreamEncoderAssumption

-----------------------------------------------------------------------------
(* The stream encoder                                                      *)

Streams ==
  [pending : Seq(1 .. MaxChunks), encoder : SiameseEncoders,
   receiverExpects : Column, nextIndex : Column,
   chunkIndex1 : 0 .. FecDenominator, fecIndex : 0 .. FecNumerator - 1]

(***************************************************************************)
(* The properties speak of m_receiver_expects, and the FEC encoder decides *)
(* which acknowledgements are old by a column of its own: the invariant    *)
(* has to tell that the two agree.                                         *)
(***************************************************************************)
IInv ==
  /\ TypeOK
  /\ GoodEncoder(stream.encoder)
  /\ stream.receiverExpects = stream.encoder.nextColumnExpected
  /\ IsNextSymbolFec(stream) => stream.encoder.count > 0
  /\ RatioInv(stream.chunkIndex1, stream.fecIndex, Sent, fecSent)

(***************************************************************************)
(* What TypeOK says of the fields of the encoder.                          *)
(***************************************************************************)
LEMMA StreamType ==
  ASSUME TypeOK
  PROVE  /\ stream \in Streams
         /\ stream.pending \in Seq(1 .. MaxChunks)
         /\ stream.encoder \in SiameseEncoders
         /\ stream.receiverExpects \in Column /\ stream.nextIndex \in Column
         /\ stream.chunkIndex1 \in 0 .. FecDenominator
         /\ stream.fecIndex \in 0 .. FecNumerator - 1
         /\ Sent \in Nat /\ fecSent \in Nat
<1>1. stream \in Streams
  BY DEF TypeOK, Streams
<1> QED  BY <1>1 DEF TypeOK, Streams, Sent, SiameseEncoders

(***************************************************************************)
(* The invariant holds of a new encoder, whose first recovery symbol is    *)
(* not due before its first chunk.                                         *)
(***************************************************************************)
LEMMA InitEstablishesIInv ==
  Init => IInv
<1> SUFFICES ASSUME Init PROVE IInv
  OBVIOUS
<1>1. 0 \in Column
  BY DEF Column
<1>2. /\ EncoderInit \in SiameseEncoders /\ EncoderInit.nextColumnExpected = 0
      /\ EncoderInit.count = 0 /\ EncoderInit.added = 0
      /\ EncoderInit.nextColumn = 0
  BY <1>1 DEF EncoderInit, SiameseEncoders
<1>3. GoodEncoder(EncoderInit)
  <2>1. 0 % ColumnPeriod = 0
    OBVIOUS
  <2> QED  BY <1>2, <2>1 DEF GoodEncoder
<1> HIDE DEF EncoderInit
<1>4. <<>> \in Seq(1 .. MaxChunks)
  OBVIOUS
<1>5. /\ stream.encoder = EncoderInit /\ stream.receiverExpects = 0
      /\ stream.chunkIndex1 = 0 /\ stream.fecIndex = 0
  BY DEF Init, StreamEncoderInit
<1>6. TypeOK
  <2>1. stream \in Streams
    BY <1>1, <1>2, <1>4 DEF Init, StreamEncoderInit, Streams
  <2> QED  BY <2>1 DEF Init, TypeOK, Streams
<1>7. RatioInv(0, 0, 0, 0)
  <2>1. Position(0, 0) = 0 /\ InCycle(0, 0)
    BY DEF Position, InCycle
  <2>2. 0 = 0 * FecDenominator + 0 /\ 0 = 0 * FecNumerator + 0
    OBVIOUS
  <2> QED  BY <2>1, <2>2 DEF RatioInv
<1>8. ~IsNextSymbolFec(stream)
  <2>1. /\ 0 \in 0 .. FecDenominator /\ 0 \in 0 .. FecNumerator - 1
        /\ Position(0, 0) = 0 /\ InCycle(0, 0)
    BY DEF Position, InCycle
  <2>2. IsNext(0, 0) => (0 + 1) * FecDenominator =< 0 * FecNumerator
    BY <2>1, NextIsReached
  <2>3. ~IsNext(0, 0)
    BY <2>2
  <2> QED  BY <1>5, <2>3 DEF IsNextSymbolFec, IsNext
<1> QED  BY <1>2, <1>3, <1>5, <1>6, <1>7, <1>8 DEF IInv, Init, Sent

(***************************************************************************)
(* queue_chunk only touches the queue.                                     *)
(***************************************************************************)
LEMMA QueueChunkKeepsIInv ==
  ASSUME IInv, queue_chunk
  PROVE  IInv'
<1> DEFINE chunk   == Sent + Len(stream.pending) + 1
           pending == Append(stream.pending, chunk)
<1>1. /\ stream \in Streams /\ stream.pending \in Seq(1 .. MaxChunks)
      /\ Sent \in Nat
  BY StreamType DEF IInv
<1>2. stream' = [stream EXCEPT !.pending = pending] /\ UNCHANGED <<up, fecSent>>
  BY DEF queue_chunk, QueueChunk
<1>3. chunk \in 1 .. MaxChunks
  <2>1. Len(stream.pending) \in Nat /\ Sent + Len(stream.pending) < MaxChunks
    BY <1>1 DEF queue_chunk
  <2> QED  BY <1>1, <2>1
<1> HIDE DEF chunk
<1>4. pending \in Seq(1 .. MaxChunks)
  BY <1>1, <1>3
<1> HIDE DEF pending
<1>5. /\ stream' \in Streams
      /\ stream'.encoder = stream.encoder
      /\ stream'.receiverExpects = stream.receiverExpects
      /\ stream'.chunkIndex1 = stream.chunkIndex1
      /\ stream'.fecIndex = stream.fecIndex
  BY <1>1, <1>2, <1>4 DEF Streams
<1>6. TypeOK'
  BY <1>2, <1>5 DEF IInv, TypeOK, Streams
<1> QED  BY <1>2, <1>5, <1>6 DEF IInv, IsNextSymbolFec, Sent

(***************************************************************************)
(* get_symbol adds a chunk to the window or encodes a recovery packet of   *)
(* it. A recovery packet can become due only with a chunk, so that         *)
(* something is in the window.                                             *)
(***************************************************************************)
LEMMA GetSymbolKeepsIInv ==
  ASSUME IInv, get_symbol
  PROVE  IInv'
<1> DEFINE e == stream.encoder
           c == stream.chunkIndex1
           f == stream.fecIndex
<1>1. /\ stream \in Streams /\ e \in SiameseEncoders /\ Sent \in Nat
      /\ c \in 0 .. FecDenominator /\ f \in 0 .. FecNumerator - 1
      /\ fecSent \in Nat /\ up
  BY StreamType DEF IInv, get_symbol
<1>2. RatioInv(c, f, Sent, fecSent) /\ GoodEncoder(e)
      /\ (IsNextSymbolFec(stream) <=> IsNext(c, f))
  BY DEF IInv, IsNextSymbolFec, IsNext
<1>3. CASE GetSymbolThrows(stream)
  <2>1. up' = FALSE /\ UNCHANGED <<stream, fecSent>>
    BY <1>3 DEF get_symbol
  <2> QED  BY <2>1 DEF IInv, TypeOK, Sent
<1>4. CASE ~GetSymbolThrows(stream) /\ IsNextSymbolFec(stream)
  <2> DEFINE encoder == Encode(e).encoder
             index   == (f + 1) % FecNumerator
  <2>1. stream' = [stream EXCEPT !.fecIndex = index, !.encoder = encoder]
    BY <1>4 DEF get_symbol, GetSymbol, FecSymbol
  <2>2. fecSent' = fecSent + 1 /\ up' = up
    BY <1>4 DEF get_symbol, GetSymbol, FecSymbol
  <2>3. ~EncodeNeedsMoreData(e)
    BY <1>4 DEF GetSymbolThrows
  <2>4. /\ GoodEncoder(encoder) /\ encoder.count > 0
        /\ encoder.added = e.added
        /\ encoder.nextColumnExpected = e.nextColumnExpected
    BY <1>2, <2>3, EncodeResult
  <2>5. index \in 0 .. FecNumerator - 1
    BY <1>1
  <2>6. RatioInv(c, index, Sent, fecSent + 1)
    BY <1>1, <1>2, <1>4, RecoveryKeepsRatio
  <2> HIDE DEF encoder, index
  <2>7. /\ stream' \in Streams /\ stream'.encoder = encoder
        /\ stream'.receiverExpects = stream.receiverExpects
        /\ stream'.chunkIndex1 = c /\ stream'.fecIndex = index
    BY <1>1, <2>1, <2>4, <2>5 DEF GoodEncoder, Streams
  <2>8. TypeOK' /\ Sent' = Sent
    BY <1>1, <2>2, <2>4, <2>7 DEF TypeOK, Streams, Sent
  <2> QED  BY <2>2, <2>4, <2>6, <2>7, <2>8 DEF IInv
<1>5. CASE ~GetSymbolThrows(stream) /\ ~IsNextSymbolFec(stream)
  <2> DEFINE encoder == EncoderAdd(e)
             pending == Tail(stream.pending)
             next    == AddColumns(e.nextColumn, 1)
             index   == (c % FecDenominator) + 1
  <2>1. stream' = [stream EXCEPT !.pending     = pending,
                                 !.encoder     = encoder,
                                 !.nextIndex   = next,
                                 !.chunkIndex1 = index]
    BY <1>5 DEF get_symbol, GetSymbol, ChunkSymbol
  <2>2. fecSent' = fecSent /\ up' = up
    BY <1>1, <1>5 DEF get_symbol, GetSymbol, ChunkSymbol
  <2>3. ~MaxPacketsReached(e)
    BY <1>5 DEF GetSymbolThrows
  <2>4. /\ GoodEncoder(encoder) /\ encoder.count > 0
        /\ encoder.added = e.added + 1
        /\ encoder.nextColumnExpected = e.nextColumnExpected
    BY <1>2, <2>3, AddResult
  <2>5. index \in 0 .. FecDenominator
    BY <1>1
  <2>6. RatioInv(index, f, Sent + 1, fecSent)
    BY <1>1, <1>2, <1>5, ChunkKeepsRatio
  <2>7. pending \in Seq(1 .. MaxChunks)
    <3>1. stream.pending \in Seq(1 .. MaxChunks) /\ stream.pending # <<>>
      BY <1>5, StreamType DEF get_symbol, HasSymbol, IInv
    <3>2. ASSUME NEW S, NEW q \in Seq(S), q # <<>> PROVE Tail(q) \in Seq(S)
      BY <3>2
    <3> QED  BY <3>1, <3>2
  <2>8. next \in Column
    <3>1. e.nextColumn \in Int /\ 1 \in Int
      BY <1>1 DEF SiameseEncoders, Column
    <3> QED  BY <3>1, ColumnOfSum
  <2> HIDE DEF encoder, pending, next, index
  <2>9. /\ stream' \in Streams /\ stream'.encoder = encoder
        /\ stream'.receiverExpects = stream.receiverExpects
        /\ stream'.chunkIndex1 = index /\ stream'.fecIndex = f
    BY <1>1, <2>1, <2>4, <2>5, <2>7, <2>8 DEF GoodEncoder, Streams
  <2>10. TypeOK' /\ Sent' = Sent + 1
    BY <1>1, <2>2, <2>4, <2>9 DEF TypeOK, Streams, Sent
  <2> QED  BY <2>2, <2>4, <2>6, <2>9, <2>10 DEF IInv
<1> QED  BY <1>3, <1>4, <1>5

(***************************************************************************)
(* process_ack may empty the window: no recovery symbol is due then, since *)
(* it is called only when has_data is false.                               *)
(***************************************************************************)
LEMMA ProcessAckKeepsIInv ==
  ASSUME IInv, process_ack
  PROVE  IInv'
<1>1. PICK n \in 0 .. Sent : stream' = ProcessAck(stream, n % ColumnPeriod)
  BY DEF process_ack
<1>2. stream \in Streams /\ Sent \in Nat
  BY StreamType DEF IInv
<1>3. n % ColumnPeriod \in Column
  BY <1>2 DEF Column
<1> DEFINE acked == Acknowledge(stream.encoder, n % ColumnPeriod)
<1>4. GoodEncoder(acked) /\ acked.added = stream.encoder.added
  BY <1>3, AcknowledgeResult DEF IInv
<1>5. stream' = [stream EXCEPT !.encoder         = acked,
                               !.receiverExpects = acked.nextColumnExpected]
  BY <1>1 DEF ProcessAck
<1> HIDE DEF acked
<1>6. acked \in SiameseEncoders /\ acked.nextColumnExpected \in Column
  BY <1>4 DEF GoodEncoder, SiameseEncoders
<1>7. /\ stream' \in Streams /\ stream'.encoder = acked
      /\ stream'.receiverExpects = acked.nextColumnExpected
      /\ stream'.chunkIndex1 = stream.chunkIndex1
      /\ stream'.fecIndex = stream.fecIndex
  BY <1>2, <1>5, <1>6 DEF Streams
<1>8. UNCHANGED <<up, fecSent>> /\ ~IsNextSymbolFec(stream)
  BY DEF process_ack, HasSymbol
<1>9. TypeOK' /\ Sent' = Sent /\ ~IsNextSymbolFec(stream')
  BY <1>4, <1>7, <1>8 DEF IInv, TypeOK, Streams, Sent, IsNextSymbolFec
<1> QED  BY <1>4, <1>7, <1>8, <1>9 DEF IInv

(***************************************************************************)
(* Every operation keeps the invariant.                                    *)
(***************************************************************************)
LEMMA NextKeepsIInv ==
  ASSUME IInv, [Next]_vars
  PROVE  IInv'
<1>1. CASE queue_chunk
  BY <1>1, QueueChunkKeepsIInv
<1>2. CASE get_symbol
  BY <1>2, GetSymbolKeepsIInv
<1>3. CASE process_ack
  BY <1>3, ProcessAckKeepsIInv
<1>4. CASE UNCHANGED vars
  BY <1>4 DEF vars, IInv, TypeOK, Sent
<1> QED  BY <1>1, <1>2, <1>3, <1>4 DEF Next

(***************************************************************************)
(* The types of the encoder (fec.hpp, stream.hpp); its window ends at the  *)
(* next column and holds something unacknowledged unless it is empty       *)
(* (SiameseEncoder.h:220); the ENFORCE of siamese_encode in                *)
(* generate_fec_symbol never throws; and FEC_RATIO is kept to the chunk    *)
(* (stream.hpp:171-172). No bound on columns is needed: it holds across    *)
(* every wrap around.                                                      *)
(***************************************************************************)
THEOREM EncoderIsCorrect ==
  Spec => [](TypeOK /\ WindowInShape /\ FecNeverThrows /\ FecRatioKept)
<1>1. Init => IInv
  BY InitEstablishesIInv
<1>2. IInv /\ [Next]_vars => IInv'
  BY NextKeepsIInv
<1>3. IInv => TypeOK /\ WindowInShape /\ FecNeverThrows /\ FecRatioKept
  <2> SUFFICES ASSUME IInv
               PROVE  TypeOK /\ WindowInShape /\ FecNeverThrows /\ FecRatioKept
    OBVIOUS
  <2>1. TypeOK /\ WindowInShape
    BY DEF IInv, GoodEncoder, WindowInShape
  <2>2. FecNeverThrows
    BY StreamType DEF IInv, FecNeverThrows, EncodeNeedsMoreData, SiameseEncoders
  <2>3. FecRatioKept
    <3> SUFFICES ASSUME ~HasSymbol(stream)
                 PROVE  fecSent = (Sent * FecNumerator) \div FecDenominator
      BY DEF FecRatioKept
    <3>1. ~IsNext(stream.chunkIndex1, stream.fecIndex)
      BY DEF HasSymbol, IsNextSymbolFec, IsNext
    <3>2. RatioInv(stream.chunkIndex1, stream.fecIndex, Sent, fecSent)
      BY DEF IInv
    <3>3. /\ stream.chunkIndex1 \in 0 .. FecDenominator
          /\ stream.fecIndex \in 0 .. FecNumerator - 1
          /\ Sent \in Nat /\ fecSent \in Nat
      BY StreamType DEF IInv
    <3> QED  BY <3>1, <3>2, <3>3, RatioIsExact
  <2> QED  BY <2>1, <2>2, <2>3
<1> QED  BY <1>1, <1>2, <1>3, PTL DEF Spec

-----------------------------------------------------------------------------
(* What the window protects                                                *)

\* Half a period tells old columns from new ones.
ColumnsSuffice ==
  /\ MaxPackets < ColumnPeriod \div 2
  /\ MaxAckLag =< ColumnPeriod \div 2

AckInv == IInv /\ AckIsExact(stream.encoder)

(***************************************************************************)
(* Every operation keeps it so.                                            *)
(***************************************************************************)
LEMMA NextKeepsAckInv ==
  ASSUME ColumnsSuffice, AckInv, [Next]_vars
  PROVE  AckInv'
<1> DEFINE e == stream.encoder
<1>1. IInv /\ IInv' /\ GoodEncoder(e) /\ AckIsExact(e) /\ stream \in Streams
      /\ e.added \in Nat /\ Unacked(e) \in Int
  <2>1. IInv /\ GoodEncoder(e) /\ AckIsExact(e)
    BY DEF AckInv, IInv
  <2>2. IInv'
    BY <2>1, NextKeepsIInv
  <2>3. stream \in Streams
    BY <2>1, StreamType DEF IInv
  <2>4. e.added \in Nat /\ Unacked(e) \in Int
    BY <2>1, UnackedType
  <2> QED  BY <2>1, <2>2, <2>3, <2>4
<1>2. ASSUME NEW f, f.nextColumnExpected = e.nextColumnExpected,
             f.added - Unacked(f) = e.added - Unacked(e)
      PROVE  AckIsExact(f)
  BY <1>1, <1>2, Zenon DEF AckIsExact
<1>3. CASE queue_chunk
  <2>1. stream'.encoder = e
    BY <1>1, <1>3 DEF queue_chunk, QueueChunk, Streams
  <2> QED  BY <1>1, <2>1 DEF AckInv
<1>4. CASE get_symbol
  <2>1. CASE GetSymbolThrows(stream)
    BY <1>1, <1>4, <2>1 DEF AckInv, get_symbol
  <2>2. CASE ~GetSymbolThrows(stream) /\ IsNextSymbolFec(stream)
    <3> DEFINE encoder == Encode(e).encoder
               index   == (stream.fecIndex + 1) % FecNumerator
    <3>1. stream' = [stream EXCEPT !.fecIndex = index, !.encoder = encoder]
      BY <1>4, <2>2 DEF get_symbol, GetSymbol, FecSymbol
    <3>2. /\ encoder.added = e.added
          /\ encoder.nextColumnExpected = e.nextColumnExpected
          /\ Unacked(encoder) = Unacked(e)
      BY <1>1, <2>2, EncodeResult DEF GetSymbolThrows
    <3> HIDE DEF encoder, index
    <3>3. stream'.encoder = encoder
      BY <1>1, <3>1 DEF Streams
    <3>4. AckIsExact(encoder)
      BY <1>1, <3>2 DEF AckIsExact
    <3> QED  BY <1>1, <3>3, <3>4 DEF AckInv
  <2>3. CASE ~GetSymbolThrows(stream) /\ ~IsNextSymbolFec(stream)
    <3> DEFINE encoder == EncoderAdd(e)
               pending == Tail(stream.pending)
               next    == AddColumns(e.nextColumn, 1)
               index   == (stream.chunkIndex1 % FecDenominator) + 1
    <3>1. stream' = [stream EXCEPT !.pending     = pending,
                                   !.encoder     = encoder,
                                   !.nextIndex   = next,
                                   !.chunkIndex1 = index]
      BY <1>4, <2>3 DEF get_symbol, GetSymbol, ChunkSymbol
    <3>2. /\ encoder.added = e.added + 1
          /\ encoder.nextColumnExpected = e.nextColumnExpected
          /\ Unacked(encoder) = Unacked(e) + 1
      BY <1>1, <2>3, AddResult DEF GetSymbolThrows
    <3> HIDE DEF encoder, pending, next, index
    <3>3. stream'.encoder = encoder
      BY <1>1, <3>1 DEF Streams
    <3>4. encoder.added - Unacked(encoder) = e.added - Unacked(e)
      BY <1>1, <3>2
    <3>5. AckIsExact(encoder)
      BY <1>1, <3>2, <3>4 DEF AckIsExact
    <3> QED  BY <1>1, <3>3, <3>5 DEF AckInv
  <2> QED  BY <2>1, <2>2, <2>3
<1>5. CASE process_ack
  <2>1. PICK n \in 0 .. Sent :
          /\ Sent - n =< MaxAckLag
          /\ stream' = ProcessAck(stream, n % ColumnPeriod)
    BY <1>5 DEF process_ack
  <2> DEFINE acked == Acknowledge(e, n % ColumnPeriod)
  <2>2. AckIsExact(acked)
    <3>1. /\ MaxPackets < ColumnPeriod \div 2
          /\ e.added - n =< ColumnPeriod \div 2
      <4>1. e.added \in Nat /\ n \in Nat
        BY <1>1 DEF Sent
      <4> QED  BY <2>1, <4>1, StreamEncoderAssumption
               DEF ColumnsSuffice, Sent
    <3> QED  BY <1>1, <2>1, <3>1, AckStaysExact DEF Sent
  <2>3. stream' = [stream EXCEPT !.encoder         = acked,
                                 !.receiverExpects = acked.nextColumnExpected]
    BY <2>1 DEF ProcessAck
  <2> HIDE DEF acked
  <2>4. stream'.encoder = acked
    BY <1>1, <2>3 DEF Streams
  <2> QED  BY <1>1, <2>2, <2>4 DEF AckInv
<1>6. CASE UNCHANGED vars
  BY <1>1, <1>6 DEF AckInv, vars
<1> QED  BY <1>3, <1>4, <1>5, <1>6 DEF Next

(***************************************************************************)
(* The window protects exactly what the newest acknowledgement leaves open *)
(* (stream.hpp:153-165, SiameseEncoder.h:213-262), as long as half the     *)
(* period of columns (0x400000 in the code) exceeds the packets of a       *)
(* window and the packets an acknowledgement may lag behind.               *)
(***************************************************************************)
THEOREM WindowIsExact ==
  ASSUME ColumnsSuffice
  PROVE  Spec => []UnackedIsProtected
<1>1. Init => AckInv
  <2> SUFFICES ASSUME Init PROVE AckInv
    OBVIOUS
  <2>1. /\ stream.encoder.nextColumnExpected = 0 /\ stream.encoder.added = 0
        /\ stream.encoder.count = 0
    BY DEF Init, StreamEncoderInit, EncoderInit
  <2>2. 0 % ColumnPeriod = 0
    OBVIOUS
  <2> QED  BY <2>1, <2>2, InitEstablishesIInv DEF AckInv, AckIsExact, Unacked
<1>2. AckInv /\ [Next]_vars => AckInv'
  BY NextKeepsAckInv
<1>3. AckInv => UnackedIsProtected
  <2> DEFINE e == stream.encoder
  <2> SUFFICES ASSUME AckInv PROVE UnackedIsProtected
    OBVIOUS
  <2>1. /\ GoodEncoder(e) /\ stream.receiverExpects = e.nextColumnExpected
        /\ e.nextColumnExpected = (e.added - Unacked(e)) % ColumnPeriod
    BY DEF AckInv, IInv, AckIsExact
  <2>2. e.count \in Nat /\ e.added \in Nat /\ e.firstUnremoved \in Nat
        /\ e.columnStart \in Int
    BY <2>1, UnackedType
  <2>3. CASE e.count = 0
    <3>1. e.added - Unacked(e) = e.added
      BY <2>2, <2>3 DEF Unacked
    <3>2. e.nextColumn = e.added % ColumnPeriod
      BY <2>1 DEF GoodEncoder
    <3> QED  BY <2>1, <2>3, <3>1, <3>2 DEF UnackedIsProtected
  <2>4. CASE e.count # 0
    <3> DEFINE d == e.count - e.firstUnremoved
    <3>1. Unacked(e) = d /\ d \in Int /\ e.count > 0
          /\ e.count - d = e.firstUnremoved
      BY <2>2, <2>4 DEF Unacked
    <3> HIDE DEF d
    <3>2. (e.columnStart + (e.count - d)) % ColumnPeriod
            = (e.added - d) % ColumnPeriod
      BY <2>1, <3>1, WindowEndsAtAdded
    <3> QED  BY <2>1, <2>4, <3>1, <3>2 DEF UnackedIsProtected, AddColumns
  <2> QED  BY <2>3, <2>4
<1> QED  BY <1>1, <1>2, <1>3, PTL DEF Spec
=============================================================================
