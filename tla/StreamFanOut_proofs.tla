------------------------- MODULE StreamFanOut_proofs ------------------------
(***************************************************************************)
(* What is proved of StreamFanOut.                                         *)
(*                                                                         *)
(* For every number of subscribers, every geometry of the windows and of   *)
(* the lanes, every FEC ratio, and every loss, repetition and overtaking   *)
(* in the network: the types; that the cached region of losses of a        *)
(* decoder is always fresh; and that to every subscriber the nodes         *)
(* implement ChunkFifo.  The one condition is that the stream is no longer *)
(* than half the period of column numbers.                                 *)
(*                                                                         *)
(* When the node has one subscriber, as in a chain of nodes: that it       *)
(* protects every chunk the subscriber lacks, that the subscriber recovers *)
(* as soon as it can and, when the network repeats nothing, that it holds  *)
(* back no chunk it has acknowledged.  Losses, overtaking and late         *)
(* acknowledgements are unbounded, and so are the geometries of the        *)
(* windows.  This part, from "One subscriber" on, rests on one fact about  *)
(* time: as nobody else acknowledges, every recovery packet in flight      *)
(* starts no later than the column the subscriber waits for.  From it      *)
(* follows that a decoder holds only packets which protect that column     *)
(* (Timely), so that the losses in front of a packet can be counted from   *)
(* there; that the search for a region to recover passes none over         *)
(* (CheckedIsMinimal, Settled); and that the decoder only moves forward    *)
(* (Onward).                                                               *)
(***************************************************************************)
EXTENDS StreamFanOut, StreamNode_proofs

-----------------------------------------------------------------------------
(* The invariant                                                           *)

\* Half a period tells old columns from new ones, over the whole stream.
ColumnsSuffice == MaxChunks =< ColumnPeriod \div 2

(***************************************************************************)
(* Order at a subscriber takes that its two layers are good for the chunks *)
(* sent so far, that what is in flight to it says nothing but the truth    *)
(* about them, and that its buffer expects the chunk after those           *)
(* delivered.                                                              *)
(***************************************************************************)
InOrder(d) == \A i \in 1 .. Len(d) : d[i] = i

SubscriberInv(s) ==
  /\ GoodNode(node[s], Sent)
  /\ net[s] \in Seq(SentSymbols(Sent))
  /\ delivered[s] \in Seq(1 .. Sent)
  /\ InOrder(delivered[s])
  /\ node[s].decoder.buffer.next = Len(delivered[s])

ForwarderInv ==
  /\ subscribed \subseteq Subscriber
  /\ up \in BOOLEAN
  /\ Sent =< MaxChunks
  /\ GoodForwarder(encoder, Sent)
  /\ acks \subseteq Column

PerSubscriber ==
  /\ net = [s \in Subscriber |-> net[s]]
  /\ node = [s \in Subscriber |-> node[s]]
  /\ alive \in [Subscriber -> BOOLEAN]
  /\ delivered = [s \in Subscriber |-> delivered[s]]

IInv == ForwarderInv /\ PerSubscriber /\ \A s \in Subscriber : SubscriberInv(s)

(***************************************************************************)
(* The model names what its network carries.                               *)
(***************************************************************************)
LEMMA SentAreSymbols ==
  ASSUME NEW K \in Nat, K =< MaxChunks
  PROVE  SentSymbols(K) \subseteq Symbols
<1> SUFFICES ASSUME NEW y \in SentSymbols(K) PROVE y \in Symbols
  OBVIOUS
<1>1. y \in AllSymbols /\ GoodSymbol(y, K) /\ MaxChunks \in Nat
  BY StreamFanOutAssumption DEF SentSymbols
<1>2. CASE y \in [fec : {FALSE}, index : Column, chunk : Nat]
  <2>1. y = [fec |-> FALSE, index |-> y.index, chunk |-> y.chunk]
        /\ y.index \in Column /\ y.fec = FALSE
    BY <1>2
  <2>2. y.index \in 0 .. K - 1 /\ y.chunk = y.index + 1
    BY <1>1, <2>1 DEF GoodSymbol
  <2>3. y.chunk \in 1 .. MaxChunks
    BY <1>1, <2>2
  <2>4. \A i \in Column, c \in 1 .. MaxChunks :
          [fec |-> FALSE, index |-> i, chunk |-> c] \in Symbols
    BY Zenon DEF Symbols
  <2> QED  BY <2>1, <2>3, <2>4
<1>3. CASE y \in [fec : {TRUE}, packet : [columnStart : Column,
                    sumCount : 1 .. MaxPackets, row : Nat, first : Int]]
  <2> DEFINE p == y.packet
  <2>1. y = [fec |-> TRUE, packet |-> p] /\ y.fec = TRUE
        /\ p \in [columnStart : Column, sumCount : 1 .. MaxPackets,
                  row : Nat, first : Int]
    BY <1>3
  <2>2. GoodPacket(p, K)
    BY <1>1, <2>1 DEF GoodSymbol
  <2>3. p.first \in Nat
    BY <2>2 DEF GoodPacket
  <2>4. p \in RecoveryPackets
    BY <2>1, <2>3 DEF RecoveryPackets
  <2>5. \A q \in RecoveryPackets : [fec |-> TRUE, packet |-> q] \in Symbols
    BY Zenon DEF Symbols
  <2> QED  BY <2>1, <2>4, <2>5
<1> QED  BY <1>1, <1>2, <1>3 DEF AllSymbols

(***************************************************************************)
(* The ranges of what the invariant counts.                                *)
(***************************************************************************)
LEMMA SentType ==
  ASSUME ForwarderInv
  PROVE  /\ Sent \in Nat /\ Sent =< MaxChunks /\ MaxChunks \in Nat
         /\ encoder \in GoodSegments /\ GoodEncoder(encoder.encoder)
<1>1. encoder \in GoodSegments
  BY DEF ForwarderInv, GoodForwarder
<1>2. encoder.encoder.added \in Nat /\ GoodEncoder(encoder.encoder)
  BY <1>1, SegmentType
<1> QED  BY <1>1, <1>2, StreamFanOutAssumption DEF ForwarderInv, Sent

(***************************************************************************)
(* The invariant holds before the first chunk, and to every subscriber     *)
(* nothing is delivered.                                                   *)
(***************************************************************************)
LEMMA InitEstablishesIInv ==
  Init => IInv /\ \A s \in Subscriber : Fifo(s)!Init
<1> SUFFICES ASSUME Init PROVE IInv /\ \A s \in Subscriber : Fifo(s)!Init
  OBVIOUS
<1>1. /\ subscribed = EarlySubscriber /\ encoder = StreamEncoderInit
         /\ up = TRUE
      /\ net = [s \in Subscriber |-> <<>>] /\ acks = {}
      /\ node = [s \in Subscriber |-> ContinuousStreamInit]
      /\ alive = [s \in Subscriber |-> TRUE]
      /\ delivered = [s \in Subscriber |-> <<>>]
  BY DEF Init
<1>2. Sent = 0
  BY <1>1, InitialSegment DEF Sent
<1>3. ForwarderInv
  BY <1>1, <1>2, InitialSegment, StreamFanOutAssumption DEF ForwarderInv
<1>4. PerSubscriber
  BY <1>1 DEF PerSubscriber
<1>5. ASSUME NEW s \in Subscriber PROVE SubscriberInv(s) /\ Fifo(s)!Init
  <2>1. /\ net[s] = <<>> /\ node[s] = ContinuousStreamInit
        /\ delivered[s] = <<>>
    BY <1>1
  <2>2. <<>> \in Seq(SentSymbols(Sent)) /\ <<>> \in Seq(1 .. Sent)
        /\ Len(<<>>) = 0
    BY EmptySeq
  <2>3. GoodNode(node[s], Sent) /\ node[s].decoder.buffer.next = 0
    BY <1>2, <2>1, InitialNode
  <2>4. SubscriberInv(s)
    BY <2>1, <2>2, <2>3 DEF SubscriberInv, InOrder
  <2>5. Fifo(s)!Init
    BY <1>2, <2>1 DEF Fifo!Init
  <2> QED  BY <2>4, <2>5
<1> QED  BY <1>3, <1>4, <1>5 DEF IInv

\* A step as every subscriber sees it.
FifoStep == \A s \in Subscriber : [Fifo(s)!Next]_<<Sent, delivered[s]>>

(***************************************************************************)
(* A step in which nothing is delivered sends chunks, or none.             *)
(***************************************************************************)
LEMMA NothingDelivered ==
  ASSUME ForwarderInv, Sent' >= Sent, UNCHANGED delivered
  PROVE  FifoStep
<1>1. ASSUME NEW s \in Subscriber PROVE Fifo(s)!Next
  <2>1. delivered'[s] = delivered[s]
    OBVIOUS
  <2> QED  BY <2>1 DEF Fifo!Next, Fifo!Send
<1> QED  BY <1>1 DEF FifoStep

(***************************************************************************)
(* The network may lose packets and deliver them twice.                    *)
(***************************************************************************)
LEMMA NetworkKeepsIInv ==
  ASSUME IInv, NEW s \in Subscriber, Lose(s) \/ Duplicate(s)
  PROVE  IInv' /\ FifoStep
<1>1. ForwarderInv /\ PerSubscriber /\ \A t \in Subscriber : SubscriberInv(t)
  BY DEF IInv
<1>2. /\ UNCHANGED <<subscribed, encoder, up, acks, node, alive, delivered>>
      /\ net[s] # <<>>
      /\ \/ net' = [net EXCEPT ![s] = Tail(@)]
         \/ net' = [net EXCEPT ![s] = <<Head(@)>> \o @]
  BY DEF Lose, Duplicate, forwarder, subscriber
<1>3. Sent' = Sent /\ Sent \in Nat
  BY <1>1, <1>2, SentType DEF Sent
<1>4. net[s] \in Seq(SentSymbols(Sent))
  BY <1>1 DEF SubscriberInv
<1> DEFINE q == net'[s]
<1>5. /\ net' = [net EXCEPT ![s] = q]
      /\ q \in Seq(SentSymbols(Sent))
  <2>1. Tail(net[s]) \in Seq(SentSymbols(Sent))
        /\ <<Head(net[s])>> \o net[s] \in Seq(SentSymbols(Sent))
    BY <1>2, <1>4, InFlightResult
  <2>2. q = Tail(net[s]) \/ q = <<Head(net[s])>> \o net[s]
    BY <1>1, <1>2 DEF PerSubscriber
  <2>3. net' = [net EXCEPT ![s] = q]
    BY <1>1, <1>2 DEF PerSubscriber
  <2> QED  BY <2>1, <2>2, <2>3
<1> HIDE DEF q
<1>6. ForwarderInv'
  BY <1>1, <1>2, <1>3 DEF ForwarderInv
<1>7. PerSubscriber'
  BY <1>1, <1>2, <1>5 DEF PerSubscriber
<1>8. ASSUME NEW t \in Subscriber PROVE SubscriberInv(t)'
  <2>1. net'[t] \in Seq(SentSymbols(Sent))
    BY <1>1, <1>5 DEF PerSubscriber, SubscriberInv
  <2> QED  BY <1>1, <1>2, <1>3, <2>1 DEF SubscriberInv
<1>9. FifoStep
  BY <1>1, <1>2, <1>3, NothingDelivered
<1> QED  BY <1>6, <1>7, <1>8, <1>9 DEF IInv

(***************************************************************************)
(* A new subscriber starts with an empty decoder, as it always had.        *)
(***************************************************************************)
LEMMA SubscribeKeepsIInv ==
  ASSUME IInv, NEW s \in Subscriber, Subscribe(s)
  PROVE  IInv' /\ FifoStep
<1>1. ForwarderInv /\ PerSubscriber /\ \A t \in Subscriber : SubscriberInv(t)
  BY DEF IInv
<1>2. /\ UNCHANGED <<encoder, up, net, acks, node, alive, delivered>>
      /\ subscribed' = subscribed \cup {s}
  BY DEF Subscribe, subscriber
<1>3. Sent' = Sent /\ Sent \in Nat
  BY <1>1, <1>2, SentType DEF Sent
<1>4. ForwarderInv'
  BY <1>1, <1>2, <1>3 DEF ForwarderInv
<1>5. PerSubscriber' /\ \A t \in Subscriber : SubscriberInv(t)'
  BY <1>1, <1>2, <1>3 DEF PerSubscriber, SubscriberInv
<1>6. FifoStep
  BY <1>1, <1>2, <1>3, NothingDelivered
<1> QED  BY <1>4, <1>5, <1>6 DEF IInv

(***************************************************************************)
(* An acknowledgement only moves the window of the encoder.                *)
(***************************************************************************)
LEMMA AckKeepsIInv ==
  ASSUME IInv, HandleStreamAck
  PROVE  IInv' /\ FifoStep
<1>1. ForwarderInv /\ PerSubscriber /\ \A t \in Subscriber : SubscriberInv(t)
  BY DEF IInv
<1>2. UNCHANGED <<subscribed, up, net, acks, node, alive, delivered>>
  BY DEF HandleStreamAck, subscriber
<1>3. PICK expected \in acks : encoder' = ProcessAck(encoder, expected)
  BY DEF HandleStreamAck
<1>4. /\ encoder \in Segments /\ GoodEncoder(encoder.encoder)
      /\ Sent \in Nat /\ expected \in Column /\ Idle(encoder)
      /\ encoder.encoder.added = Sent /\ Unacked(encoder.encoder) =< Sent
  BY <1>1, <1>3, SentType, SegmentType DEF ForwarderInv, GoodForwarder
<1> DEFINE e == encoder.encoder
           f == Acknowledge(e, expected)
           expects == f.nextColumnExpected
<1>5. GoodEncoder(f) /\ f.added = e.added /\ Unacked(f) =< Unacked(e)
  BY <1>4, AcknowledgeResult
<1>6. f \in SiameseEncoders /\ expects \in Column
  BY <1>5 DEF GoodEncoder, SiameseEncoders
<1>7. Unacked(f) \in Int /\ Unacked(e) \in Int
  BY <1>4, <1>5, UnackedType
<1>8. encoder' = [encoder EXCEPT !.encoder = f, !.receiverExpects = expects]
  BY <1>3 DEF ProcessAck
<1> HIDE DEF f, expects
<1>9. /\ encoder' \in Segments /\ encoder'.encoder = f
      /\ encoder'.pending = encoder.pending
      /\ encoder'.chunkIndex1 = encoder.chunkIndex1
      /\ encoder'.fecIndex = encoder.fecIndex
  BY <1>4, <1>6, <1>8 DEF Segments
<1>10. Sent' = Sent
  BY <1>4, <1>5, <1>9 DEF Sent
<1>11. Idle(encoder')
  BY <1>4, <1>9 DEF Idle, IsNextSymbolFec
<1>12. GoodForwarder(encoder', Sent)
  <2>1. Unacked(f) =< Sent /\ f.added = Sent
    BY <1>4, <1>5, <1>7
  <2> QED  BY <1>5, <1>9, <1>11, <2>1 DEF GoodForwarder, GoodSegments
<1>13. ForwarderInv'
  BY <1>1, <1>2, <1>10, <1>12 DEF ForwarderInv
<1>14. PerSubscriber' /\ \A t \in Subscriber : SubscriberInv(t)'
  BY <1>1, <1>2, <1>10 DEF PerSubscriber, SubscriberInv
<1>15. FifoStep
  BY <1>1, <1>2, <1>4, <1>10, NothingDelivered
<1> QED  BY <1>13, <1>14, <1>15 DEF IInv

(***************************************************************************)
(* Forwarding a chunk sends it, to those subscribed, or ends the node.     *)
(***************************************************************************)
LEMMA ForwardKeepsIInv ==
  ASSUME ColumnsSuffice, IInv, Forward
  PROVE  IInv' /\ FifoStep
<1>1. ForwarderInv /\ PerSubscriber /\ \A t \in Subscriber : SubscriberInv(t)
  BY DEF IInv
<1>2. /\ UNCHANGED <<subscribed, acks, node, alive, delivered>>
      /\ Sent \in Nat /\ Sent < MaxChunks /\ MaxChunks \in Nat
  BY <1>1, SentType DEF Forward, subscriber
<1> DEFINE encoded == EncodeChunks(encoder, <<Sent + 1>>)
           n == Sent + 1
<1>3. \/ encoded.threw /\ up' = FALSE /\ UNCHANGED <<encoder, net>>
      \/ /\ ~encoded.threw
         /\ encoder' = encoded.stream
         /\ net' = [s \in Subscriber |->
                      IF s \in subscribed THEN net[s] \o encoded.symbols
                                          ELSE net[s]]
         /\ UNCHANGED up
  BY DEF Forward
<1>4. n \in Nat /\ n =< MaxChunks /\ Sent =< n /\ n < ColumnPeriod
  BY <1>2, ColumnPeriodAssumption DEF ColumnsSuffice
<1>5. /\ encoded.threw \in BOOLEAN
      /\ ~encoded.threw => /\ GoodForwarder(encoded.stream, n)
                           /\ encoded.symbols \in Seq(SentSymbols(n))
  <2>1. GoodForwarder(encoder, Sent)
    BY <1>1 DEF ForwarderInv
  <2> QED  BY <1>2, <1>4, <2>1, EncodeChunkResult
<1> HIDE DEF encoded
<1>6. CASE up' = FALSE /\ UNCHANGED <<encoder, net>>
  <2>1. Sent' = Sent
    BY <1>6 DEF Sent
  <2>2. ForwarderInv'
    BY <1>1, <1>2, <1>6, <2>1 DEF ForwarderInv
  <2>3. PerSubscriber' /\ \A t \in Subscriber : SubscriberInv(t)'
    BY <1>1, <1>2, <1>6, <2>1 DEF PerSubscriber, SubscriberInv
  <2>4. FifoStep
    BY <1>1, <1>2, <2>1, NothingDelivered
  <2> QED  BY <2>2, <2>3, <2>4 DEF IInv
<1>7. CASE /\ ~encoded.threw
           /\ encoder' = encoded.stream
           /\ net' = [s \in Subscriber |->
                        IF s \in subscribed THEN net[s] \o encoded.symbols
                                            ELSE net[s]]
           /\ UNCHANGED up
  <2>1. GoodForwarder(encoder', n) /\ encoded.symbols \in Seq(SentSymbols(n))
    BY <1>5, <1>7
  <2>2. Sent' = n
    BY <2>1 DEF GoodForwarder, Sent
  <2> HIDE DEF n
  <2>3. ForwarderInv'
    BY <1>1, <1>2, <1>4, <1>7, <2>1, <2>2 DEF ForwarderInv
  <2>4. PerSubscriber'
    BY <1>1, <1>2, <1>7 DEF PerSubscriber
  <2>5. ASSUME NEW t \in Subscriber PROVE SubscriberInv(t)'
    <3>1. /\ GoodNode(node[t], Sent) /\ net[t] \in Seq(SentSymbols(Sent))
          /\ delivered[t] \in Seq(1 .. Sent) /\ InOrder(delivered[t])
          /\ node[t].decoder.buffer.next = Len(delivered[t])
      BY <1>1 DEF SubscriberInv
    <3>2. GoodNode(node[t], n)
      BY <1>2, <1>4, <3>1, MoreSentToNode
    <3>3. net[t] \in Seq(SentSymbols(n))
      BY <1>2, <1>4, <3>1, MoreSentSymbols
    <3>4. net[t] \o encoded.symbols \in Seq(SentSymbols(n))
      BY <2>1, <3>3, ConcatProperties
    <3>5. net'[t] \in Seq(SentSymbols(n))
      BY <1>7, <3>3, <3>4
    <3>6. delivered[t] \in Seq(1 .. n)
      <4>1. 1 .. Sent \subseteq 1 .. n
        BY <1>2, <1>4
      <4> QED  BY <3>1, <4>1, SeqMonotonic
    <3> QED  BY <1>2, <2>2, <3>1, <3>2, <3>5, <3>6 DEF SubscriberInv
  <2>6. FifoStep
    BY <1>1, <1>2, <1>4, <2>2, NothingDelivered
  <2> QED  BY <2>3, <2>4, <2>5, <2>6 DEF IInv
<1> QED  BY <1>3, <1>6, <1>7

(***************************************************************************)
(* A subscriber delivers the next of the chunks sent.                      *)
(***************************************************************************)
LEMMA ReceiveKeepsIInv ==
  ASSUME ColumnsSuffice, IInv, NEW s \in Subscriber,
         NEW i \in 1 .. Len(net[s]), NEW lucky \in BOOLEAN,
         Receive(s, i, lucky)
  PROVE  IInv' /\ FifoStep
<1> DEFINE m == node[s]
           y == net[s][i]
           q == RemoveAt(net[s], i)
           h == HandleStream(m, y, lucky)
           done == delivered[s]
<1>1. ForwarderInv /\ PerSubscriber /\ \A t \in Subscriber : SubscriberInv(t)
  BY DEF IInv
<1>2. /\ UNCHANGED <<subscribed, encoder, up>>
      /\ net' = [net EXCEPT ![s] = q]
      /\ alive' = [alive EXCEPT ![s] = ~h.threw]
      /\ node' = [node EXCEPT ![s] = h.node]
      /\ delivered' = [delivered EXCEPT ![s] = done \o h.chunks]
      /\ acks' = acks \cup h.acks
  BY DEF Receive, forwarder
<1>3. Sent' = Sent /\ Sent \in Nat /\ Sent =< ColumnPeriod \div 2
  BY <1>1, <1>2, SentType, ColumnPeriodAssumption DEF Sent, ColumnsSuffice
<1>4. /\ GoodNode(m, Sent) /\ net[s] \in Seq(SentSymbols(Sent))
      /\ done \in Seq(1 .. Sent) /\ InOrder(done)
      /\ m.decoder.buffer.next = Len(done)
  BY <1>1 DEF SubscriberInv
<1>5. y \in SentSymbols(Sent) /\ q \in Seq(SentSymbols(Sent))
  BY <1>4, InFlightResult
<1>6. GoodSymbol(y, Sent)
  BY <1>5 DEF SentSymbols
<1> DEFINE next == Len(done)
<1>7. /\ h.threw \in BOOLEAN
      /\ h.acks \in SUBSET Column
      /\ GoodNode(h.node, Sent)
      /\ Delivers(h, next, Sent)
  <2> HIDE DEF m, y
  <2>1. /\ h.threw \in BOOLEAN
        /\ h.acks \in SUBSET Column
        /\ GoodNode(h.node, Sent)
        /\ Delivers(h, m.decoder.buffer.next, Sent)
    BY <1>3, <1>4, <1>6, HandleStreamResult
  <2> HIDE DEF h
  <2> QED  BY <1>4, <2>1
<1> HIDE DEF h, y, q
<1>8. PICK n \in Nat :
        /\ next + n =< Sent
        /\ h.chunks = [j \in 1 .. n |-> next + j]
        /\ h.node.decoder.buffer.next = next + n
  BY <1>7 DEF Delivers
<1> DEFINE all == done \o [j \in 1 .. n |-> next + j]
<1>9. /\ all \in Seq(1 .. Sent)
      /\ Len(all) = next + n
      /\ InOrder(all)
  <2>1. LET whole == done \o [j \in 1 .. n |-> Len(done) + j]
        IN  /\ whole \in Seq(1 .. Sent)
            /\ Len(whole) = Len(done) + n
            /\ \A k \in 1 .. Len(whole) : whole[k] = k
    <3>1. /\ Sent \in Nat /\ done \in Seq(1 .. Sent)
          /\ (\A k \in 1 .. Len(done) : done[k] = k)
          /\ n \in Nat /\ Len(done) + n =< Sent
      BY <1>3, <1>4, <1>8 DEF InOrder
    <3> DEFINE K == Sent
    <3>2. K = Sent
      OBVIOUS
    <3> HIDE DEF done, K
    <3>3. /\ K \in Nat /\ done \in Seq(1 .. K)
          /\ (\A k \in 1 .. Len(done) : done[k] = k)
          /\ n \in Nat /\ Len(done) + n =< K
      BY <3>1, <3>2
    <3>4. LET whole == done \o [j \in 1 .. n |-> Len(done) + j]
          IN  /\ whole \in Seq(1 .. K)
              /\ Len(whole) = Len(done) + n
              /\ \A k \in 1 .. Len(whole) : whole[k] = k
      BY <3>3, NextChunksAppended
    <3> QED  BY <3>2, <3>4
  <2> QED  BY <2>1 DEF InOrder
<1>10. /\ net'[s] = q /\ node'[s] = h.node /\ delivered'[s] = all
       /\ \A t \in Subscriber \ {s} :
            /\ net'[t] = net[t] /\ node'[t] = node[t]
            /\ delivered'[t] = delivered[t]
  <2>1. delivered' = [delivered EXCEPT ![s] = all]
    BY <1>2, <1>8
  <2> HIDE DEF all
  <2> QED  BY <1>1, <1>2, <2>1 DEF PerSubscriber
<1>11. ForwarderInv'
  BY <1>1, <1>2, <1>3, <1>7 DEF ForwarderInv
<1>12. PerSubscriber'
  <2>1. (~h.threw) \in BOOLEAN
    BY <1>7
  <2>2. alive' \in [Subscriber -> BOOLEAN]
    BY <1>1, <1>2, <2>1 DEF PerSubscriber
  <2> HIDE DEF all
  <2> QED  BY <1>1, <1>2, <2>2 DEF PerSubscriber
<1>13. ASSUME NEW t \in Subscriber PROVE SubscriberInv(t)'
  <2>1. CASE t = s
    <3> HIDE DEF all
    <3> QED  BY <1>3, <1>5, <1>7, <1>8, <1>9, <1>10, <2>1 DEF SubscriberInv
  <2>2. CASE t # s
    <3>1. SubscriberInv(t) /\ t \in Subscriber \ {s}
      BY <1>1, <2>2
    <3> HIDE DEF all
    <3> QED  BY <1>3, <1>10, <3>1 DEF SubscriberInv
  <2> QED  BY <2>1, <2>2
<1>14. Fifo(s)!Deliver
  <2> DEFINE k == next + n
             l == Len(delivered[s])
  <2>1. l \in Nat /\ k \in l .. Sent /\ k - l = n /\ next = l
    <3>1. l \in Nat /\ next = l
      BY <1>4, LenProperties
    <3> HIDE DEF next, l
    <3> QED  BY <1>3, <1>8, <3>1
  <2>2. delivered'[s] = delivered[s] \o [j \in 1 .. k - l |-> l + j]
    BY <1>10, <2>1
  <2> HIDE DEF k
  <2> QED  BY <1>3, <2>1, <2>2 DEF Fifo!Deliver
<1>15. FifoStep
  <2> SUFFICES ASSUME NEW t \in Subscriber
               PROVE  [Fifo(t)!Next]_<<Sent, delivered[t]>>
    BY DEF FifoStep
  <2>1. CASE t = s
    BY <1>14, <2>1 DEF Fifo!Next
  <2>2. CASE t # s
    BY <1>3, <1>10, <2>2
  <2> QED  BY <2>1, <2>2
<1> QED  BY <1>11, <1>12, <1>13, <1>15 DEF IInv

(***************************************************************************)
(* Every step keeps the invariant, and to every subscriber it is one of    *)
(* ChunkFifo's.                                                            *)
(***************************************************************************)
LEMMA NextKeepsIInv ==
  ASSUME ColumnsSuffice, IInv, [Next]_vars
  PROVE  IInv' /\ FifoStep
<1>1. CASE Forward
  BY <1>1, ForwardKeepsIInv
<1>2. CASE HandleStreamAck
  BY <1>2, AckKeepsIInv
<1>3. ASSUME NEW s \in Subscriber, Subscribe(s)
      PROVE  IInv' /\ FifoStep
  BY <1>3, SubscribeKeepsIInv
<1>4. ASSUME NEW s \in Subscriber, Lose(s) \/ Duplicate(s)
      PROVE  IInv' /\ FifoStep
  BY <1>4, NetworkKeepsIInv
<1>5. ASSUME NEW s \in Subscriber, ReceiveOne(s) \/ ReceiveUnlucky(s)
      PROVE  IInv' /\ FifoStep
  <2>1. PICK i \in 1 .. Len(net[s]), lucky \in BOOLEAN : Receive(s, i, lucky)
    BY <1>5 DEF ReceiveOne, ReceiveUnlucky
  <2> QED  BY <2>1, ReceiveKeepsIInv
<1>6. CASE UNCHANGED vars
  <2>1. /\ UNCHANGED <<subscribed, encoder, up, net, acks,
                        node, alive, delivered>>
        /\ ForwarderInv
    BY <1>6 DEF vars, IInv
  <2>2. Sent' = Sent /\ Sent \in Nat
    BY <2>1, SentType DEF Sent
  <2>3. IInv'
    BY <2>1, <2>2 DEF IInv, ForwarderInv, PerSubscriber, SubscriberInv
  <2>4. FifoStep
    BY <2>1, <2>2, NothingDelivered
  <2> QED  BY <2>3, <2>4
<1> QED  BY <1>1, <1>2, <1>3, <1>4, <1>5, <1>6 DEF Next

-----------------------------------------------------------------------------
(* What is proved of the nodes                                             *)

(***************************************************************************)
(* The types: among them that a packet in flight names chunks of the       *)
(* stream, that what waits in a buffer and what was delivered is of it,    *)
(* and that the encoders of the subscribers keep their window in shape.    *)
(***************************************************************************)
THEOREM TypeCorrect ==
  ASSUME ColumnsSuffice
  PROVE  Spec => []TypeOK
<1>1. Init => IInv
  BY InitEstablishesIInv
<1>2. IInv /\ [Next]_vars => IInv'
  BY NextKeepsIInv
<1>3. IInv => TypeOK
  <2> SUFFICES ASSUME IInv PROVE TypeOK
    OBVIOUS
  <2>1. ForwarderInv /\ PerSubscriber /\ \A s \in Subscriber : SubscriberInv(s)
    BY DEF IInv
  <2>2. /\ Sent \in Nat /\ Sent =< MaxChunks /\ MaxChunks \in Nat
        /\ GoodEncoder(encoder.encoder)
    BY <2>1, SentType
  <2>3. encoder.encoder \in SiameseEncoders
    BY <2>2 DEF GoodEncoder
  <2>4. ASSUME NEW s \in Subscriber
        PROVE  /\ net[s] \in Seq(Symbols)
               /\ node[s].decoder.buffer \in ReorderBuffers(1 .. MaxChunks)
               /\ node[s].encoder.encoder \in SiameseEncoders
               /\ delivered[s] \in Seq(1 .. MaxChunks)
    <3>1. /\ GoodNode(node[s], Sent) /\ net[s] \in Seq(SentSymbols(Sent))
          /\ delivered[s] \in Seq(1 .. Sent)
      BY <2>1 DEF SubscriberInv
    <3>2. net[s] \in Seq(Symbols)
      BY <2>2, <3>1, SentAreSymbols, SeqMonotonic
    <3>3. delivered[s] \in Seq(1 .. MaxChunks)
      <4>1. 1 .. Sent \subseteq 1 .. MaxChunks
        BY <2>2
      <4> QED  BY <3>1, <4>1, SeqMonotonic
    <3>4. node[s].decoder.buffer \in ReorderBuffers(1 .. MaxChunks)
      <4>1. GoodNode(node[s], MaxChunks)
        BY <2>2, <3>1, MoreSentToNode
      <4> QED  BY <4>1 DEF GoodNode, GoodStream, GoodBuffer
    <3>5. node[s].encoder.encoder \in SiameseEncoders
      BY <3>1, SegmentType DEF GoodNode
    <3> QED  BY <3>2, <3>3, <3>4, <3>5
  <2>5. net \in [Subscriber -> Seq(Symbols)]
    BY <2>1, <2>4 DEF PerSubscriber
  <2>6. delivered \in [Subscriber -> Seq(1 .. MaxChunks)]
    BY <2>1, <2>4 DEF PerSubscriber
  <2> QED  BY <2>1, <2>3, <2>4, <2>5, <2>6
           DEF TypeOK, ForwarderInv, PerSubscriber
<1> QED  BY <1>1, <1>2, <1>3, PTL DEF Spec

(***************************************************************************)
(* The cached region of losses (SiameseDecoder.h, CheckedRegionState) says *)
(* at every moment what counting afresh would say.                         *)
(***************************************************************************)
THEOREM CacheIsFresh ==
  ASSUME ColumnsSuffice
  PROVE  Spec => []CheckedRegionIsFresh
<1>1. Init => IInv
  BY InitEstablishesIInv
<1>2. IInv /\ [Next]_vars => IInv'
  BY NextKeepsIInv
<1>3. IInv => CheckedRegionIsFresh
  <2> SUFFICES ASSUME IInv, NEW s \in Subscriber, Fec(s).checked.count > 0
               PROVE  LET d == Fec(s)
                          c == d.checked
                      IN  /\ c.count =< Len(d.recs)
                          /\ c.start = d.recs[1].start
                          /\ c.end = Max({d.recs[i].end : i \in 1 .. c.count})
                          /\ c.lost = Cardinality(CheckedLost(d))
    BY DEF CheckedRegionIsFresh
  <2> DEFINE d == Fec(s)
             c == d.checked
             ends == {d.recs[i].end : i \in 1 .. c.count}
             n == d.count
  <2>1. GoodDecoder(d, Sent)
    BY DEF IInv, SubscriberInv, GoodNode, GoodStream, Fec
  <2> HIDE DEF d
  <2>2. GoodRegion(d, c) /\ GoodWindow(d, Sent) /\ d \in Decoders
    BY <2>1 DEF GoodDecoder, GoodChecked, GoodWindow, d
  <2>3. /\ c.count \in 1 .. Len(d.recs) /\ Len(d.recs) \in Nat
        /\ c.start = d.recs[1].start
        /\ (\A i \in 1 .. c.count : d.recs[i].end =< c.end)
        /\ (\E i \in 1 .. c.count : d.recs[i].end = c.end)
        /\ c.lost = Cardinality(CheckedLost(d))
        /\ c.end \in Int
    BY <2>2, DecoderType DEF GoodRegion, CheckedLost
  <2>4. n \in Nat
    BY <2>2, DecoderType
  <2>5. ASSUME NEW i \in 1 .. c.count PROVE d.recs[i].end \in 0 .. n
    <3>1. i \in 1 .. Len(d.recs)
      BY <2>3
    <3>2. EntryFits(d, d.recs[i]) /\ d.recs[i].start \in Int
          /\ d.recs[i].end \in Int
      BY <2>2, <3>1, DecoderType DEF GoodWindow, EntriesFit
    <3> QED  BY <2>4, <3>2 DEF EntryFits
  <2>6. ends \in SUBSET (0 .. n) /\ ends # {}
    BY <2>3, <2>5
  <2>7. c.end \in ends /\ \A x \in ends : x =< c.end
    BY <2>3
  <2> HIDE DEF ends, n
  <2>8. Max(ends) \in ends /\ \A x \in ends : x =< Max(ends)
    BY <2>4, <2>6, MaxResult
  <2>9. c.end = Max(ends)
    <3>1. c.end =< Max(ends) /\ Max(ends) =< c.end
      BY <2>7, <2>8
    <3>2. c.end \in Int /\ Max(ends) \in Int
      <4>1. Max(ends) \in 0 .. n
        BY <2>6, <2>8
      <4> QED  BY <2>3, <4>1
    <3> QED  BY <3>1, <3>2
  <2> QED  BY <2>3, <2>9 DEF ends, d
<1> QED  BY <1>1, <1>2, <1>3, PTL DEF Spec

(***************************************************************************)
(* To every subscriber the nodes are a ChunkFifo: whatever is lost,        *)
(* repeated or overtaken, by FEC or directly, early or late, it delivers   *)
(* the chunks of the stream in order, each once and with no gap.           *)
(***************************************************************************)
THEOREM SubscribersGetFifo ==
  ASSUME ColumnsSuffice
  PROVE  Spec => ImplementsFifo
<1>1. Init => IInv /\ \A s \in Subscriber : Fifo(s)!Init
  BY InitEstablishesIInv
<1>2. IInv /\ [Next]_vars =>
        IInv' /\ \A s \in Subscriber : [Fifo(s)!Next]_<<Sent, delivered[s]>>
  BY NextKeepsIInv DEF FifoStep
<1> QED  BY <1>1, <1>2, PTL DEF Spec, ImplementsFifo

-----------------------------------------------------------------------------
(* One subscriber: where a decoder is                                      *)

(***************************************************************************)
(* The column under which a decoder waits for the next chunk, and which it *)
(* acknowledges.                                                           *)
(***************************************************************************)
Place(d) == d.columnStart + d.next

(***************************************************************************)
(* A decoder has the chunk of a column: it left the window or is in it.    *)
(***************************************************************************)
HasColumn(d, c) == c < d.columnStart \/ c - d.columnStart \in d.got

(***************************************************************************)
(* An entry of a recovery packet with its columns counted from the start   *)
(* of the stream, as removing elements from the window does not move them. *)
(***************************************************************************)
View(d, r) == [start |-> d.columnStart + r.start, end |-> d.columnStart + r.end,
               row |-> r.row]

(***************************************************************************)
(* The recovery packets of e are the ones of d but the first k.            *)
(***************************************************************************)
LaterViews(d, e) ==
  \E k \in 0 .. Len(d.recs) :
    /\ Len(e.recs) = Len(d.recs) - k
    /\ \A i \in 1 .. Len(d.recs) - k :
         View(e, e.recs[i]) = View(d, d.recs[i + k])

(***************************************************************************)
(* From d to e a decoder moves forward by the chunks of new: it has these  *)
(* and what it had, waits no earlier, and keeps the later recovery         *)
(* packets.                                                                *)
(***************************************************************************)
Onward(d, e, new) ==
  /\ Place(d) =< Place(e)
  /\ e.latestColumn = d.latestColumn /\ e.lastMetadata = d.lastMetadata
  /\ d.count > 0 => e.count > 0
  /\ e.disabled = d.disabled
  /\ LaterViews(d, e)
  /\ \A c \in Nat : HasColumn(e, c) <=> HasColumn(d, c) \/ c \in new

(***************************************************************************)
(* The recovery packets are in the order of their ends.                    *)
(***************************************************************************)
Sorted(d) == \A i, j \in 1 .. Len(d.recs) :
               i < j => d.recs[i].end =< d.recs[j].end

(***************************************************************************)
(* The decoder waits for the first column it lacks, every recovery packet  *)
(* it holds protects that column, and the packets are sorted by their      *)
(* ends.                                                                   *)
(***************************************************************************)
Timely(d) ==
  /\ 0 =< d.next /\ d.next \notin d.got
  /\ \A i \in 1 .. Len(d.recs) :
       d.recs[i].start =< d.next /\ d.next < d.recs[i].end
  /\ Sorted(d)

(***************************************************************************)
(* How many columns are lost between the one waited for and the end of the *)
(* k-th recovery packet: CheckRecoveryPossible compares it with k.         *)
(***************************************************************************)
LossesTo(d, k) == Cardinality(RangeLost(d, d.next, d.recs[k].end))

(***************************************************************************)
(* The region last checked ends with the first packet that is enough: a    *)
(* shorter prefix of the packets has more losses than packets.             *)
(***************************************************************************)
CheckedIsMinimal(d) ==
  d.checked.count > 0 =>
    \A j \in 1 .. d.checked.count - 1 : j < LossesTo(d, j)

(***************************************************************************)
(* Two steps forward are one.                                              *)
(***************************************************************************)
LEMMA OnwardTwice ==
  ASSUME NEW d \in Decoders, NEW e \in Decoders, NEW f \in Decoders,
         NEW m, NEW n, Onward(d, e, m), Onward(e, f, n)
  PROVE  Onward(d, f, m \cup n)
<1>1. Place(d) \in Int /\ Place(e) \in Int /\ Place(f) \in Int
  BY DecoderType DEF Place
<1>2. Len(d.recs) \in Nat /\ Len(e.recs) \in Nat /\ Len(f.recs) \in Nat
  BY DecoderType
<1>3. d.count \in Nat /\ e.count \in Nat /\ f.count \in Nat
  BY DecoderType
<1>4. LaterViews(d, f)
  <2>1. PICK k \in 0 .. Len(d.recs) :
           /\ Len(e.recs) = Len(d.recs) - k
           /\ \A i \in 1 .. Len(d.recs) - k :
                View(e, e.recs[i]) = View(d, d.recs[i + k])
    BY DEF Onward, LaterViews
  <2>2. PICK l \in 0 .. Len(e.recs) :
           /\ Len(f.recs) = Len(e.recs) - l
           /\ \A i \in 1 .. Len(e.recs) - l :
                View(f, f.recs[i]) = View(e, e.recs[i + l])
    BY DEF Onward, LaterViews
  <2>3. k + l \in 0 .. Len(d.recs) /\ Len(f.recs) = Len(d.recs) - (k + l)
    <3> DEFINE a == Len(d.recs)
               b == Len(e.recs)
               c == Len(f.recs)
    <3>1. a \in Nat /\ b = a - k /\ c = b - l /\ k \in 0 .. a /\ l \in 0 .. b
      BY <1>2, <2>1, <2>2
    <3> HIDE DEF a, b, c
    <3>2. k + l \in 0 .. a /\ c = a - (k + l)
      BY <3>1
    <3> QED  BY <3>2 DEF a, c
  <2>4. ASSUME NEW i \in 1 .. Len(d.recs) - (k + l)
        PROVE  View(f, f.recs[i]) = View(d, d.recs[i + (k + l)])
    <3> DEFINE a == Len(d.recs)
               b == Len(e.recs)
    <3>1. a \in Nat /\ b \in Nat /\ k \in 0 .. a /\ l \in 0 .. b /\ b = a - k
          /\ i \in 1 .. a - (k + l)
      BY <1>2, <2>1, <2>2
    <3>2. i \in 1 .. b - l /\ i + l \in 1 .. a - k /\ (i + l) + k = i + (k + l)
      <4> HIDE DEF a, b
      <4> QED  BY <3>1
    <3> QED  BY <2>1, <2>2, <3>2
  <2> QED  BY <2>3, <2>4 DEF LaterViews
<1>5. Place(d) =< Place(f)
  BY <1>1 DEF Onward
<1> QED  BY <1>3, <1>4, <1>5 DEF Onward

(***************************************************************************)
(* A step that leaves what the decoder has and waits for leaves it timely. *)
(***************************************************************************)
LEMMA OnwardStays ==
  ASSUME NEW d \in Decoders, NEW e \in Decoders,
         e.columnStart = d.columnStart, e.got = d.got, e.next = d.next,
         e.recs = d.recs, d.count =< e.count,
         e.latestColumn = d.latestColumn, e.lastMetadata = d.lastMetadata,
         e.disabled = d.disabled
  PROVE  /\ Onward(d, e, {})
         /\ Timely(d) => Timely(e)
         /\ e.checked = d.checked /\ CheckedIsMinimal(d) => CheckedIsMinimal(e)
<1>1. Len(d.recs) \in Nat /\ Place(d) \in Int /\ d.count \in Nat
      /\ e.count \in Nat
  BY DecoderType DEF Place
<1>2. LaterViews(d, e)
  <2>1. 0 \in 0 .. Len(d.recs) /\ Len(e.recs) = Len(d.recs) - 0
    BY <1>1
  <2>2. \A i \in 1 .. Len(d.recs) - 0 :
          View(e, e.recs[i]) = View(d, d.recs[i + 0])
    BY <1>1 DEF View
  <2> QED  BY <2>1, <2>2 DEF LaterViews
<1>3. Onward(d, e, {})
  BY <1>1, <1>2 DEF Onward, Place, HasColumn
<1> QED  BY <1>3 DEF Timely, Sorted, CheckedIsMinimal, LossesTo, RangeLost

(***************************************************************************)
(* What find_next_lost returns is lost.                                    *)
(***************************************************************************)
LEMMA NextLostIsLost ==
  ASSUME NEW d \in Decoders, d.got \subseteq 0 .. d.count - 1, NEW from \in Nat
  PROVE  NextLost(d, from) \notin d.got
<1>1. d.count \in Nat /\ d.got \in SUBSET Int
  BY DEF Decoders
<1>2. d.count \notin d.got
  BY <1>1
<1>3. CASE from >= d.count
  BY <1>2, <1>3 DEF NextLost
<1>4. CASE from < d.count
  <2> DEFINE S == RangeLost(d, from, d.count) \cup {d.count}
  <2>1. S \in SUBSET Nat /\ S # {}
    BY <1>1 DEF RangeLost
  <2>2. NextLost(d, from) = Min(S)
    BY <1>1, <1>4 DEF NextLost
  <2>3. Min(S) \in S
    <3> HIDE DEF S
    <3> QED  BY <2>1, MinResult
  <2> QED  BY <1>2, <2>2, <2>3 DEF RangeLost
<1> QED  BY <1>1, <1>3, <1>4

(***************************************************************************)
(* delete_packets_before leaves the packets which end later, when they are *)
(* sorted.                                                                 *)
(***************************************************************************)
LEMMA DeleteLeavesLater ==
  ASSUME NEW d \in Decoders, NEW x \in Int, Sorted(d)
  PROVE  LET e == DeletePacketsBefore(d, x)
         IN  \A i \in 1 .. Len(e.recs) : e.recs[i].end > x
<1> DEFINE e == DeletePacketsBefore(d, x)
           q == d.recs
           n == Len(q)
           kept == {i \in 1 .. n : q[i].end > x}
           m == Min(kept)
<1>1. q \in Seq(Entries) /\ n \in Nat
      /\ \A i \in 1 .. n : q[i] \in Entries /\ q[i].end \in Int
  BY DecoderType
<1>2. e.recs = IF kept = {} THEN <<>> ELSE SubSeq(q, m, n)
  BY DEF DeletePacketsBefore, Decoders
<1>3. CASE kept = {}
  <2>1. Len(e.recs) = 0
    BY <1>2, <1>3
  <2> QED  BY <2>1
<1>4. CASE kept # {}
  <2>1. m \in kept
    <3>1. kept \in SUBSET Nat
      OBVIOUS
    <3> HIDE DEF kept
    <3> QED  BY <1>4, <3>1, MinResult
  <2>2. m \in 1 .. n /\ q[m].end > x
    BY <2>1
  <2> HIDE DEF m
  <2> DEFINE t == SubSeq(q, m, n)
  <2>3. /\ Len(t) = IF m <= n THEN n - m + 1 ELSE 0
        /\ \A i \in 1 .. n - m + 1 : t[i] = q[m + i - 1]
    <3>1. \A i \in m .. n : q[i] \in Entries
      BY <1>1, <2>2
    <3>2. m \in Int /\ n \in Int
      BY <1>1, <2>2
    <3> HIDE DEF q, n
    <3> QED  BY <3>1, <3>2, SubSeqProperties
  <2>4. e.recs = t
    BY <1>2, <1>4
  <2> HIDE DEF t, e
  <2>5. ASSUME NEW i \in 1 .. Len(t) PROVE t[i].end > x
    <3>1. i \in 1 .. n - m + 1 /\ m + i - 1 \in 1 .. n
          /\ (m < m + i - 1 \/ m = m + i - 1)
      BY <1>1, <2>2, <2>3
    <3>2. q[m].end =< q[m + i - 1].end
      BY <1>1, <2>2, <3>1 DEF Sorted
    <3>3. q[m].end \in Int /\ q[m + i - 1].end \in Int
      BY <1>1, <2>2, <3>1
    <3>4. q[m + i - 1].end > x
      BY <2>2, <3>2, <3>3
    <3> QED  BY <2>3, <3>1, <3>4
  <2> QED  BY <2>4, <2>5 DEF e
<1> QED  BY <1>3, <1>4

(***************************************************************************)
(* After the column waited for has moved on, it is lost and every packet   *)
(* that is left ends after it.                                             *)
(***************************************************************************)
LEMMA AdvanceIsTimely ==
  ASSUME NEW d \in Decoders, d.got \subseteq 0 .. d.count - 1,
         NEW from \in Nat, 0 =< d.next, d.next < d.count, Sorted(d)
  PROVE  LET e == AdvanceNext(d, from)
         IN  /\ e.next \notin d.got
             /\ \A i \in 1 .. Len(e.recs) : e.next < e.recs[i].end
<1> DEFINE y == NextLost(d, from)
           f == [d EXCEPT !.next = y]
           e == DeletePacketsBefore(f, y)
<1>1. d.count \in Nat /\ d.next \in Int
  BY DEF Decoders
<1>2. y \in Nat /\ y \notin d.got
  BY NextLostResult, NextLostIsLost
<1> HIDE DEF y
<1>3. f \in Decoders /\ f.next = y /\ f.recs = d.recs
  <2>1. y \in Int
    BY <1>2
  <2> QED  BY <2>1 DEF Decoders
<1>4. AdvanceNext(d, from) = e
  <2>1. ~NextIsFrom(d, d.count)
    BY <1>1 DEF NextIsFrom
  <2> QED  BY <1>3, <2>1 DEF AdvanceNext, y
<1>5. e.next = y
  <2>1. e = [f EXCEPT !.recs = e.recs]
    <3>1. y \in Int
      BY <1>2
    <3> HIDE DEF f
    <3> QED  BY <1>3, <3>1, DeleteResult
  <2> HIDE DEF e
  <2> QED  BY <1>3, <2>1 DEF Decoders
<1>6. \A i \in 1 .. Len(e.recs) : e.recs[i].end > y
  <2>1. Sorted(f) /\ y \in Int
    BY <1>2, <1>3 DEF Sorted
  <2> HIDE DEF f
  <2> QED  BY <1>3, <2>1, DeleteLeavesLater
<1>7. \A i \in 1 .. Len(e.recs) : y < e.recs[i].end
  <2>1. e \in Decoders
    <3>1. y \in Int
      BY <1>2
    <3> HIDE DEF f
    <3> QED  BY <1>3, <3>1, DeleteResult
  <2> HIDE DEF e
  <2>2. \A i \in 1 .. Len(e.recs) : e.recs[i].end \in Int
    BY <2>1, DecoderType
  <2> QED  BY <1>2, <1>6, <2>2
<1> HIDE DEF e
<1> QED  BY <1>2, <1>4, <1>5, <1>7

-----------------------------------------------------------------------------
(* Taking in a chunk                                                       *)

(***************************************************************************)
(* Taking in a column outside the region last checked leaves the losses    *)
(* that were counted in it.                                                *)
(***************************************************************************)
LEMMA LossesUntouched ==
  ASSUME NEW K \in Nat, NEW d, GoodDecoder(d, K), Timely(d),
         CheckedIsMinimal(d), d.checked.count > 0,
         NEW e \in Decoders, e.next = d.next, e.recs = d.recs,
         e.checked = d.checked,
         NEW x \in Int, e.got = d.got \cup {x},
         ~(x >= d.checked.start /\ x < d.checked.end)
  PROVE  CheckedIsMinimal(e)
<1>1. d \in Decoders /\ GoodRegion(d, d.checked)
  BY DEF GoodDecoder, GoodWindow, GoodChecked
<1>2. /\ Len(d.recs) \in Nat /\ d.checked.count \in Nat
      /\ d.checked.start \in Int /\ d.checked.end \in Int /\ d.next \in Int
      /\ \A i \in 1 .. Len(d.recs) : d.recs[i].start \in Int
                                     /\ d.recs[i].end \in Int
  BY <1>1, DecoderType
<1>3. /\ d.checked.count =< Len(d.recs)
      /\ d.checked.start =< d.next
      /\ \A i \in 1 .. d.checked.count : d.recs[i].end =< d.checked.end
  <2>1. /\ d.checked.count \in 1 .. Len(d.recs)
        /\ d.checked.start = d.recs[1].start
        /\ \A i \in 1 .. d.checked.count : d.recs[i].end =< d.checked.end
    BY <1>1 DEF GoodRegion
  <2>2. d.checked.count =< Len(d.recs) /\ 1 \in 1 .. Len(d.recs)
    BY <1>2, <2>1
  <2>3. d.recs[1].start =< d.next
    BY <2>2 DEF Timely
  <2> QED  BY <2>1, <2>2, <2>3
<1>4. ASSUME NEW j \in 1 .. d.checked.count - 1
      PROVE  RangeLost(e, e.next, e.recs[j].end)
               = RangeLost(d, d.next, d.recs[j].end)
  <2>1. d.recs[j].end =< d.checked.end /\ d.recs[j].end \in Int
    BY <1>2, <1>3
  <2>2. x \notin d.next .. d.recs[j].end - 1
    <3> DEFINE n == d.next
               b == d.recs[j].end
               from == d.checked.start
               to == d.checked.end
    <3>1. /\ from =< n /\ b =< to /\ ~(x >= from /\ x < to)
          /\ n \in Int /\ b \in Int /\ from \in Int /\ to \in Int
      BY <1>2, <1>3, <2>1
    <3> HIDE DEF n, b, from, to
    <3>2. x \notin n .. b - 1
      BY <3>1
    <3> QED  BY <3>2 DEF n, b
  <2> QED  BY <2>2 DEF RangeLost
<1> QED  BY <1>4 DEF CheckedIsMinimal, LossesTo

(***************************************************************************)
(* The decoder after the chunk of its element x came: the column waited    *)
(* for moves on when it was x, and a checked region around x is forgotten. *)
(***************************************************************************)
AfterTaking(d, a, x) ==
  LET e == IF x = d.next THEN AdvanceNext(a, x + 1) ELSE a
  IN  [e EXCEPT !.checked =
         IF x >= d.checked.start /\ x < d.checked.end
         THEN NothingChecked ELSE d.checked]

(***************************************************************************)
(* What holds of the decoder f that has taken in element x.                *)
(***************************************************************************)
TakenIn(d, a, x, f, K) ==
  /\ GoodDecoder(f, K)
  /\ f.checked = a.checked /\ x = d.next => f = AdvanceNext(a, x + 1)
  /\ Timely(f)
  /\ CheckedIsMinimal(f)
  /\ Onward(d, f, {d.columnStart + x})
  /\ f.recovered = a.recovered
  /\ x = d.next => d.columnStart + x < Place(f)
  /\ f.count = a.count /\ f.columnStart = d.columnStart

(***************************************************************************)
(* Taking in one chunk, as an original or as a recovery packet of one      *)
(* chunk, keeps a decoder timely and moves it forward by that chunk.       *)
(***************************************************************************)
LEMMA TakingInIsOnward ==
  ASSUME NEW K \in Nat, NEW d, GoodDecoder(d, K), Timely(d),
         CheckedIsMinimal(d),
         NEW n \in Nat, d.count =< n, d.columnStart + n =< K,
         NEW x \in 0 .. n - 1, NEW a \in Decoders,
         a.columnStart = d.columnStart, a.count = n,
         a.got = d.got \cup {x}, a.next = d.next, a.recs = d.recs,
         a.lastMetadata = d.lastMetadata, AreOwnSymbols(a.recovered, K),
         a.latestColumn = d.latestColumn, a.disabled = d.disabled
  PROVE  TakenIn(d, a, x, AfterTaking(d, a, x), K)
<1> DEFINE e == IF x = d.next THEN AdvanceNext(a, x + 1) ELSE a
           c == IF x >= d.checked.start /\ x < d.checked.end
                THEN NothingChecked ELSE d.checked
           f == [e EXCEPT !.checked = c]
<1>1. d \in Decoders /\ GoodWindow(d, K)
  BY DEF GoodDecoder, GoodWindow
<1>2. /\ d.columnStart \in Nat /\ d.count \in Nat /\ d.got \in SUBSET Int
      /\ d.next \in Int /\ Len(d.recs) \in Nat /\ d.checked \in Regions
      /\ d.checked.start \in Int /\ d.checked.end \in Int
      /\ d.checked.count \in Nat
      /\ \A i \in 1 .. Len(d.recs) : d.recs[i].end \in Int
                                     /\ d.recs[i].start \in Int
  BY <1>1, DecoderType
<1>3. GoodWindow(e, K) /\ GoodDecoder(f, K) /\ e.checked = a.checked
  BY TakingInKeepsDecoder
<1>4. e \in Decoders /\ f \in Decoders
  BY <1>3 DEF GoodDecoder, GoodWindow
<1>5. /\ f.columnStart = e.columnStart /\ f.count = e.count /\ f.got = e.got
      /\ f.next = e.next /\ f.recs = e.recs /\ f.checked = c
      /\ f.latestColumn = e.latestColumn /\ f.lastMetadata = e.lastMetadata
      /\ f.disabled = e.disabled /\ f.recovered = e.recovered
  <2> HIDE DEF e, c
  <2> QED  BY <1>4 DEF Decoders
<1>6. Sorted(a) /\ a.got \subseteq 0 .. a.count - 1
  <2>1. d.got \subseteq 0 .. d.count - 1
    BY <1>1 DEF GoodWindow, WindowFits
  <2>2. a.got \subseteq 0 .. n - 1
    BY <1>2, <2>1
  <2> QED  BY <2>2 DEF Timely, Sorted
<1>7. /\ e.columnStart = d.columnStart /\ e.count = n
      /\ e.got = d.got \cup {x}
      /\ e.latestColumn = d.latestColumn /\ e.lastMetadata = d.lastMetadata
      /\ e.disabled = d.disabled /\ e.recovered = a.recovered
      /\ d.next =< e.next /\ e.next \notin e.got
      /\ x = d.next => x < e.next
      /\ x # d.next => e.next = d.next
      /\ \A i \in 1 .. Len(e.recs) : e.next < e.recs[i].end
      /\ \E k \in 0 .. Len(d.recs) :
           /\ Len(e.recs) = Len(d.recs) - k
           /\ \A i \in 1 .. Len(d.recs) - k : e.recs[i] = d.recs[i + k]
           /\ x # d.next => k = 0
  <2>1. CASE x # d.next
    <3>1. e = a
      BY <2>1
    <3>2. /\ 0 \in 0 .. Len(d.recs)
          /\ Len(a.recs) = Len(d.recs) - 0
          /\ \A i \in 1 .. Len(d.recs) - 0 : a.recs[i] = d.recs[i + 0]
      BY <1>2
    <3> HIDE DEF e
    <3>3. \A i \in 1 .. Len(a.recs) : a.next < a.recs[i].end
      BY DEF Timely
    <3>4. a.next \notin a.got /\ d.next =< a.next
      BY <1>2, <2>1 DEF Timely
    <3> QED  BY <2>1, <3>1, <3>2, <3>3, <3>4
  <2>2. CASE x = d.next
    <3> DEFINE from == x + 1
               g == AdvanceNext(a, from)
    <3>1. e = g
      BY <2>2
    <3>2. from \in Nat /\ from =< a.count /\ 0 =< a.next /\ a.next < a.count
      BY <1>2, <2>2
    <3>3. /\ WindowFits(a, K) /\ EntriesFit(a) /\ MetadataPassed(a)
      <4>1. d.got \subseteq 0 .. d.count - 1 /\ 0 .. d.next - 1 \subseteq d.got
        BY <1>1 DEF GoodWindow, WindowFits
      <4>2. 0 .. a.next - 1 \subseteq a.got
        BY <4>1
      <4>3. WindowFits(a, K)
        BY <1>6, <4>2 DEF WindowFits
      <4>4. ASSUME NEW i \in 1 .. Len(d.recs) PROVE EntryFits(a, d.recs[i])
        <5>1. EntryFits(d, d.recs[i]) /\ d.recs[i].end \in Int
          BY <1>1, <1>2 DEF GoodWindow, EntriesFit
        <5> QED  BY <1>2, <5>1 DEF EntryFits
      <4>5. EntriesFit(a)
        BY <4>4 DEF EntriesFit
      <4>6. MetadataPassed(d) /\ a.count # 0
        BY <1>1 DEF GoodWindow
      <4>7. MetadataPassed(a)
        BY <4>6 DEF MetadataPassed, MetadataEnd
      <4> QED  BY <4>3, <4>5, <4>7
    <3>4. 0 .. from - 1 \subseteq a.got
      <4>1. 0 .. x - 1 \subseteq d.got
        BY <1>1, <2>2 DEF GoodWindow, WindowFits
      <4> QED  BY <1>2, <2>2, <4>1
    <3> HIDE DEF from, e
    <3>5. Advanced(a, AdvanceNext(a, from), from, K)
      BY <3>2, <3>3, <3>4, AdvanceResult
    <3>6. /\ g \in Decoders
          /\ g = [a EXCEPT !.next = g.next, !.recs = g.recs]
          /\ from =< g.next
          /\ \E k \in 0 .. Len(a.recs) :
               /\ Len(g.recs) = Len(a.recs) - k
               /\ \A i \in 1 .. Len(a.recs) - k : g.recs[i] = a.recs[i + k]
      BY <3>5 DEF Advanced
    <3>7. /\ g.next \notin a.got
          /\ \A i \in 1 .. Len(g.recs) : g.next < g.recs[i].end
      BY <1>6, <3>2, AdvanceIsTimely
    <3> HIDE DEF g
    <3>8. /\ g.columnStart = a.columnStart /\ g.count = a.count /\ g.got = a.got
          /\ g.latestColumn = a.latestColumn /\ g.lastMetadata = a.lastMetadata
          /\ g.disabled = a.disabled /\ g.recovered = a.recovered
      <4>1. g = [a EXCEPT !.next = g.next, !.recs = g.recs]
        BY <3>6
      <4> QED  BY <4>1 DEF Decoders
    <3>9. g.next \in Int /\ x < g.next /\ d.next =< g.next
      <4> DEFINE h == d.next
                 m == g.next
      <4>1. m \in Int
        BY <3>6, DecoderType
      <4>2. x = h /\ x \in Int /\ x + 1 =< m
        BY <1>2, <2>2, <3>6 DEF from
      <4> HIDE DEF h, m
      <4>3. x < m /\ h =< m
        BY <4>1, <4>2
      <4> QED  BY <4>1, <4>3 DEF h, m
    <3> QED  BY <2>2, <3>1, <3>6, <3>7, <3>8, <3>9
  <2> QED  BY <2>1, <2>2
<1> HIDE DEF e
<1>8. PICK k \in 0 .. Len(d.recs) :
           /\ Len(e.recs) = Len(d.recs) - k
           /\ \A i \in 1 .. Len(d.recs) - k : e.recs[i] = d.recs[i + k]
           /\ x # d.next => k = 0
  BY <1>7
<1>9. e.next \in Int /\ Len(e.recs) \in Nat
  BY <1>4, DecoderType
<1> HIDE DEF f, c
<1>10. Timely(f)
  <2>1. ASSUME NEW i \in 1 .. Len(e.recs)
        PROVE  i + k \in 1 .. Len(d.recs) /\ e.recs[i] = d.recs[i + k]
    <3> DEFINE m == Len(d.recs)
    <3>1. i \in 1 .. m - k /\ e.recs[i] = d.recs[i + k]
      BY <1>8
    <3>2. m \in Nat
      BY <1>2
    <3> HIDE DEF m
    <3>3. i + k \in 1 .. m
      BY <3>1, <3>2
    <3> QED  BY <3>1, <3>3 DEF m
  <2>2. ASSUME NEW i \in 1 .. Len(e.recs)
        PROVE  e.recs[i].start =< e.next
    <3>1. d.recs[i + k].start =< d.next /\ d.recs[i + k].start \in Int
      BY <1>2, <2>1 DEF Timely
    <3>2. e.recs[i].start =< d.next /\ e.recs[i].start \in Int
      BY <2>1, <3>1
    <3>3. d.next =< e.next /\ d.next \in Int /\ e.next \in Int
      BY <1>2, <1>7, <1>9
    <3> QED  BY <3>2, <3>3
  <2>3. ASSUME NEW i \in 1 .. Len(e.recs), NEW j \in 1 .. Len(e.recs), i < j
        PROVE  e.recs[i].end =< e.recs[j].end
    <3>1. i + k < j + k
      BY <2>3
    <3> QED  BY <2>1, <3>1 DEF Timely, Sorted
  <2>4. 0 =< e.next
    BY <1>2, <1>7, <1>9 DEF Timely
  <2> QED  BY <1>5, <1>7, <2>2, <2>3, <2>4 DEF Timely, Sorted
<1>11. CheckedIsMinimal(f)
  <2>1. CASE c.count > 0
    <3>1. c = d.checked /\ ~(x >= d.checked.start /\ x < d.checked.end)
      BY <2>1 DEF c, NothingChecked
    <3>2. GoodRegion(d, d.checked)
      BY <2>1, <3>1 DEF GoodDecoder, GoodChecked
    <3>3. x # d.next
      <4>1. 1 \in 1 .. Len(d.recs) /\ 1 \in 1 .. d.checked.count
        BY <1>2, <3>2 DEF GoodRegion
      <4>2. d.checked.start =< d.next /\ d.next < d.checked.end
        BY <1>2, <3>2, <4>1 DEF GoodRegion, Timely
      <4> QED  BY <3>1, <4>2
    <3>4. f.recs = d.recs /\ f.next = d.next
      <4>1. k = 0 /\ Len(e.recs) = Len(d.recs)
        BY <1>2, <1>8, <3>3
      <4>2. \A i \in 1 .. Len(d.recs) : e.recs[i] = d.recs[i]
        <5>1. ASSUME NEW i \in 1 .. Len(d.recs) PROVE e.recs[i] = d.recs[i]
          BY <1>2, <1>8, <4>1
        <5> QED  BY <5>1
      <4>3. e.recs \in Seq(Entries) /\ d.recs \in Seq(Entries)
        BY <1>1, <1>4, DecoderType
      <4>4. e.recs = d.recs
        BY <4>1, <4>2, <4>3, SeqEqual
      <4> QED  BY <1>5, <1>7, <3>3, <4>4
    <3>5. f.got = d.got \cup {x} /\ f.checked = d.checked /\ x \in Int
      BY <1>5, <1>7, <3>1
    <3>6. d.checked.count > 0
      BY <2>1, <3>1
    <3> QED  BY <1>4, <3>1, <3>4, <3>5, <3>6, LossesUntouched
  <2>2. CASE ~(c.count > 0)
    BY <1>5, <2>2 DEF CheckedIsMinimal
  <2> QED  BY <2>1, <2>2
<1>12. Onward(d, f, {d.columnStart + x})
  <2>1. LaterViews(d, f)
    BY <1>5, <1>7, <1>8 DEF LaterViews, View
  <2>2. Place(d) =< Place(f)
    <3> DEFINE o == d.columnStart
               h == d.next
               m == e.next
    <3>1. o \in Int /\ h \in Int /\ m \in Int /\ h =< m
      BY <1>2, <1>7, <1>9
    <3>2. f.columnStart = o /\ f.next = m
      BY <1>5, <1>7
    <3> HIDE DEF o, h, m
    <3>3. o + h =< o + m
      BY <3>1
    <3> QED  BY <3>2, <3>3 DEF Place, o, h
  <2>3. d.count > 0 => f.count > 0
    BY <1>2, <1>5, <1>7
  <2>4. ASSUME NEW m \in Nat
        PROVE  HasColumn(f, m) <=> HasColumn(d, m) \/ m \in {d.columnStart + x}
    <3>1. f.columnStart = d.columnStart /\ f.got = d.got \cup {x}
      BY <1>5, <1>7
    <3>2. m - d.columnStart = x <=> m = d.columnStart + x
      <4> DEFINE o == d.columnStart
      <4>1. o \in Int /\ x \in Int
        BY <1>2
      <4> HIDE DEF o
      <4>2. m - o = x <=> m = o + x
        BY <4>1
      <4> QED  BY <4>2 DEF o
    <3>3. m < f.columnStart <=> m < d.columnStart
      BY <3>1
    <3>4. m - f.columnStart \in f.got
            <=> m - d.columnStart \in d.got \/ m - d.columnStart = x
      BY <3>1
    <3> QED  BY <3>2, <3>3, <3>4 DEF HasColumn
  <2> QED  BY <1>5, <1>7, <2>1, <2>2, <2>3, <2>4 DEF Onward
<1>13. x = d.next => d.columnStart + x < Place(f)
  <2> SUFFICES ASSUME x = d.next PROVE d.columnStart + x < Place(f)
    OBVIOUS
  <2> DEFINE o == d.columnStart
             m == e.next
  <2>1. o \in Int /\ x \in Int /\ m \in Int /\ x < m
    BY <1>2, <1>7, <1>9
  <2>2. f.columnStart = o /\ f.next = m
    BY <1>5, <1>7
  <2> HIDE DEF o, m
  <2>3. o + x < o + m
    BY <2>1
  <2> QED  BY <2>2, <2>3 DEF Place, o
<1>14. f.checked = a.checked /\ x = d.next => f = AdvanceNext(a, x + 1)
  <2>1. f.checked = a.checked => f = e
    BY <1>3, <1>4, <1>5 DEF f, Decoders
  <2>2. x = d.next => e = AdvanceNext(a, x + 1)
    BY DEF e
  <2> QED  BY <2>1, <2>2
<1>15. TakenIn(d, a, x, f, K)
  BY <1>3, <1>5, <1>7, <1>10, <1>11, <1>12, <1>13, <1>14 DEF TakenIn
<1>16. AfterTaking(d, a, x) = f
  BY DEF AfterTaking, f, c, e
<1> QED  BY <1>15, <1>16

-----------------------------------------------------------------------------
(* Trimming the window                                                     *)

(***************************************************************************)
(* No recovery packet of the decoder starts after the one whose metadata   *)
(* was kept last: what RemoveElements goes by.                             *)
(***************************************************************************)
MetaStarts(d) ==
  /\ d.columnStart =< d.lastMetadata.columnStart
  /\ \A i \in 1 .. Len(d.recs) :
       d.columnStart + d.recs[i].start =< d.lastMetadata.columnStart

(***************************************************************************)
(* Dropping elements the decoder is past moves nothing.                    *)
(***************************************************************************)
LEMMA DropIsOnward ==
  ASSUME NEW K \in Nat, K =< ColumnPeriod \div 2,
         NEW d, GoodDecoder(d, K), Timely(d), CheckedIsMinimal(d),
         NEW n \in Nat, n < d.count, n =< d.next
  PROVE  /\ Timely(DropFront(d, n)) /\ CheckedIsMinimal(DropFront(d, n))
         /\ Onward(d, DropFront(d, n), {})
<1> DEFINE e == DropFront(d, n)
<1>1. GoodWindow(d, K) /\ d \in Decoders /\ WindowFits(d, K)
  BY DEF GoodDecoder, GoodWindow
<1>2. /\ d.columnStart \in Nat /\ d.count \in Nat /\ d.got \in SUBSET Int
      /\ d.next \in Int /\ Len(d.recs) \in Nat /\ d.checked \in Regions
      /\ d.checked.count \in Nat
      /\ \A i \in 1 .. Len(d.recs) : d.recs[i].end \in Int
                                     /\ d.recs[i].start \in Int
  BY <1>1, DecoderType
<1>3. /\ e \in Decoders
      /\ e.columnStart = d.columnStart + n
      /\ e.count = d.count - n
      /\ e.got = {g - n : g \in {h \in d.got : h >= n}}
      /\ e.next = d.next - n
      /\ Len(e.recs) = Len(d.recs)
      /\ \A i \in 1 .. Len(d.recs) :
           /\ e.recs[i].start = d.recs[i].start - n
           /\ e.recs[i].end = d.recs[i].end - n
           /\ e.recs[i].row = d.recs[i].row
      /\ e.lastMetadata = d.lastMetadata
      /\ e.latestColumn = d.latestColumn /\ e.disabled = d.disabled
      /\ e.checked = ShiftChecked(d.checked, n)
  BY <1>1, DropFields
<1> HIDE DEF e
<1>4. ASSUME NEW x \in Int
      PROVE  x - n \in e.got <=> x \in d.got /\ x >= n
  <2>1. ASSUME x - n \in e.got PROVE x \in d.got /\ x >= n
    <3>1. PICK g \in d.got : g >= n /\ x - n = g - n
      BY <1>3, <2>1
    <3>2. g = x
      BY <1>2, <3>1
    <3> QED  BY <3>1, <3>2
  <2>2. ASSUME x \in d.got, x >= n PROVE x - n \in e.got
    BY <1>3, <2>2
  <2> QED  BY <2>1, <2>2
<1>5. Timely(e)
  <2>1. 0 =< e.next
    BY <1>2, <1>3
  <2>2. e.next \notin e.got
    BY <1>2, <1>3, <1>4 DEF Timely
  <2>3. ASSUME NEW i \in 1 .. Len(e.recs)
        PROVE  e.recs[i].start =< e.next /\ e.next < e.recs[i].end
    <3> DEFINE a == d.recs[i].start
               b == d.recs[i].end
    <3>1. i \in 1 .. Len(d.recs) /\ a =< d.next /\ d.next < b
      BY <1>3 DEF Timely
    <3>2. /\ e.recs[i].start = a - n /\ e.recs[i].end = b - n
          /\ a \in Int /\ b \in Int
      BY <1>2, <1>3, <3>1
    <3>3. d.next \in Int /\ n \in Int /\ e.next = d.next - n
      BY <1>2, <1>3
    <3> HIDE DEF a, b
    <3>4. a - n =< d.next - n /\ d.next - n < b - n
      BY <3>1, <3>2, <3>3
    <3> QED  BY <3>2, <3>3, <3>4
  <2>4. Sorted(e)
    <3>1. ASSUME NEW i \in 1 .. Len(d.recs), NEW j \in 1 .. Len(d.recs), i < j
          PROVE  e.recs[i].end =< e.recs[j].end
      <4> DEFINE a == d.recs[i].end
                 b == d.recs[j].end
      <4>1. a =< b
        BY <3>1 DEF Timely, Sorted
      <4>2. /\ e.recs[i].end = a - n /\ e.recs[j].end = b - n
            /\ a \in Int /\ b \in Int
        BY <1>2, <1>3
      <4> HIDE DEF a, b
      <4> QED  BY <4>1, <4>2
    <3> QED  BY <1>3, <3>1 DEF Sorted
  <2> QED  BY <2>1, <2>2, <2>3, <2>4 DEF Timely
<1>6. ASSUME NEW j \in 1 .. Len(d.recs)
      PROVE  LossesTo(e, j) = LossesTo(d, j)
  <2> DEFINE a == d.next
             b == d.recs[j].end
             S == RangeLost(d, a, b)
  <2>1. a \in Int /\ b \in Int /\ n =< a
    BY <1>2
  <2>2. e.next = a - n /\ e.recs[j].end = b - n
    BY <1>3
  <2>3. IsFiniteSet(S) /\ S \in SUBSET Int
    BY <2>1, LossesFinite
  <2>4. RangeLost(e, e.next, e.recs[j].end) = ShiftedBy(S, n)
    <3> HIDE DEF a, b
    <3>1. RangeLost(DropFront(d, n), a - n, b - n)
            = ShiftedBy(RangeLost(d, a, b), n)
      BY <1>1, <2>1, DropLosses
    <3> QED  BY <2>2, <3>1 DEF e
  <2>5. LossesTo(d, j) = Cardinality(S)
    BY DEF LossesTo
  <2>6. LossesTo(e, j) = Cardinality(RangeLost(e, e.next, e.recs[j].end))
    BY DEF LossesTo
  <2> HIDE DEF S, e
  <2>7. Cardinality(ShiftedBy(S, n)) = Cardinality(S)
    BY <2>3, ShiftedCardinality
  <2> QED  BY <2>4, <2>5, <2>6, <2>7
<1>7. CheckedIsMinimal(e)
  <2> SUFFICES ASSUME e.checked.count > 0, NEW j \in 1 .. e.checked.count - 1
               PROVE  j < LossesTo(e, j)
    BY DEF CheckedIsMinimal
  <2>1. e.checked.count = d.checked.count
    <3> DEFINE c == d.checked
    <3>1. ~(c.start < n \/ c.end < n)
      BY <1>3 DEF ShiftChecked, NothingChecked
    <3> QED  BY <1>2, <1>3, <3>1 DEF ShiftChecked, Regions
  <2>2. d.checked.count =< Len(d.recs)
    <3>1. GoodRegion(d, d.checked)
      BY <2>1 DEF GoodDecoder, GoodChecked
    <3> QED  BY <1>2, <3>1 DEF GoodRegion
  <2>3. j < LossesTo(d, j) /\ j \in 1 .. Len(d.recs)
    BY <1>2, <2>1, <2>2 DEF CheckedIsMinimal
  <2> QED  BY <1>6, <2>3
<1>8. LaterViews(d, e)
  <2>1. 0 \in 0 .. Len(d.recs) /\ Len(e.recs) = Len(d.recs) - 0
    BY <1>2, <1>3
  <2>2. ASSUME NEW i \in 1 .. Len(d.recs) - 0
        PROVE  View(e, e.recs[i]) = View(d, d.recs[i + 0])
    <3>1. i \in 1 .. Len(d.recs) /\ i + 0 = i
      BY <1>2
    <3> DEFINE a == d.recs[i].start
               b == d.recs[i].end
    <3>2. /\ e.recs[i].start = a - n /\ e.recs[i].end = b - n
          /\ a \in Int /\ b \in Int /\ e.recs[i].row = d.recs[i].row
      BY <1>2, <1>3, <3>1
    <3>3. /\ (d.columnStart + n) + (a - n) = d.columnStart + a
          /\ (d.columnStart + n) + (b - n) = d.columnStart + b
      <4> HIDE DEF a, b
      <4> QED  BY <1>2, <3>2
    <3> QED  BY <1>3, <3>1, <3>2, <3>3 DEF View
  <2> QED  BY <2>1, <2>2 DEF LaterViews
<1>9. ASSUME NEW c \in Nat
      PROVE  HasColumn(e, c) <=> HasColumn(d, c)
  <2> DEFINE x == c - d.columnStart
  <2>1. x \in Int /\ c - e.columnStart = x - n
    BY <1>2, <1>3
  <2>2. c < e.columnStart <=> x < n
    BY <1>2, <1>3
  <2>3. c < d.columnStart <=> x < 0
    BY <1>2
  <2>4. x \in 0 .. n - 1 => x \in d.got
    BY <1>1, <1>2 DEF WindowFits
  <2>5. x - n \in e.got <=> x \in d.got /\ x >= n
    BY <1>4, <2>1
  <2>6. HasColumn(e, c) <=> x < n \/ x - n \in e.got
    BY <2>1, <2>2 DEF HasColumn
  <2>7. HasColumn(d, c) <=> x < 0 \/ x \in d.got
    BY <2>3 DEF HasColumn
  <2>8. x \in d.got => x >= 0
    BY <1>1, <1>2 DEF WindowFits
  <2> HIDE DEF x
  <2> QED  BY <2>1, <2>4, <2>5, <2>6, <2>7, <2>8
<1>10. Onward(d, e, {})
  <2>1. Place(e) = Place(d) /\ Place(d) \in Int
    BY <1>2, <1>3 DEF Place
  <2>2. e.count > 0
    BY <1>2, <1>3
  <2> QED  BY <1>3, <1>8, <1>9, <2>1, <2>2 DEF Onward
<1> QED  BY <1>5, <1>7, <1>10 DEF e

(***************************************************************************)
(* What removing elements gives: the decoder as it was, with a shorter     *)
(* window. It is disabled only when the stream reaches half the period or  *)
(* when packets did not start in order.                                    *)
(***************************************************************************)
Trimmed(d, e, K) ==
  \/ e.disabled /\ ~(K < ColumnPeriod \div 2 /\ MetaStarts(d))
  \/ /\ Timely(e) /\ CheckedIsMinimal(e) /\ Onward(d, e, {})
     /\ e.recovered = d.recovered
     /\ MetaStarts(d) => MetaStarts(e)

(***************************************************************************)
(* A decoder left alone is.                                                *)
(***************************************************************************)
LEMMA UntouchedIsTrimmed ==
  ASSUME NEW K, NEW d \in Decoders, Timely(d), CheckedIsMinimal(d)
  PROVE  Trimmed(d, d, K)
<1>1. d.count =< d.count
  BY DecoderType
<1> QED  BY <1>1, OnwardStays DEF Trimmed

(***************************************************************************)
(* When packets started in order, the first element to keep is found.      *)
(***************************************************************************)
LEMMA LastInOrderIsKnown ==
  ASSUME NEW K \in Nat, K < ColumnPeriod \div 2,
         NEW d, GoodWindow(d, K), Timely(d), MetaStarts(d)
  PROVE  FirstKept(d) # -1
<1> DEFINE lm == d.lastMetadata
           a == lm.columnStart
           b == lm.sumCount
           o == d.columnStart
           h == ColumnPeriod \div 2
<1>1. d \in Decoders /\ WindowFits(d, K) /\ MetadataPassed(d) /\ EntriesFit(d)
  BY DEF GoodWindow
<1>2. /\ o \in Nat /\ d.count \in Nat /\ d.next \in Int
      /\ a \in Nat /\ b \in Nat
      /\ d.recs \in Seq(Entries) /\ Len(d.recs) \in Nat
  BY <1>1, DecoderType
<1>3. d.next =< d.count /\ o + d.count =< K
  BY <1>1, NextInWindow DEF WindowFits
<1>4. ColumnPeriod \in Nat /\ h \in Nat /\ 2 * h =< ColumnPeriod
  BY ColumnPeriodAssumption
<1>5. CASE d.recs = <<>>
  <2>1. b > 0 => (a + b) - o =< d.next
    <3>1. Len(d.recs) = 0
      BY <1>5
    <3>2. MetadataEnd(d) = (a + b) - o
      BY <1>2 DEF MetadataEnd
    <3> QED  BY <1>1, <1>2, <3>1, <3>2 DEF MetadataPassed, Timely
  <2>2. o =< a /\ (b = 0 => a = 0)
    BY <1>1 DEF MetaStarts, MetadataPassed
  <2>3. a + b \in 0 .. K
    <3> DEFINE n == d.count
               f == d.next
    <3>1. n \in Nat /\ f \in Int /\ f =< n /\ o + n =< K
          /\ (b > 0 => (a + b) - o =< f)
      BY <1>2, <1>3, <2>1
    <3> HIDE DEF a, b, o, n, f
    <3>2. CASE b = 0
      BY <1>2, <2>2, <3>2
    <3>3. CASE b > 0
      BY <1>2, <3>1, <3>3
    <3> QED  BY <1>2, <3>2, <3>3
  <2> DEFINE x == a + b
             end == SubtractColumns(x, o)
  <2>4. x - o \in Column /\ x - o < h /\ x \in Int
    <3>1. K < h
      OBVIOUS
    <3> HIDE DEF a, b, o, h
    <3> QED  BY <1>2, <1>4, <2>2, <2>3, <3>1 DEF Column
  <2>5. end = x - o
    <3> HIDE DEF x, o
    <3> QED  BY <2>4, SmallResidue DEF SubtractColumns
  <2>6. ~IsColumnDeltaNegative(end) /\ ~(end < b)
    <3>1. x - o >= b /\ ~(x - o >= h)
      <4> HIDE DEF a, b, o, h
      <4> QED  BY <1>2, <1>4, <2>2, <2>4
    <3> HIDE DEF end, x, b, o
    <3>2. x - o \in Int /\ b \in Int
      BY <1>2, <2>4 DEF o, b
    <3> QED  BY <2>5, <3>1, <3>2 DEF IsColumnDeltaNegative
  <2>7. FirstKept(d) = end - b
    BY <1>5, <2>6 DEF FirstKept, DecoderElement
  <2>8. end - b # -1
    <3> HIDE DEF end, x, b, o
    <3>1. x - o \in Int /\ b \in Int
      BY <1>2, <2>4 DEF o, b
    <3> QED  BY <2>5, <2>6, <3>1
  <2> QED  BY <2>7, <2>8
<1>6. CASE d.recs # <<>>
  <2> DEFINE S == {d.recs[i].start : i \in 1 .. Len(d.recs)}
  <2>1. ASSUME NEW i \in 1 .. Len(d.recs) PROVE d.recs[i].start \in Nat
    <3>1. EntryFits(d, d.recs[i]) /\ d.recs[i].start \in Int
      BY <1>1, DecoderType DEF EntriesFit
    <3> QED  BY <3>1 DEF EntryFits
  <2>2. S \in SUBSET Nat
    BY <2>1
  <2>3. S # {}
    <3>1. Len(d.recs) # 0
      BY <1>2, <1>6, ShortSequence
    <3>2. 1 \in 1 .. Len(d.recs)
      BY <1>2, <3>1
    <3> QED  BY <3>2
  <2>4. FirstKept(d) = Min(S)
    BY <1>6 DEF FirstKept
  <2> HIDE DEF S
  <2>5. Min(S) \in Nat
    BY <2>2, <2>3, MinResult
  <2> QED  BY <2>4, <2>5
<1> QED  BY <1>5, <1>6

(***************************************************************************)
(* RemoveElements takes away what no packet protects.                      *)
(***************************************************************************)
LEMMA RemoveIsOnward ==
  ASSUME NEW K \in Nat, K =< ColumnPeriod \div 2,
         NEW d, GoodDecoder(d, K), Timely(d), CheckedIsMinimal(d)
  PROVE  Trimmed(d, RemoveElements(d), K)
<1> DEFINE kept == FirstKept(d)
           n == WholeSubwindows(kept)
<1>1. GoodWindow(d, K) /\ d \in Decoders
  BY DEF GoodDecoder, GoodWindow
<1>2. CASE \/ ~NextIsFrom(d, RemoveThreshold)
           \/ kept # -1 /\ kept < RemoveThreshold
  <2>1. RemoveElements(d) = d
    BY <1>2 DEF RemoveElements
  <2> QED  BY <1>1, <2>1, UntouchedIsTrimmed
<1>3. CASE NextIsFrom(d, RemoveThreshold) /\ kept = -1
  <2>1. RemoveElements(d) = [d EXCEPT !.disabled = TRUE]
    BY <1>3 DEF RemoveElements
  <2>2. RemoveElements(d).disabled
    BY <1>1, <2>1 DEF Decoders
  <2>3. ~(K < ColumnPeriod \div 2 /\ MetaStarts(d))
    BY <1>1, <1>3, LastInOrderIsKnown
  <2> QED  BY <2>2, <2>3 DEF Trimmed
<1>4. CASE NextIsFrom(d, RemoveThreshold) /\ kept # -1
      /\ ~(kept < RemoveThreshold)
  <2> DEFINE e == DropFront(d, n)
  <2>1. RemoveElements(d) = e
    BY <1>4 DEF RemoveElements
  <2>2. /\ kept \in Nat /\ kept < d.count
        /\ \A i \in 1 .. Len(d.recs) : kept =< d.recs[i].start
        /\ d.recs = <<>> =>
             kept =< d.next /\ d.columnStart + kept = d.lastMetadata.columnStart
    BY <1>1, <1>4, FirstKeptResult
  <2> HIDE DEF kept
  <2>3. n \in Nat /\ n =< kept
    BY <2>2, WholeResult
  <2> HIDE DEF n
  <2>4. /\ d.count \in Nat /\ d.next \in Int /\ d.columnStart \in Nat
        /\ d.recs \in Seq(Entries) /\ Len(d.recs) \in Nat
        /\ d.lastMetadata.columnStart \in Nat
        /\ \A i \in 1 .. Len(d.recs) : d.recs[i].start \in Int
    BY <1>1, DecoderType
  <2>5. d.recs # <<>> => 1 \in 1 .. Len(d.recs)
    <3>1. d.recs # <<>> => Len(d.recs) # 0
      BY <2>4, ShortSequence
    <3> QED  BY <2>4, <3>1
  <2>6. kept =< d.next
    <3>1. CASE d.recs # <<>>
      <4> DEFINE a == d.recs[1].start
      <4>1. kept =< a /\ a =< d.next /\ a \in Int
        BY <2>2, <2>4, <2>5, <3>1 DEF Timely
      <4> HIDE DEF a
      <4> QED  BY <2>2, <2>4, <4>1
    <3> QED  BY <2>2, <3>1
  <2>7. n < d.count /\ n =< d.next
    BY <2>2, <2>3, <2>4, <2>6
  <2>8. Timely(e) /\ CheckedIsMinimal(e) /\ Onward(d, e, {})
    BY <2>3, <2>7, DropIsOnward
  <2>9. /\ e.columnStart = d.columnStart + n /\ Len(e.recs) = Len(d.recs)
        /\ \A i \in 1 .. Len(d.recs) :
             e.recs[i].start = d.recs[i].start - n
        /\ e.lastMetadata = d.lastMetadata /\ e.recovered = d.recovered
    BY <1>1, <2>3, <2>7, DropFields
  <2> HIDE DEF e
  <2>10. ASSUME MetaStarts(d) PROVE MetaStarts(e)
    <3> DEFINE o == d.columnStart
               l == d.lastMetadata.columnStart
    <3>1. o + kept =< l
      <4>1. CASE d.recs # <<>>
        <5> DEFINE a == d.recs[1].start
        <5>1. kept =< a /\ a \in Int /\ o + a =< l
          BY <2>2, <2>4, <2>5, <2>10, <4>1 DEF MetaStarts
        <5> HIDE DEF a
        <5> QED  BY <2>2, <2>4, <5>1
      <4>2. CASE d.recs = <<>>
        BY <2>2, <2>4, <4>2
      <4> QED  BY <4>1, <4>2
    <3>2. e.columnStart =< l
      BY <2>2, <2>3, <2>4, <2>9, <3>1
    <3>3. ASSUME NEW i \in 1 .. Len(d.recs)
          PROVE  e.columnStart + e.recs[i].start =< l
      <4> DEFINE a == d.recs[i].start
      <4>1. e.recs[i].start = a - n /\ a \in Int /\ o + a =< l
        BY <2>4, <2>9, <2>10 DEF MetaStarts
      <4>2. e.columnStart = o + n /\ o \in Int /\ l \in Int
        BY <2>4, <2>9
      <4> HIDE DEF a, o, l
      <4> QED  BY <2>3, <4>1, <4>2
    <3> QED  BY <2>9, <3>2, <3>3 DEF MetaStarts
  <2> QED  BY <2>1, <2>8, <2>9, <2>10 DEF Trimmed
<1> QED  BY <1>2, <1>3, <1>4

(***************************************************************************)
(* So does the check with which AddRecovery starts.                        *)
(***************************************************************************)
LEMMA TrimIsOnward ==
  ASSUME NEW K \in Nat, K =< ColumnPeriod \div 2,
         NEW d, GoodDecoder(d, K), Timely(d), CheckedIsMinimal(d)
  PROVE  Trimmed(d, TrimPastChecked(d), K)
<1>1. d \in Decoders
  BY DEF GoodDecoder, GoodWindow
<1> QED  BY <1>1, RemoveIsOnward, UntouchedIsTrimmed DEF TrimPastChecked

-----------------------------------------------------------------------------
(* Original chunks                                                         *)

(***************************************************************************)
(* Before its first symbol a decoder is as it was made.                    *)
(***************************************************************************)
Started(d) == d.count = 0 => d = DecoderInit

(***************************************************************************)
(* An original chunk keeps a decoder timely and moves it forward by that   *)
(* chunk, or not at all when the decoder had it.                           *)
(***************************************************************************)
LEMMA AddOriginalIsOnward ==
  ASSUME NEW K \in Nat, K =< ColumnPeriod \div 2,
         NEW d, GoodDecoder(d, K), Timely(d), CheckedIsMinimal(d), Started(d),
         NEW column \in 0 .. K - 1
  PROVE  LET e == AddOriginal(d, column)
         IN  /\ Timely(e) /\ CheckedIsMinimal(e) /\ Onward(d, e, {column})
             /\ e.recovered = d.recovered /\ e.count > 0
             /\ e.columnStart = d.columnStart
<1> DEFINE x == DecoderElement(d, column)
           n == IF x + 1 > d.count THEN x + 1 ELSE d.count
           grown == GrowWindow(d, x + 1)
           a == [grown EXCEPT !.got = @ \cup {x}]
           e == IF x = d.next THEN AdvanceNext(a, x + 1) ELSE a
<1>1. d \in Decoders /\ WindowFits(d, K)
  BY DEF GoodDecoder, GoodWindow
<1>2. /\ d.columnStart \in Nat /\ d.count \in Nat /\ d.got \in SUBSET Int
      /\ d.checked \in Regions
  BY <1>1, DecoderType
<1>3. d.columnStart + d.count =< K /\ d.columnStart \in 0 .. K
  BY <1>1, <1>2 DEF WindowFits
<1>4. ~IsColumnDeltaNegative(x) => x = column - d.columnStart /\ x >= 0
  <2> SUFFICES ASSUME ~IsColumnDeltaNegative(x)
               PROVE  x = column - d.columnStart /\ x >= 0
    OBVIOUS
  <2>1. column \in 0 .. K
    OBVIOUS
  <2>2. ~IsColumnDeltaNegative(SubtractColumns(column, d.columnStart))
    BY DEF DecoderElement
  <2>3. /\ SubtractColumns(column, d.columnStart) = column - d.columnStart
        /\ column >= d.columnStart
    BY <1>3, <2>1, <2>2, ElementOfColumn
  <2> QED  BY <1>2, <2>3 DEF DecoderElement
<1>5. CASE IsColumnDeltaNegative(x) \/ x \in d.got
  <2>1. AddOriginal(d, column) = d
    BY <1>5 DEF AddOriginal
  <2>2. Onward(d, d, {})
    BY <1>1, <1>2, OnwardStays
  <2>3. HasColumn(d, column)
    <3>1. CASE ~IsColumnDeltaNegative(x)
      BY <1>4, <1>5, <3>1 DEF HasColumn
    <3>2. CASE IsColumnDeltaNegative(x)
      <4> SUFFICES ASSUME column >= d.columnStart,
                          column - d.columnStart \notin d.got
                   PROVE  FALSE
        BY <1>2 DEF HasColumn
      <4> DEFINE y == column - d.columnStart
                 h == ColumnPeriod \div 2
      <4>1. ColumnPeriod \in Nat /\ h \in Nat /\ 2 * h =< ColumnPeriod
            /\ ColumnPeriod > 1 /\ K =< h
        BY ColumnPeriodAssumption
      <4>2. y \in Column /\ y < h
        <5> HIDE DEF h
        <5> QED  BY <1>2, <4>1 DEF Column
      <4>3. y % ColumnPeriod = y
        BY <4>2, SmallResidue
      <4>4. x = y
        BY <4>3 DEF DecoderElement, SubtractColumns
      <4>5. y \in Int
        BY <1>2
      <4> HIDE DEF x, y
      <4> QED  BY <3>2, <4>1, <4>2, <4>4, <4>5 DEF IsColumnDeltaNegative
    <3> QED  BY <3>1, <3>2
  <2>4. Onward(d, d, {column})
    <3>1. \A c \in Nat : HasColumn(d, c) <=> HasColumn(d, c) \/ c \in {column}
      BY <2>3
    <3> QED  BY <2>2, <3>1 DEF Onward
  <2>5. d.count > 0
    <3> SUFFICES ASSUME d.count = 0 PROVE FALSE
      BY <1>2
    <3>1. d.columnStart = 0 /\ d.got = {}
      BY DEF Started, DecoderInit
    <3> QED  BY <2>3, <3>1 DEF HasColumn
  <2> QED  BY <2>1, <2>4, <2>5
<1>6. CASE ~(IsColumnDeltaNegative(x) \/ x \in d.got)
  <2>4. x = column - d.columnStart /\ x >= 0
    BY <1>4, <1>6
  <2>5. x \in Nat /\ d.columnStart + (x + 1) =< K
    BY <1>2, <2>4
  <2>6. AddOriginal(d, column) = ResetIfChecked(e, x)
    <3>1. AddOriginal(d, column)
            = IF IsColumnDeltaNegative(x) \/ x \in d.got THEN d
              ELSE ResetIfChecked(e, x)
      BY DEF AddOriginal
    <3> QED  BY <1>6, <3>1, Zenon
  <2> HIDE DEF x
  <2>7. /\ a \in Decoders /\ a.count = n /\ a.got = d.got \cup {x}
        /\ a.columnStart = d.columnStart /\ a.next = d.next
        /\ a.recs = d.recs /\ a.lastMetadata = d.lastMetadata
        /\ a.recovered = d.recovered /\ a.checked = d.checked
        /\ a.latestColumn = d.latestColumn /\ a.disabled = d.disabled
    <3>1. grown = [d EXCEPT !.count = n]
      BY <1>1 DEF GrowWindow, Decoders
    <3>2. n \in Nat
      BY <1>2, <2>5
    <3> HIDE DEF n, grown
    <3>3. /\ grown \in Decoders /\ grown.count = n /\ grown.got = d.got
          /\ grown.columnStart = d.columnStart /\ grown.next = d.next
          /\ grown.recs = d.recs /\ grown.lastMetadata = d.lastMetadata
          /\ grown.recovered = d.recovered /\ grown.checked = d.checked
          /\ grown.latestColumn = d.latestColumn /\ grown.disabled = d.disabled
      BY <1>1, <3>1, <3>2 DEF Decoders
    <3>4. d.got \cup {x} \in SUBSET Int
      BY <1>2, <2>5
    <3>5. a = [grown EXCEPT !.got = d.got \cup {x}]
      BY <3>3
    <3> HIDE DEF a
    <3> QED  BY <3>3, <3>4, <3>5 DEF Decoders
  <2>8. n \in Nat /\ d.count =< n /\ d.columnStart + n =< K /\ x \in 0 .. n - 1
    BY <1>2, <1>3, <2>5
  <2>9. AreOwnSymbols(a.recovered, K)
    BY <2>7 DEF GoodDecoder, GoodWindow
  <2> DEFINE c == IF x >= d.checked.start /\ x < d.checked.end
                  THEN NothingChecked ELSE d.checked
             f == [e EXCEPT !.checked = c]
  <2> HIDE DEF a, n
  <2>10. /\ GoodWindow(e, K)
         /\ e.checked = a.checked
         /\ GoodDecoder([e EXCEPT !.checked =
                           IF x >= d.checked.start /\ x < d.checked.end
                           THEN NothingChecked ELSE d.checked], K)
    BY <2>7, <2>8, <2>9, TakingInKeepsDecoder
  <2>11. ResetIfChecked(e, x) = f
    <3>1. e \in Decoders /\ e.checked = d.checked
      BY <2>7, <2>10 DEF GoodWindow
    <3> HIDE DEF e
    <3> QED  BY <3>1 DEF ResetIfChecked, ResetChecked, Decoders
  <2>12. TakenIn(d, a, x, AfterTaking(d, a, x), K)
    BY <2>7, <2>8, <2>9, TakingInIsOnward
  <2>13. d.columnStart + x = column
    BY <1>2, <2>4
  <2>14. AfterTaking(d, a, x) = f
    BY DEF AfterTaking
  <2> HIDE DEF f, e
  <2>15. AddOriginal(d, column) = f
    BY <2>6, <2>11
  <2>16. f.count > 0
    <3>1. f.count = n
      BY <2>7, <2>12, <2>14 DEF TakenIn
    <3> QED  BY <2>8, <3>1
  <2> HIDE DEF x
  <2> QED  BY <2>7, <2>12, <2>13, <2>14, <2>15, <2>16 DEF TakenIn
<1> QED  BY <1>5, <1>6

(***************************************************************************)
(* A longer window changes nothing of what the decoder has.                *)
(***************************************************************************)
LEMMA GrownIsOnward ==
  ASSUME NEW K \in Nat, NEW d, GoodDecoder(d, K), Timely(d),
         CheckedIsMinimal(d),
         NEW m \in Nat, d.columnStart + m =< K
  PROVE  LET e == GrowWindow(d, m)
         IN  /\ Timely(e) /\ CheckedIsMinimal(e) /\ Onward(d, e, {})
             /\ e.recovered = d.recovered /\ e.columnStart = d.columnStart
             /\ e.next = d.next /\ e.got = d.got /\ e.recs = d.recs
             /\ e.checked = d.checked
<1> DEFINE e == GrowWindow(d, m)
           n == IF m > d.count THEN m ELSE d.count
<1>1. d \in Decoders
  BY DEF GoodDecoder, GoodWindow
<1>2. d.count \in Nat
  BY <1>1, DecoderType
<1>3. n \in Nat /\ d.count =< n
  BY <1>2
<1>4. e = [d EXCEPT !.count = n]
  BY <1>1 DEF GrowWindow, Decoders
<1> HIDE DEF n, e
<1>5. /\ e \in Decoders /\ e.count = n /\ e.checked = d.checked
      /\ e.columnStart = d.columnStart /\ e.got = d.got
      /\ e.next = d.next /\ e.recs = d.recs
      /\ e.lastMetadata = d.lastMetadata /\ e.recovered = d.recovered
      /\ e.latestColumn = d.latestColumn /\ e.disabled = d.disabled
  BY <1>1, <1>3, <1>4 DEF Decoders
<1>6. /\ Onward(d, e, {}) /\ Timely(e) /\ CheckedIsMinimal(e)
  BY <1>1, <1>3, <1>5, OnwardStays
<1> QED  BY <1>5, <1>6 DEF e

-----------------------------------------------------------------------------
(* Inserting a recovery packet                                             *)

(***************************************************************************)
(* No two recovery packets end at the same column.                         *)
(***************************************************************************)
Apart(d) == \A i, j \in 1 .. Len(d.recs) :
              i < j => d.recs[i].end # d.recs[j].end

(***************************************************************************)
(* No recovery packet ends at this element.                                *)
(***************************************************************************)
EndIsNew(d, end) == \A i \in 1 .. Len(d.recs) : d.recs[i].end # end

(***************************************************************************)
(* What holds of the decoder e into which the entry r was inserted.        *)
(***************************************************************************)
Inserted(d, r, e) ==
  /\ e \in Decoders /\ Timely(e) /\ CheckedIsMinimal(e)
  /\ e.columnStart = d.columnStart /\ e.count = d.count /\ e.got = d.got
  /\ e.next = d.next /\ e.lastMetadata = d.lastMetadata
  /\ e.latestColumn = d.latestColumn /\ e.recovered = d.recovered
  /\ e.disabled = d.disabled
  /\ \A j \in 1 .. Len(e.recs) :
       e.recs[j] = r \/ \E i \in 1 .. Len(d.recs) : e.recs[j] = d.recs[i]
  /\ Apart(d) /\ EndIsNew(d, r.end) => Apart(e)

(***************************************************************************)
(* insert puts a packet which protects the column waited for where the     *)
(* packets stay sorted; a region checked is forgotten unless it lies       *)
(* before.                                                                 *)
(***************************************************************************)
LEMMA InsertIsTimely ==
  ASSUME NEW K \in Nat, NEW d, GoodDecoder(d, K), Timely(d),
         CheckedIsMinimal(d),
         NEW r \in Entries, r.start =< d.next, d.next < r.end
  PROVE  Inserted(d, r, Insert(d, r))
<1> DEFINE q == d.recs
           n == Len(q)
           prev == InsertionPoint(d, r)
           p == prev + 1
           t == InsertAt(q, p, r)
           a == [d EXCEPT !.recs = t]
           e == Insert(d, r)
<1>1. d \in Decoders /\ GoodWindow(d, K) /\ GoodChecked(d)
  BY DEF GoodDecoder, GoodWindow
<1>2. /\ q \in Seq(Entries) /\ n \in Nat /\ d.checked \in Regions
      /\ d.next \in Int /\ d.checked.count \in Nat
      /\ \A i \in 1 .. n : q[i].start \in Int /\ q[i].end \in Int
      /\ r.start \in Int /\ r.end \in Int
  BY <1>1, DecoderType DEF Entries
<1>3. /\ prev \in 0 .. n
      /\ prev > 0 => GoesAfter(r, q[prev])
      /\ \A i \in 1 .. n : i > prev => ~GoesAfter(r, q[i])
  <2> DEFINE S == {0} \cup {i \in 1 .. n : GoesAfter(r, q[i])}
  <2>1. prev = Max(S)
    BY DEF InsertionPoint
  <2>2. S \in SUBSET (0 .. n) /\ S # {}
    BY <1>2
  <2>3. Max(S) \in S /\ \A m \in S : m =< Max(S)
    <3> HIDE DEF S, n
    <3> QED  BY <1>2, <2>2, MaxResult
  <2>4. prev \in S /\ \A m \in S : m =< prev
    BY <2>1, <2>3
  <2> HIDE DEF prev
  <2> QED  BY <1>2, <2>4
<1>4. Insert(d, r) = IF prev = 0 \/ prev < n THEN ResetChecked(a) ELSE a
  BY <1>1 DEF Insert, Decoders
<1> HIDE DEF prev
<1>5. p \in 1 .. n + 1
  BY <1>2, <1>3
<1>6. /\ t \in Seq(Entries) /\ Len(t) = n + 1
      /\ \A i \in 1 .. n + 1 :
           t[i] = IF i < p THEN q[i] ELSE IF i = p THEN r ELSE q[i - 1]
  <2>1. q \in Seq(Entries) /\ p \in 1 .. Len(q) + 1 /\ r \in Entries
    BY <1>2, <1>5
  <2> HIDE DEF q, p
  <2>2. InsertAt(q, p, r) \in Seq(Entries)
        /\ IsInserted(q, p, r, InsertAt(q, p, r))
    BY <2>1, InsertAtResult
  <2> QED  BY <2>2 DEF IsInserted
<1>7. ASSUME NEW i \in 1 .. n
      PROVE  (i < p => q[i].end =< r.end) /\ (~(i < p) => r.end =< q[i].end)
  <2>1. ASSUME i < p PROVE q[i].end =< r.end
    <3>1. prev \in 1 .. n /\ (i < prev \/ i = prev)
      BY <1>2, <1>3, <2>1
    <3>2. q[i].end =< q[prev].end
      BY <1>2, <3>1 DEF Timely, Sorted
    <3>3. q[prev].end =< r.end
      BY <1>2, <1>3, <3>1 DEF GoesAfter
    <3>4. q[i].end \in Int /\ q[prev].end \in Int
      BY <1>2, <3>1
    <3> QED  BY <1>2, <3>2, <3>3, <3>4
  <2>2. ASSUME ~(i < p) PROVE r.end =< q[i].end
    <3>1. i > prev
      BY <1>3, <2>2
    <3> QED  BY <1>2, <1>3, <3>1 DEF GoesAfter
  <2> QED  BY <2>1, <2>2
<1>8. ASSUME NEW j \in 1 .. n + 1
      PROVE  \/ j = p /\ t[j] = r
             \/ j < p /\ j \in 1 .. n /\ t[j] = q[j]
             \/ j > p /\ j - 1 \in 1 .. n /\ ~(j - 1 < p) /\ t[j] = q[j - 1]
  <2>1. t[j] = IF j < p THEN q[j] ELSE IF j = p THEN r ELSE q[j - 1]
    BY <1>6
  <2>2. n \in Nat
    BY <1>2
  <2> HIDE DEF n, p, q, t
  <2>3. \/ j = p
        \/ j < p /\ j \in 1 .. n
        \/ j > p /\ ~(j < p) /\ j # p /\ j - 1 \in 1 .. n /\ ~(j - 1 < p)
    BY <1>5, <2>2
  <2>4. j = p => ~(j < p)
    BY <1>5
  <2> QED  BY <2>1, <2>3, <2>4
<1> HIDE DEF t, p
<1>9. p \in Int
  BY <1>5
<1>10. ASSUME NEW i \in 1 .. n + 1, NEW j \in 1 .. n + 1, i < j
       PROVE  /\ t[i].end =< t[j].end
              /\ Apart(d) /\ EndIsNew(d, r.end) => t[i].end # t[j].end
  <2>1. CASE i = p
    <3>1. t[i] = r /\ j - 1 \in 1 .. n /\ ~(j - 1 < p) /\ t[j] = q[j - 1]
      BY <1>8, <1>9, <1>10, <2>1
    <3>2. r.end =< q[j - 1].end
      BY <1>7, <3>1
    <3> QED  BY <3>1, <3>2 DEF EndIsNew
  <2>2. CASE i < p /\ j = p
    <3>1. t[j] = r /\ i \in 1 .. n /\ t[i] = q[i]
      BY <1>8, <1>9, <2>2
    <3> QED  BY <1>7, <2>2, <3>1 DEF EndIsNew
  <2>3. CASE i < p /\ j < p
    <3>1. i \in 1 .. n /\ j \in 1 .. n /\ t[i] = q[i] /\ t[j] = q[j]
      BY <1>8, <1>9, <2>3
    <3> QED  BY <1>10, <3>1 DEF Timely, Sorted, Apart
  <2>4. CASE i < p /\ j > p
    <3>1. i \in 1 .. n /\ j - 1 \in 1 .. n /\ t[i] = q[i] /\ t[j] = q[j - 1]
          /\ i < j - 1
      BY <1>8, <1>9, <2>4
    <3> QED  BY <3>1 DEF Timely, Sorted, Apart
  <2>5. CASE i > p
    <3>1. i - 1 \in 1 .. n /\ j - 1 \in 1 .. n /\ t[i] = q[i - 1]
          /\ t[j] = q[j - 1] /\ i - 1 < j - 1
      BY <1>8, <1>9, <1>10, <2>5
    <3> QED  BY <3>1 DEF Timely, Sorted, Apart
  <2>6. i \in Int /\ j \in Int
    BY <1>2
  <2> QED  BY <1>9, <1>10, <2>1, <2>2, <2>3, <2>4, <2>5, <2>6
<1> HIDE DEF a
<1>11. /\ a \in Decoders /\ a.recs = t /\ a.checked = d.checked
       /\ a.columnStart = d.columnStart /\ a.got = d.got
       /\ a.next = d.next /\ a.count = d.count
       /\ a.lastMetadata = d.lastMetadata /\ a.recovered = d.recovered
       /\ a.latestColumn = d.latestColumn /\ a.disabled = d.disabled
  BY <1>1, <1>6 DEF Decoders, a
<1>12. NothingChecked \in Regions /\ NothingChecked.count = 0
  BY DEF NothingChecked, Regions
<1>13. /\ e \in Decoders /\ e.recs = t
       /\ e.columnStart = d.columnStart /\ e.got = d.got
       /\ e.next = d.next /\ e.count = d.count
       /\ e.lastMetadata = d.lastMetadata /\ e.recovered = d.recovered
       /\ e.latestColumn = d.latestColumn /\ e.disabled = d.disabled
       /\ \/ e.checked = NothingChecked
          \/ e.checked = d.checked /\ prev = n
  <2>1. CASE prev = 0 \/ prev < n
    <3>1. e = [a EXCEPT !.checked = NothingChecked]
      BY <1>4, <2>1 DEF ResetChecked
    <3> HIDE DEF e
    <3> QED  BY <1>11, <1>12, <3>1 DEF Decoders
  <2>2. CASE ~(prev = 0 \/ prev < n)
    <3>1. e = a /\ prev = n
      BY <1>2, <1>3, <1>4, <2>2
    <3> QED  BY <1>11, <3>1
  <2> QED  BY <2>1, <2>2
<1> HIDE DEF e
<1>14. ASSUME NEW j \in 1 .. Len(e.recs)
       PROVE  e.recs[j] = r \/ \E i \in 1 .. Len(d.recs) : e.recs[j] = d.recs[i]
  <2>1. j \in 1 .. n + 1
    BY <1>6, <1>13
  <2> QED  BY <1>8, <1>13, <2>1
<1>15. Timely(e)
  <2>1. ASSUME NEW j \in 1 .. Len(e.recs)
        PROVE  e.recs[j].start =< e.next /\ e.next < e.recs[j].end
    BY <1>13, <1>14 DEF Timely
  <2>2. Sorted(e)
    BY <1>6, <1>10, <1>13 DEF Sorted
  <2> QED  BY <1>13, <2>1, <2>2 DEF Timely
<1>16. Apart(d) /\ EndIsNew(d, r.end) => Apart(e)
  BY <1>6, <1>10, <1>13 DEF Apart
<1>17. CheckedIsMinimal(e)
  <2> SUFFICES ASSUME e.checked.count > 0, NEW j \in 1 .. e.checked.count - 1
               PROVE  j < LossesTo(e, j)
    BY DEF CheckedIsMinimal
  <2>1. e.checked = d.checked /\ prev = n
    BY <1>12, <1>13
  <2>2. GoodRegion(d, d.checked)
    BY <1>1, <2>1 DEF GoodChecked
  <2>3. d.checked.count =< n
    BY <1>2, <2>2 DEF GoodRegion
  <2>4. j \in 1 .. n /\ j < p /\ j \in 1 .. n + 1
    BY <1>2, <2>1, <2>3 DEF p
  <2>5. e.recs[j] = d.recs[j]
    BY <1>6, <1>13, <2>4
  <2>6. j < LossesTo(d, j)
    BY <2>1 DEF CheckedIsMinimal
  <2> QED  BY <1>13, <2>5, <2>6 DEF LossesTo, RangeLost
<1> QED  BY <1>13, <1>14, <1>15, <1>16, <1>17 DEF Inserted, e

-----------------------------------------------------------------------------
(* A recovery packet that protects the column waited for                   *)

(***************************************************************************)
(* What a recovery packet on the wire becomes as an entry.                 *)
(***************************************************************************)
PacketView(p) == [start |-> p.columnStart, end |-> p.columnStart + p.sumCount,
                  row |-> p.row]

(***************************************************************************)
(* The recovery packets of e are among those of d.                         *)
(***************************************************************************)
ViewsAmong(d, e) ==
  \A i \in 1 .. Len(e.recs) :
    \E j \in 1 .. Len(d.recs) : View(e, e.recs[i]) = View(d, d.recs[j])

(***************************************************************************)
(* The later packets are among the packets, and end apart when these do.   *)
(***************************************************************************)
LEMMA LaterViewsAmong ==
  ASSUME NEW d \in Decoders, NEW e \in Decoders, LaterViews(d, e)
  PROVE  ViewsAmong(d, e) /\ (Apart(d) => Apart(e))
<1>1. /\ Len(d.recs) \in Nat /\ Len(e.recs) \in Nat
      /\ d.columnStart \in Nat /\ e.columnStart \in Nat
      /\ \A i \in 1 .. Len(d.recs) : d.recs[i].end \in Int
      /\ \A i \in 1 .. Len(e.recs) : e.recs[i].end \in Int
  BY DecoderType
<1>2. PICK k \in 0 .. Len(d.recs) :
        /\ Len(e.recs) = Len(d.recs) - k
        /\ \A i \in 1 .. Len(d.recs) - k :
             View(e, e.recs[i]) = View(d, d.recs[i + k])
  BY DEF LaterViews
<1>3. ASSUME NEW i \in 1 .. Len(e.recs)
      PROVE  /\ i + k \in 1 .. Len(d.recs)
             /\ View(e, e.recs[i]) = View(d, d.recs[i + k])
  <2>1. i \in 1 .. Len(d.recs) - k
    BY <1>2
  <2>2. i + k \in 1 .. Len(d.recs)
    BY <1>1, <2>1
  <2> QED  BY <1>2, <2>1, <2>2
<1>4. ViewsAmong(d, e)
  BY <1>3 DEF ViewsAmong
<1>5. ASSUME Apart(d), NEW i \in 1 .. Len(e.recs), NEW j \in 1 .. Len(e.recs),
             i < j
      PROVE  e.recs[i].end # e.recs[j].end
  <2> DEFINE a == e.recs[i].end
             b == e.recs[j].end
             u == d.recs[i + k].end
             v == d.recs[j + k].end
             o == d.columnStart
             n == e.columnStart
  <2>1. u # v
    <3>1. i + k < j + k
      BY <1>5
    <3> QED  BY <1>3, <1>5, <3>1 DEF Apart
  <2>2. n + a = o + u /\ n + b = o + v
    BY <1>3 DEF View
  <2>3. a \in Int /\ b \in Int /\ u \in Int /\ v \in Int /\ o \in Int
        /\ n \in Int
    <3>1. i + k \in 1 .. Len(d.recs) /\ j + k \in 1 .. Len(d.recs)
      BY <1>3
    <3>2. u \in Int /\ v \in Int
      BY <1>1, <3>1
    <3>3. a \in Int /\ b \in Int
      BY <1>1
    <3> QED  BY <1>1, <3>2, <3>3
  <2> HIDE DEF a, b, u, v, o, n
  <2>4. a # b
    BY <2>1, <2>2, <2>3
  <2> QED  BY <2>4 DEF a, b
<1> QED  BY <1>4, <1>5 DEF Apart

(***************************************************************************)
(* What a recovery packet brings: nothing, or its chunk when it protects   *)
(* one only, and then a chunk the decoder lacked and is past now.          *)
(***************************************************************************)
NewColumns(d, p, e) ==
  \/ /\ p.sumCount > 1 /\ e.recovered = d.recovered
     /\ \A c \in Nat : HasColumn(e, c) <=> HasColumn(d, c)
  \/ /\ p.sumCount = 1
     /\ e.recovered = d.recovered \cup {<<p.columnStart, p.first>>}
     /\ ~HasColumn(d, p.columnStart) /\ p.columnStart < Place(e)
     /\ \A c \in Nat : HasColumn(e, c) <=> HasColumn(d, c) \/ c = p.columnStart

(***************************************************************************)
(* No recovery packet ends where p does.                                   *)
(***************************************************************************)
EndIsOthers(d, p) ==
  \A i \in 1 .. Len(d.recs) : View(d, d.recs[i]).end # PacketView(p).end

(***************************************************************************)
(* What holds of the decoder e which has looked at the recovery packet p:  *)
(* it holds p or does not, and nothing else is new but what p brings.      *)
(***************************************************************************)
Held(d, p, e) ==
  /\ Timely(e) /\ CheckedIsMinimal(e)
  /\ Place(d) =< Place(e) /\ e.count > 0 /\ e.disabled = d.disabled
  /\ \A i \in 1 .. Len(e.recs) :
       \/ View(e, e.recs[i]) = PacketView(p)
       \/ \E j \in 1 .. Len(d.recs) : View(e, e.recs[i]) = View(d, d.recs[j])
  /\ Apart(d) /\ EndIsOthers(d, p) => Apart(e)
  /\ NewColumns(d, p, e)

(***************************************************************************)
(* Trimming the window afterwards keeps that.                              *)
(***************************************************************************)
LEMMA HeldAndTrimmed ==
  ASSUME NEW d \in Decoders, NEW m \in Decoders, NEW e \in Decoders, NEW p,
         p.columnStart \in Nat,
         Held(d, p, m), Timely(e), CheckedIsMinimal(e), Onward(m, e, {}),
         e.recovered = m.recovered
  PROVE  Held(d, p, e)
<1>1. Place(d) \in Int /\ Place(m) \in Int /\ Place(e) \in Int
  BY DecoderType DEF Place
<1>2. Place(d) =< Place(m) /\ Place(m) =< Place(e)
  BY DEF Held, Onward
<1>3. ViewsAmong(m, e) /\ (Apart(m) => Apart(e))
  BY LaterViewsAmong DEF Onward
<1>4. NewColumns(d, p, e)
  <2>1. \A c \in Nat : HasColumn(e, c) <=> HasColumn(m, c)
    BY DEF Onward
  <2>2. NewColumns(d, p, m)
    BY DEF Held
  <2>3. p.columnStart < Place(m) => p.columnStart < Place(e)
    BY <1>1, <1>2
  <2> QED  BY <2>1, <2>2, <2>3 DEF NewColumns
<1>5. ASSUME NEW i \in 1 .. Len(e.recs)
      PROVE  \/ View(e, e.recs[i]) = PacketView(p)
             \/ \E j \in 1 .. Len(d.recs) :
                  View(e, e.recs[i]) = View(d, d.recs[j])
  <2>1. PICK j \in 1 .. Len(m.recs) : View(e, e.recs[i]) = View(m, m.recs[j])
    BY <1>3 DEF ViewsAmong
  <2> QED  BY <2>1 DEF Held
<1>6. Place(d) =< Place(e)
  BY <1>1, <1>2
<1> QED  BY <1>3, <1>4, <1>5, <1>6 DEF Held, Onward

(***************************************************************************)
(* The window, and every recovery packet, starts no later than column c.   *)
(***************************************************************************)
StartsBy(d, c) ==
  /\ d.columnStart =< c
  /\ \A i \in 1 .. Len(d.recs) : d.columnStart + d.recs[i].start =< c

(***************************************************************************)
(* The metadata kept after a packet: that of the packet, unless it is late *)
(* or of one chunk.                                                        *)
(***************************************************************************)
MetadataAfter(d, p, late) ==
  IF late \/ p.sumCount = 1 THEN d.lastMetadata
  ELSE [columnStart |-> p.columnStart, sumCount |-> p.sumCount]

(***************************************************************************)
(* With that metadata, no packet starts after the last.                    *)
(***************************************************************************)
MetadataFine(d, p, late) ==
  /\ StartsBy(d, MetadataAfter(d, p, late).columnStart)
  /\ p.sumCount > 1 =>
       p.columnStart =< MetadataAfter(d, p, late).columnStart

(***************************************************************************)
(* What AddRecovery makes of a packet that protects the column waited for. *)
(***************************************************************************)
Used(d, p, e, late, K) ==
  \/ e.disabled /\ ~(K < ColumnPeriod \div 2 /\ MetadataFine(d, p, late))
  \/ /\ Held(d, p, e)
     /\ e.latestColumn = d.latestColumn
     /\ e.lastMetadata = MetadataAfter(d, p, late)
     /\ MetadataFine(d, p, late) => MetaStarts(e)

(***************************************************************************)
(* A recovery packet of one chunk is that chunk.                           *)
(***************************************************************************)
LEMMA SingleIsUsed ==
  ASSUME NEW K \in Nat, K =< ColumnPeriod \div 2,
         NEW d, GoodDecoder(d, K), Timely(d), CheckedIsMinimal(d),
         NEW p, GoodPacket(p, K), p.sumCount = 1,
         NEW x \in Nat, x < d.count, p.columnStart = d.columnStart + x,
         x = d.next, NEW late \in BOOLEAN
  PROVE  Used(d, p, AddSingleRecovery(d, p, x), late, K)
<1> DEFINE symbol == <<p.columnStart, p.first>>
           got == d.got \cup {x}
           recovered == d.recovered \cup {symbol}
           b == [d EXCEPT !.got = got, !.recovered = recovered]
           c == IF x >= d.checked.start /\ x < d.checked.end
                THEN NothingChecked ELSE d.checked
           a == ResetIfChecked(b, x)
           e == AdvanceNext(a, x + 1)
           f == AfterTaking(d, a, x)
<1>1. d \in Decoders /\ GoodWindow(d, K) /\ WindowFits(d, K)
  BY DEF GoodDecoder, GoodWindow
<1>2. /\ d.count \in Nat /\ d.columnStart \in Nat /\ d.got \in SUBSET Int
      /\ d.checked \in Regions /\ d.recovered \in SUBSET (Nat \X Nat)
      /\ x \notin d.got /\ d.columnStart + d.count =< K
  BY <1>1, DecoderType DEF Timely, WindowFits
<1>3. AddSingleRecovery(d, p, x) = TrimPastChecked(e)
  <2>1. b = [d EXCEPT !.got = @ \cup {x}, !.recovered = @ \cup {symbol}]
    BY <1>1 DEF Decoders
  <2>2. AddSingleRecovery(d, p, x)
          = IF x \in d.got THEN d
            ELSE IF x # d.next THEN ResetIfChecked(b, x)
            ELSE TrimPastChecked(AdvanceNext(ResetIfChecked(b, x), x + 1))
    <3> HIDE DEF b
    <3> QED  BY <2>1, Zenon DEF AddSingleRecovery
  <2> HIDE DEF b
  <2> QED  BY <1>2, <2>2
<1>4. /\ symbol \in Nat \X Nat /\ symbol[2] \in 1 .. K
      /\ symbol[2] = symbol[1] + 1
  <2>1. /\ p.columnStart \in Nat /\ p.sumCount \in Nat /\ p.sumCount > 0
        /\ p.first = p.columnStart + 1 /\ p.columnStart + p.sumCount =< K
    BY DEF GoodPacket
  <2>2. symbol[1] = p.columnStart /\ symbol[2] = p.columnStart + 1
    BY <2>1
  <2>3. p.columnStart + 1 \in 1 .. K
    BY <2>1
  <2> QED  BY <2>1, <2>2, <2>3
<1> HIDE DEF symbol
<1>5. recovered \in SUBSET (Nat \X Nat) /\ AreOwnSymbols(recovered, K)
  <2>1. AreOwnSymbols(d.recovered, K)
    BY <1>1 DEF GoodWindow
  <2> QED  BY <1>2, <1>4, <2>1 DEF AreOwnSymbols
<1>6. got \in SUBSET Int
  BY <1>2
<1> HIDE DEF got, recovered
<1>7. /\ b \in Decoders /\ b.count = d.count /\ b.got = got
      /\ b.columnStart = d.columnStart /\ b.next = d.next
      /\ b.recs = d.recs /\ b.lastMetadata = d.lastMetadata
      /\ b.recovered = recovered /\ b.checked = d.checked
      /\ b.latestColumn = d.latestColumn /\ b.disabled = d.disabled
  BY <1>1, <1>5, <1>6 DEF Decoders
<1>8. c \in Regions
  BY <1>2 DEF NothingChecked, Regions
<1> HIDE DEF b
<1>9. a = [b EXCEPT !.checked = c]
  BY <1>7 DEF ResetIfChecked, ResetChecked, Decoders
<1> HIDE DEF a, c
<1>10. /\ a \in Decoders /\ a.count = d.count /\ a.got = d.got \cup {x}
       /\ a.columnStart = d.columnStart /\ a.next = d.next
       /\ a.recs = d.recs /\ a.lastMetadata = d.lastMetadata
       /\ AreOwnSymbols(a.recovered, K) /\ a.checked = c
       /\ a.latestColumn = d.latestColumn /\ a.disabled = d.disabled
       /\ a.recovered = recovered
  <2>1. a \in Decoders /\ a.checked = c /\ a.got = b.got
        /\ a.recovered = b.recovered
    BY <1>7, <1>8, <1>9 DEF Decoders
  <2>2. /\ a.columnStart = b.columnStart /\ a.next = b.next /\ a.count = b.count
        /\ a.recs = b.recs /\ a.lastMetadata = b.lastMetadata
        /\ a.latestColumn = b.latestColumn /\ a.disabled = b.disabled
    BY <1>7, <1>9 DEF Decoders
  <2> QED  BY <1>5, <1>7, <2>1, <2>2 DEF got
<1>11. PICK n \in Nat : n = d.count
  BY <1>2
<1>12. d.count =< n /\ d.columnStart + n =< K /\ x \in 0 .. n - 1 /\ a.count = n
  BY <1>2, <1>10, <1>11
<1>13. TakenIn(d, a, x, f, K)
  <2>1. TakenIn(d, a, x, AfterTaking(d, a, x), K)
    BY <1>10, <1>12, TakingInIsOnward
  <2> QED  BY <2>1
<1>14. f.checked = c /\ a.checked = c
  <2>1. \A g \in Decoders : [g EXCEPT !.checked = c].checked = c
    BY DEF Decoders
  <2>2. f = [(IF x = d.next THEN AdvanceNext(a, x + 1) ELSE a)
               EXCEPT !.checked = c]
    BY DEF AfterTaking, c
  <2>3. f \in Decoders
    BY <1>13 DEF TakenIn, GoodDecoder, GoodWindow
  <2> QED  BY <1>10, <2>2, <2>3 DEF Decoders
<1>15. f = e /\ GoodDecoder(e, K)
  BY <1>13, <1>14 DEF TakenIn
<1> HIDE DEF e, f
<1>16. /\ Timely(e) /\ CheckedIsMinimal(e) /\ Onward(d, e, {d.columnStart + x})
       /\ e.recovered = recovered /\ e.count > 0
       /\ p.columnStart < Place(e) /\ e.columnStart = d.columnStart
       /\ e \in Decoders
  BY <1>2, <1>10, <1>13, <1>15 DEF TakenIn, GoodDecoder, GoodWindow
<1>17. Held(d, p, e)
  <2>1. NewColumns(d, p, e)
    <3>1. ~HasColumn(d, p.columnStart)
      <4>1. p.columnStart - d.columnStart = x
            /\ ~(p.columnStart < d.columnStart)
        BY <1>2
      <4> QED  BY <1>2, <4>1 DEF HasColumn
    <3>2. \A m \in Nat :
            HasColumn(e, m) <=> HasColumn(d, m) \/ m = p.columnStart
      BY <1>16 DEF Onward
    <3>3. e.recovered = d.recovered \cup {<<p.columnStart, p.first>>}
      BY <1>16 DEF recovered, symbol
    <3> QED  BY <1>16, <3>1, <3>2, <3>3 DEF NewColumns
  <2>2. ViewsAmong(d, e) /\ (Apart(d) => Apart(e))
    BY <1>1, <1>16, LaterViewsAmong DEF Onward
  <2> QED  BY <1>16, <2>1, <2>2 DEF Held, Onward, ViewsAmong
<1>18. e.lastMetadata = d.lastMetadata /\ e.latestColumn = d.latestColumn
  BY <1>16 DEF Onward
<1>19. MetadataAfter(d, p, late) = d.lastMetadata
  BY DEF MetadataAfter
<1>20. MetadataFine(d, p, late) => MetaStarts(e)
  <2> SUFFICES ASSUME StartsBy(d, d.lastMetadata.columnStart)
               PROVE  MetaStarts(e)
    BY <1>19 DEF MetadataFine
  <2>1. ViewsAmong(d, e)
    BY <1>1, <1>16, LaterViewsAmong DEF Onward
  <2>2. ASSUME NEW i \in 1 .. Len(e.recs)
        PROVE  e.columnStart + e.recs[i].start =< e.lastMetadata.columnStart
    <3>1. PICK j \in 1 .. Len(d.recs) : View(e, e.recs[i]) = View(d, d.recs[j])
      BY <2>1 DEF ViewsAmong
    <3>2. e.columnStart + e.recs[i].start = d.columnStart + d.recs[j].start
      BY <3>1 DEF View
    <3> QED  BY <1>18, <3>2 DEF StartsBy
  <2> QED  BY <1>16, <1>18, <2>2 DEF MetaStarts, StartsBy
<1>21. Trimmed(e, TrimPastChecked(e), K)
  BY <1>15, <1>16, TrimIsOnward
<1> DEFINE t == TrimPastChecked(e)
<1>22. t \in Decoders
  BY <1>15, TrimResult DEF GoodDecoder, GoodWindow
<1> HIDE DEF t
<1>23. Trimmed(e, t, K) /\ AddSingleRecovery(d, p, x) = t
  BY <1>3, <1>21 DEF t
<1>24. CASE t.disabled /\ ~(K < ColumnPeriod \div 2 /\ MetaStarts(e))
  BY <1>20, <1>23, <1>24 DEF Used
<1>25. CASE /\ Timely(t) /\ CheckedIsMinimal(t) /\ Onward(e, t, {})
            /\ t.recovered = e.recovered
            /\ MetaStarts(e) => MetaStarts(t)
  <2>1. p.columnStart \in Nat
    BY DEF GoodPacket
  <2>2. Held(d, p, t)
    BY <1>1, <1>16, <1>17, <1>22, <1>25, <2>1, HeldAndTrimmed
  <2>3. t.lastMetadata = d.lastMetadata /\ t.latestColumn = d.latestColumn
    BY <1>18, <1>25 DEF Onward
  <2> QED  BY <1>19, <1>20, <1>23, <1>25, <2>2, <2>3 DEF Used
<1> QED  BY <1>23, <1>24, <1>25 DEF Trimmed

(***************************************************************************)
(* One of several chunks is inserted, and the window trimmed.              *)
(***************************************************************************)
LEMMA KeepIsUsed ==
  ASSUME NEW K \in Nat, K =< ColumnPeriod \div 2,
         NEW d, GoodDecoder(d, K), Timely(d), CheckedIsMinimal(d),
         NEW p, GoodPacket(p, K), p.sumCount > 1,
         NEW x \in Nat, x + p.sumCount =< d.count,
         p.columnStart = d.columnStart + x,
         x =< d.next, d.next < x + p.sumCount, NEW late \in BOOLEAN
  PROVE  Used(d, p, KeepRecovery(d, p, x, late), late, K)
<1> DEFINE end == x + p.sumCount
           r == [columnStart |-> p.columnStart, start |-> x,
                 end |-> x + p.sumCount, row |-> p.row, first |-> p.first]
           inserted == Insert(d, r)
           noted == IF late THEN inserted ELSE RememberMetadata(inserted, p)
           lm == MetadataAfter(d, p, late)
           t == KeepRecovery(d, p, x, late)
<1>1. /\ p.columnStart \in Nat /\ p.sumCount \in Nat /\ p.sumCount > 0
      /\ p.row \in Nat /\ p.first \in Nat /\ p.first = p.columnStart + 1
      /\ p.columnStart + p.sumCount =< K
  BY DEF GoodPacket
<1>2. d \in Decoders /\ WindowFits(d, K)
  BY DEF GoodDecoder, GoodWindow
<1>3. d.columnStart \in Nat /\ d.count \in Nat /\ Len(d.recs) \in Nat
      /\ d.lastMetadata \in [columnStart : Nat, sumCount : Nat]
      /\ \A i \in 1 .. Len(d.recs) : d.recs[i].end \in Int
                                     /\ d.recs[i].start \in Int
  BY <1>2, DecoderType
<1>3a. p.columnStart + p.sumCount = d.columnStart + end
  <2>1. d.columnStart \in Int /\ p.sumCount \in Int /\ x \in Int
    BY <1>1, <1>3
  <2> QED  BY <2>1
<1>4. t = IF x >= RemoveThreshold THEN RemoveElements(noted) ELSE noted
  BY DEF KeepRecovery
<1>5. /\ r \in Entries /\ r.start = x /\ r.end = end /\ r.first = p.first
      /\ r.row = p.row
  <2>1. x \in Int /\ end \in Int /\ p.first \in Int
    BY <1>1
  <2> QED  BY <1>1, <2>1 DEF Entries
<1> HIDE DEF r
<1>6. EntryFits(d, r) /\ r.start =< d.next /\ d.next < r.end
  BY <1>1, <1>3, <1>5 DEF EntryFits
<1>7. /\ GoodDecoder(inserted, K)
      /\ \E i \in 1 .. Len(inserted.recs) : inserted.recs[i] = r
  <2>1. LET e == Insert(d, r)
        IN  /\ GoodDecoder(e, K)
            /\ \E i \in 1 .. Len(e.recs) : e.recs[i] = r
            /\ e.columnStart = d.columnStart /\ e.count = d.count
            /\ e.next = d.next
    BY <1>5, <1>6, InsertResult
  <2> QED  BY <2>1 DEF inserted
<1>8. Inserted(d, r, Insert(d, r))
  BY <1>5, <1>6, InsertIsTimely
<1>9. Inserted(d, r, inserted)
  BY <1>8
<1> HIDE DEF inserted
<1>10. inserted \in Decoders
  BY <1>9 DEF Inserted
<1>11. GoodDecoder(RememberMetadata(inserted, p), K)
  <2>1. inserted.count # 0
    <3> DEFINE n == p.sumCount
               m == d.count
    <3>1. inserted.count = m
      BY <1>9 DEF Inserted
    <3>2. n \in Nat /\ n > 0 /\ m \in Nat /\ x + n =< m
      BY <1>1, <1>3
    <3> HIDE DEF n, m
    <3>3. m # 0
      BY <3>2
    <3> QED  BY <3>1, <3>3
  <2>2. end \in Int /\ p.columnStart + p.sumCount = inserted.columnStart + end
    <3>1. end \in Int /\ p.columnStart + p.sumCount = d.columnStart + end
      BY <1>1, <1>3a
    <3> HIDE DEF end
    <3> QED  BY <1>9, <3>1 DEF Inserted
  <2>3. \E i \in 1 .. Len(inserted.recs) : inserted.recs[i].end = end
    <3> HIDE DEF end
    <3> QED  BY <1>5, <1>7
  <2> HIDE DEF end
  <2> QED  BY <1>7, <2>1, <2>2, <2>3, RememberResult
<1>12. GoodDecoder(noted, K) /\ noted \in Decoders
  BY <1>7, <1>11 DEF GoodDecoder, GoodWindow
<1>13. lm \in [columnStart : Nat, sumCount : Nat]
       /\ lm = IF late THEN d.lastMetadata
               ELSE [columnStart |-> p.columnStart, sumCount |-> p.sumCount]
  <2>1. [columnStart |-> p.columnStart, sumCount |-> p.sumCount]
          \in [columnStart : Nat, sumCount : Nat]
    BY <1>1
  <2>2. CASE late
    BY <1>3, <2>2 DEF MetadataAfter
  <2>3. CASE ~late
    BY <2>1, <2>3 DEF MetadataAfter
  <2> QED  BY <2>2, <2>3
<1> HIDE DEF lm
<1>14. noted = [inserted EXCEPT !.lastMetadata = lm]
  <2>1. CASE late
    <3>1. lm = inserted.lastMetadata
      BY <1>9, <1>13, <2>1 DEF Inserted
    <3> QED  BY <1>10, <2>1, <3>1 DEF Decoders
  <2>2. CASE ~late
    BY <1>13, <2>2 DEF RememberMetadata
  <2> QED  BY <2>1, <2>2
<1> HIDE DEF noted
<1>15. /\ noted.columnStart = d.columnStart /\ noted.count = d.count
       /\ noted.got = d.got /\ noted.next = d.next /\ noted.lastMetadata = lm
       /\ noted.recs = inserted.recs /\ noted.checked = inserted.checked
       /\ noted.latestColumn = d.latestColumn
       /\ noted.recovered = d.recovered /\ noted.disabled = d.disabled
  <2>1. /\ noted.columnStart = inserted.columnStart
        /\ noted.count = inserted.count
        /\ noted.got = inserted.got /\ noted.next = inserted.next
        /\ noted.lastMetadata = lm
        /\ noted.recs = inserted.recs /\ noted.checked = inserted.checked
        /\ noted.latestColumn = inserted.latestColumn
        /\ noted.recovered = inserted.recovered
        /\ noted.disabled = inserted.disabled
    BY <1>10, <1>13, <1>14 DEF Decoders
  <2> QED  BY <1>9, <2>1 DEF Inserted
<1>16. Timely(noted) /\ CheckedIsMinimal(noted)
  <2>1. Timely(inserted) /\ CheckedIsMinimal(inserted)
        /\ inserted.next = d.next /\ inserted.got = d.got
    BY <1>9 DEF Inserted
  <2>2. Timely(noted)
    BY <1>15, <2>1 DEF Timely, Sorted
  <2>3. CheckedIsMinimal(noted)
    BY <1>15, <2>1 DEF CheckedIsMinimal, LossesTo, RangeLost
  <2> QED  BY <2>2, <2>3
<1>17. ASSUME NEW j \in 1 .. Len(noted.recs)
       PROVE  \/ /\ noted.recs[j] = r
                 /\ View(noted, noted.recs[j]) = PacketView(p)
              \/ \E i \in 1 .. Len(d.recs) :
                   /\ noted.recs[j] = d.recs[i]
                   /\ View(noted, noted.recs[j]) = View(d, d.recs[i])
  <2>1. CASE noted.recs[j] = r
    <3> HIDE DEF end
    <3> QED  BY <1>3a, <1>5, <1>15, <2>1 DEF View, PacketView
  <2>2. CASE \E i \in 1 .. Len(d.recs) : noted.recs[j] = d.recs[i]
    BY <1>15, <2>2 DEF View
  <2> QED  BY <1>9, <1>15, <2>1, <2>2 DEF Inserted
<1>18. Apart(d) /\ EndIsOthers(d, p) => Apart(noted)
  <2> SUFFICES ASSUME Apart(d), EndIsOthers(d, p) PROVE Apart(noted)
    OBVIOUS
  <2>1. EndIsNew(d, r.end)
    <3> SUFFICES ASSUME NEW i \in 1 .. Len(d.recs) PROVE d.recs[i].end # end
      BY <1>5 DEF EndIsNew
    <3>1. d.columnStart + d.recs[i].end # p.columnStart + p.sumCount
      BY DEF EndIsOthers, View, PacketView
    <3>2. p.columnStart + p.sumCount = d.columnStart + end
      BY <1>3a
    <3> HIDE DEF end
    <3> QED  BY <3>1, <3>2
  <2>2. Apart(inserted)
    BY <1>9, <2>1 DEF Inserted
  <2> QED  BY <1>15, <2>2 DEF Apart
<1>19. Held(d, p, noted)
  <2>1. Place(noted) = Place(d) /\ Place(d) =< Place(d) /\ noted.count > 0
    <3>1. Place(d) \in Int
      BY <1>2, DecoderType DEF Place
    <3>2. Place(noted) = Place(d)
      BY <1>15 DEF Place
    <3>3. noted.count > 0
      <4> DEFINE n == p.sumCount
                 m == d.count
      <4>1. noted.count = m /\ n \in Nat /\ n > 0 /\ m \in Nat /\ x + n =< m
        BY <1>1, <1>3, <1>15
      <4> HIDE DEF n, m
      <4>2. m > 0
        BY <4>1
      <4> QED  BY <4>1, <4>2
    <3> QED  BY <3>1, <3>2, <3>3
  <2>2. NewColumns(d, p, noted)
    BY <1>15 DEF NewColumns, HasColumn
  <2>3. \A j \in 1 .. Len(noted.recs) :
          \/ View(noted, noted.recs[j]) = PacketView(p)
          \/ \E i \in 1 .. Len(d.recs) :
               View(noted, noted.recs[j]) = View(d, d.recs[i])
    BY <1>17
  <2> QED  BY <1>15, <1>16, <1>18, <2>1, <2>2, <2>3 DEF Held
<1>20. MetadataFine(d, p, late) => MetaStarts(noted)
  <2> SUFFICES ASSUME StartsBy(d, lm.columnStart),
                      p.columnStart =< lm.columnStart
               PROVE  MetaStarts(noted)
    BY DEF MetadataFine, lm
  <2>1. ASSUME NEW j \in 1 .. Len(noted.recs)
        PROVE  d.columnStart + noted.recs[j].start =< lm.columnStart
    <3>1. CASE noted.recs[j] = r
      BY <1>5, <3>1
    <3>2. CASE \E i \in 1 .. Len(d.recs) : noted.recs[j] = d.recs[i]
      BY <3>2 DEF StartsBy
    <3> QED  BY <1>17, <3>1, <3>2
  <2> QED  BY <1>15, <2>1 DEF MetaStarts, StartsBy
<1>21. CASE t = noted
  BY <1>15, <1>19, <1>20, <1>21 DEF Used, lm
<1>22. CASE t = RemoveElements(noted)
  <2>1. Trimmed(noted, RemoveElements(noted), K)
    BY <1>12, <1>16, RemoveIsOnward
  <2>2. GoodWindow(RemoveElements(noted), K)
    BY <1>12, RemoveResult DEF GoodDecoder
  <2> HIDE DEF t
  <2>3. Trimmed(noted, t, K) /\ t \in Decoders
    BY <1>22, <2>1, <2>2 DEF GoodWindow
  <2>4. CASE t.disabled /\ ~(K < ColumnPeriod \div 2 /\ MetaStarts(noted))
    BY <1>20, <2>4 DEF Used, t
  <2>5. CASE /\ Timely(t) /\ CheckedIsMinimal(t) /\ Onward(noted, t, {})
             /\ t.recovered = noted.recovered
             /\ MetaStarts(noted) => MetaStarts(t)
    <3>1. Held(d, p, t)
      BY <1>1, <1>2, <1>12, <1>19, <2>3, <2>5, HeldAndTrimmed
    <3>2. t.lastMetadata = lm /\ t.latestColumn = d.latestColumn
      BY <1>15, <2>5 DEF Onward
    <3> QED  BY <1>20, <2>5, <3>1, <3>2 DEF Used, lm, t
  <2> QED  BY <2>3, <2>4, <2>5 DEF Trimmed
<1> QED  BY <1>4, <1>21, <1>22

(***************************************************************************)
(* The two cases together, after the window has grown to the packet's end. *)
(***************************************************************************)
LEMMA UseIsUsed ==
  ASSUME NEW K \in Nat, K =< ColumnPeriod \div 2,
         NEW d, GoodDecoder(d, K), Timely(d), CheckedIsMinimal(d),
         NEW p, GoodPacket(p, K),
         NEW x \in Nat, p.columnStart = d.columnStart + x,
         x =< d.next, d.next < x + p.sumCount, NEW late \in BOOLEAN
  PROVE  Used(d, p, UseRecovery(d, p, x, late), late, K)
<1> DEFINE m == x + p.sumCount
           e == GrowWindow(d, m)
           t == UseRecovery(d, p, x, late)
<1>1. p.sumCount \in Nat /\ p.sumCount > 0 /\ p.columnStart + p.sumCount =< K
      /\ p.columnStart \in Nat
  BY DEF GoodPacket
<1>2. d \in Decoders
  BY DEF GoodDecoder, GoodWindow
<1>3. d.columnStart \in Nat /\ d.next \in Int
  BY <1>2, DecoderType
<1>4. m \in Nat /\ d.columnStart + m =< K
  BY <1>1, <1>3
<1>5. GoodDecoder(e, K) /\ m =< e.count /\ e = [d EXCEPT !.count = e.count]
  <2> HIDE DEF m
  <2> QED  BY <1>4, GrowResult
<1>6. /\ Timely(e) /\ CheckedIsMinimal(e) /\ Onward(d, e, {})
      /\ e.recovered = d.recovered /\ e.columnStart = d.columnStart
      /\ e.next = d.next /\ e.got = d.got /\ e.recs = d.recs
      /\ e.checked = d.checked
  <2> HIDE DEF m
  <2> QED  BY <1>4, GrownIsOnward
<1>7. t = IF p.sumCount = 1 THEN AddSingleRecovery(e, p, x)
          ELSE KeepRecovery(e, p, x, late)
  BY DEF UseRecovery
<1> HIDE DEF e, t
<1>8. e \in Decoders
  BY <1>5 DEF GoodDecoder, GoodWindow
<1>9. e.count \in Nat
  BY <1>8, DecoderType
<1>10. x < e.count /\ x + p.sumCount =< e.count
       /\ p.columnStart = e.columnStart + x
       /\ x =< e.next /\ e.next < x + p.sumCount
  BY <1>1, <1>5, <1>6, <1>9
<1>11. Used(e, p, t, late, K)
  <2>1. CASE p.sumCount = 1
    <3>1. x = e.next
      BY <1>3, <1>6, <1>10, <2>1
    <3>2. Used(e, p, AddSingleRecovery(e, p, x), late, K)
      BY <1>5, <1>6, <1>10, <2>1, <3>1, SingleIsUsed
    <3> QED  BY <1>7, <2>1, <3>2
  <2>2. CASE p.sumCount # 1
    <3>1. p.sumCount > 1
      BY <1>1, <2>2
    <3>2. Used(e, p, KeepRecovery(e, p, x, late), late, K)
      BY <1>5, <1>6, <1>10, <3>1, KeepIsUsed
    <3> QED  BY <1>7, <2>2, <3>2
  <2> QED  BY <2>1, <2>2
<1>12. /\ MetadataAfter(e, p, late) = MetadataAfter(d, p, late)
       /\ MetadataFine(e, p, late) <=> MetadataFine(d, p, late)
       /\ e.latestColumn = d.latestColumn
  BY <1>6 DEF MetadataAfter, MetadataFine, StartsBy, Onward
<1>13. Held(e, p, t) => Held(d, p, t)
  <2>1. Place(e) = Place(d)
    BY <1>6 DEF Place
  <2>2. NewColumns(e, p, t) => NewColumns(d, p, t)
    BY <1>6 DEF NewColumns, HasColumn
  <2>3. /\ \A i \in 1 .. Len(d.recs) : View(d, d.recs[i]) = View(e, e.recs[i])
        /\ EndIsOthers(d, p) => EndIsOthers(e, p)
        /\ Apart(d) => Apart(e)
    BY <1>6 DEF View, EndIsOthers, Apart
  <2>4. e.disabled = d.disabled
    BY <1>6 DEF Onward
  <2> QED  BY <1>6, <2>1, <2>2, <2>3, <2>4 DEF Held
<1>14. Used(d, p, t, late, K)
  BY <1>11, <1>12, <1>13 DEF Used
<1> QED  BY <1>14 DEF t

-----------------------------------------------------------------------------
(* Every recovery packet                                                   *)

(***************************************************************************)
(* The column behind the last one a packet protects.                       *)
(***************************************************************************)
PacketEnd(p) == p.columnStart + p.sumCount

(***************************************************************************)
(* The same for the metadata kept last.                                    *)
(***************************************************************************)
LastEnd(d) == PacketEnd(d.lastMetadata)

(***************************************************************************)
(* The metadata of recovery packets that came in order: the last one       *)
(* starts and ends last, and is no newer than the newest column noted.     *)
(***************************************************************************)
MetaOK(d) ==
  /\ MetaStarts(d)
  /\ \A i \in 1 .. Len(d.recs) : View(d, d.recs[i]).end =< d.latestColumn
  /\ LastEnd(d) =< d.latestColumn
  /\ d.latestColumn = LastEnd(d) \/ d.latestColumn =< Place(d)

(***************************************************************************)
(* A packet fits to what a decoder holds: of any two packets, the one      *)
(* which ends first starts no later.                                       *)
(***************************************************************************)
InStep(d, p) ==
  /\ EndIsOthers(d, p)
  /\ \A i \in 1 .. Len(d.recs) :
       View(d, d.recs[i]).end < PacketEnd(p) =>
         View(d, d.recs[i]).start =< p.columnStart
  /\ LastEnd(d) < PacketEnd(p) => d.lastMetadata.columnStart =< p.columnStart
  /\ PacketEnd(p) < LastEnd(d) => p.columnStart =< d.lastMetadata.columnStart

(***************************************************************************)
(* A stream below half the period whose recovery packets came in order.    *)
(* Only then is the decoder sure not to disable itself.                    *)
(***************************************************************************)
Orderly(d, p, K) == K < ColumnPeriod \div 2 /\ MetaOK(d) /\ InStep(d, p)

(***************************************************************************)
(* No chunk was added to what d has.                                       *)
(***************************************************************************)
SameColumns(d, e) ==
  /\ e.recovered = d.recovered
  /\ \A c \in Nat : HasColumn(e, c) <=> HasColumn(d, c)

(***************************************************************************)
(* What holds of the decoder e that was given the recovery packet p.       *)
(***************************************************************************)
Accepted(d, p, e) ==
  /\ Timely(e) /\ CheckedIsMinimal(e) /\ Started(e)
  /\ Place(d) =< Place(e) /\ e.disabled = d.disabled
  /\ \A i \in 1 .. Len(e.recs) :
       \/ View(e, e.recs[i]) = PacketView(p)
       \/ \E j \in 1 .. Len(d.recs) : View(e, e.recs[i]) = View(d, d.recs[j])
  /\ Apart(d) /\ EndIsOthers(d, p) => Apart(e)
  /\ SameColumns(d, e) \/ NewColumns(d, p, e)

(***************************************************************************)
(* The same, but that the decoder may have disabled itself when packets    *)
(* were not orderly.                                                       *)
(***************************************************************************)
AcceptedInOrder(d, p, e, K) ==
  \/ e.disabled /\ ~Orderly(d, p, K)
  \/ /\ Accepted(d, p, e)
     /\ Orderly(d, p, K) => MetaOK(e) /\ e.count > 0

(***************************************************************************)
(* Nothing differs but the newest column noted.                            *)
(***************************************************************************)
SameButLatest(d, g) ==
  /\ g \in Decoders
  /\ g.columnStart = d.columnStart /\ g.count = d.count /\ g.got = d.got
  /\ g.next = d.next /\ g.recs = d.recs /\ g.lastMetadata = d.lastMetadata
  /\ g.recovered = d.recovered /\ g.checked = d.checked
  /\ g.disabled = d.disabled

(***************************************************************************)
(* The decoder g has noted the newest column of the packet p, unless the   *)
(* packet is late.                                                         *)
(***************************************************************************)
Seen(d, p, g, late) ==
  /\ SameButLatest(d, g)
  /\ late => g = d
  /\ ~late => g.latestColumn = PacketEnd(p) /\ d.latestColumn =< PacketEnd(p)
  /\ late => PacketEnd(p) < d.latestColumn
               \/ PacketEnd(p) - d.latestColumn >= ColumnPeriod \div 2

(***************************************************************************)
(* Noting the newest column keeps the decoder good.                        *)
(***************************************************************************)
LEMMA SeenStaysGood ==
  ASSUME NEW K \in Nat, NEW d, GoodDecoder(d, K), Timely(d),
         CheckedIsMinimal(d),
         NEW p, NEW late \in BOOLEAN, NEW g, Seen(d, p, g, late)
  PROVE  GoodDecoder(g, K) /\ Timely(g) /\ CheckedIsMinimal(g)
         /\ Place(g) = Place(d)
<1>1. g \in Decoders /\ SameWindow(d, g) /\ g.checked = d.checked
  BY DEF Seen, SameButLatest, SameWindow
<1>2. GoodWindow(g, K) /\ GoodChecked(g)
  BY <1>1, SameWindowIsGood DEF GoodDecoder
<1>3. Timely(g) /\ CheckedIsMinimal(g)
  BY DEF Seen, SameButLatest, Timely, Sorted, CheckedIsMinimal, LossesTo,
         RangeLost
<1> QED  BY <1>2, <1>3 DEF GoodDecoder, Seen, SameButLatest, Place

(***************************************************************************)
(* Below half the period, a packet that is late ends before the newest.    *)
(***************************************************************************)
LEMMA LateIsBelow ==
  ASSUME NEW K \in Nat, NEW d \in Decoders, NEW p, GoodPacket(p, K),
         NEW g, Seen(d, p, g, TRUE), Orderly(d, p, K)
  PROVE  PacketEnd(p) < d.latestColumn
<1>1. PacketEnd(p) \in Nat /\ PacketEnd(p) =< K
  BY DEF GoodPacket, PacketEnd
<1>2. d.latestColumn \in Int /\ d.latestColumn >= 0
  <2>1. d.latestColumn \in Int
    BY DEF Decoders
  <2>2. LastEnd(d) \in Nat
    BY DecoderType DEF LastEnd, PacketEnd
  <2> QED  BY <2>1, <2>2 DEF Orderly, MetaOK
<1>3. ColumnPeriod \div 2 \in Nat /\ K < ColumnPeriod \div 2
  BY ColumnPeriodAssumption DEF Orderly
<1> QED  BY <1>1, <1>2, <1>3 DEF Seen

(***************************************************************************)
(* A packet that protects the column waited for is accepted.               *)
(***************************************************************************)
LEMMA UsedIsAccepted ==
  ASSUME NEW K \in Nat, K =< ColumnPeriod \div 2,
         NEW d, GoodDecoder(d, K), Timely(d), CheckedIsMinimal(d),
         NEW p, GoodPacket(p, K), NEW late \in BOOLEAN,
         NEW g, Seen(d, p, g, late), d.columnStart =< p.columnStart,
         p.columnStart =< Place(d), Place(d) < PacketEnd(p),
         NEW e \in Decoders, Used(g, p, e, late, K)
  PROVE  AcceptedInOrder(d, p, e, K)
<1> DEFINE lm == MetadataAfter(g, p, late)
           pe == PacketEnd(p)
           lc == d.latestColumn
           le == LastEnd(d)
           l == d.lastMetadata.columnStart
           ps == p.columnStart
<1>1. d \in Decoders /\ g \in Decoders
  BY DEF GoodDecoder, GoodWindow, Seen, SameButLatest
<1>2. /\ ps \in Nat /\ p.sumCount \in Nat /\ p.sumCount > 0 /\ pe \in Nat
  BY DEF GoodPacket, PacketEnd
<1>3. /\ lc \in Int /\ le \in Int /\ l \in Int /\ Place(d) \in Int
      /\ Place(e) \in Int
      /\ \A i \in 1 .. Len(d.recs) :
           /\ View(d, d.recs[i]).start \in Int /\ View(d, d.recs[i]).end \in Int
           /\ View(d, d.recs[i]).start = d.columnStart + d.recs[i].start
  <2>1. \A i \in 1 .. Len(d.recs) :
           /\ View(d, d.recs[i]).start \in Int /\ View(d, d.recs[i]).end \in Int
           /\ View(d, d.recs[i]).start = d.columnStart + d.recs[i].start
    BY <1>1, DecoderType DEF View
  <2>2. lc \in Int
    BY <1>1 DEF Decoders
  <2> QED  BY <1>1, <2>1, <2>2, DecoderType DEF LastEnd, PacketEnd, Place
<1>4. /\ g.recs = d.recs /\ g.columnStart = d.columnStart
      /\ g.lastMetadata = d.lastMetadata /\ Place(g) = Place(d)
      /\ \A i \in 1 .. Len(d.recs) : View(g, g.recs[i]) = View(d, d.recs[i])
  BY DEF Seen, SameButLatest, Place, View
<1>5. Orderly(d, p, K) => MetadataFine(g, p, late)
  <2> SUFFICES ASSUME Orderly(d, p, K) PROVE MetadataFine(g, p, late)
    OBVIOUS
  <2>1. MetaOK(d) /\ InStep(d, p) /\ StartsBy(d, l)
    BY DEF Orderly, MetaOK, MetaStarts, StartsBy
  <2>2. CASE p.sumCount = 1
    <3>1. lm = d.lastMetadata
      BY <1>4, <2>2 DEF MetadataAfter
    <3> QED  BY <1>4, <2>1, <2>2, <3>1 DEF MetadataFine, StartsBy
  <2>3. CASE p.sumCount > 1 /\ late
    <3>1. lm = d.lastMetadata
      BY <1>4, <2>3 DEF MetadataAfter
    <3>2. pe < lc
      BY <1>1, <2>3, LateIsBelow
    <3>3. lc = le
      BY <1>2, <1>3, <2>1, <3>2 DEF MetaOK
    <3>4. ps =< l
      BY <2>1, <3>2, <3>3 DEF InStep
    <3> QED  BY <1>4, <2>1, <3>1, <3>4 DEF MetadataFine, StartsBy
  <2>4. CASE p.sumCount > 1 /\ ~late
    <3>1. lm.columnStart = ps
      BY <1>2, <2>4 DEF MetadataAfter
    <3>2. ASSUME NEW i \in 1 .. Len(d.recs)
          PROVE  d.columnStart + d.recs[i].start =< ps
      <4>1. View(d, d.recs[i]).end =< lc /\ lc =< pe
            /\ View(d, d.recs[i]).end # pe
        BY <2>1, <2>4 DEF MetaOK, InStep, EndIsOthers, PacketView, PacketEnd,
                          Seen
      <4>2. View(d, d.recs[i]).end < pe
        BY <1>2, <1>3, <4>1
      <4> QED  BY <1>3, <2>1, <4>2 DEF InStep
    <3>3. ps =< ps
      BY <1>2
    <3> HIDE DEF lm, ps
    <3> QED  BY <1>4, <3>1, <3>2, <3>3 DEF MetadataFine, StartsBy, lm, ps
  <2> QED  BY <1>2, <2>2, <2>3, <2>4
<1>6. CASE e.disabled /\ ~(K < ColumnPeriod \div 2 /\ MetadataFine(g, p, late))
  BY <1>5, <1>6 DEF AcceptedInOrder, Orderly
<1>7. CASE /\ Held(g, p, e)
           /\ e.latestColumn = g.latestColumn
           /\ e.lastMetadata = lm
           /\ MetadataFine(g, p, late) => MetaStarts(e)
  <2>1. Held(d, p, e)
    <3>1. NewColumns(g, p, e) => NewColumns(d, p, e)
      BY DEF NewColumns, HasColumn, Seen, SameButLatest
    <3>2. /\ EndIsOthers(d, p) => EndIsOthers(g, p)
          /\ Apart(d) => Apart(g)
      BY <1>4 DEF EndIsOthers, Apart
    <3>3. g.disabled = d.disabled
      BY DEF Seen, SameButLatest
    <3> QED  BY <1>4, <1>7, <3>1, <3>2, <3>3 DEF Held
  <2>2. Accepted(d, p, e)
    <3>1. Started(e)
      BY <2>1, <1>7 DEF Held, Started
    <3> QED  BY <2>1, <3>1 DEF Held, Accepted
  <2>3. ASSUME Orderly(d, p, K) PROVE MetaOK(e)
    <3>1. MetaOK(d) /\ InStep(d, p)
      BY <2>3 DEF Orderly
    <3>2. g.latestColumn \in Int /\ lc =< g.latestColumn /\ pe =< g.latestColumn
      <4>1. CASE late
        <5>1. g = d /\ pe < lc
          BY <1>1, <2>3, <4>1, LateIsBelow DEF Seen
        <5> QED  BY <1>2, <1>3, <5>1
      <4>2. CASE ~late
        BY <1>2, <1>3, <4>2 DEF Seen
      <4> QED  BY <4>1, <4>2
    <3>3. ASSUME NEW i \in 1 .. Len(e.recs)
          PROVE  View(e, e.recs[i]).end =< e.latestColumn
      <4>1. CASE View(e, e.recs[i]) = PacketView(p)
        BY <1>7, <3>2, <4>1 DEF PacketView, PacketEnd
      <4>2. CASE \E j \in 1 .. Len(d.recs) :
                   View(e, e.recs[i]) = View(d, d.recs[j])
        <5>1. PICK j \in 1 .. Len(d.recs) :
                View(e, e.recs[i]) = View(d, d.recs[j])
          BY <4>2
        <5>2. View(d, d.recs[j]).end =< lc /\ View(d, d.recs[j]).end \in Int
          BY <1>3, <3>1 DEF MetaOK
        <5> QED  BY <1>3, <1>7, <3>2, <5>1, <5>2
      <4> QED  BY <2>1, <4>1, <4>2 DEF Held
    <3>4. CASE late \/ p.sumCount = 1
      <4>1. lm = d.lastMetadata /\ LastEnd(e) = le
        BY <1>4, <1>7, <3>4 DEF MetadataAfter, LastEnd
      <4>2. le =< lc /\ (lc = le \/ lc =< Place(d))
        BY <3>1 DEF MetaOK
      <4>3. Place(d) =< Place(e)
        BY <2>1 DEF Held
      <4>4. LastEnd(e) =< e.latestColumn
        BY <1>3, <1>7, <3>2, <4>1, <4>2
      <4>5. e.latestColumn = LastEnd(e) \/ e.latestColumn =< Place(e)
        <5>1. CASE late
          <6>1. e.latestColumn = lc
            BY <1>7, <5>1 DEF Seen
          <6> QED  BY <1>3, <4>1, <4>2, <4>3, <6>1
        <5>2. CASE ~late
          <6>1. e.latestColumn = pe /\ p.sumCount = 1
            BY <1>7, <3>4, <5>2 DEF Seen
          <6>2. ps < Place(e)
            BY <2>1, <6>1 DEF Held, NewColumns
          <6>3. pe = ps + 1
            BY <6>1 DEF PacketEnd
          <6> HIDE DEF pe, ps
          <6>4. pe =< Place(e)
            BY <1>2, <1>3, <6>2, <6>3
          <6> QED  BY <6>1, <6>4
        <5> QED  BY <5>1, <5>2
      <4> QED  BY <1>5, <1>7, <2>3, <3>3, <4>4, <4>5 DEF MetaOK
    <3>5. CASE ~late /\ p.sumCount # 1
      <4>1. LastEnd(e) = pe /\ e.latestColumn = pe
        BY <1>7, <3>5 DEF MetadataAfter, LastEnd, PacketEnd, Seen
      <4>2. LastEnd(e) =< e.latestColumn
        BY <1>2, <4>1
      <4> QED  BY <1>5, <1>7, <2>3, <3>3, <4>1, <4>2 DEF MetaOK
    <3> QED  BY <3>4, <3>5
  <2>4. e.count > 0
    BY <2>1 DEF Held
  <2> QED  BY <2>2, <2>3, <2>4 DEF AcceptedInOrder
<1> QED  BY <1>6, <1>7 DEF Used

(***************************************************************************)
(* A packet that is skipped is.                                            *)
(***************************************************************************)
LEMMA SkipIsAccepted ==
  ASSUME NEW K \in Nat, K =< ColumnPeriod \div 2,
         NEW d, GoodDecoder(d, K), Timely(d), CheckedIsMinimal(d), Started(d),
         NEW p, GoodPacket(p, K), NEW late \in BOOLEAN,
         NEW g, Seen(d, p, g, late),
         late \/ d.count > 0,
         Orderly(d, p, K) =>
           late \/ PacketEnd(p) =< Place(d) \/ p.columnStart < d.columnStart
  PROVE  AcceptedInOrder(d, p, g, K)
<1> DEFINE pe == PacketEnd(p)
           lc == d.latestColumn
           le == LastEnd(d)
           l == d.lastMetadata.columnStart
           ps == p.columnStart
<1>1. d \in Decoders /\ g \in Decoders
  BY DEF GoodDecoder, GoodWindow, Seen, SameButLatest
<1>2. /\ ps \in Nat /\ p.sumCount \in Nat /\ p.sumCount > 0 /\ pe \in Nat
  BY DEF GoodPacket, PacketEnd
<1>3. /\ lc \in Int /\ le \in Int /\ l \in Int /\ Place(d) \in Int
      /\ d.columnStart \in Int /\ d.count \in Nat
      /\ \A i \in 1 .. Len(d.recs) : View(d, d.recs[i]).end \in Int
  <2>1. \A i \in 1 .. Len(d.recs) : View(d, d.recs[i]).end \in Int
    BY <1>1, DecoderType DEF View
  <2>2. lc \in Int
    BY <1>1 DEF Decoders
  <2>3. le \in Int /\ l \in Int
    BY <1>1, DecoderType DEF LastEnd, PacketEnd
  <2>4. Place(d) \in Int /\ d.columnStart \in Int /\ d.count \in Nat
    BY <1>1, DecoderType DEF Place
  <2> QED  BY <2>1, <2>2, <2>3, <2>4
<1>4. /\ g.recs = d.recs /\ g.columnStart = d.columnStart /\ g.count = d.count
      /\ g.lastMetadata = d.lastMetadata /\ Place(g) = Place(d)
      /\ g.disabled = d.disabled /\ LastEnd(g) = le
      /\ \A i \in 1 .. Len(d.recs) : View(g, g.recs[i]) = View(d, d.recs[i])
  BY DEF Seen, SameButLatest, Place, View, LastEnd
<1>5. Timely(g) /\ CheckedIsMinimal(g)
  BY SeenStaysGood
<1>6. Started(g)
  BY <1>4 DEF Started, Seen
<1>7. Accepted(d, p, g)
  <2>1. SameColumns(d, g)
    BY DEF SameColumns, HasColumn, Seen, SameButLatest
  <2>2. Apart(d) => Apart(g)
    BY <1>4 DEF Apart
  <2> QED  BY <1>3, <1>4, <1>5, <1>6, <2>1, <2>2 DEF Accepted
<1>8. ASSUME Orderly(d, p, K) PROVE MetaOK(g) /\ g.count > 0
  <2>1. MetaOK(d) /\ InStep(d, p)
    BY <1>8 DEF Orderly
  <2>2. CASE late
    <3>1. g = d /\ pe < lc
      BY <1>1, <1>8, <2>2, LateIsBelow DEF Seen
    <3>2. d.count > 0
      <4> SUFFICES ASSUME d.count = 0 PROVE FALSE
        BY <1>3
      <4>1. lc = 0
        BY DEF Started, DecoderInit
      <4> HIDE DEF lc, pe
      <4> QED  BY <1>2, <3>1, <4>1
    <3> QED  BY <2>1, <3>1, <3>2
  <2>3. CASE ~late
    <3>1. g.latestColumn = pe /\ lc =< pe
      BY <2>3 DEF Seen
    <3>2. MetaStarts(g)
      BY <1>4, <2>1 DEF MetaOK, MetaStarts
    <3>3. ASSUME NEW i \in 1 .. Len(g.recs)
          PROVE  View(g, g.recs[i]).end =< g.latestColumn
      <4>1. View(d, d.recs[i]).end =< lc
        BY <1>4, <2>1 DEF MetaOK
      <4>2. View(g, g.recs[i]).end = View(d, d.recs[i]).end
        BY <1>4
      <4> DEFINE v == View(d, d.recs[i]).end
      <4>3. v \in Int /\ v =< lc /\ lc =< pe /\ lc \in Int /\ pe \in Int
        BY <1>2, <1>3, <1>4, <3>1, <4>1
      <4> HIDE DEF v, lc, pe
      <4>4. v =< pe
        BY <4>3
      <4> QED  BY <3>1, <4>2, <4>4 DEF v
    <3>4. le =< pe
      BY <1>2, <1>3, <2>1, <3>1 DEF MetaOK
    <3>5. pe = le \/ pe =< Place(d)
      <4> SUFFICES ASSUME ps < d.columnStart, le < pe PROVE FALSE
        BY <1>2, <1>3, <1>8, <2>3, <3>4
      <4>1. l =< ps
        BY <2>1 DEF InStep
      <4>2. d.columnStart =< l
        BY <2>1 DEF MetaOK, MetaStarts
      <4> HIDE DEF l, ps, le, pe
      <4> QED  BY <1>2, <1>3, <4>1, <4>2
    <3> QED  BY <1>3, <1>4, <2>3, <3>1, <3>2, <3>3, <3>4, <3>5 DEF MetaOK
  <2> QED  BY <2>2, <2>3
<1> QED  BY <1>7, <1>8 DEF AcceptedInOrder

(***************************************************************************)
(* One that ends before the column waited for is: at most the window is    *)
(* trimmed.                                                                *)
(***************************************************************************)
LEMMA PassOverIsAccepted ==
  ASSUME NEW K \in Nat, K =< ColumnPeriod \div 2,
         NEW d, GoodDecoder(d, K), Timely(d), CheckedIsMinimal(d), Started(d),
         NEW p, GoodPacket(p, K), NEW late \in BOOLEAN,
         NEW g, Seen(d, p, g, late), d.count > 0,
         d.columnStart =< p.columnStart, PacketEnd(p) =< Place(d), NEW x
  PROVE  AcceptedInOrder(d, p, PassOver(g, p, x, late), K)
<1>1. CASE late \/ x < RemoveThreshold
  <2>1. PassOver(g, p, x, late) = g
    BY <1>1 DEF PassOver
  <2> QED  BY <2>1, SkipIsAccepted
<1>2. CASE ~(late \/ x < RemoveThreshold)
  <2> DEFINE r == RememberMetadata(g, p)
             e == RemoveElements(r)
             lm == [columnStart |-> p.columnStart, sumCount |-> p.sumCount]
             end == PacketEnd(p) - d.columnStart
             pe == PacketEnd(p)
  <2>1. PassOver(g, p, x, late) = e
    BY <1>2 DEF PassOver
  <2>2. GoodDecoder(g, K) /\ Timely(g) /\ CheckedIsMinimal(g)
        /\ Place(g) = Place(d)
    BY SeenStaysGood
  <2>3. /\ g \in Decoders /\ d \in Decoders
        /\ g.columnStart = d.columnStart /\ g.next = d.next
        /\ g.count = d.count /\ g.recs = d.recs /\ g.got = d.got
        /\ g.disabled = d.disabled /\ g.recovered = d.recovered
        /\ g.latestColumn = pe /\ d.latestColumn =< pe
    BY <1>2 DEF Seen, SameButLatest, GoodDecoder, GoodWindow
  <2>4. /\ d.columnStart \in Nat /\ d.next \in Int /\ d.count \in Nat
        /\ p.columnStart \in Nat /\ p.sumCount \in Nat /\ pe \in Nat
        /\ d.latestColumn \in Int
        /\ \A i \in 1 .. Len(d.recs) : d.recs[i].end \in Int
    <3>1. d.latestColumn \in Int
      BY <2>3 DEF Decoders
    <3> QED  BY <2>3, <3>1, DecoderType DEF GoodPacket, PacketEnd
  <2>5. GoodDecoder(r, K)
    <3>1. end \in Int /\ p.columnStart + p.sumCount = g.columnStart + end
          /\ end =< g.next /\ g.count # 0
      <4>1. d.columnStart \in Int /\ p.columnStart + p.sumCount \in Int
        BY <2>4
      <4>2. p.columnStart + p.sumCount =< d.columnStart + d.next
        BY DEF PacketEnd, Place
      <4>3. end \in Int
        BY <2>4
      <4>4. p.columnStart + p.sumCount = g.columnStart + end
        <5> DEFINE a == p.columnStart + p.sumCount
                   o == d.columnStart
        <5>1. a \in Int /\ o \in Int /\ end = a - o /\ g.columnStart = o
          BY <2>3, <4>1 DEF PacketEnd
        <5> HIDE DEF a, o, end
        <5>2. a = o + end
          BY <5>1
        <5> QED  BY <5>1, <5>2 DEF a
      <4>5. end =< g.next
        <5> DEFINE o == d.columnStart
                   n == d.next
        <5>1. /\ pe \in Int /\ o \in Int /\ n \in Int /\ pe =< o + n
              /\ end = pe - o /\ g.next = n
          BY <2>3, <2>4 DEF Place
        <5> HIDE DEF o, n, end, pe
        <5>2. end =< n
          BY <5>1
        <5> QED  BY <5>1, <5>2
      <4> QED  BY <2>3, <4>3, <4>4, <4>5
    <3> HIDE DEF end, r
    <3>2. GoodDecoder(RememberMetadata(g, p), K)
      BY <2>2, <3>1, RememberResult
    <3> QED  BY <3>2 DEF r
  <2>6. r = [g EXCEPT !.lastMetadata = lm] /\ lm.columnStart = p.columnStart
        /\ PacketEnd(lm) = pe
        /\ lm \in [columnStart : Nat, sumCount : Nat]
    BY <2>4 DEF RememberMetadata, PacketEnd
  <2> HIDE DEF r, lm
  <2>7. /\ r \in Decoders /\ r.columnStart = d.columnStart /\ r.next = d.next
        /\ r.recs = d.recs /\ r.got = d.got /\ r.count = d.count
        /\ r.disabled = d.disabled /\ r.recovered = d.recovered
        /\ r.latestColumn = pe /\ r.lastMetadata = lm /\ r.checked = g.checked
    BY <2>3, <2>6 DEF Decoders
  <2>8. Timely(r) /\ CheckedIsMinimal(r)
    BY <2>2, <2>3, <2>7
       DEF Timely, Sorted, CheckedIsMinimal, LossesTo, RangeLost
  <2>9. Trimmed(r, e, K)
    <3>1. Trimmed(r, RemoveElements(r), K)
      BY <2>5, <2>8, RemoveIsOnward
    <3> QED  BY <3>1
  <2>10. e \in Decoders
    <3>1. GoodWindow(RemoveElements(r), K)
      BY <2>5, RemoveResult DEF GoodDecoder
    <3> QED  BY <3>1 DEF GoodWindow
  <2>11. Orderly(d, p, K) => MetaStarts(r) /\ Len(d.recs) = 0
    <3> SUFFICES ASSUME Orderly(d, p, K) PROVE MetaStarts(r) /\ Len(d.recs) = 0
      OBVIOUS
    <3>1. ASSUME NEW i \in 1 .. Len(d.recs) PROVE FALSE
      <4> DEFINE b == d.recs[i].end
                 o == d.columnStart
      <4>1. o + b =< d.latestColumn
        BY DEF Orderly, MetaOK, View
      <4>2. pe =< o + d.next /\ d.next < b
        BY DEF Place, Timely
      <4>3. b \in Int /\ o \in Int
        BY <2>4
      <4> HIDE DEF b, o, pe
      <4> QED  BY <2>3, <2>4, <4>1, <4>2, <4>3
    <3>2. Len(d.recs) \in Nat
      BY <2>3, DecoderType
    <3>3. Len(d.recs) = 0
      BY <3>1, <3>2
    <3> QED  BY <2>6, <2>7, <3>3 DEF MetaStarts
  <2> HIDE DEF e
  <2>12. CASE e.disabled /\ ~(K < ColumnPeriod \div 2 /\ MetaStarts(r))
    BY <2>1, <2>11, <2>12 DEF AcceptedInOrder, Orderly
  <2>13. CASE /\ Timely(e) /\ CheckedIsMinimal(e) /\ Onward(r, e, {})
              /\ e.recovered = r.recovered
              /\ MetaStarts(r) => MetaStarts(e)
    <3>1. ViewsAmong(r, e) /\ (Apart(r) => Apart(e))
      BY <2>7, <2>10, <2>13, LaterViewsAmong DEF Onward
    <3>2. /\ \A i \in 1 .. Len(d.recs) : View(r, r.recs[i]) = View(d, d.recs[i])
          /\ Apart(d) => Apart(r)
          /\ Place(r) = Place(d)
      BY <2>7 DEF View, Apart, Place
    <3>3. e.count > 0
      BY <2>4, <2>7, <2>13 DEF Onward
    <3>4. SameColumns(d, e)
      BY <2>7, <2>13 DEF SameColumns, Onward, HasColumn
    <3>5. Accepted(d, p, e)
      <4>1. \A i \in 1 .. Len(e.recs) : \E j \in 1 .. Len(d.recs) :
              View(e, e.recs[i]) = View(d, d.recs[j])
        BY <2>7, <3>1, <3>2 DEF ViewsAmong
      <4>2. Place(d) =< Place(e) /\ e.disabled = d.disabled
        BY <2>7, <2>13, <3>2 DEF Onward
      <4>3. Started(e)
        BY <3>3 DEF Started
      <4> QED  BY <2>13, <3>1, <3>2, <3>4, <4>1, <4>2, <4>3 DEF Accepted
    <3>6. ASSUME Orderly(d, p, K) PROVE MetaOK(e)
      <4>1. MetaStarts(e) /\ Len(r.recs) = 0
        BY <2>7, <2>11, <2>13, <3>6
      <4>2. Len(e.recs) = 0
        <5>1. Len(e.recs) \in Nat
          BY <2>10, DecoderType
        <5>2. ASSUME NEW i \in 1 .. Len(e.recs) PROVE FALSE
          BY <3>1, <4>1 DEF ViewsAmong
        <5> QED  BY <5>1, <5>2
      <4>3. LastEnd(e) = pe /\ e.latestColumn = pe
        BY <2>6, <2>7, <2>13 DEF Onward, LastEnd
      <4> QED  BY <2>4, <4>1, <4>2, <4>3 DEF MetaOK
    <3> QED  BY <2>1, <3>3, <3>5, <3>6 DEF AcceptedInOrder
  <2> QED  BY <2>9, <2>12, <2>13 DEF Trimmed
<1> QED  BY <1>1, <1>2

(***************************************************************************)
(* AddRecovery in all its cases, for a packet that starts no later than    *)
(* the column waited for. It is the hypothesis on which one subscriber     *)
(* depends: such a packet never leaves a gap in front of it.               *)
(***************************************************************************)
LEMMA AddRecoveryIsAccepted ==
  ASSUME NEW K \in Nat, K =< ColumnPeriod \div 2,
         NEW d, GoodDecoder(d, K), Timely(d), CheckedIsMinimal(d), Started(d),
         NEW p, GoodPacket(p, K), p.columnStart =< Place(d)
  PROVE  AcceptedInOrder(d, p, AddRecovery(d, p), K)
<1> DEFINE x == p.columnStart + p.sumCount
           later == IsRawDeltaNegative(x - d.latestColumn)
           newest == x % ColumnPeriod
           seen == IF later THEN d ELSE [d EXCEPT !.latestColumn = newest]
           end == DecoderElement(d, x)
           start == end - p.sumCount
           fresh == [seen EXCEPT !.columnStart = p.columnStart]
           e == AddRecovery(d, p)
<1>1. /\ p.columnStart \in Nat /\ p.sumCount \in Nat /\ p.sumCount > 0
      /\ x \in 0 .. K /\ x \in Int /\ p.columnStart \in 0 .. K
  BY DEF GoodPacket
<1>2. d \in Decoders /\ d.columnStart + d.count =< K
  BY DEF GoodDecoder, GoodWindow, WindowFits
<1>3. d.columnStart \in Nat /\ d.count \in Nat /\ d.columnStart \in 0 .. K
      /\ d.next \in Int /\ d.latestColumn \in Int
  <2>1. d.latestColumn \in Int
    BY <1>2 DEF Decoders
  <2> QED  BY <1>2, <2>1, DecoderType
<1>4. ColumnPeriod \in Nat /\ ColumnPeriod > 1 /\ ColumnPeriod \div 2 \in Nat
      /\ ColumnPeriod \div 2 < ColumnPeriod
  BY ColumnPeriodAssumption
<1>5. e = IF d.count = 0
          THEN IF later THEN seen ELSE UseRecovery(fresh, p, 0, later)
          ELSE IF IsColumnDeltaNegative(end) \/ start < 0 THEN seen
          ELSE IF NextIsFrom(d, end) THEN PassOver(seen, p, start, later)
          ELSE UseRecovery(seen, p, start, later)
  BY Zenon DEF AddRecovery
<1>6. e \in Decoders
  BY AddRecoveryResult DEF GoodDecoder, GoodWindow
<1> SUFFICES AcceptedInOrder(d, p, e, K)
  OBVIOUS
<1> HIDE DEF e
<1>7. newest = x
  <2>1. x \in Column
    BY <1>1, <1>4 DEF Column
  <2> QED  BY <2>1, SmallResidue
<1>8. PICK late \in BOOLEAN : late = later
  BY DEF IsRawDeltaNegative, IsColumnDeltaNegative
<1>9. Seen(d, p, seen, late)
  <2>1. CASE later
    <3>1. x < d.latestColumn \/ x - d.latestColumn >= ColumnPeriod \div 2
      <4> HIDE DEF x
      <4> QED  BY <1>1, <1>3, <2>1 DEF IsRawDeltaNegative, IsColumnDeltaNegative
    <3> QED  BY <1>2, <1>8, <2>1, <3>1 DEF Seen, SameButLatest, PacketEnd
  <2>2. CASE ~later
    <3>1. d.latestColumn =< x
      <4> HIDE DEF x
      <4> QED  BY <1>1, <1>3, <2>2 DEF IsRawDeltaNegative
    <3>2. seen = [d EXCEPT !.latestColumn = x] /\ x \in Int
      BY <1>1, <1>7, <2>2
    <3> HIDE DEF seen, later
    <3>3. SameButLatest(d, seen) /\ seen.latestColumn = x
      <4> HIDE DEF x
      <4> QED  BY <1>2, <3>2 DEF SameButLatest, Decoders
    <3> QED  BY <1>8, <2>2, <3>1, <3>3 DEF Seen, PacketEnd
  <2> QED  BY <2>1, <2>2
<1> HIDE DEF later, newest, seen
<1>10. GoodDecoder(seen, K) /\ Timely(seen) /\ CheckedIsMinimal(seen)
  BY <1>9, SeenStaysGood
<1>11. /\ seen \in Decoders /\ seen.columnStart = d.columnStart
       /\ seen.count = d.count /\ seen.next = d.next
  BY <1>9 DEF Seen, SameButLatest
<1>12. CASE e = seen /\ d.count = 0 /\ later
  BY <1>8, <1>9, <1>12, SkipIsAccepted
<1>13. CASE d.count = 0 /\ ~later
  <2>1. d.columnStart = 0 /\ d.next = 0
    BY <1>13 DEF Started, DecoderInit
  <2>2. p.columnStart = 0 /\ Place(d) = 0
    BY <1>1, <2>1 DEF Place
  <2>3. fresh = seen
    BY <1>11, <2>1, <2>2 DEF Decoders
  <2>4. e = UseRecovery(seen, p, 0, late)
    BY <1>5, <1>8, <1>13, <2>3
  <2>5. /\ 0 \in Nat /\ p.columnStart = seen.columnStart + 0
        /\ 0 =< seen.next /\ seen.next < 0 + p.sumCount
    BY <1>1, <1>11, <2>1, <2>2
  <2>6. Used(seen, p, UseRecovery(seen, p, 0, late), late, K)
    BY <1>10, <2>5, UseIsUsed
  <2>7. d.columnStart =< p.columnStart /\ Place(d) < PacketEnd(p)
    BY <1>1, <2>1, <2>2 DEF PacketEnd
  <2> QED  BY <1>6, <1>9, <2>4, <2>6, <2>7, UsedIsAccepted
<1>14. CASE d.count # 0 /\ (IsColumnDeltaNegative(end) \/ start < 0)
  <2>1. e = seen
    BY <1>5, <1>14
  <2>2. K < ColumnPeriod \div 2 => p.columnStart < d.columnStart
    <3> SUFFICES ASSUME K < ColumnPeriod \div 2, d.columnStart =< p.columnStart
                 PROVE  FALSE
      BY <1>1, <1>3
    <3> DEFINE y == x - d.columnStart
    <3>1. y \in 0 .. K /\ y - p.sumCount >= 0
      <4>1. d.columnStart \in Int /\ p.columnStart \in Int /\ p.sumCount \in Int
            /\ p.sumCount > 0
        BY <1>1, <1>3
      <4>2. y = (p.columnStart - d.columnStart) + p.sumCount
        BY <4>1
      <4> QED  BY <1>1, <1>3, <4>1, <4>2
    <3>2. y < ColumnPeriod \div 2
      BY <1>4, <3>1
    <3> HIDE DEF x
    <3>3. y \in Column
      BY <1>1, <1>3, <1>4, <3>1 DEF Column
    <3>4. end = y
      BY <3>3, SmallResidue DEF DecoderElement, SubtractColumns
    <3> HIDE DEF end, y
    <3> QED  BY <1>1, <1>3, <1>4, <1>14, <3>1, <3>2, <3>4
             DEF IsColumnDeltaNegative
  <2>3. d.count > 0
    BY <1>3, <1>14
  <2>4. Orderly(d, p, K) => p.columnStart < d.columnStart
    BY <2>2 DEF Orderly
  <2> QED  BY <1>9, <2>1, <2>3, <2>4, SkipIsAccepted
<1>15. CASE d.count # 0 /\ ~(IsColumnDeltaNegative(end) \/ start < 0)
  <2>1. end = x - d.columnStart /\ x >= d.columnStart
    BY <1>1, <1>3, <1>15, ElementOfColumn DEF DecoderElement
  <2> HIDE DEF end
  <2>2. end \in Int /\ x = d.columnStart + end
    BY <1>1, <1>3, <2>1
  <2>3. /\ start \in Nat /\ p.columnStart = d.columnStart + start
        /\ d.columnStart =< p.columnStart /\ end = start + p.sumCount
    BY <1>1, <1>3, <1>15, <2>2 DEF x
  <2>4. d.count > 0
    BY <1>3, <1>15
  <2> HIDE DEF start
  <2>5. CASE NextIsFrom(d, end)
    <3>1. PacketEnd(p) =< Place(d)
      <4>1. end =< d.next
        BY <1>3, <2>2, <2>5 DEF NextIsFrom, Timely
      <4>2. PacketEnd(p) = d.columnStart + end
        BY <2>2 DEF PacketEnd
      <4> QED  BY <1>3, <2>2, <4>1, <4>2 DEF Place
    <3>2. e = PassOver(seen, p, start, late)
      BY <1>5, <1>8, <1>15, <2>5
    <3>3. AcceptedInOrder(d, p, PassOver(seen, p, start, late), K)
      BY <1>9, <2>3, <2>4, <3>1, PassOverIsAccepted
    <3> QED  BY <3>2, <3>3
  <2>6. CASE ~NextIsFrom(d, end)
    <3>1. e = UseRecovery(seen, p, start, late)
      BY <1>5, <1>8, <1>15, <2>6
    <3>2. d.next < end /\ start =< d.next
      <4>1. d.columnStart + start =< d.columnStart + d.next
        BY <2>3 DEF Place
      <4>2. start \in Int /\ d.columnStart \in Int
        BY <1>3, <2>3
      <4> QED  BY <1>3, <2>2, <2>6, <4>1, <4>2 DEF NextIsFrom
    <3>3. Place(d) < PacketEnd(p)
      BY <1>3, <2>2, <3>2 DEF Place, PacketEnd
    <3>4. /\ p.columnStart = seen.columnStart + start /\ start =< seen.next
          /\ seen.next < start + p.sumCount
      BY <1>11, <2>3, <3>2
    <3>5. Used(seen, p, UseRecovery(seen, p, start, late), late, K)
      BY <1>10, <2>3, <3>4, UseIsUsed
    <3> QED  BY <1>6, <1>9, <2>3, <3>1, <3>3, <3>5, UsedIsAccepted
  <2> QED  BY <2>5, <2>6
<1>16. CASE d.count = 0 /\ later
  BY <1>5, <1>12, <1>16
<1> QED  BY <1>3, <1>13, <1>14, <1>15, <1>16

-----------------------------------------------------------------------------
(* Nothing left to recover                                                 *)

(***************************************************************************)
(* Nothing can be recovered from the packets held: every prefix of them    *)
(* has fewer packets than losses, or more losses than                      *)
(* kMaximumLossRecoveryCount.                                              *)
(***************************************************************************)
Settled(d) ==
  \A k \in 1 .. Len(d.recs) :
    k < LossesTo(d, k) \/ LossesTo(d, k) > MaxLossRecovery

(***************************************************************************)
(* A region of packets starts at the column waited for, as all of them     *)
(* protect it, so that its losses are the ones from there to its end.      *)
(***************************************************************************)
LEMMA RegionLosses ==
  ASSUME NEW K \in Nat, NEW d, GoodWindow(d, K), Timely(d),
         NEW c \in Regions, GoodRegion(d, c)
  PROVE  /\ c.end = d.recs[c.count].end
         /\ c.lost = LossesTo(d, c.count)
         /\ c.count \in 1 .. Len(d.recs)
         /\ c.start =< d.next /\ d.next < c.end
         /\ RangeLost(d, c.start, c.end) = RangeLost(d, d.next, c.end)
<1>1. d \in Decoders /\ WindowFits(d, K) /\ EntriesFit(d)
  BY DEF GoodWindow
<1>2. /\ d.next \in Int /\ d.got \in SUBSET Int /\ Len(d.recs) \in Nat
      /\ c.count \in Nat /\ c.start \in Int /\ c.end \in Int
      /\ \A i \in 1 .. Len(d.recs) : /\ d.recs[i].start \in Int
                                     /\ d.recs[i].end \in Int
  BY <1>1, DecoderType DEF Regions
<1>3. /\ c.count \in 1 .. Len(d.recs) /\ c.start = d.recs[1].start
      /\ \A i \in 1 .. c.count : d.recs[i].end =< c.end
      /\ \E i \in 1 .. c.count : d.recs[i].end = c.end
      /\ c.lost = Cardinality(RangeLost(d, c.start, c.end))
  BY DEF GoodRegion
<1>4. c.end = d.recs[c.count].end
  <2>1. PICK i \in 1 .. c.count : d.recs[i].end = c.end
    BY <1>3
  <2>2. i \in 1 .. Len(d.recs) /\ (i = c.count \/ i < c.count)
    <3> DEFINE m == Len(d.recs)
               n == c.count
    <3>1. m \in Nat /\ n \in 1 .. m /\ i \in 1 .. n
      BY <1>2, <1>3
    <3> HIDE DEF m, n
    <3>2. i \in 1 .. m /\ (i = n \/ i < n)
      BY <3>1
    <3> QED  BY <3>2 DEF m, n
  <2>3. d.recs[i].end =< d.recs[c.count].end
    <3>1. i < c.count => d.recs[i].end =< d.recs[c.count].end
      BY <1>3, <2>2 DEF Timely, Sorted
    <3>2. d.recs[i].end \in Int
      BY <1>2, <2>2
    <3> QED  BY <2>2, <3>1, <3>2
  <2>4. d.recs[c.count].end =< c.end
    <3> DEFINE n == c.count
               b == c.end
    <3>1. \A j \in 1 .. n : d.recs[j].end =< b
      BY <1>3
    <3>2. n \in 1 .. n
      BY <1>2, <1>3
    <3> HIDE DEF n, b
    <3>3. d.recs[n].end =< b
      BY <3>1, <3>2
    <3> QED  BY <3>3 DEF n, b
  <2> QED  BY <1>2, <1>3, <2>1, <2>3, <2>4
<1>5. c.start >= 0 /\ c.start =< d.next /\ d.next < c.end
  <2>1. 1 \in 1 .. Len(d.recs)
    BY <1>2, <1>3
  <2>2. d.recs[1].start >= 0 /\ d.recs[1].start =< d.next
        /\ d.next < d.recs[c.count].end
    BY <1>1, <1>2, <1>3, <2>1 DEF EntriesFit, EntryFits, Timely
  <2> QED  BY <1>3, <1>4, <2>2
<1>6. RangeLost(d, c.start, c.end) = RangeLost(d, d.next, c.end)
  <2>1. ASSUME NEW x \in c.start .. c.end - 1, x \notin d.got
        PROVE  x \in d.next .. c.end - 1
    <3>1. x < d.next => x \in 0 .. d.next - 1
      BY <1>2, <1>5
    <3>2. ~(x < d.next)
      BY <1>1, <2>1, <3>1 DEF WindowFits
    <3> QED  BY <1>2, <3>2
  <2>2. \A x \in d.next .. c.end - 1 : x \in c.start .. c.end - 1
    BY <1>2, <1>5
  <2> QED  BY <2>1, <2>2 DEF RangeLost
<1> QED  BY <1>3, <1>4, <1>5, <1>6 DEF LossesTo

(***************************************************************************)
(* A longer prefix of the packets has no fewer losses.                     *)
(***************************************************************************)
LEMMA LossesGrow ==
  ASSUME NEW K \in Nat, NEW d, GoodWindow(d, K), Timely(d),
         NEW i \in 1 .. Len(d.recs), NEW j \in 1 .. Len(d.recs), i =< j
  PROVE  LossesTo(d, i) =< LossesTo(d, j) /\ LossesTo(d, i) \in Nat
         /\ LossesTo(d, j) \in Nat
<1>1. d \in Decoders
  BY DEF GoodWindow
<1>2. /\ d.next \in Int /\ Len(d.recs) \in Nat
      /\ d.recs[i].end \in Int /\ d.recs[j].end \in Int
  BY <1>1, DecoderType
<1> DEFINE a == d.next
           b == d.recs[i].end
           c == d.recs[j].end
<1>3. a =< b /\ b =< c /\ a \in Int /\ b \in Int /\ c \in Int
  <2>1. d.next < d.recs[i].end
    BY DEF Timely
  <2>2. i = j \/ i < j
    BY <1>2
  <2>3. d.recs[i].end =< d.recs[j].end
    BY <1>2, <2>2 DEF Timely, Sorted
  <2> QED  BY <1>2, <2>1, <2>3
<1> HIDE DEF a, b, c
<1>4. Cardinality(RangeLost(d, a, c))
        = Cardinality(RangeLost(d, a, b)) + Cardinality(RangeLost(d, b, c))
  BY <1>3, LossesAddUp
<1>5. /\ Cardinality(RangeLost(d, a, b)) \in Nat
      /\ Cardinality(RangeLost(d, b, c)) \in Nat
      /\ Cardinality(RangeLost(d, a, c)) \in Nat
  BY <1>3, LossesFinite
<1>6. Cardinality(RangeLost(d, a, b)) =< Cardinality(RangeLost(d, a, c))
  BY <1>4, <1>5
<1> QED  BY <1>5, <1>6 DEF LossesTo, a, b, c

(***************************************************************************)
(* Regions of which no shorter prefix is enough.                           *)
(***************************************************************************)
MinimalRegions(d) ==
  {c \in Regions : /\ GoodRegion(d, c)
                   /\ \A j \in 1 .. c.count - 1 : j < LossesTo(d, j)}

(***************************************************************************)
(* CheckRecoveryPossible changes nothing but the region checked, and when  *)
(* it says no, nothing can be recovered.                                   *)
(***************************************************************************)
CheckedThrough(d, e) ==
  /\ e = [d EXCEPT !.checked = e.checked]
  /\ Timely(e) /\ CheckedIsMinimal(e)
  /\ ~IsRecoveryPossible(e) => Settled(e)

(***************************************************************************)
(* One turn of the loop in CheckRecoveryPossible: the region gets one      *)
(* packet longer only when the packets it had are fewer than its losses.   *)
(***************************************************************************)
LEMMA GrowKeepsMinimal ==
  ASSUME NEW K \in Nat, NEW d, GoodWindow(d, K), Timely(d),
         NEW c \in MinimalRegions(d)
  PROVE  /\ GrowOnce(d, c) \in MinimalRegions(d)
         /\ \/ /\ GrowOnce(d, c) = c
               /\ ~(c.count < c.lost /\ c.count < Len(d.recs))
            \/ GrowOnce(d, c).count = c.count + 1
<1>1. c \in Regions /\ GoodRegion(d, c)
      /\ \A j \in 1 .. c.count - 1 : j < LossesTo(d, j)
  BY DEF MinimalRegions
<1>2. c.count \in Nat
  BY <1>1 DEF Regions
<1>3. CASE ~(c.count < c.lost /\ c.count < Len(d.recs))
  BY <1>3 DEF GrowOnce
<1>4. CASE c.count < c.lost /\ c.count < Len(d.recs)
  <2> DEFINE b == CheckOneMore(d, c)
  <2>1. b \in Regions /\ GoodRegion(d, b)
    BY <1>1, <1>4, OneMoreRegion
  <2>2. b.count = c.count + 1
    BY <1>1 DEF CheckOneMore, Regions
  <2>3. GrowOnce(d, c) = b
    BY <1>4 DEF GrowOnce
  <2> HIDE DEF b
  <2>4. c.lost = LossesTo(d, c.count)
    BY <1>1, RegionLosses
  <2>5. ASSUME NEW j \in 1 .. b.count - 1 PROVE j < LossesTo(d, j)
    <3>1. j \in 1 .. c.count - 1 \/ j = c.count
      BY <1>2, <2>2
    <3> QED  BY <1>1, <1>4, <2>4, <3>1
  <2> QED  BY <2>1, <2>2, <2>3, <2>5 DEF MinimalRegions
<1> QED  BY <1>3, <1>4

(***************************************************************************)
(* Where the loop ends: enough packets, or none left.                      *)
(***************************************************************************)
LEMMA GrownIsStuck ==
  ASSUME NEW K \in Nat, NEW d, GoodWindow(d, K), Timely(d),
         NEW from \in MinimalRegions(d)
  PROVE  LET c == GrowChecked(d, from)
         IN  /\ c \in MinimalRegions(d)
             /\ ~(c.count < c.lost /\ c.count < Len(d.recs))
<1> DEFINE X == MinimalRegions(d)
           L == Len(d.recs)
           Stuck(c) == ~(c.count < c.lost /\ c.count < L)
<1>1. d \in Decoders
  BY DEF GoodWindow
<1>2. L \in Nat
  BY <1>1, DecoderType
<1>3. \A c \in X : /\ GrowOnce(d, c) \in X
                   /\ \/ GrowOnce(d, c) = c /\ Stuck(c)
                      \/ GrowOnce(d, c).count = c.count + 1
  BY GrowKeepsMinimal
<1>4. \A c \in X : c.count \in Nat /\ c.count \in 1 .. L
  BY DEF MinimalRegions, Regions, GoodRegion
<1> HIDE DEF X
<1>5. PICK turn \in [Nat -> X] :
           /\ turn[0] = from
           /\ \A n \in Nat : turn[n + 1] = GrowOnce(d, turn[n])
           /\ GrowChecked(d, from) = turn[Len(d.recs)]
  <2>1. from \in X /\ Len(d.recs) \in Nat
    BY <1>2 DEF X
  <2>2. \A c \in X : GrowOnce(d, c) \in X
    BY <1>3
  <2> HIDE DEF L
  <2>3. GrowsWithin(d, from, X)
    BY <2>1, <2>2, GrowIsIterated
  <2> QED  BY <2>3 DEF GrowsWithin
<1> HIDE DEF L
<1> DEFINE S == {n \in Nat : Stuck(turn[n]) \/ turn[n].count >= n + 1}
<1>6. 0 \in S
  <2>1. turn[0] \in X
    BY <1>5
  <2> QED  BY <1>4, <2>1
<1>7. ASSUME NEW n \in Nat, n \in S PROVE n + 1 \in S
  <2>1. turn[n] \in X /\ turn[n + 1] = GrowOnce(d, turn[n])
    BY <1>5
  <2>2. \/ turn[n + 1] = turn[n] /\ Stuck(turn[n])
        \/ turn[n + 1].count = turn[n].count + 1
    BY <1>3, <2>1
  <2>3. CASE turn[n + 1] = turn[n] /\ Stuck(turn[n])
    BY <2>3
  <2>4. CASE turn[n + 1].count = turn[n].count + 1
    <3>1. Stuck(turn[n]) \/ turn[n].count >= n + 1
      BY <1>7
    <3>2. CASE turn[n].count >= n + 1
      BY <1>4, <2>1, <2>4, <3>2
    <3>3. CASE Stuck(turn[n])
      <4>1. GrowOnce(d, turn[n]) = turn[n]
        BY <3>3 DEF GrowOnce, L
      <4> QED  BY <2>1, <3>3, <4>1
    <3> QED  BY <3>1, <3>2, <3>3
  <2> QED  BY <2>2, <2>3, <2>4
<1> HIDE DEF S
<1>8. L \in S
  BY <1>2, <1>6, <1>7, SetInduction
<1>9. Stuck(turn[L]) \/ turn[L].count >= L + 1
  BY <1>8 DEF S
<1>10. turn[L] \in X
  BY <1>2, <1>5
<1>11. Stuck(turn[L])
  BY <1>2, <1>4, <1>9, <1>10
<1> QED  BY <1>5, <1>10, <1>11 DEF X, L

(***************************************************************************)
(* The loop does not pass over a prefix of the packets that is enough.     *)
(***************************************************************************)
LEMMA CheckIsThrough ==
  ASSUME NEW K \in Nat, NEW d, GoodDecoder(d, K), Timely(d),
         CheckedIsMinimal(d)
  PROVE  CheckedThrough(d, CheckRecoveryPossible(d))
<1> DEFINE from == IF d.checked.count = 0 THEN CheckedHead(d) ELSE d.checked
           c == GrowChecked(d, from)
           e == CheckRecoveryPossible(d)
<1>1. d \in Decoders /\ GoodWindow(d, K) /\ GoodChecked(d)
  BY DEF GoodDecoder, GoodWindow
<1>2. CASE d.recs = <<>>
  <2>1. e = d
    BY <1>2 DEF CheckRecoveryPossible
  <2>2. e = [d EXCEPT !.checked = e.checked]
    BY <1>1, <2>1 DEF Decoders
  <2>3. Len(d.recs) = 0
    BY <1>2
  <2>4. Settled(d)
    BY <2>3 DEF Settled
  <2> HIDE DEF e
  <2> QED  BY <2>1, <2>2, <2>4 DEF CheckedThrough, e
<1>3. CASE d.recs # <<>>
  <2>1. d.checked \in Regions /\ Len(d.recs) \in Nat /\ d.checked.count \in Nat
    BY <1>1, DecoderType
  <2>2. from \in MinimalRegions(d)
    <3>1. CASE d.checked.count = 0
      <4>1. CheckedHead(d) \in Regions /\ GoodRegion(d, CheckedHead(d))
        BY <1>1, <1>3, HeadRegion
      <4>2. CheckedHead(d).count = 1
        BY DEF CheckedHead
      <4>3. \A j \in 1 .. CheckedHead(d).count - 1 : j < LossesTo(d, j)
        BY <4>2
      <4> QED  BY <3>1, <4>1, <4>3 DEF MinimalRegions
    <3>2. CASE d.checked.count # 0
      BY <1>1, <2>1, <3>2 DEF MinimalRegions, GoodChecked, CheckedIsMinimal
    <3> QED  BY <3>1, <3>2
  <2>3. e = [d EXCEPT !.checked = c]
    BY <1>3 DEF CheckRecoveryPossible
  <2> HIDE DEF from
  <2>4. c \in MinimalRegions(d) /\ ~(c.count < c.lost /\ c.count < Len(d.recs))
    BY <1>1, <2>2, GrownIsStuck
  <2> HIDE DEF c, e
  <2>5. /\ c \in Regions /\ GoodRegion(d, c)
        /\ \A j \in 1 .. c.count - 1 : j < LossesTo(d, j)
    BY <2>4 DEF MinimalRegions
  <2>6. /\ e \in Decoders /\ e.checked = c /\ e.recs = d.recs /\ e.got = d.got
        /\ e.next = d.next
    BY <1>1, <2>3, <2>5 DEF Decoders
  <2>7. \A k : LossesTo(e, k) = LossesTo(d, k)
    BY <2>6 DEF LossesTo, RangeLost
  <2>8. Timely(e) /\ CheckedIsMinimal(e)
    BY <2>5, <2>6, <2>7 DEF Timely, Sorted, CheckedIsMinimal
  <2>9. /\ c.lost = LossesTo(d, c.count) /\ c.count \in 1 .. Len(d.recs)
        /\ c.lost \in Nat
    BY <1>1, <2>5, RegionLosses DEF Regions
  <2>10. ASSUME ~IsRecoveryPossible(e) PROVE Settled(e)
    <3>1. c.count < c.lost \/ c.lost > MaxLossRecovery
      BY <2>1, <2>6, <2>9, <2>10, SiameseDecoderAssumption
         DEF IsRecoveryPossible
    <3>2. ASSUME NEW k \in 1 .. Len(d.recs)
          PROVE  k < LossesTo(d, k) \/ LossesTo(d, k) > MaxLossRecovery
      <4>1. CASE k < c.count
        <5>1. k \in 1 .. c.count - 1
          BY <2>1, <2>9, <4>1
        <5> QED  BY <2>5, <5>1
      <4>2. CASE k = c.count
        BY <2>9, <3>1, <4>2
      <4>3. CASE k > c.count
        <5>1. c.lost > MaxLossRecovery
          BY <2>1, <2>4, <2>9, <3>1, <4>3
        <5>2. LossesTo(d, c.count) =< LossesTo(d, k)
              /\ LossesTo(d, k) \in Nat /\ LossesTo(d, c.count) \in Nat
          BY <1>1, <2>1, <2>9, <4>3, LossesGrow
        <5> QED  BY <2>9, <5>1, <5>2, SiameseDecoderAssumption
      <4> QED  BY <2>1, <2>9, <4>1, <4>2, <4>3
    <3> QED  BY <2>6, <2>7, <3>2 DEF Settled
  <2>11. e = [d EXCEPT !.checked = e.checked]
    BY <2>3, <2>6
  <2> QED  BY <2>8, <2>10, <2>11 DEF CheckedThrough, e
<1> QED  BY <1>2, <1>3

-----------------------------------------------------------------------------
(* Recovering                                                              *)

(***************************************************************************)
(* The columns that the region checked would recover.                      *)
(***************************************************************************)
RecoveredColumns(d) == {d.columnStart + x : x \in CheckedLost(d)}

(***************************************************************************)
(* Removing elements does not look at the region checked.                  *)
(***************************************************************************)
LEMMA RemoveForgets ==
  ASSUME NEW K \in Nat, K =< ColumnPeriod \div 2,
         NEW d, GoodWindow(d, K)
  PROVE  ResetChecked(RemoveElements(d)) = RemoveElements(ResetChecked(d))
<1> DEFINE e == ResetChecked(d)
           kept == FirstKept(d)
           n == WholeSubwindows(kept)
<1>1. d \in Decoders
  BY DEF GoodWindow
<1>2. e = [d EXCEPT !.checked = NothingChecked]
  BY DEF ResetChecked
<1>3. NothingChecked \in Regions
  BY DEF NothingChecked, Regions
<1>4. /\ e \in Decoders /\ e.next = d.next /\ e.recs = d.recs
      /\ e.columnStart = d.columnStart /\ e.lastMetadata = d.lastMetadata
      /\ e.count = d.count /\ e.got = d.got /\ e.checked = NothingChecked
  BY <1>1, <1>2, <1>3 DEF Decoders
<1> HIDE DEF e
<1>5. FirstKept(e) = kept /\ (NextIsFrom(e, RemoveThreshold)
                              <=> NextIsFrom(d, RemoveThreshold))
  BY <1>4 DEF FirstKept, NextIsFrom, DecoderElement
<1> HIDE DEF kept
<1>6. CASE ~NextIsFrom(d, RemoveThreshold)
  BY <1>2, <1>5, <1>6 DEF RemoveElements, ResetChecked
<1>7. CASE NextIsFrom(d, RemoveThreshold) /\ kept = -1
  <2>1. RemoveElements(d) = [d EXCEPT !.disabled = TRUE]
    BY <1>7 DEF RemoveElements, kept
  <2>2. RemoveElements(e) = [e EXCEPT !.disabled = TRUE]
    BY <1>5, <1>7 DEF RemoveElements
  <2>3. [[d EXCEPT !.disabled = TRUE] EXCEPT !.checked = NothingChecked]
          = [[d EXCEPT !.checked = NothingChecked] EXCEPT !.disabled = TRUE]
    BY <1>1 DEF Decoders
  <2> QED  BY <1>2, <2>1, <2>2, <2>3 DEF ResetChecked, e
<1>8. CASE NextIsFrom(d, RemoveThreshold) /\ kept # -1 /\ kept < RemoveThreshold
  <2>1. RemoveElements(d) = d /\ RemoveElements(e) = e
    BY <1>5, <1>8 DEF RemoveElements, kept
  <2> QED  BY <2>1 DEF e
<1>9. CASE NextIsFrom(d, RemoveThreshold) /\ kept # -1
           /\ ~(kept < RemoveThreshold)
  <2>1. RemoveElements(d) = DropFront(d, n)
        /\ RemoveElements(e) = DropFront(e, n)
    BY <1>5, <1>9 DEF RemoveElements, kept
  <2>2. kept \in Nat
    BY <1>9, FirstKeptResult DEF kept
  <2>3. n \in Nat
    BY <2>2, WholeResult
  <2> HIDE DEF n
  <2>4. ShiftChecked(NothingChecked, n) = NothingChecked
    <3>1. CASE n > 0
      BY <2>3, <3>1 DEF ShiftChecked, NothingChecked
    <3>2. CASE n = 0
      <4>1. ASSUME NEW c \in Regions
            PROVE  [c EXCEPT !.start = c.start - 0, !.end = c.end - 0] = c
        <5>1. [c EXCEPT !.start = c.start, !.end = c.end] = c
          BY DEF Regions
        <5>2. c.start - 0 = c.start /\ c.end - 0 = c.end
          BY DEF Regions
        <5> QED  BY <5>1, <5>2
      <4> QED  BY <1>3, <3>2, <4>1 DEF ShiftChecked
    <3> QED  BY <2>3, <3>1, <3>2
  <2> DEFINE columnStart == AddColumns(d.columnStart, n)
             count == d.count - n
             got == {x - n : x \in {y \in d.got : y >= n}}
             next == d.next - n
             recs == [i \in DOMAIN d.recs |-> ShiftPacket(d.recs[i], n)]
             checked == ShiftChecked(d.checked, n)
  <2>5. DropFront(d, n)
          = [d EXCEPT !.columnStart = columnStart, !.count = count,
                      !.got = got, !.next = next, !.recs = recs,
                      !.checked = checked]
    BY <1>1 DEF DropFront, Decoders
  <2>6. DropFront(e, n)
          = [e EXCEPT !.columnStart = columnStart, !.count = count,
                      !.got = got, !.next = next, !.recs = recs,
                      !.checked = NothingChecked]
    BY <1>4, <2>4 DEF DropFront, Decoders
  <2> HIDE DEF columnStart, count, got, next, recs, checked
  <2>7. [[d EXCEPT !.columnStart = columnStart, !.count = count,
                   !.got = got, !.next = next, !.recs = recs,
                   !.checked = checked] EXCEPT !.checked = NothingChecked]
          = [[d EXCEPT !.checked = NothingChecked]
               EXCEPT !.columnStart = columnStart, !.count = count,
                      !.got = got, !.next = next, !.recs = recs,
                      !.checked = NothingChecked]
    BY <1>1 DEF Decoders
  <2> QED  BY <1>2, <2>1, <2>5, <2>6, <2>7 DEF ResetChecked, e
<1> QED  BY <1>6, <1>7, <1>8, <1>9

(***************************************************************************)
(* What back substitution gives: the recovered columns are had, the column *)
(* waited for is behind them, and the packets used are gone.               *)
(***************************************************************************)
Rebuilt(d, e, K) ==
  \/ e.disabled /\ ~(K < ColumnPeriod \div 2 /\ MetaStarts(d))
  \/ /\ Timely(e) /\ CheckedIsMinimal(e)
     /\ Onward(d, e, RecoveredColumns(d))
     /\ e.recovered = d.recovered
     /\ Len(e.recs) < Len(d.recs)
     /\ MetaStarts(d) => MetaStarts(e)
     /\ \A c \in RecoveredColumns(d) : ~HasColumn(d, c) /\ c < Place(e)

(***************************************************************************)
(* Back substitution moves the decoder forward by the losses of its        *)
(* region.                                                                 *)
(***************************************************************************)
LEMMA BackIsOnward ==
  ASSUME NEW K \in Nat, K =< ColumnPeriod \div 2,
         NEW d, GoodWindow(d, K), GoodRegion(d, d.checked), Timely(d)
  PROVE  Rebuilt(d, BackSubstitution(d), K)
<1> DEFINE c == d.checked
           from == c.end
           got == d.got \cup CheckedLost(d)
           b == [d EXCEPT !.got = got]
           f == AdvanceNext(b, from)
           g == ResetChecked(f)
           t == RemoveElements(g)
           e == BackSubstitution(d)
<1>1. d \in Decoders /\ WindowFits(d, K) /\ EntriesFit(d) /\ MetadataPassed(d)
      /\ AreOwnSymbols(d.recovered, K)
  BY DEF GoodWindow
<1>2. /\ d.columnStart \in Nat /\ d.count \in Nat /\ Len(d.recs) \in Nat
      /\ d.got \in SUBSET Int /\ d.next \in Int /\ c \in Regions
      /\ c.count \in Nat /\ c.start \in Int /\ c.end \in Int
      /\ \A i \in 1 .. Len(d.recs) : /\ d.recs[i].start \in Int
                                     /\ d.recs[i].end \in Int
  BY <1>1, DecoderType
<1>3. /\ c.end = d.recs[c.count].end /\ c.count \in 1 .. Len(d.recs)
      /\ c.start =< d.next /\ d.next < c.end
      /\ CheckedLost(d) = RangeLost(d, d.next, c.end)
      /\ c.start = d.recs[1].start
      /\ \A i \in 1 .. c.count : d.recs[i].end =< c.end
  <2>1. GoodRegion(d, c)
    OBVIOUS
  <2> HIDE DEF c
  <2>2. /\ c.end = d.recs[c.count].end /\ c.count \in 1 .. Len(d.recs)
        /\ c.start =< d.next /\ d.next < c.end
        /\ RangeLost(d, c.start, c.end) = RangeLost(d, d.next, c.end)
    BY <1>2, <2>1, RegionLosses
  <2> QED  BY <2>1, <2>2 DEF GoodRegion, CheckedLost, c
<1>4. 1 \in 1 .. Len(d.recs) /\ 0 =< d.next /\ d.next \notin d.got
  BY <1>2, <1>3 DEF Timely
<1>5. from \in Nat /\ from =< d.count
  <2>1. EntryFits(d, d.recs[c.count])
    BY <1>1, <1>3 DEF EntriesFit
  <2>2. c.end =< d.count
    BY <1>3, <2>1 DEF EntryFits
  <2>3. c.end >= 0
    <3> DEFINE h == c.end
               n == d.next
    <3>1. h \in Int /\ n \in Int /\ 0 =< n /\ n < h
      BY <1>2, <1>3, <1>4
    <3> HIDE DEF h, n
    <3>2. h >= 0
      BY <3>1
    <3> QED  BY <3>2 DEF h
  <2> QED  BY <1>2, <2>2, <2>3
<1>6. d.next \in CheckedLost(d)
  <2> DEFINE h == c.end
             n == d.next
  <2>1. h \in Int /\ n \in Int /\ n < h
    BY <1>2, <1>3
  <2> HIDE DEF h, n
  <2>2. n \in n .. h - 1
    BY <2>1
  <2> QED  BY <1>3, <1>4, <2>2 DEF RangeLost, h, n
<1>7. \A y \in CheckedLost(d) : y \in Nat /\ y >= d.next /\ y < from
                                /\ y \notin d.got
  <2> SUFFICES ASSUME NEW y \in CheckedLost(d)
               PROVE  y \in Nat /\ y >= d.next /\ y < from /\ y \notin d.got
    OBVIOUS
  <2> DEFINE h == c.end
             n == d.next
  <2>1. y \in n .. h - 1 /\ y \notin d.got
    BY <1>3 DEF RangeLost
  <2>2. h \in Int /\ n \in Int /\ 0 =< n
    BY <1>2, <1>4
  <2> HIDE DEF h, n
  <2>3. y \in Nat /\ y >= n /\ y < h
    BY <2>1, <2>2
  <2> QED  BY <2>1, <2>3 DEF h, n
<1>8. got \in SUBSET Int /\ got \subseteq 0 .. d.count - 1
      /\ d.got \subseteq got
  BY <1>1, <1>2, <1>5, <1>7 DEF WindowFits
<1>9. \A y \in 0 .. from - 1 : y \in got
  <2> SUFFICES ASSUME NEW y \in 0 .. from - 1, y \notin d.got
               PROVE  y \in CheckedLost(d)
    OBVIOUS
  <2>1. y < d.next => y \in 0 .. d.next - 1
    BY <1>2
  <2>2. ~(y < d.next)
    BY <1>1, <2>1 DEF WindowFits
  <2>3. y \in d.next .. c.end - 1
    BY <1>2, <2>2
  <2> QED  BY <1>3, <2>3 DEF RangeLost
<1>10. /\ b \in Decoders /\ b.got = got /\ b.next = d.next
       /\ b.columnStart = d.columnStart /\ b.count = d.count
       /\ b.recs = d.recs /\ b.lastMetadata = d.lastMetadata
       /\ b.recovered = d.recovered /\ b.checked = c
       /\ b.latestColumn = d.latestColumn /\ b.disabled = d.disabled
  <2> HIDE DEF got
  <2> QED  BY <1>1, <1>8 DEF Decoders
<1>11. e = ResetChecked(TrimPastChecked(f))
  <2>1. b = [d EXCEPT !.got = @ \cup CheckedLost(d)]
    BY <1>1 DEF Decoders
  <2> QED  BY <1>6, <2>1 DEF BackSubstitution
<1> HIDE DEF b, from
<1>12. WindowFits(b, K) /\ EntriesFit(b) /\ MetadataPassed(b)
  <2>1. 0 .. d.next - 1 \subseteq got
    BY <1>1, <1>8 DEF WindowFits
  <2>2. WindowFits(b, K)
    <3> HIDE DEF got
    <3> QED  BY <1>1, <1>8, <1>10, <2>1 DEF WindowFits
  <2> QED  BY <1>1, <1>10, <2>2
        DEF EntriesFit, EntryFits, MetadataPassed, MetadataEnd
<1>13. 0 =< b.next /\ b.next < b.count /\ 0 .. from - 1 \subseteq b.got
       /\ from =< b.count
  <2>1. 0 .. from - 1 \subseteq b.got
    BY <1>9, <1>10
  <2>2. b.next < b.count
    <3> DEFINE n == d.next
               m == d.count
    <3>1. /\ n \in Int /\ m \in Int /\ from \in Int /\ n < from /\ from =< m
          /\ b.next = n /\ b.count = m
      BY <1>2, <1>3, <1>5, <1>10 DEF from
    <3> HIDE DEF n, m
    <3>2. n < m
      BY <3>1
    <3> QED  BY <3>1, <3>2
  <2> QED  BY <1>4, <1>5, <1>10, <2>1, <2>2
<1> HIDE DEF got
<1>14. Sorted(b) /\ b.got \subseteq 0 .. b.count - 1
  BY <1>8, <1>10 DEF Timely, Sorted
<1>15. Advanced(b, f, from, K)
  <2>1. Advanced(b, AdvanceNext(b, from), from, K)
    BY <1>5, <1>10, <1>12, <1>13, AdvanceResult
  <2> QED  BY <2>1
<1>16. /\ f.next \notin b.got
       /\ \A i \in 1 .. Len(f.recs) : f.next < f.recs[i].end
  <2> DEFINE After(h) == /\ h.next \notin b.got
                         /\ \A i \in 1 .. Len(h.recs) : h.next < h.recs[i].end
  <2>1. After(AdvanceNext(b, from))
    BY <1>5, <1>10, <1>13, <1>14, AdvanceIsTimely
  <2> QED  BY <2>1
<1> HIDE DEF f
<1>17. /\ f \in Decoders /\ from =< f.next
       /\ f.columnStart = d.columnStart /\ f.count = d.count
       /\ f.got = got /\ f.lastMetadata = d.lastMetadata
       /\ f.recovered = d.recovered /\ f.checked = c
       /\ f.latestColumn = d.latestColumn /\ f.disabled = d.disabled
       /\ WindowFits(f, K) /\ EntriesFit(f) /\ MetadataPassed(f)
  <2>1. /\ f \in Decoders /\ from =< f.next
        /\ f = [b EXCEPT !.next = f.next, !.recs = f.recs]
        /\ WindowFits(f, K) /\ EntriesFit(f) /\ MetadataPassed(f)
    BY <1>15 DEF Advanced
  <2>2. /\ f.columnStart = b.columnStart /\ f.count = b.count
        /\ f.got = b.got /\ f.lastMetadata = b.lastMetadata
        /\ f.recovered = b.recovered /\ f.checked = b.checked
        /\ f.latestColumn = b.latestColumn /\ f.disabled = b.disabled
    BY <1>10, <2>1 DEF Decoders
  <2> QED  BY <1>10, <2>1, <2>2
<1>18. f.next \in Int /\ d.next < f.next /\ 0 =< f.next
  <2>1. f.next \in Int
    BY <1>17, DecoderType
  <2> DEFINE n == d.next
             m == f.next
  <2>2. n \in Int /\ m \in Int /\ from \in Int /\ n < from /\ from =< m
        /\ 0 =< n
    BY <1>2, <1>3, <1>4, <1>17, <2>1 DEF from
  <2> HIDE DEF n, m
  <2>3. n < m /\ 0 =< m
    BY <2>2
  <2> QED  BY <2>1, <2>3 DEF n, m
<1>19. PICK k \in 0 .. Len(d.recs) :
          /\ Len(f.recs) = Len(d.recs) - k
          /\ \A i \in 1 .. Len(d.recs) - k : f.recs[i] = d.recs[i + k]
  BY <1>10, <1>15 DEF Advanced
<1>20. Len(f.recs) < Len(d.recs)
  <2> SUFFICES ASSUME k = 0 PROVE FALSE
    BY <1>2, <1>19
  <2>1. Len(f.recs) = Len(d.recs) /\ f.recs[1] = d.recs[1]
    BY <1>2, <1>4, <1>19
  <2>2. f.next < d.recs[1].end
    BY <1>4, <1>16, <2>1
  <2>3. d.recs[1].end =< c.end
    BY <1>2, <1>3
  <2> QED  BY <1>2, <1>4, <1>17, <1>18, <2>2, <2>3 DEF from
<1>21. GoodWindow(f, K)
  BY <1>1, <1>17, <1>18 DEF GoodWindow
<1>22. /\ GoodWindow(g, K) /\ g.checked = NothingChecked
       /\ g.next = f.next /\ g.recs = f.recs /\ g.columnStart = f.columnStart
       /\ g.count = f.count /\ g.got = f.got
       /\ g.lastMetadata = f.lastMetadata /\ g.recovered = f.recovered
       /\ g.latestColumn = f.latestColumn /\ g.disabled = f.disabled
  <2>1. NothingChecked \in Regions
    BY DEF NothingChecked, Regions
  <2>2. GoodWindow(g, K) /\ g.checked = NothingChecked
    BY <1>21, <2>1, WindowWithoutChecked DEF ResetChecked
  <2> QED  BY <1>17, <2>2 DEF ResetChecked, Decoders
<1>23. e = IF c.end >= RemoveThreshold THEN t ELSE g
  <2>1. ResetChecked(RemoveElements(f)) = RemoveElements(ResetChecked(f))
    BY <1>21, RemoveForgets
  <2> QED  BY <1>11, <1>17, <2>1 DEF TrimPastChecked
<1> HIDE DEF g
<1>24. ASSUME NEW i \in 1 .. Len(g.recs)
       PROVE  i + k \in 1 .. Len(d.recs) /\ g.recs[i] = d.recs[i + k]
  <2>1. i \in 1 .. Len(d.recs) - k
    BY <1>19, <1>22
  <2>2. i + k \in 1 .. Len(d.recs)
    BY <1>2, <2>1
  <2> QED  BY <1>19, <1>22, <2>1, <2>2
<1>24a. GoodDecoder(g, K) /\ CheckedIsMinimal(g) /\ g \in Decoders
  BY <1>22 DEF GoodDecoder, GoodWindow, GoodChecked, CheckedIsMinimal,
     NothingChecked
<1>25. Timely(g)
  <2>1. ASSUME NEW i \in 1 .. Len(g.recs)
        PROVE  /\ g.recs[i].start =< g.next /\ g.next < g.recs[i].end
               /\ i + k \in 1 .. Len(d.recs) /\ g.recs[i] = d.recs[i + k]
    <3>1. i + k \in 1 .. Len(d.recs) /\ g.recs[i] = d.recs[i + k]
      BY <1>24
    <3>2. d.recs[i + k].start =< d.next /\ d.recs[i + k].start \in Int
      BY <1>2, <3>1 DEF Timely
    <3>3. d.recs[i + k].start =< f.next
      <4> DEFINE a == d.recs[i + k].start
                 n == d.next
                 m == f.next
      <4>1. a \in Int /\ n \in Int /\ m \in Int /\ a =< n /\ n < m
        BY <1>2, <1>18, <3>2
      <4> HIDE DEF a, n, m
      <4>2. a =< m
        BY <4>1
      <4> QED  BY <4>2 DEF a, m
    <3>4. f.next < f.recs[i].end
      BY <1>16, <1>22
    <3> QED  BY <1>22, <3>1, <3>3, <3>4
  <2>2. Sorted(g)
    <3> SUFFICES ASSUME NEW i \in 1 .. Len(g.recs), NEW j \in 1 .. Len(g.recs),
                        i < j
                 PROVE  g.recs[i].end =< g.recs[j].end
      BY DEF Sorted
    <3>1. i + k < j + k /\ i + k \in 1 .. Len(d.recs)
          /\ j + k \in 1 .. Len(d.recs)
      BY <2>1
    <3>2. d.recs[i + k].end =< d.recs[j + k].end
      BY <3>1 DEF Timely, Sorted
    <3> QED  BY <2>1, <3>2
  <2> QED  BY <1>10, <1>16, <1>17, <1>18, <1>22, <2>1, <2>2 DEF Timely
<1>26. Place(d) \in Int /\ Place(g) \in Int /\ Place(d) =< Place(g)
       /\ d.columnStart + from =< Place(g)
  <2> DEFINE o == d.columnStart
             n == d.next
             m == f.next
  <2>1. /\ o \in Int /\ n \in Int /\ m \in Int /\ from \in Int
        /\ n < m /\ from =< m
    BY <1>2, <1>5, <1>17, <1>18
  <2>2. Place(d) = o + n /\ Place(g) = o + m
    BY <1>17, <1>22 DEF Place
  <2> HIDE DEF o, n, m
  <2>3. o + n \in Int /\ o + m \in Int /\ o + n =< o + m /\ o + from =< o + m
    BY <2>1
  <2> QED  BY <2>2, <2>3 DEF o
<1>27. \A m \in RecoveredColumns(d) : ~HasColumn(d, m) /\ m < Place(g)
                                      /\ m \in Int
  <2> SUFFICES ASSUME NEW x \in CheckedLost(d)
               PROVE  /\ ~HasColumn(d, d.columnStart + x)
                      /\ d.columnStart + x < Place(g)
                      /\ d.columnStart + x \in Int
    BY DEF RecoveredColumns
  <2>1. x \in Nat /\ x < from /\ x \notin d.got
    BY <1>7 DEF from
  <2>2. (d.columnStart + x) - d.columnStart = x
    BY <1>2, <2>1
  <2>3. ~(d.columnStart + x < d.columnStart)
    BY <1>2, <2>1
  <2>4. d.columnStart + x < d.columnStart + from
    BY <1>2, <1>5, <2>1
  <2>5. d.columnStart + x \in Int /\ d.columnStart + from \in Int
    BY <1>2, <1>5, <2>1
  <2> QED  BY <1>26, <2>1, <2>2, <2>3, <2>4, <2>5 DEF HasColumn
<1>28. Onward(d, g, RecoveredColumns(d))
  <2>1. LaterViews(d, g)
    <3>1. ASSUME NEW i \in 1 .. Len(d.recs) - k
          PROVE  View(g, g.recs[i]) = View(d, d.recs[i + k])
      BY <1>17, <1>19, <1>22 DEF View
    <3> QED  BY <1>19, <1>22, <3>1 DEF LaterViews
  <2>2. ASSUME NEW m \in Nat
        PROVE  HasColumn(g, m) <=> HasColumn(d, m) \/ m \in RecoveredColumns(d)
    <3>1. g.columnStart = d.columnStart /\ g.got = d.got \cup CheckedLost(d)
      BY <1>17, <1>22 DEF got
    <3>2. m \in RecoveredColumns(d) <=> m - d.columnStart \in CheckedLost(d)
      <4>1. ASSUME m - d.columnStart \in CheckedLost(d)
            PROVE  m \in RecoveredColumns(d)
        <5>1. m = d.columnStart + (m - d.columnStart)
          BY <1>2
        <5> QED  BY <4>1, <5>1 DEF RecoveredColumns
      <4>2. ASSUME NEW x \in CheckedLost(d), m = d.columnStart + x
            PROVE  m - d.columnStart \in CheckedLost(d)
        <5>1. x \in Nat
          BY <1>7
        <5>2. m - d.columnStart = x
          BY <1>2, <4>2, <5>1
        <5> QED  BY <4>2, <5>2
      <4> QED  BY <4>1, <4>2 DEF RecoveredColumns
    <3> QED  BY <3>1, <3>2 DEF HasColumn
  <2> QED  BY <1>17, <1>22, <1>26, <2>1, <2>2 DEF Onward
<1>29. MetaStarts(d) => MetaStarts(g)
  <2> SUFFICES ASSUME MetaStarts(d) PROVE MetaStarts(g)
    OBVIOUS
  <2>1. ASSUME NEW i \in 1 .. Len(g.recs)
        PROVE  g.columnStart + g.recs[i].start =< g.lastMetadata.columnStart
    <3>1. i + k \in 1 .. Len(d.recs) /\ g.recs[i] = d.recs[i + k]
      BY <1>24
    <3> QED  BY <1>17, <1>22, <3>1 DEF MetaStarts
  <2> QED  BY <1>17, <1>22, <2>1 DEF MetaStarts
<1>30. Rebuilt(d, g, K)
  BY <1>17, <1>20, <1>22, <1>24a, <1>25, <1>27, <1>28, <1>29 DEF Rebuilt
<1>31. Trimmed(g, t, K)
  BY <1>24a, <1>25, RemoveIsOnward
<1>32. t \in Decoders
  BY <1>22, RemoveResult DEF GoodWindow
<1> HIDE DEF t, e
<1>33. Rebuilt(d, t, K)
  <2>1. CASE t.disabled /\ ~(K < ColumnPeriod \div 2 /\ MetaStarts(g))
    BY <1>29, <2>1 DEF Rebuilt
  <2>2. CASE /\ Timely(t) /\ CheckedIsMinimal(t) /\ Onward(g, t, {})
             /\ t.recovered = g.recovered
             /\ MetaStarts(g) => MetaStarts(t)
    <3>1. Onward(d, t, RecoveredColumns(d) \cup {})
      BY <1>1, <1>24a, <1>28, <1>32, <2>2, OnwardTwice
    <3>2. RecoveredColumns(d) \cup {} = RecoveredColumns(d)
      OBVIOUS
    <3>3. Onward(d, t, RecoveredColumns(d))
      BY <3>1, <3>2
    <3>4. Len(t.recs) =< Len(g.recs) /\ Len(t.recs) \in Nat
          /\ Len(g.recs) \in Nat
      <4>1. Len(t.recs) \in Nat /\ Len(g.recs) \in Nat
        BY <1>24a, <1>32, DecoderType
      <4> QED  BY <2>2, <4>1 DEF Onward, LaterViews
    <3>5. Len(t.recs) < Len(d.recs)
      BY <1>2, <1>20, <1>22, <3>4
    <3>6. Place(t) \in Int /\ Place(g) =< Place(t)
      BY <1>32, <2>2, DecoderType DEF Place, Onward
    <3>7. \A m \in RecoveredColumns(d) : ~HasColumn(d, m) /\ m < Place(t)
      BY <1>26, <1>27, <3>6
    <3> QED  BY <1>17, <1>22, <1>29, <2>2, <3>3, <3>5, <3>7 DEF Rebuilt
  <2> QED  BY <1>31, <2>1, <2>2 DEF Trimmed
<1>34. Rebuilt(d, e, K)
  BY <1>23, <1>30, <1>33
<1> QED  BY <1>34 DEF e

-----------------------------------------------------------------------------
(* The loop over get_new_chunks                                            *)

(***************************************************************************)
(* The columns that symbols fill.                                          *)
(***************************************************************************)
ColumnsOf(symbols) == {y[1] : y \in symbols}

(***************************************************************************)
(* What a decoding hands out are the losses of its region.                 *)
(***************************************************************************)
LEMMA ColumnsRecovered ==
  ASSUME NEW K \in Nat, K =< ColumnPeriod \div 2,
         NEW d, GoodWindow(d, K), GoodRegion(d, d.checked), Timely(d)
  PROVE  ColumnsOf(RecoveredChunks(d)) = RecoveredColumns(d)
<1> DEFINE c == d.checked
<1>1. d \in Decoders /\ WindowFits(d, K) /\ EntriesFit(d)
  BY DEF GoodWindow
<1>2. /\ d.columnStart \in Nat /\ d.count \in Nat
      /\ d.columnStart + d.count =< K
      /\ d.next \in Int /\ c.start \in Int /\ c.end \in Int /\ c \in Regions
      /\ \A i \in 1 .. Len(d.recs) : d.recs[i].end \in Int
  BY <1>1, DecoderType DEF WindowFits
<1>3. c.end = d.recs[c.count].end /\ c.count \in 1 .. Len(d.recs)
      /\ CheckedLost(d) = RangeLost(d, d.next, c.end) /\ 0 =< d.next
  <2>1. 0 =< d.next
    BY DEF Timely
  <2>2. c \in Regions /\ GoodRegion(d, c)
    BY <1>2
  <2> HIDE DEF c
  <2>3. /\ c.end = d.recs[c.count].end /\ c.count \in 1 .. Len(d.recs)
        /\ RangeLost(d, c.start, c.end) = RangeLost(d, d.next, c.end)
    BY <2>2, RegionLosses
  <2> QED  BY <2>1, <2>3 DEF CheckedLost, c
<1>4. c.end =< d.count
  <2>1. EntryFits(d, d.recs[c.count])
    BY <1>1, <1>3 DEF EntriesFit
  <2> QED  BY <1>3, <2>1 DEF EntryFits
<1>5. ASSUME NEW x \in CheckedLost(d)
      PROVE  AddColumns(d.columnStart, x) = d.columnStart + x
  <2>1. x \in d.next .. c.end - 1
    BY <1>3 DEF RangeLost
  <2>2. d.columnStart + x \in 0 .. K - 1 /\ x \in Int
    <3>1. x \in Int /\ x >= 0 /\ x < c.end
      <4> DEFINE b == c.end
                 n == d.next
      <4>1. b \in Int /\ n \in Int /\ 0 =< n /\ x \in n .. b - 1
        BY <1>2, <1>3, <2>1
      <4> HIDE DEF b, n
      <4>2. x \in Int /\ x >= 0 /\ x < b
        BY <4>1
      <4> QED  BY <4>2 DEF b
    <3>2. x < d.count
      BY <1>2, <1>4, <3>1
    <3> HIDE DEF c
    <3> QED  BY <1>2, <3>1, <3>2
  <2>3. d.columnStart + x \in 0 .. K
    BY <2>2
  <2> QED  BY <1>2, <2>2, <2>3, SumOfColumns
<1>6. ASSUME NEW x \in CheckedLost(d)
      PROVE  <<AddColumns(d.columnStart, x), ChunkAt(d, x)>>[1]
               = d.columnStart + x
  BY <1>5
<1>7. ColumnsOf(RecoveredChunks(d))
        = {<<AddColumns(d.columnStart, x), ChunkAt(d, x)>>[1] :
             x \in CheckedLost(d)}
  BY DEF ColumnsOf, RecoveredChunks
<1> QED  BY <1>6, <1>7 DEF RecoveredColumns

(***************************************************************************)
(* When nothing can be recovered, CheckRecoveryPossible says so.           *)
(***************************************************************************)
LEMMA SettledIsOver ==
  ASSUME NEW K \in Nat, NEW d, GoodDecoder(d, K), Timely(d), Settled(d),
         NEW e, CheckedThrough(d, e), GoodWindow(e, K),
         e.checked.count > 0 => GoodRegion(e, e.checked)
  PROVE  ~IsRecoveryPossible(e)
<1> SUFFICES ASSUME IsRecoveryPossible(e) PROVE FALSE
  OBVIOUS
<1>1. e \in Decoders /\ d \in Decoders
  BY DEF GoodWindow, GoodDecoder
<1>2. e.next = d.next /\ e.recs = d.recs /\ e.got = d.got
  BY <1>1 DEF CheckedThrough, Decoders
<1> DEFINE c == e.checked
<1>3. c \in Regions /\ GoodRegion(e, c) /\ c.count >= c.lost
      /\ c.lost =< MaxLossRecovery
  BY <1>1, DecoderType DEF IsRecoveryPossible
<1> HIDE DEF c
<1>4. c.lost = LossesTo(e, c.count) /\ c.count \in 1 .. Len(e.recs)
  BY <1>3, RegionLosses DEF CheckedThrough
<1>5. LossesTo(e, c.count) = LossesTo(d, c.count)
  BY <1>2 DEF LossesTo, RangeLost
<1>6. c.count < c.lost \/ c.lost > MaxLossRecovery
  BY <1>2, <1>4, <1>5 DEF Settled
<1>7. c.count \in Nat /\ c.lost \in Nat
  BY <1>3 DEF Regions
<1> QED  BY <1>3, <1>6, <1>7, SiameseDecoderAssumption

(***************************************************************************)
(* The work of get_new_chunks on the decoder d so far: d moved forward by  *)
(* the chunks gathered, of which none but those d had ready were had       *)
(* before.                                                                 *)
(***************************************************************************)
Gathered(d, w) ==
  /\ Timely(w.fec) /\ CheckedIsMinimal(w.fec)
  /\ Onward(d, w.fec, ColumnsOf(w.chunks))
  /\ MetaStarts(d) => MetaStarts(w.fec)
  /\ d.recovered \subseteq w.chunks \cup w.fec.recovered
  /\ w.fec.recovered \subseteq d.recovered
  /\ \A y \in w.chunks :
       y \in d.recovered \/ (~HasColumn(d, y[1]) /\ y[1] < Place(w.fec))

(***************************************************************************)
(* The loop has nothing more to do.                                        *)
(***************************************************************************)
IsOver(w) == w.threw \/ (Settled(w.fec) /\ w.fec.recovered = {})

(***************************************************************************)
(* What the loop over get_new_chunks has left: each turn takes the chunks  *)
(* that are ready, or some recovery packets.                               *)
(***************************************************************************)
Remaining(w) == Len(w.fec.recs) + (IF w.fec.recovered = {} THEN 0 ELSE 1)

(***************************************************************************)
(* There are packets enough, but the equations have no solution.           *)
(***************************************************************************)
Unsolvable(d) ==
  LET e == CheckRecoveryPossible(d)
  IN  IsRecoveryPossible(e) /\ ~IsSolvable(e)

(***************************************************************************)
(* When the loop may throw: a decoding was unlucky, the decoder disabled   *)
(* itself, or the equations had no solution.                               *)
(***************************************************************************)
MayFail(d, w, lucky, K) ==
  \/ ~lucky
  \/ ~(K < ColumnPeriod \div 2 /\ MetaStarts(d))
  \/ Unsolvable(w.fec)

(***************************************************************************)
(* One turn of the loop: it gathers more, and is over or has less left.    *)
(***************************************************************************)
TurnTaken(d, w, v, lucky, K) ==
  \/ v.threw /\ MayFail(d, w, lucky, K)
  \/ /\ ~v.threw
     /\ Gathered(d, v)
     /\ IsOver(v) \/ (~IsOver(w) /\ Remaining(v) < Remaining(w))

(***************************************************************************)
(* A turn that takes chunks which are ready.                               *)
(***************************************************************************)
LEMMA TakingRecoveredIsTurn ==
  ASSUME NEW K \in Nat, K =< ColumnPeriod \div 2,
         NEW d \in Decoders, \A y \in d.recovered : HasColumn(d, y[1]),
         NEW w \in Works(K), ~w.threw, Gathered(d, w), w.fec.recovered # {},
         NEW lucky \in BOOLEAN
  PROVE  TurnTaken(d, w, [w EXCEPT !.chunks = @ \cup w.fec.recovered,
                                   !.fec.recovered = {}], lucky, K)
<1> DEFINE f == w.fec
           chunks == w.chunks \cup f.recovered
           e == [f EXCEPT !.recovered = {}]
           v == [w EXCEPT !.chunks = chunks, !.fec = e]
<1>1. /\ w \in [fec : Decoders, chunks : SUBSET (Nat \X Nat), threw : BOOLEAN]
      /\ GoodDecoder(f, K) /\ f \in Decoders
  BY DEF Works, GoodDecoder, GoodWindow
<1>2. [w EXCEPT !.chunks = @ \cup w.fec.recovered, !.fec.recovered = {}] = v
  BY <1>1
<1>3. f.recovered \in SUBSET (Nat \X Nat) /\ f.count \in Nat
      /\ Len(f.recs) \in Nat
  BY <1>1, DecoderType
<1> HIDE DEF f
<1>4. /\ e \in Decoders /\ e.recovered = {} /\ e.checked = f.checked
      /\ e.columnStart = f.columnStart /\ e.count = f.count /\ e.got = f.got
      /\ e.next = f.next /\ e.recs = f.recs
      /\ e.lastMetadata = f.lastMetadata /\ e.latestColumn = f.latestColumn
      /\ e.disabled = f.disabled
  BY <1>1 DEF Decoders
<1> HIDE DEF e
<1>5. Onward(f, e, {}) /\ Timely(e) /\ CheckedIsMinimal(e)
  <2>1. f.count =< e.count
    BY <1>3, <1>4
  <2>2. Timely(f) /\ CheckedIsMinimal(f)
    BY DEF Gathered, f
  <2> QED  BY <1>1, <1>4, <2>1, <2>2, OnwardStays
<1>6. v \in [fec : Decoders, chunks : SUBSET (Nat \X Nat), threw : BOOLEAN]
      /\ v.fec = e /\ v.chunks = chunks /\ v.threw = FALSE
  BY <1>1, <1>3, <1>4
<1> HIDE DEF v
<1>7. f.recovered \subseteq d.recovered
  BY DEF Gathered, f
<1>8. Onward(d, e, ColumnsOf(chunks))
  <2>1. Onward(d, f, ColumnsOf(w.chunks))
    BY DEF Gathered, f
  <2>2. Onward(d, e, ColumnsOf(w.chunks) \cup {})
    BY <1>1, <1>4, <1>5, <2>1, OnwardTwice
  <2>3. ColumnsOf(w.chunks) \cup {} = ColumnsOf(w.chunks)
    OBVIOUS
  <2>4. Onward(d, e, ColumnsOf(w.chunks))
    BY <2>2, <2>3
  <2>5. ColumnsOf(chunks) = ColumnsOf(w.chunks) \cup ColumnsOf(f.recovered)
    BY DEF ColumnsOf
  <2>6. \A c \in ColumnsOf(f.recovered) : HasColumn(d, c)
    BY <1>7 DEF ColumnsOf
  <2> HIDE DEF chunks
  <2> QED  BY <2>4, <2>5, <2>6 DEF Onward
<1>9. MetaStarts(f) => MetaStarts(e)
  BY <1>4 DEF MetaStarts
<1>10. Gathered(d, v)
  <2>1. Place(e) = Place(f)
    BY <1>4 DEF Place
  <2>2. \A y \in chunks :
          y \in d.recovered \/ (~HasColumn(d, y[1]) /\ y[1] < Place(e))
    BY <1>7, <2>1 DEF Gathered, f
  <2>3. d.recovered \subseteq chunks
    BY DEF Gathered, f
  <2>4. MetaStarts(d) => MetaStarts(e)
    BY <1>9 DEF Gathered, f
  <2> HIDE DEF chunks
  <2> QED  BY <1>4, <1>5, <1>6, <1>8, <2>2, <2>3, <2>4 DEF Gathered
<1>11. ~IsOver(w) /\ Remaining(v) < Remaining(w)
  <2>1. f.recovered # {}
    BY DEF f
  <2>2. Remaining(w) = Len(f.recs) + 1 /\ Remaining(v) = Len(f.recs) + 0
    BY <1>4, <1>6, <2>1 DEF Remaining, f
  <2> QED  BY <1>3, <2>1, <2>2 DEF IsOver, f
<1>12. TurnTaken(d, w, v, lucky, K)
  BY <1>6, <1>10, <1>11 DEF TurnTaken
<1> QED  BY <1>2, <1>12

(***************************************************************************)
(* A turn that finds nothing to recover.                                   *)
(***************************************************************************)
LEMMA IdleIsTurn ==
  ASSUME NEW K \in Nat, K =< ColumnPeriod \div 2,
         NEW d \in Decoders,
         NEW w \in Works(K), ~w.threw, Gathered(d, w), w.fec.recovered = {},
         NEW lucky \in BOOLEAN,
         NEW e, CheckedThrough(w.fec, e), GoodWindow(e, K),
         ~IsRecoveryPossible(e)
  PROVE  TurnTaken(d, w, [w EXCEPT !.fec = e], lucky, K)
<1> DEFINE f == w.fec
           v == [w EXCEPT !.fec = e]
<1>1. /\ w \in [fec : Decoders, chunks : SUBSET (Nat \X Nat), threw : BOOLEAN]
      /\ GoodDecoder(f, K) /\ f \in Decoders /\ e \in Decoders
  BY DEF Works, GoodDecoder, GoodWindow
<1>2. f.count \in Nat
  BY <1>1, DecoderType
<1>3. /\ e.recovered = f.recovered
      /\ e.columnStart = f.columnStart /\ e.count = f.count /\ e.got = f.got
      /\ e.next = f.next /\ e.recs = f.recs
      /\ e.lastMetadata = f.lastMetadata /\ e.latestColumn = f.latestColumn
      /\ e.disabled = f.disabled
  BY <1>1 DEF CheckedThrough, Decoders
<1>4. Timely(e) /\ CheckedIsMinimal(e) /\ Settled(e)
  BY DEF CheckedThrough
<1>5. Onward(f, e, {})
  <2>1. f.count =< e.count
    BY <1>2, <1>3
  <2> HIDE DEF f
  <2> QED  BY <1>1, <1>3, <2>1, OnwardStays
<1>6. v \in [fec : Decoders, chunks : SUBSET (Nat \X Nat), threw : BOOLEAN]
      /\ v.fec = e /\ v.chunks = w.chunks /\ v.threw = FALSE
  BY <1>1
<1> HIDE DEF v
<1>7. Onward(d, e, ColumnsOf(w.chunks))
  <2>1. Onward(d, f, ColumnsOf(w.chunks))
    BY DEF Gathered
  <2> HIDE DEF f
  <2>2. Onward(d, e, ColumnsOf(w.chunks) \cup {})
    BY <1>1, <1>5, <2>1, OnwardTwice
  <2>3. ColumnsOf(w.chunks) \cup {} = ColumnsOf(w.chunks)
    OBVIOUS
  <2> QED  BY <2>2, <2>3
<1>8. MetaStarts(f) => MetaStarts(e)
  BY <1>3 DEF MetaStarts
<1>9. Gathered(d, v)
  <2>1. Place(e) = Place(f)
    BY <1>3 DEF Place
  <2> QED  BY <1>3, <1>4, <1>6, <1>7, <1>8, <2>1 DEF Gathered
<1>10. IsOver(v)
  BY <1>3, <1>4, <1>6 DEF IsOver
<1>11. TurnTaken(d, w, v, lucky, K)
  BY <1>6, <1>9, <1>10 DEF TurnTaken
<1> QED  BY <1>11 DEF v

(***************************************************************************)
(* A turn that decodes.                                                    *)
(***************************************************************************)
LEMMA DecodedIsTurn ==
  ASSUME NEW K \in Nat, K =< ColumnPeriod \div 2,
         NEW d \in Decoders,
         NEW w \in Works(K), ~w.threw, Gathered(d, w), w.fec.recovered = {},
         NEW lucky \in BOOLEAN,
         NEW e, CheckedThrough(w.fec, e), GoodWindow(e, K),
         GoodRegion(e, e.checked), IsRecoveryPossible(e), IsSolvable(e),
         ~IsOver(w), ~d.disabled
  PROVE  TurnTaken(d, w, Decoded(w, e, BackSubstitution(e)), lucky, K)
<1> DEFINE f == w.fec
           b == BackSubstitution(e)
           new == RecoveredChunks(e)
           chunks == w.chunks \cup new
           v == [fec |-> b, chunks |-> chunks, threw |-> b.disabled]
<1>1. /\ w \in [fec : Decoders, chunks : SUBSET (Nat \X Nat), threw : BOOLEAN]
      /\ GoodDecoder(f, K) /\ f \in Decoders /\ e \in Decoders
  BY DEF Works, GoodDecoder, GoodWindow
<1>2. f.count \in Nat
  BY <1>1, DecoderType
<1>3. /\ e.recovered = f.recovered
      /\ e.columnStart = f.columnStart /\ e.count = f.count /\ e.got = f.got
      /\ e.next = f.next /\ e.recs = f.recs
      /\ e.lastMetadata = f.lastMetadata /\ e.latestColumn = f.latestColumn
      /\ e.disabled = f.disabled
  BY <1>1 DEF CheckedThrough, Decoders
<1>4. Timely(e)
  BY DEF CheckedThrough
<1>5. Onward(f, e, {})
  <2>1. f.count =< e.count
    BY <1>2, <1>3
  <2> HIDE DEF f
  <2> QED  BY <1>1, <1>3, <2>1, OnwardStays
<1>6. b \in Decoders
  BY BackResult
<1>7. Rebuilt(e, b, K)
  BY <1>4, BackIsOnward
<1>8. ColumnsOf(new) = RecoveredColumns(e)
  BY <1>4, ColumnsRecovered
<1>9. Decoded(w, e, BackSubstitution(e)) = v
  BY DEF Decoded
<1> HIDE DEF b, new
<1>10. v.fec = b /\ v.chunks = chunks /\ v.threw = b.disabled
  OBVIOUS
<1> HIDE DEF v
<1>11. MetaStarts(f) => MetaStarts(e)
  BY <1>3 DEF MetaStarts
<1>12. MetaStarts(e) => MetaStarts(f)
  BY <1>3 DEF MetaStarts
<1>13. CASE b.disabled /\ ~(K < ColumnPeriod \div 2 /\ MetaStarts(e))
  <2>1. MetaStarts(d) => MetaStarts(f)
    BY DEF Gathered
  <2>2. MayFail(d, w, lucky, K)
    BY <1>11, <1>13, <2>1 DEF MayFail
  <2>3. v.threw
    BY <1>10, <1>13
  <2> QED  BY <1>9, <2>2, <2>3 DEF TurnTaken
<1>14. CASE /\ Timely(b) /\ CheckedIsMinimal(b)
            /\ Onward(e, b, RecoveredColumns(e))
            /\ b.recovered = e.recovered
            /\ Len(b.recs) < Len(e.recs)
            /\ MetaStarts(e) => MetaStarts(b)
            /\ \A c \in RecoveredColumns(e) : ~HasColumn(e, c) /\ c < Place(b)
  <2>1. Onward(d, f, ColumnsOf(w.chunks))
    BY DEF Gathered
  <2>2. Onward(d, e, ColumnsOf(w.chunks))
    <3> HIDE DEF f
    <3>1. Onward(d, e, ColumnsOf(w.chunks) \cup {})
      BY <1>1, <1>5, <2>1, OnwardTwice
    <3>2. ColumnsOf(w.chunks) \cup {} = ColumnsOf(w.chunks)
      OBVIOUS
    <3> QED  BY <3>1, <3>2
  <2>3. Onward(d, b, ColumnsOf(chunks))
    <3>1. Onward(d, b, ColumnsOf(w.chunks) \cup RecoveredColumns(e))
      BY <1>1, <1>6, <1>14, <2>2, OnwardTwice
    <3>2. ColumnsOf(chunks) = ColumnsOf(w.chunks) \cup ColumnsOf(new)
      BY DEF ColumnsOf
    <3>3. ColumnsOf(chunks) = ColumnsOf(w.chunks) \cup RecoveredColumns(e)
      BY <1>8, <3>2
    <3> QED  BY <3>1, <3>3
  <2>4. ASSUME NEW y \in new
        PROVE  ~HasColumn(d, y[1]) /\ y[1] < Place(b)
    <3>1. y[1] \in RecoveredColumns(e)
      BY <1>8 DEF ColumnsOf
    <3>2. ~HasColumn(e, y[1]) /\ y[1] < Place(b)
      BY <1>14, <3>1
    <3>3. y[1] \in Nat
      <4>1. RecoveredChunks(e) \in SUBSET (Nat \X Nat)
        BY RecoveredResult
      <4> QED  BY <4>1 DEF new
    <3> QED  BY <2>2, <3>2, <3>3 DEF Onward
  <2>5. \A y \in chunks :
          y \in d.recovered \/ (~HasColumn(d, y[1]) /\ y[1] < Place(b))
    <3>1. Place(f) =< Place(b)
      <4>1. Place(f) = Place(e)
        BY <1>3 DEF Place
      <4> QED  BY <1>14, <4>1 DEF Onward
    <3>2. Place(f) \in Int /\ Place(b) \in Int
      <4>1. /\ f.columnStart \in Nat /\ f.next \in Int
            /\ b.columnStart \in Nat /\ b.next \in Int
        BY <1>1, <1>6, DecoderType
      <4> QED  BY <4>1 DEF Place
    <3>3. ASSUME NEW y \in w.chunks, ~(y \in d.recovered)
          PROVE  ~HasColumn(d, y[1]) /\ y[1] < Place(b)
      <4>1. ~HasColumn(d, y[1]) /\ y[1] < Place(f)
        BY <3>3 DEF Gathered
      <4>2. y[1] \in Nat
        BY <1>1
      <4> HIDE DEF f
      <4> QED  BY <3>1, <3>2, <4>1, <4>2
    <3> QED  BY <2>4, <3>3
  <2>6. d.recovered \subseteq chunks \cup b.recovered
        /\ b.recovered \subseteq d.recovered
    BY <1>3, <1>14 DEF Gathered
  <2>7. MetaStarts(d) => MetaStarts(b)
    BY <1>11, <1>14 DEF Gathered
  <2>8. Gathered(d, v)
    <3> HIDE DEF f, chunks
    <3> QED  BY <1>10, <1>14, <2>3, <2>5, <2>6, <2>7 DEF Gathered
  <2>9. Remaining(v) < Remaining(w)
    <3>1. Remaining(v) = Len(b.recs) /\ Remaining(w) = Len(f.recs)
      <4>1. Len(b.recs) \in Nat /\ Len(f.recs) \in Nat
        BY <1>1, <1>6, DecoderType
      <4> QED  BY <1>3, <1>10, <1>14, <4>1 DEF Remaining
    <3> QED  BY <1>3, <1>14, <3>1
  <2>10. ~v.threw
    BY <1>10, <2>3 DEF Onward
  <2> QED  BY <1>9, <2>8, <2>9, <2>10 DEF TurnTaken
<1> QED  BY <1>7, <1>13, <1>14 DEF Rebuilt

(***************************************************************************)
(* The three turns together.                                               *)
(***************************************************************************)
LEMMA GetNewIsTurn ==
  ASSUME NEW K \in Nat, K =< ColumnPeriod \div 2,
         NEW d \in Decoders, \A y \in d.recovered : HasColumn(d, y[1]),
         ~d.disabled,
         NEW w \in Works(K), ~w.threw, Gathered(d, w), NEW lucky \in BOOLEAN
  PROVE  TurnTaken(d, w, GetNewChunks(w, lucky), lucky, K)
<1> DEFINE f == w.fec
           e == CheckRecoveryPossible(f)
           taken == [w EXCEPT !.chunks = @ \cup w.fec.recovered,
                              !.fec.recovered = {}]
           idle == [w EXCEPT !.fec = e]
           fails == [w EXCEPT !.threw = TRUE]
           decoded == Decoded(w, e, BackSubstitution(e))
<1>1. w \in [fec : Decoders, chunks : SUBSET (Nat \X Nat), threw : BOOLEAN]
      /\ GoodDecoder(f, K)
  BY DEF Works
<1>2. CASE f.recovered # {}
  <2>1. TurnTaken(d, w, taken, lucky, K)
    BY <1>2, TakingRecoveredIsTurn
  <2>2. GetNewChunks(w, lucky) = taken
    BY <1>2 DEF GetNewChunks
  <2> QED  BY <2>1, <2>2
<1>3. CASE f.recovered = {}
  <2>1. GetNewChunks(w, lucky)
          = IF ~IsRecoveryPossible(e) THEN idle
            ELSE IF ~IsSolvable(e) \/ ~lucky THEN fails ELSE decoded
    BY <1>3 DEF GetNewChunks, DecodeIfReady
  <2>2. Timely(f) /\ CheckedIsMinimal(f)
    BY DEF Gathered
  <2>3. CheckedThrough(f, e)
    BY <1>1, <2>2, CheckIsThrough
  <2>4. /\ GoodWindow(e, K)
        /\ e.checked.count > 0 => GoodRegion(e, e.checked)
    BY <1>1, CheckResult
  <2>5. fails.threw = TRUE
    BY <1>1
  <2>6. IsRecoveryPossible(e) /\ ~IsSolvable(e) => Unsolvable(f)
    BY DEF Unsolvable
  <2> HIDE DEF e, fails, f
  <2>7. CASE ~IsRecoveryPossible(e)
    <3>1. TurnTaken(d, w, [w EXCEPT !.fec = e], lucky, K)
      BY <1>3, <2>3, <2>4, <2>7, IdleIsTurn DEF f
    <3> QED  BY <2>1, <2>7, <3>1
  <2>8. CASE IsRecoveryPossible(e) /\ (~IsSolvable(e) \/ ~lucky)
    <3>1. GetNewChunks(w, lucky) = fails
      BY <2>1, <2>8
    <3>2. MayFail(d, w, lucky, K)
      BY <2>6, <2>8 DEF MayFail, f
    <3> QED  BY <2>5, <3>1, <3>2 DEF TurnTaken
  <2>9. CASE IsRecoveryPossible(e) /\ IsSolvable(e) /\ lucky
    <3>1. ~IsOver(w)
      <4>1. ~Settled(f)
        BY <1>1, <2>2, <2>3, <2>4, <2>9, SettledIsOver
      <4> QED  BY <4>1 DEF IsOver, f
    <3>2. GoodRegion(e, e.checked)
      BY <2>4, <2>9 DEF IsRecoveryPossible
    <3>3. TurnTaken(d, w, Decoded(w, e, BackSubstitution(e)), lucky, K)
      BY <1>3, <2>3, <2>4, <2>9, <3>1, <3>2, DecodedIsTurn DEF f
    <3> QED  BY <2>1, <2>9, <3>3
  <2> QED  BY <2>7, <2>8, <2>9
<1> QED  BY <1>2, <1>3

(***************************************************************************)
(* How the loop over get_new_chunks can come to throw.                     *)
(***************************************************************************)
AllNewFails(d, lucky, K) ==
  \/ d.disabled
  \/ \E w \in Works(K) : ~w.threw /\ Gathered(d, w) /\ MayFail(d, w, lucky, K)

(***************************************************************************)
(* What the loop ends with: everything that could be recovered was.        *)
(***************************************************************************)
AllGathered(d, w, lucky, K) ==
  /\ w \in Works(K)
  /\ w.threw => AllNewFails(d, lucky, K)
  /\ ~w.threw => Gathered(d, w) /\ Settled(w.fec) /\ w.fec.recovered = {}

(***************************************************************************)
(* The works that occur in the loop.                                       *)
(***************************************************************************)
GatheredWorks(d, lucky, K) ==
  {w \in Works(K) : IF w.threw THEN AllNewFails(d, lucky, K)
                    ELSE Gathered(d, w) /\ ~d.disabled}

(***************************************************************************)
(* The loop runs until nothing can be recovered. It ends as what it has    *)
(* left gets less with each turn and there are as many turns in the model  *)
(* as packets and one.                                                     *)
(***************************************************************************)
LEMMA AllNewIsGathered ==
  ASSUME NEW K \in Nat, K =< ColumnPeriod \div 2,
         NEW d, GoodDecoder(d, K), Timely(d), CheckedIsMinimal(d),
         \A y \in d.recovered : HasColumn(d, y[1]),
         NEW lucky \in BOOLEAN
  PROVE  AllGathered(d, AllNewChunks(d, lucky), lucky, K)
<1> DEFINE start == AllNewStart(d)
           N == Len(d.recs)
           X == GatheredWorks(d, lucky, K)
<1>1. d \in Decoders /\ N \in Nat
  <2>1. d \in Decoders
    BY DEF GoodDecoder, GoodWindow
  <2> QED  BY <2>1, DecoderType
<1>2. start \in [fec : Decoders, chunks : SUBSET (Nat \X Nat), threw : BOOLEAN]
      /\ start.fec = d /\ start.chunks = {} /\ start.threw = d.disabled
  BY <1>1 DEF Decoders, AllNewStart
<1> HIDE DEF start
<1>3. start \in X
  <2>1. start \in Works(K)
    BY <1>2 DEF Works, AreOwnSymbols
  <2>2. Gathered(d, start)
    <3>1. d.count =< d.count
      BY <1>1, DecoderType
    <3>2. Onward(d, d, {})
      BY <1>1, <3>1, OnwardStays
    <3>3. ColumnsOf({}) = {}
      BY DEF ColumnsOf
    <3> QED  BY <1>2, <3>2, <3>3 DEF Gathered
  <2>3. d.disabled => AllNewFails(d, lucky, K)
    BY DEF AllNewFails
  <2> QED  BY <1>2, <2>1, <2>2, <2>3 DEF GatheredWorks
<1>4. ASSUME NEW w \in X
      PROVE  LET v == GetNewChunks(w, lucky)
             IN  /\ v \in X
                 /\ \/ IsOver(v)
                    \/ ~IsOver(w) /\ Remaining(v) < Remaining(w)
  <2> DEFINE v == GetNewChunks(w, lucky)
  <2>20. w \in Works(K) /\ (w.threw => AllNewFails(d, lucky, K))
        /\ (~w.threw => Gathered(d, w) /\ ~d.disabled)
    BY DEF GatheredWorks
  <2>1. v \in Works(K)
    BY <2>20, GetNewResult
  <2>2. CASE w.threw
    <3>1. v = w
      BY <2>2 DEF GetNewChunks
    <3> QED  BY <2>2, <3>1 DEF IsOver
  <2>3. CASE ~w.threw
    <3>1. Gathered(d, w) /\ ~d.disabled
      BY <2>20, <2>3
    <3>2. TurnTaken(d, w, v, lucky, K)
      BY <1>1, <2>20, <2>3, <3>1, GetNewIsTurn
    <3> HIDE DEF v
    <3>3. CASE v.threw /\ MayFail(d, w, lucky, K)
      <4>1. AllNewFails(d, lucky, K)
        BY <2>20, <2>3, <3>1, <3>3 DEF AllNewFails
      <4>2. v \in X
        BY <2>1, <3>3, <4>1 DEF GatheredWorks
      <4> QED  BY <3>3, <4>2 DEF IsOver, v
    <3>4. CASE /\ ~v.threw /\ Gathered(d, v)
               /\ IsOver(v) \/ (~IsOver(w) /\ Remaining(v) < Remaining(w))
      <4>1. v \in X
        BY <2>1, <3>1, <3>4 DEF GatheredWorks
      <4> QED  BY <3>4, <4>1 DEF v
    <3> QED  BY <3>2, <3>3, <3>4 DEF TurnTaken
  <2> QED  BY <2>2, <2>3
<1>5. ASSUME NEW w \in X PROVE Remaining(w) \in Nat
  <2>1. w.fec \in Decoders
    BY DEF Works, GatheredWorks
  <2>2. Len(w.fec.recs) \in Nat
    BY <2>1, DecoderType
  <2> DEFINE n == Len(w.fec.recs)
             m == IF w.fec.recovered = {} THEN 0 ELSE 1
  <2>3. m \in Nat /\ n \in Nat
    BY <2>2
  <2>4. Remaining(w) = n + m
    BY DEF Remaining
  <2> HIDE DEF n, m
  <2> QED  BY <2>3, <2>4
<1>6. Remaining(start) =< N + 1
  BY <1>1, <1>2 DEF Remaining
<1> HIDE DEF X
<1> HIDE DEF N
<1>7. PICK turn \in [Nat -> X] :
           /\ turn[0] = start
           /\ \A n \in Nat : turn[n + 1] = GetNewChunks(turn[n], lucky)
           /\ AllNewChunks(d, lucky) = turn[Len(d.recs) + 2]
  <2>1. Len(d.recs) \in Nat /\ AllNewStart(d) \in X
    BY <1>1, <1>3 DEF start, N
  <2>2. \A w \in X : GetNewChunks(w, lucky) \in X
    BY <1>4
  <2>3. GathersWithin(d, lucky, X)
    BY <2>1, <2>2, AllNewIsIterated
  <2> QED  BY <2>3 DEF GathersWithin, start
<1> DEFINE S == {n \in Nat : IsOver(turn[n]) \/ Remaining(turn[n]) + n =< N + 1}
<1>8. 0 \in S
  <2>1. turn[0] \in X
    BY <1>7
  <2> QED  BY <1>1, <1>5, <1>6, <1>7, <2>1
<1>9. ASSUME NEW n \in Nat, n \in S PROVE n + 1 \in S
  <2>1. turn[n] \in X /\ turn[n + 1] = GetNewChunks(turn[n], lucky)
        /\ turn[n + 1] \in X
    <3>1. n + 1 \in Nat
      OBVIOUS
    <3> QED  BY <1>7, <3>1
  <2>2. \/ IsOver(turn[n + 1])
        \/ /\ ~IsOver(turn[n])
           /\ Remaining(turn[n + 1]) < Remaining(turn[n])
    BY <1>4, <2>1
  <2>3. CASE IsOver(turn[n + 1])
    BY <2>3
  <2>4. CASE /\ ~IsOver(turn[n])
             /\ Remaining(turn[n + 1]) < Remaining(turn[n])
    <3>1. Remaining(turn[n]) + n =< N + 1
      BY <1>9, <2>4
    <3>2. Remaining(turn[n]) \in Nat /\ Remaining(turn[n + 1]) \in Nat
      BY <1>5, <2>1
    <3> QED  BY <1>1, <2>4, <3>1, <3>2
  <2> QED  BY <2>2, <2>3, <2>4
<1> HIDE DEF S
<1>10. N + 2 \in S
  BY <1>1, <1>8, <1>9, SetInduction
<1>11. turn[N + 2] \in X
  BY <1>1, <1>7
<1>12. IsOver(turn[N + 2])
  <2>1. IsOver(turn[N + 2]) \/ Remaining(turn[N + 2]) + (N + 2) =< N + 1
    BY <1>10 DEF S
  <2>2. Remaining(turn[N + 2]) \in Nat
    BY <1>5, <1>11
  <2> QED  BY <1>1, <2>1, <2>2
<1>13. AllNewChunks(d, lucky) = turn[N + 2]
  BY <1>7 DEF N
<1>14. ASSUME NEW w \in X, IsOver(w) PROVE AllGathered(d, w, lucky, K)
  BY <1>14 DEF AllGathered, IsOver, X, GatheredWorks
<1> QED  BY <1>11, <1>12, <1>13, <1>14

-----------------------------------------------------------------------------
(* What the encoder emits                                                  *)

(***************************************************************************)
(* Symbols whose recovery packets start at column c.                       *)
(***************************************************************************)
SymbolsFrom(c) == {y \in AllSymbols : y.fec => y.packet.columnStart = c}

(***************************************************************************)
(* Works of the encoder whose symbols protect from column c.               *)
(***************************************************************************)
Kept(c) ==
  {w \in Takes : /\ AckIsExact(w.stream.encoder)
                 /\ w.stream.encoder.nextColumnExpected = c
                 /\ w.symbols \in Seq(SymbolsFrom(c))}

(***************************************************************************)
(* One more symbol from column c keeps the work so.                        *)
(***************************************************************************)
LEMMA SymbolIsKept ==
  ASSUME NEW c, NEW w \in Kept(c), NEW got, got.stream \in GoodSegments,
         AckIsExact(got.stream.encoder),
         got.stream.encoder.nextColumnExpected = c,
         got.symbol \in SymbolsFrom(c)
  PROVE  WithSymbol(w, got) \in Kept(c)
<1>1. got.symbol \in AllSymbols
  BY DEF SymbolsFrom
<1>2. w \in Takes /\ w.symbols \in Seq(SymbolsFrom(c))
  BY DEF Kept
<1>3. /\ WithSymbol(w, got) \in Takes
      /\ WithSymbol(w, got).stream = got.stream
      /\ WithSymbol(w, got).symbols = Append(w.symbols, got.symbol)
  BY <1>1, <1>2, WithSymbolType
<1>4. Append(w.symbols, got.symbol) \in Seq(SymbolsFrom(c))
  BY <1>2, AppendProperties
<1> QED  BY <1>3, <1>4 DEF Kept

(***************************************************************************)
(* A symbol taken from the encoder leaves the column it protects from, and *)
(* a recovery packet starts there when the encoder's window is exact.      *)
(***************************************************************************)
LEMMA TakeSymbolKeepsExact ==
  ASSUME NEW c, NEW w \in Kept(c)
  PROVE  TakeSymbol(w) \in Kept(c)
<1> DEFINE s == w.stream
           e == s.encoder
<1>1. /\ w \in Takes /\ s \in GoodSegments /\ AckIsExact(e)
      /\ e.nextColumnExpected = c /\ w.symbols \in Seq(SymbolsFrom(c))
  BY DEF Kept, Takes
<1>2. /\ GoodEncoder(e) /\ Unacked(e) \in Int /\ e.added \in Int
      /\ s.pending \in Seq(Nat)
  BY <1>1, SegmentType, UnackedType
<1>3. CASE w.threw \/ ~HasSymbol(s)
  BY <1>3 DEF TakeSymbol
<1>4. CASE ~w.threw /\ HasSymbol(s) /\ GetSymbolThrows(s)
  <2>1. TakeSymbol(w) = [w EXCEPT !.threw = TRUE]
    BY <1>4 DEF TakeSymbol
  <2>2. /\ TakeSymbol(w) \in Takes
        /\ TakeSymbol(w).stream = s /\ TakeSymbol(w).symbols = w.symbols
    BY <1>1, <2>1 DEF Takes
  <2> QED  BY <1>1, <2>2 DEF Kept
<1>5. CASE ~w.threw /\ ~GetSymbolThrows(s) /\ IsNextSymbolFec(s)
  <2> DEFINE got == FecSymbol(s)
             p   == got.symbol.packet
  <2>1. TakeSymbol(w) = WithSymbol(w, got) /\ ~EncodeNeedsMoreData(e)
    BY <1>5 DEF TakeSymbol, HasSymbol, GetSymbolThrows, GetSymbol
  <2>2. /\ got.stream \in GoodSegments
        /\ got.stream.encoder.added = e.added
        /\ got.stream.encoder.nextColumnExpected = e.nextColumnExpected
        /\ Unacked(got.stream.encoder) = Unacked(e)
        /\ got.symbol = [fec |-> TRUE, packet |-> p]
        /\ p = [columnStart |-> (e.added - Unacked(e)) % ColumnPeriod,
                sumCount |-> Unacked(e), row |-> p.row,
                first |-> e.added - Unacked(e) + 1]
        /\ p.row \in Nat
        /\ Unacked(e) \in 1 .. MaxPackets
    BY <1>1, <1>5, <2>1, FecSymbolResult
  <2> HIDE DEF got
  <2>3. AckIsExact(got.stream.encoder)
    BY <1>1, <2>2 DEF AckIsExact
  <2>4. got.symbol \in SymbolsFrom(c)
    <3> DEFINE column == (e.added - Unacked(e)) % ColumnPeriod
               u == Unacked(e)
               row == p.row
               first == e.added - Unacked(e) + 1
    <3>1. column = c
      BY <1>1 DEF AckIsExact
    <3>2. column \in Column
      BY <1>2, ColumnPeriodAssumption DEF Column
    <3>3. first \in Int /\ u \in 1 .. MaxPackets /\ row \in Nat
      BY <1>2, <2>2
    <3>4. got.symbol = [fec |-> TRUE,
                        packet |-> [columnStart |-> column, sumCount |-> u,
                                    row |-> row, first |-> first]]
      BY <2>2
    <3> HIDE DEF column, u, row, first
    <3>5. got.symbol \in AllSymbols
      BY <3>2, <3>3, <3>4, SymbolType
    <3>6. got.symbol.packet.columnStart = column
      BY <3>4
    <3> QED  BY <3>1, <3>5, <3>6 DEF SymbolsFrom
  <2> QED  BY <1>1, <2>1, <2>2, <2>3, <2>4, SymbolIsKept
<1>6. CASE /\ ~w.threw /\ HasSymbol(s) /\ ~GetSymbolThrows(s)
           /\ ~IsNextSymbolFec(s)
  <2> DEFINE got == ChunkSymbol(s)
             n   == Head(s.pending)
  <2>1. /\ TakeSymbol(w) = WithSymbol(w, got) /\ ~MaxPacketsReached(e)
        /\ s.pending # <<>>
    BY <1>6 DEF TakeSymbol, HasSymbol, GetSymbolThrows, GetSymbol
  <2>2. /\ got.stream \in GoodSegments
        /\ got.stream.encoder.added = e.added + 1
        /\ got.stream.encoder.nextColumnExpected = e.nextColumnExpected
        /\ Unacked(got.stream.encoder) = Unacked(e) + 1
        /\ got.symbol = [fec |-> FALSE, index |-> e.added % ColumnPeriod,
                         chunk |-> n]
        /\ n \in Nat
    BY <1>1, <2>1, ChunkSymbolResult
  <2> HIDE DEF got, n
  <2>3. AckIsExact(got.stream.encoder)
    <3> DEFINE a == e.added
               u == Unacked(e)
    <3>0. a \in Int /\ u \in Int
      BY <1>2
    <3> HIDE DEF a, u
    <3>1. (a + 1) - (u + 1) = a - u
      BY <3>0
    <3> USE DEF a, u
    <3> QED  BY <1>1, <2>2, <3>1 DEF AckIsExact
  <2>4. got.symbol \in SymbolsFrom(c)
    <3>1. e.added % ColumnPeriod \in Column
      BY <1>2, ColumnPeriodAssumption DEF Column
    <3>2. got.symbol \in AllSymbols
      BY <2>2, <3>1, SymbolType
    <3>3. got.symbol.fec = FALSE
      BY <2>2
    <3> QED  BY <3>2, <3>3 DEF SymbolsFrom
  <2> QED  BY <1>1, <2>1, <2>2, <2>3, <2>4, SymbolIsKept
<1>7. IsNextSymbolFec(s) => HasSymbol(s)
  BY DEF HasSymbol
<1> QED  BY <1>3, <1>4, <1>5, <1>6, <1>7

(***************************************************************************)
(* So do all symbols that encoding some chunks gives.                      *)
(***************************************************************************)
LEMMA EncodeKeepsExact ==
  ASSUME NEW s \in GoodSegments, AckIsExact(s.encoder),
         NEW chunks \in Seq(Nat)
  PROVE  EncodeChunks(s, chunks) \in Kept(s.encoder.nextColumnExpected)
<1> DEFINE q == [s EXCEPT !.pending = @ \o chunks]
           c == s.encoder.nextColumnExpected
           X == Kept(c)
<1>1. /\ Len(q.pending) \in Nat /\ TakeStart(q) \in Takes
      /\ q.encoder = s.encoder
  BY QueuedResult
<1>2. EncodeChunks(s, chunks) = TakeSymbols(q)
  BY DEF EncodeChunks
<1> HIDE DEF q
<1>3. TakeStart(q) \in X
  <2>1. TakeStart(q).stream = q /\ TakeStart(q).symbols = <<>>
    BY DEF TakeStart
  <2>2. <<>> \in Seq(SymbolsFrom(c))
    BY EmptySeq
  <2> QED  BY <1>1, <2>1, <2>2 DEF Kept
<1>4. \A w \in X : TakeSymbol(w) \in X
  BY TakeSymbolKeepsExact
<1> HIDE DEF X
<1>5. PICK turn \in [Nat -> X] :
        /\ turn[0] = TakeStart(q)
        /\ \A n \in Nat : turn[n + 1] = TakeSymbol(turn[n])
        /\ TakeSymbols(q) = turn[(Len(q.pending) + 1) * (FecNumerator + 1)]
  BY <1>1, <1>3, <1>4, TakeSymbolsIsIterated
<1> DEFINE a == Len(q.pending) + 1
           b == FecNumerator + 1
<1>6. a \in Nat /\ b \in Nat
  BY <1>1, FecRatioAssumption
<1>7. TakeSymbols(q) = turn[a * b]
  BY <1>5
<1> HIDE DEF a, b
<1>8. a * b \in Nat
  BY <1>6
<1> QED  BY <1>2, <1>5, <1>7, <1>8 DEF X

(***************************************************************************)
(* A disabled decoder throws as soon as it is asked for chunks.            *)
(***************************************************************************)
LEMMA DisabledThrows ==
  ASSUME NEW d \in Decoders, d.disabled, NEW lucky \in BOOLEAN
  PROVE  AllNewChunks(d, lucky).threw
<1> DEFINE X == {AllNewStart(d)}
<1>1. AllNewStart(d).threw = d.disabled
  BY DEF AllNewStart
<1>2. \A w \in X : GetNewChunks(w, lucky) \in X
  BY <1>1 DEF GetNewChunks
<1>3. AllNewStart(d) \in X
  OBVIOUS
<1> HIDE DEF X
<1>4. Len(d.recs) \in Nat
  <2>1. d.recs \in Seq(Entries)
    BY DEF Decoders
  <2> QED  BY <2>1, LenProperties
<1>5. GathersWithin(d, lucky, X)
  BY <1>2, <1>3, <1>4, AllNewIsIterated
<1>6. AllNewChunks(d, lucky) \in X
  <2> DEFINE n == Len(d.recs) + 2
  <2>1. n \in Nat
    BY <1>4
  <2> HIDE DEF n
  <2> QED  BY <1>5, <2>1 DEF n, GathersWithin
<1> QED  BY <1>1, <1>6 DEF X

-----------------------------------------------------------------------------
(* process_symbol                                                          *)

(***************************************************************************)
(* A decoder between two messages: timely, with nothing recovered and not  *)
(* handed out, and nothing left to recover.                                *)
(***************************************************************************)
Prompt(d) ==
  /\ Timely(d) /\ CheckedIsMinimal(d) /\ Started(d)
  /\ Settled(d)
  /\ d.recovered = {}

(***************************************************************************)
(* What a symbol brings to a decoder: the columns it has from then on are  *)
(* the ones it had, the symbol's own, and those of the chunks handed out,  *)
(* which are new and which the decoder is past.                            *)
(***************************************************************************)
Brings(d, symbol, e, chunks) ==
  /\ Place(d) =< Place(e)
  /\ \A c \in Nat : HasColumn(e, c) <=> \/ HasColumn(d, c)
                                        \/ c \in ColumnsOf(chunks)
                                        \/ ~symbol.fec /\ c = symbol.index
  /\ \A y \in chunks : ~HasColumn(d, y[1]) /\ y[1] < Place(e)

(***************************************************************************)
(* What holds of the decoder e after add_symbol.                           *)
(***************************************************************************)
SymbolAdded(d, symbol, e) ==
  /\ Timely(e) /\ CheckedIsMinimal(e)
  /\ Brings(d, symbol, e, e.recovered)
  /\ \A y \in e.recovered : HasColumn(e, y[1])

(***************************************************************************)
(* add_symbol keeps a decoder timely, for a recovery packet that starts no *)
(* later than the column waited for.                                       *)
(***************************************************************************)
LEMMA AddSymbolIsTimely ==
  ASSUME NEW K \in Nat, K =< ColumnPeriod \div 2,
         NEW d, GoodDecoder(d, K), Prompt(d), NEW symbol, GoodSymbol(symbol, K),
         symbol.fec => symbol.packet.columnStart =< Place(d)
  PROVE  LET e == AddSymbol(d, symbol)
         IN  e.disabled \/ SymbolAdded(d, symbol, e)
<1> DEFINE p == symbol.packet
           a == AddRecovery(d, p)
           o == AddOriginal(d, symbol.index)
<1>1. /\ Timely(d) /\ CheckedIsMinimal(d) /\ Started(d) /\ d.recovered = {}
      /\ d \in Decoders
  BY DEF Prompt, GoodDecoder, GoodWindow
<1>2. CASE symbol.fec = TRUE /\ GoodPacket(symbol.packet, K)
  <2>1. p.columnStart =< Place(d) /\ p.columnStart \in Nat
    BY <1>2 DEF GoodPacket
  <2>2. AddSymbol(d, symbol) = a
    BY <1>2 DEF AddSymbol
  <2>3. AcceptedInOrder(d, p, a, K)
    BY <1>1, <1>2, <2>1, AddRecoveryIsAccepted
  <2> HIDE DEF a, p
  <2>4. a.disabled \/ Accepted(d, p, a)
    BY <2>3 DEF AcceptedInOrder
  <2>5. ASSUME Accepted(d, p, a) PROVE SymbolAdded(d, symbol, a)
    <3>1. /\ Timely(a) /\ CheckedIsMinimal(a) /\ Place(d) =< Place(a)
          /\ SameColumns(d, a) \/ NewColumns(d, p, a)
      BY <2>5 DEF Accepted
    <3>2. CASE a.recovered = {}
      <4>1. \A c \in Nat : HasColumn(a, c) <=> HasColumn(d, c)
        BY <1>1, <3>1, <3>2 DEF SameColumns, NewColumns
      <4>2. ColumnsOf({}) = {}
        BY DEF ColumnsOf
      <4> QED  BY <1>2, <3>1, <3>2, <4>1, <4>2 DEF Brings, SymbolAdded
    <3>3. CASE a.recovered # {}
      <4>1. /\ a.recovered = {<<p.columnStart, p.first>>}
            /\ ~HasColumn(d, p.columnStart) /\ p.columnStart < Place(a)
            /\ \A c \in Nat :
                 HasColumn(a, c) <=> HasColumn(d, c) \/ c = p.columnStart
        BY <1>1, <3>1, <3>3 DEF SameColumns, NewColumns
      <4>2. ColumnsOf(a.recovered) = {p.columnStart}
        BY <4>1 DEF ColumnsOf
      <4>3. Brings(d, symbol, a, a.recovered)
        <5>1. \A y \in a.recovered : ~HasColumn(d, y[1]) /\ y[1] < Place(a)
          BY <4>1
        <5> QED  BY <1>2, <3>1, <4>1, <4>2, <5>1 DEF Brings
      <4>4. \A y \in a.recovered : HasColumn(a, y[1])
        BY <2>1, <4>1
      <4> QED  BY <3>1, <4>3, <4>4 DEF SymbolAdded
    <3> QED  BY <3>2, <3>3
  <2> QED  BY <2>2, <2>4, <2>5
<1>3. CASE symbol.fec = FALSE /\ symbol.index \in 0 .. K - 1
  <2>1. AddSymbol(d, symbol) = o
    BY <1>3 DEF AddSymbol
  <2>2. /\ Timely(o) /\ CheckedIsMinimal(o) /\ Onward(d, o, {symbol.index})
        /\ o.recovered = d.recovered
    BY <1>1, <1>3, AddOriginalIsOnward
  <2> HIDE DEF o
  <2>3. /\ Place(d) =< Place(o)
        /\ \A c \in Nat :
             HasColumn(o, c) <=> HasColumn(d, c) \/ c \in {symbol.index}
    BY <2>2 DEF Onward
  <2>4. ColumnsOf({}) = {}
    BY DEF ColumnsOf
  <2>5. Brings(d, symbol, o, {})
    BY <1>3, <2>3, <2>4 DEF Brings
  <2> QED  BY <1>1, <2>1, <2>2, <2>5 DEF SymbolAdded
<1> QED  BY <1>2, <1>3 DEF GoodSymbol

(***************************************************************************)
(* add_symbol keeps a decoder good, whichever kind the symbol is.          *)
(***************************************************************************)
LEMMA SymbolAddedIsGood ==
  ASSUME NEW K \in Nat, K =< ColumnPeriod \div 2,
         NEW d, GoodDecoder(d, K), NEW symbol, GoodSymbol(symbol, K)
  PROVE  GoodDecoder(AddSymbol(d, symbol), K)
<1>1. CASE symbol.fec = TRUE /\ GoodPacket(symbol.packet, K)
  <2>1. GoodDecoder(AddRecovery(d, symbol.packet), K)
    BY <1>1, AddRecoveryResult
  <2> QED  BY <1>1, <2>1 DEF AddSymbol
<1>2. CASE symbol.fec = FALSE /\ symbol.index \in 0 .. K - 1
  <2>1. GoodDecoder(AddOriginal(d, symbol.index), K)
    BY <1>2, AddOriginalResult
  <2> QED  BY <1>2, <2>1 DEF AddSymbol
<1> QED  BY <1>1, <1>2 DEF GoodSymbol

(***************************************************************************)
(* The chunk an original symbol carries.                                   *)
(***************************************************************************)
OwnChunk(symbol) ==
  IF symbol.fec THEN {} ELSE {<<symbol.index, symbol.chunk>>}

(***************************************************************************)
(* What holds of the stream after process_symbol.                          *)
(***************************************************************************)
ProcessedInOrder(s, symbol, t, K) ==
  /\ Prompt(t.fec) /\ t.fec.count > 0
  /\ \E chunks \in SUBSET (Nat \X Nat) :
       /\ AreOwnSymbols(chunks, K)
       /\ Brings(s.fec, symbol, t.fec, chunks)
       /\ t.buffer =
            ProcessOriginalChunks(s.buffer, chunks \cup OwnChunk(symbol))

(***************************************************************************)
(* process_symbol leaves a decoder prompt, and queues the chunks it        *)
(* brings.                                                                 *)
(***************************************************************************)
LEMMA ProcessIsPrompt ==
  ASSUME NEW K \in Nat, K =< ColumnPeriod \div 2,
         NEW s, GoodStream(s, K), NEW symbol, GoodSymbol(symbol, K),
         Prompt(s.fec),
         symbol.fec => symbol.packet.columnStart =< Place(s.fec),
         NEW lucky \in BOOLEAN
  PROVE  LET p == ProcessSymbol(s, symbol, lucky)
         IN  ~p.threw => ProcessedInOrder(s, symbol, p.stream, K)
<1> DEFINE d == s.fec
           e == AddSymbol(d, symbol)
           new == AllNewChunks(e, lucky)
           p == ProcessSymbol(s, symbol, lucky)
           own == OwnChunk(symbol)
<1>1. GoodDecoder(d, K)
  BY DEF GoodStream
<1>2. e.disabled \/ SymbolAdded(d, symbol, e)
  BY <1>1, AddSymbolIsTimely
<1>3. GoodDecoder(e, K)
  BY <1>1, SymbolAddedIsGood
<1>4. /\ p.threw = (new.threw \/ AckNeedsMoreData(new.fec))
      /\ p.stream.fec = new.fec
      /\ p.stream.buffer = ProcessOriginalChunks(s.buffer, new.chunks \cup own)
  BY DEF ProcessSymbol, Processed, OwnChunk
<1> HIDE DEF p, e, own
<1> SUFFICES ASSUME ~p.threw PROVE ProcessedInOrder(s, symbol, p.stream, K)
  BY DEF p
<1>5. ~new.threw /\ new.fec.count # 0
  BY <1>4 DEF AckNeedsMoreData
<1>6. e \in Decoders /\ ~e.disabled
  <2>1. e \in Decoders
    BY <1>3 DEF GoodDecoder, GoodWindow
  <2> QED  BY <1>5, <2>1, DisabledThrows
<1>7. SymbolAdded(d, symbol, e)
  BY <1>2, <1>6
<1>8. AllGathered(e, new, lucky, K)
  <2>1. /\ Timely(e) /\ CheckedIsMinimal(e)
        /\ \A y \in e.recovered : HasColumn(e, y[1])
    BY <1>7 DEF SymbolAdded
  <2> QED  BY <1>3, <2>1, AllNewIsGathered
<1> HIDE DEF new
<1> DEFINE f == new.fec
<1>9. /\ new \in Works(K) /\ Gathered(e, new) /\ Settled(f) /\ f.recovered = {}
  BY <1>5, <1>8 DEF AllGathered
<1>10. f \in Decoders /\ new.chunks \in SUBSET (Nat \X Nat)
       /\ AreOwnSymbols(new.chunks, K)
  BY <1>5, <1>9 DEF Works
<1> HIDE DEF f
<1>11. Timely(f) /\ CheckedIsMinimal(f) /\ Onward(e, f, ColumnsOf(new.chunks))
       /\ e.recovered \subseteq new.chunks
       /\ \A y \in new.chunks :
            y \in e.recovered \/ (~HasColumn(e, y[1]) /\ y[1] < Place(f))
  BY <1>9 DEF Gathered, f
<1>12. f.count > 0 /\ Started(f)
  BY <1>5, <1>10 DEF Decoders, Started, f
<1>13. /\ Place(d) =< Place(e) /\ Place(e) =< Place(f) /\ Place(d) =< Place(f)
       /\ Place(e) \in Int /\ Place(f) \in Int
  <2>1. \A g \in Decoders : Place(g) \in Int
    BY DEF Decoders, Place
  <2>2. d \in Decoders
    BY <1>1 DEF GoodDecoder, GoodWindow
  <2>3. Place(d) \in Int /\ Place(e) \in Int /\ Place(f) \in Int
    BY <1>6, <1>10, <2>1, <2>2
  <2>4. Place(d) =< Place(e) /\ Place(e) =< Place(f)
    BY <1>7, <1>11 DEF SymbolAdded, Brings, Onward
  <2> QED  BY <2>3, <2>4
<1>14. \A c \in Nat : HasColumn(e, c) <=> \/ HasColumn(d, c)
                                          \/ c \in ColumnsOf(e.recovered)
                                          \/ ~symbol.fec /\ c = symbol.index
  BY <1>7 DEF SymbolAdded, Brings
<1>15. \A c \in Nat :
         HasColumn(f, c) <=> HasColumn(e, c) \/ c \in ColumnsOf(new.chunks)
  BY <1>11 DEF Onward
<1>16. ColumnsOf(e.recovered) \subseteq ColumnsOf(new.chunks)
  BY <1>11 DEF ColumnsOf
<1>17. ASSUME NEW y \in new.chunks
       PROVE  ~HasColumn(d, y[1]) /\ y[1] < Place(f)
  <2>1. y[1] \in Nat
    BY <1>10
  <2>2. CASE y \in e.recovered
    <3>1. ~HasColumn(d, y[1]) /\ y[1] < Place(e)
      BY <1>7, <2>2 DEF SymbolAdded, Brings
    <3> QED  BY <1>13, <2>1, <3>1
  <2>3. CASE ~HasColumn(e, y[1]) /\ y[1] < Place(f)
    BY <1>14, <2>1, <2>3
  <2> QED  BY <1>11, <2>2, <2>3
<1>18. Brings(d, symbol, f, new.chunks)
  <2>1. \A c \in Nat : HasColumn(f, c) <=> \/ HasColumn(d, c)
                                           \/ c \in ColumnsOf(new.chunks)
                                           \/ ~symbol.fec /\ c = symbol.index
    BY <1>14, <1>15, <1>16
  <2> QED  BY <1>13, <1>17, <2>1 DEF Brings
<1>19. Prompt(f)
  BY <1>9, <1>11, <1>12 DEF Prompt, f
<1>20. p.stream.fec = f
  BY <1>4 DEF f
<1> QED  BY <1>4, <1>10, <1>12, <1>18, <1>19, <1>20 DEF ProcessedInOrder, own

-----------------------------------------------------------------------------
(* handle_stream                                                           *)

(***************************************************************************)
(* The column acknowledged is the one waited for.                          *)
(***************************************************************************)
LEMMA PlaceIsSent ==
  ASSUME NEW K \in Nat, K =< ColumnPeriod \div 2, NEW d, GoodDecoder(d, K)
  PROVE  /\ Place(d) \in Int /\ Place(d) =< K
         /\ 0 =< d.next => Place(d) \in Nat /\ AckColumn(d) = Place(d)
<1>1. /\ d \in Decoders /\ d.columnStart + d.count =< K
      /\ d.got \subseteq 0 .. d.count - 1 /\ 0 .. d.next - 1 \subseteq d.got
  BY DEF GoodDecoder, GoodWindow, WindowFits
<1> DEFINE a == d.columnStart
           n == d.next
           c == d.count
<1>2. a \in Nat /\ n \in Int /\ c \in Nat /\ a + c =< K
      /\ 0 .. n - 1 \subseteq 0 .. c - 1
  BY <1>1 DEF Decoders
<1>3. Place(d) = a + n /\ AckColumn(d) = AddColumns(a, n)
  BY DEF Place, AckColumn
<1> HIDE DEF a, n, c
<1>4. n =< c
  <2>1. n > 0 => n - 1 \in 0 .. n - 1
    BY <1>2
  <2> QED  BY <1>2, <2>1
<1>5. 0 =< n => AddColumns(a, n) = a + n
  BY <1>2, <1>4, SumOfColumns
<1> QED  BY <1>2, <1>3, <1>4, <1>5 DEF n

(***************************************************************************)
(* The parts of handle_stream: process_symbol, the run of chunks taken     *)
(* from the buffer, and the chunks encoded for the next node.              *)
(***************************************************************************)
HandleSplit(m, p, h) ==
  LET n == CHOOSE n \in RunLengths : IsWholeRun(p.stream.buffer, n)
      taken == TakenChunks(p.stream.buffer, n)
      encoded == EncodeChunks(m.encoder, taken)
  IN  \/ p.threw /\ h.threw /\ h.acks = {} /\ h.node = m
      \/ /\ ~p.threw /\ h.threw = encoded.threw
         /\ h.acks = {AckColumn(p.stream.fec)}
         /\ h.chunks = taken
         /\ h.node = [decoder |-> [p.stream EXCEPT
                                     !.buffer = AfterRun(p.stream.buffer, n)],
                      encoder |-> encoded.stream]

(***************************************************************************)
(* Whatever the handler does has that form.                                *)
(***************************************************************************)
LEMMA HandleIsSplit ==
  ASSUME NEW m, NEW symbol, NEW lucky
  PROVE  HandleSplit(m, ProcessSymbol(m.decoder, symbol, lucky),
                     HandleStream(m, symbol, lucky))
<1> DEFINE p == ProcessSymbol(m.decoder, symbol, lucky)
           h == HandleStream(m, symbol, lucky)
<1>1. h = HandleProcessed(m, p)
  BY DEF HandleStream
<1> HIDE DEF p, h
<1>2. CASE p.threw
  <2>1. h = [threw |-> TRUE, acks |-> {}, chunks |-> <<>>, symbols |-> <<>>,
             node |-> m]
    BY <1>1, <1>2 DEF HandleProcessed
  <2> QED  BY <1>2, <2>1 DEF p, h, HandleSplit
<1>3. CASE ~p.threw
  <2> DEFINE n == CHOOSE n \in RunLengths : IsWholeRun(p.stream.buffer, n)
             taken == TakenChunks(p.stream.buffer, n)
             encoded == EncodeChunks(m.encoder, taken)
             decoder == [p.stream EXCEPT
                           !.buffer = AfterRun(p.stream.buffer, n)]
  <2>1. h = [threw   |-> encoded.threw,
             acks    |-> {GenerateAck(p.stream)},
             chunks  |-> taken,
             symbols |-> IF encoded.threw THEN <<>> ELSE encoded.symbols,
             node    |-> [decoder |-> decoder, encoder |-> encoded.stream]]
    BY <1>1, <1>3 DEF HandleProcessed, AfterDecoding, AfterEncoding
  <2>2. GenerateAck(p.stream) = AckColumn(p.stream.fec)
    BY DEF GenerateAck
  <2> HIDE DEF encoded, decoder, taken, n
  <2>3. /\ h.threw = encoded.threw /\ h.acks = {AckColumn(p.stream.fec)}
        /\ h.chunks = taken
        /\ h.node = [decoder |-> decoder, encoder |-> encoded.stream]
    BY <2>1, <2>2
  <2> QED  BY <1>3, <2>3 DEF p, h, encoded, decoder, taken, n, HandleSplit
<1> QED  BY <1>2, <1>3

(***************************************************************************)
(* handle_stream leaves the decoder prompt, moves it no way back, and      *)
(* acknowledges where it is.                                               *)
(***************************************************************************)
LEMMA HandleIsPrompt ==
  ASSUME NEW K \in Nat, K =< ColumnPeriod \div 2,
         NEW m, GoodNode(m, K), NEW symbol, GoodSymbol(symbol, K),
         Prompt(m.decoder.fec),
         symbol.fec => symbol.packet.columnStart =< Place(m.decoder.fec),
         NEW lucky \in BOOLEAN
  PROVE  LET h == HandleStream(m, symbol, lucky)
             e == h.node.decoder.fec
         IN  /\ Prompt(e)
             /\ Place(m.decoder.fec) =< Place(e)
             /\ h.acks \subseteq {Place(e)}
<1> DEFINE p == ProcessSymbol(m.decoder, symbol, lucky)
           h == HandleStream(m, symbol, lucky)
           d == m.decoder.fec
           f == p.stream.fec
<1>1. /\ GoodStream(m.decoder, K) /\ GoodDecoder(d, K)
  BY DEF GoodNode, GoodStream
<1>2. ~p.threw => Prompt(f) /\ Place(d) =< Place(f)
  <2>1. ~p.threw => ProcessedInOrder(m.decoder, symbol, p.stream, K)
    BY <1>1, ProcessIsPrompt
  <2> HIDE DEF p
  <2> QED  BY <2>1 DEF ProcessedInOrder, Brings
<1>3. ~p.threw => GoodStream(p.stream, K)
  BY <1>1, ProcessSymbolResult
<1>4. \/ p.threw /\ h.acks = {} /\ h.node = m
      \/ /\ ~p.threw /\ h.acks = {AckColumn(f)}
         /\ \E b, x : h.node = [decoder |-> [p.stream EXCEPT !.buffer = b],
                                encoder |-> x]
  <2> DEFINE n == CHOOSE n \in RunLengths : IsWholeRun(p.stream.buffer, n)
             encoded == EncodeChunks(m.encoder,
                                     TakenChunks(p.stream.buffer, n))
             after == AfterRun(p.stream.buffer, n)
             x == encoded.stream
  <2>1. \/ p.threw /\ h.threw /\ h.acks = {} /\ h.node = m
        \/ /\ ~p.threw /\ h.threw = encoded.threw
           /\ h.acks = {AckColumn(f)}
           /\ h.chunks = TakenChunks(p.stream.buffer, n)
           /\ h.node = [decoder |-> [p.stream EXCEPT !.buffer = after],
                        encoder |-> encoded.stream]
    <3>1. HandleSplit(m, p, h)
      BY HandleIsSplit
    <3> HIDE DEF p, h
    <3> QED  BY <3>1 DEF HandleSplit
  <2> HIDE DEF p, h, encoded, after
  <2> QED  BY <2>1
<1> HIDE DEF p, h
<1>5. CASE p.threw /\ h.acks = {} /\ h.node = m
  <2>1. Place(d) =< Place(d)
    BY <1>1, PlaceIsSent
  <2> QED  BY <1>5, <2>1 DEF h
<1>6. CASE /\ ~p.threw /\ h.acks = {AckColumn(f)}
           /\ \E b, x : h.node = [decoder |-> [p.stream EXCEPT !.buffer = b],
                                  encoder |-> x]
  <2>1. GoodStream(p.stream, K) /\ GoodDecoder(f, K)
    BY <1>3, <1>6 DEF GoodStream
  <2>2. h.node.decoder.fec = f
    BY <1>6, <2>1 DEF GoodStream
  <2>3. AckColumn(f) = Place(f)
    <3>1. 0 =< f.next
      BY <1>2, <1>6 DEF Prompt, Timely
    <3> QED  BY <2>1, <3>1, PlaceIsSent
  <2> QED  BY <1>2, <1>6, <2>2, <2>3 DEF h
<1> QED  BY <1>4, <1>5, <1>6

-----------------------------------------------------------------------------
(* The nodes, with one subscriber                                          *)

(***************************************************************************)
(* One node listens to the source, as in the chains of nodes the           *)
(* experiments run. With two the faster one's acknowledgements let the     *)
(* source protect no longer what the slower one lacks: the run             *)
(* two_subscribers shows it.                                               *)
(***************************************************************************)
OneSubscriber == \A s, t \in Subscriber : s = t

(***************************************************************************)
(* The window of the FEC encoder is shorter than half the period: in the   *)
(* code 16000 packets of a period of 2^22.                                 *)
(***************************************************************************)
WindowSuffices == MaxPackets < ColumnPeriod \div 2

(***************************************************************************)
(* Symbols whose recovery packets start no later than c.                   *)
(***************************************************************************)
StartedBy(c) == {y \in AllSymbols : y.fec => y.packet.columnStart =< c}

(***************************************************************************)
(* No acknowledgement, in flight or handled, is ahead of its sender.       *)
(***************************************************************************)
AckedIsReached(s) ==
  /\ \A a \in acks : a =< Place(Fec(s))
  /\ encoder.encoder.nextColumnExpected =< Place(Fec(s))

(***************************************************************************)
(* The part of the invariant about one subscriber.                         *)
(***************************************************************************)
PromptInv(s) ==
  /\ Prompt(Fec(s))
  /\ net[s] \in Seq(StartedBy(Place(Fec(s))))
  /\ AckedIsReached(s)

(***************************************************************************)
(* The invariant: the encoder protects exactly what is not acknowledged;   *)
(* what is acknowledged the subscriber has; the recovery packets in flight *)
(* start no later than the column it waits for; and it is prompt.          *)
(***************************************************************************)
PInv ==
  /\ AckIsExact(encoder.encoder)
  /\ \A a \in acks : a =< Sent
  /\ \A s \in Subscriber : PromptInv(s)

(***************************************************************************)
(* What starts by column c starts by a later one.                          *)
(***************************************************************************)
LEMMA StartedLater ==
  ASSUME NEW c \in Int, NEW e \in Int, c =< e
  PROVE  StartedBy(c) \subseteq StartedBy(e)
<1> SUFFICES ASSUME NEW y \in StartedBy(c) PROVE y \in StartedBy(e)
  OBVIOUS
<1>1. y \in AllSymbols /\ (y.fec => y.packet.columnStart =< c)
  BY DEF StartedBy
<1>2. y.fec => y.packet.columnStart \in Int
  <2>1. y.fec => y.packet.columnStart \in Column
    BY <1>1, Zenon DEF AllSymbols
  <2> QED  BY <2>1 DEF Column
<1> QED  BY <1>1, <1>2 DEF StartedBy

(***************************************************************************)
(* A decoder just made is prompt and waits for column 0.                   *)
(***************************************************************************)
LEMMA InitialIsPrompt ==
  Prompt(DecoderInit) /\ Place(DecoderInit) = 0
<1> DEFINE d == DecoderInit
<1>1. /\ d.next = 0 /\ d.got = {} /\ d.recs = <<>> /\ d.checked.count = 0
      /\ d.recovered = {} /\ d.columnStart = 0
  BY DEF DecoderInit, NothingChecked
<1> HIDE DEF d
<1>2. Len(d.recs) = 0
  BY <1>1
<1>3. Timely(d) /\ CheckedIsMinimal(d) /\ Settled(d)
  BY <1>1, <1>2 DEF Timely, Sorted, CheckedIsMinimal, Settled
<1> QED  BY <1>1, <1>3 DEF Prompt, Place, Started, d

(***************************************************************************)
(* The invariant holds at the start.                                       *)
(***************************************************************************)
LEMMA InitEstablishesPInv ==
  Init => PInv
<1> SUFFICES ASSUME Init PROVE PInv
  OBVIOUS
<1>1. /\ encoder = StreamEncoderInit
      /\ net = [s \in Subscriber |-> <<>>] /\ acks = {}
      /\ node = [s \in Subscriber |-> ContinuousStreamInit]
  BY DEF Init
<1>2. encoder.encoder = EncoderInit
  BY <1>1 DEF StreamEncoderInit
<1>3. /\ EncoderInit.nextColumnExpected = 0 /\ EncoderInit.added = 0
      /\ EncoderInit.count = 0
  BY DEF EncoderInit
<1>4. AckIsExact(encoder.encoder)
  <2>1. 0 % ColumnPeriod = 0
    BY ColumnPeriodAssumption
  <2> QED  BY <1>2, <1>3, <2>1 DEF AckIsExact, Unacked
<1>5. ASSUME NEW s \in Subscriber PROVE PromptInv(s)
  <2>1. net[s] = <<>> /\ Fec(s) = DecoderInit
    BY <1>1 DEF ContinuousStreamInit, StreamDecoderInit, Fec
  <2>2. net[s] \in Seq(StartedBy(Place(Fec(s))))
    BY <2>1, EmptySeq
  <2>3. AckedIsReached(s)
    BY <1>1, <1>2, <1>3, <2>1, InitialIsPrompt DEF AckedIsReached
  <2> QED  BY <2>1, <2>2, <2>3, InitialIsPrompt DEF PromptInv
<1> QED  BY <1>1, <1>4, <1>5 DEF PInv

(***************************************************************************)
(* What the invariant of StreamFanOut_proofs says of one decoder.          *)
(***************************************************************************)
LEMMA DecoderOfSubscriber ==
  ASSUME ColumnsSuffice, IInv, NEW s \in Subscriber
  PROVE  /\ Sent \in Nat /\ Sent =< ColumnPeriod \div 2
         /\ GoodNode(node[s], Sent) /\ GoodDecoder(Fec(s), Sent)
         /\ Place(Fec(s)) \in Int /\ Place(Fec(s)) =< Sent
<1>1. ForwarderInv /\ SubscriberInv(s)
  BY DEF IInv
<1>2. Sent \in Nat /\ Sent =< ColumnPeriod \div 2
  BY <1>1, SentType, ColumnPeriodAssumption DEF ColumnsSuffice
<1>3. GoodNode(node[s], Sent) /\ GoodDecoder(Fec(s), Sent)
  BY <1>1 DEF SubscriberInv, GoodNode, GoodStream, Fec
<1> QED  BY <1>2, <1>3, PlaceIsSent

(***************************************************************************)
(* A loss or a repetition brings no new packet.                            *)
(***************************************************************************)
LEMMA NetworkKeepsPInv ==
  ASSUME IInv, PInv, NEW s \in Subscriber, Lose(s) \/ Duplicate(s)
  PROVE  PInv'
<1>1. /\ UNCHANGED <<encoder, acks, node>>
      /\ net[s] # <<>>
      /\ \/ net' = [net EXCEPT ![s] = Tail(@)]
         \/ net' = [net EXCEPT ![s] = <<Head(@)>> \o @]
  BY DEF Lose, Duplicate, forwarder, subscriber
<1>2. Sent' = Sent /\ \A t \in Subscriber : Fec(t)' = Fec(t)
  BY <1>1 DEF Sent, Fec
<1>3. ASSUME NEW t \in Subscriber PROVE PromptInv(t)'
  <2>1. PromptInv(t)
    BY DEF PInv
  <2> DEFINE S == StartedBy(Place(Fec(t)))
  <2>2. net[t] \in Seq(S)
    BY <2>1 DEF PromptInv
  <2>3. net' = [r \in Subscriber |-> net'[r]]
        /\ net = [r \in Subscriber |-> net[r]]
    BY <1>1 DEF IInv, PerSubscriber
  <2> HIDE DEF S
  <2>4. net'[t] \in Seq(S)
    <3>1. CASE t # s
      BY <1>1, <2>2, <2>3, <3>1
    <3>2. CASE t = s
      <4>1. net'[t] = Tail(net[t]) \/ net'[t] = <<Head(net[t])>> \o net[t]
        BY <1>1, <2>3, <3>2
      <4>2. Tail(net[t]) \in Seq(S) /\ <<Head(net[t])>> \o net[t] \in Seq(S)
        BY <1>1, <2>2, <3>2, InFlightResult
      <4> QED  BY <4>1, <4>2
    <3> QED  BY <3>1, <3>2
  <2> QED  BY <1>1, <1>2, <2>1, <2>4 DEF PromptInv, AckedIsReached, S
<1>4. AckIsExact(encoder.encoder)'
  BY <1>1 DEF PInv
<1> QED  BY <1>1, <1>2, <1>3, <1>4 DEF PInv

(***************************************************************************)
(* An acknowledgement moves the encoder's window no further than the       *)
(* column acknowledged, which the subscriber has reached.                  *)
(***************************************************************************)
LEMMA AckKeepsPInv ==
  ASSUME ColumnsSuffice, WindowSuffices, IInv, PInv, HandleStreamAck
  PROVE  PInv'
<1>1. UNCHANGED <<net, acks, node>>
  BY DEF HandleStreamAck, subscriber
<1>2. PICK expected \in acks : encoder' = ProcessAck(encoder, expected)
  BY DEF HandleStreamAck
<1> DEFINE e == encoder.encoder
           f == Acknowledge(e, expected)
<1>3. /\ ForwarderInv /\ AckIsExact(e) /\ \A s \in Subscriber : PromptInv(s)
  BY DEF IInv, PInv
<1>4. /\ encoder \in Segments /\ GoodEncoder(e) /\ expected \in Column
      /\ Sent \in Nat /\ Sent =< ColumnPeriod \div 2 /\ e.added = Sent
  BY <1>2, <1>3, SentType, SegmentType, ColumnPeriodAssumption
     DEF ForwarderInv, ColumnsSuffice, Sent
<1>5. GoodEncoder(f) /\ f.added = e.added
  BY <1>4, AcknowledgeResult
<1>6. encoder'.encoder = f
  BY <1>2, <1>4 DEF ProcessAck, Segments
<1>7. f.nextColumnExpected \in {e.nextColumnExpected, expected}
  <2>1. e \in SiameseEncoders
    BY <1>4 DEF GoodEncoder
  <2>2. \A g : /\ RemoveBefore(g, expected) \in
                    {g, [g EXCEPT !.count = 0],
                     [g EXCEPT !.firstUnremoved = EncoderElement(g, expected)]}
    BY DEF RemoveBefore
  <2> DEFINE g == [e EXCEPT !.nextColumnExpected = expected]
  <2>3. g \in SiameseEncoders /\ g.nextColumnExpected = expected
    BY <1>4, <2>1 DEF SiameseEncoders
  <2>4. f \in {e, RemoveBefore(g, expected)}
    BY DEF Acknowledge
  <2> HIDE DEF g, f
  <2>5. RemoveBefore(g, expected).nextColumnExpected = expected
    BY <2>2, <2>3 DEF SiameseEncoders
  <2> QED  BY <2>4, <2>5
<1> HIDE DEF f
<1>8. Sent' = Sent
  BY <1>4, <1>5, <1>6 DEF Sent
<1>9. AckIsExact(f)
  <2>1. /\ expected \in Nat /\ expected =< e.added /\ expected < ColumnPeriod
        /\ e.added - expected =< ColumnPeriod \div 2
    BY <1>2, <1>4, ColumnPeriodAssumption DEF PInv, Column
  <2>2. expected \in 0 .. e.added /\ expected % ColumnPeriod = expected
    BY <1>4, <2>1, SmallResidue
  <2> HIDE DEF e
  <2>3. AckIsExact(Acknowledge(e, expected % ColumnPeriod))
    BY <1>3, <1>4, <2>1, <2>2, AckStaysExact DEF WindowSuffices
  <2> QED  BY <2>2, <2>3 DEF f
<1>10. ASSUME NEW s \in Subscriber PROVE PromptInv(s)'
  <2>1. PromptInv(s) /\ Fec(s)' = Fec(s)
    BY <1>1, <1>3 DEF Fec
  <2>2. f.nextColumnExpected =< Place(Fec(s))
    BY <1>2, <1>7, <2>1 DEF PromptInv, AckedIsReached
  <2> QED  BY <1>1, <1>6, <2>1, <2>2 DEF PromptInv, AckedIsReached
<1> QED  BY <1>1, <1>6, <1>8, <1>9, <1>10 DEF PInv

(***************************************************************************)
(* What the source sends starts at the column it expects, which the        *)
(* subscriber has reached.                                                 *)
(***************************************************************************)
LEMMA ForwardKeepsPInv ==
  ASSUME ColumnsSuffice, WindowSuffices, IInv, PInv, Forward
  PROVE  PInv'
<1>1. UNCHANGED <<acks, node>>
  BY DEF Forward, subscriber
<1> DEFINE encoded == EncodeChunks(encoder, <<Sent + 1>>)
           e == encoder.encoder
           c == e.nextColumnExpected
<1>2. \/ UNCHANGED <<encoder, net>>
      \/ /\ encoder' = encoded.stream
         /\ net' = [s \in Subscriber |->
                      IF s \in subscribed THEN net[s] \o encoded.symbols
                                          ELSE net[s]]
  BY DEF Forward
<1>3. /\ encoder \in GoodSegments /\ Sent \in Nat
      /\ \A s \in Subscriber : PromptInv(s)
      /\ AckIsExact(e) /\ \A a \in acks : a =< Sent
  BY SentType DEF IInv, PInv
<1>4. encoded \in Kept(c)
  <2>1. <<Sent + 1>> \in Seq(Nat)
    BY <1>3
  <2> QED  BY <1>3, <2>1, EncodeKeepsExact
<1>5. Sent =< Sent'
  <2>1. IInv' /\ FifoStep
    BY ForwardKeepsIInv
  <2>2. CASE UNCHANGED encoder
    BY <1>3, <2>2 DEF Sent
  <2>3. CASE ~encoded.threw /\ encoder' = encoded.stream
    <3>1. GoodForwarder(encoder, Sent) /\ Sent + 1 < ColumnPeriod
      <4>1. Sent < MaxChunks /\ MaxChunks \in Nat
            /\ GoodForwarder(encoder, Sent)
        BY SentType DEF IInv, Forward, ForwarderInv
      <4> QED  BY <1>3, <4>1, ColumnPeriodAssumption DEF ColumnsSuffice
    <3>2. GoodForwarder(encoded.stream, Sent + 1)
      BY <1>3, <2>3, <3>1, EncodeChunkResult
    <3>3. Sent' = Sent + 1
      BY <2>3, <3>2 DEF GoodForwarder, Sent
    <3> QED  BY <1>3, <3>3
  <2> QED  BY <2>2, <2>3 DEF Forward
<1> HIDE DEF encoded
<1>6. /\ AckIsExact(encoder.encoder)'
      /\ encoder'.encoder.nextColumnExpected = c
  BY <1>2, <1>3, <1>4 DEF Kept
<1>7. ASSUME NEW s \in Subscriber PROVE PromptInv(s)'
  <2>1. PromptInv(s) /\ Fec(s)' = Fec(s)
    BY <1>1, <1>3 DEF Fec
  <2> DEFINE S == StartedBy(Place(Fec(s)))
  <2>2. net[s] \in Seq(S) /\ c =< Place(Fec(s))
    BY <2>1 DEF PromptInv, AckedIsReached
  <2>3. SymbolsFrom(c) \subseteq S
    BY <2>2 DEF SymbolsFrom, StartedBy
  <2>4. encoded.symbols \in Seq(S)
    <3>1. encoded.symbols \in Seq(SymbolsFrom(c))
      BY <1>4 DEF Kept
    <3> HIDE DEF S
    <3> QED  BY <2>3, <3>1, SeqMonotonic
  <2> HIDE DEF S
  <2>5. net'[s] \in Seq(S)
    <3>1. net[s] \o encoded.symbols \in Seq(S)
      BY <2>2, <2>4, ConcatProperties
    <3> QED  BY <1>2, <2>2, <3>1
  <2> QED  BY <1>1, <1>6, <2>1, <2>2, <2>5 DEF PromptInv, AckedIsReached, S
<1>8. \A a \in acks' : a =< Sent'
  <2>1. acks \subseteq Int /\ Sent' \in Int
    <3>1. IInv'
      BY ForwardKeepsIInv
    <3>2. acks \subseteq Int
      BY DEF IInv, ForwarderInv, Column
    <3>3. encoder' \in GoodSegments
      BY <3>1 DEF IInv, ForwarderInv, GoodForwarder
    <3>4. encoder'.encoder.added \in Nat
      BY <3>3, SegmentType
    <3> QED  BY <3>2, <3>4 DEF Sent
  <2> QED  BY <1>1, <1>3, <1>5, <2>1
<1> QED  BY <1>6, <1>7, <1>8 DEF PInv

(***************************************************************************)
(* What the subscriber receives starts no later than the column it waits   *)
(* for: it stays prompt, and acknowledges where it is.                     *)
(***************************************************************************)
LEMMA ReceiveKeepsPInv ==
  ASSUME OneSubscriber, ColumnsSuffice, IInv, PInv, NEW s \in Subscriber,
         NEW i \in 1 .. Len(net[s]), NEW lucky \in BOOLEAN,
         Receive(s, i, lucky)
  PROVE  PInv'
<1> DEFINE m == node[s]
           y == net[s][i]
           q == RemoveAt(net[s], i)
           h == HandleStream(m, y, lucky)
           e == h.node.decoder.fec
<1>1. /\ encoder' = encoder
      /\ net' = [net EXCEPT ![s] = q]
      /\ node' = [node EXCEPT ![s] = h.node]
      /\ acks' = acks \cup h.acks
  BY DEF Receive, forwarder
<1>2. /\ Sent \in Nat /\ Sent =< ColumnPeriod \div 2
      /\ GoodNode(m, Sent) /\ GoodDecoder(Fec(s), Sent)
      /\ Place(Fec(s)) \in Int /\ Place(Fec(s)) =< Sent
      /\ Fec(s) = m.decoder.fec
  BY DecoderOfSubscriber DEF Fec
<1>3. /\ Prompt(Fec(s)) /\ net[s] \in Seq(StartedBy(Place(Fec(s))))
      /\ AckedIsReached(s) /\ net[s] \in Seq(SentSymbols(Sent))
      /\ \A a \in acks : a =< Sent
  BY DEF PInv, PromptInv, IInv, SubscriberInv
<1>4. /\ y \in StartedBy(Place(Fec(s))) /\ y \in SentSymbols(Sent)
      /\ q \in Seq(StartedBy(Place(Fec(s))))
  BY <1>3, InFlightResult
<1>5. GoodSymbol(y, Sent) /\ (y.fec => y.packet.columnStart =< Place(Fec(s)))
  BY <1>4 DEF SentSymbols, StartedBy
<1>6. /\ Prompt(e) /\ Place(Fec(s)) =< Place(e)
      /\ h.acks \subseteq {Place(e)}
  <2> HIDE DEF m, y
  <2> QED  BY <1>2, <1>3, <1>5, HandleIsPrompt
<1>7. GoodNode(h.node, Sent) /\ GoodDecoder(e, Sent)
  <2> HIDE DEF m, y
  <2>1. GoodNode(h.node, Sent)
    BY <1>2, <1>5, HandleStreamResult
  <2> QED  BY <2>1 DEF GoodNode, GoodStream
<1> HIDE DEF h, y, q, m
<1>8. Place(e) \in Int /\ Place(e) =< Sent
  BY <1>2, <1>7, PlaceIsSent
<1>9. net'[s] = q /\ Fec(s)' = e /\ Sent' = Sent
  BY <1>1 DEF IInv, PerSubscriber, Fec, Sent
<1>10. PromptInv(s)'
  <2>1. q \in Seq(StartedBy(Place(e)))
    BY <1>2, <1>4, <1>6, <1>8, StartedLater, SeqMonotonic
  <2>2. AckedIsReached(s)'
    <3>1. /\ acks \subseteq Int
          /\ encoder.encoder.nextColumnExpected \in Int
      BY SentType, UnackedType DEF IInv, ForwarderInv, Column
    <3>2. /\ \A a \in acks : a =< Place(Fec(s))
          /\ encoder.encoder.nextColumnExpected =< Place(Fec(s))
      BY <1>3 DEF AckedIsReached
    <3>3. \A a \in acks' : a =< Place(e)
      BY <1>1, <1>2, <1>6, <1>8, <3>1, <3>2
    <3> QED  BY <1>1, <1>2, <1>6, <1>8, <1>9, <3>1, <3>2, <3>3
             DEF AckedIsReached
  <2> QED  BY <1>6, <1>9, <2>1, <2>2 DEF PromptInv
<1>11. \A t \in Subscriber : PromptInv(t)'
  BY <1>10 DEF OneSubscriber
<1>12. \A a \in acks' : a =< Sent'
  BY <1>1, <1>3, <1>6, <1>8, <1>9
<1> QED  BY <1>1, <1>11, <1>12 DEF PInv

(***************************************************************************)
(* Every step keeps the invariant.                                         *)
(***************************************************************************)
LEMMA NextKeepsPInv ==
  ASSUME OneSubscriber, ColumnsSuffice, WindowSuffices, IInv, PInv, [Next]_vars
  PROVE  PInv'
<1>1. CASE Forward
  BY <1>1, ForwardKeepsPInv
<1>2. CASE HandleStreamAck
  BY <1>2, AckKeepsPInv
<1>3. ASSUME NEW s \in Subscriber, Lose(s) \/ Duplicate(s)
      PROVE  PInv'
  BY <1>3, NetworkKeepsPInv
<1>4. ASSUME NEW s \in Subscriber, ReceiveOne(s) \/ ReceiveUnlucky(s)
      PROVE  PInv'
  <2>1. PICK i \in 1 .. Len(net[s]), lucky \in BOOLEAN : Receive(s, i, lucky)
    BY <1>4 DEF ReceiveOne, ReceiveUnlucky
  <2> QED  BY <2>1, ReceiveKeepsPInv
<1>5. ASSUME UNCHANGED <<encoder, net, acks, node>>
      PROVE  PInv'
  BY <1>5 DEF PInv, PromptInv, AckedIsReached, Fec, Sent
<1>6. ASSUME NEW s \in Subscriber, Subscribe(s)
      PROVE  PInv'
  BY <1>5, <1>6 DEF Subscribe, subscriber
<1>7. CASE UNCHANGED vars
  BY <1>5, <1>7 DEF vars
<1> QED  BY <1>1, <1>2, <1>3, <1>4, <1>6, <1>7 DEF Next

(***************************************************************************)
(* The invariant holds of every behaviour.                                 *)
(***************************************************************************)
LEMMA PInvIsInvariant ==
  ASSUME OneSubscriber, ColumnsSuffice, WindowSuffices
  PROVE  Spec => [](IInv /\ PInv)
<1>1. Init => IInv /\ PInv
  BY InitEstablishesIInv, InitEstablishesPInv
<1>2. (IInv /\ PInv) /\ [Next]_vars => (IInv /\ PInv)'
  BY NextKeepsIInv, NextKeepsPInv
<1> QED  BY <1>1, <1>2, PTL DEF Spec

(***************************************************************************)
(* The source protects every chunk a subscriber lacks: a recovery packet   *)
(* made from now on covers the first column the subscriber waits for. It   *)
(* is about Acknowledge in the FEC encoder, which drops the front of the   *)
(* window, and holds for every loss, repetition and overtaking, as long as *)
(* one node listens.                                                       *)
(***************************************************************************)
THEOREM ProtectsUntilReached ==
  ASSUME OneSubscriber, ColumnsSuffice, WindowSuffices
  PROVE  Spec => []ProtectsWhatIsLacking
<1>1. Spec => [](IInv /\ PInv)
  BY PInvIsInvariant
<1>2. IInv /\ PInv => ProtectsWhatIsLacking
  <2> SUFFICES ASSUME IInv, PInv, NEW s \in Subscriber
               PROVE  Sent - Protected =< Place(Fec(s))
    BY DEF ProtectsWhatIsLacking, Place, IInv, ForwarderInv
  <2> DEFINE e == encoder.encoder
  <2>1. /\ GoodEncoder(e) /\ e.added = Sent /\ Unacked(e) =< Sent
        /\ Sent \in Nat /\ Sent =< ColumnPeriod \div 2
    BY SentType, ColumnPeriodAssumption
       DEF IInv, ForwarderInv, GoodForwarder, ColumnsSuffice
  <2>2. Unacked(e) \in Nat /\ e.count \in Nat /\ e.firstUnremoved \in Nat
    BY <2>1, UnackedType
  <2>3. e.nextColumnExpected = Sent - Unacked(e)
    <3>1. e.nextColumnExpected = (Sent - Unacked(e)) % ColumnPeriod
      BY <2>1 DEF PInv, AckIsExact
    <3> DEFINE n == Sent - Unacked(e)
    <3>2. n \in Column
      BY <2>1, <2>2, ColumnPeriodAssumption DEF Column
    <3> HIDE DEF n
    <3>3. n % ColumnPeriod = n
      BY <3>2, SmallResidue
    <3> QED  BY <3>1, <3>3 DEF n
  <2>4. Protected = Unacked(e)
    BY <2>2 DEF Protected, EncodeNeedsMoreData, UnacknowledgedCount, Unacked
  <2>5. e.nextColumnExpected =< Place(Fec(s))
    BY DEF PInv, PromptInv, AckedIsReached
  <2> QED  BY <2>3, <2>4, <2>5
<1> QED  BY <1>1, <1>2, PTL

(***************************************************************************)
(* The losses of the first packets lie between the column waited for and   *)
(* the end of the last of them.                                            *)
(***************************************************************************)
LEMMA LossesOfPrefix ==
  ASSUME NEW K \in Nat, NEW d, GoodWindow(d, K), Timely(d),
         NEW k \in 1 .. Len(d.recs)
  PROVE  UNION {RangeLost(d, d.recs[i].start, d.recs[i].end) : i \in 1 .. k}
           = RangeLost(d, d.next, d.recs[k].end)
<1>1. /\ d \in Decoders /\ 0 .. d.next - 1 \subseteq d.got
      /\ d.next \in Int /\ k \in Nat /\ Len(d.recs) \in Nat
      /\ \A i \in 1 .. Len(d.recs) :
           d.recs[i].start \in Int /\ d.recs[i].end \in Int
  BY DecoderType DEF GoodWindow, WindowFits
<1>2. ASSUME NEW i \in 1 .. k
      PROVE  /\ d.recs[i].start \in Int /\ d.recs[i].end \in Int
             /\ 0 =< d.recs[i].start /\ d.recs[i].start =< d.next
             /\ d.recs[i].end =< d.recs[k].end
  <2>1. i \in 1 .. Len(d.recs)
    BY <1>1
  <2>2. EntryFits(d, d.recs[i])
    BY <2>1 DEF GoodWindow, EntriesFit
  <2>3. d.recs[i].end =< d.recs[k].end
    BY <1>1, <2>1 DEF Timely, Sorted
  <2> QED  BY <1>1, <2>1, <2>2, <2>3 DEF EntryFits, Timely
<1> DEFINE lost(i) == RangeLost(d, d.recs[i].start, d.recs[i].end)
           all == RangeLost(d, d.next, d.recs[k].end)
<1>3. ASSUME NEW i \in 1 .. k, NEW x \in lost(i) PROVE x \in all
  <2> DEFINE a == d.recs[i].start
             b == d.recs[i].end
             n == d.next
             h == d.recs[k].end
  <2>2. x \in a .. b - 1 /\ x \notin d.got
    BY DEF RangeLost
  <2>3. x \in Int /\ 0 =< x /\ x =< h - 1
    <3>1. a \in Int /\ b \in Int /\ h \in Int /\ b =< h /\ 0 =< a
      BY <1>1, <1>2
    <3> HIDE DEF a, b, h
    <3> QED  BY <2>2, <3>1
  <2>4. x >= n
    <3>1. n \in Int /\ ~(x \in 0 .. n - 1)
      BY <1>1, <2>2
    <3> HIDE DEF n
    <3> QED  BY <2>3, <3>1
  <2>5. x \in n .. h - 1
    <3>1. n \in Int /\ h \in Int
      BY <1>1, <1>2
    <3> HIDE DEF n, h
    <3> QED  BY <2>3, <2>4, <3>1
  <2> QED  BY <2>2, <2>5 DEF RangeLost
<1>4. all \subseteq lost(k)
  BY <1>1, <1>2 DEF RangeLost
<1>5. k \in 1 .. k
  BY <1>1
<1> QED  BY <1>3, <1>4, <1>5

(***************************************************************************)
(* Between two messages a subscriber never holds a prefix of recovery      *)
(* packets with as many packets as losses: get_new_chunks has recovered    *)
(* whatever could be, and the region CheckRecoveryPossible caches between  *)
(* calls does not make it miss any.                                        *)
(***************************************************************************)
THEOREM RecoversAtOnce ==
  ASSUME OneSubscriber, ColumnsSuffice, WindowSuffices
  PROVE  Spec => []RecoversAsSoonAsPossible
<1>1. Spec => [](IInv /\ PInv)
  BY PInvIsInvariant
<1>2. IInv /\ PInv => RecoversAsSoonAsPossible
  <2> SUFFICES ASSUME IInv, PInv, NEW s \in Subscriber,
                      NEW k \in 1 .. Len(Fec(s).recs)
               PROVE  LET d == Fec(s)
                          lost == Cardinality(
                            UNION {RangeLost(d, d.recs[i].start, d.recs[i].end)
                                     : i \in 1 .. k})
                      IN  lost =< MaxLossRecovery => k < lost
    BY DEF RecoversAsSoonAsPossible
  <2> DEFINE d == Fec(s)
  <2>1. GoodDecoder(d, Sent) /\ GoodWindow(d, Sent) /\ Sent \in Nat
    BY SentType DEF IInv, SubscriberInv, GoodNode, GoodStream, GoodDecoder, Fec
  <2>2. Timely(d) /\ Settled(d)
    BY DEF PInv, PromptInv, Prompt
  <2> HIDE DEF d
  <2>3. UNION {RangeLost(d, d.recs[i].start, d.recs[i].end) : i \in 1 .. k}
          = RangeLost(d, d.next, d.recs[k].end)
    BY <2>1, <2>2, LossesOfPrefix DEF d
  <2>4. k < LossesTo(d, k) \/ LossesTo(d, k) > MaxLossRecovery
    BY <2>2 DEF Settled, d
  <2>5. LossesTo(d, k) \in Nat
    BY <2>1, <2>2, LossesGrow DEF d
  <2> DEFINE lost == Cardinality(
                       UNION {RangeLost(d, d.recs[i].start, d.recs[i].end)
                                : i \in 1 .. k})
  <2>6. lost = LossesTo(d, k)
    BY <2>3 DEF LossesTo
  <2> HIDE DEF lost
  <2>7. lost =< MaxLossRecovery => k < lost
    BY <2>4, <2>5, <2>6, SiameseDecoderAssumption
  <2> QED  BY <2>7 DEF lost, d
<1> QED  BY <1>1, <1>2, PTL

-----------------------------------------------------------------------------
(* The buffer and the FEC decoder                                          *)

(***************************************************************************)
(* The buffer of a decoder expects the column its FEC decoder waits for,   *)
(* and what waits in it are the later columns the FEC decoder has, each    *)
(* once.                                                                   *)
(***************************************************************************)
Linked(s) ==
  /\ s.buffer.next = Place(s.fec)
  /\ \A c \in Column :
       /\ Len(s.buffer.ahead[c]) =< 1
       /\ c < s.buffer.next => s.buffer.ahead[c] = <<>>
       /\ c >= s.buffer.next =>
            (s.buffer.ahead[c] # <<>> <=> HasColumn(s.fec, c))

(***************************************************************************)
(* The column waited for is the first that a decoder lacks.                *)
(***************************************************************************)
LEMMA BelowPlaceIsHad ==
  ASSUME NEW K \in Nat, NEW d, GoodWindow(d, K), Timely(d), NEW c \in Nat
  PROVE  /\ c < Place(d) => HasColumn(d, c)
         /\ c = Place(d) => ~HasColumn(d, c)
<1>1. /\ d \in Decoders /\ 0 .. d.next - 1 \subseteq d.got
      /\ 0 =< d.next /\ d.next \notin d.got
  BY DEF GoodWindow, WindowFits, Timely
<1> DEFINE a == d.columnStart
           n == d.next
<1>2. a \in Nat /\ n \in Int /\ Place(d) = a + n
  BY <1>1 DEF Decoders, Place
<1>3. HasColumn(d, c) <=> c < a \/ c - a \in d.got
  BY DEF HasColumn
<1>4. 0 .. n - 1 \subseteq d.got /\ 0 =< n /\ n \notin d.got
  BY <1>1
<1> HIDE DEF a, n
<1>5. ASSUME c < Place(d), ~(c < a) PROVE c - a \in d.got
  <2>1. c - a \in 0 .. n - 1
    BY <1>2, <1>5
  <2> QED  BY <1>4, <2>1
<1>6. ASSUME c = Place(d) PROVE ~(c < a) /\ c - a = n
  BY <1>2, <1>4, <1>6
<1> QED  BY <1>3, <1>4, <1>5, <1>6

(***************************************************************************)
(* What a handler leaves waiting: nothing new but the chunk it was given.  *)
(***************************************************************************)
WaitsNoMore(s, symbol, t) ==
  \A c \in Column :
    t.buffer.ahead[c] # <<>> =>
      s.buffer.ahead[c] # <<>> \/ (~symbol.fec /\ c = symbol.index)

(***************************************************************************)
(* What holds of the buffer q between queueing and draining, for the FEC   *)
(* decoder f.                                                              *)
(***************************************************************************)
QueuedOnce(s, symbol, f, q) ==
  /\ q.next = s.buffer.next
  /\ \A c \in Column :
       /\ Len(q.ahead[c]) =< 1
       /\ c < q.next => q.ahead[c] = <<>>
       /\ c >= q.next => (q.ahead[c] # <<>> <=> HasColumn(f, c))
       /\ q.ahead[c] # <<>> => \/ s.buffer.ahead[c] # <<>> \/ c < Place(f)
                               \/ ~symbol.fec /\ c = symbol.index

(***************************************************************************)
(* What process_symbol queues are chunks that did not wait: an original    *)
(* that comes for the first time, and recovered ones that were lacking.    *)
(***************************************************************************)
LEMMA QueueingIsOnce ==
  ASSUME NEW K \in Nat, K =< ColumnPeriod \div 2,
         NEW s, GoodStream(s, K), Timely(s.fec), Linked(s),
         NEW symbol, GoodSymbol(symbol, K),
         symbol.fec = FALSE => s.buffer.ahead[symbol.index] = <<>>,
         NEW f, NEW chunks \in SUBSET (Nat \X Nat), AreOwnSymbols(chunks, K),
         Brings(s.fec, symbol, f, chunks)
  PROVE  LET q == ProcessOriginalChunks(s.buffer, chunks \cup OwnChunk(symbol))
         IN  GoodBuffer(q, K) /\ QueuedOnce(s, symbol, f, q)
<1> DEFINE b == s.buffer
           d == s.fec
           own == OwnChunk(symbol)
           all == chunks \cup own
           q == ProcessOriginalChunks(b, all)
<1>1. GoodBuffer(b, K) /\ GoodWindow(d, K)
  BY DEF GoodStream, GoodDecoder
<1>2. symbol.fec \in BOOLEAN
  BY DEF GoodSymbol
<1>3. /\ symbol.fec = TRUE => own = {}
      /\ symbol.fec = FALSE =>
           /\ own = {<<symbol.index, symbol.chunk>>}
           /\ symbol.index \in Nat
           /\ symbol.chunk \in 1 .. K /\ symbol.chunk = symbol.index + 1
  <2>1. symbol.fec = FALSE =>
          symbol.index \in 0 .. K - 1 /\ symbol.chunk = symbol.index + 1
    BY DEF GoodSymbol
  <2>2. symbol.fec = FALSE => symbol.index \in Nat /\ symbol.chunk \in 1 .. K
    BY <2>1
  <2> QED  BY <2>1, <2>2 DEF OwnChunk
<1>4. AreOwnSymbols(all, K)
  <2>1. AreOwnSymbols(own, K)
    BY <1>2, <1>3 DEF AreOwnSymbols
  <2> QED  BY <2>1 DEF AreOwnSymbols
<1>5. GoodBuffer(q, K) /\ q.next = b.next
  BY <1>1, <1>4, ProcessKeepsQueues
<1>6. ASSUME NEW c \in Column
      PROVE  LET brought == c >= b.next /\ \E y \in all : y[1] = c
             IN  /\ q.ahead[c] # <<>> <=> b.ahead[c] # <<>> \/ brought
                 /\ brought  => Len(q.ahead[c]) = Len(b.ahead[c]) + 1
                 /\ ~brought => q.ahead[c] = b.ahead[c]
  BY <1>1, <1>4, ProcessResult
<1>7. /\ b.next = Place(d)
      /\ \A c \in Column :
           /\ Len(b.ahead[c]) =< 1
           /\ c < b.next => b.ahead[c] = <<>>
           /\ c >= b.next => (b.ahead[c] # <<>> <=> HasColumn(d, c))
  BY DEF Linked
<1>8. b.next \in Nat
  BY <1>1 DEF GoodBuffer, ReorderBuffers, Column
<1>9. symbol.fec = FALSE => b.ahead[symbol.index] = <<>>
  OBVIOUS
<1> HIDE DEF q, b, d
<1>10. ASSUME NEW c \in Column
       PROVE  /\ Len(q.ahead[c]) =< 1
              /\ c < q.next => q.ahead[c] = <<>>
              /\ c >= q.next => (q.ahead[c] # <<>> <=> HasColumn(f, c))
              /\ q.ahead[c] # <<>> => \/ b.ahead[c] # <<>> \/ c < Place(f)
                                      \/ ~symbol.fec /\ c = symbol.index
  <2> DEFINE brought == c >= b.next /\ \E y \in all : y[1] = c
  <2>1. /\ q.ahead[c] # <<>> <=> b.ahead[c] # <<>> \/ brought
        /\ brought  => Len(q.ahead[c]) = Len(b.ahead[c]) + 1
        /\ ~brought => q.ahead[c] = b.ahead[c]
    BY <1>6
  <2>2. c \in Nat
    BY DEF Column
  <2>3. (\E y \in all : y[1] = c) <=> \/ c \in ColumnsOf(chunks)
                                      \/ ~symbol.fec /\ c = symbol.index
    <3>1. (\E y \in chunks : y[1] = c) <=> c \in ColumnsOf(chunks)
      BY DEF ColumnsOf
    <3>2. (\E y \in own : y[1] = c) <=> ~symbol.fec /\ c = symbol.index
      <4>1. CASE symbol.fec = TRUE
        BY <1>3, <4>1
      <4>2. CASE symbol.fec = FALSE
        <5>1. own = {<<symbol.index, symbol.chunk>>} /\ ~symbol.fec
          BY <1>3, <4>2
        <5>2. <<symbol.index, symbol.chunk>>[1] = symbol.index
          OBVIOUS
        <5> HIDE DEF own
        <5> QED  BY <5>1, <5>2
      <4> QED  BY <1>2, <4>1, <4>2
    <3> HIDE DEF own
    <3> QED  BY <3>1, <3>2
  <2>4. HasColumn(f, c) <=> HasColumn(d, c) \/ \E y \in all : y[1] = c
    <3>1. HasColumn(f, c) <=> \/ HasColumn(d, c)
                              \/ c \in ColumnsOf(chunks)
                              \/ ~symbol.fec /\ c = symbol.index
      BY <2>2 DEF Brings, d
    <3> QED  BY <2>3, <3>1
  <2>5. c \in ColumnsOf(chunks) => ~HasColumn(d, c) /\ c < Place(f)
    BY DEF Brings, ColumnsOf, d
  <2>6. brought => b.ahead[c] = <<>>
    BY <1>2, <1>7, <1>9, <2>3, <2>5
  <2>7. Len(<<>>) = 0
    OBVIOUS
  <2> HIDE DEF all
  <2>8. Len(q.ahead[c]) =< 1
    <3>1. CASE brought
      <4>1. Len(q.ahead[c]) = 0 + 1
        BY <2>1, <2>6, <2>7, <3>1
      <4> QED  BY <4>1
    <3>2. CASE ~brought
      BY <1>7, <2>1, <3>2
    <3> QED  BY <3>1, <3>2
  <2>9. c < q.next => q.ahead[c] = <<>>
    <3>1. c < b.next => ~(c >= b.next)
      BY <1>8, <2>2
    <3> QED  BY <1>5, <1>7, <2>1, <3>1
  <2>10. c >= q.next => (q.ahead[c] # <<>> <=> HasColumn(f, c))
    BY <1>5, <1>7, <2>1, <2>4
  <2>11. q.ahead[c] # <<>> => \/ b.ahead[c] # <<>> \/ c < Place(f)
                              \/ ~symbol.fec /\ c = symbol.index
    BY <2>1, <2>3, <2>5
  <2> QED  BY <2>8, <2>9, <2>10, <2>11
<1>11. QueuedOnce(s, symbol, f, q)
  BY <1>5, <1>10 DEF QueuedOnce, b
<1> QED  BY <1>5, <1>11 DEF q, b

(***************************************************************************)
(* Draining the buffer takes all chunks up to the column waited for.       *)
(***************************************************************************)
LEMMA DrainingIsLinked ==
  ASSUME NEW K \in Nat, K < ColumnPeriod,
         NEW s, NEW symbol, NEW f, GoodWindow(f, K), Timely(f),
         NEW q, GoodBuffer(q, K), QueuedOnce(s, symbol, f, q),
         q.next =< Place(f),
         NEW n \in RunLengths, IsWholeRun(q, n)
  PROVE  LET t == [fec |-> f, buffer |-> AfterRun(q, n)]
         IN  Linked(t) /\ WaitsNoMore(s, symbol, t)
<1> DEFINE r == AfterRun(q, n)
           end == q.next + n
<1>1. /\ q.next = s.buffer.next
      /\ \A c \in Column :
           /\ Len(q.ahead[c]) =< 1
           /\ c < q.next => q.ahead[c] = <<>>
           /\ c >= q.next => (q.ahead[c] # <<>> <=> HasColumn(f, c))
           /\ q.ahead[c] # <<>> => \/ s.buffer.ahead[c] # <<>> \/ c < Place(f)
                                   \/ ~symbol.fec /\ c = symbol.index
  BY DEF QueuedOnce
<1>2. end \in Column /\ q.ahead[end] = <<>>
  BY <1>1, RunStopsAtMissing
<1>3. \A j \in 0 .. n - 1 : q.next + j \in Column /\ q.ahead[q.next + j] # <<>>
  BY RunDoesNotWrap
<1>4. r.next = end
  BY AfterRunKeepsQueues
<1>5. ASSUME NEW c \in Column
      PROVE  r.ahead[c] = IF c \in q.next .. end - 1 THEN Tail(q.ahead[c])
                          ELSE q.ahead[c]
  BY AfterRunResult
<1>6. q.next \in Nat /\ n \in Nat /\ Place(f) \in Int /\ Column \subseteq Nat
  <2>1. f.columnStart \in Nat /\ f.next \in Int
    BY DecoderType DEF GoodWindow
  <2> QED  BY <2>1 DEF GoodBuffer, ReorderBuffers, RunLengths, Column, Place
<1>7. end \in Nat /\ q.next =< end
  BY <1>6
<1>8. ASSUME NEW c \in Column
      PROVE  q.ahead[c] # <<>> => Tail(q.ahead[c]) = <<>>
  <2>1. q.ahead[c] \in Seq(1 .. K)
    BY DEF GoodBuffer, ReorderBuffers
  <2> DEFINE w == q.ahead[c]
  <2>2. Len(w) =< 1
    BY <1>1
  <2>3. w \in Seq(1 .. K)
    BY <2>1
  <2> HIDE DEF w
  <2>4. w # <<>> => Tail(w) = <<>>
    BY <2>2, <2>3, ShortSequence
  <2> QED  BY <2>4 DEF w
<1> HIDE DEF r
<1>9. end = Place(f)
  <2>1. ~(end < Place(f))
    <3>1. ~HasColumn(f, end)
      BY <1>1, <1>2, <1>7
    <3>2. end < Place(f) => HasColumn(f, end)
      BY <1>7, BelowPlaceIsHad
    <3> QED  BY <3>1, <3>2
  <2>2. ~(Place(f) < end)
    <3> SUFFICES ASSUME Place(f) < end PROVE FALSE
      OBVIOUS
    <3> DEFINE p == Place(f)
               j == p - q.next
    <3>1. p \in Nat
      BY <1>6
    <3>2. j \in 0 .. n - 1 /\ q.next + j = p
      BY <1>6
    <3>3. ~HasColumn(f, p)
      BY <3>1, BelowPlaceIsHad
    <3> HIDE DEF p, j
    <3>4. p \in Column /\ q.ahead[p] # <<>>
      BY <1>3, <3>2
    <3>5. p >= q.next
      BY DEF p
    <3> QED  BY <1>1, <3>3, <3>4, <3>5
  <2> HIDE DEF end
  <2> QED  BY <1>6, <1>7, <2>1, <2>2
<1> HIDE DEF end
<1>10. ASSUME NEW c \in Column
       PROVE  /\ Len(r.ahead[c]) =< 1
              /\ c < end => r.ahead[c] = <<>>
              /\ c >= end => r.ahead[c] = q.ahead[c]
  <2>1. c \in Nat
    BY <1>6
  <2>2. CASE c < q.next
    <3>1. r.ahead[c] = <<>> /\ c < end
      <4>1. c \notin q.next .. end - 1 /\ c < end
        BY <1>6, <1>7, <2>1, <2>2
      <4> QED  BY <1>1, <1>5, <2>2, <4>1
    <3>2. Len(<<>>) =< 1 /\ ~(c >= end)
      BY <1>7, <2>1, <3>1
    <3> QED  BY <3>1, <3>2
  <2>3. CASE ~(c < q.next) /\ c < end
    <3>1. c \in q.next .. end - 1
      BY <1>6, <1>7, <2>1, <2>3
    <3>2. q.ahead[c] # <<>>
      <4> DEFINE j == c - q.next
      <4>1. j \in 0 .. n - 1 /\ q.next + j = c
        BY <1>6, <2>1, <2>3 DEF end
      <4> HIDE DEF j
      <4> QED  BY <1>3, <4>1
    <3>3. r.ahead[c] = <<>>
      BY <1>5, <1>8, <3>1, <3>2
    <3>4. Len(<<>>) =< 1 /\ ~(c >= end)
      BY <1>7, <2>1, <2>3
    <3> QED  BY <3>3, <3>4
  <2>4. CASE ~(c < end)
    <3>1. c \notin q.next .. end - 1
      BY <1>6, <1>7, <2>1, <2>4
    <3> QED  BY <1>1, <1>5, <2>4, <3>1
  <2> QED  BY <2>2, <2>3, <2>4
<1> DEFINE t == [fec |-> f, buffer |-> r]
<1>11. t.fec = f /\ t.buffer = r
  OBVIOUS
<1> HIDE DEF t
<1>12. Linked(t)
  <2>1. ASSUME NEW c \in Column, c >= end
        PROVE  r.ahead[c] # <<>> <=> HasColumn(f, c)
    <3>1. c >= q.next
      BY <1>6, <1>7, <2>1
    <3> QED  BY <1>1, <1>10, <2>1, <3>1
  <2> QED  BY <1>4, <1>9, <1>10, <1>11, <2>1 DEF Linked
<1>13. WaitsNoMore(s, symbol, t)
  <2> SUFFICES ASSUME NEW c \in Column, r.ahead[c] # <<>>
               PROVE  \/ s.buffer.ahead[c] # <<>>
                      \/ ~symbol.fec /\ c = symbol.index
    BY <1>11 DEF WaitsNoMore
  <2>1. ~(c < end)
    BY <1>10
  <2>2. q.ahead[c] # <<>>
    BY <1>6, <1>7, <1>10, <2>1
  <2> QED  BY <1>1, <1>9, <2>1, <2>2
<1> QED  BY <1>12, <1>13 DEF t, r

(***************************************************************************)
(* handle_stream keeps the buffer linked to its FEC decoder, when an       *)
(* original it is given does not wait already.                             *)
(***************************************************************************)
LEMMA HandleIsLinked ==
  ASSUME NEW K \in Nat, K =< ColumnPeriod \div 2,
         NEW m, GoodNode(m, K), NEW symbol, GoodSymbol(symbol, K),
         Prompt(m.decoder.fec), Linked(m.decoder),
         symbol.fec => symbol.packet.columnStart =< Place(m.decoder.fec),
         symbol.fec = FALSE => m.decoder.buffer.ahead[symbol.index] = <<>>,
         NEW lucky \in BOOLEAN
  PROVE  LET h == HandleStream(m, symbol, lucky)
         IN  ~h.threw => /\ Linked(h.node.decoder)
                         /\ WaitsNoMore(m.decoder, symbol, h.node.decoder)
<1> DEFINE p == ProcessSymbol(m.decoder, symbol, lucky)
           h == HandleStream(m, symbol, lucky)
           s == m.decoder
           f == p.stream.fec
           q == p.stream.buffer
<1>1. GoodStream(s, K) /\ K < ColumnPeriod
  BY ColumnPeriodAssumption DEF GoodNode
<1>2. ~p.threw => ProcessedInOrder(s, symbol, p.stream, K)
  BY <1>1, ProcessIsPrompt
<1>3. ~p.threw => GoodStream(p.stream, K)
  BY <1>1, ProcessSymbolResult
<1>4. HandleSplit(m, p, h)
  BY HandleIsSplit
<1> HIDE DEF p, h
<1> SUFFICES ASSUME ~h.threw
             PROVE  /\ Linked(h.node.decoder)
                    /\ WaitsNoMore(s, symbol, h.node.decoder)
  BY DEF h
<1> DEFINE n == CHOOSE n \in RunLengths : IsWholeRun(q, n)
           t == [p.stream EXCEPT !.buffer = AfterRun(q, n)]
           encoded == EncodeChunks(m.encoder, TakenChunks(q, n))
<1>5. ~p.threw /\ h.node.decoder = t
  <2>1. \/ p.threw /\ h.threw
        \/ ~p.threw /\ h.node = [decoder |-> t, encoder |-> encoded.stream]
    BY <1>4 DEF HandleSplit
  <2> HIDE DEF t, encoded
  <2> QED  BY <2>1
<1>6. ProcessedInOrder(s, symbol, p.stream, K) /\ GoodStream(p.stream, K)
  BY <1>2, <1>3, <1>5
<1>7. PICK chunks \in SUBSET (Nat \X Nat) :
        /\ AreOwnSymbols(chunks, K) /\ Brings(s.fec, symbol, f, chunks)
        /\ q = ProcessOriginalChunks(s.buffer, chunks \cup OwnChunk(symbol))
  BY <1>6 DEF ProcessedInOrder
<1>8. Timely(s.fec) /\ Timely(f) /\ GoodWindow(f, K)
  BY <1>6 DEF ProcessedInOrder, Prompt, GoodStream, GoodDecoder
<1>9. GoodBuffer(q, K) /\ QueuedOnce(s, symbol, f, q)
  <2> DEFINE r == ProcessOriginalChunks(s.buffer, chunks \cup OwnChunk(symbol))
  <2>1. GoodBuffer(r, K) /\ QueuedOnce(s, symbol, f, r)
    <3>1. /\ Linked(s) /\ GoodStream(s, K) /\ Timely(s.fec)
          /\ symbol.fec = FALSE => s.buffer.ahead[symbol.index] = <<>>
      BY <1>1, <1>8
    <3>2. AreOwnSymbols(chunks, K) /\ Brings(s.fec, symbol, f, chunks)
      BY <1>7
    <3> HIDE DEF s, f
    <3> QED  BY <3>1, <3>2, QueueingIsOnce
  <2> QED  BY <1>7, <2>1
<1>10. n \in RunLengths /\ IsWholeRun(q, n)
  <2>1. \E i \in RunLengths : IsWholeRun(q, i)
    BY <1>1, <1>9, RunExists
  <2> QED  BY <2>1
<1>11. q.next =< Place(f)
  BY <1>7, <1>9 DEF QueuedOnce, Linked, Brings
<1>12. t = [fec |-> f, buffer |-> AfterRun(q, n)]
  <2>1. p.stream = [fec |-> f, buffer |-> q]
    BY <1>6 DEF GoodStream
  <2> QED  BY <2>1
<1> HIDE DEF n, q, f, t
<1>13. Linked(t) /\ WaitsNoMore(s, symbol, t)
  BY <1>1, <1>8, <1>9, <1>10, <1>11, <1>12, DrainingIsLinked
<1> QED  BY <1>5, <1>13

-----------------------------------------------------------------------------
(* Symbols in flight, once each                                            *)

(***************************************************************************)
(* Original chunks in flight: each once, and none that waits already.      *)
(***************************************************************************)
EachOnce(q, ahead) ==
  /\ \A i \in 1 .. Len(q) : q[i].fec = FALSE => ahead[q[i].index] = <<>>
  /\ \A i, j \in 1 .. Len(q) :
       q[i].fec = FALSE /\ q[j].fec = FALSE /\ i # j => q[i].index # q[j].index

(***************************************************************************)
(* What RemoveAt leaves, element by element.                               *)
(***************************************************************************)
LEMMA RemovedFrom ==
  ASSUME NEW S, NEW q \in Seq(S), NEW i \in 1 .. Len(q)
  PROVE  /\ Len(RemoveAt(q, i)) = Len(q) - 1
         /\ \A j \in 1 .. Len(q) - 1 :
              RemoveAt(q, i)[j] = IF j < i THEN q[j] ELSE q[j + 1]
<1> DEFINE n == Len(q)
           a == SubSeq(q, 1, i - 1)
           b == SubSeq(q, i + 1, n)
<1>1. n \in Nat /\ i \in 1 .. n
  BY LenProperties
<1>2. /\ a \in Seq(S) /\ Len(a) = i - 1
      /\ \A j \in 1 .. i - 1 : a[j] = q[j]
  <2>1. \A j \in 1 .. i - 1 : q[j] \in S
    BY <1>1, ElementOfSeq
  <2>2. /\ a \in Seq(S)
        /\ Len(a) = IF 1 =< i - 1 THEN (i - 1) - 1 + 1 ELSE 0
        /\ \A j \in 1 .. (i - 1) - 1 + 1 : a[j] = q[1 + j - 1]
    BY <1>1, <2>1, SubSeqProperties
  <2> HIDE DEF a
  <2> QED  BY <1>1, <2>2
<1>3. /\ b \in Seq(S) /\ Len(b) = n - i
      /\ \A j \in 1 .. n - i : b[j] = q[i + j]
  <2>1. \A j \in i + 1 .. n : q[j] \in S
    BY <1>1, ElementOfSeq
  <2>2. /\ b \in Seq(S)
        /\ Len(b) = IF i + 1 =< n THEN n - (i + 1) + 1 ELSE 0
        /\ \A j \in 1 .. n - (i + 1) + 1 : b[j] = q[(i + 1) + j - 1]
    BY <1>1, <2>1, SubSeqProperties
  <2> HIDE DEF b
  <2> QED  BY <1>1, <2>2
<1>4. RemoveAt(q, i) = a \o b
  BY DEF RemoveAt
<1> HIDE DEF a, b, n
<1>5. /\ Len(a \o b) = Len(a) + Len(b)
      /\ \A j \in 1 .. Len(a) + Len(b) :
           (a \o b)[j] = IF j =< Len(a) THEN a[j] ELSE b[j - Len(a)]
  BY <1>2, <1>3, ConcatProperties
<1>6. ASSUME NEW j \in 1 .. n - 1
      PROVE  (a \o b)[j] = IF j < i THEN q[j] ELSE q[j + 1]
  <2>1. CASE j < i
    <3>1. j \in 1 .. i - 1 /\ j =< i - 1 /\ j \in 1 .. (i - 1) + (n - i)
      BY <1>1, <2>1
    <3> QED  BY <1>2, <1>3, <1>5, <2>1, <3>1
  <2>2. CASE ~(j < i)
    <3>1. /\ j - (i - 1) \in 1 .. n - i /\ ~(j =< i - 1)
          /\ i + (j - (i - 1)) = j + 1 /\ j \in 1 .. (i - 1) + (n - i)
      BY <1>1, <2>2
    <3> QED  BY <1>2, <1>3, <1>5, <2>2, <3>1
  <2> QED  BY <2>1, <2>2
<1>7. Len(a \o b) = n - 1
  BY <1>1, <1>2, <1>3, <1>5
<1> QED  BY <1>4, <1>6, <1>7 DEF n

(***************************************************************************)
(* Every symbol of r has a place of its own in q.                          *)
(***************************************************************************)
IsPartOf(r, q) ==
  \E place \in [1 .. Len(r) -> 1 .. Len(q)] :
    /\ \A j \in 1 .. Len(r) : r[j] = q[place[j]]
    /\ \A j, k \in 1 .. Len(r) : j # k => place[j] # place[k]

(***************************************************************************)
(* A queue of which each is once has each once in every part.              *)
(***************************************************************************)
LEMMA FewerEachOnce ==
  ASSUME NEW q, NEW r, NEW ahead, EachOnce(q, ahead), IsPartOf(r, q)
  PROVE  EachOnce(r, ahead)
<1>1. PICK place \in [1 .. Len(r) -> 1 .. Len(q)] :
        /\ \A j \in 1 .. Len(r) : r[j] = q[place[j]]
        /\ \A j, k \in 1 .. Len(r) : j # k => place[j] # place[k]
  BY DEF IsPartOf
<1>2. \A j \in 1 .. Len(r) : place[j] \in 1 .. Len(q)
  OBVIOUS
<1>3. ASSUME NEW j \in 1 .. Len(r), r[j].fec = FALSE
      PROVE  ahead[r[j].index] = <<>>
  BY <1>1, <1>2, <1>3 DEF EachOnce
<1>4. ASSUME NEW j \in 1 .. Len(r), NEW k \in 1 .. Len(r),
             r[j].fec = FALSE, r[k].fec = FALSE, j # k
      PROVE  r[j].index # r[k].index
  BY <1>1, <1>2, <1>4 DEF EachOnce
<1> QED  BY <1>3, <1>4 DEF EachOnce

(***************************************************************************)
(* So it is when the first symbol is lost.                                 *)
(***************************************************************************)
LEMMA TailEachOnce ==
  ASSUME NEW S, NEW q \in Seq(S), q # <<>>, NEW ahead, EachOnce(q, ahead)
  PROVE  EachOnce(Tail(q), ahead)
<1> DEFINE r == Tail(q)
           place == [j \in 1 .. Len(r) |-> j + 1]
<1>1. /\ Len(q) \in Nat /\ Len(r) = Len(q) - 1 /\ Len(r) \in Nat
      /\ \A j \in 1 .. Len(r) : r[j] = q[j + 1]
  BY HeadTailProperties, LenProperties, EmptySeq
<1> HIDE DEF r
<1>2. place \in [1 .. Len(r) -> 1 .. Len(q)]
  <2>1. \A j \in 1 .. Len(r) : j + 1 \in 1 .. Len(q)
    BY <1>1
  <2> QED  BY <2>1
<1>3. \A j \in 1 .. Len(r) : r[j] = q[place[j]]
  BY <1>1
<1>4. \A j, k \in 1 .. Len(r) : j # k => place[j] # place[k]
  OBVIOUS
<1> HIDE DEF place
<1>5. EachOnce(r, ahead)
  <2>1. IsPartOf(r, q)
    BY <1>2, <1>3, <1>4 DEF IsPartOf
  <2> QED  BY <2>1, FewerEachOnce
<1> QED  BY <1>5 DEF r

(***************************************************************************)
(* What is left of q when the symbol at i is gone.                         *)
(***************************************************************************)
OthersOnce(q, i, r, ahead) ==
  /\ EachOnce(r, ahead)
  /\ q[i].fec = FALSE => \A j \in 1 .. Len(r) :
                           r[j].fec = FALSE => r[j].index # q[i].index

(***************************************************************************)
(* Taking one symbol out leaves the others, of other columns.              *)
(***************************************************************************)
LEMMA RemovedEachOnce ==
  ASSUME NEW S, NEW q \in Seq(S), NEW i \in 1 .. Len(q), NEW ahead,
         EachOnce(q, ahead)
  PROVE  OthersOnce(q, i, RemoveAt(q, i), ahead)
<1> DEFINE r == RemoveAt(q, i)
           place == [j \in 1 .. Len(r) |-> IF j < i THEN j ELSE j + 1]
<1>1. /\ Len(q) \in Nat /\ Len(r) = Len(q) - 1 /\ Len(r) \in Nat
      /\ \A j \in 1 .. Len(r) : r[j] = IF j < i THEN q[j] ELSE q[j + 1]
  <2>1. Len(q) \in Nat
    BY LenProperties
  <2>2. /\ Len(r) = Len(q) - 1
        /\ \A j \in 1 .. Len(q) - 1 : r[j] = IF j < i THEN q[j] ELSE q[j + 1]
    BY RemovedFrom
  <2> HIDE DEF r
  <2> QED  BY <2>1, <2>2
<1> HIDE DEF r
<1>2. /\ place \in [1 .. Len(r) -> 1 .. Len(q)]
      /\ \A j \in 1 .. Len(r) : place[j] # i
  <2>1. \A j \in 1 .. Len(r) :
          /\ (IF j < i THEN j ELSE j + 1) \in 1 .. Len(q)
          /\ (IF j < i THEN j ELSE j + 1) # i
    BY <1>1
  <2> QED  BY <2>1
<1>3. \A j \in 1 .. Len(r) : r[j] = q[place[j]]
  BY <1>1
<1>4. \A j, k \in 1 .. Len(r) : j # k => place[j] # place[k]
  OBVIOUS
<1> HIDE DEF place
<1>5. EachOnce(r, ahead)
  <2>1. IsPartOf(r, q)
    BY <1>2, <1>3, <1>4 DEF IsPartOf
  <2> QED  BY <2>1, FewerEachOnce
<1>6. ASSUME q[i].fec = FALSE, NEW j \in 1 .. Len(r), r[j].fec = FALSE
      PROVE  r[j].index # q[i].index
  BY <1>2, <1>3, <1>6 DEF EachOnce
<1> QED  BY <1>5, <1>6 DEF r, OthersOnce

(***************************************************************************)
(* Appending the symbols of a chunk that is neither in flight nor waiting. *)
(***************************************************************************)
LEMMA AppendedEachOnce ==
  ASSUME NEW S, NEW q \in Seq(S), NEW r \in Seq(S), NEW c, NEW ahead,
         EachOnce(q, ahead), OneOriginal(r, c), ahead[c] = <<>>,
         \A i \in 1 .. Len(q) : q[i].fec = FALSE => q[i].index # c
  PROVE  EachOnce(q \o r, ahead)
<1> DEFINE t == q \o r
           n == Len(q)
<1>1. n \in Nat /\ Len(r) \in Nat
  BY LenProperties
<1>2. /\ Len(t) = n + Len(r)
      /\ \A i \in 1 .. n + Len(r) : t[i] = IF i =< n THEN q[i] ELSE r[i - n]
  BY ConcatProperties
<1> HIDE DEF t
<1>3. ASSUME NEW i \in 1 .. n + Len(r), t[i].fec = FALSE
      PROVE  \/ i \in 1 .. n /\ t[i] = q[i] /\ q[i].index # c
             \/ i = n + 1 /\ t[i].index = c
  <2>1. CASE i =< n
    <3>1. i \in 1 .. n
      BY <1>1, <2>1
    <3> QED  BY <1>2, <1>3, <2>1, <3>1
  <2>2. CASE ~(i =< n)
    <3>1. i - n \in 1 .. Len(r) /\ t[i] = r[i - n]
      BY <1>1, <1>2, <2>2
    <3>2. i - n = 1 /\ r[i - n].index = c
      BY <1>3, <3>1 DEF OneOriginal
    <3>3. i = n + 1
      BY <1>1, <3>2
    <3> QED  BY <3>1, <3>2, <3>3
  <2> QED  BY <2>1, <2>2
<1>4. \A i \in 1 .. Len(t) : t[i].fec = FALSE => ahead[t[i].index] = <<>>
  BY <1>2, <1>3 DEF EachOnce
<1>5. ASSUME NEW i \in 1 .. Len(t), NEW j \in 1 .. Len(t),
             t[i].fec = FALSE, t[j].fec = FALSE, i # j
      PROVE  t[i].index # t[j].index
  <2>1. /\ \/ i \in 1 .. n /\ t[i] = q[i] /\ q[i].index # c
           \/ i = n + 1 /\ t[i].index = c
        /\ \/ j \in 1 .. n /\ t[j] = q[j] /\ q[j].index # c
           \/ j = n + 1 /\ t[j].index = c
    BY <1>2, <1>3, <1>5
  <2>2. i \in 1 .. n /\ j \in 1 .. n => q[i].fec = FALSE /\ q[j].fec = FALSE
    BY <1>5, <2>1, <1>1
  <2> QED  BY <1>5, <2>1, <2>2 DEF EachOnce
<1>6. EachOnce(t, ahead)
  BY <1>4, <1>5 DEF EachOnce
<1> QED  BY <1>6 DEF t

(***************************************************************************)
(* Nor does it matter which chunks wait that are not in flight.            *)
(***************************************************************************)
LEMMA LessWaiting ==
  ASSUME NEW q, NEW ahead, NEW later,
         EachOnce(q, ahead),
         \A i \in 1 .. Len(q) :
           q[i].fec = FALSE /\ ahead[q[i].index] = <<>> =>
             later[q[i].index] = <<>>
  PROVE  EachOnce(q, later)
BY DEF EachOnce

-----------------------------------------------------------------------------
(* The nodes, when nothing is repeated                                     *)

(***************************************************************************)
(* The network repeats no packet. A repeated original is queued a second   *)
(* time under its column: the runs repeated_chunk and duplicated_recovery  *)
(* show it.                                                                *)
(***************************************************************************)
NothingRepeated == MaxDuplicates = 0

(***************************************************************************)
(* The part of the invariant about one subscriber.                         *)
(***************************************************************************)
LinkedInv(s) ==
  alive[s] => /\ Linked(node[s].decoder)
              /\ EachOnce(net[s], node[s].decoder.buffer.ahead)

(***************************************************************************)
(* The invariant of a network that repeats nothing.                        *)
(***************************************************************************)
LInv ==
  /\ faults \in [lost : Nat, duplicated : {0}, failed : Nat]
  /\ \A s \in Subscriber : LinkedInv(s)

(***************************************************************************)
(* The invariant holds at the start.                                       *)
(***************************************************************************)
LEMMA InitEstablishesLInv ==
  Init => LInv
<1> SUFFICES ASSUME Init PROVE LInv
  OBVIOUS
<1>1. /\ net = [s \in Subscriber |-> <<>>]
      /\ node = [s \in Subscriber |-> ContinuousStreamInit]
      /\ faults = [lost |-> 0, duplicated |-> 0, failed |-> 0]
  BY DEF Init
<1>2. ASSUME NEW s \in Subscriber PROVE LinkedInv(s)
  <2> DEFINE t == node[s].decoder
  <2>1. net[s] = <<>> /\ t.fec = DecoderInit /\ t.buffer = EmptyBuffer
    BY <1>1 DEF ContinuousStreamInit, StreamDecoderInit
  <2>2. /\ EmptyBuffer.next = 0
        /\ \A c \in Column : EmptyBuffer.ahead[c] = <<>>
    BY DEF EmptyBuffer
  <2>3. \A c \in Column : ~HasColumn(DecoderInit, c)
    BY DEF HasColumn, DecoderInit, Column
  <2>4. Len(<<>>) = 0
    OBVIOUS
  <2> HIDE DEF t
  <2>5. Linked(t)
    BY <2>1, <2>2, <2>3, <2>4, InitialIsPrompt DEF Linked
  <2>6. EachOnce(net[s], t.buffer.ahead)
    BY <2>1, <2>4 DEF EachOnce
  <2> QED  BY <2>5, <2>6 DEF LinkedInv, t
<1>3. faults \in [lost : Nat, duplicated : {0}, failed : Nat]
  BY <1>1
<1> QED  BY <1>2, <1>3 DEF LInv

(***************************************************************************)
(* A loss leaves fewer symbols in flight.                                  *)
(***************************************************************************)
LEMMA NetworkKeepsLInv ==
  ASSUME NothingRepeated, IInv, LInv, NEW s \in Subscriber,
         Lose(s) \/ Duplicate(s)
  PROVE  LInv'
<1>1. faults \in [lost : Nat, duplicated : {0}, failed : Nat]
      /\ \A t \in Subscriber : LinkedInv(t)
  BY DEF LInv
<1>2. ~Duplicate(s)
  <2>1. faults.duplicated = 0
    BY <1>1
  <2> QED  BY <2>1 DEF Duplicate, NothingRepeated
<1>3. /\ UNCHANGED <<node, alive>> /\ net[s] # <<>>
      /\ net' = [net EXCEPT ![s] = Tail(@)]
      /\ faults' = [faults EXCEPT !.lost = @ + 1]
  BY <1>2 DEF Lose, subscriber
<1>4. faults' \in [lost : Nat, duplicated : {0}, failed : Nat]
  BY <1>1, <1>3
<1>5. ASSUME NEW t \in Subscriber PROVE LinkedInv(t)'
  <2>1. net' = [r \in Subscriber |-> net'[r]]
        /\ net = [r \in Subscriber |-> net[r]]
        /\ net[s] \in Seq(SentSymbols(Sent))
    BY <1>3 DEF IInv, PerSubscriber, SubscriberInv
  <2>2. CASE t # s
    <3>1. net'[t] = net[t]
      BY <1>3, <2>1, <2>2
    <3> QED  BY <1>1, <1>3, <3>1 DEF LinkedInv
  <2>3. CASE t = s
    <3>1. net'[t] = Tail(net[t])
      BY <1>3, <2>1, <2>3
    <3>2. ASSUME alive[t]
          PROVE  EachOnce(Tail(net[t]), node[t].decoder.buffer.ahead)
      <4>1. EachOnce(net[t], node[t].decoder.buffer.ahead)
        BY <1>1, <3>2 DEF LinkedInv
      <4> QED  BY <1>3, <2>1, <2>3, <4>1, TailEachOnce
    <3> QED  BY <1>1, <1>3, <3>1, <3>2 DEF LinkedInv
  <2> QED  BY <2>2, <2>3
<1> QED  BY <1>4, <1>5 DEF LInv

(***************************************************************************)
(* The next chunk of the source neither waits at a subscriber nor is in    *)
(* flight.                                                                 *)
(***************************************************************************)
LEMMA NotSentNotWaiting ==
  ASSUME ColumnsSuffice, IInv, NEW s \in Subscriber, Sent < MaxChunks,
         Linked(node[s].decoder)
  PROVE  /\ node[s].decoder.buffer.ahead[Sent] = <<>>
         /\ \A i \in 1 .. Len(net[s]) :
              net[s][i].fec = FALSE => net[s][i].index # Sent
<1> DEFINE t == node[s].decoder
           d == Fec(s)
<1>1. /\ Sent \in Nat /\ Sent =< ColumnPeriod \div 2
      /\ GoodDecoder(d, Sent) /\ t.fec = d /\ GoodNode(node[s], Sent)
  BY DecoderOfSubscriber DEF Fec
<1>2. Sent \in Column
  BY <1>1, ColumnPeriodAssumption DEF Column
<1>3. ~HasColumn(d, Sent)
  <2> DEFINE a == d.columnStart
             n == d.count
             got == d.got
  <2>1. a \in Nat /\ n \in Nat /\ a + n =< Sent /\ got \subseteq 0 .. n - 1
    BY <1>1, DecoderType DEF GoodDecoder, GoodWindow, WindowFits
  <2>2. HasColumn(d, Sent) <=> Sent < a \/ Sent - a \in got
    BY DEF HasColumn
  <2> HIDE DEF a, n, got
  <2>3. ~(Sent < a) /\ Sent - a \notin 0 .. n - 1
    BY <1>1, <2>1
  <2> QED  BY <2>1, <2>2, <2>3
<1>4. t.buffer.next \in Nat
  BY <1>1 DEF GoodNode, GoodStream, GoodBuffer, ReorderBuffers, Column
<1>5. t.buffer.ahead[Sent] = <<>>
  <2> HIDE DEF d
  <2>1. Linked(t)
    OBVIOUS
  <2> HIDE DEF t
  <2> QED  BY <1>1, <1>2, <1>3, <1>4, <2>1 DEF Linked
<1>6. ASSUME NEW i \in 1 .. Len(net[s]), net[s][i].fec = FALSE
      PROVE  net[s][i].index # Sent
  <2>1. net[s] \in Seq(SentSymbols(Sent))
    BY DEF IInv, SubscriberInv
  <2>2. net[s][i] \in SentSymbols(Sent)
    BY <2>1, InFlightResult
  <2>3. net[s][i].index \in 0 .. Sent - 1
    BY <1>6, <2>2 DEF SentSymbols, GoodSymbol
  <2> QED  BY <1>1, <2>3
<1> QED  BY <1>5, <1>6

(***************************************************************************)
(* A chunk goes out once as an original.                                   *)
(***************************************************************************)
LEMMA ForwardKeepsLInv ==
  ASSUME ColumnsSuffice, IInv, LInv, Forward
  PROVE  LInv'
<1> DEFINE encoded == EncodeChunks(encoder, <<Sent + 1>>)
<1>1. /\ UNCHANGED <<node, alive, faults>> /\ Sent < MaxChunks
      /\ \/ net' = net
         \/ /\ ~encoded.threw
            /\ net' = [s \in Subscriber |->
                         IF s \in subscribed THEN net[s] \o encoded.symbols
                                             ELSE net[s]]
  BY DEF Forward, subscriber
<1>2. ~encoded.threw => /\ encoded.symbols \in Seq(SentSymbols(Sent + 1))
                        /\ OneOriginal(encoded.symbols, Sent)
  <2>1. Sent < MaxChunks /\ MaxChunks \in Nat /\ GoodForwarder(encoder, Sent)
        /\ Sent \in Nat
    BY SentType DEF IInv, Forward, ForwarderInv
  <2>2. Sent + 1 < ColumnPeriod
    BY <2>1, ColumnPeriodAssumption DEF ColumnsSuffice
  <2> QED  BY <2>1, <2>2, EncodeChunkResult
<1>3. Sent \in Nat
  BY SentType DEF IInv
<1> HIDE DEF encoded
<1>4. ASSUME NEW s \in Subscriber PROVE LinkedInv(s)'
  <2> DEFINE t == node[s].decoder
             q == net[s]
             r == encoded.symbols
  <2>1. LinkedInv(s)
    BY DEF LInv
  <2>2. CASE net'[s] = net[s]
    BY <1>1, <2>1, <2>2 DEF LinkedInv
  <2>3. CASE ~encoded.threw /\ net'[s] = q \o r
    <3> SUFFICES ASSUME alive[s]
                 PROVE  EachOnce(q \o r, t.buffer.ahead)
      BY <1>1, <2>1, <2>3 DEF LinkedInv
    <3>1. Linked(t) /\ EachOnce(q, t.buffer.ahead)
      BY <2>1 DEF LinkedInv
    <3>2. /\ t.buffer.ahead[Sent] = <<>>
          /\ \A i \in 1 .. Len(q) : q[i].fec = FALSE => q[i].index # Sent
      BY <1>1, <3>1, NotSentNotWaiting
    <3>3. /\ q \in Seq(SentSymbols(Sent + 1))
          /\ r \in Seq(SentSymbols(Sent + 1))
          /\ OneOriginal(r, Sent)
      <4>1. q \in Seq(SentSymbols(Sent))
        BY DEF IInv, SubscriberInv
      <4>2. Seq(SentSymbols(Sent)) \subseteq Seq(SentSymbols(Sent + 1))
        <5>1. Sent + 1 \in Nat /\ Sent =< Sent + 1
          BY <1>3
        <5> QED  BY <1>3, <5>1, MoreSentSymbols
      <4> QED  BY <1>2, <2>3, <4>1, <4>2
    <3> HIDE DEF q, r, t
    <3> QED  BY <3>1, <3>2, <3>3, AppendedEachOnce
  <2> QED  BY <1>1, <2>2, <2>3
<1> QED  BY <1>1, <1>4 DEF LInv

(***************************************************************************)
(* The symbol received is no longer in flight when it waits.               *)
(***************************************************************************)
LEMMA ReceiveKeepsLInv ==
  ASSUME OneSubscriber, ColumnsSuffice, IInv, PInv, LInv, NEW s \in Subscriber,
         NEW i \in 1 .. Len(net[s]), NEW lucky \in BOOLEAN,
         Receive(s, i, lucky)
  PROVE  LinkedInv(s)'
<1> DEFINE m == node[s]
           y == net[s][i]
           q == RemoveAt(net[s], i)
           h == HandleStream(m, y, lucky)
           ahead == m.decoder.buffer.ahead
           later == h.node.decoder.buffer.ahead
<1>1. /\ alive[s]
      /\ net' = [net EXCEPT ![s] = q]
      /\ node' = [node EXCEPT ![s] = h.node]
      /\ alive' = [alive EXCEPT ![s] = ~h.threw]
  BY DEF Receive
<1>2. /\ Sent \in Nat /\ Sent =< ColumnPeriod \div 2
      /\ GoodNode(m, Sent) /\ Fec(s) = m.decoder.fec
  BY DecoderOfSubscriber DEF Fec
<1>3. /\ Prompt(Fec(s)) /\ net[s] \in Seq(StartedBy(Place(Fec(s))))
      /\ net[s] \in Seq(SentSymbols(Sent))
  BY DEF PInv, PromptInv, IInv, SubscriberInv
<1>4. y \in StartedBy(Place(Fec(s))) /\ y \in SentSymbols(Sent)
      /\ q \in Seq(SentSymbols(Sent))
  BY <1>3, InFlightResult
<1>5. GoodSymbol(y, Sent) /\ (y.fec => y.packet.columnStart =< Place(Fec(s)))
  BY <1>4 DEF SentSymbols, StartedBy
<1>6. Linked(m.decoder) /\ EachOnce(net[s], ahead)
  BY <1>1 DEF LInv, LinkedInv
<1>7. y.fec = FALSE => ahead[y.index] = <<>>
  BY <1>6 DEF EachOnce
<1>8. ~h.threw => /\ Linked(h.node.decoder)
                  /\ WaitsNoMore(m.decoder, y, h.node.decoder)
  <2> HIDE DEF m, y
  <2>1. /\ Prompt(m.decoder.fec)
        /\ y.fec => y.packet.columnStart =< Place(m.decoder.fec)
        /\ y.fec = FALSE => m.decoder.buffer.ahead[y.index] = <<>>
    BY <1>2, <1>3, <1>5, <1>7
  <2> QED  BY <1>2, <1>5, <1>6, <2>1, HandleIsLinked
<1>9. /\ EachOnce(q, ahead)
      /\ y.fec = FALSE =>
           \A j \in 1 .. Len(q) : q[j].fec = FALSE => q[j].index # y.index
  <2>1. OthersOnce(net[s], i, q, ahead)
    BY <1>3, <1>6, RemovedEachOnce
  <2> HIDE DEF q, ahead
  <2> QED  BY <2>1 DEF OthersOnce
<1>10. /\ net'[s] = q /\ node'[s] = h.node
       /\ alive'[s] = ~h.threw
  BY <1>1 DEF IInv, PerSubscriber
<1>11. y.fec \in BOOLEAN
  BY <1>5 DEF GoodSymbol
<1> HIDE DEF h, q, y, ahead
<1> SUFFICES ASSUME ~h.threw PROVE Linked(h.node.decoder) /\ EachOnce(q, later)
  BY <1>10 DEF LinkedInv
<1>12. ASSUME NEW j \in 1 .. Len(q), q[j].fec = FALSE, ahead[q[j].index] = <<>>
       PROVE  later[q[j].index] = <<>>
  <2>1. q[j] \in SentSymbols(Sent)
    BY <1>4, ElementOfSeq
  <2>2. q[j].index \in Column
    <3>1. q[j].index \in 0 .. Sent - 1
      BY <1>12, <2>1 DEF SentSymbols, GoodSymbol
    <3> QED  BY <1>2, <3>1, ColumnPeriodAssumption DEF Column
  <2>3. later[q[j].index] # <<>> =>
          ahead[q[j].index] # <<>> \/ (~y.fec /\ q[j].index = y.index)
    BY <1>8, <2>2 DEF WaitsNoMore, ahead
  <2>4. ~(~y.fec /\ q[j].index = y.index)
    BY <1>9, <1>11, <1>12
  <2> QED  BY <1>12, <2>3, <2>4
<1> HIDE DEF later
<1>13. EachOnce(q, later)
  BY <1>9, <1>12, LessWaiting
<1> QED  BY <1>8, <1>13

(***************************************************************************)
(* Every step keeps the invariant.                                         *)
(***************************************************************************)
LEMMA NextKeepsLInv ==
  ASSUME OneSubscriber, ColumnsSuffice, NothingRepeated, IInv, PInv, LInv,
         [Next]_vars
  PROVE  LInv'
<1>1. CASE Forward
  BY <1>1, ForwardKeepsLInv
<1>2. ASSUME NEW s \in Subscriber, Lose(s) \/ Duplicate(s)
      PROVE  LInv'
  BY <1>2, NetworkKeepsLInv
<1>3. ASSUME NEW s \in Subscriber, ReceiveOne(s) \/ ReceiveUnlucky(s)
      PROVE  LInv'
  <2>1. PICK i \in 1 .. Len(net[s]), lucky \in BOOLEAN :
          /\ Receive(s, i, lucky)
          /\ UNCHANGED faults \/ faults' = [faults EXCEPT !.failed = @ + 1]
    BY <1>3 DEF ReceiveOne, ReceiveUnlucky
  <2>2. LinkedInv(s)'
    BY <2>1, ReceiveKeepsLInv
  <2>3. faults' \in [lost : Nat, duplicated : {0}, failed : Nat]
    BY <2>1 DEF LInv
  <2> QED  BY <2>2, <2>3 DEF OneSubscriber, LInv
<1>4. ASSUME UNCHANGED <<net, node, alive, faults>>
      PROVE  LInv'
  BY <1>4 DEF LInv, LinkedInv
<1>5. CASE HandleStreamAck
  BY <1>4, <1>5 DEF HandleStreamAck, subscriber
<1>6. ASSUME NEW s \in Subscriber, Subscribe(s)
      PROVE  LInv'
  BY <1>4, <1>6 DEF Subscribe, subscriber
<1>7. CASE UNCHANGED vars
  BY <1>4, <1>7 DEF vars
<1> QED  BY <1>1, <1>2, <1>3, <1>5, <1>6, <1>7 DEF Next

(***************************************************************************)
(* Whatever a subscriber acknowledges it has handed to the next layer: the *)
(* count of its FEC decoder never runs ahead of its reorder buffer. It is  *)
(* about the two counters kept apart in ContinuousStreamDecoder and in the *)
(* FEC decoder, which go by their own idea of the next chunk.              *)
(***************************************************************************)
THEOREM NothingIsWithheld ==
  ASSUME OneSubscriber, ColumnsSuffice, WindowSuffices, NothingRepeated
  PROVE  Spec => []AcknowledgedIsDelivered
<1>1. Init => LInv
  BY InitEstablishesLInv
<1>2. IInv /\ PInv /\ LInv /\ [Next]_vars => LInv'
  BY NextKeepsLInv
<1>3. Spec => [](IInv /\ PInv)
  BY PInvIsInvariant
<1>4. IInv /\ PInv /\ LInv => AcknowledgedIsDelivered
  <2> SUFFICES ASSUME IInv, PInv, LInv, NEW s \in Subscriber, alive[s]
               PROVE  node[s].decoder.buffer.next = AckColumn(Fec(s))
    BY DEF AcknowledgedIsDelivered
  <2>1. node[s].decoder.buffer.next = Place(Fec(s))
    BY DEF LInv, LinkedInv, Linked, Fec
  <2>2. 0 =< Fec(s).next
    BY DEF PInv, PromptInv, Prompt, Timely
  <2>3. AckColumn(Fec(s)) = Place(Fec(s))
    BY <2>2, DecoderOfSubscriber, PlaceIsSent
  <2> QED  BY <2>1, <2>3
<1> QED  BY <1>1, <1>2, <1>3, <1>4, PTL DEF Spec

=============================================================================
