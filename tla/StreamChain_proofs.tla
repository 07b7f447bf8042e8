------------------------- MODULE StreamChain_proofs -------------------------
(***************************************************************************)
(* What is proved of StreamChain, for chains of any length, every geometry *)
(* of windows and lanes, every FEC ratio, and every loss and overtaking on *)
(* every hop: each Node gets from the one before it what ChunkFifo         *)
(* promises, so that what the last one delivers is at all times a prefix   *)
(* of the source's stream.  The one condition is that the stream is no     *)
(* longer than half the period of column numbers.                          *)
(*                                                                         *)
(* What a Node may be sent (Offered) is what the Node before it has taken  *)
(* out.  The invariant says of every hop that what is in flight tells the  *)
(* truth about these chunks, and that the Node is good for them; and that  *)
(* a Node which is up has an encoder that is idle after the chunks it has  *)
(* taken out.  One handler moves both hops of a Node: it takes chunks out  *)
(* of one and sends them on the other.                                     *)
(***************************************************************************)
EXTENDS StreamChain, StreamNode_proofs

-----------------------------------------------------------------------------
(* The invariant                                                           *)

\* Half a period tells old columns from new ones, over the whole stream.
ColumnsSuffice == MaxChunks =< ColumnPeriod \div 2

InOrder(d) == \A i \in 1 .. Len(d) : d[i] = i

\* The hop to Node h, and the decoder at its end.
HopInv(h) ==
  /\ GoodNode(node[h], Offered(h))
  /\ net[h] \in Seq(SentSymbols(Offered(h)))
  /\ delivered[h] \in Seq(1 .. Offered(h))
  /\ InOrder(delivered[h])
  /\ node[h].decoder.buffer.next = Len(delivered[h])
  /\ Len(delivered[h]) =< MaxChunks

\* The encoder of Node h, and what the Node says of its place.
SenderInv(h) ==
  /\ alive[h] => GoodForwarder(node[h].encoder, Len(delivered[h]))
  /\ acks[h] \in SUBSET Column

PerNode ==
  /\ net = [h \in Node |-> net[h]]
  /\ acks = [h \in Node |-> acks[h]]
  /\ node = [h \in Node |-> node[h]]
  /\ alive \in [Node -> BOOLEAN]
  /\ delivered = [h \in Node |-> delivered[h]]

IInv == PerNode /\ \A h \in Node : HopInv(h) /\ SenderInv(h)

(***************************************************************************)
(* How many chunks a Node can get.                                         *)
(***************************************************************************)
LEMMA OfferedResult ==
  ASSUME \A h \in Node : HopInv(h)
  PROVE  \A h \in Node : /\ Offered(h) \in Nat /\ Offered(h) =< MaxChunks
                         /\ Len(delivered[h]) \in Nat
<1>1. MaxChunks \in Nat /\ Hops \in Nat
  BY StreamChainAssumption
<1>2. ASSUME NEW h \in Node
      PROVE  Len(delivered[h]) \in Nat /\ Len(delivered[h]) =< MaxChunks
  <2>1. delivered[h] \in Seq(1 .. Offered(h)) /\ Len(delivered[h]) =< MaxChunks
    BY <1>2 DEF HopInv
  <2> QED  BY <2>1, LenProperties
<1>3. ASSUME NEW h \in Node, h # 1 PROVE h - 1 \in Node
  BY <1>1, <1>3 DEF Node
<1> QED  BY <1>1, <1>2, <1>3 DEF Offered

(***************************************************************************)
(* The source takes all its symbols; the nodes start with nothing.         *)
(***************************************************************************)
LEMMA InitEstablishesIInv ==
  ASSUME ColumnsSuffice, Init
  PROVE  IInv /\ \A h \in Node : Fifo(h)!Init
<1>1. /\ net = [h \in Node |-> IF h = 1 THEN SourceSymbols ELSE <<>>]
      /\ acks = [h \in Node |-> {}]
      /\ node = [h \in Node |-> ContinuousStreamInit]
      /\ alive = [h \in Node |-> TRUE]
      /\ delivered = [h \in Node |-> <<>>]
  BY DEF Init
<1>2. MaxChunks \in Nat /\ MaxChunks < ColumnPeriod
  BY StreamChainAssumption, ColumnPeriodAssumption DEF ColumnsSuffice
<1>3. SourceSymbols \in Seq(SentSymbols(MaxChunks))
  <2>1. [i \in 1 .. MaxChunks |-> i] = ChunksAfter(0, MaxChunks)
    <3>1. MaxChunks - 0 = MaxChunks /\ \A i \in 1 .. MaxChunks : 0 + i = i
      BY <1>2
    <3> QED  BY <3>1 DEF ChunksAfter
  <2>2. EncodeChunks(StreamEncoderInit, ChunksAfter(0, MaxChunks)).symbols
          \in Seq(SentSymbols(MaxChunks))
    BY <1>2, InitialSegment, EncodeChunksResult
  <2> QED  BY <2>1, <2>2 DEF SourceSymbols
<1>4. PerNode
  BY <1>1 DEF PerNode
<1>5. ASSUME NEW h \in Node
      PROVE  HopInv(h) /\ SenderInv(h) /\ Fifo(h)!Init
  <2>1. /\ node[h] = ContinuousStreamInit /\ delivered[h] = <<>>
        /\ acks[h] = {}
    BY <1>1
  <2>2. Len(<<>>) = 0
    OBVIOUS
  <2>3. Offered(h) = IF h = 1 THEN MaxChunks ELSE 0
    <3>1. CASE h = 1
      BY <3>1 DEF Offered
    <3>2. CASE h # 1
      <4>1. h - 1 \in Node
        BY <3>2, StreamChainAssumption DEF Node
      <4>2. delivered[h - 1] = <<>>
        BY <1>1, <4>1
      <4> QED  BY <2>2, <3>2, <4>2 DEF Offered
    <3> QED  BY <3>1, <3>2
  <2>4. Offered(h) \in Nat
    BY <1>2, <2>3
  <2>5. net[h] \in Seq(SentSymbols(Offered(h)))
    <3>1. CASE h = 1
      BY <1>1, <1>3, <2>3, <3>1
    <3>2. CASE h # 1
      <4>1. net[h] = <<>>
        BY <1>1, <3>2
      <4> QED  BY <4>1, EmptySeq
    <3> QED  BY <3>1, <3>2
  <2>6. GoodNode(node[h], Offered(h)) /\ node[h].decoder.buffer.next = 0
    BY <2>1, <2>4, InitialNode
  <2>7. <<>> \in Seq(1 .. Offered(h))
    BY EmptySeq
  <2>8. HopInv(h)
    BY <1>2, <2>1, <2>2, <2>5, <2>6, <2>7 DEF HopInv, InOrder
  <2>9. SenderInv(h)
    <3>1. node[h].encoder = StreamEncoderInit
      BY <2>1 DEF ContinuousStreamInit
    <3>2. GoodForwarder(node[h].encoder, Len(delivered[h]))
      BY <2>1, <2>2, <3>1, InitialSegment
    <3> QED  BY <2>1, <3>2 DEF SenderInv
  <2>10. Fifo(h)!Init
    BY <2>1, <2>4 DEF Fifo!Init
  <2> QED  BY <2>8, <2>9, <2>10
<1> QED  BY <1>4, <1>5 DEF IInv

\* A step as every Node sees it.
FifoStep == \A h \in Node : [Fifo(h)!Next]_<<Offered(h), delivered[h]>>

(***************************************************************************)
(* A step in which nothing is taken out is none of the FIFOs'.             *)
(***************************************************************************)
LEMMA NothingDelivered ==
  ASSUME UNCHANGED delivered
  PROVE  FifoStep /\ \A h \in Node : Offered(h)' = Offered(h)
<1>1. \A h \in Node : Offered(h)' = Offered(h) /\ delivered'[h] = delivered[h]
  BY DEF Offered
<1> QED  BY <1>1 DEF FifoStep

(***************************************************************************)
(* The network may lose packets.                                           *)
(***************************************************************************)
LEMMA LoseKeepsIInv ==
  ASSUME IInv, NEW h \in Node, Lose(h)
  PROVE  IInv' /\ FifoStep
<1>1. PerNode /\ \A k \in Node : HopInv(k) /\ SenderInv(k)
  BY DEF IInv
<1>2. /\ UNCHANGED <<acks, node, alive, delivered>>
      /\ net' = [net EXCEPT ![h] = Tail(net[h])]
      /\ net[h] # <<>>
  BY DEF Lose
<1>3. FifoStep /\ \A k \in Node : Offered(k)' = Offered(k)
  BY <1>2, NothingDelivered
<1>4. /\ net' = [k \in Node |-> net'[k]]
      /\ net'[h] = Tail(net[h])
      /\ \A k \in Node \ {h} : net'[k] = net[k]
  BY <1>1, <1>2 DEF PerNode
<1>5. PerNode'
  BY <1>1, <1>2, <1>4 DEF PerNode
<1>6. ASSUME NEW k \in Node PROVE HopInv(k)'
  <2>1. net[k] \in Seq(SentSymbols(Offered(k)))
    BY <1>1 DEF HopInv
  <2>2. net'[k] \in Seq(SentSymbols(Offered(k)))
    <3>1. CASE k = h
      <4>1. Tail(net[k]) \in Seq(SentSymbols(Offered(k)))
        BY <1>2, <2>1, <3>1, InFlightResult
      <4> QED  BY <1>4, <3>1, <4>1
    <3>2. CASE k # h
      BY <1>4, <2>1, <3>2
    <3> QED  BY <3>1, <3>2
  <2> QED  BY <1>1, <1>2, <1>3, <2>2 DEF HopInv
<1>7. ASSUME NEW k \in Node PROVE SenderInv(k)'
  BY <1>1, <1>2 DEF SenderInv
<1> QED  BY <1>3, <1>5, <1>6, <1>7 DEF IInv

(***************************************************************************)
(* A Node hears of the Node after it.                                      *)
(***************************************************************************)
LEMMA AckKeepsIInv ==
  ASSUME IInv, NEW h \in Node, HandleStreamAck(h)
  PROVE  IInv' /\ FifoStep
<1>1. PerNode /\ \A k \in Node : HopInv(k) /\ SenderInv(k)
  BY DEF IInv
<1>2. /\ UNCHANGED <<net, acks, alive, delivered>>
      /\ h < Hops /\ alive[h]
  BY DEF HandleStreamAck
<1>3. h + 1 \in Node
  BY <1>2, StreamChainAssumption DEF Node
<1>4. PICK expected \in acks[h + 1] :
        node' = [node EXCEPT ![h].encoder = ProcessAck(@, expected)]
  BY DEF HandleStreamAck
<1> DEFINE m == node[h]
           e == ProcessAck(m.encoder, expected)
           n == [m EXCEPT !.encoder = e]
<1>5. expected \in Column
  BY <1>1, <1>3, <1>4 DEF SenderInv
<1>6. GoodForwarder(e, Len(delivered[h]))
  <2>1. GoodForwarder(m.encoder, Len(delivered[h]))
    BY <1>1, <1>2 DEF SenderInv
  <2> QED  BY <1>5, <2>1, ProcessAckResult
<1>7. FifoStep /\ \A k \in Node : Offered(k)' = Offered(k)
  BY <1>2, NothingDelivered
<1>8. node' = [node EXCEPT ![h] = n]
  BY <1>4
<1>9. GoodNode(m, Offered(h)) /\ m.decoder.buffer.next = Len(delivered[h])
  BY <1>1 DEF HopInv
<1> HIDE DEF e
<1>10. n.decoder = m.decoder /\ n.encoder = e
       /\ n = [decoder |-> n.decoder, encoder |-> n.encoder]
  <2> HIDE DEF m
  <2>1. m = [decoder |-> m.decoder, encoder |-> m.encoder]
    BY <1>9 DEF GoodNode
  <2> QED  BY <2>1
<1> HIDE DEF n
<1>11. GoodNode(n, Offered(h))
  <2>1. e \in GoodSegments
    BY <1>6 DEF GoodForwarder
  <2> QED  BY <1>9, <1>10, <2>1 DEF GoodNode
<1>12. /\ node' = [k \in Node |-> node'[k]] /\ node'[h] = n
       /\ \A k \in Node \ {h} : node'[k] = node[k]
  BY <1>1, <1>8 DEF PerNode
<1>13. PerNode'
  BY <1>1, <1>2, <1>12 DEF PerNode
<1>14. ASSUME NEW k \in Node PROVE HopInv(k)'
  <2>1. GoodNode(node'[k], Offered(k))
        /\ node'[k].decoder.buffer.next = Len(delivered[k])
    <3>1. CASE k = h
      BY <1>9, <1>10, <1>11, <1>12, <3>1
    <3>2. CASE k # h
      BY <1>1, <1>12, <3>2 DEF HopInv
    <3> QED  BY <3>1, <3>2
  <2> QED  BY <1>1, <1>2, <1>7, <2>1 DEF HopInv
<1>15. ASSUME NEW k \in Node PROVE SenderInv(k)'
  <2>1. CASE k = h
    BY <1>1, <1>2, <1>6, <1>10, <1>12, <2>1 DEF SenderInv
  <2>2. CASE k # h
    BY <1>1, <1>2, <1>12, <2>2 DEF SenderInv
  <2> QED  BY <2>1, <2>2
<1> QED  BY <1>7, <1>13, <1>14, <1>15 DEF IInv

(***************************************************************************)
(* What a handler does to its Node and to the hop from it: for Node h, in  *)
(* the state before, of the packet y.                                      *)
(***************************************************************************)
HandledWell(h, handled) ==
  LET done == delivered[h]
      all == done \o handled.chunks
  IN  /\ handled.threw \in BOOLEAN
      /\ handled.acks \in SUBSET Column
      /\ GoodNode(handled.node, Offered(h))
      /\ all \in Seq(1 .. Offered(h)) /\ InOrder(all)
      /\ Len(all) \in Len(done) .. Offered(h)
      /\ handled.chunks = ChunksAfter(Len(done), Len(all))
      /\ handled.node.decoder.buffer.next = Len(all)
      /\ handled.symbols \in Seq(SentSymbols(Len(all)))
      /\ ~handled.threw => GoodForwarder(handled.node.encoder, Len(all))

(***************************************************************************)
(* The handler of a Node that is up does all that.                         *)
(***************************************************************************)
LEMMA PacketIsHandledWell ==
  ASSUME ColumnsSuffice, IInv, NEW h \in Node, alive[h],
         NEW i \in 1 .. Len(net[h])
  PROVE  HandledWell(h, HandleStream(node[h], net[h][i], TRUE))
<1> DEFINE m == node[h]
           y == net[h][i]
           handled == HandleStream(m, y, TRUE)
           done == delivered[h]
           K == Offered(h)
           next == Len(done)
           all == done \o handled.chunks
<1>1. \A k \in Node : HopInv(k) /\ SenderInv(k)
  BY DEF IInv
<1>2. K \in Nat /\ K =< ColumnPeriod \div 2 /\ next \in Nat
  BY <1>1, OfferedResult, StreamChainAssumption, ColumnPeriodAssumption
     DEF ColumnsSuffice
<1>3. /\ GoodNode(m, K) /\ net[h] \in Seq(SentSymbols(K))
      /\ done \in Seq(1 .. K) /\ InOrder(done)
      /\ m.decoder.buffer.next = next
      /\ GoodForwarder(m.encoder, next)
  BY <1>1 DEF HopInv, SenderInv
<1>4. GoodSymbol(y, K)
  <2>1. y \in SentSymbols(K)
    BY <1>3, InFlightResult
  <2> QED  BY <2>1 DEF SentSymbols
<1> HIDE DEF m, y, K
<1>5. /\ handled.threw \in BOOLEAN /\ handled.acks \in SUBSET Column
      /\ GoodNode(handled.node, K)
      /\ Delivers(handled, m.decoder.buffer.next, K)
  BY <1>2, <1>3, <1>4, HandleStreamResult
<1> DEFINE N == handled.node.decoder.buffer.next
<1>6. /\ handled.symbols \in Seq(SentSymbols(N))
      /\ ~handled.threw => GoodForwarder(handled.node.encoder, N)
  <2>1. GoodForwarder(m.encoder, m.decoder.buffer.next)
    BY <1>3
  <2> QED  BY <1>2, <1>3, <1>4, <2>1, HandleStreamForwards
<1> HIDE DEF handled, N, done
<1>7. PICK n \in Nat :
        /\ next + n =< K
        /\ handled.chunks = [j \in 1 .. n |-> next + j]
        /\ N = next + n
  <2>1. Delivers(handled, next, K)
    BY <1>3, <1>5
  <2> HIDE DEF next
  <2> QED  BY <2>1 DEF Delivers, N
<1>8. /\ all \in Seq(1 .. K) /\ Len(all) = next + n /\ InOrder(all)
  <2>1. /\ done \in Seq(1 .. K) /\ (\A k \in 1 .. Len(done) : done[k] = k)
        /\ n \in Nat /\ Len(done) + n =< K
    BY <1>3, <1>7 DEF InOrder
  <2>2. LET whole == done \o [j \in 1 .. n |-> Len(done) + j]
        IN  /\ whole \in Seq(1 .. K)
            /\ Len(whole) = Len(done) + n
            /\ \A k \in 1 .. Len(whole) : whole[k] = k
    BY <1>2, <2>1, NextChunksAppended
  <2> QED  BY <1>7, <2>2 DEF InOrder
<1> HIDE DEF all
<1>9. Len(all) = N /\ Len(all) \in next .. K /\ Len(all) - next = n
  <2> HIDE DEF next
  <2> QED  BY <1>2, <1>7, <1>8
<1>10. handled.chunks = ChunksAfter(next, Len(all))
  BY <1>7, <1>9 DEF ChunksAfter
<1> QED  BY <1>5, <1>6, <1>8, <1>9, <1>10
      DEF HandledWell, all, handled, done, m, y, K, N

(***************************************************************************)
(* A packet is handled.                                                    *)
(***************************************************************************)
LEMMA ReceiveKeepsIInv ==
  ASSUME ColumnsSuffice, IInv, NEW h \in Node, Receive(h)
  PROVE  IInv' /\ FifoStep
<1>1. PerNode /\ \A k \in Node : HopInv(k) /\ SenderInv(k)
  BY DEF IInv
<1>2. PICK i \in 1 .. Len(net[h]) : HandlePacket(h, i)
  BY DEF Receive
<1> DEFINE handled == HandleStream(node[h], net[h][i], TRUE)
           all == delivered[h] \o handled.chunks
           K == Offered(h)
           L == Len(all)
           done == Len(delivered[h])
           InFlight(k) == CASE k = h     -> RemoveAt(net[h], i)
                            [] k = h + 1 -> net[k] \o handled.symbols
                            [] OTHER     -> net[k]
<1>3. /\ alive' = [alive EXCEPT ![h] = ~handled.threw]
      /\ node' = [node EXCEPT ![h] = handled.node]
      /\ delivered' = [delivered EXCEPT ![h] = all]
      /\ acks' = [acks EXCEPT ![h] = acks[h] \cup handled.acks]
      /\ net' = [k \in Node |-> InFlight(k)]
  BY <1>2 DEF HandlePacket
<1>4. HandledWell(h, handled)
  BY PacketIsHandledWell DEF Receive
<1>5. /\ handled.threw \in BOOLEAN /\ handled.acks \in SUBSET Column
      /\ GoodNode(handled.node, K)
      /\ all \in Seq(1 .. K) /\ InOrder(all) /\ L \in done .. K
      /\ handled.chunks = ChunksAfter(done, L)
      /\ handled.node.decoder.buffer.next = L
      /\ handled.symbols \in Seq(SentSymbols(L))
      /\ ~handled.threw => GoodForwarder(handled.node.encoder, L)
  BY <1>4 DEF HandledWell
<1>6. \A k \in Node : /\ Offered(k) \in Nat /\ Offered(k) =< MaxChunks
                      /\ Len(delivered[k]) \in Nat
  BY <1>1, OfferedResult
<1>7. h \in Nat /\ Node \subseteq Nat /\ MaxChunks \in Nat
  BY StreamChainAssumption DEF Node
<1> HIDE DEF handled, all
<1>8. /\ node'[h] = handled.node /\ delivered'[h] = all
      /\ alive'[h] = ~handled.threw /\ acks'[h] = acks[h] \cup handled.acks
      /\ \A k \in Node \ {h} :
           /\ node'[k] = node[k] /\ delivered'[k] = delivered[k]
           /\ alive'[k] = alive[k] /\ acks'[k] = acks[k]
  BY <1>1, <1>3 DEF PerNode
<1>9. /\ InFlight(h) = RemoveAt(net[h], i)
       /\ \A k \in Node :
            /\ k = h + 1 => InFlight(k) = net[k] \o handled.symbols
            /\ k # h /\ k # h + 1 => InFlight(k) = net[k]
  <2>1. InFlight(h) = RemoveAt(net[h], i)
    <3>1. h # h + 1
      BY <1>7
    <3> QED  BY <3>1
  <2>2. ASSUME NEW k \in Node, k = h + 1
        PROVE  InFlight(k) = net[k] \o handled.symbols
    <3>1. k # h
      BY <1>7, <2>2
    <3> QED  BY <2>2, <3>1
  <2>3. ASSUME NEW k \in Node, k # h, k # h + 1
        PROVE  InFlight(k) = net[k]
    BY <2>3
  <2> HIDE DEF InFlight
  <2> QED  BY <2>1, <2>2, <2>3
<1> HIDE DEF InFlight
<1>10. /\ net' = [k \in Node |-> net'[k]]
       /\ \A k \in Node : net'[k] = InFlight(k)
  BY <1>3
<1>11. PerNode'
  <2>1. (~handled.threw) \in BOOLEAN
    BY <1>5
  <2>2. alive' \in [Node -> BOOLEAN]
    BY <1>1, <1>3, <2>1 DEF PerNode
  <2>3. /\ acks' = [k \in Node |-> acks'[k]]
        /\ node' = [k \in Node |-> node'[k]]
        /\ delivered' = [k \in Node |-> delivered'[k]]
    BY <1>1, <1>3 DEF PerNode
  <2> QED  BY <1>10, <2>2, <2>3 DEF PerNode
<1>12. \A k \in Node : Offered(k)' = IF k = h + 1 THEN L ELSE Offered(k)
  <2> SUFFICES ASSUME NEW k \in Node
               PROVE  Offered(k)' = IF k = h + 1 THEN L ELSE Offered(k)
    OBVIOUS
  <2>1. k \in Nat /\ h \in Nat /\ h # 0
    BY <1>7, StreamChainAssumption DEF Node
  <2>2. CASE k = 1
    BY <2>1, <2>2 DEF Offered
  <2>3. CASE k # 1
    <3>1. k - 1 \in Node /\ (k - 1 = h <=> k = h + 1)
      BY <2>1, <2>3, StreamChainAssumption DEF Node
    <3>2. Offered(k) = Len(delivered[k - 1])
          /\ Offered(k)' = Len(delivered'[k - 1])
      BY <2>3 DEF Offered
    <3> QED  BY <1>8, <3>1, <3>2
  <2> QED  BY <2>2, <2>3
<1>13. ASSUME NEW k \in Node, k = h + 1
       PROVE  Offered(k) = done /\ Offered(k) =< L /\ k # h
  <2>1. k # 1 /\ k - 1 = h /\ k # h
    BY <1>7, <1>13, StreamChainAssumption DEF Node
  <2>2. Offered(k) = done
    BY <2>1 DEF Offered
  <2> QED  BY <1>5, <1>6, <2>1, <2>2
<1>14. ASSUME NEW k \in Node PROVE HopInv(k)'
  <2>1. HopInv(k)
    BY <1>1
  <2>2. CASE k = h
    <3>1. Offered(k)' = K
      BY <1>7, <1>12, <2>2
    <3>2. net'[k] \in Seq(SentSymbols(K))
      <4>1. net[h] \in Seq(SentSymbols(K))
        BY <1>1 DEF HopInv
      <4>2. RemoveAt(net[h], i) \in Seq(SentSymbols(K))
        BY <4>1, InFlightResult
      <4> QED  BY <1>9, <1>10, <2>2, <4>2
    <3>3. L =< MaxChunks
      <4>1. K \in Nat /\ K =< MaxChunks /\ done \in Nat /\ L \in done .. K
        BY <1>5, <1>6
      <4> HIDE DEF K, L, done
      <4> QED  BY <1>7, <4>1
    <3> QED  BY <1>5, <1>8, <2>2, <3>1, <3>2, <3>3 DEF HopInv
  <2>3. CASE k = h + 1
    <3>1. /\ Offered(k)' = L /\ Offered(k) =< L /\ k # h
          /\ Offered(k) \in Nat /\ L \in Nat
      BY <1>5, <1>6, <1>12, <1>13, <2>3
    <3>2. node'[k] = node[k] /\ delivered'[k] = delivered[k]
      BY <1>8, <3>1
    <3>3. GoodNode(node[k], L)
      BY <2>1, <3>1, MoreSentToNode DEF HopInv
    <3>4. net'[k] \in Seq(SentSymbols(L))
      <4>1. net'[k] = net[k] \o handled.symbols
        BY <1>9, <1>10, <2>3, <3>1
      <4>2. net[k] \in Seq(SentSymbols(L))
        BY <2>1, <3>1, MoreSentSymbols DEF HopInv
      <4> QED  BY <1>5, <4>1, <4>2, ConcatProperties
    <3>5. delivered[k] \in Seq(1 .. L)
      <4>1. 1 .. Offered(k) \subseteq 1 .. L
        BY <3>1
      <4>2. delivered[k] \in Seq(1 .. Offered(k))
        BY <2>1 DEF HopInv
      <4> QED  BY <4>1, <4>2, SeqMonotonic
    <3> QED  BY <2>1, <3>1, <3>2, <3>3, <3>4, <3>5 DEF HopInv
  <2>4. CASE k # h /\ k # h + 1
    <3>1. Offered(k)' = Offered(k)
      BY <1>12, <2>4
    <3>2. net'[k] = net[k]
      BY <1>9, <1>10, <2>4
    <3> QED  BY <1>8, <2>1, <2>4, <3>1, <3>2 DEF HopInv
  <2> QED  BY <2>2, <2>3, <2>4
<1>15. ASSUME NEW k \in Node PROVE SenderInv(k)'
  <2>1. CASE k = h
    <3>1. acks'[k] \in SUBSET Column
      BY <1>1, <1>5, <1>8, <2>1 DEF SenderInv
    <3> QED  BY <1>5, <1>8, <2>1, <3>1 DEF SenderInv
  <2>2. CASE k # h
    BY <1>1, <1>8, <2>2 DEF SenderInv
  <2> QED  BY <2>1, <2>2
<1>16. Fifo(h)!Deliver
  <2>1. L \in done .. K /\ Offered(h)' = Offered(h)
    BY <1>5, <1>7, <1>12
  <2>2. delivered'[h] = delivered[h] \o [j \in 1 .. L - done |-> done + j]
    BY <1>5, <1>8 DEF ChunksAfter, all
  <2> HIDE DEF L
  <2> QED  BY <2>1, <2>2 DEF Fifo!Deliver
<1>17. FifoStep
  <2> SUFFICES ASSUME NEW k \in Node
               PROVE  [Fifo(k)!Next]_<<Offered(k), delivered[k]>>
    BY DEF FifoStep
  <2>1. CASE k = h
    BY <1>16, <2>1 DEF Fifo!Next
  <2>2. CASE k = h + 1
    <3>1. Offered(k)' >= Offered(k) /\ delivered'[k] = delivered[k]
      BY <1>5, <1>6, <1>8, <1>12, <1>13, <2>2
    <3> QED  BY <3>1 DEF Fifo!Next, Fifo!Send
  <2>3. CASE k # h /\ k # h + 1
    BY <1>8, <1>12, <2>3
  <2> QED  BY <2>1, <2>2, <2>3
<1> QED  BY <1>11, <1>14, <1>15, <1>17 DEF IInv

(***************************************************************************)
(* Every step keeps the invariant, and to every Node it is one of          *)
(* ChunkFifo's.                                                            *)
(***************************************************************************)
LEMMA NextKeepsIInv ==
  ASSUME ColumnsSuffice, IInv, [Next]_vars
  PROVE  IInv' /\ FifoStep
<1>1. ASSUME NEW h \in Node, Receive(h) PROVE IInv' /\ FifoStep
  BY <1>1, ReceiveKeepsIInv
<1>2. ASSUME NEW h \in Node, HandleStreamAck(h) PROVE IInv' /\ FifoStep
  BY <1>2, AckKeepsIInv
<1>3. ASSUME NEW h \in Node, Lose(h) PROVE IInv' /\ FifoStep
  BY <1>3, LoseKeepsIInv
<1>4. CASE UNCHANGED vars
  <2>1. UNCHANGED <<net, acks, node, alive, delivered>>
    BY <1>4 DEF vars
  <2>2. FifoStep /\ \A k \in Node : Offered(k)' = Offered(k)
    BY <2>1, NothingDelivered
  <2>3. IInv'
    BY <2>1, <2>2 DEF IInv, PerNode, HopInv, SenderInv
  <2> QED  BY <2>2, <2>3
<1> QED  BY <1>1, <1>2, <1>3, <1>4 DEF Next

-----------------------------------------------------------------------------
(* The theorem                                                             *)

(***************************************************************************)
(* Every hop of a chain is a ChunkFifo, from the chunks that the Node      *)
(* before has taken out: whatever is lost and overtaken on the hops, each  *)
(* Node delivers the source's chunks in order, each once and with no gap.  *)
(***************************************************************************)
THEOREM HopsAreFifos ==
  ASSUME ColumnsSuffice
  PROVE  Spec => ImplementsFifo
<1>1. Init => IInv /\ \A h \in Node : Fifo(h)!Init
  BY InitEstablishesIInv
<1>2. IInv /\ [Next]_vars =>
        IInv' /\ \A h \in Node : [Fifo(h)!Next]_<<Offered(h), delivered[h]>>
  BY NextKeepsIInv DEF FifoStep
<1> QED  BY <1>1, <1>2, PTL DEF Spec, ImplementsFifo

=============================================================================
