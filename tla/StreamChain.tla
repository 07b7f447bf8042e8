----------------------------- MODULE StreamChain ----------------------------
(***************************************************************************)
(* A stream on its way through a chain of Nodes: the source of main.cpp    *)
(* sends to Node 1, Node h has subscribed to Node h - 1.  Every Node runs  *)
(* the whole of handle_packet: what it decodes it encodes anew, and what   *)
(* it has to acknowledge it sends back to where the packets come from.     *)
(*                                                                         *)
(* The source queues all its chunks and takes all symbols before its event *)
(* loop runs, and never listens: no acknowledgement of Node 1 reaches it.  *)
(* Its symbols wait in a priority queue that sorts them by their bytes, so *)
(* that on the first hop more of them overtake each other than later on.   *)
(***************************************************************************)
EXTENDS StreamNode

CONSTANTS Hops,          \* nodes of the chain
          MaxChunks,     \* chunks of the stream
          MaxLosses,     \* bound: packets lost on all hops together
          ReorderDepth   \* per hop: how many others a packet may overtake

ASSUME StreamChainAssumption ==
  /\ Hops \in Nat \ {0}
  /\ MaxChunks \in 0 .. MaxPackets - 1
  /\ MaxLosses \in Nat
  /\ ReorderDepth \in [1 .. Hops -> Nat]

Node == 1 .. Hops

VARIABLES
  net,         \* per node: packets to it, queued and in flight
  acks,        \* per node: acknowledgements it has sent
  node,        \* per node: its ContinuousStream for the channel
  alive,       \* per node: FALSE once a handler of it threw
  delivered,   \* per node: chunks taken out of its decoder
  arrived,     \* per node: packets to it that are in flight no more (history)
  lost         \* per node: those of them that were lost (history)

vars == <<net, acks, node, alive, delivered, arrived, lost>>

\* The loops of main.cpp: queue_chunk for every chunk, then every symbol.
SourceSymbols ==
  EncodeChunks(StreamEncoderInit, [i \in 1 .. MaxChunks |-> i]).symbols

Init ==
  /\ net = [h \in Node |-> IF h = 1 THEN SourceSymbols ELSE <<>>]
  /\ acks = [h \in Node |-> {}]
  /\ node = [h \in Node |-> ContinuousStreamInit]
  /\ alive = [h \in Node |-> TRUE]
  /\ delivered = [h \in Node |-> <<>>]
  /\ arrived = [h \in Node |-> 0]
  /\ lost = [h \in Node |-> 0]

\* handle_packet, case STREAM, of the i-th packet in flight
HandlePacket(h, i) ==
  \E handled \in {HandleStream(node[h], net[h][i], TRUE)} :
    /\ alive' = [alive EXCEPT ![h] = ~handled.threw]
    /\ node' = [node EXCEPT ![h] = handled.node]
    /\ delivered' = [delivered EXCEPT ![h] = @ \o handled.chunks]
    /\ acks' = [acks EXCEPT ![h] = @ \cup handled.acks]
    /\ net' = [k \in Node |->
                 CASE k = h     -> RemoveAt(net[h], i)
                   [] k = h + 1 -> net[k] \o handled.symbols
                   [] OTHER     -> net[k]]

Receive(h) ==
  /\ alive[h]
  /\ \E i \in 1 .. Len(net[h]) : i =< ReorderDepth[h] + 1 /\ HandlePacket(h, i)
  /\ arrived' = [arrived EXCEPT ![h] = @ + 1]
  /\ UNCHANGED lost

\* handle_packet, case STREAM_ACK: Node h hears of the Node after it.
HandleStreamAck(h) ==
  /\ h < Hops
  /\ alive[h]
  /\ \E expected \in acks[h + 1] :
       node' = [node EXCEPT ![h].encoder = ProcessAck(@, expected)]
  /\ UNCHANGED <<net, acks, alive, delivered, arrived, lost>>

\* By the network, or by the Node: every LOSE_EVERY-th packet.
Lose(h) ==
  /\ net[h] # <<>>
  /\ FoldFunction(+, 0, lost) < MaxLosses
  /\ net' = [net EXCEPT ![h] = Tail(@)]
  /\ arrived' = [arrived EXCEPT ![h] = @ + 1]
  /\ lost' = [lost EXCEPT ![h] = @ + 1]
  /\ UNCHANGED <<acks, node, alive, delivered>>

Next == \E h \in Node : Receive(h) \/ HandleStreamAck(h) \/ Lose(h)

Spec == Init /\ [][Next]_vars

(***************************************************************************)
(* A packet that is queued to a Node leaves the queue in the end: it is    *)
(* lost or it is handled.  AsioReceiver's timer empties the queue and the  *)
(* Node is an event loop over its socket.                                  *)
(***************************************************************************)
Arrive(h) ==
  alive[h] /\ net[h] # <<>> /\ arrived' = [arrived EXCEPT ![h] = @ + 1]

FairSpec == Spec /\ \A h \in Node : WF_arrived(Arrive(h))

-----------------------------------------------------------------------------

\* The chunks that Node h can get: those of the source, or of the Node before.
Offered(h) == IF h = 1 THEN MaxChunks ELSE Len(delivered[h - 1])

Fifo(h) == INSTANCE ChunkFifo WITH sent <- Offered(h), delivered <- delivered[h]

(***************************************************************************)
(* Every Node gets from the one before it what ChunkFifo promises, so that *)
(* the last gets the source's stream: decoding, putting in order, encoding *)
(* anew and the losses of several hops never change, skip or repeat a      *)
(* chunk.                                                                  *)
(***************************************************************************)
ImplementsFifo ==
  /\ \A h \in Node : Fifo(h)!Init
  /\ [][\A h \in Node : [Fifo(h)!Next]_<<Offered(h), delivered[h]>>]_vars

\* The recovery packets that follow chunk k in a stream of n chunks.
FecFollowing(k, n) == (n * FecNumerator) \div FecDenominator
                        - ((k - 1) * FecNumerator) \div FecDenominator

LastRepairable(n, losses) ==
  Max({0} \cup {k \in 1 .. n : FecFollowing(k, n) >= losses})

(***************************************************************************)
(* Losses are repaired by the redundancy alone, with no retransmission, on *)
(* every hop by itself: what a Node gives on lacks at most the chunks that *)
(* fewer recovery packets follow than packets of this hop were lost.       *)
(***************************************************************************)
RedundancySuffices ==
  <>[](\A h \in Node :
         Len(delivered[h]) >= LastRepairable(Offered(h), lost[h]))

=============================================================================
