---------------------------- MODULE StreamFanOut ----------------------------
(***************************************************************************)
(* A Node that forwards a channel to its subscribers.  It encodes the      *)
(* chunks of the stream once, with one ContinuousStreamEncoder, and queues *)
(* every symbol to every subscriber; each subscriber is a Node of its own, *)
(* and all of them acknowledge to the one encoder.                         *)
(*                                                                         *)
(* A packet to a subscriber may be lost: by the network, or by the         *)
(* subscriber, which drops every LOSE_EVERY-th packet.  It may overtake up *)
(* to ReorderDepth others: the priority queue it waits in sorts packets by *)
(* their bytes, and UDP promises no order.  It may arrive twice.  So may   *)
(* an acknowledgement, and in any order: those sent remain in "acks".      *)
(*                                                                         *)
(* The chunks come to the forwarding Node in order and without loss, which *)
(* is what its own decoder promises (StreamDecoder).                       *)
(***************************************************************************)
EXTENDS StreamNode

CONSTANTS Subscriber,        \* nodes that subscribe to the channel
          EarlySubscriber,   \* those that do before the first chunk
          MaxChunks,         \* bound: chunks of the stream
          MaxInFlight,       \* bound: packets to a subscriber in flight
          MaxLosses,         \* bound: packets lost
          MaxDuplicates,     \* bound: packets duplicated
          ReorderDepth,      \* how many others a packet may overtake
          MaxDecodeFailures  \* bound: eliminations that fail by bad luck

ASSUME StreamFanOutAssumption ==
  /\ EarlySubscriber \subseteq Subscriber
  /\ {MaxChunks, MaxInFlight, MaxLosses, MaxDuplicates, ReorderDepth,
      MaxDecodeFailures} \subseteq Nat

VARIABLES
  subscribed,   \* m_subscriptions of the forwarding node
  encoder,      \* its m_encoder for the channel
  up,           \* FALSE once a handler of it threw
  net,          \* per subscriber: packets queued and in flight
  acks,         \* acknowledgements sent
  node,         \* per subscriber: its ContinuousStream for the channel
  alive,        \* per subscriber: FALSE once a handler of it threw
  delivered,    \* per subscriber: chunks taken out of its decoder
  faults        \* losses, duplicates and failures so far

vars == <<subscribed, encoder, up, net, acks, node, alive, delivered, faults>>

forwarder  == <<subscribed, encoder, up>>
subscriber == <<node, alive, delivered>>

Sent == encoder.encoder.added

Init ==
  /\ subscribed = EarlySubscriber
  /\ encoder = StreamEncoderInit
  /\ up = TRUE
  /\ net = [s \in Subscriber |-> <<>>]
  /\ acks = {}
  /\ node = [s \in Subscriber |-> ContinuousStreamInit]
  /\ alive = [s \in Subscriber |-> TRUE]
  /\ delivered = [s \in Subscriber |-> <<>>]
  /\ faults = [lost |-> 0, duplicated |-> 0, failed |-> 0]

-----------------------------------------------------------------------------
(* The forwarding node                                                     *)

\* handle_packet, case CONTROL, of a new subscriber
Subscribe(s) ==
  /\ up
  /\ s \notin subscribed
  /\ subscribed' = subscribed \cup {s}
  /\ UNCHANGED <<encoder, up, net, acks, subscriber, faults>>

\* handle_packet, case STREAM, from the chunk that its decoder gives on
Forward ==
  /\ up
  /\ Sent < MaxChunks
  /\ \A s \in subscribed : Len(net[s]) < MaxInFlight
  /\ \E encoded \in {EncodeChunks(encoder, <<Sent + 1>>)} :
       IF encoded.threw
       THEN up' = FALSE /\ UNCHANGED <<encoder, net>>
       ELSE /\ encoder' = encoded.stream
            /\ net' = [s \in Subscriber |->
                         IF s \in subscribed THEN net[s] \o encoded.symbols
                                             ELSE net[s]]
            /\ UNCHANGED up
  /\ UNCHANGED <<subscribed, acks, subscriber, faults>>

\* handle_packet, case STREAM_ACK
HandleStreamAck ==
  /\ up
  /\ \E expected \in acks : encoder' = ProcessAck(encoder, expected)
  /\ UNCHANGED <<subscribed, up, net, acks, subscriber, faults>>

-----------------------------------------------------------------------------
(* The network                                                             *)

Lose(s) ==
  /\ net[s] # <<>>
  /\ faults.lost < MaxLosses
  /\ net' = [net EXCEPT ![s] = Tail(@)]
  /\ faults' = [faults EXCEPT !.lost = @ + 1]
  /\ UNCHANGED <<forwarder, acks, subscriber>>

Duplicate(s) ==
  /\ net[s] # <<>>
  /\ faults.duplicated < MaxDuplicates
  /\ net' = [net EXCEPT ![s] = <<Head(@)>> \o @]
  /\ faults' = [faults EXCEPT !.duplicated = @ + 1]
  /\ UNCHANGED <<forwarder, acks, subscriber>>

-----------------------------------------------------------------------------
(* A subscriber                                                            *)

\* handle_packet, case STREAM, of the i-th packet in flight
Receive(s, i, lucky) ==
  /\ alive[s]
  /\ net' = [net EXCEPT ![s] = RemoveAt(@, i)]
  /\ \E handled \in {HandleStream(node[s], net[s][i], lucky)} :
       /\ alive' = [alive EXCEPT ![s] = ~handled.threw]
       /\ node' = [node EXCEPT ![s] = handled.node]
       /\ delivered' = [delivered EXCEPT ![s] = @ \o handled.chunks]
       /\ acks' = acks \cup handled.acks
  /\ UNCHANGED forwarder

ReceiveOne(s) ==
  \E i \in 1 .. Len(net[s]) :
    i =< ReorderDepth + 1 /\ Receive(s, i, TRUE) /\ UNCHANGED faults

ReceiveUnlucky(s) ==
  /\ faults.failed < MaxDecodeFailures
  /\ faults' = [faults EXCEPT !.failed = @ + 1]
  /\ \E i \in 1 .. Len(net[s]) : i =< ReorderDepth + 1 /\ Receive(s, i, FALSE)

Next ==
  \/ Forward
  \/ HandleStreamAck
  \/ \E s \in Subscriber : Subscribe(s) \/ Lose(s) \/ Duplicate(s)
                             \/ ReceiveOne(s) \/ ReceiveUnlucky(s)

Spec == Init /\ [][Next]_vars

-----------------------------------------------------------------------------

RecoveryPackets ==
  [columnStart : Column, sumCount : 1 .. MaxPackets, row : Nat, first : Nat]

Symbols ==
  [fec : {TRUE}, packet : RecoveryPackets]
    \cup [fec : {FALSE}, index : Column, chunk : 1 .. MaxChunks]

TypeOK ==
  /\ subscribed \subseteq Subscriber
  /\ encoder.encoder \in SiameseEncoders
  /\ up \in BOOLEAN
  /\ net \in [Subscriber -> Seq(Symbols)]
  /\ acks \subseteq Column
  /\ \A s \in Subscriber :
       /\ node[s].decoder.buffer \in ReorderBuffers(1 .. MaxChunks)
       /\ node[s].encoder.encoder \in SiameseEncoders
  /\ alive \in [Subscriber -> BOOLEAN]
  /\ delivered \in [Subscriber -> Seq(1 .. MaxChunks)]

Fec(s) == node[s].decoder.fec

(***************************************************************************)
(* No subscriber's handler ever throws: its FEC decoder never disables     *)
(* itself ("Should never happen" at SiameseDecoder.cpp:1215 and 1801), no  *)
(* recovery it starts fails, and it always has something to acknowledge.   *)
(***************************************************************************)
SubscribersStayUp == \A s \in Subscriber : alive[s]

(***************************************************************************)
(* The encoder still protects every chunk that a subscriber lacks: what    *)
(* it considers acknowledged, every subscriber has.                        *)
(***************************************************************************)
Protected ==
  IF EncodeNeedsMoreData(encoder.encoder) THEN 0
  ELSE UnacknowledgedCount(encoder.encoder)

ProtectsWhatIsLacking ==
  \A s \in subscribed :
    alive[s] => Sent - Protected =< Fec(s).columnStart + Fec(s).next

(***************************************************************************)
(* A decoder recovers at the earliest packet that allows it: however the   *)
(* packets were ordered, no prefix of the recovery packets it holds faces  *)
(* no more losses than it has packets.                                     *)
(***************************************************************************)
RecoversAsSoonAsPossible ==
  \A s \in Subscriber :
    LET d == Fec(s)
        LostIn(k) == Cardinality(
          UNION {RangeLost(d, d.recs[i].start, d.recs[i].end) : i \in 1 .. k})
    IN  alive[s] => \A k \in 1 .. Len(d.recs) :
                      LostIn(k) =< MaxLossRecovery => k < LostIn(k)

(***************************************************************************)
(* The cached region says what a fresh count over the same recovery        *)
(* packets would say, whatever was added, removed or shifted since.        *)
(***************************************************************************)
CheckedRegionIsFresh ==
  \A s \in Subscriber :
    LET d == Fec(s)
        c == d.checked
    IN  alive[s] /\ c.count > 0 =>
          /\ c.count =< Len(d.recs)
          /\ c.start = d.recs[1].start
          /\ c.end = Max({d.recs[i].end : i \in 1 .. c.count})
          /\ c.lost = Cardinality(CheckedLost(d))

(***************************************************************************)
(* Between handlers the two layers of a decoder agree: every chunk that    *)
(* the FEC decoder has in sequence was handed out, m_next_index being the  *)
(* column that it acknowledges.  Nothing is acknowledged and then held     *)
(* back.                                                                   *)
(***************************************************************************)
AcknowledgedIsDelivered ==
  \A s \in Subscriber :
    alive[s] /\ Fec(s).count > 0 =>
      node[s].decoder.buffer.next = AckColumn(Fec(s))

Fifo(s) == INSTANCE ChunkFifo WITH sent <- Sent, delivered <- delivered[s]

(***************************************************************************)
(* Every subscriber gets what ChunkFifo promises: \A s : Fifo(s)!Spec, the *)
(* quantifier taken into the next-state relation.                          *)
(***************************************************************************)
ImplementsFifo ==
  /\ \A s \in Subscriber : Fifo(s)!Init
  /\ [][\A s \in Subscriber : [Fifo(s)!Next]_<<Sent, delivered[s]>>]_vars

=============================================================================
