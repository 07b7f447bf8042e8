# A TLA+ model of fec-poc

fec-poc forwards data from a source through a tree of nodes, over UDP, and
repairs losses by forward error correction. Nodes never ask for a
retransmission. This directory models how a stream is encoded, shaped, lost,
recovered, put in order, acknowledged and forwarded, and how a block is. TLC
checks the models on small instances; TLAPS proves, for every value of the
constants, the safety properties of the decoder, the encoder, the block tree and
the sender; that the decoder alone, and a forwarding node with all its
subscribers and the network between them, implement a FIFO; and, of a node with
one subscriber, that the encoder protects what the subscriber lacks, and that
this recovers, and gets, what it can.

All paths below are relative to the repository; the code is under `src/fec`.

## Inventory of the system

| Component | Where | State | Operations |
|---|---|---|---|
| `ContinuousStreamDecoder` | include/stream.hpp:18 | FEC decoder, `m_next_index`, priority queue `m_symbols_ahead` | `process_symbol`, `has_data`, `get_chunk`, `generate_ack` |
| `ContinuousStreamEncoder` | include/stream.hpp:78 | queue `m_pending`, FEC encoder, `m_receiver_expects`, `m_next_index`, two segment counters | `queue_chunk`, `has_data`, `get_symbol`, `process_ack` |
| `StreamFecEncoder`, `StreamFecDecoder` | include/fec.hpp:137, 207 | a Siamese codec | thin: a refusal of the codec becomes an exception (`ENFORCE`) |
| Siamese encoder | 3rdparty/siamese/SiameseEncoder.* | window of packets, what is acknowledged, next parity column and Cauchy row | `siamese_encoder_add`, `_ack`, `siamese_encode` |
| Siamese decoder | 3rdparty/siamese/SiameseDecoder.* | window, what was got, next expected element, list of recovery packets, cached "checked region" | `_add_original`, `_add_recovery`, `_is_ready`, `siamese_decode`, `_ack` |
| `Node` | include/net.hpp:23 | subscriptions, blocks and streams per channel, `packet_seq` | `handle_packet`: CONTROL, BLOCK, STREAM, STREAM_ACK |
| `AsioReceiver` | include/asio.hpp:50 | send queue, timer | `queue_packet`, `maybe_send`, timer handler |
| `ShapedPacketQueue`, `BandwidthShaper` | include/logic.hpp | priority queue of packets; buffer utilization and its time | `push`, `when_can_pop`, `pop_value`; `when_can_send`, `did_send` |
| `Block`, `BlockFec` | include/block.hpp, fec.hpp:50 | symbols seen, decoded data, a wirehair codec | `process_symbol`, `unseen_range` |
| `Packet`, wire helpers | include/packet.hpp, wire.hpp | - | headers and casts |
| `AsioNode` | include/asio.hpp:98 | socket, buffer | `listen` |
| programs | src/main.cpp, exp.cpp, c_exp.cpp, source_sink_exp.cpp, ctr_exp.cpp, test.py | - | command line, experiments |

**How they interact.** A node is one thread: `io_context.run` calls
`handle_packet` for a datagram, or the handler of a timer, and each runs to its
end. For a STREAM packet `handle_packet` drops every tenth (`LOSE_EVERY`), gives
the packet to the channel's decoder, acknowledges to the peer, takes out all
chunks that are next in order, gives them to the channel's *encoder*, takes out
all symbols and queues each to every subscriber. A STREAM_ACK of any subscriber
goes to that one encoder. Each subscriber has an `AsioReceiver`, which sends
what the shaper allows and waits on a timer for the rest. An exception in a
handler leaves `io_context.run` and ends the program (main.cpp:124-131).

A BLOCK packet is treated otherwise: the node forwards it as it is, feeds its
symbol to the channel's `Block`, and when that is complete adds a burst of
symbols that it had not seen. A source (main.cpp:53-100) queues its whole block
or stream before its event loop runs, and does not listen.

**What is hard.** Datagrams are lost, repeated and overtake each other, and so
are acknowledgements; several subscribers share one encoder; windows are
aligned, trimmed and emptied while counters wrap; the decoder caches a count
that late packets make stale; recovery may fail by bad luck; handlers of timers
run late and cancelled waits still run. `PROJECT.json` lists each of these
hazards at its line with the properties that cover it.

**What makes each component correct.**

- Decoder: every chunk comes out once, in order, as soon as it can.
- Encoder: the FEC ratio is kept; exactly what is unacknowledged is protected;
  a recovery symbol is never asked of an empty window.
- Siamese codec: recovery is done at the earliest packet that allows it; the
  decoder never finds itself in a state it declares impossible.
- Node: subscribers get the source's stream, no handler throws.
- Sender: the recipient's buffer is not exceeded, priorities are kept,
  nothing stays unsent, timer and queue agree.
- Block: complete as soon as enough symbols came, redundancy added once and
  with symbols of use, and every node of the tree gets the block.

## Modules

| Module | Models | State and actions |
|---|---|---|
| `SiameseColumns`, `SiameseCommon` | SiameseCommon.h | operators on column numbers modulo the period, trimming geometry |
| `ReorderBuffer` | stream.hpp:58-75 | a record (`next`, `ahead`) for `m_next_index`, `m_symbols_ahead` |
| `StreamDecoder` | `ContinuousStreamDecoder` alone | `HandleChunks` is what `handle_packet` does with the decoder; the FEC decoder and the network are its environment |
| `SiameseEncoder` | Siamese encoder | a record; `EncoderAdd`, `Acknowledge`, `Encode` |
| `SegmentEncoder` | `ContinuousStreamEncoder` | a record; `QueueChunk`, `GetSymbol`, `ProcessAck` |
| `StreamEncoder` | the same as a component | actions `queue_chunk`, `get_symbol`, `process_ack` |
| `SiameseDecoder` | Siamese decoder | a record; `AddOriginal`, `AddRecovery`, `CheckRecoveryPossible`, `BackSubstitution`, `AckColumn` |
| `SegmentDecoder` | `ContinuousStreamDecoder` on top of it | `ProcessSymbol`, `GenerateAck` |
| `StreamNode` | `ContinuousStream`, `handle_packet` case STREAM | `HandleStream`, one operator for the whole handler |
| `StreamFanOut` | a forwarding node, its subscribers, the network | `Forward`, `HandleStreamAck`, `Subscribe`, `ReceiveOne`, `ReceiveUnlucky`, `Lose`, `Duplicate` |
| `StreamChain` | a source, a chain of nodes, the networks between them | `Receive`, `HandleStreamAck`, `Lose`; the source is in `Init` |
| `Wirehair` | the wirehair decoder | a record (rows, ids, rank); `Fed`, `Result` |
| `Block` | `Block`, `BlockFec`, `block_packet_range` | a record; `ProcessSymbol`, `UnseenRange` |
| `BlockTree` | case BLOCK of `handle_packet` in a tree of nodes | `Receive`, `ReceiveUnlucky`, `Subscribe`, `Lose`, `Duplicate`; the source is in `Init` |
| `ChunkFifo` | fec.hpp:28-29 | the abstract specification: a FIFO |
| `BandwidthShaper` | `BandwidthShaper` | a record; `WhenCanSend`, `DidSend` |
| `PacketSender` | `AsioReceiver`, `ShapedPacketQueue` | `QueuePacket`, `TimerFires`, `Resubscribe`, `LateWait`, `AbortedWait`, `Tick` |
| `StreamDecoder_proofs`, `StreamEncoder_proofs`, `StreamFanOut_proofs`, `StreamChain_proofs`, `BlockTree_proofs`, `PacketSender_proofs` | - | proofs about the modules they are named after |
| `StreamNode_proofs` | - | lemmas about the operators of a node, from the reorder buffer and the encoder to `HandleStream`, for every module that uses these |
| `IntegerFacts` | - | lemmas about induction, iteration, division and residues that these need |
| `MCStreamChain`, `MCBlockTree` | - | values of constants that a .cfg cannot write |

`StreamFanOut` and `StreamChain` compose all the codec modules: the first one
node with all that can happen between it and its subscribers, the second several
nodes in a row. A stateful object of the code is
a record, an operation an operator that returns the record after the call, and
a handler one action, since handlers do not interleave. An `ENFORCE` that fails
makes the action set `alive`, or `up`, to FALSE, and nothing more happens there.

**Data.** A chunk is its number; a recovery packet carries its metadata and the
number of the first chunk it protects, and recovering a column yields the
number that the packet's own metadata implies, so that wrong metadata would
deliver a wrong chunk. A set of losses is solvable when the rows that the
matrix is made of could be independent: every lost column finds a row of its
own, equal rows counting once. Elimination that fails by bad luck is an action
of its own (`ReceiveUnlucky`). One failure is all it takes: what
`siamese_decode` tries again, for each further recovery packet, is the same
matrix. A symbol of a block is its id; that a set of ids has rank enough is all
that is kept of wirehair's matrix: a symbol of the message always adds to the
rank, another one does unless it is unlucky, and one that was given before
never does. What is in flight is a sequence in the streaming modules, where
order and overtaking matter within bounds, and a bag in `BlockTree`, where any
order is possible.

**Mutants.** Each module holds, beside the definition it changes, a few
operators marked *Mutant*: the definition with a plausible bug. They are not
used by the specifications. `PROJECT.json` names for each property the mutant
that breaks it, so that no property holds by construction.

## Runs

Passing runs:

| Run | Bounds | Properties | Shows |
|---|---|---|---|
| `stream_decoder` | 8 chunks, one lap of columns, any batch of chunks up to 6 behind the newest | `NothingHeldBack`, `ImplementsFifo` | order and promptness over every arrival order without repetition |
| `stream_encoder` | 30 chunks over a period of 24, lanes and subwindows of 2, window of 8, acknowledgements up to 8 behind | `WindowInShape`, `UnackedIsProtected`, `FecNeverThrows`, `FecRatioKept` | the columns wrap; the window is emptied, started at an odd column, trimmed, full |
| `fanout_single` | 8 chunks, 3 losses, packets overtake one other | `SubscribersStayUp`, `ProtectsWhatIsLacking`, `AcknowledgedIsDelivered`, `ImplementsFifo` | with one subscriber nothing throws and the stream arrives as a FIFO |
| `fanout_faulty` | 4 chunks with a recovery packet each, 4 losses, of which at most 2 can be recovered together, 1 duplicate, 1 failed elimination, packets overtake two others, the subscriber joins at any time | `RecoversAsSoonAsPossible`, `CheckedRegionIsFresh`, `ImplementsFifo` | the cached region, the limit on losses; what happens when something throws |
| `stream_chain` | source and 2 nodes, 5 chunks, 2 losses on any hop, packets of the first hop come in any order | `ImplementsFifo`, `RedundancySuffices` | each hop is a FIFO and repairs its losses without retransmission, whatever order the source's queue sends in |
| `block` | source, node, subscriber that joins at any time; block of 2 symbols, as many faults as the redundancy is for (1 and 3), 1 duplicate | `OnlyRepetitionsThrow`, `FreshRedundancy`, `GeneratesOnce`, `BlockReachesAll` | the block gets through; only a repeated symbol ends a node |
| `sender` | 3 packets, 2 types, 2 sizes, timers up to 3 ticks late, SUBSCRIBE once more at any time | `WaitPendingIffQueued`, `LoopEndsOnlyByResubscription`, `NoPacketStranded`, `BufferNotExceeded`, `PriorityKept`, `EverythingSent` | shaping; cancelled and late waits, and that none ends the loop unless the peer subscribes again |

Five of the runs check the type invariant of their module (`TypeOK`) as well.

Violation runs, each a disagreement of the code with its own documentation:

| Run | Property | What TLC finds |
|---|---|---|
| `repeated_chunk` | `NothingHeldBack` | a chunk that arrives twice ahead of a gap is queued twice; its copy stays on top of `m_symbols_ahead` and the stream stops (stream.hpp:73) |
| `leaf_window` | `SubscribersStayUp` | a node without subscribers encodes all the same; its window is never acknowledged, and at `SIAMESE_MAX_PACKETS` chunks the `ENFORCE` at fec.hpp:152 throws |
| `two_subscribers` | `SubscribersStayUp` | an acknowledgement of one subscriber unprotects what the other lacks; the other's decoder disables itself (SiameseDecoder.cpp:1215) and the next call throws. Before it does, it may trim its window past what it lacks: `NextExpectedElement`, unsigned, wraps below 0, against the assertions at SiameseDecoder.cpp:1897 and 2026 (`NextIsFrom`), and every later recovery packet counts as old |
| `duplicated_recovery` | `SubscribersStayUp` | a recovery packet that arrives twice counts as two; decoding fails and `ENFORCE0` (fec.hpp:259) ends the program instead of waiting for another |
| `block_repeat` | `NodesStayUp` | a node generates a symbol and later forwards the same one, which came late; its subscriber feeds both to wirehair, against wirehair.h:229-230, and ends with an exception (fec.hpp:122) |

More disagreements are easy to see and have no run of their own.

- `NothingHeldBack` fails in `StreamDecoder` once the chunks exceed the period
  of columns, which the TODO at stream.hpp:67 admits (set `MaxChunks = 12` and
  `MaxDelay = 2` in MCStreamDecoder.cfg).
- `BufferNotExceeded` fails when the rate does not divide the 8'000'000 ns of
  logic.hpp:40 (set `Kbps = 3` in MCPacketSender.cfg): the time of a byte is
  rounded down, and the shaper sends faster than the recipient drains. The rate
  is an option of the command line (main.cpp:23), any number.
- A second SUBSCRIBE of a peer replaces its `AsioReceiver` (net.hpp:46). The
  buffer "that must not be exceeded" (logic.hpp:6) can then hold twice its size,
  which is why `BufferNotExceeded` counts subscriptions; and a wait that is
  pending is cancelled, with the queue empty ("A wait is pending iff queue not
  empty", asio.hpp:95) and an error for its handler, which throws. Nothing else
  ends the loop (`LoopEndsOnlyByResubscription`). Drop `subscriptions` from
  these properties to see any of it.
- `OnlyRepetitionsThrow` fails when ids come near the period of 16 bits to which
  `wirehair_encode` truncates them (set `IdPeriod = 4` in MCBlockTree.cfg): a
  generated symbol is taken for the last of the message and cut short.
- `operator<` of `Packet` (packet.hpp:127-146), which orders block packets by
  index, is never used: the queue at logic.hpp:92 holds byte vectors and orders
  those (`BytesLess`).

**Why the bounds are enough.** The constants of the code scale down together.
Lanes of 8 and subwindows of 64 become lanes of 1 or 2 and subwindows of 1 or
2, so that trimming, at two subwindows, happens after a few chunks; both ends
trim many times in a run. The period of columns is a little more than twice
the largest distance between columns in use, as half a period has to tell
"older" from "newer"; `stream_encoder` goes around it. `FecNumerator /
FecDenominator` is the code's 2/5 except in `fanout_faulty`, where a recovery
packet follows every chunk: only then do recovery packets overtake each other
within few packets. 255 is the code's limit on losses. `CauchyMaxRows` is 192
in the code; in the runs it is larger than the number of recovery packets that
can be held at a time. A model with six rows and much deeper reordering does
meet two different packets of the same row, and a singular matrix; in the code
that takes 192 recovery packets of delay.

**What the bounds do not reach.** That a *non-empty* checked region is shifted
(`ShiftChecked` with elements left) needs two late originals after two recovery
packets and a trim between; the exhaustive runs do not get there. Random
simulation with 16 chunks, 8 losses and packets overtaking many others did not
violate the properties of `fanout_single` while rows were plenty.

Larger instances of `stream_chain` and `block` take longer than is useful here
and hold as well: the first with 6 chunks, one loss and packets that overtake
three others on the first hop (870 thousand states), the second with blocks of
3 symbols and no duplicate (193 thousand). Losses are bounded by their number
in `stream_chain`, so that `RedundancySuffices` says, per hop, how far the
stream gets with none, one or two of them. In `block` the bound *is* the claim:
`SymbolsToSend - BlockCount` symbols may fail on the first hop, `SymbolsToSend`
on the second, where a node offers at least `BlockCount + SymbolsToSend`
different ones. The node's own loss of every tenth packet, the first one
included, is within it.

**Deadlock** is not checked: the source's chunks run out, and a node may stop.

## Fairness

`FairSpec` of `StreamChain` and `BlockTree`: a packet queued to a node leaves
the queue in the end, lost or handled. A waiting packet has a timer
(`NoPacketStranded`, `EverythingSent`), and the receiver is an event loop over
its socket. Nothing is assumed of acknowledgements, of subscriptions, or of
which packets are lost, beyond their number.

`RedundancySuffices` is stated for packets that may overtake each other on the
first hop only. There the encoder is the source's, which no acknowledgement
reaches: every recovery packet protects all chunks. It does not hold when
recovery packets overtake each other across an acknowledgement: a decoder that
trimmed its window after the later one ignores the earlier
(SiameseDecoder.cpp:337-342).

`BlockReachesAll` excepts a node that got a symbol twice, which may end it
(`block_repeat`), and nodes behind it; `OnlyRepetitionsThrow` says that nothing
else ends one. It is about nodes that subscribed before the block came: nothing
is kept for later ones.

`FairSpec` of `PacketSender`: time passes, up to a bound beyond the last
deadline, and the event loop runs the handler of a timer that ended. Cancelled
and late handlers are not assumed to run. `EverythingSent` excepts a node that
is down and packets that a new subscription dropped.

## Proofs

Theorems hold for every value of the constants that the modules' assumptions
admit: no bound of a run matters to them. A hypothesis beyond these is an
`ASSUME` of the theorem, and for each but `WindowSuffices` there is a run, or a
value to set, that shows the property fail without it. Each run of a property
satisfies the hypotheses of its theorem.

| Theorem | Proves | Hypothesis |
|---|---|---|
| `DecoderTypes` | `StreamDecoder`: `TypeOK` | `NoWraparound` |
| `DecoderImplementsFifo` | `StreamDecoder` implements `ChunkFifo` | `NoWraparound` |
| `HandedOutAtOnce` | `StreamDecoder`: `NothingHeldBack` | `NoWraparound`, no chunk comes twice |
| `EncoderIsCorrect` | `StreamEncoder`: `TypeOK`, `WindowInShape`, `FecNeverThrows`, `FecRatioKept` | none |
| `WindowIsExact` | `StreamEncoder`: `UnackedIsProtected` | `ColumnsSuffice` |
| `TypeCorrect` | `StreamFanOut`: `TypeOK` | `ColumnsSuffice` |
| `CacheIsFresh` | `StreamFanOut`: `CheckedRegionIsFresh` | `ColumnsSuffice` |
| `SubscribersGetFifo` | `StreamFanOut` implements `ChunkFifo`, to every subscriber | `ColumnsSuffice` |
| `ProtectsUntilReached` | `StreamFanOut`: `ProtectsWhatIsLacking` | `ColumnsSuffice`, `OneSubscriber`, `WindowSuffices` |
| `RecoversAtOnce` | `StreamFanOut`: `RecoversAsSoonAsPossible` | the same |
| `NothingIsWithheld` | `StreamFanOut`: `AcknowledgedIsDelivered` | the same, and `NothingRepeated` |
| `HopsAreFifos` | `StreamChain`: every hop implements `ChunkFifo` | `ColumnsSuffice` |
| `TreeTypes` | `BlockTree`: `TypeOK` | none |
| `CompletionIsFresh` | `BlockTree`: `FreshRedundancy` | none |
| `BurstIsSentOnce` | `BlockTree`: `GeneratesOnce` | none |
| `RepetitionsAlone` | `BlockTree`: `OnlyRepetitionsThrow` | `IdsFit` |
| `SenderIsCorrect` | `PacketSender`: `TypeOK`, `WaitPendingIffQueued`, `LoopEndsOnlyByResubscription`, `NoPacketStranded`, `PriorityKept` | none |
| `BufferIsKept` | `PacketSender`: `BufferNotExceeded` | `WholeTimePerByte` |

Why the code needs the hypotheses:

- `NoWraparound` (`MaxChunks < ColumnPeriod`): indices are compared as plain
  numbers (the TODO at stream.hpp:67). A stream has four million chunks before
  it fails.
- No chunk comes twice (`~AllowRepeats`): `repeated_chunk` shows what happens
  when one does. Order does not need it.
- `ColumnsSuffice` of `StreamEncoder`: the window and the lag of an
  acknowledgement are at most half the period of columns, by which
  `IsColumnDeltaNegative` tells older from newer. In the code the window is
  16000 packets, the half is two million, and an acknowledgement would have to
  be late by more than that.
- `ColumnsSuffice` of `StreamFanOut` and `StreamChain`: the *stream* is no
  longer than that half. The network of the model may delay a packet for ever,
  and a packet that is late by more than half a period counts as new: set
  `ColumnPeriod = 6` in MCStreamFanOut.cfg, and `ImplementsFifo` fails. The code
  admits streams up to a period only in any case (`NoWraparound`).
- `OneSubscriber`: nobody else's acknowledgements reach the encoder, as in a
  chain of nodes, each subscribed to the one before (`StreamChain`). With a
  second one in MCStreamFanOut.cfg TLC finds `ProtectsWhatIsLacking` and
  `AcknowledgedIsDelivered` violated within ten steps, and random simulation
  (`-simulate`, with `MaxLosses = 6` and `MaxInFlight = 6`)
  `RecoversAsSoonAsPossible`. This is the disagreement that `two_subscribers` is
  about.
- `WindowSuffices`: the window is less than half the period of columns, 16000
  packets of two million. A longer window could not be told from columns that
  were acknowledged before.
- `NothingRepeated` (`MaxDuplicates = 0`): set it to 1 in MCStreamFanOut.cfg. A
  chunk that came twice stays on top of its queue, as in `repeated_chunk`, so
  that later ones are acknowledged and not handed out.
- `IdsFit`: a node does not generate ids beyond the 16 bits to which
  `wirehair_encode` truncates them; blocks of tens of thousands of symbols do.
- `WholeTimePerByte`: the rate divides the time of a byte, see above.

**`StreamDecoder`.** That chunks come out in order (`InOrder`, of the proof
module) is not inductive. `IInv` adds the types, that `buffer.next` is the
number of chunks delivered, `QueuesHoldTheirChunk` (what waits under an index
is the chunk of that index) and `WaitingWereSent`. The argument: a symbol
brings the chunk of its index (`SymbolsAreOwn`), so queueing keeps the queues
(`ProcessKeepsQueues`); a run of `get_chunk` calls takes chunks `next + 1`,
`next + 2`, ... and cannot go past the last chunk, hence never around the
period (`RunDoesNotWrap`); what it leaves has the same shape
(`AfterRunKeepsQueues`). So every handler delivers the next of what was sent,
which is `ChunkFifo`'s `Deliver`. Promptness needs more (`HInv`): without
repetitions exactly the chunks that arrived and are not delivered wait, once
each, and the expected one is not among them, because a run ends only where one
is missing (`RunStopsAtMissing`).

**`StreamEncoder`.** `IInv` relates the two layers. `GoodEncoder` is the shape
of the FEC encoder's window; `m_receiver_expects` equals the column by which the
FEC encoder decides which acknowledgements are old; a recovery symbol that is
due finds a chunk in the window; and `RatioInv` states where in a cycle of
`FecDenominator` chunks and `FecNumerator` recovery symbols the two segment
counters stand, from which the ratio follows exactly (`NextIsReached`,
`RatioIsExact`). A recovery symbol becomes due only by a chunk, and
`get_symbol` is called until none is due before the next acknowledgement: that
is why no window is empty when one is asked for. `WindowIsExact` counts chunks
instead of columns: `AckInv` says that the column acknowledged is that of the
last chunk acknowledged, and within half a period older columns are those of
older chunks (`OldAckIsTold`, `AckStaysExact`).

**`StreamFanOut`.** The theorem to have is `SubscribersGetFifo`: encoder, codec,
network and decoders together deliver the stream in order, also what is
recovered and whatever throws. `IInv` says of the forwarder that its encoder is
good and knows the chunks sent so far, and of every subscriber (`SubscriberInv`)
that each packet in flight to it tells the truth about them (`SentSymbols`: an
original carries the chunk of its column, a recovery packet names a range of
columns sent and the first chunk of it), that both layers of its decoder are
good, and that its buffer expects the chunk after those delivered. The proof
goes up through the layers of a node:

1. *The Siamese decoder* stays good (`GoodDecoder`) through every operator. Its
   columns are those of chunks sent (`WindowFits`); every packet in its list
   protects elements of the window and numbers them rightly (`EntriesFit`);
   the last recovery packet in order ends at an element that is passed or in
   the list (`MetadataPassed`), which is what makes trimming an empty list safe
   (`FirstKeptResult`); what is recovered is told truthfully; and the cached
   region is what a fresh count gives (`GoodRegion`), its first packet having a
   loss in it (`FirstHasLoss`). That last fact is why the cache survives: an
   original that makes the first packet useless falls within the region, and so
   resets it. `next` may be negative, since the code wraps it below 0 (see
   `two_subscribers`): then the list is not empty, and the decoder keeps good.
2. *process_symbol and the buffer*: the loop that feeds, decodes and queues ends
   with the buffer holding chunks of the stream under their own index, or with
   an exception (`AllNewResult`); taking chunks out gives the next of the stream
   (`HandleStreamResult`).
3. *The encoder*: queueing a chunk and taking out all symbols, a loop again,
   gives only symbols that tell the truth (`EncodeChunkResult`).
4. *The actions*, one lemma each (`ForwardKeepsIInv`, `ReceiveKeepsIInv`, ...),
   which show at once that the step is one of `ChunkFifo` or none (`FifoStep`).

What is about the operators of a node, the whole handler included, is in
`StreamNode_proofs`, for `StreamChain` to use as well.

Nothing is assumed of acknowledgements, of the number of subscribers or of what
the network loses; the runs show that `SubscribersStayUp` does fail with two
subscribers, and the theorem says that order is kept even then.

**`StreamFanOut` with one subscriber.** `IInv` lets a decoder hold any packets
that tell the truth. The three properties need to know *which* packets it can
hold, hence how acknowledgements and recovery packets in flight, the encoder's
window and the decoder's window are related. The invariant is `IInv /\ PInv`:

- the encoder protects exactly what is not acknowledged (`AckIsExact`), so that
  every recovery packet it makes starts at the column last acknowledged
  (`Kept`);
- no acknowledgement, in flight or handled, is ahead of the column the
  subscriber waits for, its `Place` (`AckedIsReached`): it was there when it
  sent it, and never moves back (`Onward`);
- hence every recovery packet in flight starts no later than that column
  (`StartedBy`). With a second subscriber this is what fails.
- The decoder is `Prompt`. All packets it holds protect the column it waits for
  and are sorted by their ends (`Timely`), so the losses that the first k
  packets face are those from there to the end of the k-th (`LossesTo`). A
  cached region is the shortest for which the packets suffice
  (`CheckedIsMinimal`), so that continuing the search at the cached place passes
  over nothing; and after a handler that did not throw no prefix suffices
  (`Settled`), since each turn of the loop in `process_symbol` recovers a region
  or finds none.

`ProtectsWhatIsLacking` is the second item, in the terms of the encoder's
window; `RecoversAsSoonAsPossible` is `Settled`. Both hold whatever is lost,
repeated or late and however far packets overtake each other.

`AcknowledgedIsDelivered` adds `LInv` for a network that repeats nothing: each
original in flight is there once and does not wait at the subscriber
(`EachOnce`), and the buffer holds, once each, the chunks that the FEC decoder
has from its `Place` on (`Linked`). A chunk may then still be recovered first
and come later: the FEC decoder tells, and it is not queued.

**`StreamChain`.** What Node h may be sent (`Offered`) is what the Node before
it has taken out, so one variable is what the FIFO of a hop delivers and what
that of the next one sends. `IInv` says of every hop (`HopInv`) that what is in
flight tells the truth about those chunks, and that both layers of the Node's
decoder are good for them; and of a Node that is up (`SenderInv`) that its
encoder is idle after exactly the chunks the Node has taken out, so that what it
sends next tells the truth to the Node after it. `Receive` moves two hops at
once: it takes chunks out of the one and sends their symbols on the other
(`PacketIsHandledWell`, over `HandleStreamResult` and `HandleStreamForwards`).
The latter rests on `EncodeChunksResult`, an induction over the turns of the
loops in the handler, which counts how many are left. A handler that throws may
leave its encoder in the middle of that, which is why `SenderInv` says so only
of a Node that is up; what it sent before is true all the same. Acknowledgements
may be any column that was ever acknowledged, also a very old one: they end
protection, too early or too late, and nothing else.

**`BlockTree`.** `IInv` says of every node that what wirehair was fed is what
its `Block` has seen (`GoodBlock`), and that the rank of its decoder is the
number of symbols but for the unlucky ones, exactly so if all are symbols of the
message (`GoodCodec`). That is enough for freshness: `unseen_range` yields as
many symbols as asked for, none seen (`UnseenRangeResult`). `Refused` is about
exceptions: a node that is down got a symbol twice, as N rows that were all of
the message, once each, are the whole message; and ids stay within 16 bits,
because a node that generates has at most as many symbols as it needed and the
unlucky ones.

**`PacketSender`.** The loop of `maybe_send` is a recursive function of a
measure, `SendAll`, and an iteration of `PopAndSend` (`SendAllIsIterated`);
facts about a burst are shown by induction over its turns, with `SetInduction`
of `IntegerFacts`. `IInv` needs, besides the properties, that a sender with one
subscription has no handler of a cancelled wait left (`OneWait`). `BufferInv`
ties the real content of the buffer to the shaper's account of it
(`IsAccounted`): it is no more than what the account says at the time it was
made up, less what drained since, plus what each new subscription forgot, one
full buffer at most (`ForgottenGrows`).

What stays with TLC:

- Liveness: `EverythingSent`, `BlockReachesAll`, `RedundancySuffices`.
- `StreamFanOut`: `SubscribersStayUp`. It needs, beyond `PInv`, that packets
  sent later do not end earlier, in flight, in the list and in the metadata that
  an empty list is trimmed by, and that as many rows as losses can always be
  solved, which is a matching: it holds with one subscriber and bounded faults
  only.
- Violations are found by TLC; nothing is proved of them.

## Not modelled

- The running sums that Siamese uses above 64 unacknowledged columns
  (`SIAMESE_CAUCHY_THRESHOLD`): they change which data a recovery packet holds.
  The states in which a *sum* was clipped, and the decoder gives up, are
  therefore not in the model.
- Siamese's retransmission, NACK ranges and timeouts: the program calls none of
  them. Its allocator, its finite field, its serializers: data. Out of memory.
- Wirehair's matrix, and its limits: more than 32 rows that refer to a column,
  more than 32 symbols beyond N that did not suffice.
- Several blocks or streams at a time. Channels and blocks have separate state;
  what they share is `packet_seq`, which decides what is dropped, and any
  packet may be dropped in the models. (Every source uses channel 123 and block
  456, so that a second block is taken for the first; main.cpp:65.)
- Blocks of one symbol, which the constructors of `BlockFec` refuse; streams
  that fill the window of their source, which never hears an acknowledgement.
- `reliability_level` and `generate_fec_symbol` by themselves: no caller.
- Option parsing and start-up; the buffers of `AsioNode`; the experiments,
  which CMakeLists.txt does not build; the test driver.
- A rate of 0, or above 8'000'000, which divides by zero; overflow of
  `packet_seq`; a clock that goes back (an `ENFORCE` at logic.hpp:45).
- Crash and restart: a node keeps nothing on disk, and one that is started anew
  has no subscribers.

## Plan

Done: the decoder, the encoder, the codec below them, one hop of a stream with
its network, a chain of nodes, blocks in a tree of nodes, the sender; proofs of
all safety properties of the modules `StreamDecoder`, `StreamEncoder`,
`BlockTree` and `PacketSender`, and of `StreamFanOut` but for
`SubscribersStayUp`; of the refinement of `ChunkFifo` by `StreamDecoder`, by
`StreamFanOut` and by every hop of `StreamChain`.

Left to prove: `SubscribersStayUp` of `StreamFanOut` with one subscriber. What
can end a node is known from the proofs about one subscriber: a decoder that
disables itself (excluded when packets sent later never end earlier, in flight,
in the list and in the metadata kept of the last one), a set of losses that
cannot be solved (`MayFail`), and a window that is full, its own encoder's
included.
