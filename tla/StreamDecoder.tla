---------------------------- MODULE StreamDecoder ---------------------------
(***************************************************************************)
(* ContinuousStreamDecoder as a component, in the hands of the STREAM case *)
(* of Node::handle_packet: a packet is processed, which queues the chunk   *)
(* it carries and the chunks the FEC decoder recovers with it, and then    *)
(* every chunk that is next in order is taken out.                         *)
(*                                                                         *)
(* The environment is the sender, the network and the FEC decoder: any     *)
(* chunks sent so far may come with a packet.  With AllowRepeats a chunk   *)
(* may come again, as one does when the network duplicates a datagram (the *)
(* FEC decoder reports Siamese_DuplicateData, which fec.hpp accepts).  A   *)
(* chunk comes at most MaxDelay chunks behind the newest one sent.         *)
(***************************************************************************)
EXTENDS ReorderBuffer, FiniteSets

CONSTANTS MaxChunks,     \* chunks the source sends
          MaxDelay,      \* how far behind the newest chunk one may arrive
          MaxBatch,      \* chunks that one packet brings, its own and recovered
          AllowRepeats   \* may a chunk come more than once?

ASSUME StreamDecoderAssumption ==
  /\ MaxChunks \in Nat
  /\ MaxDelay \in Nat
  /\ MaxBatch \in Nat
  /\ AllowRepeats \in BOOLEAN

Chunk == 1 .. MaxChunks

VARIABLES
  sent,        \* number of chunks the source has sent
  arrived,     \* the chunks that process_symbol has seen
  buffer,      \* m_next_index and m_symbols_ahead
  delivered    \* what get_chunk returned so far, in order

vars == <<sent, arrived, buffer, delivered>>

Init ==
  /\ sent = 0
  /\ arrived = {}
  /\ buffer = EmptyBuffer
  /\ delivered = <<>>

Send ==
  /\ sent < MaxChunks
  /\ sent' = sent + 1
  /\ UNCHANGED <<arrived, buffer, delivered>>

InTransit ==
  {n \in 1 .. sent : sent - n =< MaxDelay} \ (IF AllowRepeats THEN {} ELSE arrived)

\* A chunk comes under the column that the sender's encoder gave it.
Symbols(chunks) == {<<ColumnOfChunk(n), n>> : n \in chunks}

(***************************************************************************)
(* handle_packet, case STREAM: process_symbol and the loop that drains the *)
(* decoder.                                                                *)
(***************************************************************************)
HandleChunks(chunks) ==
  LET queued == ProcessOriginalChunks(buffer, Symbols(chunks))
  IN  \E n \in RunLengths :
        /\ IsWholeRun(queued, n)
        /\ buffer' = AfterRun(queued, n)
        /\ delivered' = delivered \o TakenChunks(queued, n)
        /\ arrived' = arrived \cup chunks
        /\ UNCHANGED sent

Next ==
  \/ Send
  \/ \E chunks \in SUBSET InTransit :
       chunks # {} /\ Cardinality(chunks) =< MaxBatch /\ HandleChunks(chunks)

Spec == Init /\ [][Next]_vars

-----------------------------------------------------------------------------

TypeOK ==
  /\ sent \in 0 .. MaxChunks
  /\ arrived \in SUBSET Chunk
  /\ buffer \in ReorderBuffers(Chunk)
  /\ delivered \in Seq(Chunk)

Fifo == INSTANCE ChunkFifo

(***************************************************************************)
(* Chunks come out as ChunkFifo promises of a stream: in the order the     *)
(* source sent them, each once, with no gap, none before it was sent,      *)
(* whatever arrives late, early or twice (the goal in fec.hpp:28-29).      *)
(***************************************************************************)
ImplementsFifo == Fifo!Spec

(***************************************************************************)
(* A chunk is never held back: once all chunks up to n have arrived, all   *)
(* of them have been handed out (the goal in fec.hpp:28-29, "receive all   *)
(* the CHUNKS").                                                           *)
(***************************************************************************)
NothingHeldBack ==
  \A n \in 1 .. sent : (1 .. n) \subseteq arrived => Len(delivered) >= n

=============================================================================
