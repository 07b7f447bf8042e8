---------------------------- MODULE StreamEncoder ---------------------------
(***************************************************************************)
(* ContinuousStreamEncoder as a component: one action for each operation   *)
(* of its interface.  Its callers (Node::handle_packet and main) queue     *)
(* chunks and then call get_symbol until has_data is false, without a      *)
(* process_ack in between: a Node is single-threaded and its handlers run  *)
(* to completion.  So an acknowledgement arrives only when has_data is     *)
(* false.                                                                  *)
(*                                                                         *)
(* The environment acknowledges any number of chunks the encoder has sent, *)
(* in any order: acknowledgements are datagrams, and several receivers may *)
(* send them.                                                              *)
(***************************************************************************)
EXTENDS SegmentEncoder

CONSTANTS MaxChunks,    \* bound: chunks the application queues
          MaxQueued,    \* bound: chunks queued and not yet taken
          MaxAckLag     \* how many chunks an acknowledgement may lag behind

ASSUME StreamEncoderAssumption ==
  /\ MaxChunks \in Nat
  /\ MaxQueued \in Nat
  /\ MaxAckLag \in Nat

VARIABLES
  stream,    \* the ContinuousStreamEncoder
  up,        \* FALSE once an ENFORCE threw: nothing catches it below main
  fecSent    \* recovery symbols that get_symbol returned (history)

vars == <<stream, up, fecSent>>

Sent == stream.encoder.added

Init ==
  /\ stream = StreamEncoderInit
  /\ up = TRUE
  /\ fecSent = 0

queue_chunk ==
  /\ up
  /\ Len(stream.pending) < MaxQueued
  /\ Sent + Len(stream.pending) < MaxChunks
  /\ stream' = QueueChunk(stream, Sent + Len(stream.pending) + 1)
  /\ UNCHANGED <<up, fecSent>>

get_symbol ==
  /\ up
  /\ HasSymbol(stream)
  /\ IF GetSymbolThrows(stream)
     THEN up' = FALSE /\ UNCHANGED <<stream, fecSent>>
     ELSE LET got == GetSymbol(stream)
          IN  /\ stream' = got.stream
              /\ fecSent' = fecSent + (IF got.symbol.fec THEN 1 ELSE 0)
              /\ UNCHANGED up

process_ack ==
  /\ up
  /\ ~HasSymbol(stream)
  /\ \E n \in 0 .. Sent :
       /\ Sent - n =< MaxAckLag
       /\ stream' = ProcessAck(stream, n % ColumnPeriod)
  /\ UNCHANGED <<up, fecSent>>

Next == queue_chunk \/ get_symbol \/ process_ack

Spec == Init /\ [][Next]_vars

-----------------------------------------------------------------------------

TypeOK ==
  /\ stream \in [pending : Seq(1 .. MaxChunks), encoder : SiameseEncoders,
                 receiverExpects : Column, nextIndex : Column,
                 chunkIndex1 : 0 .. FecDenominator,
                 fecIndex : 0 .. FecNumerator - 1]
  /\ up \in BOOLEAN
  /\ fecSent \in Nat

(***************************************************************************)
(* The window of the FEC encoder stays in shape over any order of adding,  *)
(* acknowledging, emptying and trimming: it ends at the next column, and   *)
(* unless it is empty something in it is unacknowledged                    *)
(* (SIAMESE_DEBUG_ASSERT(FirstUnremovedElement < Count || Count == 0),     *)
(* SiameseEncoder.h:220; without it the count of unacknowledged packets    *)
(* is an unsigned number below zero).                                      *)
(***************************************************************************)
WindowInShape ==
  LET e == stream.encoder
  IN  e.count > 0 =>
        /\ e.firstUnremoved < e.count
        /\ e.count =< MaxPackets
        /\ AddColumns(e.columnStart, e.count) = e.nextColumn

(***************************************************************************)
(* What the window protects is exactly what the newest acknowledgement     *)
(* leaves open: old, repeated and reordered acknowledgements neither drop  *)
(* a chunk that the receiver may need nor bring back an acknowledged one   *)
(* (stream.hpp:160, "what to do with out-of-order ACKs?!").                *)
(***************************************************************************)
UnackedIsProtected ==
  LET e == stream.encoder
  IN  IF e.count = 0
      THEN stream.receiverExpects = e.nextColumn
      ELSE stream.receiverExpects = AddColumns(e.columnStart, e.firstUnremoved)

(***************************************************************************)
(* siamese_encode is never asked for a recovery packet of an empty window  *)
(* (it would answer NeedMoreData, and the ENFORCE in generate_fec_symbol   *)
(* would end the process): the recovery symbol follows its chunk before    *)
(* any acknowledgement can empty the window.                               *)
(***************************************************************************)
FecNeverThrows ==
  up /\ IsNextSymbolFec(stream) => ~EncodeNeedsMoreData(stream.encoder)

(***************************************************************************)
(* When all symbols are taken, the recovery symbols sent are the integer   *)
(* part of FEC_RATIO times the chunks sent: what the segment counters and  *)
(* the comment at stream.hpp:171-172 amount to.                            *)
(***************************************************************************)
FecRatioKept ==
  up /\ ~HasSymbol(stream)
    => fecSent = (Sent * FecNumerator) \div FecDenominator

=============================================================================
