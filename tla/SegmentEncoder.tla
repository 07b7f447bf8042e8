---------------------------- MODULE SegmentEncoder --------------------------
(***************************************************************************)
(* ContinuousStreamEncoder: chunks queue up, and get_symbol turns them     *)
(* into symbols, original chunks with recovery symbols between them at the *)
(* ratio FecNumerator / FecDenominator (recovery / original).  A symbol is *)
(* [fec |-> FALSE, index, chunk] or [fec |-> TRUE, recovery packet].       *)
(***************************************************************************)
EXTENDS SiameseEncoder, Sequences

CONSTANTS FecNumerator, FecDenominator   \* FEC_RATIO, 2/5 in the code

ASSUME FecRatioAssumption ==
  /\ FecNumerator \in Nat \ {0, 1}
  /\ FecDenominator \in Nat
  /\ FecNumerator =< FecDenominator

StreamEncoderInit ==
  [pending |-> <<>>, encoder |-> EncoderInit, receiverExpects |-> 0,
   nextIndex |-> 0, chunkIndex1 |-> 0, fecIndex |-> 0]

QueueChunk(s, chunk) == [s EXCEPT !.pending = Append(@, chunk)]

Ceil(a, b) == (a + b - 1) \div b

\* Mutant: recovery symbol k is placed before its chunk number k d / f.
IsNextSymbolFecEarly(s) ==
  s.chunkIndex1 = Ceil(s.fecIndex * FecDenominator, FecNumerator)

\* is_next_symbol_fec
IsNextSymbolFec(s) ==
  s.chunkIndex1 = Ceil((s.fecIndex + 1) * FecDenominator, FecNumerator)

HasSymbol(s) == s.pending # <<>> \/ IsNextSymbolFec(s)

-----------------------------------------------------------------------------
(* get_symbol                                                              *)

\* siamese_encoder_add or siamese_encode refuses, and ENFORCE throws.
GetSymbolThrows(s) ==
  IF IsNextSymbolFec(s) THEN EncodeNeedsMoreData(s.encoder)
                        ELSE MaxPacketsReached(s.encoder)

FecSymbol(s) ==
  LET encoded == Encode(s.encoder)
  IN  [symbol |-> [fec |-> TRUE, packet |-> encoded.packet],
       stream |-> [s EXCEPT !.fecIndex = (@ + 1) % FecNumerator,
                            !.encoder  = encoded.encoder]]

\* Mutant: the chunk counter starts again one chunk early.
ChunkSymbolFromZero(s) ==
  [symbol |-> [fec |-> FALSE, index |-> s.encoder.nextColumn,
               chunk |-> Head(s.pending)],
   stream |-> [s EXCEPT !.pending     = Tail(@),
                        !.encoder     = EncoderAdd(@),
                        !.nextIndex   = AddColumns(s.encoder.nextColumn, 1),
                        !.chunkIndex1 = (@ + 1) % FecDenominator]]

ChunkSymbol(s) ==
  [symbol |-> [fec |-> FALSE, index |-> s.encoder.nextColumn,
               chunk |-> Head(s.pending)],
   stream |-> [s EXCEPT !.pending     = Tail(@),
                        !.encoder     = EncoderAdd(@),
                        !.nextIndex   = AddColumns(s.encoder.nextColumn, 1),
                        !.chunkIndex1 = (@ % FecDenominator) + 1]]

GetSymbol(s) == IF IsNextSymbolFec(s) THEN FecSymbol(s) ELSE ChunkSymbol(s)

(***************************************************************************)
(* process_ack: m_receiver_expects becomes what the FEC encoder reports.   *)
(***************************************************************************)
ProcessAck(s, expected) ==
  LET acked == Acknowledge(s.encoder, expected)
  IN  [s EXCEPT !.encoder         = acked,
                !.receiverExpects = acked.nextColumnExpected]

=============================================================================
