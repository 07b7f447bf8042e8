---------------------------- MODULE SegmentDecoder --------------------------
(***************************************************************************)
(* ContinuousStreamDecoder: the Siamese decoder below, the reorder buffer  *)
(* above.  process_symbol gives the symbol to the FEC decoder, queues the  *)
(* chunk if it is an original, and then queues what the FEC decoder        *)
(* recovers for as long as it is ready.  It throws when the FEC decoder    *)
(* refuses: nothing below main catches that.                               *)
(***************************************************************************)
EXTENDS SiameseDecoder, ReorderBuffer

StreamDecoderInit == [fec |-> DecoderInit, buffer |-> EmptyBuffer]

AddSymbol(d, symbol) ==
  IF symbol.fec THEN AddRecovery(d, symbol.packet)
                ELSE AddOriginal(d, symbol.index)

\* Mutant: what siamese_decode recovers is not queued.
DecodedUnqueued(w, d, decoded) ==
  [fec |-> decoded, chunks |-> w.chunks, threw |-> decoded.disabled]

Decoded(w, d, decoded) ==
  [fec |-> decoded, chunks |-> w.chunks \cup RecoveredChunks(d),
   threw |-> decoded.disabled]

(***************************************************************************)
(* has_data, for which d is the decoder that has checked its region.  When *)
(* elimination fails, siamese_decode tries again for every recovery packet *)
(* after the region, but with the matrix of the region, which it grows     *)
(* only at the end (SiameseDecoder.cpp:679-722): all fail alike, and it    *)
(* answers NeedMoreData.                                                   *)
(***************************************************************************)
DecodeIfReady(w, d, lucky) ==
  IF ~IsRecoveryPossible(d) THEN [w EXCEPT !.fec = d]
  ELSE IF ~IsSolvable(d) \/ ~lucky THEN [w EXCEPT !.threw = TRUE]
  ELSE Decoded(w, d, BackSubstitution(d))

(***************************************************************************)
(* One turn of "while(has_data()) get_new_chunks()".  Elimination may fail *)
(* on a matrix that could have been regular: "lucky" says it does not.     *)
(***************************************************************************)
GetNewChunks(w, lucky) ==
  IF w.threw THEN w
  ELSE IF w.fec.recovered # {}
  THEN [w EXCEPT !.chunks = @ \cup w.fec.recovered, !.fec.recovered = {}]
  ELSE DecodeIfReady(w, CheckRecoveryPossible(w.fec), lucky)

\* A turn that recovers something uses up a packet of the list, or the
\* recovered copy: there are at most so many turns, and then idle ones.
AllNewChunks(d, lucky) ==
  LET turn[n \in Nat] ==
        IF n = 0 THEN [fec |-> d, chunks |-> {}, threw |-> d.disabled]
        ELSE GetNewChunks(turn[n - 1], lucky)
  IN  turn[Len(d.recs) + 2]

Processed(s, symbol, new) ==
  LET chunks == new.chunks
                  \cup (IF symbol.fec THEN {} ELSE {<<symbol.index, symbol.chunk>>})
  IN  [threw  |-> new.threw \/ AckNeedsMoreData(new.fec),
       stream |-> [fec    |-> new.fec,
                   buffer |-> ProcessOriginalChunks(s.buffer, chunks)]]

(***************************************************************************)
(* process_symbol, and generate_ack after it.  "threw": one of them did.   *)
(***************************************************************************)
ProcessSymbol(s, symbol, lucky) ==
  Processed(s, symbol, AllNewChunks(AddSymbol(s.fec, symbol), lucky))

GenerateAck(s) == AckColumn(s.fec)

=============================================================================
