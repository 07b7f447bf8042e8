----------------------------- MODULE StreamNode -----------------------------
(***************************************************************************)
(* What a Node keeps for one channel (ContinuousStream: a decoder and an   *)
(* encoder) and what handle_packet does with it.  A Node decodes the       *)
(* stream it receives, acknowledges it, and encodes the chunks it got      *)
(* anew for its own subscribers; every Node does, a leaf included.         *)
(***************************************************************************)
EXTENDS SegmentEncoder, SegmentDecoder

ContinuousStreamInit == [decoder |-> StreamDecoderInit,
                         encoder |-> StreamEncoderInit]

-----------------------------------------------------------------------------
(* while(encoder.has_data()) encoder.get_symbol()                          *)

WithSymbol(w, got) ==
  [w EXCEPT !.stream = got.stream, !.symbols = Append(@, got.symbol)]

TakeSymbol(w) ==
  IF w.threw \/ ~HasSymbol(w.stream) THEN w
  ELSE IF GetSymbolThrows(w.stream) THEN [w EXCEPT !.threw = TRUE]
  ELSE WithSymbol(w, GetSymbol(w.stream))

\* After a chunk follow at most FecNumerator recovery symbols.
TakeSymbols(s) ==
  LET turn[n \in Nat] ==
        IF n = 0 THEN [stream |-> s, symbols |-> <<>>, threw |-> FALSE]
        ELSE TakeSymbol(turn[n - 1])
  IN  turn[(Len(s.pending) + 1) * (FecNumerator + 1)]

\* queue_chunk for each of the chunks, and then the loop above
EncodeChunks(s, chunks) == TakeSymbols([s EXCEPT !.pending = @ \o chunks])

-----------------------------------------------------------------------------
(* handle_packet, case STREAM                                              *)

\* The end: the chunks taken out are encoded, the symbols to be forwarded.
AfterEncoding(decoder, n, encoded) ==
  [threw   |-> encoded.threw,
   acks    |-> {GenerateAck(decoder)},
   chunks  |-> TakenChunks(decoder.buffer, n),
   symbols |-> IF encoded.threw THEN <<>> ELSE encoded.symbols,
   node    |-> [decoder |-> [decoder EXCEPT !.buffer = AfterRun(@, n)],
                encoder |-> encoded.stream]]

\* The symbol is processed, and a run of n chunks is next in order.
AfterDecoding(node, decoder, n) ==
  AfterEncoding(decoder, n,
                EncodeChunks(node.encoder, TakenChunks(decoder.buffer, n)))

HandleProcessed(node, processed) ==
  IF processed.threw
  THEN [threw |-> TRUE, acks |-> {}, chunks |-> <<>>, symbols |-> <<>>,
        node |-> node]
  ELSE AfterDecoding(node, processed.stream,
         CHOOSE n \in RunLengths : IsWholeRun(processed.stream.buffer, n))

(***************************************************************************)
(* The handler, for a packet that is not "lost" in it: process_symbol, the *)
(* acknowledgement, the chunks that are next in order, and the symbols for *)
(* the node's own subscribers.                                             *)
(***************************************************************************)
HandleStream(node, symbol, lucky) ==
  HandleProcessed(node, ProcessSymbol(node.decoder, symbol, lucky))

=============================================================================
