-------------------------------- MODULE Block -------------------------------
(***************************************************************************)
(* A Block as it is received: the symbols it was given, and a BlockFec,    *)
(* which is one wirehair codec, a decoder until the block is complete and  *)
(* an encoder from then on.  A symbol is its id (its m_packet_index).      *)
(***************************************************************************)
EXTENDS Wirehair

BlockInit == [decoded |-> FALSE, seen |-> {}, codec |-> DecoderInit]

-----------------------------------------------------------------------------
(* process_symbol                                                          *)

\* Mutant: a symbol counts as seen only if the block still waits for more.
AfterDecodeUnseen(b, id, codec) ==
  LET success == Result(codec, id) = "Success"
  IN  [ready |-> success,
       threw |-> Result(codec, id) = "InvalidInput",
       block |-> [decoded |-> success, codec |-> codec,
                  seen |-> IF success THEN b.seen ELSE b.seen \cup {id}]]

\* The symbol was fed to the codec.  An answer that is neither Success nor
\* NeedMore is thrown; after Success the data is kept, in m_decoded.
AfterDecode(b, id, codec) ==
  [ready |-> Result(codec, id) = "Success",
   threw |-> Result(codec, id) = "InvalidInput",
   block |-> [decoded |-> Result(codec, id) = "Success", codec |-> codec,
              seen |-> b.seen \cup {id}]]

\* Mutant: a symbol is fed to the codec even if the block is complete.
ProcessSymbolAlways(b, id, lucky) ==
  AfterDecode(b, id, Fed(b.codec, id, lucky))

ProcessSymbol(b, id, lucky) ==
  IF b.decoded THEN [ready |-> FALSE, threw |-> FALSE, block |-> b]
  ELSE AfterDecode(b, id, Fed(b.codec, id, lucky))

-----------------------------------------------------------------------------
(* block_packet_range                                                      *)

\* "n_original() * REDUNDANCY + 0.5", truncated.  (Floats give one less for
\* some blocks of 45 symbols and more.)
SymbolsToSend == (13 * BlockCount + 5) \div 10

\* Mutant: the generator does not skip what was seen.
UnseenRangeFromZero(b, n) == 0 .. n - 1

\* unseen_range: the first n ids that the block was not given.
UnseenRange(b, n) ==
  {i \in 0 .. n + Cardinality(b.seen) - 1 :
     i \notin b.seen /\ Cardinality((0 .. i) \ b.seen) =< n}

=============================================================================
