--------------------------- MODULE MCStreamChain ----------------------------
(***************************************************************************)
(* The constants of StreamChain that a .cfg file cannot write.             *)
(***************************************************************************)
EXTENDS StreamChain

\* The packets of the first hop, fewer than two per chunk, come in any order:
\* the source's queue sorts them by their bytes.
MCReorderDepth == [h \in Node |-> IF h = 1 THEN 2 * MaxChunks ELSE 0]

=============================================================================
