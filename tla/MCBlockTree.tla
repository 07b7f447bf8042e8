---------------------------- MODULE MCBlockTree -----------------------------
(***************************************************************************)
(* Trees of two hops for BlockTree, and the faults that the redundancy is  *)
(* enough for: the source sends SymbolsToSend symbols of which BlockCount  *)
(* are needed, a Node at least BlockCount + SymbolsToSend.                 *)
(***************************************************************************)
EXTENDS BlockTree

CONSTANTS relay, leaf

MCParent == [n \in Node \ {relay} |-> relay]

MCNoFaults == [n \in Node |-> 0]

MCMaxFaults == [n \in Node |-> IF n = relay THEN SymbolsToSend - BlockCount
                                            ELSE SymbolsToSend]

=============================================================================
