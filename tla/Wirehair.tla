------------------------------ MODULE Wirehair ------------------------------
(***************************************************************************)
(* The fountain code that BlockFec uses, vendored: a message of N symbols  *)
(* has a symbol for every id, the first N being the message itself.  Any N *)
(* of them nearly always make the message; that some need one more is the  *)
(* "lucky" of Feed.                                                        *)
(*                                                                         *)
(* A decoder takes N symbols into its matrix and then tries to solve it,   *)
(* and again with every symbol after that.  Symbols of the message alone   *)
(* need no solving, but then all N must be there, or the input is invalid. *)
(* "rank" is the number of its rows that do not depend on others: that of  *)
(* a symbol given before always does.                                      *)
(*                                                                         *)
(* Left out: a matrix that has no room for a row (more than 32 rows refer  *)
(* to a column, or 32 symbols more than N did not do).                     *)
(***************************************************************************)
EXTENDS Integers, FiniteSets

CONSTANTS BlockCount,   \* N, _block_count
          IdPeriod      \* ids are truncated to 16 bits by Encode

ASSUME WirehairAssumption ==
  /\ BlockCount \in Nat \ {0, 1}
  /\ IdPeriod \in Nat /\ IdPeriod > BlockCount

DecoderInit == [rows |-> 0, ids |-> {}, rank |-> 0]

\* Encode: the last symbol of the message may be shorter than the others.
IsShort(id) == id % IdPeriod = BlockCount - 1

IsFinalBlock(id) == id = BlockCount - 1

IsOriginal(id) == id < BlockCount

\* The decoder once the symbol is in its matrix.
Fed(d, id, lucky) ==
  [rows |-> d.rows + 1,
   ids  |-> d.ids \cup {id},
   rank |-> IF id \notin d.ids /\ (lucky \/ IsOriginal(id)) THEN d.rank + 1
                                                          ELSE d.rank]

\* Mutant: symbols that are no part of the message count as such.
AllOriginalAlways(d) == TRUE

\* _all_original
AllOriginal(d) == \A id \in d.ids : IsOriginal(id)

(***************************************************************************)
(* DecodeFeed's result, for which d is the decoder after it.               *)
(***************************************************************************)
Result(d, id) ==
  IF \/ IsShort(id) /\ ~IsFinalBlock(id)
     \/ d.rows = BlockCount /\ AllOriginal(d) /\ d.rank < BlockCount
  THEN "InvalidInput"
  ELSE IF d.rank >= BlockCount THEN "Success" ELSE "NeedMore"

=============================================================================
