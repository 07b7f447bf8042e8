--------------------------- MODULE SiameseColumns ---------------------------
(***************************************************************************)
(* Column numbers of the Siamese code: the packet numbers of a stream.     *)
(* They count modulo a period (0x400000 in the code) and are compared by   *)
(* their distance: a distance of half a period or more is "negative".      *)
(***************************************************************************)
EXTENDS Integers

CONSTANT ColumnPeriod   \* kColumnPeriod; a small number in the models

ASSUME ColumnPeriodAssumption == ColumnPeriod \in Nat \ {0, 1}

Column == 0 .. ColumnPeriod - 1

\* Mutant: the sum is not masked to the width of a column.
AddColumnsUnmasked(a, b) == a + b

SubtractColumns(a, b) == (a - b) % ColumnPeriod
AddColumns(a, b)      == (a + b) % ColumnPeriod
IsColumnDeltaNegative(delta) == delta >= ColumnPeriod \div 2

(***************************************************************************)
(* A difference of two unsigned columns taken without the reduction        *)
(* modulo the period: below zero it wraps to a number near 2^32, which is  *)
(* beyond half a period whatever the period.                               *)
(***************************************************************************)
IsRawDeltaNegative(delta) == delta < 0 \/ IsColumnDeltaNegative(delta)

(***************************************************************************)
(* Chunks of a stream are numbered 1, 2, 3 ... by the models; the code     *)
(* only ever sees the column that the encoder assigned to the chunk.       *)
(***************************************************************************)
ColumnOfChunk(n) == (n - 1) % ColumnPeriod

=============================================================================
