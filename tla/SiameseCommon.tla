---------------------------- MODULE SiameseCommon ---------------------------
(***************************************************************************)
(* The geometry that the Siamese encoder and decoder share: lanes that a   *)
(* window is aligned to, and subwindows by which it is trimmed.  Both ends *)
(* trim only from a threshold of two subwindows on.                        *)
(***************************************************************************)
EXTENDS SiameseColumns

CONSTANTS LaneCount,       \* kColumnLaneCount
          SubwindowSize    \* kSubwindowSize

ASSUME SiameseCommonAssumption ==
  /\ LaneCount \in Nat \ {0}
  /\ SubwindowSize \in Nat \ {0}
  /\ SubwindowSize % LaneCount = 0
  /\ ColumnPeriod % LaneCount = 0

RemoveThreshold == 2 * SubwindowSize

WholeSubwindows(elements) == (elements \div SubwindowSize) * SubwindowSize

=============================================================================
