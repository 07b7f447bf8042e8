--------------------------- MODULE SiameseEncoder ---------------------------
(***************************************************************************)
(* The Siamese encoder as StreamFecEncoder uses it: add an original packet,*)
(* take an acknowledgement, encode a recovery packet.  An encoder is a     *)
(* record; each operator returns the record after the call.                *)
(*                                                                         *)
(* The window holds elements 0 .. count-1, element e being column          *)
(* columnStart + e.  Elements below firstUnremoved are acknowledged and    *)
(* are only dropped, by whole subwindows, when the next recovery packet is *)
(* encoded.  "added" counts the chunks ever added: it stands for their     *)
(* data, a chunk's data being its number.                                  *)
(*                                                                         *)
(* A recovery packet protects the unacknowledged columns (metadata         *)
(* ColumnStart with SumCount = LDPCCount): a copy of the only one, or a    *)
(* parity or Cauchy row.  The running sums that take over above            *)
(* SIAMESE_CAUCHY_THRESHOLD unacknowledged columns are data: they change   *)
(* how a row is computed, and are abstracted here.                         *)
(***************************************************************************)
EXTENDS SiameseCommon

CONSTANTS MaxPackets,     \* SIAMESE_MAX_PACKETS
          CauchyMaxRows   \* kCauchyMaxRows

ASSUME SiameseEncoderAssumption ==
  /\ MaxPackets \in Nat
  /\ MaxPackets >= LaneCount
  /\ CauchyMaxRows \in Nat \ {0}

SiameseEncoders ==
  [nextColumn : Column, columnStart : Column, count : Nat,
   firstUnremoved : Nat, nextColumnExpected : Column,
   nextParityColumn : Column, nextCauchyRow : Nat, added : Nat]

EncoderInit ==
  [nextColumn |-> 0, columnStart |-> 0, count |-> 0, firstUnremoved |-> 0,
   nextColumnExpected |-> 0, nextParityColumn |-> 0, nextCauchyRow |-> 0,
   added |-> 0]

EncoderElement(e, column) == SubtractColumns(column, e.columnStart)

-----------------------------------------------------------------------------
(* siamese_encoder_add                                                     *)

MaxPacketsReached(e) == MaxPackets - e.count =< 0

(***************************************************************************)
(* A packet added to an empty window starts a new one, aligned so that     *)
(* element and column fall into the same lane.                             *)
(***************************************************************************)
StartNewWindow(e) ==
  LET element == e.nextColumn % LaneCount
  IN  [e EXCEPT !.columnStart    = e.nextColumn - element,
                !.firstUnremoved = element,
                !.count          = element + 1]

EncoderAdd(e) ==
  LET window == IF e.count > 0 THEN [e EXCEPT !.count = @ + 1]
                               ELSE StartNewWindow(e)
  IN  [window EXCEPT !.nextColumn = AddColumns(@, 1), !.added = @ + 1]

-----------------------------------------------------------------------------
(* siamese_encoder_ack                                                     *)

\* Mutant: an acknowledgement of the whole window does not empty it.
RemoveBeforeKeepsOne(e, column) ==
  LET element == EncoderElement(e, column)
  IN  IF element =< e.count
      THEN IF e.firstUnremoved < element
           THEN [e EXCEPT !.firstUnremoved = element]
           ELSE e
      ELSE IF IsColumnDeltaNegative(element)
           THEN e
           ELSE [e EXCEPT !.count = 0]

RemoveBefore(e, column) ==
  LET element == EncoderElement(e, column)
  IN  IF element < e.count
      THEN IF e.firstUnremoved < element
           THEN [e EXCEPT !.firstUnremoved = element]
           ELSE e
      ELSE IF IsColumnDeltaNegative(element)
           THEN e
           ELSE [e EXCEPT !.count = 0]

(***************************************************************************)
(* An acknowledgement older than the newest one seen is ignored.  (A       *)
(* repeated one is, too: handling it again would change nothing here.)     *)
(***************************************************************************)
IsOldAck(e, expected) ==
  IsColumnDeltaNegative(SubtractColumns(expected, e.nextColumnExpected))

Acknowledge(e, expected) ==
  IF IsOldAck(e, expected)
  THEN e
  ELSE RemoveBefore([e EXCEPT !.nextColumnExpected = expected], expected)

-----------------------------------------------------------------------------
(* siamese_encode                                                          *)

\* Mutant: the window is trimmed, and its first unremoved element is not moved.
EncoderRemoveElementsOnly(e) ==
  LET removed == WholeSubwindows(e.firstUnremoved)
  IN  IF e.firstUnremoved < RemoveThreshold THEN e
      ELSE [e EXCEPT !.columnStart = AddColumns(@, removed),
                     !.count       = @ - removed]

EncoderRemoveElements(e) ==
  LET removed == WholeSubwindows(e.firstUnremoved)
  IN  IF e.firstUnremoved < RemoveThreshold THEN e
      ELSE [e EXCEPT !.columnStart    = AddColumns(@, removed),
                     !.count          = @ - removed,
                     !.firstUnremoved = @ - removed]

EncodeNeedsMoreData(e) == e.count =< 0

\* Mutant: one packet too few counted.
UnacknowledgedCountLess1(e) == e.count - e.firstUnremoved - 1

UnacknowledgedCount(e) == e.count - e.firstUnremoved

\* Mutant: the metadata names the start of the window, acknowledged or not.
RecoveryPacketOfWindow(e, row) ==
  [columnStart |-> e.columnStart,
   sumCount    |-> UnacknowledgedCount(e),
   row         |-> row,
   first       |-> e.added - UnacknowledgedCount(e) + 1]

\* ColumnStart, SumCount and Row of the metadata; "first" is the number of
\* the first chunk protected, which stands for the data of the packet.
RecoveryPacket(e, row) ==
  [columnStart |-> AddColumns(e.columnStart, e.firstUnremoved),
   sumCount    |-> UnacknowledgedCount(e),
   row         |-> row,
   first       |-> e.added - UnacknowledgedCount(e) + 1]

IsTimeForParity(e) ==
  LET element == EncoderElement(e, e.nextParityColumn)
  IN  element =< e.firstUnremoved \/ IsColumnDeltaNegative(element)

(***************************************************************************)
(* The recovery packet and the encoder after it, for a window that is not  *)
(* empty: a copy of the single unacknowledged packet, else a parity row    *)
(* when the previous one protects nothing that is still unacknowledged,    *)
(* else the next Cauchy row.                                               *)
(***************************************************************************)
Encode(e) ==
  LET w == EncoderRemoveElements(e)
      end == AddColumns(AddColumns(w.columnStart, w.firstUnremoved),
                        UnacknowledgedCount(w))
  IN  IF UnacknowledgedCount(w) = 1
      THEN [packet |-> RecoveryPacket(w, 0), encoder |-> w]
      ELSE IF IsTimeForParity(w)
      THEN [packet  |-> RecoveryPacket(w, 0),
            encoder |-> [w EXCEPT !.nextParityColumn = end]]
      ELSE [packet  |-> RecoveryPacket(w, w.nextCauchyRow + 1),
            encoder |-> [w EXCEPT !.nextCauchyRow = (@ + 1) % CauchyMaxRows]]

=============================================================================
