--------------------------- MODULE SiameseDecoder ---------------------------
(***************************************************************************)
(* The Siamese decoder as StreamFecDecoder uses it: add an original or a   *)
(* recovery packet, ask whether recovery is possible, decode, write an     *)
(* acknowledgement.  A decoder is a record; each operator returns the      *)
(* record after the call.                                                  *)
(*                                                                         *)
(* The window holds elements 0 .. count-1, element e being column          *)
(* columnStart + e; got is the set of elements received or recovered, and  *)
(* next the first element that is not.  recs is the sorted list of         *)
(* recovery packets, each protecting elements start .. end-1.  checked is  *)
(* the cached region of the last CheckRecoveryPossible (count = 0: none).  *)
(*                                                                         *)
(* Data is abstract: a recovery packet knows the number of the first chunk *)
(* it protects, and recovering an element yields the chunk's number.  The  *)
(* running sums above SIAMESE_CAUCHY_THRESHOLD are abstracted as in        *)
(* SiameseEncoder.  So is what a failed decode leaves behind: its caller   *)
(* does not survive one.                                                   *)
(***************************************************************************)
EXTENDS SiameseCommon, Sequences, FiniteSets, SequencesExt

CONSTANT MaxLossRecovery   \* kMaximumLossRecoveryCount

ASSUME SiameseDecoderAssumption == MaxLossRecovery \in Nat

NothingChecked == [count |-> 0, start |-> 0, end |-> 0, lost |-> 0]

DecoderInit ==
  [columnStart |-> 0, count |-> 0, got |-> {}, next |-> 0, latestColumn |-> 0,
   recs |-> <<>>, lastMetadata |-> [columnStart |-> 0, sumCount |-> 0],
   recovered |-> {}, checked |-> NothingChecked, disabled |-> FALSE]

DecoderElement(d, column) == SubtractColumns(column, d.columnStart)

\* NextExpectedElement is unsigned: below 0 it is beyond every element.
NextIsFrom(d, element) == d.next < 0 \/ d.next >= element

RangeLost(d, start, end) == (start .. end - 1) \ d.got

\* FindNextLostElement: the first element from "from" on that is lost, or
\* the end of the window.
NextLost(d, from) ==
  IF from >= d.count THEN d.count
  ELSE Min(RangeLost(d, from, d.count) \cup {d.count})

GrowWindow(d, end) == [d EXCEPT !.count = IF end > @ THEN end ELSE @]

ResetChecked(d) == [d EXCEPT !.checked = NothingChecked]

\* Mutant: the cached region survives an original that comes within it.
KeepChecked(d, element) == d

ResetIfChecked(d, element) ==
  IF element >= d.checked.start /\ element < d.checked.end
  THEN ResetChecked(d) ELSE d

DeletePacketsBefore(d, element) ==
  LET kept == {i \in 1 .. Len(d.recs) : d.recs[i].end > element}
  IN  [d EXCEPT !.recs = IF kept = {} THEN <<>>
                         ELSE SubSeq(@, Min(kept), Len(@))]

\* IterateNextExpectedElement, and the deletion that follows each call
AdvanceNext(d, from) ==
  IF NextIsFrom(d, d.count) THEN DeletePacketsBefore(d, d.next)
  ELSE LET moved == [d EXCEPT !.next = NextLost(d, from)]
       IN  DeletePacketsBefore(moved, moved.next)

-----------------------------------------------------------------------------
(* DecoderPacketWindow::RemoveElements                                     *)

(***************************************************************************)
(* The first element to keep: the earliest start of the recovery packets   *)
(* held, or of the last one received in order if none is held.  -1: that   *)
(* one was removed already, which "should never happen".                   *)
(***************************************************************************)
FirstKept(d) ==
  IF d.recs # <<>>
  THEN Min({d.recs[i].start : i \in 1 .. Len(d.recs)})
  ELSE LET end == DecoderElement(d, d.lastMetadata.columnStart
                                      + d.lastMetadata.sumCount)
       IN  IF IsColumnDeltaNegative(end) \/ end < d.lastMetadata.sumCount
           THEN -1
           ELSE end - d.lastMetadata.sumCount

ShiftChecked(c, n) ==
  IF c.start < n \/ c.end < n THEN NothingChecked
  ELSE [c EXCEPT !.start = @ - n, !.end = @ - n]

ShiftPacket(r, n) == [r EXCEPT !.start = @ - n, !.end = @ - n]

DropFront(d, n) ==
  [d EXCEPT !.columnStart = AddColumns(@, n),
            !.count       = @ - n,
            !.got         = {e - n : e \in {g \in @ : g >= n}},
            !.next        = @ - n,
            !.recs        = [i \in DOMAIN @ |-> ShiftPacket(@[i], n)],
            !.checked     = ShiftChecked(@, n)]

RemoveElements(d) ==
  IF ~NextIsFrom(d, RemoveThreshold) THEN d
  ELSE LET kept == FirstKept(d)
       IN  IF kept = -1 THEN [d EXCEPT !.disabled = TRUE]
           ELSE IF kept < RemoveThreshold THEN d
           ELSE DropFront(d, WholeSubwindows(kept))

\* The condition on which recovering a packet trims the window.
TrimPastChecked(d) ==
  IF d.checked.end >= RemoveThreshold THEN RemoveElements(d) ELSE d

-----------------------------------------------------------------------------
(* siamese_decoder_add_original                                            *)

(***************************************************************************)
(* A packet from before the window, or received or recovered already, is   *)
(* reported as Siamese_DuplicateData, which the caller accepts.            *)
(***************************************************************************)
AddOriginal(d, column) ==
  LET element == DecoderElement(d, column)
      grown   == GrowWindow(d, element + 1)
      added   == [grown EXCEPT !.got = @ \cup {element}]
      moved   == IF element = d.next THEN AdvanceNext(added, element + 1)
                                     ELSE added
  IN  IF IsColumnDeltaNegative(element) \/ element \in d.got THEN d
      ELSE ResetIfChecked(moved, element)

-----------------------------------------------------------------------------
(* siamese_decoder_add_recovery                                            *)

(***************************************************************************)
(* RecoveryPacketList::Insert: the list is sorted by end, and among equal  *)
(* ends by start, the later start first.  A packet that does not go to the *)
(* end of a list that is not empty may allow a smaller solution.           *)
(***************************************************************************)
GoesAfter(r, prev) ==
  \/ r.end > prev.end
  \/ r.end = prev.end
       /\ IsColumnDeltaNegative(SubtractColumns(r.columnStart, prev.columnStart))

InsertionPoint(d, r) ==
  Max({0} \cup {i \in 1 .. Len(d.recs) : GoesAfter(r, d.recs[i])})

\* Mutant: the cached region survives a packet that sorts into the list.
InsertKeepsChecked(d, r) ==
  [d EXCEPT !.recs = InsertAt(@, InsertionPoint(d, r) + 1, r)]

Insert(d, r) ==
  LET prev     == InsertionPoint(d, r)
      inserted == [d EXCEPT !.recs = InsertAt(@, prev + 1, r)]
  IN  IF prev = 0 \/ prev < Len(d.recs) THEN ResetChecked(inserted) ELSE inserted

\* Mutant: the last recovery packet in order is not remembered.
ForgetMetadata(d, p) == d

RememberMetadata(d, p) ==
  [d EXCEPT !.lastMetadata = [columnStart |-> p.columnStart,
                              sumCount    |-> p.sumCount]]

\* AddSingleRecovery: the packet is a copy of one original.
AddSingleRecovery(d, p, element) ==
  LET added == ResetIfChecked([d EXCEPT !.got       = @ \cup {element},
                                        !.recovered = @ \cup {<<p.columnStart, p.first>>}],
                              element)
  IN  IF element \in d.got THEN d
      ELSE IF element # d.next THEN added
      ELSE TrimPastChecked(AdvanceNext(added, element + 1))

(***************************************************************************)
(* A packet of more than one column goes into the list.                    *)
(***************************************************************************)
KeepRecovery(d, p, start, outOfOrder) ==
  LET r        == [columnStart |-> p.columnStart, start |-> start,
                   end |-> start + p.sumCount, row |-> p.row, first |-> p.first]
      inserted == Insert(d, r)
      noted    == IF outOfOrder THEN inserted ELSE RememberMetadata(inserted, p)
  IN  IF start >= RemoveThreshold THEN RemoveElements(noted) ELSE noted

UseRecovery(d, p, start, outOfOrder) ==
  LET grown == GrowWindow(d, start + p.sumCount)
  IN  IF p.sumCount = 1 THEN AddSingleRecovery(grown, p, start)
                        ELSE KeepRecovery(grown, p, start, outOfOrder)

\* A packet that ends at or before the next expected element: it only
\* tells, when it is in order, how far the sender has come.
PassOver(d, p, start, outOfOrder) ==
  IF outOfOrder \/ start < RemoveThreshold THEN d
  ELSE RemoveElements(RememberMetadata(d, p))

AddRecovery(d, p) ==
  LET columnEnd  == p.columnStart + p.sumCount
      outOfOrder == IsRawDeltaNegative(columnEnd - d.latestColumn)
      seen       == IF outOfOrder THEN d
                    ELSE [d EXCEPT !.latestColumn = columnEnd % ColumnPeriod]
      end        == DecoderElement(d, columnEnd)
      start      == end - p.sumCount
  IN  IF d.count = 0
      THEN IF outOfOrder THEN seen
           ELSE UseRecovery([seen EXCEPT !.columnStart = p.columnStart],
                            p, 0, outOfOrder)
      ELSE IF IsColumnDeltaNegative(end) \/ start < 0 THEN seen
      ELSE IF NextIsFrom(d, end) THEN PassOver(seen, p, start, outOfOrder)
      ELSE UseRecovery(seen, p, start, outOfOrder)

-----------------------------------------------------------------------------
(* siamese_decoder_is_ready                                                *)

(***************************************************************************)
(* CheckRecoveryPossible grows the region it checked last, one recovery    *)
(* packet at a time, until it holds as many packets as losses.  The losses *)
(* counted before are not counted again.                                   *)
(***************************************************************************)
CheckedHead(d) ==
  LET r == Head(d.recs)
  IN  [count |-> 1, start |-> r.start, end |-> r.end,
       lost  |-> Cardinality(RangeLost(d, r.start, r.end))]

CheckOneMore(d, c) ==
  LET end == Max({c.end, d.recs[c.count + 1].end})
  IN  [c EXCEPT !.count = @ + 1, !.end = end,
                !.lost  = @ + Cardinality(RangeLost(d, c.end, end))]

GrowChecked(d, from) ==
  LET grown[n \in Nat] ==
        IF n = 0 THEN from
        ELSE LET c == grown[n - 1]
             IN  IF c.count < c.lost /\ c.count < Len(d.recs)
                 THEN CheckOneMore(d, c) ELSE c
  IN  grown[Len(d.recs)]

CheckRecoveryPossible(d) ==
  IF d.recs = <<>> THEN d
  ELSE [d EXCEPT !.checked =
          GrowChecked(d, IF @.count = 0 THEN CheckedHead(d) ELSE @)]

\* Mutant: one packet more than there are losses is asked for.
IsRecoveryPossibleWithSpare(d) ==
  /\ d.checked.count > 0
  /\ d.checked.count > d.checked.lost
  /\ d.checked.lost =< MaxLossRecovery

IsRecoveryPossible(d) ==
  /\ d.checked.count > 0
  /\ d.checked.count >= d.checked.lost
  /\ d.checked.lost =< MaxLossRecovery

-----------------------------------------------------------------------------
(* siamese_decode                                                          *)

CheckedLost(d) == RangeLost(d, d.checked.start, d.checked.end)

(***************************************************************************)
(* The row of the matrix that a packet gives has an entry for each lost    *)
(* column from the first one on, up to the first one it does not protect.  *)
(***************************************************************************)
RowEntries(d, r) ==
  LET lost == CheckedLost(d)
  IN  {x \in lost : \A y \in lost : y =< x => r.start =< y /\ y < r.end}

(***************************************************************************)
(* Gaussian elimination can only succeed when every lost column from x on  *)
(* finds a row of its own.  Two packets of the same row number with the    *)
(* same entries give the same row of the matrix.                           *)
(***************************************************************************)
MatrixRows(d) ==
  {<<d.recs[i].row, RowEntries(d, d.recs[i])>> : i \in 1 .. d.checked.count}

IsSolvable(d) ==
  \A x \in CheckedLost(d) :
    Cardinality({r \in MatrixRows(d) : x \in r[2]})
      >= Cardinality({y \in CheckedLost(d) : y >= x})

ChunkAt(d, element) ==
  LET i == CHOOSE i \in 1 .. d.checked.count :
             d.recs[i].start =< element /\ element < d.recs[i].end
  IN  d.recs[i].first + (element - d.recs[i].start)

\* The packets that siamese_decode returns: their numbers and their data.
RecoveredChunks(d) ==
  {<<AddColumns(d.columnStart, x), ChunkAt(d, x)>> : x \in CheckedLost(d)}

(***************************************************************************)
(* BackSubstitution: the lost columns of the region are recovered.  The    *)
(* next expected one has to be among them.                                 *)
(***************************************************************************)
BackSubstitution(d) ==
  LET solved == [d EXCEPT !.got = @ \cup CheckedLost(d)]
  IN  ResetChecked(
        IF d.next \in CheckedLost(d)
        THEN TrimPastChecked(AdvanceNext(solved, d.checked.end))
        ELSE [solved EXCEPT !.disabled = TRUE])

-----------------------------------------------------------------------------
(* siamese_decoder_ack                                                     *)

AckNeedsMoreData(d) == d.count = 0

\* Mutant: the acknowledgement names the column after the next expected one.
AckColumnPlus1(d) == AddColumns(d.columnStart, d.next + 1)

AckColumn(d) == AddColumns(d.columnStart, d.next)

=============================================================================
