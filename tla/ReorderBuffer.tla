---------------------------- MODULE ReorderBuffer ---------------------------
(***************************************************************************)
(* The state of ContinuousStreamDecoder above the FEC decoder: the index   *)
(* of the next chunk to hand out and the priority queue of chunks that     *)
(* wait for their turn.  The queue (m_symbols_ahead) has the least index   *)
(* on top and does not remove duplicates, so it is, for every index, the   *)
(* sequence of the chunks waiting under that index.                        *)
(***************************************************************************)
EXTENDS SiameseColumns, Sequences

EmptyBuffer == [next |-> 0, ahead |-> [c \in Column |-> <<>>]]

ReorderBuffers(Chunk) == [next : Column, ahead : [Column -> Seq(Chunk)]]

\* Mutant: the expected chunk counts as processed already.
ProcessBeyondNext(b, symbols) ==
  LET Queued(c) == {s \in symbols : s[1] = c /\ c > b.next}
      Push(c)   == IF Queued(c) = {} THEN b.ahead[c]
                   ELSE Append(b.ahead[c], (CHOOSE s \in Queued(c) : TRUE)[2])
  IN  [b EXCEPT !.ahead = [c \in Column |-> Push(c)]]

(***************************************************************************)
(* process_original_chunk for a set of symbols, pairs of an index and the  *)
(* chunk that came or was recovered under it: each is dropped when its     *)
(* index is below the next one, as plain numbers, and queued otherwise.    *)
(***************************************************************************)
ProcessOriginalChunks(b, symbols) ==
  LET Queued(c) == {s \in symbols : s[1] = c /\ c >= b.next}
      Push(c)   == IF Queued(c) = {} THEN b.ahead[c]
                   ELSE Append(b.ahead[c], (CHOOSE s \in Queued(c) : TRUE)[2])
  IN  [b EXCEPT !.ahead = [c \in Column |-> Push(c)]]

(***************************************************************************)
(* has_data after j calls of get_chunk, all of which found has_data true:  *)
(* the top of the queue is the least index still waiting, and it has to be *)
(* the one expected.  An index below it is out of the way when nothing     *)
(* waited there, or one chunk did and an earlier call took it.             *)
(***************************************************************************)
Taken(b, j) == AddColumns(b.next, j)

HasData(b, j) ==
  /\ b.ahead[Taken(b, j)] # <<>>
  /\ \A c \in 0 .. Taken(b, j) - 1 :
       \/ b.ahead[c] = <<>>
       \/ Len(b.ahead[c]) = 1 /\ \E i \in 0 .. j - 1 : c = Taken(b, i)

(***************************************************************************)
(* The loop "while(has_data()) get_chunk()" makes exactly n calls, takes   *)
(* these chunks in this order, and leaves this buffer.                     *)
(***************************************************************************)
IsWholeRun(b, n) == (\A j \in 0 .. n - 1 : HasData(b, j)) /\ ~HasData(b, n)

RunLengths == 0 .. ColumnPeriod - 1

TakenChunks(b, n) == [j \in 1 .. n |-> Head(b.ahead[Taken(b, j - 1)])]

\* Mutant: get_chunk returns the chunk on top and does not take it out.
AfterPeeking(b, n) == b

\* Mutant: the next index is not masked to the width of a column.
AfterRunUnmasked(b, n) ==
  [next  |-> b.next + n,
   ahead |-> [c \in Column |-> IF \E j \in 0 .. n - 1 : c = Taken(b, j)
                                THEN Tail(b.ahead[c])
                                ELSE b.ahead[c]]]

AfterRun(b, n) ==
  [next  |-> Taken(b, n),
   ahead |-> [c \in Column |-> IF \E j \in 0 .. n - 1 : c = Taken(b, j)
                                THEN Tail(b.ahead[c])
                                ELSE b.ahead[c]]]

=============================================================================
