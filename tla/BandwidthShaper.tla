--------------------------- MODULE BandwidthShaper --------------------------
(***************************************************************************)
(* BandwidthShaper: the connection as a buffer that must not be exceeded   *)
(* and that the recipient drains at a rate.  A shaper is a record: as much *)
(* of the buffer was utilized at that time.                                *)
(*                                                                         *)
(* Time is in ticks.  NanosPerByte stands for the 8'000'000 ns that a byte *)
(* takes at 1 kbps, in ticks: a byte takes NanosPerByte / Kbps.            *)
(***************************************************************************)
EXTENDS Integers

CONSTANTS Kbps, NanosPerByte, BufferSize

ASSUME BandwidthShaperAssumption ==
  /\ Kbps \in Nat \ {0}
  /\ NanosPerByte \in Nat
  /\ NanosPerByte >= Kbps
  /\ BufferSize \in Nat

Shapers == [utilization : Nat, at : Nat]

ShaperInit == [utilization |-> 0, at |-> 0]

\* The integer division drops the fraction of a tick.
TimePerByte == NanosPerByte \div Kbps

\* Mutant: the packet itself is left out of the excess.
WhenHadRoom(s, bytes) == s.at + (s.utilization - BufferSize) * TimePerByte

WhenCanSend(s, bytes) ==
  s.at + (s.utilization + bytes - BufferSize) * TimePerByte

\* Mutant: an idle connection gathers credit.
FastForwardUnclamped(s, now) ==
  [utilization |-> s.utilization - (now - s.at) \div TimePerByte, at |-> now]

FastForward(s, now) ==
  LET bytesRead == (now - s.at) \div TimePerByte
  IN  [utilization |-> IF bytesRead > s.utilization THEN 0
                       ELSE s.utilization - bytesRead,
       at          |-> now]

DidSend(s, now, bytes) == [FastForward(s, now) EXCEPT !.utilization = @ + bytes]

=============================================================================
