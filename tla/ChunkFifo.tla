------------------------------ MODULE ChunkFifo -----------------------------
(***************************************************************************)
(* What a stream promises to a receiver: the source's chunks, each once,   *)
(* in the order sent, with no gap (the goal in fec.hpp:28-29).  A step     *)
(* sends some chunks or delivers some of those sent and not yet delivered. *)
(***************************************************************************)
EXTENDS Integers, Sequences

VARIABLES sent, delivered

Init == sent \in Nat /\ delivered = <<>>

Send == sent' >= sent /\ UNCHANGED delivered

Deliver ==
  \E n \in Len(delivered) .. sent :
    delivered' = delivered \o [i \in 1 .. n - Len(delivered) |-> Len(delivered) + i]
      /\ UNCHANGED sent

Next == Send \/ Deliver

Spec == Init /\ [][Next]_<<sent, delivered>>

=============================================================================
