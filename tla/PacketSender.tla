---------------------------- MODULE PacketSender ----------------------------
(***************************************************************************)
(* AsioReceiver and the ShapedPacketQueue in it: what a Node sends to one  *)
(* subscriber.  A packet is queued; as many as the shaper lets pass are    *)
(* sent at once, and a timer wakes the sender when the next one may go.    *)
(*                                                                         *)
(* The queue is a priority queue of byte vectors, so the packet on top is  *)
(* the greatest in the order of its bytes: those of the type first, then   *)
(* those of the index, the least significant first and each a signed char. *)
(* Two bytes of an index are represented, ByteBase being the number of     *)
(* values of a byte.                                                       *)
(*                                                                         *)
(* "level" is not in the code: it is what the buffer that the shaper is a  *)
(* model of really holds, in parts of a byte so that a tick drains Kbps.   *)
(***************************************************************************)
EXTENDS BandwidthShaper, FiniteSets

CONSTANTS PacketType,     \* types in use, as their numbers
          PacketIndex,    \* values of m_packet_index in use
          PacketSize,     \* sizes of packets
          ByteBase,
          MaxQueued,      \* bound: packets queued altogether
          QueueUntil,     \* bound: the time until which packets are queued
          MaxTime,        \* bound: time
          MaxLateness,    \* how late the handler of a timer may run
          MaxSubscriptions  \* bound: subscriptions of the peer

ASSUME PacketSenderAssumption ==
  /\ PacketType \subseteq 0 .. 3
  /\ ByteBase \in Nat \ {0}
  /\ PacketIndex \subseteq 0 .. ByteBase * ByteBase - 1
  /\ PacketSize \subseteq 1 .. BufferSize
  /\ {MaxQueued, QueueUntil, MaxTime, MaxLateness, MaxSubscriptions} \subseteq Nat

\* PacketHeader::PacketType, "Ordered by priority, starting with lowest"
STREAM == 0
STREAM_ACK == 1
BLOCK == 2
CONTROL == 3

\* The number of a packet stands for its payload.
Packet == [type : PacketType, index : PacketIndex, size : PacketSize,
           payload : 1 .. MaxQueued]

NoTimer == -1

VARIABLES
  now,       \* the clock
  shaper,    \* m_shaper
  queue,     \* m_packets
  timer,     \* when the pending wait of m_timer ends, or NoTimer
  aborted,   \* a wait was aborted and its handler has not run yet
  late,      \* number of waits that ended before they could be cancelled
  up,        \* FALSE once an exception left a handler
  level,     \* what the modelled buffer holds (history)
  sent,      \* packets of the last burst, as they were sent (history)
  queued,    \* number of packets queued so far (history)
  subscriptions  \* how often the peer has subscribed (history)

vars ==
  <<now, shaper, queue, timer, aborted, late, up, level, sent, queued,
    subscriptions>>

Init ==
  /\ now = 0
  /\ shaper = ShaperInit
  /\ queue = {}
  /\ timer = NoTimer
  /\ aborted = FALSE
  /\ late = 0
  /\ up = TRUE
  /\ level = 0
  /\ sent = {}
  /\ queued = 0
  /\ subscriptions = 1

-----------------------------------------------------------------------------
(* The order of the queue                                                  *)

SignedByte(b) == IF b < ByteBase \div 2 THEN b ELSE b - ByteBase

LowByte(p)  == SignedByte(p.index % ByteBase)
HighByte(p) == SignedByte(p.index \div ByteBase)

BytesLess(p, q) ==
  \/ p.type < q.type
  \/ p.type = q.type /\ LowByte(p) < LowByte(q)
  \/ p.type = q.type /\ LowByte(p) = LowByte(q) /\ HighByte(p) < HighByte(q)
  \/ p.type = q.type /\ p.index = q.index /\ p.payload < q.payload

\* Mutant: the packet on top is the least one.
Bottom(packets) == CHOOSE p \in packets : \A q \in packets : ~BytesLess(q, p)

Top(packets) == CHOOSE p \in packets : \A q \in packets : ~BytesLess(p, q)

-----------------------------------------------------------------------------
(* maybe_send                                                              *)

CanPop(w) ==
  w.queue # {} /\ WhenCanSend(w.shaper, Top(w.queue).size) =< now

PopAndSend(w) ==
  LET p == Top(w.queue)
  IN  IF ~CanPop(w) THEN w
      ELSE [queue  |-> w.queue \ {p},
            shaper |-> DidSend(w.shaper, now, p.size),
            level  |-> w.level + p.size * NanosPerByte,
            sent   |-> w.sent \cup {p}]

\* "while(when_can_pop() <= now) send(pop_value(now))"
SendAll(packets) ==
  LET turn[n \in Nat] ==
        IF n = 0 THEN [queue |-> packets, shaper |-> shaper, level |-> level,
                       sent |-> {}]
        ELSE PopAndSend(turn[n - 1])
  IN  turn[Cardinality(packets)]

(***************************************************************************)
(* A wait is cancelled, and its handler runs with an error; one that ended *)
(* already may be past cancelling, and its handler runs as if nothing had  *)
(* happened.  "others" of those are around.                                *)
(***************************************************************************)
CancelWait(wait, others) ==
  \/ wait = NoTimer /\ late' = others /\ UNCHANGED aborted
  \/ wait # NoTimer /\ late' = others /\ aborted' = TRUE
  \/ wait # NoTimer /\ wait =< now /\ late' = others + 1 /\ UNCHANGED aborted

\* Mutant: a wait is started even when nothing is left to send.
MaybeSendAndWait(packets, wait, others) ==
  LET w == SendAll(packets)
  IN  /\ queue' = w.queue
      /\ shaper' = w.shaper
      /\ level' = w.level
      /\ sent' = w.sent
      /\ timer' = now + TimePerByte
      /\ CancelWait(wait, others)

\* Mutant: no wait is started after a packet was sent.
MaybeSendOnce(packets, wait, others) ==
  LET w == SendAll(packets)
  IN  /\ queue' = w.queue
      /\ shaper' = w.shaper
      /\ level' = w.level
      /\ sent' = w.sent
      /\ IF w.queue = {} \/ w.sent # {}
         THEN timer' = wait /\ late' = others /\ UNCHANGED aborted
         ELSE /\ timer' = WhenCanSend(w.shaper, Top(w.queue).size)
              /\ CancelWait(wait, others)

\* With packets left to send, expires_at cancels the wait that is pending.
MaybeSend(packets, wait, others) ==
  LET w == SendAll(packets)
  IN  /\ queue' = w.queue
      /\ shaper' = w.shaper
      /\ level' = w.level
      /\ sent' = w.sent
      /\ IF w.queue = {}
         THEN timer' = wait /\ late' = others /\ UNCHANGED aborted
         ELSE /\ timer' = WhenCanSend(w.shaper, Top(w.queue).size)
              /\ CancelWait(wait, others)

-----------------------------------------------------------------------------

\* Mutant: a packet is queued without asking whether others wait already.
QueuePacketAnyway(p) ==
  /\ up
  /\ now =< QueueUntil
  /\ queued < MaxQueued
  /\ p.payload = queued + 1
  /\ queued' = queued + 1
  /\ MaybeSend(queue \cup {p}, timer, late)
  /\ UNCHANGED <<now, up, subscriptions>>

QueuePacket(p) ==
  /\ up
  /\ now =< QueueUntil
  /\ queued < MaxQueued
  /\ p.payload = queued + 1
  /\ queued' = queued + 1
  /\ IF queue = {}
     THEN MaybeSend({p}, timer, late)
     ELSE /\ queue' = queue \cup {p}
          /\ sent' = {}
          /\ UNCHANGED <<shaper, level, timer, aborted, late>>
  /\ UNCHANGED <<now, up, subscriptions>>

TimerFires ==
  /\ up
  /\ timer # NoTimer
  /\ timer =< now
  /\ MaybeSend(queue, NoTimer, late)
  /\ UNCHANGED <<now, up, queued, subscriptions>>

\* Mutant: the queue survives, and its wait does not.
ResubscribeKeepsQueue ==
  /\ up
  /\ subscriptions < MaxSubscriptions
  /\ subscriptions' = subscriptions + 1
  /\ shaper' = ShaperInit
  /\ timer' = NoTimer
  /\ CancelWait(timer, late)
  /\ sent' = {}
  /\ UNCHANGED <<now, up, queue, level, queued>>

(***************************************************************************)
(* handle_packet, case CONTROL, of a peer that is subscribed already: the  *)
(* receiver is assigned a new one.  That empties its queue and cancels a   *)
(* pending wait; the handlers of earlier waits run on the new receiver.    *)
(***************************************************************************)
Resubscribe ==
  /\ up
  /\ subscriptions < MaxSubscriptions
  /\ subscriptions' = subscriptions + 1
  /\ queue' = {}
  /\ shaper' = ShaperInit
  /\ timer' = NoTimer
  /\ CancelWait(timer, late)
  /\ sent' = {}
  /\ UNCHANGED <<now, up, level, queued>>

LateWait ==
  /\ up
  /\ late > 0
  /\ MaybeSend(queue, timer, late - 1)
  /\ UNCHANGED <<now, up, queued, subscriptions>>

(***************************************************************************)
(* enforce_ec throws out of the handler of a cancelled wait.               *)
(***************************************************************************)
AbortedWait ==
  /\ up
  /\ aborted
  /\ up' = FALSE
  /\ aborted' = FALSE
  /\ UNCHANGED <<now, shaper, queue, timer, late, level, sent, queued,
                 subscriptions>>

Tick ==
  /\ now < MaxTime
  /\ timer # NoTimer => now < timer + MaxLateness
  /\ now' = now + 1
  /\ level' = IF level > Kbps THEN level - Kbps ELSE 0
  /\ sent' = {}
  /\ UNCHANGED <<shaper, queue, timer, aborted, late, up, queued, subscriptions>>

Next ==
  \/ \E p \in Packet : QueuePacket(p)
  \/ TimerFires
  \/ Resubscribe
  \/ LateWait
  \/ AbortedWait
  \/ Tick

Spec == Init /\ [][Next]_vars

(***************************************************************************)
(* Time passes, and the event loop runs the handler of a timer.            *)
(***************************************************************************)
FairSpec == Spec /\ WF_vars(Tick) /\ WF_vars(TimerFires)

-----------------------------------------------------------------------------

TypeOK ==
  /\ now \in 0 .. MaxTime
  /\ shaper \in Shapers
  /\ queue \subseteq Packet
  /\ timer \in Nat \cup {NoTimer}
  /\ aborted \in BOOLEAN
  /\ late \in Nat
  /\ up \in BOOLEAN
  /\ level \in Nat
  /\ sent \subseteq Packet
  /\ queued \in 0 .. MaxQueued
  /\ subscriptions \in Nat

(***************************************************************************)
(* "A wait is pending iff queue not empty" (asio.hpp:95): a wait too many  *)
(* would end in an error, a wait too few would leave packets unsent.  It   *)
(* holds as long as the peer does not subscribe again, which replaces the  *)
(* queue by an empty one while the handler of its wait is still to run.    *)
(***************************************************************************)
WaitPendingIffQueued ==
  up /\ subscriptions = 1 => (queue # {} <=> timer # NoTimer \/ aborted)

(***************************************************************************)
(* Unless the peer subscribes again, no handler throws, whatever order     *)
(* packets, ends of waits and late handlers come in: setting the deadline  *)
(* of a timer that is waited for would run its handler with an error, and  *)
(* enforce_ec would throw out of the event loop (asio.hpp:15-21, 85-89).   *)
(***************************************************************************)
LoopEndsOnlyByResubscription == subscriptions = 1 => up

(***************************************************************************)
(* Packets that wait are never stranded: whatever arrives meanwhile, even  *)
(* another SUBSCRIBE, there is a wait whose end will send them.            *)
(***************************************************************************)
NoPacketStranded == up /\ queue # {} => timer # NoTimer

(***************************************************************************)
(* The connection is "a buffer of a certain size that must not be          *)
(* exceeded, which the recipient drains at a certain rate" (logic.hpp:8):  *)
(* what is really in it never exceeds its size, however late the handlers  *)
(* run and whatever order and sizes the packets have.  A new subscription  *)
(* forgets what the buffer holds, so each adds no more than one size.      *)
(***************************************************************************)
BufferNotExceeded == level =< subscriptions * BufferSize * NanosPerByte

(***************************************************************************)
(* A packet does not overtake one of a higher priority in the queue        *)
(* ("Ordered by priority", packet.hpp:15).                                 *)
(***************************************************************************)
PriorityKept ==
  \A p \in sent : \A q \in queue : p.type >= q.type

(***************************************************************************)
(* Whatever is queued is sent in the end, unless a new subscription drops  *)
(* it or a handler throws.                                                 *)
(***************************************************************************)
EverythingSent == []<>(up => queue = {})

=============================================================================
