------------------------ MODULE PacketSender_proofs ------------------------
(***************************************************************************)
(* What is proved of PacketSender, for every rate, buffer size and set of  *)
(* packets, and without a bound on time or on the number of packets: its   *)
(* types, that a wait is pending iff packets are queued, that no handler   *)
(* throws unless the peer subscribes again, that no packet is stranded,    *)
(* that priorities are kept and that the buffer is not exceeded.           *)
(*                                                                         *)
(* The loop of maybe_send is the function SendAll, which iterates          *)
(* PopAndSend: a fact about a burst is proved by induction over its turns. *)
(***************************************************************************)
EXTENDS PacketSender, IntegerFacts, FiniteSetTheorems

USE BandwidthShaperAssumption, PacketSenderAssumption

(***************************************************************************)
(* Sending a byte takes at least one unit of time.                         *)
(***************************************************************************)
LEMMA TimePerByteIsPositive == TimePerByte \in Nat \ {0}
<1>1. NanosPerByte = Kbps * TimePerByte + (NanosPerByte % Kbps)
      /\ TimePerByte \in Int /\ NanosPerByte % Kbps \in 0 .. Kbps - 1
  BY Division DEF TimePerByte
<1>2. CASE TimePerByte =< 0
  <2>1. Kbps * TimePerByte =< Kbps * 0
    BY <1>1, <1>2, ProductAtLeast
  <2> QED  BY <1>1, <2>1
<1> QED  BY <1>1, <1>2

(***************************************************************************)
(* The ranges of a packet's fields.                                        *)
(***************************************************************************)
LEMMA PacketShape ==
  ASSUME NEW p \in Packet
  PROVE  /\ p.type \in 0 .. 3
         /\ p.size \in 1 .. BufferSize
         /\ p.payload \in 1 .. MaxQueued
         /\ p.index \in 0 .. ByteBase * ByteBase - 1
BY DEF Packet

(***************************************************************************)
(* A bounded function takes a greatest value on every non-empty set.       *)
(***************************************************************************)
LEMMA GreatestExists ==
  ASSUME NEW T, NEW f \in [T -> Int], NEW bound \in Int,
         \A x \in T : f[x] =< bound,
         NEW S \in SUBSET T, S # {}
  PROVE  \E x \in S : \A y \in S : f[y] =< f[x]
<1> DEFINE D == {bound - f[x] : x \in S}
<1>1. D \in SUBSET Nat /\ D # {}
  OBVIOUS
<1>2. PICK n \in D : \A m \in D : n =< m
  BY <1>1, LeastNatural
<1>3. PICK x \in S : n = bound - f[x]
  OBVIOUS
<1>4. ASSUME NEW y \in S PROVE f[y] =< f[x]
  <2>1. bound - f[x] =< bound - f[y]
    BY <1>2, <1>3
  <2>2. f[x] \in Int /\ f[y] \in Int
    OBVIOUS
  <2> QED  BY <2>1, <2>2
<1> QED  BY <1>4

(***************************************************************************)
(* The bytes of an index that the priority queue compares are bounded      *)
(* integers.                                                               *)
(***************************************************************************)
LEMMA BytesAreBounded ==
  ASSUME NEW p \in Packet
  PROVE  /\ LowByte(p) \in Int /\ LowByte(p) =< ByteBase
         /\ HighByte(p) \in Int /\ HighByte(p) =< ByteBase
<1>1. p.index % ByteBase \in 0 .. ByteBase - 1 /\ p.index \div ByteBase \in Int
      /\ p.index = ByteBase * (p.index \div ByteBase) + (p.index % ByteBase)
      /\ p.index \in Nat
  BY PacketShape, Division
<1>2. p.index \div ByteBase =< ByteBase
  <2> DEFINE h == p.index \div ByteBase
             square == ByteBase * ByteBase
             whole == ByteBase * h
             i == p.index
             rest == i % ByteBase
  <2>1. h \in Int /\ whole =< i /\ i < square
        /\ i \in Int /\ whole \in Int /\ square \in Int
    <3>1. h \in Int /\ rest \in Nat /\ i = whole + rest /\ i \in Nat
      BY <1>1
    <3>2. i < square /\ square \in Int
      BY PacketShape
    <3> HIDE DEF h, i, rest
    <3>3. whole \in Int
      BY <3>1
    <3> HIDE DEF whole, square
    <3> QED  BY <3>1, <3>2, <3>3
  <2> HIDE DEF h, i
  <2>2. ASSUME h > ByteBase PROVE FALSE
    <3>1. ByteBase =< h /\ ByteBase \in Int /\ ByteBase \in Nat
      BY <2>1, <2>2
    <3>2. square =< whole
      BY <2>1, <3>1, ProductAtLeast
    <3> HIDE DEF square, whole
    <3> QED  BY <2>1, <3>2
  <2>3. h =< ByteBase
    BY <2>1, <2>2
  <2> QED  BY <2>3 DEF h
<1>3. ByteBase \div 2 \in Int
  OBVIOUS
<1> QED  BY <1>1, <1>2, <1>3 DEF LowByte, HighByte, SignedByte

(***************************************************************************)
(* Each of the fields that the priority queue compares by is greatest at   *)
(* some packet, one that need not be the same for all of them.             *)
(***************************************************************************)
LEMMA GreatestPacketExists ==
  ASSUME NEW S \in SUBSET Packet, S # {}
  PROVE  /\ \E p \in S : \A q \in S : q.type =< p.type
         /\ \E p \in S : \A q \in S : LowByte(q) =< LowByte(p)
         /\ \E p \in S : \A q \in S : HighByte(q) =< HighByte(p)
         /\ \E p \in S : \A q \in S : q.payload =< p.payload
<1> DEFINE f1 == [p \in Packet |-> p.type]
           f2 == [p \in Packet |-> LowByte(p)]
           f3 == [p \in Packet |-> HighByte(p)]
           f4 == [p \in Packet |-> p.payload]
<1>1. /\ f1 \in [Packet -> Int] /\ \A p \in Packet : f1[p] = p.type
         /\ f1[p] =< 3
      /\ f4 \in [Packet -> Int] /\ \A p \in Packet : f4[p] = p.payload
         /\ f4[p] =< MaxQueued
  BY PacketShape
<1>2. /\ f2 \in [Packet -> Int] /\ \A p \in Packet : f2[p] = LowByte(p)
         /\ f2[p] =< ByteBase
      /\ f3 \in [Packet -> Int] /\ \A p \in Packet : f3[p] = HighByte(p)
         /\ f3[p] =< ByteBase
  BY BytesAreBounded
<1> HIDE DEF f1, f2, f3, f4
<1>3. \E p \in S : \A q \in S : f1[q] =< f1[p]
  BY <1>1, GreatestExists
<1>4. \E p \in S : \A q \in S : f2[q] =< f2[p]
  BY <1>2, GreatestExists
<1>5. \E p \in S : \A q \in S : f3[q] =< f3[p]
  BY <1>2, GreatestExists
<1>6. \E p \in S : \A q \in S : f4[q] =< f4[p]
  BY <1>1, GreatestExists
<1> QED  BY <1>1, <1>2, <1>3, <1>4, <1>5, <1>6

(***************************************************************************)
(* The CHOOSE in Top is well defined: a queue that is not empty has a      *)
(* packet that no other is greater than, as BytesLess orders them.         *)
(***************************************************************************)
LEMMA TopExists ==
  ASSUME NEW S \in SUBSET Packet, S # {}
  PROVE  /\ Top(S) \in S
         /\ \A q \in S : ~BytesLess(Top(S), q)
<1>1. PICK p1 \in S : \A q \in S : q.type =< p1.type
  BY GreatestPacketExists
<1> DEFINE S1 == {q \in S : q.type = p1.type}
<1>2. PICK p2 \in S1 : \A q \in S1 : LowByte(q) =< LowByte(p2)
  BY GreatestPacketExists
<1> DEFINE S2 == {q \in S1 : LowByte(q) = LowByte(p2)}
<1>3. PICK p3 \in S2 : \A q \in S2 : HighByte(q) =< HighByte(p3)
  BY GreatestPacketExists
<1> DEFINE S3 == {q \in S2 : HighByte(q) = HighByte(p3)}
<1>4. PICK p \in S3 : \A q \in S3 : q.payload =< p.payload
  BY GreatestPacketExists
<1>5. p \in S /\ p.type = p1.type /\ LowByte(p) = LowByte(p2)
      /\ HighByte(p) = HighByte(p3)
  OBVIOUS
<1>6. ASSUME NEW q \in S, BytesLess(p, q) PROVE FALSE
  <2>1. /\ p.type \in Int /\ q.type \in Int /\ LowByte(p) \in Int
           /\ LowByte(q) \in Int
        /\ HighByte(p) \in Int /\ HighByte(q) \in Int /\ p.payload \in Int
           /\ q.payload \in Int
    BY <1>5, PacketShape, BytesAreBounded
  <2>2. ~(p.type < q.type)
    BY <1>1, <1>5, <2>1
  <2>3. ASSUME p.type = q.type PROVE ~(LowByte(p) < LowByte(q))
    BY <1>2, <1>5, <2>1, <2>3
  <2>4. ASSUME p.type = q.type, LowByte(p) = LowByte(q)
        PROVE  ~(HighByte(p) < HighByte(q))
    BY <1>3, <1>5, <2>1, <2>4
  <2>5. ASSUME p.type = q.type, p.index = q.index
        PROVE  ~(p.payload < q.payload)
    <3>1. LowByte(p) = LowByte(q) /\ HighByte(p) = HighByte(q)
      BY <2>5 DEF LowByte, HighByte
    <3>2. q \in S3
      BY <1>5, <2>5, <3>1
    <3> QED  BY <1>4, <2>1, <3>2
  <2> QED  BY <1>6, <2>2, <2>3, <2>4, <2>5 DEF BytesLess
<1>7. \E x \in S : \A q \in S : ~BytesLess(x, q)
  BY <1>5, <1>6
<1> QED  BY <1>7 DEF Top

-----------------------------------------------------------------------------

Bursts == [queue : SUBSET Packet, shaper : Shapers, level : Nat,
           sent : SUBSET Packet]

BurstStart(packets) ==
  [queue |-> packets, shaper |-> shaper, level |-> level, sent |-> {}]

(***************************************************************************)
(* did_send leaves a shaper with a time and a utilization.                 *)
(***************************************************************************)
LEMMA DidSendType ==
  ASSUME NEW s \in Shapers, NEW t \in Nat, NEW bytes \in Nat
  PROVE  DidSend(s, t, bytes) \in Shapers
<1> DEFINE read == (t - s.at) \div TimePerByte
           left == IF read > s.utilization THEN 0 ELSE s.utilization - read
<1>1. s.at \in Nat /\ s.utilization \in Nat
  BY DEF Shapers
<1>2. read \in Int
  <2>1. t - s.at \in Int
    BY <1>1
  <2> QED  BY <2>1, TimePerByteIsPositive, Division
<1>3. FastForward(s, t) = [utilization |-> left, at |-> t]
  BY DEF FastForward
<1> HIDE DEF read
<1>4. left \in Nat
  BY <1>1, <1>2
<1> HIDE DEF left
<1> QED  BY <1>3, <1>4 DEF DidSend, Shapers

(***************************************************************************)
(* A turn of the loop in maybe_send leads from one state of a burst to     *)
(* another.                                                                *)
(***************************************************************************)
LEMMA PopAndSendType ==
  ASSUME now \in Nat, NEW w \in Bursts
  PROVE  PopAndSend(w) \in Bursts
<1>1. CASE ~CanPop(w)
  BY <1>1 DEF PopAndSend
<1>2. CASE CanPop(w)
  <2> DEFINE p == Top(w.queue)
  <2>1. w.queue \in SUBSET Packet /\ w.queue # {}
    BY <1>2 DEF CanPop, Bursts
  <2>2. p \in w.queue /\ p \in Packet
    BY <2>1, TopExists
  <2>3. p.size \in Nat
    BY <2>2, PacketShape
  <2>4. DidSend(w.shaper, now, p.size) \in Shapers
    BY <2>3, DidSendType DEF Bursts
  <2>5. PopAndSend(w) = [queue  |-> w.queue \ {p},
                         shaper |-> DidSend(w.shaper, now, p.size),
                         level  |-> w.level + p.size * NanosPerByte,
                         sent   |-> w.sent \cup {p}]
    BY <1>2 DEF PopAndSend
  <2>6. w.level + p.size * NanosPerByte \in Nat
    BY <2>3 DEF Bursts
  <2> HIDE DEF p
  <2> QED  BY <2>1, <2>2, <2>4, <2>5, <2>6 DEF Bursts
<1> QED  BY <1>1, <1>2

(***************************************************************************)
(* The recursive function in SendAll exists and is the iteration of        *)
(* PopAndSend: what a burst leaves is what Cardinality(packets) turns      *)
(* leave.                                                                  *)
(***************************************************************************)
LEMMA SendAllIsIterated ==
  ASSUME now \in Nat, shaper \in Shapers, level \in Nat,
         NEW packets \in SUBSET Packet
  PROVE  \E turn \in [Nat -> Bursts] :
           /\ turn[0] = BurstStart(packets)
           /\ \A n \in Nat : turn[n + 1] = PopAndSend(turn[n])
           /\ SendAll(packets) = turn[Cardinality(packets)]
<1> DEFINE start == BurstStart(packets)
           step  == [w \in Bursts |-> PopAndSend(w)]
           turn  == CHOOSE g : g = [n \in Nat |-> IF n = 0 THEN start
                                                  ELSE PopAndSend(g[n - 1])]
<1>1. start \in Bursts
  BY DEF BurstStart, Bursts
<1>2. step \in [Bursts -> Bursts]
  BY PopAndSendType
<1>3. SendAll(packets) = turn[Cardinality(packets)]
  BY DEF SendAll, BurstStart
<1> HIDE DEF start, step
<1>4. PICK g : IsIteration(g, Bursts, start, step)
  BY <1>1, <1>2, Iteration
<1>5. /\ g \in [Nat -> Bursts]
       /\ g[0] = start
       /\ \A n \in Nat : g[n + 1] = step[g[n]]
  BY <1>4 DEF IsIteration
<1>6. \A w \in Bursts : step[w] = PopAndSend(w)
  BY DEF step
<1>7. g = [n \in Nat |-> IF n = 0 THEN start ELSE PopAndSend(g[n - 1])]
  <2>1. ASSUME NEW n \in Nat
        PROVE  g[n] = IF n = 0 THEN start ELSE PopAndSend(g[n - 1])
    <3>1. CASE n = 0
      BY <1>5, <3>1
    <3>2. CASE n # 0
      <4>1. n - 1 \in Nat /\ (n - 1) + 1 = n
        BY <3>2
      <4>2. g[(n - 1) + 1] = step[g[n - 1]] /\ g[n - 1] \in Bursts
        BY <1>5, <4>1
      <4> QED  BY <1>6, <3>2, <4>1, <4>2
    <3> QED  BY <3>1, <3>2
  <2> QED  BY <1>5, <2>1
<1>8. turn = [n \in Nat |-> IF n = 0 THEN start ELSE PopAndSend(turn[n - 1])]
  BY <1>7
<1> HIDE DEF turn
<1>9. \A n \in Nat : turn[n] \in Bursts
  <2> DEFINE S == {n \in Nat : turn[n] \in Bursts}
  <2>1. 0 \in S
    BY <1>1, <1>8
  <2>2. ASSUME NEW n \in Nat, n \in S PROVE n + 1 \in S
    <3>1. turn[n + 1] = PopAndSend(turn[n])
      BY <1>8
    <3> QED  BY <2>2, <3>1, PopAndSendType
  <2> HIDE DEF S
  <2>3. \A n \in Nat : n \in S
    BY <2>1, <2>2, SetInduction
  <2> QED  BY <2>3 DEF S
<1>10. turn \in [Nat -> Bursts]
  BY <1>8, <1>9
<1>11. turn[0] = start /\ \A n \in Nat : turn[n + 1] = PopAndSend(turn[n])
  BY <1>8
<1> QED  BY <1>3, <1>10, <1>11 DEF start

(***************************************************************************)
BurstInOrder(w, packets) ==
  /\ w.queue \subseteq packets
  /\ \A p \in w.sent : \A q \in w.queue : p.type >= q.type

(***************************************************************************)
(* A turn takes the packets it sends from the queue, and sends none before *)
(* one of a higher priority.                                               *)
(***************************************************************************)
LEMMA PopAndSendKeepsOrder ==
  ASSUME now \in Nat, NEW w \in Bursts, NEW packets, BurstInOrder(w, packets)
  PROVE  BurstInOrder(PopAndSend(w), packets)
<1>1. CASE ~CanPop(w)
  BY <1>1 DEF PopAndSend
<1>2. CASE CanPop(w)
  <2> DEFINE p == Top(w.queue)
  <2>1. w.queue \in SUBSET Packet /\ w.queue # {}
    BY <1>2 DEF CanPop, Bursts
  <2>2. p \in w.queue /\ \A q \in w.queue : ~BytesLess(p, q)
    BY <2>1, TopExists
  <2>3. \A q \in w.queue : p.type >= q.type
    BY <2>1, <2>2, PacketShape DEF BytesLess
  <2>4. /\ PopAndSend(w).queue = w.queue \ {p}
        /\ PopAndSend(w).sent = w.sent \cup {p}
    BY <1>2 DEF PopAndSend
  <2> HIDE DEF p
  <2> QED  BY <2>2, <2>3, <2>4 DEF BurstInOrder
<1> QED  BY <1>1, <1>2

(***************************************************************************)
(* n turns of the loop either sent n packets or came to its end.           *)
(***************************************************************************)
Progress(w, n, size) ==
  \/ ~CanPop(w)
  \/ IsFiniteSet(w.queue) /\ n + Cardinality(w.queue) = size

(***************************************************************************)
(* Each turn that sends takes one packet from the queue.                   *)
(***************************************************************************)
LEMMA PopAndSendProgresses ==
  ASSUME now \in Nat, NEW w \in Bursts, NEW n \in Nat, NEW size \in Nat,
         Progress(w, n, size)
  PROVE  Progress(PopAndSend(w), n + 1, size)
<1>1. CASE ~CanPop(w)
  <2>1. PopAndSend(w) = w
    BY <1>1 DEF PopAndSend
  <2>2. ~CanPop(PopAndSend(w))
    BY <1>1, <2>1, Zenon
  <2> QED  BY <2>2 DEF Progress
<1>2. CASE CanPop(w)
  <2> DEFINE p == Top(w.queue)
  <2>1. w.queue \in SUBSET Packet /\ w.queue # {}
    BY <1>2 DEF CanPop, Bursts
  <2>2. p \in w.queue
    BY <2>1, TopExists
  <2>3. PopAndSend(w).queue = w.queue \ {p}
    BY <1>2 DEF PopAndSend
  <2> HIDE DEF p
  <2>4. IsFiniteSet(w.queue) /\ n + Cardinality(w.queue) = size
    BY <1>2 DEF Progress
  <2>5. Cardinality(w.queue) \in Nat
    BY <2>4, FS_CardinalityType
  <2>6. /\ IsFiniteSet(w.queue \ {p})
        /\ Cardinality(w.queue \ {p}) = Cardinality(w.queue) - 1
    BY <2>2, <2>4, FS_RemoveElement
  <2> QED  BY <2>3, <2>4, <2>5, <2>6 DEF Progress
<1> QED  BY <1>1, <1>2

(***************************************************************************)
(* A burst ends with nothing that may be sent now, the rest of the packets *)
(* still in the queue, and every packet sent of a priority at least as     *)
(* high as that of those left.                                             *)
(***************************************************************************)
LEMMA SendAllResult ==
  ASSUME now \in Nat, shaper \in Shapers, level \in Nat,
         NEW packets \in SUBSET Packet, IsFiniteSet(packets)
  PROVE  /\ SendAll(packets) \in Bursts
         /\ BurstInOrder(SendAll(packets), packets)
         /\ ~CanPop(SendAll(packets))
<1>1. PICK turn \in [Nat -> Bursts] :
        /\ turn[0] = BurstStart(packets)
        /\ \A n \in Nat : turn[n + 1] = PopAndSend(turn[n])
        /\ SendAll(packets) = turn[Cardinality(packets)]
  BY SendAllIsIterated
<1> DEFINE size == Cardinality(packets)
           S    == {n \in Nat : BurstInOrder(turn[n], packets)
                                  /\ Progress(turn[n], n, size)}
<1>2. size \in Nat
  BY FS_CardinalityType
<1>3. 0 \in S
  <2>1. turn[0].queue = packets /\ turn[0].sent = {}
    BY <1>1 DEF BurstStart
  <2>2. 0 + Cardinality(packets) = size
    BY <1>2
  <2> QED  BY <2>1, <2>2 DEF BurstInOrder, Progress
<1> HIDE DEF size
<1>4. ASSUME NEW n \in Nat, n \in S PROVE n + 1 \in S
  <2>1. turn[n] \in Bursts /\ turn[n + 1] = PopAndSend(turn[n])
    BY <1>1
  <2>2. BurstInOrder(turn[n], packets) /\ Progress(turn[n], n, size)
    BY <1>4
  <2> QED  BY <1>2, <2>1, <2>2, PopAndSendKeepsOrder, PopAndSendProgresses
<1> HIDE DEF S
<1>5. \A n \in Nat : n \in S
  BY <1>3, <1>4, SetInduction
<1>6. size \in S
  BY <1>2, <1>5
<1>7. BurstInOrder(turn[size], packets) /\ Progress(turn[size], size, size)
  BY <1>6 DEF S
<1>8. ~CanPop(turn[size])
  <2> SUFFICES ASSUME CanPop(turn[size]) PROVE FALSE
    OBVIOUS
  <2>1. IsFiniteSet(turn[size].queue)
        /\ size + Cardinality(turn[size].queue) = size
    BY <1>7 DEF Progress
  <2>2. Cardinality(turn[size].queue) = 0
    BY <1>2, <2>1, FS_CardinalityType
  <2>3. turn[size].queue = {}
    BY <2>1, <2>2, FS_EmptySet
  <2> QED  BY <2>3 DEF CanPop
<1>9. SendAll(packets) = turn[size]
  BY <1>1 DEF size
<1> QED  BY <1>1, <1>2, <1>7, <1>8, <1>9

-----------------------------------------------------------------------------

\* Until the peer subscribes again there is no wait without packets, and none
\* was cancelled or is late.
OneWait ==
  up /\ subscriptions = 1 =>
    (queue = {} => timer = NoTimer) /\ ~aborted /\ late = 0

\* NoPacketStranded, also of a sender that is down.
WaitExists == queue # {} => timer # NoTimer

IInv ==
  /\ TypeOK
  /\ subscriptions > 0
  /\ IsFiniteSet(queue)
  /\ WaitExists
  /\ OneWait
  /\ LoopEndsOnlyByResubscription
  /\ PriorityKept

(***************************************************************************)
(* The types of what is left of a wait that is cancelled.                  *)
(***************************************************************************)
LEMMA CancelWaitType ==
  ASSUME aborted \in BOOLEAN, NEW wait, NEW others \in Nat,
         CancelWait(wait, others)
  PROVE  late' \in Nat /\ aborted' \in BOOLEAN
<1>1. late' = others \/ late' = others + 1
  BY DEF CancelWait
<1>2. aborted' = aborted \/ aborted' = TRUE
  BY DEF CancelWait
<1>3. late' \in Nat
  BY <1>1
<1> QED  BY <1>2, <1>3

(***************************************************************************)
(* maybe_send establishes the parts of the invariant about the queue and   *)
(* its wait. What it needs is that no wait is pending when there are no    *)
(* packets, unless the peer subscribed again.                              *)
(***************************************************************************)
LEMMA MaybeSendKeepsIInv ==
  ASSUME IInv, NEW packets \in SUBSET Packet, IsFiniteSet(packets),
         NEW wait \in Nat \cup {NoTimer}, NEW others \in Nat,
         MaybeSend(packets, wait, others),
         packets = {} /\ up /\ subscriptions = 1 => wait = NoTimer
  PROVE  /\ shaper' \in Shapers
         /\ level' \in Nat
         /\ queue' \subseteq packets
         /\ sent' \subseteq Packet
         /\ IsFiniteSet(queue')
         /\ timer' \in Nat \cup {NoTimer}
         /\ late' \in Nat
         /\ aborted' \in BOOLEAN
         /\ WaitExists'
         /\ PriorityKept'
         /\ queue' = {} => timer' = wait
         /\ wait = NoTimer => UNCHANGED aborted /\ late' = others
<1> DEFINE w == SendAll(packets)
<1>1. now \in Nat /\ shaper \in Shapers /\ level \in Nat /\ late \in Nat
      /\ aborted \in BOOLEAN
  BY DEF IInv, TypeOK
<1>2. w \in Bursts /\ BurstInOrder(w, packets) /\ ~CanPop(w)
  BY <1>1, SendAllResult
<1>3. queue' = w.queue /\ shaper' = w.shaper /\ level' = w.level
      /\ sent' = w.sent
  BY DEF MaybeSend
<1>4. IF w.queue = {}
      THEN timer' = wait /\ late' = others /\ UNCHANGED aborted
      ELSE timer' = WhenCanSend(w.shaper, Top(w.queue).size)
      /\ CancelWait(wait, others)
  BY DEF MaybeSend
<1> HIDE DEF w
<1>5. /\ w.queue \in SUBSET Packet /\ w.shaper \in Shapers /\ w.level \in Nat
      /\ w.sent \in SUBSET Packet /\ w.queue \subseteq packets
  BY <1>2 DEF Bursts, BurstInOrder
<1>6. ASSUME w.queue # {}
      PROVE  timer' \in Nat
  <2> DEFINE bytes == Top(w.queue).size
             when  == WhenCanSend(w.shaper, bytes)
  <2>1. Top(w.queue) \in Packet
    BY <1>5, <1>6, TopExists
  <2>2. bytes \in Nat
    BY <2>1, PacketShape
  <2>3. when \in Int
    <3>1. /\ w.shaper.at \in Int /\ w.shaper.utilization \in Int
             /\ TimePerByte \in Int
          /\ BufferSize \in Int
      BY <1>5, TimePerByteIsPositive DEF Shapers
    <3> QED  BY <2>2, <3>1 DEF WhenCanSend
  <2>4. ~(when =< now)
    BY <1>2, <1>6 DEF CanPop
  <2>5. timer' = when
    BY <1>4, <1>6
  <2> HIDE DEF when
  <2> QED  BY <1>1, <2>3, <2>4, <2>5
<1>7. IsFiniteSet(queue')
  BY <1>3, <1>5, FS_Subset
<1>8. timer' \in Nat \cup {NoTimer} /\ WaitExists'
      /\ (queue' = {} => timer' = wait)
  BY <1>3, <1>4, <1>6 DEF WaitExists, NoTimer
<1>9. late' \in Nat /\ aborted' \in BOOLEAN
  <2>1. \/ late' = others /\ UNCHANGED aborted
        \/ CancelWait(wait, others)
    BY <1>4
  <2> QED  BY <1>1, <2>1, CancelWaitType
<1>10. wait = NoTimer => UNCHANGED aborted /\ late' = others
  BY <1>4 DEF CancelWait
<1>11. PriorityKept'
  BY <1>2, <1>3 DEF BurstInOrder, PriorityKept
<1> QED  BY <1>3, <1>5, <1>7, <1>8, <1>9, <1>10, <1>11

(***************************************************************************)
(* The invariant holds when the peer has subscribed.                       *)
(***************************************************************************)
LEMMA InitEstablishesIInv ==
  Init => IInv
<1> SUFFICES ASSUME Init PROVE IInv
  OBVIOUS
<1>1. ShaperInit \in Shapers
  BY DEF ShaperInit, Shapers
<1>2. IsFiniteSet({})
  BY FS_EmptySet
<1>3. {MaxQueued, MaxTime} \subseteq Nat
  OBVIOUS
<1>4. TypeOK
  <2>1. aborted \in BOOLEAN /\ up \in BOOLEAN
    BY DEF Init
  <2>2. now \in 0 .. MaxTime /\ queued \in 0 .. MaxQueued
    BY <1>3 DEF Init
  <2>3. /\ timer \in Nat \cup {NoTimer} /\ late \in Nat /\ level \in Nat
        /\ subscriptions \in Nat
    BY DEF Init
  <2> QED  BY <1>1, <2>1, <2>2, <2>3 DEF Init, TypeOK
<1>5. WaitExists /\ OneWait /\ PriorityKept
  BY DEF Init, WaitExists, OneWait, PriorityKept
<1> QED  BY <1>2, <1>4, <1>5 DEF Init, IInv, LoopEndsOnlyByResubscription

(***************************************************************************)
(* Every handler keeps the invariant.                                      *)
(***************************************************************************)
LEMMA NextKeepsIInv ==
  ASSUME IInv, [Next]_vars
  PROVE  IInv'
<1> USE DEF IInv, TypeOK, LoopEndsOnlyByResubscription
<1>1. ASSUME NEW p \in Packet, QueuePacket(p) PROVE IInv'
  <2>1. CASE queue = {}
    <3>1. MaybeSend({p}, timer, late)
      BY <1>1, <2>1 DEF QueuePacket
    <3>2. IsFiniteSet({p}) /\ {p} \in SUBSET Packet
      BY FS_Singleton
    <3>3. up /\ subscriptions = 1 => timer = NoTimer /\ late = 0 /\ ~aborted
      BY <2>1 DEF OneWait
    <3>4. queued' \in 0 .. MaxQueued /\ UNCHANGED <<now, up, subscriptions>>
      BY <1>1 DEF QueuePacket
    <3>5. /\ shaper' \in Shapers /\ level' \in Nat /\ queue' \subseteq {p}
          /\ sent' \subseteq Packet /\ IsFiniteSet(queue')
          /\ timer' \in Nat \cup {NoTimer} /\ late' \in Nat
             /\ aborted' \in BOOLEAN
          /\ WaitExists' /\ PriorityKept'
          /\ queue' = {} => timer' = timer
          /\ timer = NoTimer => UNCHANGED aborted /\ late' = late
      BY <3>1, <3>2, MaybeSendKeepsIInv
    <3>6. OneWait'
      BY <3>3, <3>4, <3>5 DEF OneWait
    <3> QED  BY <3>2, <3>4, <3>5, <3>6
  <2>2. CASE queue # {}
    <3>1. /\ queue' = queue \cup {p} /\ sent' = {}
          /\ UNCHANGED <<shaper, level, timer, aborted, late, now, up,
                         subscriptions>>
          /\ queued' \in 0 .. MaxQueued
      BY <1>1, <2>2 DEF QueuePacket
    <3>2. IsFiniteSet(queue \cup {p})
      BY FS_AddElement
    <3> QED  BY <2>2, <3>1, <3>2 DEF WaitExists, OneWait, PriorityKept
  <2> QED  BY <2>1, <2>2
<1>2. CASE TimerFires
  <2>1. /\ MaybeSend(queue, NoTimer, late)
        /\ UNCHANGED <<now, up, queued, subscriptions>>
        /\ timer # NoTimer
    BY <1>2 DEF TimerFires
  <2>2. /\ shaper' \in Shapers /\ level' \in Nat /\ queue' \subseteq queue
        /\ sent' \subseteq Packet /\ IsFiniteSet(queue')
        /\ timer' \in Nat \cup {NoTimer} /\ late' \in Nat
           /\ aborted' \in BOOLEAN
        /\ WaitExists' /\ PriorityKept'
        /\ queue' = {} => timer' = NoTimer
        /\ UNCHANGED aborted /\ late' = late
    BY <2>1, MaybeSendKeepsIInv
  <2>3. OneWait'
    BY <2>1, <2>2 DEF OneWait
  <2> QED  BY <2>1, <2>2, <2>3
<1>3. CASE LateWait
  <2>1. /\ MaybeSend(queue, timer, late - 1)
        /\ UNCHANGED <<now, up, queued, subscriptions>>
        /\ late - 1 \in Nat /\ late # 0 /\ up
    BY <1>3 DEF LateWait
  <2>2. ~(up /\ subscriptions = 1)
    BY <2>1 DEF OneWait
  <2>3. /\ shaper' \in Shapers /\ level' \in Nat /\ queue' \subseteq queue
        /\ sent' \subseteq Packet /\ IsFiniteSet(queue')
        /\ timer' \in Nat \cup {NoTimer} /\ late' \in Nat
           /\ aborted' \in BOOLEAN
        /\ WaitExists' /\ PriorityKept'
    BY <2>1, <2>2, MaybeSendKeepsIInv
  <2>4. OneWait'
    BY <2>1, <2>2 DEF OneWait
  <2> QED  BY <2>1, <2>3, <2>4
<1>4. CASE Resubscribe
  <2>1. /\ queue' = {} /\ sent' = {} /\ shaper' = ShaperInit /\ timer' = NoTimer
        /\ subscriptions' = subscriptions + 1 /\ CancelWait(timer, late)
        /\ UNCHANGED <<now, up, level, queued>>
    BY <1>4 DEF Resubscribe
  <2>2. ShaperInit \in Shapers
    BY DEF ShaperInit, Shapers
  <2>3. late' \in Nat /\ aborted' \in BOOLEAN
    BY <2>1, CancelWaitType
  <2>4. IsFiniteSet({})
    BY FS_EmptySet
  <2> QED  BY <2>1, <2>2, <2>3, <2>4 DEF WaitExists, OneWait, PriorityKept
<1>5. CASE AbortedWait
  BY <1>5 DEF AbortedWait, WaitExists, OneWait, PriorityKept
<1>6. CASE Tick
  <2>1. now' \in 0 .. MaxTime
    BY <1>6 DEF Tick
  <2>2. level' \in Nat
    BY <1>6 DEF Tick
  <2> QED  BY <1>6, <2>1, <2>2 DEF Tick, WaitExists, OneWait, PriorityKept
<1>7. CASE UNCHANGED vars
  BY <1>7 DEF vars, WaitExists, OneWait, PriorityKept
<1> QED  BY <1>1, <1>2, <1>3, <1>4, <1>5, <1>6, <1>7 DEF Next

(***************************************************************************)
(* What a subscriber is sent to (AsioReceiver, asio.hpp:70-154): the types *)
(* of its state; a wait is pending iff packets are queued, unless the peer *)
(* has subscribed again, and unless it has, no handler throws; packets     *)
(* that are queued are never stranded without a wait; a burst never leaves *)
(* a packet behind that has a higher priority than one it sent.            *)
(***************************************************************************)
THEOREM SenderIsCorrect ==
  Spec => [](/\ TypeOK
             /\ WaitPendingIffQueued
             /\ LoopEndsOnlyByResubscription
             /\ NoPacketStranded
             /\ PriorityKept)
<1>1. Init => IInv
  BY InitEstablishesIInv
<1>2. IInv /\ [Next]_vars => IInv'
  BY NextKeepsIInv
<1>3. IInv => /\ TypeOK
              /\ WaitPendingIffQueued
              /\ LoopEndsOnlyByResubscription
              /\ NoPacketStranded
              /\ PriorityKept
  BY DEF IInv, OneWait, WaitExists, WaitPendingIffQueued, NoPacketStranded
<1> QED  BY <1>1, <1>2, <1>3, PTL DEF Spec

-----------------------------------------------------------------------------
(* The buffer *)

\* The rate divides the time that a byte takes at one kbps.
WholeTimePerByte == NanosPerByte % Kbps = 0

\* What the buffer may hold of earlier subscriptions, which the shaper forgot.
Forgotten == (subscriptions - 1) * (BufferSize * NanosPerByte)

\* A level that the shaper accounts for, at time t: the buffer drains ...
IsAccounted(l, s, t, forgotten) ==
  /\ s.at =< t
  /\ s.utilization =< BufferSize
  /\ \/ l =< forgotten
     \/ l =< forgotten + NanosPerByte * s.utilization - Kbps * (t - s.at)

(***************************************************************************)
(* The time per byte is exact when the rate divides the time of a kilobit: *)
(* then the shaper's buffer drains as fast as the real one.                *)
(***************************************************************************)
LEMMA TimePerByteIsWhole ==
  ASSUME WholeTimePerByte
  PROVE  NanosPerByte = Kbps * TimePerByte
BY Division DEF WholeTimePerByte, TimePerByte

(***************************************************************************)
(* did_send keeps the account: if the shaper knew of everything in the     *)
(* buffer, and let the packet pass, it still knows of everything.          *)
(***************************************************************************)
LEMMA SentIsAccounted ==
  ASSUME WholeTimePerByte,
         NEW s \in Shapers, NEW l \in Nat, NEW t \in Nat, NEW forgotten \in Int,
         NEW bytes \in 1 .. BufferSize,
         IsAccounted(l, s, t, forgotten), WhenCanSend(s, bytes) =< t
  PROVE  IsAccounted(l + bytes * NanosPerByte, DidSend(s, t, bytes), t,
                     forgotten)
<1> DEFINE e == t - s.at
           k == e \div TimePerByte
           r == e % TimePerByte
           u == s.utilization
           left == IF k > u THEN 0 ELSE u - k
           T == TimePerByte
<1>1. u \in Nat /\ s.at \in Nat /\ e \in Nat /\ T \in Nat \ {0} /\ bytes \in Nat
      /\ BufferSize \in Nat /\ Kbps \in Nat /\ NanosPerByte \in Nat
  BY TimePerByteIsPositive DEF Shapers, IsAccounted
<1> HIDE DEF e, T
<1>2. k \in Int /\ r \in 0 .. T - 1 /\ e = T * k + r
  <2>1. e \in Int /\ T \in Nat \ {0}
    BY <1>1
  <2>2. /\ e = T * (e \div T) + (e % T)
        /\ e \div T \in Int /\ e % T \in 0 .. T - 1
    BY <2>1, Division
  <2> QED  BY <2>2 DEF T
<1>3. k \in Int /\ -1 \in Int /\ T \in Nat
  BY <1>1, <1>2
<1> HIDE DEF k, r, u
<1>4. k >= 0
  <2> SUFFICES ASSUME k =< -1 PROVE FALSE
    BY <1>2
  <2>1. T * k =< T * (-1)
    BY <1>3, ProductAtLeast
  <2> QED  BY <1>1, <1>2, <2>1
<1>5. DidSend(s, t, bytes) = [utilization |-> left + bytes, at |-> t]
  BY DEF DidSend, FastForward, e, k, u, T
<1>6. s.at + (u + bytes - BufferSize) * T =< t
  BY DEF WhenCanSend, u, T
<1>7. u + bytes - BufferSize =< k
  <2> SUFFICES ASSUME k + 1 =< u + bytes - BufferSize PROVE FALSE
    BY <1>1, <1>2
  <2>1. T * (k + 1) =< T * (u + bytes - BufferSize)
    BY <1>1, <1>2, ProductAtLeast
  <2>2. T * (u + bytes - BufferSize) =< e
    BY <1>1, <1>6 DEF e
  <2>3. T * (k + 1) = T * k + T
    BY <1>1, <1>2
  <2> QED  BY <1>1, <1>2, <2>1, <2>2, <2>3
<1>8. left \in Nat /\ left + bytes =< BufferSize
  BY <1>1, <1>2, <1>4, <1>7
<1>9. NanosPerByte * k =< Kbps * e
  <2>1. T * k =< e
    BY <1>1, <1>2
  <2>2. Kbps * (T * k) =< Kbps * e
    BY <1>1, <1>2, <2>1, ProductAtLeast
  <2>3. NanosPerByte = Kbps * T
    BY TimePerByteIsWhole DEF T
  <2>4. NanosPerByte * k = Kbps * (T * k)
    BY <1>1, <1>2, <2>3
  <2> QED  BY <2>2, <2>4
<1>10. l =< forgotten + NanosPerByte * left
  <2>1. NanosPerByte * left >= 0
    BY <1>1, <1>8
  <2>2. CASE l =< forgotten
    BY <2>1, <2>2, <1>1, <1>8
  <2>3. CASE l =< forgotten + NanosPerByte * u - Kbps * e
    <3>1. CASE k > u
      <4>1. NanosPerByte * u =< NanosPerByte * k
        BY <1>1, <1>2, <3>1, ProductAtLeast
      <4> QED  BY <1>1, <1>2, <1>8, <1>9, <2>1, <2>3, <4>1
    <3>2. CASE ~(k > u)
      <4>1. NanosPerByte * left = NanosPerByte * u - NanosPerByte * k
        BY <1>1, <1>2, <3>2
      <4> QED  BY <1>1, <1>2, <1>9, <2>3, <4>1
    <3> QED  BY <3>1, <3>2
  <2> QED  BY <2>2, <2>3 DEF IsAccounted, e, u
<1> HIDE DEF left
<1>11. NanosPerByte * (left + bytes)
       = NanosPerByte * left + bytes * NanosPerByte
  BY <1>1, <1>8
<1>12. l + bytes * NanosPerByte
         =< forgotten + NanosPerByte * (left + bytes) - Kbps * (t - t)
  <2>1. Kbps * (t - t) = 0 /\ bytes * NanosPerByte \in Int
        /\ NanosPerByte * left \in Int
    BY <1>1, <1>8
  <2> QED  BY <1>8, <1>10, <1>11, <2>1
<1> QED  BY <1>1, <1>5, <1>8, <1>12 DEF IsAccounted

(***************************************************************************)
(* A burst keeps the account.                                              *)
(***************************************************************************)
LEMMA SendAllIsAccounted ==
  ASSUME WholeTimePerByte, NEW forgotten \in Int,
         now \in Nat, shaper \in Shapers, level \in Nat,
         NEW packets \in SUBSET Packet, IsFiniteSet(packets),
         IsAccounted(level, shaper, now, forgotten)
  PROVE  IsAccounted(SendAll(packets).level, SendAll(packets).shaper, now,
                     forgotten)
<1>1. PICK turn \in [Nat -> Bursts] :
        /\ turn[0] = BurstStart(packets)
        /\ \A n \in Nat : turn[n + 1] = PopAndSend(turn[n])
        /\ SendAll(packets) = turn[Cardinality(packets)]
  BY SendAllIsIterated
<1> DEFINE Good(w) == IsAccounted(w.level, w.shaper, now, forgotten)
           S == {n \in Nat : Good(turn[n])}
<1>2. 0 \in S
  BY <1>1 DEF BurstStart
<1>3. ASSUME NEW n \in Nat, n \in S PROVE n + 1 \in S
  <2> DEFINE w == turn[n]
             p == Top(w.queue)
  <2>1. w \in Bursts /\ turn[n + 1] = PopAndSend(w) /\ Good(w)
    BY <1>1, <1>3
  <2>2. CASE ~CanPop(w)
    BY <2>1, <2>2 DEF PopAndSend
  <2>3. CASE CanPop(w)
    <3>1. w.queue \in SUBSET Packet /\ w.queue # {}
          /\ WhenCanSend(w.shaper, p.size) =< now
      BY <2>1, <2>3 DEF CanPop, Bursts
    <3>2. p.size \in 1 .. BufferSize
      BY <3>1, TopExists, PacketShape
    <3>3. /\ PopAndSend(w).shaper = DidSend(w.shaper, now, p.size)
          /\ PopAndSend(w).level = w.level + p.size * NanosPerByte
      BY <2>3 DEF PopAndSend
    <3>4. w.shaper \in Shapers /\ w.level \in Nat
      BY <2>1 DEF Bursts
    <3> HIDE DEF p, w
    <3>5. IsAccounted(w.level + p.size * NanosPerByte,
                      DidSend(w.shaper, now, p.size), now, forgotten)
      BY <2>1, <3>1, <3>2, <3>4, SentIsAccounted
    <3> QED  BY <2>1, <3>3, <3>5
  <2> QED  BY <2>2, <2>3
<1>4. Cardinality(packets) \in Nat
  BY FS_CardinalityType
<1> HIDE DEF S
<1>5. \A n \in Nat : n \in S
  BY <1>2, <1>3, SetInduction
<1> QED  BY <1>1, <1>4, <1>5 DEF S

\* The shaper knows of everything in the buffer, but for what it forgot.
BufferInv ==
  /\ IInv
  /\ IsAccounted(level, shaper, now, Forgotten)

(***************************************************************************)
(* A new subscription forgets at most one full buffer.                     *)
(***************************************************************************)
LEMMA ForgottenGrows ==
  ASSUME IInv
  PROVE  /\ Forgotten \in Nat
         /\ Forgotten + BufferSize * NanosPerByte
              = subscriptions * BufferSize * NanosPerByte
<1> DEFINE full == BufferSize * NanosPerByte
<1>1. full \in Nat /\ subscriptions \in Nat /\ subscriptions - 1 \in Nat
  BY DEF IInv, TypeOK
<1>2. subscriptions * BufferSize * NanosPerByte = subscriptions * full
  BY <1>1
<1> HIDE DEF full
<1>3. (subscriptions - 1) * full \in Nat
      /\ (subscriptions - 1) * full + full = subscriptions * full
  BY <1>1
<1> QED  BY <1>2, <1>3 DEF Forgotten, full

(***************************************************************************)
(* What the shaper accounts for fits into the buffer.                      *)
(***************************************************************************)
LEMMA LevelIsBounded ==
  ASSUME BufferInv
  PROVE  level =< Forgotten + BufferSize * NanosPerByte
<1>1. /\ shaper.at \in Nat /\ shaper.utilization \in Nat /\ now \in Nat
         /\ level \in Nat
      /\ Forgotten \in Nat
  BY ForgottenGrows DEF BufferInv, IInv, TypeOK, Shapers
<1>2. shaper.at =< now /\ shaper.utilization =< BufferSize
  BY DEF BufferInv, IsAccounted
<1>3. NanosPerByte * shaper.utilization =< NanosPerByte * BufferSize
  BY <1>1, <1>2, ProductAtLeast
<1>4. Kbps * (now - shaper.at) >= 0 /\ BufferSize * NanosPerByte >= 0
  BY <1>1, <1>2
<1>5. NanosPerByte * BufferSize = BufferSize * NanosPerByte
  OBVIOUS
<1>6. NanosPerByte * shaper.utilization \in Int
      /\ Kbps * (now - shaper.at) \in Int
      /\ BufferSize * NanosPerByte \in Int
  BY <1>1
<1> QED  BY <1>1, <1>3, <1>4, <1>5, <1>6 DEF BufferInv, IsAccounted

(***************************************************************************)
(* Every handler keeps the account, however late it runs.                  *)
(***************************************************************************)
LEMMA NextKeepsBufferInv ==
  ASSUME WholeTimePerByte, BufferInv, [Next]_vars
  PROVE  BufferInv'
<1>1. IInv /\ IInv'
  BY NextKeepsIInv DEF BufferInv
<1>2. /\ now \in Nat /\ shaper \in Shapers /\ level \in Nat /\ Forgotten \in Nat
      /\ queue \in SUBSET Packet /\ IsFiniteSet(queue)
  BY <1>1, ForgottenGrows DEF IInv, TypeOK
<1>3. ASSUME NEW packets \in SUBSET Packet, IsFiniteSet(packets), NEW wait,
             NEW others,
             MaybeSend(packets, wait, others), UNCHANGED <<now, subscriptions>>
      PROVE  IsAccounted(level, shaper, now, Forgotten)'
  <2>1. IsAccounted(SendAll(packets).level, SendAll(packets).shaper, now,
                    Forgotten)
    BY <1>2, <1>3, SendAllIsAccounted DEF BufferInv
  <2>2. level' = SendAll(packets).level /\ shaper' = SendAll(packets).shaper
    BY <1>3 DEF MaybeSend
  <2>3. now' = now /\ Forgotten' = Forgotten
    BY <1>3 DEF Forgotten
  <2> QED  BY <2>1, <2>2, <2>3 DEF IsAccounted
<1>4. ASSUME NEW p \in Packet, QueuePacket(p) PROVE BufferInv'
  <2>1. CASE queue = {}
    <3>1. IsFiniteSet({p}) /\ {p} \in SUBSET Packet
      BY FS_Singleton
    <3> QED  BY <1>1, <1>3, <1>4, <2>1, <3>1 DEF BufferInv, QueuePacket
  <2>2. CASE queue # {}
    BY <1>1, <1>4, <2>2 DEF BufferInv, QueuePacket, IsAccounted, Forgotten
  <2> QED  BY <2>1, <2>2
<1>5. CASE TimerFires
  BY <1>1, <1>2, <1>3, <1>5 DEF BufferInv, TimerFires
<1>6. CASE LateWait
  BY <1>1, <1>2, <1>3, <1>6 DEF BufferInv, LateWait
<1>7. CASE Resubscribe
  <2>1. /\ shaper' = ShaperInit /\ now' = now /\ level' = level
        /\ subscriptions' = subscriptions + 1
    BY <1>7 DEF Resubscribe
  <2>2. subscriptions \in Nat
    BY <1>1 DEF IInv, TypeOK
  <2>3. Forgotten' = Forgotten + BufferSize * NanosPerByte
    <3> DEFINE full == BufferSize * NanosPerByte
    <3>1. full \in Nat
      OBVIOUS
    <3> HIDE DEF full
    <3>2. (subscriptions + 1 - 1) * full = (subscriptions - 1) * full + full
      BY <2>2, <3>1
    <3>3. Forgotten' = (subscriptions + 1 - 1) * full
      BY <2>1, <2>2, <3>1 DEF Forgotten, full
    <3> QED  BY <3>2, <3>3 DEF Forgotten, full
  <2>4. level =< Forgotten + BufferSize * NanosPerByte
    BY <1>1, LevelIsBounded DEF BufferInv
  <2> QED  BY <1>1, <1>2, <2>1, <2>3, <2>4
        DEF BufferInv, IsAccounted, ShaperInit
<1>8. CASE AbortedWait
  BY <1>1, <1>8 DEF BufferInv, AbortedWait, IsAccounted, Forgotten
<1>9. CASE Tick
  <2>1. /\ shaper' = shaper /\ now' = now + 1
        /\ level' = IF level > Kbps THEN level - Kbps ELSE 0
        /\ Forgotten' = Forgotten
    BY <1>9 DEF Tick, Forgotten
  <2>2. Forgotten' = Forgotten /\ shaper' = shaper /\ now' = now + 1
    BY <2>1
  <2>3. shaper.at \in Nat /\ shaper.utilization \in Nat
    BY <1>2 DEF Shapers
  <2>4. Kbps * ((now + 1) - shaper.at) = Kbps * (now - shaper.at) + Kbps
    BY <1>2, <2>3
  <2>5. NanosPerByte * shaper.utilization \in Int
        /\ Kbps * (now - shaper.at) \in Int
    BY <1>2, <2>3
  <2>6. \/ level' =< Forgotten
        \/ level' =< Forgotten + NanosPerByte * shaper.utilization
                       - Kbps * ((now + 1) - shaper.at)
    BY <1>2, <2>1, <2>4, <2>5 DEF BufferInv, IsAccounted
  <2>7. shaper.at =< now + 1 /\ shaper.utilization =< BufferSize
    BY <1>2, <2>3 DEF BufferInv, IsAccounted
  <2>8. IsAccounted(level', shaper, now + 1, Forgotten)
    BY <2>6, <2>7 DEF IsAccounted
  <2> QED  BY <1>1, <2>2, <2>8 DEF BufferInv
<1>10. CASE UNCHANGED vars
  BY <1>1, <1>10 DEF BufferInv, vars, IsAccounted, Forgotten
<1> QED  BY <1>4, <1>5, <1>6, <1>7, <1>8, <1>9, <1>10 DEF Next

(***************************************************************************)
(* The buffer that the shaper is a model of is never exceeded              *)
(* (logic.hpp:8-9), if the rate divides the 8'000'000 ns of logic.hpp:40.  *)
(* A rate that does not is rounded in time_per_byte, the shaper then lets  *)
(* bytes out faster than they drain, and TLC finds the buffer exceeded     *)
(* (Kbps = 3 in MCPacketSender.cfg).                                       *)
(***************************************************************************)
THEOREM BufferIsKept ==
  ASSUME WholeTimePerByte
  PROVE  Spec => []BufferNotExceeded
<1>1. Init => BufferInv
  <2> SUFFICES ASSUME Init PROVE BufferInv
    OBVIOUS
  <2>1. IInv
    BY InitEstablishesIInv
  <2>2. Forgotten \in Nat
    BY <2>1, ForgottenGrows
  <2> QED  BY <2>1, <2>2 DEF Init, BufferInv, IsAccounted, ShaperInit
<1>2. BufferInv /\ [Next]_vars => BufferInv'
  BY NextKeepsBufferInv
<1>3. BufferInv => BufferNotExceeded
  BY LevelIsBounded, ForgottenGrows DEF BufferInv, BufferNotExceeded
<1> QED  BY <1>1, <1>2, <1>3, PTL DEF Spec
=============================================================================
