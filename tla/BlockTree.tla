------------------------------ MODULE BlockTree -----------------------------
(***************************************************************************)
(* A block on its way from the source of main.cpp through a tree of Nodes. *)
(* The source sends symbols to the root; a Node forwards every packet that *)
(* it receives to its subscribers, as it is, and adds a burst of symbols   *)
(* of its own when it has decoded the block.                               *)
(*                                                                         *)
(* Packets arrive in any order (they also wait in a queue that is sorted   *)
(* by bytes), and are lost or duplicated, so what is in flight to a Node   *)
(* is a bag of ids.                                                        *)
(***************************************************************************)
EXTENDS Block, Bags

CONSTANTS Node,
          Root,            \* the Node that the source sends to
          Parent,          \* the Node that a Node other than Root subscribes to
          EarlySubscriber, \* those that did before the first packet
          MaxFaults,       \* bound, per Node: packets lost, and symbols that
                           \* depend on others
          MaxDuplicates    \* bound: packets duplicated

ASSUME BlockTreeAssumption ==
  /\ Root \in Node
  /\ Parent \in [Node \ {Root} -> Node]
  /\ \A n \in Node \ {Root} : Parent[n] # n
  /\ EarlySubscriber \subseteq Node \ {Root}
  /\ MaxFaults \in [Node -> Nat]
  /\ MaxDuplicates \in Nat

VARIABLES
  block,        \* per Node: its Block
  alive,        \* per Node: FALSE once a handler of it threw
  subscribed,   \* the Nodes that their parents have in m_subscriptions
  net,          \* per Node: packets to it, queued and in flight
  faults,       \* per Node: packets to it lost, symbols that were unlucky
  duplicated,   \* packets duplicated
  repeated      \* the Nodes whose undecoded block got a symbol twice (history)

vars == <<block, alive, subscribed, net, faults, duplicated, repeated>>

\* main.cpp, action "block": all packets are queued before io_context runs.
Init ==
  /\ block = [n \in Node |-> BlockInit]
  /\ alive = [n \in Node |-> TRUE]
  /\ subscribed = EarlySubscriber
  /\ net = [n \in Node |-> IF n = Root THEN SetToBag(0 .. SymbolsToSend - 1)
                                       ELSE EmptyBag]
  /\ faults = [n \in Node |-> 0]
  /\ duplicated = 0
  /\ repeated = {}

\* handle_packet, case CONTROL, of n at its parent
Subscribe(n) ==
  /\ n \notin subscribed \cup {Root}
  /\ alive[Parent[n]]
  /\ subscribed' = subscribed \cup {n}
  /\ UNCHANGED <<block, alive, net, faults, duplicated, repeated>>

-----------------------------------------------------------------------------
(* handle_packet, case BLOCK                                               *)

Subscribers(n) == {m \in subscribed : Parent[m] = n}

\* Mutant: a Node only forwards.
PacketsToForward(id, processed) == SetToBag({id})

\* The packet itself, and what block_packet_range gives when it completed
\* the block.
PacketsToSend(id, processed) ==
  IF ~processed.ready THEN SetToBag({id})
  ELSE SetToBag({id}) (+) SetToBag(UnseenRange(processed.block, SymbolsToSend))

Handle(n, id, processed) ==
  /\ alive' = [alive EXCEPT ![n] = ~processed.threw]
  /\ block' = [block EXCEPT ![n] = processed.block]
  /\ repeated' = IF ~block[n].decoded /\ id \in block[n].seen
                 THEN repeated \cup {n} ELSE repeated
  /\ net' = [m \in Node |->
               IF m = n THEN net[n] (-) SetToBag({id})
               ELSE IF m \in Subscribers(n) /\ ~processed.threw
               THEN net[m] (+) PacketsToSend(id, processed)
               ELSE net[m]]

Receive(n) ==
  /\ alive[n]
  /\ \E id \in BagToSet(net[n]) :
       Handle(n, id, ProcessSymbol(block[n], id, TRUE))
  /\ UNCHANGED <<subscribed, faults, duplicated>>

\* The symbol depends on those that the codec has already.
ReceiveUnlucky(n) ==
  /\ alive[n]
  /\ faults[n] < MaxFaults[n]
  /\ faults' = [faults EXCEPT ![n] = @ + 1]
  /\ \E id \in BagToSet(net[n]) :
       ~IsOriginal(id) /\ Handle(n, id, ProcessSymbol(block[n], id, FALSE))
  /\ UNCHANGED <<subscribed, duplicated>>

-----------------------------------------------------------------------------
(* The network                                                             *)

\* By the network, or by the Node: every LOSE_EVERY-th packet.
Lose(n) ==
  /\ faults[n] < MaxFaults[n]
  /\ faults' = [faults EXCEPT ![n] = @ + 1]
  /\ \E id \in BagToSet(net[n]) :
       net' = [net EXCEPT ![n] = @ (-) SetToBag({id})]
  /\ UNCHANGED <<block, alive, subscribed, duplicated, repeated>>

Duplicate(n) ==
  /\ duplicated < MaxDuplicates
  /\ duplicated' = duplicated + 1
  /\ \E id \in BagToSet(net[n]) :
       net' = [net EXCEPT ![n] = @ (+) SetToBag({id})]
  /\ UNCHANGED <<block, alive, subscribed, faults, repeated>>

Next ==
  \E n \in Node : \/ Subscribe(n) \/ Receive(n) \/ ReceiveUnlucky(n)
                  \/ Lose(n) \/ Duplicate(n)

Spec == Init /\ [][Next]_vars

(***************************************************************************)
(* A packet that is queued to a Node is handled in the end, unless it is   *)
(* lost: AsioReceiver's timer empties the queue and the Node is an event   *)
(* loop over its socket.                                                   *)
(***************************************************************************)
FairSpec == Spec /\ \A n \in Node : WF_vars(Receive(n))

-----------------------------------------------------------------------------

TypeOK ==
  /\ \A n \in Node : /\ block[n].seen \subseteq Nat
                     /\ block[n].codec.ids = block[n].seen
                     /\ block[n].codec.rank =< block[n].codec.rows
                     /\ IsABag(net[n]) /\ BagToSet(net[n]) \subseteq Nat
  /\ alive \in [Node -> BOOLEAN]
  /\ subscribed \subseteq Node \ {Root}
  /\ faults \in [Node -> Nat]
  /\ duplicated \in 0 .. MaxDuplicates
  /\ repeated \subseteq Node

(***************************************************************************)
(* No Node's handler ever throws.                                          *)
(***************************************************************************)
NodesStayUp == \A n \in Node : alive[n]

(***************************************************************************)
(* A handler throws for a repeated symbol only: losses, reordering, bad    *)
(* luck, and the mix of forwarded and generated symbols never make         *)
(* wirehair refuse its input.                                              *)
(***************************************************************************)
OnlyRepetitionsThrow == \A n \in Node : alive[n] \/ n \in repeated

\* The ids of which a step sends copies to m.
Copies(id, packets) == IF BagIn(id, packets) THEN packets[id] ELSE 0

MoreCopies(m) == {id \in BagToSet(net'[m]) :
                    Copies(id, net'[m]) > Copies(id, net[m])}

FreshTo(m) ==
  LET n == Parent[m]
  IN  ~block[n].decoded /\ block'[n].decoded =>
        /\ Cardinality(MoreCopies(m)) = SymbolsToSend + 1
        /\ MoreCopies(m) \cap block[n].seen = {}

(***************************************************************************)
(* When a Node decodes the block its subscribers are offered, beside the   *)
(* packet that completed it, as many symbols as the source sends, and none *)
(* that it forwarded before: every one is of use to a subscriber that      *)
(* lacks some (block.hpp, unseen_generator).                               *)
(***************************************************************************)
FreshRedundancy == [][\A m \in subscribed : FreshTo(m)]_vars

\* A step sends no more than one packet to m.
AtMostOneTo(m) ==
  \A id, other \in MoreCopies(m) :
    id = other /\ Copies(id, net'[m]) =< Copies(id, net[m]) + 1

(***************************************************************************)
(* The burst is sent once: a Node that has decoded the block forwards one  *)
(* packet for each that it receives, whatever it receives.                 *)
(***************************************************************************)
GeneratesOnce ==
  [][\A m \in subscribed : block[Parent[m]].decoded => AtMostOneTo(m)]_vars

-----------------------------------------------------------------------------

\* A Node and those that its packets come through.
Path[n \in Node] == IF n = Root THEN {n} ELSE {n} \cup Path[Parent[n]]

\* n has subscribed, or is the Root, before the block reached its parent.
InTime(n) ==
  n = Root \/ (n \in subscribed /\ block[Parent[n]].seen = {})

(***************************************************************************)
(* The block reaches every Node that subscribed in time, over every hop    *)
(* and with nothing retransmitted, as long as the losses and the symbols   *)
(* of no use on a hop are no more than its redundancy; or a Node on the    *)
(* way to it got a symbol twice and is down.                               *)
(***************************************************************************)
BlockReachesAll ==
  \A n \in Node :
    InTime(n) ~> block[n].decoded \/ \E p \in Path[n] : ~alive[p]

=============================================================================
