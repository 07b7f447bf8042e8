--------------------------- MODULE BlockTree_proofs --------------------------
(***************************************************************************)
(* What is proved of BlockTree, for every tree of Nodes, size of a block,  *)
(* order of packets, loss and duplication: its types; that a Node that     *)
(* completes the block offers its subscribers a full burst of new symbols, *)
(* and only forwards after that; and, as long as the ids of a block fit in *)
(* 16 bits, that wirehair refuses no symbol but a repeated one.            *)
(***************************************************************************)
EXTENDS BlockTree, IntegerFacts, FiniteSetTheorems

-----------------------------------------------------------------------------
(* Bags                                                                    *)

\* A bag of naturals.
IdBag(B) == IsABag(B) /\ BagToSet(B) \subseteq Nat

(***************************************************************************)
(* Nothing is added by taking a bag out of another.                        *)
(***************************************************************************)
LEMMA BagDifference ==
  ASSUME NEW B, IsABag(B), NEW C, IsABag(C)
  PROVE  /\ IsABag(B (-) C) /\ BagToSet(B (-) C) \subseteq BagToSet(B)
         /\ \A x : Copies(x, B (-) C) =< Copies(x, B)
<1>1. IsABag(B (-) C) /\ BagToSet(B (-) C) \subseteq BagToSet(B)
  BY DEF (-), IsABag, BagToSet
<1>2. ASSUME NEW x PROVE Copies(x, B (-) C) =< Copies(x, B)
  BY DEF (-), IsABag, BagToSet, Copies, BagIn
<1> QED  BY <1>1, <1>2

(***************************************************************************)
(* A set as a bag has one copy of each element.                            *)
(***************************************************************************)
LEMMA BagOfSet ==
  ASSUME NEW S
  PROVE  IsABag(SetToBag(S)) /\ BagToSet(SetToBag(S)) = S
         /\ \A x : Copies(x, SetToBag(S)) = IF x \in S THEN 1 ELSE 0
BY DEF SetToBag, IsABag, BagToSet, Copies, BagIn

(***************************************************************************)
(* The sum of two bags has the copies of both.                             *)
(***************************************************************************)
LEMMA BagSumResult ==
  ASSUME NEW B, IsABag(B), NEW C, IsABag(C)
  PROVE  /\ IsABag(B (+) C)
         /\ BagToSet(B (+) C) = BagToSet(B) \cup BagToSet(C)
         /\ \A x : /\ Copies(x, B (+) C) = Copies(x, B) + Copies(x, C)
                   /\ Copies(x, B) \in Nat
                   /\ Copies(x, C) > 0 <=> x \in BagToSet(C)
<1>1. DOMAIN (B (+) C) = DOMAIN B \cup DOMAIN C
  BY DEF (+)
<1>2. \A y \in DOMAIN (B (+) C) : (B (+) C)[y] \in {n \in Nat : n > 0}
  BY DEF (+), IsABag
<1>3. B (+) C = [y \in DOMAIN (B (+) C) |-> (B (+) C)[y]]
  BY DEF (+)
<1>4. ASSUME NEW x
      PROVE  /\ Copies(x, B (+) C) = Copies(x, B) + Copies(x, C)
             /\ Copies(x, B) \in Nat
             /\ Copies(x, C) > 0 <=> x \in BagToSet(C)
  <2>1. Copies(x, B) \in Nat /\ Copies(x, C) \in Nat
        /\ (Copies(x, C) > 0 <=> x \in BagToSet(C))
    BY DEF Copies, BagIn, BagToSet, IsABag
  <2>2. Copies(x, B (+) C) = Copies(x, B) + Copies(x, C)
    BY DEF (+), Copies, BagIn, BagToSet, IsABag
  <2> QED  BY <2>1, <2>2
<1> QED  BY <1>1, <1>2, <1>3, <1>4 DEF IsABag, BagToSet

-----------------------------------------------------------------------------
(* The ids that a Node generates                                           *)

(***************************************************************************)
(* The ids that were not seen, below j and up to j.                        *)
(***************************************************************************)
LEMMA OneMore ==
  ASSUME NEW s \in SUBSET Nat, NEW j \in Nat
  PROVE  /\ IsFiniteSet((0 .. j - 1) \ s) /\ IsFiniteSet((0 .. j) \ s)
         /\ Cardinality((0 .. j - 1) \ s) \in Nat
         /\ Cardinality((0 .. j) \ s) =< Cardinality((0 .. j - 1) \ s) + 1
         /\ j \notin s => Cardinality((0 .. j) \ s)
                            = Cardinality((0 .. j - 1) \ s) + 1
<1> DEFINE V == (0 .. j - 1) \ s
           W == (0 .. j) \ s
<1>1. IsFiniteSet(0 .. j - 1) /\ IsFiniteSet(0 .. j)
  BY FS_Interval
<1>2. IsFiniteSet(V) /\ IsFiniteSet(W)
  BY <1>1, FS_Subset
<1>3. Cardinality(V) \in Nat
  BY <1>2, FS_CardinalityType
<1>4. j \notin V
  OBVIOUS
<1>5. W = IF j \in s THEN V ELSE V \cup {j}
  OBVIOUS
<1> HIDE DEF V, W
<1>6. Cardinality(V \cup {j}) = Cardinality(V) + 1
  BY <1>2, <1>4, FS_AddElement
<1>7. Cardinality(W) =< Cardinality(V) + 1
      /\ (j \notin s => Cardinality(W) = Cardinality(V) + 1)
  BY <1>3, <1>5, <1>6
<1> QED  BY <1>2, <1>3, <1>7 DEF V, W

(***************************************************************************)
(* unseen_range gives n ids that the block was not given. They lie below   *)
(* the least j that has n such ids below it, and no more than n +          *)
(* Cardinality(seen) ids are passed to find them.                          *)
(***************************************************************************)
LEMMA UnseenRangeResult ==
  ASSUME NEW b, b.seen \in SUBSET Nat, IsFiniteSet(b.seen), NEW n \in Nat
  PROVE  /\ UnseenRange(b, n) \subseteq 0 .. n + Cardinality(b.seen) - 1
         /\ UnseenRange(b, n) \cap b.seen = {}
         /\ IsFiniteSet(UnseenRange(b, n))
         /\ Cardinality(UnseenRange(b, n)) = n
<1> DEFINE s == b.seen
           k == Cardinality(s)
           U == UnseenRange(b, n)
           V(j) == (0 .. j - 1) \ s
           Enough == {j \in Nat : Cardinality(V(j)) >= n}
<1>1. k \in Nat
  BY FS_CardinalityType
<1>2. U \subseteq 0 .. n + k - 1 /\ U \cap s = {}
  BY DEF UnseenRange
<1>3. \A j \in Nat : IsFiniteSet(V(j)) /\ Cardinality(V(j)) \in Nat
  BY OneMore
<1>4. n + k \in Enough
  <2> DEFINE I == 0 .. n + k - 1
  <2>1. IsFiniteSet(I) /\ Cardinality(I) = n + k
    <3>1. 0 \in Int /\ n + k - 1 \in Int
      BY <1>1
    <3>2. IsFiniteSet(I)
          /\ Cardinality(I) = IF 0 > n + k - 1 THEN 0 ELSE (n + k - 1) - 0 + 1
      <4> HIDE DEF k
      <4> QED  BY <3>1, FS_Interval
    <3> QED  BY <1>1, <3>2
  <2>2. Cardinality(I \ s) = Cardinality(I) - Cardinality(I \cap s)
    <3> HIDE DEF I
    <3> QED  BY <2>1, FS_Difference
  <2>3. Cardinality(I \cap s) =< k /\ Cardinality(I \cap s) \in Nat
    <3>1. I \cap s \subseteq s
      OBVIOUS
    <3>2. IsFiniteSet(I \cap s) /\ Cardinality(I \cap s) =< Cardinality(s)
      BY <3>1, FS_Subset
    <3> QED  BY <3>2, FS_CardinalityType
  <2>4. Cardinality(V(n + k)) >= n
    <3>1. (n + k) - 1 = n + k - 1
      BY <1>1
    <3>2. V(n + k) = I \ s
      BY <3>1
    <3> HIDE DEF V, I, k
    <3>3. Cardinality(V(n + k)) = Cardinality(I) - Cardinality(I \cap s)
      BY <2>2, <3>2
    <3> QED  BY <1>1, <2>1, <2>3, <3>3
  <2> QED  BY <1>1, <2>4
<1>5. PICK j \in Enough : \A m \in Enough : j =< m
  <2>1. Enough \in SUBSET Nat /\ Enough # {}
    BY <1>4
  <2> HIDE DEF Enough
  <2> QED  BY <2>1, LeastNatural
<1>6. j \in Nat /\ j =< n + k /\ Cardinality(V(j)) >= n
  BY <1>4, <1>5
<1>7. Cardinality(V(j)) = n
  <2>1. CASE j = 0
    <3>1. V(j) = {}
      BY <2>1
    <3>2. Cardinality({}) = 0
      BY FS_EmptySet
    <3> HIDE DEF V
    <3> QED  BY <1>6, <3>1, <3>2
  <2>2. CASE j # 0
    <3> DEFINE i == j - 1
    <3>1. i \in Nat /\ i < j /\ j - 1 = i
      BY <1>6, <2>2
    <3>2. i \notin Enough
      BY <1>5, <3>1
    <3>3. Cardinality(V(i)) < n
      <4>1. Cardinality(V(i)) \in Nat /\ ~(Cardinality(V(i)) >= n)
        BY <1>3, <3>1, <3>2
      <4> HIDE DEF V, i
      <4> QED  BY <4>1
    <3>4. V(j) = (0 .. i) \ s
      OBVIOUS
    <3>5. Cardinality(V(j)) =< Cardinality(V(i)) + 1
      <4> HIDE DEF i
      <4> QED  BY <3>1, <3>4, OneMore
    <3>6. Cardinality(V(i)) \in Nat /\ Cardinality(V(j)) \in Nat
      BY <1>3, <1>6, <3>1
    <3> HIDE DEF V, i
    <3> QED  BY <1>6, <3>3, <3>5, <3>6
  <2> QED  BY <2>1, <2>2
<1>8. U = V(j)
  <2>1. ASSUME NEW i \in Nat, i < j, i \notin s PROVE i \in U
    <3>1. (0 .. i) \ s \subseteq V(j)
      BY <1>6, <2>1
    <3>2. Cardinality((0 .. i) \ s) =< Cardinality(V(j))
      <4>1. IsFiniteSet(V(j))
        BY <1>3, <1>6
      <4> HIDE DEF V
      <4> QED  BY <3>1, <4>1, FS_Subset
    <3>3. Cardinality((0 .. i) \ s) =< n
      <4> HIDE DEF V
      <4> QED  BY <1>7, <3>2
    <3>4. i \in 0 .. n + k - 1
      BY <1>1, <1>6, <2>1
    <3> QED  BY <2>1, <3>3, <3>4 DEF UnseenRange
  <2>2. ASSUME NEW i \in U, ~(i < j) PROVE FALSE
    <3>1. i \in Nat /\ i \notin s /\ Cardinality((0 .. i) \ s) =< n /\ j =< i
      BY <1>1, <1>6, <2>2 DEF UnseenRange
    <3>2. V(j) \subseteq V(i)
      BY <1>6, <3>1
    <3>3. Cardinality(V(j)) =< Cardinality(V(i)) /\ Cardinality(V(i)) \in Nat
      <4>1. IsFiniteSet(V(i)) /\ Cardinality(V(i)) \in Nat
        BY <1>3, <3>1
      <4> HIDE DEF V
      <4> QED  BY <3>2, <4>1, FS_Subset
    <3>4. Cardinality((0 .. i) \ s) = Cardinality(V(i)) + 1
      BY <3>1, OneMore
    <3> HIDE DEF V
    <3> QED  BY <1>7, <3>1, <3>3, <3>4
  <2>3. \A i \in U : i \in Nat /\ i \notin s /\ i < j
    BY <1>2, <2>2
  <2> QED  BY <1>6, <2>1, <2>3
<1>9. IsFiniteSet(V(j))
  BY <1>3, <1>6
<1> HIDE DEF V, U
<1> QED  BY <1>2, <1>7, <1>8, <1>9 DEF U

(***************************************************************************)
(* A source sends at least the symbols of the block.                       *)
(***************************************************************************)
LEMMA SymbolsToSendType ==
  SymbolsToSend \in Nat /\ SymbolsToSend >= BlockCount
BY WirehairAssumption DEF SymbolsToSend

-----------------------------------------------------------------------------
(* The inductive invariant                                                 *)

\* The decoder has as many independent rows as symbols but for the unlucky
\* ones, and all are independent if they are symbols of the message alone.
GoodCodec(d, unlucky) ==
  /\ d.ids \in SUBSET Nat /\ IsFiniteSet(d.ids)
  /\ d.rows \in Nat
  /\ d.rank \in 0 .. BlockCount /\ d.rank =< d.rows
  /\ Cardinality(d.ids) =< d.rank + unlucky
  /\ AllOriginal(d) => d.rank = Cardinality(d.ids)

\* The codec was fed what the Block remembers, once each unless a symbol was
\* repeated; a Block that is not complete waits for more, if its Node is up.
GoodBlock(b, up, gotRepeated, unlucky) ==
  /\ b.decoded \in BOOLEAN
  /\ b.codec.ids = b.seen
  /\ GoodCodec(b.codec, unlucky)
  /\ up /\ ~b.decoded => b.codec.rank < BlockCount
  /\ ~gotRepeated => b.codec.rows = Cardinality(b.seen)

GoodBlocks ==
  /\ block = [n \in Node |-> block[n]]
  /\ alive \in [Node -> BOOLEAN]
  /\ faults \in [Node -> Nat]
  /\ repeated \in SUBSET Node
  /\ \A n \in Node :
       GoodBlock(block[n], alive[n], n \in repeated, faults[n])

GoodNet ==
  /\ net = [n \in Node |-> net[n]]
  /\ \A n \in Node : IdBag(net[n])

IInv ==
  /\ GoodBlocks
  /\ GoodNet
  /\ subscribed \in SUBSET (Node \ {Root})
  /\ duplicated \in 0 .. MaxDuplicates
  /\ \A n \in Node : faults[n] =< MaxFaults[n]

-----------------------------------------------------------------------------
(* process_symbol                                                          *)

(***************************************************************************)
(* A good decoder is good after another symbol: one that is no part of the *)
(* message and depends on others is counted as unlucky.                    *)
(***************************************************************************)
LEMMA FedResult ==
  ASSUME NEW d, NEW unlucky \in Nat, GoodCodec(d, unlucky),
         d.rank < BlockCount,
         NEW id \in Nat, NEW lucky \in BOOLEAN, lucky \/ ~IsOriginal(id),
         NEW after, lucky => after = unlucky, ~lucky => after = unlucky + 1
  PROVE  GoodCodec(Fed(d, id, lucky), after)
<1> DEFINE e == Fed(d, id, lucky)
           k == Cardinality(d.ids)
           l == Cardinality(d.ids \cup {id})
<1>1. /\ e.ids = d.ids \cup {id}
      /\ e.rows = d.rows + 1
      /\ e.rank = IF id \notin d.ids /\ (lucky \/ IsOriginal(id))
                  THEN d.rank + 1 ELSE d.rank
  BY DEF Fed
<1>2. /\ d.ids \in SUBSET Nat /\ IsFiniteSet(d.ids) /\ d.rows \in Nat
      /\ d.rank \in 0 .. BlockCount /\ d.rank =< d.rows
      /\ k =< d.rank + unlucky
      /\ AllOriginal(d) => d.rank = k
  BY DEF GoodCodec
<1>3. k \in Nat /\ IsFiniteSet(d.ids \cup {id})
  BY <1>2, FS_CardinalityType, FS_AddElement
<1>4. id \notin d.ids => l = k + 1
  BY <1>2, FS_AddElement
<1>5. id \in d.ids => l = k
  <2>1. id \in d.ids => d.ids \cup {id} = d.ids
    OBVIOUS
  <2> QED  BY <2>1
<1>6. AllOriginal(e) => AllOriginal(d) /\ IsOriginal(id)
  <2> HIDE DEF e
  <2> QED  BY <1>1 DEF AllOriginal
<1> HIDE DEF e, k, l
<1>7. e.ids \in SUBSET Nat /\ IsFiniteSet(e.ids)
  BY <1>1, <1>2, <1>3
<1>8. Cardinality(e.ids) = l
  BY <1>1 DEF l
<1>9. /\ e.rows \in Nat
      /\ e.rank \in 0 .. BlockCount
      /\ e.rank =< e.rows
  BY <1>1, <1>2, WirehairAssumption
<1>10. l =< e.rank + after
  BY <1>1, <1>2, <1>3, <1>4, <1>5
<1>11. AllOriginal(e) => e.rank = l
  <2>1. CASE id \in d.ids
    BY <2>1, <1>1, <1>2, <1>5, <1>6
  <2>2. CASE id \notin d.ids
    BY <2>2, <1>1, <1>2, <1>4, <1>6
  <2> QED  BY <2>1, <2>2
<1>12. GoodCodec(e, after)
  BY <1>7, <1>8, <1>9, <1>10, <1>11 DEF GoodCodec
<1> QED  BY <1>12 DEF e

\* What the steps rely on, where b is the block before the symbol, "again"
\* whether it was given the symbol before, and "luck" the number of unlucky
\* symbols after it.
Processed(b, gotRepeated, luck, id, r, again) ==
  /\ r.ready \in BOOLEAN /\ r.threw \in BOOLEAN
  /\ GoodBlock(r.block, ~r.threw, gotRepeated \/ again, luck)
  /\ r.threw => ~r.ready
  /\ r.ready => ~b.decoded
  /\ ~b.decoded /\ r.block.decoded
       => /\ r.ready
          /\ id \notin b.seen
          /\ r.block.seen = b.seen \cup {id}
  /\ r.threw /\ id < IdPeriod => gotRepeated \/ again

(***************************************************************************)
(* process_symbol keeps a block good. Only a block that completes is       *)
(* ready; the symbol that completes it is a new one, since one given       *)
(* before adds nothing; and of a symbol of 16 bits only one given before   *)
(* is refused: as many symbols of the message as it has, all different,    *)
(* are the message.                                                        *)
(***************************************************************************)
LEMMA ProcessResult ==
  ASSUME NEW b, NEW gotRepeated \in BOOLEAN, NEW unlucky \in Nat,
         GoodBlock(b, TRUE, gotRepeated, unlucky),
         NEW id \in Nat, NEW lucky \in BOOLEAN, lucky \/ ~IsOriginal(id),
         NEW r, r = ProcessSymbol(b, id, lucky),
         NEW again, again = (~b.decoded /\ id \in b.seen),
         NEW luck, lucky => luck = unlucky, ~lucky => luck = unlucky + 1
  PROVE  Processed(b, gotRepeated, luck, id, r, again)
<1> DEFINE e == Fed(b.codec, id, lucky)
           result == Result(e, id)
<1>1. /\ b.decoded \in BOOLEAN /\ b.codec.ids = b.seen
      /\ GoodCodec(b.codec, unlucky)
      /\ ~b.decoded => b.codec.rank < BlockCount
      /\ ~gotRepeated => b.codec.rows = Cardinality(b.seen)
  BY DEF GoodBlock
<1>2. CASE b.decoded
  <2>1. r.ready = FALSE /\ r.threw = FALSE /\ r.block = b
    BY <1>2 DEF ProcessSymbol
  <2>2. GoodCodec(b.codec, luck)
    BY <1>1, FS_CardinalityType DEF GoodCodec
  <2>3. GoodBlock(b, TRUE, gotRepeated \/ again, luck)
    BY <1>1, <2>2 DEF GoodBlock
  <2> QED  BY <1>2, <2>1, <2>3 DEF Processed
<1>3. CASE ~b.decoded
  <2>1. /\ r.ready = (result = "Success")
        /\ r.threw = (result = "InvalidInput")
        /\ r.block.decoded = (result = "Success")
        /\ r.block.codec = e
        /\ r.block.seen = b.seen \cup {id}
    BY <1>3 DEF ProcessSymbol, AfterDecode
  <2>2. /\ GoodCodec(e, luck)
        /\ e.ids = b.seen \cup {id}
        /\ e.rows = b.codec.rows + 1
        /\ id \in b.seen => e.rank = b.codec.rank
        /\ id \notin b.seen
             => Cardinality(b.seen \cup {id}) = Cardinality(b.seen) + 1
    <3> DEFINE d == b.codec
    <3>1. GoodCodec(d, unlucky) /\ d.rank < BlockCount /\ d.ids = b.seen
      BY <1>1, <1>3
    <3>2. e = Fed(d, id, lucky)
      OBVIOUS
    <3> HIDE DEF d, e
    <3>3. GoodCodec(Fed(d, id, lucky), luck)
      BY <3>1, FedResult
    <3>4. /\ e.ids = d.ids \cup {id}
          /\ e.rows = d.rows + 1
          /\ id \in d.ids => e.rank = d.rank
      BY <3>2 DEF Fed
    <3>5. IsFiniteSet(d.ids)
      BY <3>1 DEF GoodCodec
    <3>6. id \notin d.ids
            => Cardinality(d.ids \cup {id}) = Cardinality(d.ids) + 1
      BY <3>5, FS_AddElement
    <3> QED  BY <3>1, <3>2, <3>3, <3>4, <3>6 DEF d
  <2>3. again = (id \in b.seen)
    BY <1>3
  <2> HIDE DEF e
  <2>4. result = "Success" => e.rank >= BlockCount
    BY DEF Result
  <2>5. result = "NeedMore" => e.rank < BlockCount
    BY <2>2, WirehairAssumption DEF Result, GoodCodec
  <2>6. result \in {"Success", "NeedMore", "InvalidInput"}
    BY DEF Result
  <2>7. ~(gotRepeated \/ again)
          => /\ e.rows = Cardinality(b.seen \cup {id})
             /\ e.rows = Cardinality(e.ids)
    BY <1>1, <2>2, <2>3
  <2>8. result = "InvalidInput" /\ id < IdPeriod => gotRepeated \/ again
    <3> SUFFICES ASSUME result = "InvalidInput", id < IdPeriod,
                        ~(gotRepeated \/ again)
                 PROVE  FALSE
      OBVIOUS
    <3>1. e.rows = Cardinality(e.ids)
      BY <2>7
    <3>2. ~(e.rows = BlockCount /\ AllOriginal(e) /\ e.rank < BlockCount)
      BY <2>2, <3>1 DEF GoodCodec
    <3>3. id % IdPeriod = id
      BY WirehairAssumption
    <3>4. ~(IsShort(id) /\ ~IsFinalBlock(id))
      BY <3>3 DEF IsShort, IsFinalBlock
    <3> QED  BY <3>2, <3>4 DEF Result
  <2>9. result = "Success" => id \notin b.seen
    BY <1>1, <1>3, <2>2, <2>4, WirehairAssumption DEF GoodCodec
  <2> HIDE DEF result
  <2>10. GoodBlock(r.block, ~r.threw, gotRepeated \/ again, luck)
    <3>1. r.block.decoded \in BOOLEAN /\ r.block.codec.ids = r.block.seen
      BY <2>1, <2>2
    <3>2. ~r.threw /\ ~r.block.decoded => r.block.codec.rank < BlockCount
      BY <2>1, <2>5, <2>6
    <3>3. ~(gotRepeated \/ again)
            => r.block.codec.rows = Cardinality(r.block.seen)
      BY <2>1, <2>7
    <3> QED  BY <2>1, <2>2, <3>1, <3>2, <3>3 DEF GoodBlock
  <2> QED  BY <1>3, <2>1, <2>8, <2>9, <2>10 DEF Processed
<1> QED  BY <1>1, <1>2, <1>3

-----------------------------------------------------------------------------
(* Steps                                                                   *)

\* What a handler generates.
Generated(r) == IF r.ready THEN UnseenRange(r.block, SymbolsToSend) ELSE {}

(***************************************************************************)
(* A handler sends the packet that it received and what it generates.      *)
(***************************************************************************)
LEMMA NetAfter ==
  ASSUME NEW n \in Node, NEW id, NEW r, Handle(n, id, r),
         \A m \in Node : IsABag(net[m]),
         NEW m \in Node
  PROVE  /\ IsABag(net'[m])
         /\ BagToSet(net'[m])
              \subseteq BagToSet(net[m]) \cup {id} \cup Generated(r)
<1> DEFINE sent == PacketsToSend(id, r)
<1>1. IsABag(SetToBag({id})) /\ BagToSet(SetToBag({id})) = {id}
  BY BagOfSet
<1>2. IsABag(sent) /\ BagToSet(sent) = {id} \cup Generated(r)
  <2>1. CASE r.ready
    <3> DEFINE U == UnseenRange(r.block, SymbolsToSend)
    <3>1. IsABag(SetToBag(U)) /\ BagToSet(SetToBag(U)) = U
      BY BagOfSet
    <3>2. sent = SetToBag({id}) (+) SetToBag(U)
      BY <2>1 DEF PacketsToSend
    <3>3. Generated(r) = U
      BY <2>1 DEF Generated
    <3> DEFINE B == SetToBag({id})
               C == SetToBag(U)
    <3> HIDE DEF U, sent, B, C
    <3>4. IsABag(B) /\ BagToSet(B) = {id} /\ IsABag(C) /\ BagToSet(C) = U
      BY <1>1, <3>1 DEF B, C
    <3>5. IsABag(B (+) C) /\ BagToSet(B (+) C) = {id} \cup U
      BY <3>4, BagSumResult
    <3> QED  BY <3>2, <3>3, <3>5 DEF B, C
  <2>2. CASE ~r.ready
    BY <1>1, <2>2 DEF PacketsToSend, Generated
  <2> QED  BY <2>1, <2>2
<1> HIDE DEF sent
<1>3. IsABag(net[n] (-) SetToBag({id}))
      /\ BagToSet(net[n] (-) SetToBag({id})) \subseteq BagToSet(net[n])
  BY <1>1, BagDifference
<1>4. IsABag(net[m] (+) sent)
      /\ BagToSet(net[m] (+) sent) = BagToSet(net[m]) \cup BagToSet(sent)
  BY <1>2, BagSumResult
<1>5. net'[m] = IF m = n THEN net[n] (-) SetToBag({id})
                ELSE IF m \in Subscribers(n) /\ ~r.threw THEN net[m] (+) sent
                ELSE net[m]
  BY DEF Handle, sent
<1>6. \/ m = n /\ net'[m] = net[n] (-) SetToBag({id})
      \/ net'[m] = net[m] (+) sent
      \/ net'[m] = net[m]
  BY <1>5
<1> QED  BY <1>2, <1>3, <1>4, <1>6

(***************************************************************************)
(* A handler keeps every block good, and what process_symbol told it.      *)
(***************************************************************************)
LEMMA BlocksAfter ==
  ASSUME GoodBlocks, NEW n \in Node, alive[n],
         NEW id \in Nat, NEW lucky \in BOOLEAN, lucky \/ ~IsOriginal(id),
         NEW r, r = ProcessSymbol(block[n], id, lucky), Handle(n, id, r),
         lucky => faults' = faults,
         ~lucky => faults' = [faults EXCEPT ![n] = @ + 1]
  PROVE  /\ GoodBlocks'
         /\ r.ready => ~block[n].decoded
         /\ r.threw /\ id < IdPeriod => n \in repeated'
         /\ ~block[n].decoded /\ block'[n].decoded
              => /\ r.ready /\ ~r.threw
                 /\ id \notin block[n].seen
                 /\ r.block.seen = block[n].seen \cup {id}
<1> DEFINE b == block[n]
           unlucky == faults[n]
           luck == IF lucky THEN unlucky ELSE unlucky + 1
<1> PICK gotRepeated \in BOOLEAN : gotRepeated <=> n \in repeated
  <2>1. CASE n \in repeated
    BY <2>1
  <2>2. CASE n \notin repeated
    BY <2>2
  <2> QED  BY <2>1, <2>2
<1> PICK again \in BOOLEAN : again = (~b.decoded /\ id \in b.seen)
  OBVIOUS
<1>1. gotRepeated \in BOOLEAN /\ unlucky \in Nat
  BY DEF GoodBlocks
<1>2. GoodBlock(b, TRUE, gotRepeated, unlucky)
  <2>1. alive[n] = TRUE
    BY DEF GoodBlocks
  <2> QED  BY <2>1 DEF GoodBlocks
<1>3. r = ProcessSymbol(b, id, lucky) /\ again = (~b.decoded /\ id \in b.seen)
  OBVIOUS
<1>4. Processed(b, gotRepeated, luck, id, r, again)
  <2>1. (lucky => luck = unlucky) /\ (~lucky => luck = unlucky + 1)
    OBVIOUS
  <2> HIDE DEF b, unlucky, luck
  <2> QED  BY <1>1, <1>2, <1>3, <2>1, ProcessResult, Zenon
<1>5. /\ block' = [block EXCEPT ![n] = r.block]
      /\ alive' = [alive EXCEPT ![n] = ~r.threw]
      /\ repeated' = IF again THEN repeated \cup {n} ELSE repeated
  BY DEF Handle
<1>6. block'[n] = r.block /\ alive'[n] = ~r.threw /\ faults'[n] = luck
      /\ (n \in repeated' <=> gotRepeated \/ again)
  BY <1>5 DEF GoodBlocks
<1>7. ASSUME NEW m \in Node, m # n
      PROVE  block'[m] = block[m] /\ alive'[m] = alive[m]
             /\ faults'[m] = faults[m] /\ (m \in repeated' <=> m \in repeated)
  BY <1>5, <1>7 DEF GoodBlocks
<1>8. /\ block' = [m \in Node |-> block'[m]]
      /\ alive' \in [Node -> BOOLEAN]
      /\ faults' \in [Node -> Nat]
      /\ repeated' \in SUBSET Node
  BY <1>4, <1>5 DEF GoodBlocks, Processed
<1>9. GoodBlock(block'[n], alive'[n], n \in repeated', faults'[n])
  <2> HIDE DEF b, unlucky, luck
  <2> QED  BY <1>4, <1>6 DEF GoodBlock, Processed
<1>10. ASSUME NEW m \in Node, m # n
       PROVE  GoodBlock(block'[m], alive'[m], m \in repeated', faults'[m])
  <2>1. GoodBlock(block[m], alive[m], m \in repeated, faults[m])
    BY DEF GoodBlocks
  <2> QED  BY <1>7, <1>10, <2>1 DEF GoodBlock
<1>11. GoodBlocks'
  BY <1>8, <1>9, <1>10 DEF GoodBlocks
<1>12. /\ r.ready => ~b.decoded
       /\ r.threw /\ id < IdPeriod => n \in repeated'
       /\ ~b.decoded /\ block'[n].decoded
            => /\ r.ready /\ ~r.threw
               /\ id \notin b.seen
               /\ r.block.seen = b.seen \cup {id}
  <2> HIDE DEF b, unlucky, luck
  <2> QED  BY <1>4, <1>6 DEF Processed
<1> QED  BY <1>11, <1>12

(***************************************************************************)
(* The invariant holds when the source has queued its symbols.             *)
(***************************************************************************)
LEMMA InitEstablishesIInv == Init => IInv
<1> SUFFICES ASSUME Init PROVE IInv
  OBVIOUS
<1>1. GoodCodec(DecoderInit, 0)
  <2>1. IsFiniteSet({}) /\ Cardinality({}) = 0
    BY FS_EmptySet
  <2> QED  BY <2>1, WirehairAssumption DEF GoodCodec, DecoderInit, AllOriginal
<1>2. GoodBlock(BlockInit, TRUE, FALSE, 0)
  <2>1. Cardinality({}) = 0
    BY FS_EmptySet
  <2>2. /\ BlockInit.decoded = FALSE /\ BlockInit.seen = {}
        /\ BlockInit.codec = DecoderInit
        /\ DecoderInit.ids = {} /\ DecoderInit.rows = 0 /\ DecoderInit.rank = 0
    BY DEF BlockInit, DecoderInit
  <2>3. GoodCodec(BlockInit.codec, 0)
    BY <1>1, <2>2
  <2>4. BlockCount \in Nat /\ 0 < BlockCount
    BY WirehairAssumption
  <2> QED  BY <2>1, <2>2, <2>3, <2>4 DEF GoodBlock
<1>3. GoodBlocks
  <2>1. ASSUME NEW n \in Node
        PROVE  GoodBlock(block[n], alive[n], n \in repeated, faults[n])
    <3>1. block[n] = BlockInit /\ alive[n] = TRUE /\ n \notin repeated
          /\ faults[n] = 0
      BY DEF Init
    <3> QED  BY <1>2, <3>1 DEF GoodBlock
  <2> QED  BY <2>1 DEF Init, GoodBlocks
<1>4. GoodNet
  <2>1. ASSUME NEW n \in Node PROVE IdBag(net[n])
    <3> DEFINE I == 0 .. SymbolsToSend - 1
    <3>1. I \subseteq Nat
      BY SymbolsToSendType
    <3>2. net[n] = IF n = Root THEN SetToBag(I) ELSE SetToBag({})
      BY DEF Init, EmptyBag
    <3> HIDE DEF I
    <3> QED  BY <3>1, <3>2, BagOfSet DEF IdBag
  <2> QED  BY <2>1 DEF Init, GoodNet
<1>5. subscribed \in SUBSET (Node \ {Root}) /\ duplicated \in 0 .. MaxDuplicates
  BY BlockTreeAssumption DEF Init
<1>6. \A n \in Node : faults[n] =< MaxFaults[n]
  BY BlockTreeAssumption DEF Init
<1> QED  BY <1>3, <1>4, <1>5, <1>6 DEF IInv

\* The inductive invariant is kept by a packet that is handled.
(***************************************************************************)
(* A packet that is handled keeps the invariant, whatever the codec makes  *)
(* of it.                                                                  *)
(***************************************************************************)
LEMMA HandleKeepsIInv ==
  ASSUME IInv, NEW n \in Node, alive[n],
         NEW id \in BagToSet(net[n]),
         NEW lucky \in BOOLEAN, lucky \/ ~IsOriginal(id),
         Handle(n, id, ProcessSymbol(block[n], id, lucky)),
         lucky => faults' = faults,
         ~lucky => /\ faults' = [faults EXCEPT ![n] = @ + 1]
                   /\ faults[n] < MaxFaults[n],
         UNCHANGED <<subscribed, duplicated>>
  PROVE  IInv'
<1> DEFINE r == ProcessSymbol(block[n], id, lucky)
<1>1. id \in Nat
  BY DEF IInv, GoodNet, IdBag
<1>2. GoodBlocks'
  <2>1. r = ProcessSymbol(block[n], id, lucky) /\ Handle(n, id, r)
    OBVIOUS
  <2> HIDE DEF r
  <2> QED  BY <1>1, <2>1, BlocksAfter DEF IInv
<1>3. Generated(r) \subseteq Nat
  <2>1. GoodBlocks' => r.block.seen \in SUBSET Nat /\ IsFiniteSet(r.block.seen)
    <3>1. block'[n] = r.block
      BY DEF Handle, IInv, GoodBlocks
    <3>2. GoodBlocks' => r.block.codec.ids = r.block.seen
                         /\ r.block.codec.ids \in SUBSET Nat
                         /\ IsFiniteSet(r.block.codec.ids)
      <4> HIDE DEF r
      <4> QED  BY <3>1 DEF GoodBlocks, GoodBlock, GoodCodec
    <3> HIDE DEF r
    <3> QED  BY <3>2
  <2> DEFINE c == r.block
  <2>2. c.seen \in SUBSET Nat /\ IsFiniteSet(c.seen)
    BY <1>2, <2>1
  <2> HIDE DEF c
  <2>3. UnseenRange(c, SymbolsToSend)
          \subseteq 0 .. SymbolsToSend + Cardinality(c.seen) - 1
    BY <2>2, SymbolsToSendType, UnseenRangeResult
  <2>4. UnseenRange(c, SymbolsToSend) \subseteq Nat
    BY <2>3
  <2> QED  BY <2>4 DEF Generated, c
<1>4. GoodNet'
  <2> HIDE DEF r
  <2>1. ASSUME NEW m \in Node PROVE IdBag(net'[m])
    <3>1. IsABag(net'[m])
          /\ BagToSet(net'[m])
               \subseteq BagToSet(net[m]) \cup {id} \cup Generated(r)
      BY NetAfter DEF IInv, GoodNet, IdBag, r
    <3> QED  BY <1>1, <1>3, <3>1 DEF IInv, GoodNet, IdBag
  <2>2. net' = [m \in Node |-> net'[m]]
    BY DEF Handle
  <2> QED  BY <2>1, <2>2 DEF GoodNet
<1>5. \A m \in Node : faults'[m] =< MaxFaults[m]
  <2> HIDE DEF r
  <2> QED  BY BlockTreeAssumption DEF IInv, GoodBlocks
<1> QED  BY <1>2, <1>4, <1>5 DEF IInv

(***************************************************************************)
(* Every step keeps the invariant.                                         *)
(***************************************************************************)
LEMMA NextKeepsIInv == IInv /\ [Next]_vars => IInv'
<1> SUFFICES ASSUME IInv, [Next]_vars PROVE IInv'
  OBVIOUS
<1>1. ASSUME NEW n \in Node, Subscribe(n) PROVE IInv'
  BY <1>1 DEF Subscribe, IInv, GoodBlocks, GoodNet
<1>2. ASSUME NEW n \in Node, Receive(n) PROVE IInv'
  <2>1. PICK id \in BagToSet(net[n]) :
          Handle(n, id, ProcessSymbol(block[n], id, TRUE))
    BY <1>2 DEF Receive
  <2>2. alive[n] /\ faults' = faults /\ UNCHANGED <<subscribed, duplicated>>
    BY <1>2 DEF Receive
  <2> QED  BY <2>1, <2>2, HandleKeepsIInv
<1>3. ASSUME NEW n \in Node, ReceiveUnlucky(n) PROVE IInv'
  <2>1. PICK id \in BagToSet(net[n]) :
          /\ ~IsOriginal(id)
          /\ Handle(n, id, ProcessSymbol(block[n], id, FALSE))
    BY <1>3 DEF ReceiveUnlucky
  <2>2. /\ alive[n] /\ faults[n] < MaxFaults[n]
        /\ faults' = [faults EXCEPT ![n] = @ + 1]
        /\ UNCHANGED <<subscribed, duplicated>>
    BY <1>3 DEF ReceiveUnlucky
  <2> QED  BY <2>1, <2>2, HandleKeepsIInv
<1>4. ASSUME NEW n \in Node, Lose(n) PROVE IInv'
  <2>1. PICK id \in BagToSet(net[n]) :
          net' = [net EXCEPT ![n] = @ (-) SetToBag({id})]
    BY <1>4 DEF Lose
  <2>2. IsABag(SetToBag({id}))
    BY BagOfSet
  <2>3. IdBag(net[n] (-) SetToBag({id}))
    BY <2>2, BagDifference DEF IInv, GoodNet, IdBag
  <2>4. GoodNet'
    BY <2>1, <2>3 DEF IInv, GoodNet
  <2>5. /\ UNCHANGED <<block, alive, subscribed, duplicated, repeated>>
        /\ faults[n] < MaxFaults[n] /\ faults' = [faults EXCEPT ![n] = @ + 1]
    BY <1>4 DEF Lose
  <2>6. GoodBlocks'
    <3>1. ASSUME NEW m \in Node
          PROVE  GoodBlock(block[m], alive[m], m \in repeated, faults'[m])
      <4>1. GoodBlock(block[m], alive[m], m \in repeated, faults[m])
            /\ faults[m] \in Nat /\ faults'[m] \in Nat
            /\ faults[m] =< faults'[m]
        BY <2>5 DEF IInv, GoodBlocks
      <4> DEFINE d == block[m].codec
      <4>2. GoodCodec(d, faults[m])
        BY <4>1 DEF GoodBlock
      <4>3. GoodCodec(d, faults'[m])
        <5> HIDE DEF d
        <5> QED  BY <4>1, <4>2, FS_CardinalityType DEF GoodCodec
      <4> QED  BY <4>1, <4>3 DEF GoodBlock
    <3> QED  BY <2>5, <3>1 DEF IInv, GoodBlocks
  <2>7. ASSUME NEW m \in Node PROVE faults'[m] =< MaxFaults[m]
    <3>1. faults[n] \in Nat /\ faults[m] =< MaxFaults[m] /\ MaxFaults[n] \in Nat
      BY BlockTreeAssumption DEF IInv, GoodBlocks
    <3>2. faults'[m] = IF m = n THEN faults[n] + 1 ELSE faults[m]
      BY <2>5 DEF IInv, GoodBlocks
    <3> QED  BY <2>5, <3>1, <3>2
  <2> QED  BY <2>4, <2>5, <2>6, <2>7 DEF IInv
<1>5. ASSUME NEW n \in Node, Duplicate(n) PROVE IInv'
  <2>1. PICK id \in BagToSet(net[n]) :
          net' = [net EXCEPT ![n] = @ (+) SetToBag({id})]
    BY <1>5 DEF Duplicate
  <2>2. IsABag(SetToBag({id})) /\ BagToSet(SetToBag({id})) = {id}
    BY BagOfSet
  <2>3. IdBag(net[n] (+) SetToBag({id}))
    <3> DEFINE B == net[n]
               C == SetToBag({id})
    <3>1. IsABag(B) /\ BagToSet(B) \subseteq Nat /\ IsABag(C)
          /\ BagToSet(C) \subseteq Nat
      BY <2>2 DEF IInv, GoodNet, IdBag
    <3> HIDE DEF B, C
    <3>2. IsABag(B (+) C) /\ BagToSet(B (+) C) = BagToSet(B) \cup BagToSet(C)
      BY <3>1, BagSumResult
    <3>3. IdBag(B (+) C)
      BY <3>1, <3>2 DEF IdBag
    <3> QED  BY <3>3 DEF B, C
  <2>4. GoodNet'
    BY <2>1, <2>3 DEF IInv, GoodNet
  <2>5. /\ UNCHANGED <<block, alive, subscribed, faults, repeated>>
        /\ duplicated < MaxDuplicates /\ duplicated' = duplicated + 1
    BY <1>5 DEF Duplicate
  <2>6. duplicated' \in 0 .. MaxDuplicates
    BY <2>5, BlockTreeAssumption DEF IInv
  <2>7. GoodBlocks'
    BY <2>5 DEF IInv, GoodBlocks
  <2> QED  BY <2>4, <2>5, <2>6, <2>7 DEF IInv
<1>6. CASE UNCHANGED vars
  BY <1>6 DEF vars, IInv, GoodBlocks, GoodNet
<1> QED  BY <1>1, <1>2, <1>3, <1>4, <1>5, <1>6 DEF Next

-----------------------------------------------------------------------------
(* Theorems                                                                *)

(***************************************************************************)
(* The types of BlockTree: what the wirehair decoder of a Block was fed is *)
(* what the Block remembers having seen (block.hpp, m_symbols_seen), and   *)
(* what is in flight are ids.                                              *)
(***************************************************************************)
THEOREM TreeTypes ==
  Spec => []TypeOK
<1>1. Init => IInv
  BY InitEstablishesIInv
<1>2. IInv /\ [Next]_vars => IInv'
  BY NextKeepsIInv
<1>3. IInv => TypeOK
  BY DEF IInv, GoodBlocks, GoodBlock, GoodCodec, GoodNet, IdBag, TypeOK
<1> QED  BY <1>1, <1>2, <1>3, PTL DEF Spec

-----------------------------------------------------------------------------
(* A Node that completes the block                                         *)

(***************************************************************************)
(* A handler that completes the block sends a subscriber the packet it     *)
(* received and SymbolsToSend ids that the block was not given.            *)
(***************************************************************************)
LEMMA HandleIsFresh ==
  ASSUME IInv, NEW n \in Node, alive[n],
         NEW id \in BagToSet(net[n]),
         NEW lucky \in BOOLEAN, lucky \/ ~IsOriginal(id),
         Handle(n, id, ProcessSymbol(block[n], id, lucky)),
         lucky => faults' = faults,
         ~lucky => faults' = [faults EXCEPT ![n] = @ + 1],
         NEW m \in subscribed
  PROVE  FreshTo(m)
<1> DEFINE r == ProcessSymbol(block[n], id, lucky)
           U == UnseenRange(r.block, SymbolsToSend)
           B == SetToBag({id})
           C == SetToBag(U)
<1>1. id \in Nat /\ m \in Node \ {Root} /\ Parent[m] # m
      /\ \A l \in Node : IsABag(net[l])
  BY BlockTreeAssumption DEF IInv, GoodNet, IdBag
<1> SUFFICES ASSUME ~block[Parent[m]].decoded, block'[Parent[m]].decoded
             PROVE  /\ Cardinality(MoreCopies(m)) = SymbolsToSend + 1
                    /\ MoreCopies(m) \cap block[Parent[m]].seen = {}
  BY DEF FreshTo
<1>2. Parent[m] = n
  <2>1. block' = [block EXCEPT ![n] = r.block]
    BY DEF Handle
  <2>2. Parent[m] \in Node
    BY <1>1, BlockTreeAssumption
  <2> HIDE DEF r
  <2> QED  BY <2>1, <2>2 DEF IInv, GoodBlocks
<1>3. /\ r.ready /\ ~r.threw
      /\ id \notin block[n].seen
      /\ r.block.seen = block[n].seen \cup {id}
      /\ block'[n] = r.block /\ GoodBlocks'
  <2>1. r = ProcessSymbol(block[n], id, lucky) /\ Handle(n, id, r)
    OBVIOUS
  <2> HIDE DEF r
  <2>2. block'[n] = r.block
    BY <2>1 DEF Handle, IInv, GoodBlocks
  <2> QED  BY <1>1, <1>2, <2>1, <2>2, BlocksAfter DEF IInv
<1>4. /\ U \cap r.block.seen = {}
      /\ IsFiniteSet(U) /\ Cardinality(U) = SymbolsToSend
  <2> DEFINE c == r.block
  <2>1. c.seen \in SUBSET Nat /\ IsFiniteSet(c.seen)
    <3> HIDE DEF r
    <3>1. GoodBlock(block'[n], alive'[n], n \in repeated', faults'[n])
      BY <1>3 DEF GoodBlocks
    <3>2. block'[n].seen \in SUBSET Nat /\ IsFiniteSet(block'[n].seen)
      BY <3>1 DEF GoodBlock, GoodCodec
    <3> QED  BY <1>3, <3>2
  <2> HIDE DEF c
  <2>2. /\ UnseenRange(c, SymbolsToSend) \cap c.seen = {}
        /\ IsFiniteSet(UnseenRange(c, SymbolsToSend))
        /\ Cardinality(UnseenRange(c, SymbolsToSend)) = SymbolsToSend
    BY <2>1, SymbolsToSendType, UnseenRangeResult
  <2> QED  BY <2>2 DEF c
<1>5. net'[m] = net[m] (+) (B (+) C)
  <2>1. m \in Subscribers(n) /\ m # n
    BY <1>1, <1>2 DEF Subscribers
  <2>2. PacketsToSend(id, r) = B (+) C
    BY <1>3 DEF PacketsToSend
  <2> HIDE DEF r, U, B, C
  <2>3. Handle(n, id, r)
    BY DEF r
  <2> QED  BY <1>1, <1>3, <2>1, <2>2, <2>3 DEF Handle
<1>6. IsABag(B) /\ BagToSet(B) = {id} /\ IsABag(C) /\ BagToSet(C) = U
  <2> HIDE DEF U
  <2> QED  BY BagOfSet
<1> HIDE DEF r, U, B, C
<1>7. IsABag(B (+) C) /\ BagToSet(B (+) C) = {id} \cup U
  BY <1>6, BagSumResult
<1> DEFINE S == B (+) C
<1>8. /\ BagToSet(net'[m]) = BagToSet(net[m]) \cup BagToSet(S)
      /\ \A x : /\ Copies(x, net'[m]) = Copies(x, net[m]) + Copies(x, S)
                /\ Copies(x, net[m]) \in Nat
                /\ Copies(x, S) > 0 <=> x \in BagToSet(S)
  <2>1. IsABag(S) /\ IsABag(net[m]) /\ net'[m] = net[m] (+) S
    BY <1>1, <1>5, <1>7
  <2> HIDE DEF S
  <2> QED  BY <2>1, BagSumResult
<1>9. MoreCopies(m) = {id} \cup U
  <2>1. \A x : Copies(x, S) \in Nat
    <3>1. IsABag(S)
      BY <1>7
    <3> HIDE DEF S
    <3> QED  BY <3>1, BagSumResult
  <2> HIDE DEF S
  <2>2. MoreCopies(m) = BagToSet(S)
    BY <1>8, <2>1 DEF MoreCopies
  <2> QED  BY <1>7, <2>2 DEF S
<1>10. id \notin U
  BY <1>3, <1>4
<1>11. Cardinality(U \cup {id}) = SymbolsToSend + 1
  BY <1>4, <1>10, FS_AddElement
<1>12. {id} \cup U = U \cup {id}
  OBVIOUS
<1> QED  BY <1>2, <1>3, <1>4, <1>9, <1>11, <1>12

(***************************************************************************)
(* No other step completes a block.                                        *)
(***************************************************************************)
LEMMA StepIsFresh ==
  ASSUME IInv, [Next]_vars, NEW m \in subscribed
  PROVE  FreshTo(m)
<1>1. ASSUME NEW n \in Node, Receive(n) PROVE FreshTo(m)
  <2>1. PICK id \in BagToSet(net[n]) :
          Handle(n, id, ProcessSymbol(block[n], id, TRUE))
    BY <1>1 DEF Receive
  <2>2. alive[n] /\ faults' = faults
    BY <1>1 DEF Receive
  <2> QED  BY <2>1, <2>2, HandleIsFresh
<1>2. ASSUME NEW n \in Node, ReceiveUnlucky(n) PROVE FreshTo(m)
  <2>1. PICK id \in BagToSet(net[n]) :
          /\ ~IsOriginal(id)
          /\ Handle(n, id, ProcessSymbol(block[n], id, FALSE))
    BY <1>2 DEF ReceiveUnlucky
  <2>2. alive[n] /\ faults' = [faults EXCEPT ![n] = @ + 1]
    BY <1>2 DEF ReceiveUnlucky
  <2> QED  BY <2>1, <2>2, HandleIsFresh
<1>3. block' = block => FreshTo(m)
  BY DEF FreshTo
<1>4. ASSUME NEW n \in Node, Subscribe(n) \/ Lose(n) \/ Duplicate(n)
      PROVE  FreshTo(m)
  BY <1>3, <1>4 DEF Subscribe, Lose, Duplicate
<1>5. CASE UNCHANGED vars
  BY <1>3, <1>5 DEF vars
<1> QED  BY <1>1, <1>2, <1>4, <1>5 DEF Next

(***************************************************************************)
(* A Node that completes the block offers each subscriber SymbolsToSend    *)
(* symbols beside the one that completed it, all of them new: for every    *)
(* tree, size of the block, order, loss and duplication, even of symbols   *)
(* that the Node was given before (block.hpp, unseen_generator).           *)
(***************************************************************************)
THEOREM CompletionIsFresh ==
  Spec => FreshRedundancy
<1>1. Init => IInv
  BY InitEstablishesIInv
<1>2. IInv /\ [Next]_vars => IInv'
  BY NextKeepsIInv
<1>3. IInv /\ [Next]_vars => [\A m \in subscribed : FreshTo(m)]_vars
  BY StepIsFresh
<1> QED  BY <1>1, <1>2, <1>3, PTL DEF Spec, FreshRedundancy

-----------------------------------------------------------------------------
(* A Node that has completed the block                                     *)

(***************************************************************************)
(* A handler of a Node that has the block sends on one packet.             *)
(***************************************************************************)
LEMMA HandleSendsOne ==
  ASSUME IInv, NEW n \in Node, alive[n],
         NEW id \in BagToSet(net[n]),
         NEW lucky \in BOOLEAN, lucky \/ ~IsOriginal(id),
         Handle(n, id, ProcessSymbol(block[n], id, lucky)),
         lucky => faults' = faults,
         ~lucky => faults' = [faults EXCEPT ![n] = @ + 1],
         NEW m \in subscribed, block[Parent[m]].decoded
  PROVE  AtMostOneTo(m)
<1> DEFINE r == ProcessSymbol(block[n], id, lucky)
           C == SetToBag({id})
<1>1. /\ id \in Nat /\ m \in Node /\ IsABag(net[m]) /\ IsABag(net[n])
  BY DEF IInv, GoodNet, IdBag
<1>2. r = ProcessSymbol(block[n], id, lucky) /\ Handle(n, id, r)
  OBVIOUS
<1> HIDE DEF r
<1>3. r.ready => ~block[n].decoded
  BY <1>1, <1>2, BlocksAfter DEF IInv
<1>4. IsABag(C) /\ BagToSet(C) = {id} /\ Copies(id, C) = 1
  BY BagOfSet
<1>5. \/ net'[m] = net[m]
      \/ m = n /\ net'[m] = net[n] (-) C
      \/ Parent[m] = n /\ net'[m] = net[m] (+) PacketsToSend(id, r)
  BY <1>1, <1>2 DEF Handle, Subscribers
<1>6. CASE net'[m] = net[m]
  <2>1. \A x : Copies(x, net[m]) \in Nat
    BY <1>1, <1>4, BagSumResult
  <2> QED  BY <1>6, <2>1 DEF AtMostOneTo, MoreCopies
<1>7. CASE m = n /\ net'[m] = net[n] (-) C
  <2> DEFINE B == net[n]
  <2> HIDE DEF B, C
  <2>1. \A x : Copies(x, B (-) C) =< Copies(x, B)
    BY <1>1, <1>4, BagDifference DEF B
  <2>2. /\ \A x : Copies(x, B) \in Nat
        /\ \A x : Copies(x, B (-) C) \in Nat
    BY <1>1, <1>4, BagDifference, BagSumResult DEF B
  <2>3. \A x : Copies(x, net'[m]) =< Copies(x, net[m])
               /\ Copies(x, net'[m]) \in Nat /\ Copies(x, net[m]) \in Nat
    BY <1>7, <2>1, <2>2 DEF B
  <2>4. MoreCopies(m) = {}
    BY <2>3 DEF MoreCopies
  <2> QED  BY <2>4 DEF AtMostOneTo
<1>8. CASE Parent[m] = n /\ net'[m] = net[m] (+) PacketsToSend(id, r)
  <2>1. net'[m] = net[m] (+) C
    BY <1>3, <1>8 DEF PacketsToSend
  <2> DEFINE B == net[m]
  <2> HIDE DEF B, C
  <2>2. \A x : /\ Copies(x, B (+) C) = Copies(x, B) + Copies(x, C)
               /\ Copies(x, B) \in Nat
               /\ Copies(x, C) > 0 <=> x \in BagToSet(C)
    BY <1>1, <1>4, BagSumResult DEF B
  <2>3. \A x : Copies(x, C) \in Nat
    BY <1>4, BagSumResult
  <2>4. \A x \in MoreCopies(m) : x = id
    BY <1>4, <2>1, <2>2, <2>3 DEF MoreCopies, B
  <2>5. Copies(id, net'[m]) = Copies(id, net[m]) + 1
        /\ Copies(id, net[m]) \in Nat
    BY <1>4, <2>1, <2>2 DEF B
  <2>6. Copies(id, net'[m]) =< Copies(id, net[m]) + 1
    BY <2>5
  <2> QED  BY <2>4, <2>6 DEF AtMostOneTo
<1> QED  BY <1>5, <1>6, <1>7, <1>8

(***************************************************************************)
(* No step sends more to a subscriber of such a Node.                      *)
(***************************************************************************)
LEMMA StepSendsOne ==
  ASSUME IInv, [Next]_vars, NEW m \in subscribed, block[Parent[m]].decoded
  PROVE  AtMostOneTo(m)
<1>1. ASSUME NEW n \in Node, Receive(n) PROVE AtMostOneTo(m)
  <2>1. PICK id \in BagToSet(net[n]) :
          Handle(n, id, ProcessSymbol(block[n], id, TRUE))
    BY <1>1 DEF Receive
  <2>2. alive[n] /\ faults' = faults
    BY <1>1 DEF Receive
  <2> QED  BY <2>1, <2>2, HandleSendsOne
<1>2. ASSUME NEW n \in Node, ReceiveUnlucky(n) PROVE AtMostOneTo(m)
  <2>1. PICK id \in BagToSet(net[n]) :
          /\ ~IsOriginal(id)
          /\ Handle(n, id, ProcessSymbol(block[n], id, FALSE))
    BY <1>2 DEF ReceiveUnlucky
  <2>2. alive[n] /\ faults' = [faults EXCEPT ![n] = @ + 1]
    BY <1>2 DEF ReceiveUnlucky
  <2> QED  BY <2>1, <2>2, HandleSendsOne
<1>3. m \in Node /\ \A l \in Node : IsABag(net[l])
  BY DEF IInv, GoodNet, IdBag
<1>4. \A x : \A l \in Node : Copies(x, net[l]) \in Nat
  BY <1>3, BagSumResult
<1>5. ASSUME net'[m] = net[m] PROVE AtMostOneTo(m)
  BY <1>3, <1>4, <1>5 DEF AtMostOneTo, MoreCopies
<1>6. ASSUME NEW n \in Node, Subscribe(n) PROVE AtMostOneTo(m)
  BY <1>5, <1>6 DEF Subscribe
<1>7. ASSUME NEW n \in Node, Lose(n) PROVE AtMostOneTo(m)
  <2>1. PICK id \in BagToSet(net[n]) :
          net' = [net EXCEPT ![n] = @ (-) SetToBag({id})]
    BY <1>7 DEF Lose
  <2> DEFINE B == net[n]
             C == SetToBag({id})
  <2>2. IsABag(B) /\ IsABag(C) /\ (m # n => net'[m] = net[m])
        /\ (m = n => net'[m] = B (-) C /\ net[m] = B)
    BY <1>3, <2>1, BagOfSet DEF IInv, GoodNet
  <2> HIDE DEF B, C
  <2>3. \A x : Copies(x, B (-) C) =< Copies(x, B) /\ Copies(x, B) \in Nat
               /\ Copies(x, B (-) C) \in Nat
    BY <2>2, BagDifference, BagSumResult
  <2>4. m = n => MoreCopies(m) = {}
    BY <2>2, <2>3 DEF MoreCopies
  <2> QED  BY <1>5, <2>2, <2>4 DEF AtMostOneTo
<1>8. ASSUME NEW n \in Node, Duplicate(n) PROVE AtMostOneTo(m)
  <2>1. PICK id \in BagToSet(net[n]) :
          net' = [net EXCEPT ![n] = @ (+) SetToBag({id})]
    BY <1>8 DEF Duplicate
  <2> DEFINE B == net[n]
             C == SetToBag({id})
  <2>2. IsABag(B) /\ IsABag(C) /\ (m # n => net'[m] = net[m])
        /\ (m = n => net'[m] = B (+) C /\ net[m] = B)
        /\ BagToSet(C) = {id} /\ Copies(id, C) = 1
    BY <1>3, <2>1, BagOfSet DEF IInv, GoodNet
  <2> HIDE DEF B, C
  <2>3. \A x : /\ Copies(x, B (+) C) = Copies(x, B) + Copies(x, C)
               /\ Copies(x, B) \in Nat /\ Copies(x, C) \in Nat
               /\ Copies(x, C) > 0 <=> x \in BagToSet(C)
    BY <2>2, BagSumResult
  <2>4. CASE m = n
    <3>1. \A x \in MoreCopies(m) : x = id
      BY <2>2, <2>3, <2>4 DEF MoreCopies
    <3>2. Copies(id, net'[m]) =< Copies(id, net[m]) + 1
      BY <2>2, <2>3, <2>4
    <3> QED  BY <3>1, <3>2 DEF AtMostOneTo
  <2> QED  BY <1>5, <2>2, <2>4
<1>9. CASE UNCHANGED vars
  BY <1>5, <1>9 DEF vars
<1> QED  BY <1>1, <1>2, <1>6, <1>7, <1>8, <1>9 DEF Next

(***************************************************************************)
(* After that a Node only forwards: one packet to each subscriber for each *)
(* that it receives (block.hpp, process_symbol, which returns at once when *)
(* m_decoded is set).                                                      *)
(***************************************************************************)
THEOREM BurstIsSentOnce ==
  Spec => GeneratesOnce
<1>1. Init => IInv
  BY InitEstablishesIInv
<1>2. IInv /\ [Next]_vars => IInv'
  BY NextKeepsIInv
<1>3. IInv /\ [Next]_vars
        => [\A m \in subscribed :
              block[Parent[m]].decoded => AtMostOneTo(m)]_vars
  BY StepSendsOne
<1> QED  BY <1>1, <1>2, <1>3, PTL DEF Spec, GeneratesOnce

-----------------------------------------------------------------------------
(* Which symbols wirehair refuses                                          *)

(***************************************************************************)
(* The ids of a block fit in 16 bits: those that a source sends, and after *)
(* them as many as a Node has at most when it generates.                   *)
(***************************************************************************)
IdsFit ==
  \A n \in Node : SymbolsToSend + BlockCount + MaxFaults[n] =< IdPeriod

\* What is refused was repeated; no id is longer than 16 bits.
Refused ==
  \A n \in Node :
    /\ alive[n] \/ n \in repeated
    /\ \A id \in BagToSet(net[n]) : id < IdPeriod

(***************************************************************************)
(* A handler generates ids of 16 bits, as the block was given no more      *)
(* symbols than it needs and the unlucky ones, and throws for a repeated   *)
(* symbol only.                                                            *)
(***************************************************************************)
LEMMA HandleKeepsRefused ==
  ASSUME IdsFit, IInv, Refused, IInv', NEW n \in Node, alive[n],
         NEW id \in BagToSet(net[n]),
         NEW lucky \in BOOLEAN, lucky \/ ~IsOriginal(id),
         Handle(n, id, ProcessSymbol(block[n], id, lucky)),
         lucky => faults' = faults,
         ~lucky => faults' = [faults EXCEPT ![n] = @ + 1]
  PROVE  Refused'
<1> DEFINE r == ProcessSymbol(block[n], id, lucky)
<1>1. id \in Nat /\ id < IdPeriod /\ \A m \in Node : IsABag(net[m])
  BY DEF IInv, GoodNet, IdBag, Refused
<1>2. r = ProcessSymbol(block[n], id, lucky) /\ Handle(n, id, r)
  OBVIOUS
<1> HIDE DEF r
<1>3. r.threw => n \in repeated'
  BY <1>1, <1>2, BlocksAfter DEF IInv
<1>4. block'[n] = r.block /\ alive'[n] = ~r.threw
      /\ alive'[n] \in BOOLEAN
  BY <1>2 DEF Handle, IInv, GoodBlocks
<1>5. ASSUME NEW m \in Node PROVE alive'[m] \/ m \in repeated'
  <2>1. CASE m = n
    BY <1>3, <1>4, <2>1
  <2>2. CASE m # n
    BY <1>2, <2>2 DEF Handle, IInv, GoodBlocks, Refused
  <2> QED  BY <2>1, <2>2
<1>6. ASSUME NEW x \in Generated(r) PROVE x < IdPeriod
  <2> DEFINE c == r.block
             k == Cardinality(c.seen)
             S == SymbolsToSend
  <2>1. /\ c.seen \in SUBSET Nat /\ IsFiniteSet(c.seen)
        /\ c.codec.rank \in 0 .. BlockCount
        /\ k =< c.codec.rank + faults'[n]
        /\ faults'[n] \in Nat /\ faults'[n] =< MaxFaults[n]
    <3>1. GoodBlock(c, alive'[n], n \in repeated', faults'[n])
          /\ faults'[n] \in Nat /\ faults'[n] =< MaxFaults[n]
      BY <1>4 DEF IInv, GoodBlocks
    <3> HIDE DEF c
    <3> QED  BY <3>1 DEF GoodBlock, GoodCodec
  <2>2. k \in Nat /\ S \in Nat
    BY <2>1, FS_CardinalityType, SymbolsToSendType
  <2>3. x \in UnseenRange(c, SymbolsToSend)
    BY <1>6 DEF Generated
  <2>4. UnseenRange(c, SymbolsToSend) \subseteq 0 .. S + k - 1
    <3> HIDE DEF c
    <3> QED  BY <2>1, SymbolsToSendType, UnseenRangeResult
  <2>5. S + BlockCount + MaxFaults[n] =< IdPeriod
    BY DEF IdsFit
  <2>6. MaxFaults[n] \in Nat /\ BlockCount \in Nat /\ IdPeriod \in Nat
    BY BlockTreeAssumption, WirehairAssumption
  <2> HIDE DEF c, k, S
  <2>7. x \in Int /\ x =< (S + k) - 1
    BY <2>2, <2>3, <2>4
  <2> QED  BY <2>1, <2>2, <2>5, <2>6, <2>7
<1>7. ASSUME NEW m \in Node, NEW x \in BagToSet(net'[m])
      PROVE  x < IdPeriod
  <2>1. BagToSet(net'[m]) \subseteq BagToSet(net[m]) \cup {id} \cup Generated(r)
    BY <1>1, <1>2, NetAfter
  <2>2. x \in BagToSet(net[m]) \/ x = id \/ x \in Generated(r)
    BY <2>1
  <2> QED  BY <1>1, <1>6, <2>2 DEF Refused
<1> QED  BY <1>5, <1>7 DEF Refused

(***************************************************************************)
(* Every step keeps it so.                                                 *)
(***************************************************************************)
LEMMA NextKeepsRefused ==
  ASSUME IdsFit, IInv, IInv', Refused, [Next]_vars
  PROVE  Refused'
<1>1. ASSUME NEW n \in Node, Receive(n) PROVE Refused'
  <2>1. PICK id \in BagToSet(net[n]) :
          Handle(n, id, ProcessSymbol(block[n], id, TRUE))
    BY <1>1 DEF Receive
  <2>2. alive[n] /\ faults' = faults
    BY <1>1 DEF Receive
  <2> QED  BY <2>1, <2>2, HandleKeepsRefused
<1>2. ASSUME NEW n \in Node, ReceiveUnlucky(n) PROVE Refused'
  <2>1. PICK id \in BagToSet(net[n]) :
          /\ ~IsOriginal(id)
          /\ Handle(n, id, ProcessSymbol(block[n], id, FALSE))
    BY <1>2 DEF ReceiveUnlucky
  <2>2. alive[n] /\ faults' = [faults EXCEPT ![n] = @ + 1]
    BY <1>2 DEF ReceiveUnlucky
  <2> QED  BY <2>1, <2>2, HandleKeepsRefused
<1>3. ASSUME UNCHANGED <<alive, repeated>>,
             \A m \in Node : BagToSet(net'[m]) \subseteq BagToSet(net[m])
      PROVE  Refused'
  BY <1>3 DEF Refused
<1>4. ASSUME NEW n \in Node, Subscribe(n) PROVE Refused'
  BY <1>3, <1>4 DEF Subscribe
<1>5. ASSUME NEW n \in Node, Lose(n) PROVE Refused'
  <2>1. PICK id \in BagToSet(net[n]) :
          net' = [net EXCEPT ![n] = @ (-) SetToBag({id})]
    BY <1>5 DEF Lose
  <2>2. BagToSet(net[n] (-) SetToBag({id})) \subseteq BagToSet(net[n])
    BY BagOfSet, BagDifference DEF IInv, GoodNet, IdBag
  <2>3. \A m \in Node : BagToSet(net'[m]) \subseteq BagToSet(net[m])
    BY <2>1, <2>2 DEF IInv, GoodNet
  <2> QED  BY <1>3, <1>5, <2>3 DEF Lose
<1>6. ASSUME NEW n \in Node, Duplicate(n) PROVE Refused'
  <2>1. PICK id \in BagToSet(net[n]) :
          net' = [net EXCEPT ![n] = @ (+) SetToBag({id})]
    BY <1>6 DEF Duplicate
  <2> DEFINE B == net[n]
             C == SetToBag({id})
  <2>2. IsABag(B) /\ IsABag(C) /\ BagToSet(C) = {id} /\ id \in BagToSet(B)
    BY BagOfSet DEF IInv, GoodNet, IdBag
  <2>3. net'[n] = B (+) C
    BY <2>1 DEF IInv, GoodNet
  <2> HIDE DEF B, C
  <2>4. BagToSet(B (+) C) = BagToSet(B) \cup BagToSet(C)
    BY <2>2, BagSumResult
  <2>5. BagToSet(net'[n]) \subseteq BagToSet(net[n])
    BY <2>2, <2>3, <2>4 DEF B
  <2>6. \A m \in Node : BagToSet(net'[m]) \subseteq BagToSet(net[m])
    BY <2>1, <2>5 DEF IInv, GoodNet
  <2> QED  BY <1>3, <1>6, <2>6 DEF Duplicate
<1>7. CASE UNCHANGED vars
  BY <1>3, <1>7 DEF vars
<1> QED  BY <1>1, <1>2, <1>4, <1>5, <1>6, <1>7 DEF Next

(***************************************************************************)
(* A handler throws for a repeated symbol only (block.hpp, process_symbol  *)
(* and its ENFORCE), for every block whose ids fit in 16 bits.             *)
(***************************************************************************)
THEOREM RepetitionsAlone ==
  ASSUME IdsFit
  PROVE  Spec => []OnlyRepetitionsThrow
<1>1. Init => IInv /\ Refused
  <2> SUFFICES ASSUME Init PROVE Refused
    BY InitEstablishesIInv
  <2> DEFINE I == 0 .. SymbolsToSend - 1
  <2>1. ASSUME NEW n \in Node
        PROVE  alive[n] /\ \A id \in BagToSet(net[n]) : id < IdPeriod
    <3>1. net[n] = IF n = Root THEN SetToBag(I) ELSE SetToBag({})
      BY DEF Init, EmptyBag
    <3>2. \A id \in I : id < IdPeriod
      <4>1. SymbolsToSend + BlockCount + MaxFaults[n] =< IdPeriod
        BY DEF IdsFit
      <4>2. SymbolsToSend \in Nat /\ BlockCount \in Nat /\ MaxFaults[n] \in Nat
            /\ IdPeriod \in Nat
        BY SymbolsToSendType, BlockTreeAssumption, WirehairAssumption
      <4> QED  BY <4>1, <4>2
    <3>3. BagToSet(net[n]) \subseteq I
      <4> HIDE DEF I
      <4> QED  BY <3>1, BagOfSet
    <3> QED  BY <3>2, <3>3 DEF Init
  <2> QED  BY <2>1 DEF Refused
<1>2. IInv /\ Refused /\ [Next]_vars => (IInv /\ Refused)'
  BY NextKeepsIInv, NextKeepsRefused
<1>3. Refused => OnlyRepetitionsThrow
  BY DEF Refused, OnlyRepetitionsThrow
<1> QED  BY <1>1, <1>2, <1>3, PTL DEF Spec
=============================================================================
