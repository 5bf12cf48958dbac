----------------------- MODULE TransactionPool_proofs -----------------------
(***************************************************************************)
(* Types, the fate of own payments and the soundness of a group, for any   *)
(* number of blocks and payments.                                          *)
(***************************************************************************)
EXTENDS TransactionPool, FiniteSetTheorems, FunctionTheorems, Integers, TLAPS

-----------------------------------------------------------------------------
(* Sums that are counted out.                                              *)

Pairs(f) == UNION {{x} \X (1..f[x]) : x \in DOMAIN f}

(* A pair of the sum counts once for its place.                            *)
LEMMA PairsOf ==
  ASSUME NEW f, NEW c
  PROVE  c \in Pairs(f) <=> \E x \in DOMAIN f : \E i \in 1..f[x] : c = <<x, i>>
BY DEF Pairs

(* The pairs of one place are as many as its value.                        *)
LEMMA PairsOfOne ==
  ASSUME NEW x, NEW n \in Nat
  PROVE  IsFiniteSet({x} \X (1..n)) /\ Cardinality({x} \X (1..n)) = n
<1> DEFINE g == [i \in 1..n |-> <<x, i>>]
<1>1. g \in Bijection(1..n, {x} \X (1..n))
  BY Fun_IsBij
<1>2. ExistsBijection(1..n, {x} \X (1..n))
  BY <1>1 DEF ExistsBijection
<1>3. IsFiniteSet(1..n) /\ Cardinality(1..n) = n
  BY FS_Interval
<1> HIDE DEF g
<1> QED BY <1>2, <1>3, FS_Bijection

(* A sum over a finite set is a number.                                    *)
LEMMA SumIsNat ==
  ASSUME NEW S, IsFiniteSet(S), NEW f \in [S -> Nat]
  PROVE  IsFiniteSet(Pairs(f)) /\ Sum(f) \in Nat
<1> DEFINE Parts == {{x} \X (1..f[x]) : x \in S}
           g == [x \in S |-> {x} \X (1..f[x])]
<1>1. g \in Surjection(S, Parts)
  BY Fun_IsSurj
<1>2. IsFiniteSet(Parts)
  <2> HIDE DEF g, Parts
  <2> QED BY <1>1, FS_Surjection
<1>3. \A P \in Parts : IsFiniteSet(P)
  <2> SUFFICES ASSUME NEW x \in S PROVE IsFiniteSet({x} \X (1..f[x]))
    OBVIOUS
  <2>1. f[x] \in Nat
    OBVIOUS
  <2> QED BY <2>1, PairsOfOne
<1>4. Pairs(f) = UNION Parts
  BY DEF Pairs
<1>5. IsFiniteSet(Pairs(f))
  <2> HIDE DEF Parts
  <2> QED BY <1>2, <1>3, <1>4, FS_UNION
<1> QED BY <1>5, FS_CardinalityType DEF Sum, Pairs

(* A sum splits along its places.                                          *)
LEMMA SumSplits ==
  ASSUME NEW A, NEW B, A \cap B = {}, IsFiniteSet(A), IsFiniteSet(B),
         NEW f \in [A \cup B -> Nat], NEW g \in [A -> Nat], NEW h \in [B -> Nat],
         \A x \in A : f[x] = g[x], \A x \in B : f[x] = h[x]
  PROVE  Sum(f) = Sum(g) + Sum(h)
<1>1. IsFiniteSet(Pairs(g)) /\ IsFiniteSet(Pairs(h)) /\ Sum(g) \in Nat /\ Sum(h) \in Nat
  BY SumIsNat
<1>2. Pairs(f) = Pairs(g) \cup Pairs(h)
  BY DEF Pairs
<1>3. Pairs(g) \cap Pairs(h) = {}
  BY DEF Pairs
<1>4. Cardinality(Pairs(g) \cap Pairs(h)) = 0
  BY <1>3, FS_EmptySet
<1>5. Sum(f) = Sum(g) + Sum(h)
  <2>1. Cardinality(Pairs(g) \cup Pairs(h))
          = Cardinality(Pairs(g)) + Cardinality(Pairs(h)) - Cardinality(Pairs(g) \cap Pairs(h))
    BY <1>1, FS_Union
  <2>2. Sum(f) = Cardinality(Pairs(f)) /\ Sum(g) = Cardinality(Pairs(g)) /\ Sum(h) = Cardinality(Pairs(h))
    BY DEF Sum, Pairs
  <2> QED BY <1>1, <1>2, <1>4, <2>1, <2>2
<1> QED BY <1>5

(* The sum over one place, and over none.                                  *)
LEMMA SumOfOne ==
  ASSUME NEW x, NEW f, DOMAIN f = {x}, f[x] \in Nat
  PROVE  Sum(f) = f[x]
<1>1. UNION {{y} \X (1..f[y]) : y \in DOMAIN f} = {x} \X (1..f[x])
  OBVIOUS
<1> QED BY <1>1, PairsOfOne DEF Sum

(* Nothing sums to nothing.                                                *)
LEMMA SumOfNone ==
  ASSUME NEW f, DOMAIN f = {}
  PROVE  Sum(f) = 0
<1>1. UNION {{y} \X (1..f[y]) : y \in DOMAIN f} = {}
  OBVIOUS
<1> QED BY <1>1, FS_EmptySet DEF Sum

-----------------------------------------------------------------------------
(* The state of the chain.                                                 *)

Blocks == 1..Len(blocks)
Block == [parent : Nat, blockCount : Nat, txs : Seq(Tx), miner : {Me, Peer},
          unspent : SUBSET Ref]

(* The references to outputs that exist, in blocks up to one.              *)
Known(b) == {r \in Ref : /\ r[1] \in 1..b
                         /\ r[2] \in 1..Len(blocks[r[1]].txs)
                         /\ r[3] \in 1..Len(blocks[r[1]].txs[r[2]].outs)}

ChainType ==
  /\ blocks \in Seq(Block)
  /\ \A b \in Blocks : blocks[b].parent < b
  /\ offered \subseteq Blocks /\ verified \subseteq Blocks /\ path \in Seq(Blocks)
  /\ ready \subseteq Nodes /\ head \in Nodes /\ phase \in {"verify", "apply", "tell", "forget"}
  /\ told \in Nat

(* The genesis keeps its manager; managers and head are at verified blocks;*)
(* a block that is applied or told is verified and not above the head.     *)
PlacesOk ==
  /\ \A b \in Blocks : blocks[b].blockCount = BlockCount(Parent(b)) + 1
  /\ NoBlock \in ready
  /\ ready \subseteq verified \cup {NoBlock} /\ head \in verified \cup {NoBlock}
  /\ path = <<>> => phase = "verify"
  /\ phase # "verify" => Current \in verified /\ BlockCount(Current) <= BlockCount(head)

(* What is unspent at a block is an output of a block up to it.            *)
UnspentKnown == \A b \in Blocks : Unspent(b) \subseteq Known(b)

ChainInv == ChainType /\ PlacesOk /\ UnspentKnown

(* The wallet has found outputs that exist.                                *)
WalletInv ==
  /\ paying \in BOOLEAN /\ utxoptr \in Nodes /\ looked \in Nat
  /\ found \subseteq Nat \X Ref /\ IsFiniteSet(found)
  /\ Refs(found) \subseteq Known(Len(blocks))

-----------------------------------------------------------------------------
(* A step that leaves the chain alone, or one of these.                    *)
LEMMA ChainSteps ==
  ASSUME [Next]_vars
  PROVE  \/ UNCHANGED chainVars
         \/ \E p \in Nodes : \E txs \in SUBSET sent : PeerMines(p, SetToSeq(txs))
         \/ Mine
         \/ \E b \in offered : Take(b)
         \/ Descend \/ Reject \/ Accept \/ Apply \/ Tell \/ Forget \/ Return
<1>1. CASE UNCHANGED vars
  BY <1>1 DEF vars
<1>2. CASE Wallet
  BY <1>2 DEF Wallet, TakeManager, LookUp, MakeTransaction, ReceiveInternal
<1>3. CASE Network
  BY <1>3 DEF Network, PeerPays, ReceiveTransaction
<1>4. CASE Updater
  BY <1>4 DEF Updater
<1>5. CASE Miner
  BY <1>5 DEF Miner, Choose, AddOwn, WalkOwn, WalkOthers, AddOther, Prepare, Interrupted, Continue
<1> QED BY <1>1, <1>2, <1>3, <1>4, <1>5 DEF Next

(* What a block makes available has its number.                            *)
LEMMA OutputsKnown ==
  ASSUME NEW b \in Nat, NEW txs \in Seq(Tx)
  PROVE  \A r : r \in OutputsOf(b, txs)
           <=> /\ r \in Ref /\ r[1] = b /\ r[2] \in 1..Len(txs) /\ r[3] \in 1..Len(txs[r[2]].outs)
<1>1. \A k \in 1..Len(txs) : Len(txs[k].outs) \in Nat
  BY DEF Tx
<1>2. ASSUME NEW r, r \in OutputsOf(b, txs)
      PROVE  /\ r \in Ref /\ r[1] = b /\ r[2] \in 1..Len(txs) /\ r[3] \in 1..Len(txs[r[2]].outs)
  <2>1. PICK k \in 1..Len(txs) : \E j \in 1..Len(txs[k].outs) : r = <<b, k, j>>
    BY <1>2 DEF OutputsOf, Range1
  <2>2. PICK j \in 1..Len(txs[k].outs) : r = <<b, k, j>>
    BY <2>1
  <2> QED BY <1>1, <2>2 DEF Ref
<1>3. ASSUME NEW r \in Ref, r[1] = b, r[2] \in 1..Len(txs), r[3] \in 1..Len(txs[r[2]].outs)
      PROVE  r \in OutputsOf(b, txs)
  <2>1. r = <<b, r[2], r[3]>>
    BY <1>3 DEF Ref
  <2>2. r \in {<<b, r[2], j>> : j \in Range1(txs[r[2]].outs)}
    BY <1>3, <2>1 DEF Range1
  <2> QED BY <1>3, <2>2 DEF OutputsOf, Range1
<1> QED BY <1>2, <1>3

(* A mined block is a block, and leaves the others as they were.           *)
LEMMA MinedBlock ==
  ASSUME ChainInv, NEW p \in Nodes, NEW txs \in Seq(Tx), NEW m \in {Me, Peer},
         blocks' = Append(blocks, Mined(p, txs, m))
  PROVE  /\ Mined(p, txs, m) \in Block
         /\ blocks' \in Seq(Block) /\ Len(blocks') = Len(blocks) + 1 /\ Len(blocks) \in Nat
         /\ blocks'[Len(blocks) + 1] = Mined(p, txs, m)
         /\ \A b \in Blocks : blocks'[b] = blocks[b]
         /\ \A b \in Nodes : /\ BlockCount(b)' = BlockCount(b) /\ BlockCount(b) \in Nat
                             /\ Unspent(b)' = Unspent(b)
                             /\ Known(b)' = Known(b)
<1> USE DEF ChainInv, ChainType
<1>1. \A b \in Blocks : blocks[b] \in Block
  BY DEF Blocks
<1>2. \A b \in Nodes : BlockCount(b) \in Nat /\ Unspent(b) \subseteq Ref
  <2> TAKE b \in Nodes
  <2>1. CASE b = NoBlock
    BY <2>1 DEF BlockCount, Unspent
  <2>2. CASE b # NoBlock
    <3>1. blocks[b] \in Block
      BY <1>1, <2>2 DEF Nodes, Blocks, NoBlock
    <3> QED BY <2>2, <3>1 DEF BlockCount, Unspent, Block
  <2> QED BY <2>1, <2>2
<1>3. OutputsOf(Len(blocks) + 1, txs) \subseteq Ref
  BY OutputsKnown
<1>4. Mined(p, txs, m) \in Block
  BY <1>2, <1>3 DEF Mined, Block, Nodes
<1>5. /\ blocks' \in Seq(Block) /\ Len(blocks') = Len(blocks) + 1 /\ Len(blocks) \in Nat
      /\ blocks'[Len(blocks) + 1] = Mined(p, txs, m)
      /\ \A b \in Blocks : blocks'[b] = blocks[b]
  <2> HIDE DEF Block
  <2> QED BY <1>4 DEF Blocks
<1>6. ASSUME NEW b \in Nodes
      PROVE  /\ BlockCount(b)' = BlockCount(b)
             /\ Unspent(b)' = Unspent(b)
             /\ Known(b)' = Known(b)
  <2>1. b # NoBlock => blocks'[b] = blocks[b]
    BY <1>5 DEF Nodes, Blocks, NoBlock
  <2>2. \A i \in 1..b : blocks'[i] = blocks[i]
    BY <1>5 DEF Nodes, Blocks
  <2> QED BY <2>1, <2>2 DEF BlockCount, Unspent, Known
<1> QED BY <1>2, <1>4, <1>5, <1>6

(* The chain stays sound when a block is mined.                            *)
LEMMA ChainGrows ==
  ASSUME ChainInv, NEW p \in Nodes, NEW txs \in Seq(Tx), NEW m \in {Me, Peer},
         blocks' = Append(blocks, Mined(p, txs, m)),
         offered' \subseteq offered \cup {Len(blocks) + 1},
         UNCHANGED <<path, phase, told, verified, ready, head>>
  PROVE  ChainInv'
<1> DEFINE n == Len(blocks) + 1
<1>1. /\ Mined(p, txs, m) \in Block
      /\ blocks' \in Seq(Block) /\ Len(blocks') = n /\ Len(blocks) \in Nat
      /\ blocks'[n] = Mined(p, txs, m)
      /\ \A b \in Blocks : blocks'[b] = blocks[b]
      /\ \A b \in Nodes : /\ BlockCount(b)' = BlockCount(b) /\ BlockCount(b) \in Nat
                          /\ Unspent(b)' = Unspent(b)
                          /\ Known(b)' = Known(b)
  BY MinedBlock
<1>2. Blocks' = Blocks \cup {n} /\ Nodes' = Nodes \cup {n} /\ Blocks \subseteq Nodes
  BY <1>1 DEF Blocks, Nodes
<1>3. Blocks \subseteq Blocks'
  BY <1>2
<1>4. path \in Seq(Blocks')
  BY <1>3 DEF ChainInv, ChainType
<1>5. p < n /\ p \in Nat
  BY <1>1 DEF Nodes
<1>6. ChainType'
  <2>1. \A b \in Blocks' : blocks'[b].parent < b
    <3> TAKE b \in Blocks'
    <3>1. CASE b \in Blocks
      BY <1>1, <3>1 DEF ChainInv, ChainType
    <3>2. CASE b = n
      BY <1>1, <1>5, <3>2 DEF Mined
    <3> QED BY <1>2, <3>1, <3>2
  <2> QED BY <1>1, <1>2, <1>3, <1>4, <2>1 DEF ChainInv, ChainType
<1>7. PlacesOk'
  <2>1. ASSUME NEW b \in Blocks'
        PROVE  (blocks[b].blockCount = BlockCount(Parent(b)) + 1)'
    <3>1. CASE b \in Blocks
      <4>1. blocks'[b] = blocks[b] /\ blocks[b] \in Block /\ blocks[b].parent < b
        BY <1>1, <3>1 DEF ChainInv, ChainType, Blocks
      <4>2. Parent(b) \in Nodes /\ Parent(b)' = Parent(b)
        BY <4>1, <3>1 DEF Parent, Block, Nodes, Blocks
      <4>3. BlockCount(Parent(b))' = BlockCount(Parent(b))
        BY <1>1, <4>2
      <4> QED BY <3>1, <4>1, <4>3 DEF ChainInv, PlacesOk
    <3>2. CASE b = n
      <4>1. Parent(b)' = p /\ blocks'[b].blockCount = BlockCount(p) + 1
        BY <1>1, <3>2 DEF Parent, Mined
      <4>2. BlockCount(Parent(b))' = BlockCount(p)'
        BY <4>1 DEF BlockCount
      <4> QED BY <1>1, <4>1, <4>2
    <3> QED BY <1>2, <3>1, <3>2
  <2>2. phase # "verify" => (Current \in verified /\ BlockCount(Current) <= BlockCount(head))'
    <3> SUFFICES ASSUME phase # "verify"
                 PROVE  (Current \in verified /\ BlockCount(Current) <= BlockCount(head))'
      OBVIOUS
    <3>1. Current \in verified /\ BlockCount(Current) <= BlockCount(head)
      BY DEF ChainInv, PlacesOk
    <3>2. Current' = Current /\ Current \in Nodes /\ head \in Nodes
      BY <1>2, <3>1 DEF Current, ChainInv, ChainType
    <3>3. BlockCount(Current)' = BlockCount(Current) /\ BlockCount(head)' = BlockCount(head)
      BY <1>1, <3>2 DEF BlockCount
    <3> QED BY <3>1, <3>2, <3>3
  <2> QED BY <2>1, <2>2 DEF ChainInv, PlacesOk
<1>8. UnspentKnown'
  <2> SUFFICES ASSUME NEW b \in Blocks' PROVE Unspent(b)' \subseteq Known(b)'
    BY DEF UnspentKnown
  <2>1. CASE b \in Blocks
    BY <1>1, <1>2, <2>1 DEF ChainInv, UnspentKnown
  <2>2. CASE b = n
    <3>1. /\ Unspent(b)' = (Unspent(p) \ Spent(txs)) \cup OutputsOf(b, txs)
          /\ blocks'[b].txs = txs
          /\ b \in Nat /\ b >= 1
      BY <1>1, <1>5, <2>2 DEF Unspent, Mined, NoBlock
    <3>2. Known(p)' = Known(p) /\ Known(p)' \subseteq Known(b)'
      BY <1>1, <1>5, <2>2 DEF Known
    <3>3. Unspent(p) \subseteq Known(p)
      <4>1. p = NoBlock => Unspent(p) = {}
        BY DEF Unspent
      <4>2. p # NoBlock => p \in Blocks
        BY <1>1 DEF Nodes, Blocks, NoBlock
      <4> QED BY <4>1, <4>2 DEF ChainInv, UnspentKnown
    <3>4. OutputsOf(b, txs) \subseteq Known(b)'
      <4> SUFFICES ASSUME NEW r \in OutputsOf(b, txs) PROVE r \in Known(b)'
        OBVIOUS
      <4>1. r \in Ref /\ r[1] = b /\ r[2] \in 1..Len(txs) /\ r[3] \in 1..Len(txs[r[2]].outs)
        BY <3>1, OutputsKnown
      <4>2. blocks'[r[1]].txs = txs
        BY <3>1, <4>1, Zenon
      <4>3. /\ r[1] \in 1..b
            /\ r[2] \in 1..Len(blocks'[r[1]].txs)
            /\ r[3] \in 1..Len(blocks'[r[1]].txs[r[2]].outs)
        <5>1. r[1] \in 1..b
          BY <3>1, <4>1
        <5> QED BY <4>1, <4>2, <5>1, Zenon
      <4> QED BY <4>1, <4>3, Zenon DEF Known
    <3> QED BY <3>1, <3>2, <3>3, <3>4
  <2> QED BY <1>2, <2>1, <2>2
<1> QED BY <1>6, <1>7, <1>8 DEF ChainInv

(* The places of a sequence are finitely many.                             *)
LEMMA RangeFinite == \A n \in Nat : IsFiniteSet(1..n)
BY FS_Interval

(* There are finitely many of them.                                        *)
LEMMA OutputsFinite ==
  ASSUME NEW b \in Nat, NEW txs \in Seq(Tx)
  PROVE  IsFiniteSet(OutputsOf(b, txs))
<1> DEFINE part(k) == {<<b, k, j>> : j \in 1..Len(txs[k].outs)}
           Parts == {part(k) : k \in 1..Len(txs)}
           g == [k \in 1..Len(txs) |-> part(k)]
<1>1. \A k \in 1..Len(txs) : IsFiniteSet(part(k))
  <2> TAKE k \in 1..Len(txs)
  <2> DEFINE h == [j \in 1..Len(txs[k].outs) |-> <<b, k, j>>]
  <2>1. Len(txs[k].outs) \in Nat
    BY DEF Tx
  <2>2. h \in Surjection(1..Len(txs[k].outs), part(k))
    BY Fun_IsSurj
  <2>3. IsFiniteSet(1..Len(txs[k].outs))
    BY <2>1, RangeFinite
  <2> HIDE DEF h, part
  <2> QED BY <2>2, <2>3, FS_Surjection
<1>2. g \in Surjection(1..Len(txs), Parts)
  <2> HIDE DEF part
  <2> QED BY Fun_IsSurj
<1>3. IsFiniteSet(1..Len(txs))
  BY FS_Interval
<1>4. IsFiniteSet(Parts)
  <2> HIDE DEF g, Parts
  <2> QED BY <1>2, <1>3, FS_Surjection
<1>5. \A P \in Parts : IsFiniteSet(P)
  <2> HIDE DEF part
  <2> QED BY <1>1
<1>6. IsFiniteSet(UNION Parts)
  <2> HIDE DEF Parts
  <2> QED BY <1>4, <1>5, FS_UNION
<1> QED BY <1>6 DEF OutputsOf, Range1

-----------------------------------------------------------------------------
(* Payments.                                                               *)

TxOut == [to : {Me, Peer}, amount : Nat]

(* An output that exists has a receiver and an amount.                     *)
LEMMA KnownOutput ==
  ASSUME ChainInv, NEW r \in Known(Len(blocks))
  PROVE  Output(r) \in TxOut
<1>1. Len(blocks) \in Nat
  BY DEF ChainInv, ChainType
<1>2. /\ r[1] \in 1..Len(blocks)
      /\ r[2] \in 1..Len(blocks[r[1]].txs)
      /\ r[3] \in 1..Len(blocks[r[1]].txs[r[2]].outs)
  BY DEF Known
<1>3. blocks[r[1]] \in Block
  BY <1>2 DEF ChainInv, ChainType
<1>4. blocks[r[1]].txs \in Seq(Tx)
  BY <1>3 DEF Block
<1>5. blocks[r[1]].txs[r[2]] \in Tx
  BY <1>2, <1>4
<1> DEFINE outs == blocks[r[1]].txs[r[2]].outs
<1>6. outs \in Seq(TxOut)
  BY <1>5 DEF Tx, TxOut
<1>7. r[3] \in 1..Len(outs) /\ Output(r) = outs[r[3]]
  BY <1>2 DEF Output
<1> HIDE DEF outs
<1> QED BY <1>6, <1>7

(* What inputs that refer to existing outputs are worth is a number.       *)
LEMMA ReceivedIsNat ==
  ASSUME ChainInv, NEW inputs, inputs \subseteq Nat \X Ref, IsFiniteSet(inputs),
         Refs(inputs) \subseteq Known(Len(blocks))
  PROVE  Received(inputs) \in Nat
<1> DEFINE f == [i \in inputs |-> Output(i[2]).amount]
<1>1. \A i \in inputs : Output(i[2]).amount \in Nat
  <2> TAKE i \in inputs
  <2>1. i[2] \in Known(Len(blocks))
    BY DEF Refs
  <2> QED BY <2>1, KnownOutput DEF TxOut
<1>2. f \in [inputs -> Nat]
  BY <1>1
<1>3. Sum(f) \in Nat
  <2> HIDE DEF f
  <2> QED BY <1>2, SumIsNat
<1> QED BY <1>3 DEF Received

(* The unspent outputs at any node exist.                                  *)
LEMMA UnspentExists ==
  ASSUME ChainInv, NEW b \in Nodes
  PROVE  Unspent(b) \subseteq Known(Len(blocks))
<1>1. Len(blocks) \in Nat
  BY DEF ChainInv, ChainType
<1>2. b = NoBlock => Unspent(b) = {}
  BY DEF Unspent
<1>3. b # NoBlock => b \in Blocks
  BY <1>1 DEF Nodes, Blocks, NoBlock
<1>4. Known(b) \subseteq Known(Len(blocks))
  BY <1>1 DEF Known, Nodes
<1> QED BY <1>2, <1>3, <1>4 DEF ChainInv, UnspentKnown

(* The records that are found unspent are places of the record, with       *)
(* outputs that exist.                                                     *)
LEMMA GoodOk ==
  ASSUME ChainInv, WalletInv, record \in Seq(Ref), NEW n \in Nat, n <= Len(record)
  PROVE  /\ Good(n) \subseteq Nat \X Ref
         /\ IsFiniteSet(Good(n))
         /\ Refs(Good(n)) \subseteq Known(Len(blocks))
<1> DEFINE D == {i \in looked + 1..n : record[i] \in Unspent(utxoptr)}
           g == [i \in D |-> <<i, record[i]>>]
           old == {i \in found : i[1] <= n}
           new == {<<i, record[i]>> : i \in D}
<1>1. looked \in Nat /\ \A i \in looked + 1..n : i \in Nat /\ record[i] \in Ref
  BY DEF WalletInv
<1>2. IsFiniteSet(D)
  <2>1. D \in SUBSET (looked + 1..n)
    OBVIOUS
  <2>2. IsFiniteSet(looked + 1..n)
    BY <1>1, FS_Interval
  <2> HIDE DEF D
  <2> QED BY <2>1, <2>2, FS_Subset
<1>3. IsFiniteSet(new)
  <2>1. g \in Surjection(D, new)
    <3> HIDE DEF D
    <3> QED BY Fun_IsSurj
  <2> HIDE DEF g, D, new
  <2> QED BY <1>2, <2>1, FS_Surjection
<1>4. IsFiniteSet(old) /\ old \subseteq found
  BY FS_Subset DEF WalletInv
<1>5. new \subseteq Nat \X Ref /\ \A i \in new : i[2] \in Unspent(utxoptr)
  BY <1>1
<1>6. Unspent(utxoptr) \subseteq Known(Len(blocks))
  BY UnspentExists DEF WalletInv
<1>7. Good(n) = old \cup new
  BY DEF Good
<1> HIDE DEF old, new
<1>8. IsFiniteSet(Good(n))
  BY <1>3, <1>4, <1>7, FS_Union
<1> QED BY <1>4, <1>5, <1>6, <1>7, <1>8 DEF Refs, WalletInv

(* So are those among them which the wallet takes.                         *)
LEMMA SelectedOk ==
  ASSUME ChainInv, WalletInv, record \in Seq(Ref), NEW amount
  PROVE  /\ Selected(amount) \subseteq Nat \X Ref
         /\ IsFiniteSet(Selected(amount))
         /\ Refs(Selected(amount)) \subseteq Known(Len(blocks))
<1> DEFINE n == Len(record)
<1>1. n \in Nat
  OBVIOUS
<1>2. /\ Good(n) \subseteq Nat \X Ref /\ IsFiniteSet(Good(n))
      /\ Refs(Good(n)) \subseteq Known(Len(blocks))
  BY <1>1, GoodOk
<1>3. Selected(amount) \subseteq Good(n)
  BY DEF Selected
<1> HIDE DEF n
<1>4. IsFiniteSet(Selected(amount))
  BY <1>2, <1>3, FS_Subset
<1> QED BY <1>2, <1>3, <1>4 DEF Refs

-----------------------------------------------------------------------------
(* The steps of the chain.                                                 *)

(* The fee block is a transaction.                                         *)
LEMMA FeeBlockOk ==
  ASSUME NEW m \in {Me, Peer}
  PROVE  FeeBlock(m) \in Tx
BY PoolAssumption DEF FeeBlock, Tx

(* The payments of a peer's block are a sequence.                          *)
LEMMA PaymentsInOrder ==
  ASSUME NEW S, IsFiniteSet(S)
  PROVE  /\ Cardinality(S) \in Nat
         /\ SetToSeq(S) \in [1..Cardinality(S) -> S]
<1>1. Cardinality(S) \in Nat /\ ExistsBijection(1..Cardinality(S), S)
  BY FS_CardinalityType
<1>2. PICK f \in Bijection(1..Cardinality(S), S) : TRUE
  BY <1>1 DEF ExistsBijection
<1>3. f \in [1..Cardinality(S) -> S] /\ \A a, b \in 1..Cardinality(S) : f[a] = f[b] => a = b
  BY <1>2, Fun_BijectionProperties
<1>4. IsInjective(f)
  BY <1>3 DEF IsInjective
<1>5. \E g \in [1..Cardinality(S) -> S] : IsInjective(g)
  BY <1>3, <1>4
<1> QED BY <1>1, <1>5 DEF SetToSeq

(* The transactions of a peer's block.                                     *)
LEMMA PeerBlock ==
  ASSUME sent \subseteq Tx, IsFiniteSet(sent), NEW txs \in SUBSET sent
  PROVE  LET all == <<FeeBlock(Peer)>> \o SetToSeq(txs)
         IN /\ all \in Seq(Tx) /\ Len(all) >= 1 /\ all[1] = FeeBlock(Peer)
            /\ \A k \in 2..Len(all) : all[k] \in sent
<1> DEFINE n == Cardinality(txs)
           s == SetToSeq(txs)
<1>1. IsFiniteSet(txs)
  BY FS_Subset
<1>2. n \in Nat /\ s \in [1..n -> txs]
  BY <1>1, PaymentsInOrder
<1>3. s \in Seq(txs) /\ Len(s) = n
  <2> HIDE DEF s, n
  <2> QED BY <1>2
<1>4. FeeBlock(Peer) \in Tx
  BY FeeBlockOk
<1> HIDE DEF s, n
<1>5. s \in Seq(Tx) /\ \A k \in 1..n : s[k] \in sent
  BY <1>2, <1>3
<1>6. <<FeeBlock(Peer)>> \o s \in Seq(Tx)
  BY <1>4, <1>5
<1>7. /\ Len(<<FeeBlock(Peer)>> \o s) = n + 1
      /\ (<<FeeBlock(Peer)>> \o s)[1] = FeeBlock(Peer)
      /\ \A k \in 2..(n + 1) : (<<FeeBlock(Peer)>> \o s)[k] = s[k - 1]
  BY <1>2, <1>3, <1>4, <1>5
<1>8. \A k \in 2..(n + 1) : s[k - 1] \in sent
  BY <1>2, <1>5
<1> QED BY <1>2, <1>6, <1>7, <1>8 DEF s

(* The height of a node is a number.                                       *)
LEMMA CountIsNat ==
  ASSUME ChainInv
  PROVE  \A b \in Nodes : BlockCount(b) \in Nat
<1> TAKE b \in Nodes
<1>1. b # NoBlock => blocks[b] \in Block
  BY DEF Nodes, NoBlock, ChainInv, ChainType
<1> QED BY <1>1 DEF BlockCount, Block

(* The first block that is at work, and its parent.                        *)
LEMMA CurrentOk ==
  ASSUME ChainInv, path # <<>>
  PROVE  /\ Current \in Blocks /\ Current \in Nodes /\ Current # NoBlock
         /\ Parent(Current) \in Nodes
         /\ Parent(Current) # NoBlock => Parent(Current) \in Blocks
         /\ BlockCount(Current) = BlockCount(Parent(Current)) + 1
         /\ BlockCount(Current) \in Nat /\ BlockCount(Parent(Current)) \in Nat
         /\ Tail(path) \in Seq(Blocks)
<1> USE DEF ChainInv, ChainType
<1>1. Current \in Blocks /\ Tail(path) \in Seq(Blocks)
  BY DEF Current
<1>2. Current \in Nodes /\ Current # NoBlock
  BY <1>1 DEF Blocks, Nodes, NoBlock
<1>3. blocks[Current] \in Block /\ blocks[Current].parent < Current
  BY <1>1 DEF Blocks
<1>4. Parent(Current) \in Nodes /\ (Parent(Current) # NoBlock => Parent(Current) \in Blocks)
  <2>1. Parent(Current) \in Nat /\ Parent(Current) < Current
    BY <1>3 DEF Parent, Block
  <2> QED BY <1>1, <2>1 DEF Nodes, Blocks, NoBlock
<1>5. \A b \in Nodes : BlockCount(b) \in Nat
  BY CountIsNat
<1>6. BlockCount(Current) = BlockCount(Parent(Current)) + 1
  BY <1>1, <1>2 DEF PlacesOk, BlockCount
<1> QED BY <1>1, <1>2, <1>4, <1>5, <1>6

(* The children of the genesis leave a copy with it.                       *)
LEMMA GenesisKeeps ==
  ASSUME ChainInv, path # <<>>, Parent(Current) = NoBlock
  PROVE  KeepCopy
<1>1. BlockCount(Current) = 1
  BY CurrentOk DEF BlockCount, NoBlock
<1> QED BY <1>1 DEF KeepCopy

(* ChainInv is inductive, given the types of what is put into blocks.      *)
LEMMA ChainKept ==
  ASSUME ChainInv, sent \subseteq Tx, IsFiniteSet(sent), group \in Seq(Tx), base \in Nodes,
         [Next]_vars
  PROVE  ChainInv'
<1>1. CASE UNCHANGED chainVars
  BY <1>1 DEF chainVars, ChainInv, ChainType, PlacesOk, UnspentKnown, Blocks, Nodes, BlockCount,
              Parent, Current, Unspent, Known
<1>2. ASSUME NEW p \in Nodes, NEW txs \in SUBSET sent, PeerMines(p, SetToSeq(txs))
      PROVE  ChainInv'
  <2>1. <<FeeBlock(Peer)>> \o SetToSeq(txs) \in Seq(Tx)
    BY PeerBlock
  <2> QED BY <1>2, <2>1, ChainGrows DEF PeerMines
<1>3. CASE Mine
  BY <1>3, ChainGrows DEF Mine
<1>4. ASSUME blocks' = blocks, ChainType', PlacesOk'
      PROVE  ChainInv'
  BY <1>4 DEF ChainInv, UnspentKnown, Blocks, Unspent, Known
<1>5. ASSUME NEW b \in offered, Take(b)
      PROVE  ChainInv'
  <2>0. path' \in Seq(Blocks)
    BY <1>5 DEF Take, ChainInv, ChainType
  <2>1. ChainType'
    BY <1>5, <2>0 DEF Take, ChainInv, ChainType, Blocks, Nodes
  <2>2. PlacesOk'
    BY <1>5 DEF Take, ChainInv, PlacesOk, Blocks, BlockCount, Parent, Current
  <2> QED BY <1>4, <1>5, <2>1, <2>2 DEF Take
<1>6. CASE Descend
  <2>1. path # <<>> /\ phase = "verify" /\ Parent(Current) \in Blocks
    BY <1>6, CurrentOk DEF Descend, At, ChainInv, PlacesOk
  <2>2. path' \in Seq(Blocks) /\ path' # <<>>
    BY <1>6, <2>1 DEF Descend, ChainInv, ChainType
  <2>3. ChainType'
    BY <1>6, <2>2 DEF Descend, ChainInv, ChainType, Blocks, Nodes
  <2>4. PlacesOk'
    BY <1>6, <2>1, <2>2 DEF Descend, ChainInv, PlacesOk, Blocks, BlockCount, Parent
  <2> QED BY <1>4, <1>6, <2>3, <2>4 DEF Descend
<1>7. CASE Reject
  <2>1. ChainType'
    BY <1>7 DEF Reject, ChainInv, ChainType, Blocks, Nodes
  <2>2. PlacesOk'
    BY <1>7 DEF Reject, At, ChainInv, PlacesOk, Blocks, BlockCount, Parent
  <2> QED BY <1>4, <1>7, <2>1, <2>2 DEF Reject
<1>8. CASE Accept
  <2>1. path # <<>>
    BY <1>8 DEF Accept, At
  <2>2. ChainType'
    BY <1>8, <2>1, CurrentOk DEF Accept, ChainInv, ChainType, Blocks, Nodes
  <2>3. head \in Nodes => BlockCount(head) \in Nat
    BY <2>1, CountIsNat DEF ChainInv
  <2>4. PlacesOk'
    <3>1. Current' = Current /\ BlockCount(Current)' = BlockCount(Current)
      BY <1>8 DEF Accept, Current, BlockCount
    <3>2. BlockCount(Current) \in Nat /\ BlockCount(head) \in Nat
      BY <2>1, <2>3, CurrentOk DEF ChainInv, ChainType
    <3>3. BlockCount(Current) <= BlockCount(head)'
      BY <1>8, <3>2 DEF Accept, BlockCount
    <3> QED BY <1>8, <2>1, <3>1, <3>3 DEF Accept, ChainInv, PlacesOk, Blocks, BlockCount, Parent
  <2> QED BY <1>4, <1>8, <2>2, <2>4 DEF Accept
<1>9. CASE Apply
  <2>1. path # <<>> /\ phase # "verify"
    BY <1>9 DEF Apply, At
  <2>2. ChainType'
    BY <1>9, <2>1, CurrentOk DEF Apply, ChainInv, ChainType, Blocks, Nodes
  <2>3. NoBlock \in ready'
    BY <1>9, <2>1, GenesisKeeps DEF Apply, ChainInv, PlacesOk
  <2>4. PlacesOk'
    BY <1>9, <2>1, <2>3 DEF Apply, ChainInv, PlacesOk, Blocks, BlockCount, Parent, Current
  <2> QED BY <1>4, <1>9, <2>2, <2>4 DEF Apply
<1>10. CASE Tell \/ Forget
  <2>1. /\ path # <<>> /\ phase # "verify" /\ phase' = "forget"
        /\ UNCHANGED <<blocks, offered, path, verified, ready, head>>
    BY <1>10 DEF Tell, Forget, At
  <2>2. told' \in Nat
    BY <1>10 DEF Tell, Forget, ChainInv, ChainType
  <2>3. ChainType'
    BY <2>1, <2>2 DEF ChainInv, ChainType, Blocks, Nodes
  <2>4. PlacesOk'
    BY <2>1 DEF ChainInv, PlacesOk, Blocks, BlockCount, Parent, Current
  <2> QED BY <1>4, <2>1, <2>3, <2>4
<1>11. CASE Return
  <2>1. path # <<>>
    BY <1>11 DEF Return, At
  <2>2. ChainType'
    BY <1>11, <2>1, CurrentOk DEF Return, ChainInv, ChainType, Blocks, Nodes
  <2>3. PlacesOk'
    BY <1>11 DEF Return, ChainInv, PlacesOk, Blocks, BlockCount, Parent
  <2> QED BY <1>4, <1>11, <2>2, <2>3 DEF Return
<1> QED BY <1>1, <1>2, <1>3, <1>5, <1>6, <1>7, <1>8, <1>9, <1>10, <1>11, ChainSteps

-----------------------------------------------------------------------------
(* The payments and the mining goroutine.                                  *)

PoolInv ==
  /\ record \in Seq(Ref)
  /\ sent \subseteq Tx /\ IsFiniteSet(sent)
  /\ unregistered \subseteq sent /\ priority \subseteq sent /\ received \subseteq sent
  /\ todo \subseteq sent
  /\ \A tx \in unregistered \cup priority : tx.payer = Me
  /\ pcM = "own" => \A tx \in todo : tx.payer = Me

MinerType ==
  /\ pcM \in {"choose", "chosen", "own", "others", "mine", "offered"}
  /\ group \in Seq(Tx) /\ chosenOn \in Nodes /\ manager \in Nodes /\ base \in Nodes
  /\ crashed \in BOOLEAN /\ bound \in Bounds

TypeInv == ChainInv /\ PoolInv /\ WalletInv /\ MinerType

(* The invariant has the types.                                            *)
LEMMA TypeInvTypes == ASSUME TypeInv PROVE TypeOK
<1>1. Blocks \subseteq Nodes
  BY DEF TypeInv, ChainInv, ChainType, Blocks, Nodes
<1>2. path \in Seq(Nodes)
  BY <1>1 DEF TypeInv, ChainInv, ChainType
<1> QED BY <1>1, <1>2 DEF TypeInv, ChainInv, ChainType, PoolInv, WalletInv, MinerType, TypeOK, Block, Blocks, Range1

(* A payment joins the ones that were sent.                                *)
LEMMA OneMoreSent ==
  ASSUME PoolInv, NEW tx \in Tx, sent' = sent \cup {tx}
  PROVE  sent' \subseteq Tx /\ IsFiniteSet(sent') /\ sent \subseteq sent'
BY FS_AddElement DEF PoolInv

(* The wallet is asked to pay numbers.                                     *)
LEMMA AmountIsNat == ASSUME TypeInv PROVE \A amount \in bound.amounts : amount \in Nat
BY PoolAssumption DEF TypeInv, MinerType

(* The wallet's payment is one: it pays no more than it takes.             *)
LEMMA OwnPaymentOk ==
  ASSUME TypeInv, NEW amount \in Nat, Enough(Selected(amount), amount)
  PROVE  Payment(amount) \in Tx
<1>1. Cardinality(sent) \in Nat
  BY FS_CardinalityType DEF TypeInv, PoolInv
<1>2. /\ Selected(amount) \subseteq Nat \X Ref
      /\ IsFiniteSet(Selected(amount))
      /\ Refs(Selected(amount)) \subseteq Known(Len(blocks))
  BY SelectedOk DEF TypeInv, PoolInv
<1>4. Received(Selected(amount)) \in Nat
  BY <1>2, ReceivedIsNat DEF TypeInv
<1>5. Received(Selected(amount)) >= amount
  BY DEF Enough
<1>6. Received(Selected(amount)) - amount \in Nat
  BY <1>4, <1>5
<1>7. Outputs(Selected(amount), amount) \in Seq(TxOut)
  <2> DEFINE first == [to |-> Peer, amount |-> amount]
             rest == [to |-> Me, amount |-> Received(Selected(amount)) - amount]
  <2>1. first \in TxOut /\ rest \in TxOut
    BY <1>6 DEF TxOut
  <2>2. <<first>> \o <<rest>> \in Seq(TxOut) /\ <<first>> \o <<>> \in Seq(TxOut)
    <3> HIDE DEF first, rest
    <3> QED BY <2>1
  <2> QED BY <2>2 DEF Outputs
<1> QED BY <1>1, <1>2, <1>7 DEF Payment, Tx, TxOut

(* The outputs of a block that are the wallet's are references.            *)
LEMMA OwnOutputsOk ==
  ASSUME ChainInv, path # <<>>, NEW own \in OwnOutputs(Current)
  PROVE  own \in Seq(Ref)
<1> DEFINE txs == blocks[Current].txs
           S == {r \in OutputsOf(Current, txs) : Output(r).to = Me}
<1>1. Current \in Nat /\ txs \in Seq(Tx)
  <2>1. Current \in Blocks
    BY CurrentOk
  <2>2. blocks[Current] \in Block
    BY <2>1 DEF ChainInv, ChainType, Blocks
  <2> QED BY <2>1, <2>2 DEF Blocks, Block
<1>2. S \subseteq Ref /\ IsFiniteSet(S)
  BY <1>1, OutputsKnown, OutputsFinite, FS_Subset
<1>3. own \in [1..Cardinality(S) -> S]
  BY DEF OwnOutputs, SetToSeqs
<1>4. Cardinality(S) \in Nat
  BY <1>2, FS_CardinalityType
<1> QED
  <2> HIDE DEF S
  <2> QED BY <1>2, <1>3, <1>4

(* Neither the manager nor the records are the pool's.                     *)
LEMMA PoolStays ==
  ASSUME PoolInv, TakeManager \/ \E n \in Range1(record) : LookUp(n)
  PROVE  PoolInv'
BY DEF TakeManager, LookUp, PoolInv, poolVars, minerVars

(* What the pool knows stays a set of payments that were sent.             *)
LEMMA PoolKept ==
  ASSUME TypeInv, [Next]_vars
  PROVE  PoolInv'
<1> USE DEF TypeInv
<1>1. CASE UNCHANGED vars
  BY <1>1 DEF vars, poolVars, minerVars, PoolInv
<1>2. ASSUME NEW amount \in bound.amounts, MakeTransaction(amount)
      PROVE  PoolInv'
  <2>1. CASE UNCHANGED <<sent, unregistered>>
    BY <1>2, <2>1 DEF MakeTransaction, PoolInv, minerVars
  <2>2. CASE Enough(Selected(amount), amount)
    <3>1. sent' = sent \cup {Payment(amount)} /\ unregistered' = unregistered \cup {Payment(amount)}
      BY <1>2, <2>2 DEF MakeTransaction
    <3>2. Payment(amount) \in Tx
      BY <2>2, AmountIsNat, OwnPaymentOk
    <3>3. Payment(amount).payer = Me
      BY DEF Payment
    <3>4. sent' \subseteq Tx /\ IsFiniteSet(sent') /\ sent \subseteq sent'
      BY <3>1, <3>2, OneMoreSent
    <3> QED BY <1>2, <3>1, <3>3, <3>4 DEF MakeTransaction, PoolInv, minerVars
  <2> QED BY <1>2, <2>1, <2>2 DEF MakeTransaction
<1>3. ASSUME NEW tx \in unregistered, ReceiveInternal(tx)
      PROVE  PoolInv'
  BY <1>3 DEF ReceiveInternal, PoolInv, minerVars
<1>4. ASSUME NEW b \in Nodes \ {NoBlock}, NEW r \in Unspent(b), PeerPays(r)
      PROVE  PoolInv'
  <2> DEFINE tx == [id |-> Cardinality(sent) + 1, payer |-> Peer, inputs |-> {<<1, r>>},
                    outs |-> <<[to |-> Me, amount |-> Output(r).amount]>>]
  <2>1. Cardinality(sent) \in Nat
    BY FS_CardinalityType DEF PoolInv
  <2>2. r \in Known(Len(blocks))
    BY UnspentExists
  <2>3. r \in Ref /\ Output(r).amount \in Nat
    BY <2>2, KnownOutput DEF Known, TxOut
  <2>4. tx \in Tx
    BY <2>1, <2>3 DEF Tx
  <2>5. sent' = sent \cup {tx}
    BY <1>4 DEF PeerPays
  <2> HIDE DEF tx
  <2>6. sent' \subseteq Tx /\ IsFiniteSet(sent') /\ sent \subseteq sent'
    BY <2>4, <2>5, OneMoreSent
  <2> QED BY <1>4, <2>6 DEF PeerPays, PoolInv, minerVars
<1>5. ASSUME NEW p \in Nodes, NEW txs \in SUBSET sent, PeerMines(p, SetToSeq(txs))
      PROVE  PoolInv'
  BY <1>5 DEF PeerMines, PoolInv, poolVars, minerVars
<1>6. ASSUME NEW tx \in sent, ReceiveTransaction(tx)
      PROVE  PoolInv'
  BY <1>6 DEF ReceiveTransaction, PoolInv, minerVars
<1>7. CASE Updater
  <2>1. CASE Tell
    <3>1. PICK own \in OwnOutputs(Current) : record' = record \o own
      BY <2>1 DEF Tell
    <3>2. own \in Seq(Ref)
      BY OwnOutputsOk, <2>1 DEF Tell, At
    <3>3. record' \in Seq(Ref)
      BY <3>1, <3>2 DEF PoolInv
    <3> QED BY <2>1, <3>3 DEF Tell, PoolInv, minerVars
  <2>2. CASE Forget
    BY <2>2 DEF Forget, PoolInv, LeftInPool, minerVars
  <2>3. CASE ~Tell /\ ~Forget
    BY <1>7, <2>3 DEF Updater, Take, Descend, Reject, Accept, Apply, Return, PoolInv, poolVars, minerVars
  <2> QED BY <2>1, <2>2, <2>3
<1>8. CASE Miner
  BY <1>8 DEF Miner, Choose, AddOwn, WalkOwn, WalkOthers, AddOther, Prepare, Interrupted, Mine, Continue,
              PoolInv, poolVars, minerVars
<1> QED BY <1>1, <1>2, <1>3, <1>4, <1>5, <1>6, <1>7, <1>8, PoolStays DEF Next, Wallet, Network

(* A group grows by a payment, or stays.                                   *)
LEMMA AddOk ==
  ASSUME group \in Seq(Tx), NEW tx \in Tx
  PROVE  Add(group, tx) \in Seq(Tx)
BY DEF Add

(* Blocks are only added.                                                  *)
LEMMA NodesStay ==
  ASSUME TypeInv, [Next]_vars
  PROVE  Nodes \subseteq Nodes'
<1>1. Len(blocks) \in Nat
  BY DEF TypeInv, ChainInv, ChainType
<1>2. CASE blocks' = blocks
  BY <1>2 DEF Nodes
<1>3. CASE blocks' # blocks
  <2>1. \E p, txs, m : blocks' = Append(blocks, Mined(p, txs, m))
    BY <1>3, ChainSteps DEF chainVars, PeerMines, Mine, Take, Descend, Reject, Accept, Apply, Tell, Forget, Return
  <2>2. Len(blocks') = Len(blocks) + 1
    BY <2>1 DEF TypeInv, ChainInv, ChainType
  <2> QED BY <1>1, <2>2 DEF Nodes
<1> QED BY <1>2, <1>3

(* What exists keeps existing.                                             *)
LEMMA KnownGrows ==
  ASSUME TypeInv, [Next]_vars
  PROVE  Known(Len(blocks)) \subseteq Known(Len(blocks))'
<1>1. CASE blocks' = blocks
  BY <1>1 DEF Known
<1>2. CASE blocks' # blocks
  <2>1. /\ Len(blocks) \in Nat /\ Len(blocks') = Len(blocks) + 1
        /\ \A b \in 1..Len(blocks) : blocks'[b] = blocks[b]
    <3>1. \E p, txs, m : blocks' = Append(blocks, Mined(p, txs, m))
      BY <1>2, ChainSteps
         DEF chainVars, PeerMines, Mine, Take, Descend, Reject, Accept, Apply, Tell, Forget, Return
    <3> QED BY <3>1 DEF TypeInv, ChainInv, ChainType
  <2> QED BY <2>1 DEF Known
<1> QED BY <1>1, <1>2

(* The steps that concern the payment which is being made.                 *)
LEMMA WalletSteps ==
  ASSUME [Next]_vars
  PROVE  \/ UNCHANGED walletVars
         \/ TakeManager \/ Apply
         \/ \E n \in Range1(record) : LookUp(n)
         \/ \E amount \in bound.amounts : MakeTransaction(amount)
<1>1. CASE UNCHANGED vars
  BY <1>1 DEF vars
<1>2. CASE Wallet
  BY <1>2 DEF Wallet, ReceiveInternal
<1>3. CASE Network
  BY <1>3 DEF Network, PeerPays, PeerMines, ReceiveTransaction
<1>4. CASE Updater
  BY <1>4 DEF Updater, Take, Descend, Reject, Accept, Tell, Forget, Return
<1>5. CASE Miner
  BY <1>5 DEF Miner, Choose, AddOwn, WalkOwn, WalkOthers, AddOther, Prepare, Interrupted, Mine, Continue
<1> QED BY <1>1, <1>2, <1>3, <1>4, <1>5 DEF Next

(* The wallet holds places of its record, and outputs that exist.          *)
LEMMA WalletKept ==
  ASSUME TypeInv, [Next]_vars
  PROVE  WalletInv'
<1> USE DEF TypeInv
<1>1. Nodes \subseteq Nodes' /\ Known(Len(blocks)) \subseteq Known(Len(blocks))'
  BY NodesStay, KnownGrows
<1>2. ASSUME paying' \in BOOLEAN, utxoptr' \in Nodes, looked' \in Nat,
             found' \subseteq Nat \X Ref, IsFiniteSet(found'),
             Refs(found') \subseteq Known(Len(blocks))
      PROVE  WalletInv'
  <2>1. Refs(found)' = Refs(found')
    BY DEF Refs
  <2> QED BY <1>1, <1>2, <2>1 DEF WalletInv
<1>3. CASE UNCHANGED walletVars
  BY <1>2, <1>3 DEF walletVars, WalletInv
<1>4. CASE TakeManager
  <2>1. paying' \in BOOLEAN
    BY <1>4, Zenon DEF TakeManager
  <2> QED BY <1>2, <1>4, <2>1 DEF TakeManager, WalletInv, ChainInv, ChainType
<1>5. CASE Apply
  <2>1. Current \in Nodes
    BY <1>5, CurrentOk DEF Apply, At
  <2> QED BY <1>2, <1>5, <2>1 DEF Apply, WalletInv
<1>6. ASSUME NEW n \in Range1(record), LookUp(n)
      PROVE  WalletInv'
  <2>1. n \in Nat /\ n <= Len(record)
    BY DEF Range1, PoolInv
  <2>2. /\ Good(n) \subseteq Nat \X Ref /\ IsFiniteSet(Good(n))
        /\ Refs(Good(n)) \subseteq Known(Len(blocks))
    BY <2>1, GoodOk DEF PoolInv
  <2> QED BY <1>2, <1>6, <2>1, <2>2 DEF LookUp, WalletInv
<1>7. ASSUME NEW amount \in bound.amounts, MakeTransaction(amount)
      PROVE  WalletInv'
  <2>1. paying' \in BOOLEAN /\ IsFiniteSet(found') /\ Refs(found') = {}
    <3>1. found' = {} /\ paying' = FALSE
      BY <1>7 DEF MakeTransaction
    <3> QED BY <3>1, FS_EmptySet, Zenon DEF Refs
  <2>2. NoBlock \in Nodes
    BY DEF ChainInv, ChainType, Nodes, NoBlock
  <2> QED BY <1>2, <1>7, <2>1, <2>2 DEF MakeTransaction
<1> QED BY <1>3, <1>4, <1>5, <1>6, <1>7, WalletSteps

(* The mining goroutine stays within its types.                            *)
LEMMA MinerKept ==
  ASSUME TypeInv, [Next]_vars
  PROVE  MinerType'
<1> USE DEF TypeInv
<1>1. Nodes \subseteq Nodes'
  BY NodesStay
<1>2. head \in Nodes
  BY DEF ChainInv, ChainType
<1>3. CASE UNCHANGED vars
  BY <1>1, <1>3 DEF vars, minerVars, MinerType
<1>4. CASE Next
  <2>1. bound' = bound
    BY <1>4 DEF Next
  <2>2. CASE Wallet
    BY <1>1, <2>1, <2>2 DEF Wallet, TakeManager, LookUp, MakeTransaction, ReceiveInternal, MinerType, minerVars
  <2>3. CASE Network
    BY <1>1, <2>1, <2>3 DEF Network, PeerPays, PeerMines, ReceiveTransaction, MinerType, minerVars
  <2>4. CASE Apply
    <3>1. Current \in Nodes
      BY <2>4, CurrentOk DEF Apply, At
    <3> QED BY <1>1, <2>1, <2>4, <3>1 DEF Apply, MinerType
  <2>5. CASE Updater /\ ~Apply
    BY <1>1, <2>1, <2>5 DEF Updater, Take, Descend, Reject, Accept, Tell, Forget, Return, MinerType, minerVars
  <2>6. CASE Choose
    <3>1. group' \in Seq(Tx)
      BY <2>6, FeeBlockOk DEF Choose
    <3> QED BY <1>1, <1>2, <2>1, <2>6, <3>1 DEF Choose, MinerType
  <2>7. ASSUME NEW tx \in todo, AddOwn(tx) \/ AddOther(tx)
        PROVE  MinerType'
    <3>1. Add(group, tx) \in Seq(Tx)
      BY AddOk DEF PoolInv, MinerType
    <3> QED BY <1>1, <2>1, <2>7, <3>1 DEF AddOwn, AddOther, MinerType
  <2>8. CASE WalkOwn \/ WalkOthers \/ Prepare \/ Interrupted \/ Mine \/ Continue
    BY <1>1, <1>2, <2>1, <2>8 DEF WalkOwn, WalkOthers, Prepare, Interrupted, Mine, Continue, MinerType
  <2> QED BY <1>4, <2>2, <2>3, <2>4, <2>5, <2>6, <2>7, <2>8 DEF Next, Miner
<1> QED BY <1>3, <1>4

(* It holds where the miner starts.                                        *)
LEMMA TypeInvInit == Init => TypeInv
<1> SUFFICES ASSUME Init PROVE TypeInv
  OBVIOUS
<1> USE DEF Init
<1>1. Blocks = {} /\ Nodes = {NoBlock} /\ Len(blocks) = 0
  BY DEF Blocks, Nodes, NoBlock
<1>2. ChainInv
  BY <1>1 DEF ChainInv, ChainType, PlacesOk, UnspentKnown
<1>3. PoolInv
  BY FS_EmptySet DEF PoolInv
<1>4. WalletInv
  <2>1. paying \in BOOLEAN
    BY Zenon
  <2> QED BY <1>1, <2>1, FS_EmptySet DEF WalletInv, Refs
<1>5. MinerType
  <2>1. group \in Seq(Tx)
    OBVIOUS
  <2>2. crashed \in BOOLEAN
    BY Zenon
  <2> QED BY <1>1, <2>1, <2>2, Zenon DEF MinerType
<1> QED BY <1>2, <1>3, <1>4, <1>5 DEF TypeInv

(* Every step keeps it.                                                    *)
LEMMA TypeInvKept ==
  ASSUME TypeInv, [Next]_vars
  PROVE  TypeInv'
BY ChainKept, PoolKept, WalletKept, MinerKept DEF TypeInv, PoolInv, MinerType

(* So it always holds.                                                     *)
LEMMA TypeInvAlways == Spec => []TypeInv
<1>1. TypeInv /\ [Next]_vars => TypeInv'
  BY TypeInvKept
<1> QED BY <1>1, TypeInvInit, PTL DEF Spec

(* The variables keep their types: a payment never pays back less than     *)
(* nothing (MakeTransaction), and no reference leads out of the chain.     *)
THEOREM PoolTyped == Spec => []TypeOK
<1>1. TypeInv => TypeOK
  BY TypeInvTypes
<1> QED BY <1>1, TypeInvAlways, PTL

-----------------------------------------------------------------------------
(* Blocks stay as they are, and verified blocks verified.                  *)
LEMMA BlocksStay ==
  ASSUME TypeInv, [Next]_vars
  PROVE  /\ \A b \in Blocks : b \in Blocks' /\ blocks'[b] = blocks[b]
         /\ verified \subseteq verified'
<1>1. Len(blocks) \in Nat
  BY DEF TypeInv, ChainInv, ChainType
<1>2. verified \subseteq verified'
  BY ChainSteps DEF chainVars, PeerMines, Mine, Take, Descend, Reject, Accept, Apply, Tell, Forget, Return
<1>3. CASE blocks' = blocks
  BY <1>2, <1>3 DEF Blocks
<1>4. CASE blocks' # blocks
  <2>1. \E p, txs, m : blocks' = Append(blocks, Mined(p, txs, m))
    BY <1>4, ChainSteps DEF chainVars, PeerMines, Mine, Take, Descend, Reject, Accept, Apply, Tell, Forget, Return
  <2>2. Len(blocks') = Len(blocks) + 1 /\ \A b \in Blocks : blocks'[b] = blocks[b]
    BY <2>1 DEF TypeInv, ChainInv, ChainType, Blocks
  <2> QED BY <1>1, <1>2, <2>2 DEF Blocks
<1> QED BY <1>3, <1>4

(* A payment the wallet made stays with the pool, or on its way there,     *)
(* until a verified block has it: what updateWithBlockchainNode removes is *)
(* in the block, and the block is verified by then.                        *)
LEMMA PaymentsKept ==
  ASSUME TypeInv, NoPaymentForgotten, [Next]_vars
  PROVE  NoPaymentForgotten'
<1> USE DEF TypeInv
<1>1. /\ \A b \in Blocks : blocks'[b] = blocks[b]
      /\ verified \subseteq verified' /\ verified \subseteq Blocks
  BY BlocksStay DEF ChainInv, ChainType
<1>2. ASSUME NEW tx, \E b \in verified : tx \in ToSet(blocks[b].txs)
      PROVE  \E b \in verified' : tx \in ToSet(blocks'[b].txs)
  BY <1>1, <1>2
<1>3. ASSUME OwnPayments' \subseteq OwnPayments, unregistered \cup priority \subseteq (unregistered \cup priority)'
      PROVE  NoPaymentForgotten'
  BY <1>2, <1>3 DEF NoPaymentForgotten
<1>4. CASE UNCHANGED <<sent, unregistered, priority>>
  BY <1>3, <1>4 DEF OwnPayments
<1>5. ASSUME NEW amount \in bound.amounts, MakeTransaction(amount)
      PROVE  NoPaymentForgotten'
  <2>1. \/ UNCHANGED <<sent, unregistered>>
        \/ \E tx : sent' = sent \cup {tx} /\ unregistered' = unregistered \cup {tx}
    BY <1>5 DEF MakeTransaction
  <2>2. priority' = priority
    BY <1>5 DEF MakeTransaction
  <2>3. /\ \A t \in OwnPayments' : t \in OwnPayments \/ t \in unregistered'
        /\ unregistered \subseteq unregistered'
    BY <2>1 DEF OwnPayments
  <2> QED BY <1>2, <2>2, <2>3 DEF NoPaymentForgotten
<1>6. ASSUME NEW tx \in unregistered, ReceiveInternal(tx)
      PROVE  NoPaymentForgotten'
  BY <1>3, <1>6 DEF ReceiveInternal, OwnPayments
<1>7. ASSUME NEW r, PeerPays(r)
      PROVE  NoPaymentForgotten'
  <2> DEFINE tx == [id |-> Cardinality(sent) + 1, payer |-> Peer, inputs |-> {<<1, r>>},
                    outs |-> <<[to |-> Me, amount |-> Output(r).amount]>>]
  <2>1. sent' = sent \cup {tx} /\ tx.payer = Peer
    BY <1>7 DEF PeerPays
  <2>2. OwnPayments' \subseteq OwnPayments
    <3> HIDE DEF tx
    <3> QED BY <2>1, PoolAssumption DEF OwnPayments
  <2> QED BY <1>3, <1>7, <2>2 DEF PeerPays
<1>8. CASE Forget
  <2>1. Current \in verified
    BY <1>8 DEF Forget, At, ChainInv, PlacesOk
  <2>2. blocks[Current].txs \in Seq(Tx)
    <3>1. blocks[Current] \in Block
      BY <1>1, <2>1 DEF ChainInv, ChainType, Blocks
    <3> QED BY <3>1 DEF Block
  <2>3. blocks[Current].txs[told + 1] \in ToSet(blocks[Current].txs)
    <3>1. Len(blocks[Current].txs) \in Nat /\ told \in Nat
      BY <2>2 DEF ChainInv, ChainType
    <3>2. told + 1 \in 1..Len(blocks[Current].txs)
      BY <1>8, <3>1 DEF Forget
    <3> QED BY <2>2, <3>2 DEF ToSet
  <2>4. \A tx \in priority : tx \in priority' \/ tx \in ToSet(blocks[Current].txs)
    BY <1>8, <2>3 DEF Forget, LeftInPool
  <2>5. OwnPayments' = OwnPayments /\ unregistered' = unregistered
    BY <1>8 DEF Forget, OwnPayments
  <2> QED BY <1>2, <2>1, <2>4, <2>5 DEF NoPaymentForgotten
<1>9. CASE UNCHANGED vars
  BY <1>4, <1>9 DEF vars, poolVars
<1>10. ASSUME NEW p \in Nodes, NEW txs \in SUBSET sent, PeerMines(p, SetToSeq(txs))
       PROVE  NoPaymentForgotten'
  BY <1>4, <1>10 DEF PeerMines, poolVars
<1>11. ASSUME NEW tx \in sent, ReceiveTransaction(tx)
       PROVE  NoPaymentForgotten'
  BY <1>4, <1>11 DEF ReceiveTransaction
<1>12. CASE Updater
  BY <1>4, <1>8, <1>12 DEF Updater, Take, Descend, Reject, Accept, Apply, Tell, Return, poolVars
<1>14. ASSUME TakeManager \/ \E n \in Range1(record) : LookUp(n)
       PROVE  NoPaymentForgotten'
  BY <1>4, <1>14 DEF TakeManager, LookUp, poolVars
<1>13. CASE Miner
  BY <1>4, <1>13 DEF Miner, Choose, AddOwn, WalkOwn, WalkOthers, AddOther, Prepare, Interrupted, Mine, Continue,
                     poolVars
<1> QED BY <1>5, <1>6, <1>7, <1>9, <1>10, <1>11, <1>12, <1>13, <1>14 DEF Next, Wallet, Network

(* A payment the wallet made is with the pool, or on its way there, until  *)
(* a verified block has it.                                                *)
THEOREM PaymentsSafe == Spec => []NoPaymentForgotten
<1>1. Init => NoPaymentForgotten
  BY DEF Init, NoPaymentForgotten, OwnPayments
<1>2. TypeInv /\ NoPaymentForgotten /\ [Next]_vars => NoPaymentForgotten'
  BY PaymentsKept
<1> QED BY <1>1, <1>2, TypeInvAlways, PTL DEF Spec

-----------------------------------------------------------------------------
(* The group of a block.                                                   *)

Walking == pcM \in {"chosen", "own", "others"}

(* The requests of a group do not share an output.                         *)
Apart == \A k, l \in 1..Len(group) : k # l => Refs(group[k].inputs) \cap Refs(group[l].inputs) = {}

(* The manager leaves the head where it was taken only after another block *)
(* has become the head, and heads only get higher.                         *)
LeftLate ==
  Walking => /\ BlockCount(chosenOn) <= BlockCount(head)
             /\ manager # chosenOn => BlockCount(chosenOn) < BlockCount(head)

(* While it is where it was taken, what it finds spendable is.             *)
OthersChecked ==
  (/\ pcM \in {"chosen", "own", "others", "mine"}
   /\ chosenOn = (IF pcM = "mine" THEN base ELSE head))
  => \A k \in 1..Len(group) : \/ group[k].payer = Me
                             \/ RefsSpendable(Unspent(chosenOn), <<group[k]>>)

GroupInv == Apart /\ LeftLate /\ OthersChecked

(* One payment alone is spendable if its outputs are unspent and named once.*)
LEMMA AloneSpendable ==
  ASSUME NEW unspent, NEW tx
  PROVE  RefsSpendable(unspent, <<tx>>)
           <=> /\ Refs(tx.inputs) \subseteq unspent
               /\ \A i, j \in tx.inputs : i[2] = j[2] => i = j
<1>1. Range1(<<tx>>) = {1} /\ <<tx>>[1] = tx
  BY DEF Range1
<1>2. Spent(<<tx>>) = Refs(tx.inputs)
  BY <1>1 DEF Spent
<1> QED BY <1>1, <1>2 DEF RefsSpendable

(* The invariant makes the group sound.                                    *)
LEMMA GroupInvSound == ASSUME TypeInv, GroupInv PROVE GroupSound
<1> SUFFICES ASSUME pcM \in {"chosen", "own", "others", "mine"},
                    chosenOn = (IF pcM = "mine" THEN base ELSE head),
                    \A tx \in ToSet(group) : tx.payer = Me => RefsSpendable(Unspent(chosenOn), <<tx>>)
             PROVE  RefsSpendable(Unspent(chosenOn), group)
  BY DEF GroupSound
<1>1. DOMAIN group = 1..Len(group) /\ Range1(group) = 1..Len(group)
  BY DEF TypeInv, MinerType, Range1
<1>2. \A k \in 1..Len(group) : RefsSpendable(Unspent(chosenOn), <<group[k]>>)
  BY <1>1 DEF GroupInv, OthersChecked, ToSet
<1>3. \A k \in 1..Len(group) :
        /\ Refs(group[k].inputs) \subseteq Unspent(chosenOn)
        /\ \A i, j \in group[k].inputs : i[2] = j[2] => i = j
  BY <1>2, AloneSpendable
<1>4. Spent(group) \subseteq Unspent(chosenOn)
  BY <1>1, <1>3 DEF Spent
<1>5. ASSUME NEW k \in 1..Len(group), NEW l \in 1..Len(group),
             NEW i \in group[k].inputs, NEW j \in group[l].inputs, i[2] = j[2]
      PROVE  k = l /\ i = j
  <2>1. i[2] \in Refs(group[k].inputs) /\ j[2] \in Refs(group[l].inputs)
    BY DEF Refs
  <2>2. k = l
    BY <1>5, <2>1 DEF GroupInv, Apart
  <2> QED BY <1>3, <1>5, <2>2
<1> QED BY <1>1, <1>4, <1>5 DEF RefsSpendable

(* What a node is, it stays.                                               *)
LEMMA NodesAsTheyWere ==
  ASSUME TypeInv, [Next]_vars
  PROVE  \A b \in Nodes : /\ BlockCount(b)' = BlockCount(b) /\ BlockCount(b) \in Nat
                         /\ Unspent(b)' = Unspent(b)
<1> SUFFICES ASSUME NEW b \in Nodes
             PROVE  /\ BlockCount(b)' = BlockCount(b) /\ BlockCount(b) \in Nat
                    /\ Unspent(b)' = Unspent(b)
  OBVIOUS
<1>1. BlockCount(b) \in Nat
  BY CountIsNat DEF TypeInv
<1>2. b # NoBlock => blocks'[b] = blocks[b]
  <2>1. b # NoBlock => b \in Blocks
    BY DEF Nodes, Blocks, NoBlock, TypeInv, ChainInv, ChainType
  <2> QED BY <2>1, BlocksStay
<1> QED BY <1>1, <1>2 DEF BlockCount, Unspent

(* Adding a payment keeps the group apart.                                 *)
LEMMA AddApart ==
  ASSUME group \in Seq(Tx), Apart, NEW tx \in Tx, group' = Add(group, tx)
  PROVE  /\ Apart'
         /\ \A k \in 1..Len(group') : \/ k \in 1..Len(group) /\ group'[k] = group[k]
                                      \/ group'[k] = tx
<1>1. CASE group' = group
  BY <1>1 DEF Apart
<1>2. CASE group' # group
  <2>1. group' = Append(group, tx) /\ Refs(tx.inputs) \cap Spent(group) = {}
    BY <1>2 DEF Add
  <2>2. /\ Len(group') = Len(group) + 1 /\ Len(group) \in Nat
        /\ \A k \in 1..Len(group) : group'[k] = group[k]
        /\ group'[Len(group) + 1] = tx
    BY <2>1
  <2>3. \A k \in 1..Len(group) : Refs(group[k].inputs) \cap Refs(tx.inputs) = {}
    BY <2>1 DEF Spent, Range1
  <2>4. \A k \in 1..Len(group') : k \in 1..Len(group) \/ k = Len(group) + 1
    BY <2>2
  <2>5. ASSUME NEW k \in 1..Len(group'), NEW l \in 1..Len(group'), k # l
        PROVE  Refs(group'[k].inputs) \cap Refs(group'[l].inputs) = {}
    <3>1. CASE k \in 1..Len(group) /\ l \in 1..Len(group)
      BY <2>2, <2>5, <3>1 DEF Apart
    <3>2. CASE k \in 1..Len(group) /\ l = Len(group) + 1
      BY <2>2, <2>3, <3>2
    <3>3. CASE k = Len(group) + 1 /\ l \in 1..Len(group)
      BY <2>2, <2>3, <3>3
    <3> QED BY <2>4, <2>5, <3>1, <3>2, <3>3
  <2> QED BY <2>2, <2>4, <2>5 DEF Apart, Refs
<1> QED BY <1>1, <1>2

(* The steps that leave group and head alone, and the others.              *)
LEMMA GroupSteps ==
  ASSUME [Next]_vars
  PROVE  \/ UNCHANGED <<minerVars, head>>
         \/ Accept \/ Apply
         \/ Choose \/ WalkOwn \/ WalkOthers \/ Prepare \/ Interrupted \/ Mine \/ Continue
         \/ \E tx \in todo : AddOwn(tx) \/ AddOther(tx)
<1>1. CASE UNCHANGED vars
  BY <1>1 DEF vars, chainVars
<1>2. CASE Wallet
  BY <1>2 DEF Wallet, TakeManager, LookUp, MakeTransaction, ReceiveInternal, chainVars
<1>3. CASE Network
  BY <1>3 DEF Network, PeerPays, PeerMines, ReceiveTransaction, chainVars
<1>4. CASE Updater
  BY <1>4 DEF Updater, Take, Descend, Reject, Tell, Forget, Return
<1>5. CASE Miner
  BY <1>5 DEF Miner
<1> QED BY <1>1, <1>2, <1>3, <1>4, <1>5 DEF Next

(* Every step keeps it.  The head only rises, and the manager leaves the   *)
(* node it was taken at only after the head has.                           *)
LEMMA GroupKept ==
  ASSUME TypeInv, GroupInv, [Next]_vars
  PROVE  GroupInv'
<1> USE DEF TypeInv, GroupInv
<1>1. \A b \in Nodes : /\ BlockCount(b)' = BlockCount(b) /\ BlockCount(b) \in Nat
                      /\ Unspent(b)' = Unspent(b)
  BY NodesAsTheyWere
<1>2. head \in Nodes /\ chosenOn \in Nodes /\ manager \in Nodes /\ base \in Nodes
  BY DEF ChainInv, ChainType, MinerType
<1>3. CASE UNCHANGED <<minerVars, head>>
  <2>1. BlockCount(head)' = BlockCount(head) /\ BlockCount(chosenOn)' = BlockCount(chosenOn)
        /\ Unspent(chosenOn)' = Unspent(chosenOn)
    BY <1>1, <1>2, <1>3 DEF minerVars, BlockCount, Unspent
  <2> QED BY <1>3, <2>1 DEF minerVars, Apart, LeftLate, Walking, OthersChecked
<1>4. CASE Accept
  <2>1. blocks' = blocks /\ UNCHANGED minerVars
    BY <1>4 DEF Accept
  <2>2. path # <<>>
    BY <1>4 DEF Accept, At
  <2>3. BlockCount(Current) \in Nat
    BY <2>2, CurrentOk
  <2>4. \/ head' = head
        \/ head' = Current /\ BlockCount(Current) > BlockCount(head)
    BY <1>4 DEF Accept
  <2>5. CASE head' = head
    BY <1>3, <2>1, <2>5
  <2>6. CASE head' = Current /\ BlockCount(Current) > BlockCount(head)
    <3>1. BlockCount(head)' = BlockCount(Current) /\ BlockCount(chosenOn)' = BlockCount(chosenOn)
          /\ Unspent(chosenOn)' = Unspent(chosenOn)
      BY <2>1, <2>6 DEF minerVars, BlockCount, Unspent
    <3>2. LeftLate'
      BY <1>1, <1>2, <2>1, <2>3, <2>6, <3>1 DEF minerVars, LeftLate, Walking
    <3>3. Walking => chosenOn # head'
      BY <1>1, <1>2, <2>3, <2>6 DEF LeftLate
    <3>4. OthersChecked'
      BY <2>1, <3>1, <3>3 DEF minerVars, OthersChecked, Walking
    <3> QED BY <2>1, <3>2, <3>4 DEF minerVars, Apart
  <2> QED BY <2>4, <2>5, <2>6
<1>5. CASE Apply
  <2>1. path # <<>> /\ phase # "verify"
    BY <1>5 DEF Apply, At
  <2>2. /\ BlockCount(Current) = BlockCount(Parent(Current)) + 1
        /\ BlockCount(Current) \in Nat /\ BlockCount(Parent(Current)) \in Nat
        /\ BlockCount(Current) <= BlockCount(head)
    BY <2>1, CurrentOk DEF ChainInv, PlacesOk
  <2>3. /\ UNCHANGED <<blocks, head, pcM, chosenOn, todo, group, base>>
        /\ manager' = IF manager = Parent(Current) THEN Current ELSE manager
    BY <1>5 DEF Apply
  <2>4. BlockCount(head)' = BlockCount(head) /\ BlockCount(chosenOn)' = BlockCount(chosenOn)
        /\ Unspent(chosenOn)' = Unspent(chosenOn)
    BY <2>3 DEF BlockCount, Unspent
  <2>5. ASSUME Walking, manager' # chosenOn
        PROVE  BlockCount(chosenOn) < BlockCount(head)
    <3>1. CASE manager # chosenOn
      BY <2>5, <3>1 DEF LeftLate
    <3>2. CASE manager = chosenOn
      <4>1. chosenOn = Parent(Current)
        BY <2>3, <2>5, <3>2
      <4> QED BY <1>1, <1>2, <2>2, <4>1
    <3> QED BY <3>1, <3>2
  <2>6. LeftLate'
    BY <2>3, <2>4, <2>5 DEF LeftLate, Walking
  <2> QED BY <2>3, <2>4, <2>6 DEF Apart, OthersChecked
<1>6. CASE Choose
  <2>1. /\ pcM' = "chosen" /\ chosenOn' = head /\ manager' = head /\ head' = head /\ blocks' = blocks
        /\ group' = <<FeeBlock(Me)>>
    BY <1>6 DEF Choose, chainVars
  <2>2. Len(group') = 1 /\ group'[1].payer = Me
    BY <2>1 DEF FeeBlock
  <2>3. BlockCount(head)' = BlockCount(head) /\ BlockCount(chosenOn)' = BlockCount(head)
    BY <2>1 DEF BlockCount
  <2> QED BY <1>1, <1>2, <2>1, <2>2, <2>3 DEF Apart, LeftLate, Walking, OthersChecked
<1>7. ASSUME NEW tx \in todo, AddOwn(tx)
      PROVE  GroupInv'
  <2>1. /\ UNCHANGED <<blocks, head, pcM, chosenOn, manager, base>> /\ pcM = "own"
        /\ group' = Add(group, tx)
    BY <1>7 DEF AddOwn, chainVars
  <2>2. tx \in Tx /\ tx.payer = Me /\ group \in Seq(Tx)
    BY <2>1 DEF PoolInv, MinerType
  <2>3. BlockCount(head)' = BlockCount(head) /\ BlockCount(chosenOn)' = BlockCount(chosenOn)
        /\ Unspent(chosenOn)' = Unspent(chosenOn)
    BY <2>1 DEF BlockCount, Unspent
  <2>4. Apart' /\ \A k \in 1..Len(group') : \/ k \in 1..Len(group) /\ group'[k] = group[k]
                                           \/ group'[k] = tx
    BY <2>1, <2>2, AddApart
  <2>5. LeftLate'
    BY <2>1, <2>3 DEF LeftLate, Walking
  <2>6. OthersChecked'
    BY <2>1, <2>2, <2>3, <2>4 DEF OthersChecked
  <2> QED BY <2>4, <2>5, <2>6
<1>8. ASSUME NEW tx \in todo, AddOther(tx)
      PROVE  GroupInv'
  <2>1. /\ UNCHANGED <<blocks, head, pcM, chosenOn, manager, base>> /\ pcM = "others"
        /\ group' = IF RefsSpendable(Unspent(manager), <<tx>>) THEN Add(group, tx) ELSE group
    BY <1>8 DEF AddOther, chainVars
  <2>2. tx \in Tx /\ group \in Seq(Tx)
    BY DEF PoolInv, MinerType
  <2>3. BlockCount(head)' = BlockCount(head) /\ BlockCount(chosenOn)' = BlockCount(chosenOn)
        /\ Unspent(chosenOn)' = Unspent(chosenOn)
    BY <2>1 DEF BlockCount, Unspent
  <2>4. LeftLate'
    BY <2>1, <2>3 DEF LeftLate, Walking
  <2>5. CASE group' = group
    BY <2>1, <2>3, <2>4, <2>5 DEF Apart, OthersChecked
  <2>6. CASE RefsSpendable(Unspent(manager), <<tx>>) /\ group' = Add(group, tx)
    <3>1. Apart' /\ \A k \in 1..Len(group') : \/ k \in 1..Len(group) /\ group'[k] = group[k]
                                             \/ group'[k] = tx
      BY <2>2, <2>6, AddApart
    <3>2. chosenOn = head => manager = chosenOn
      BY <1>1, <1>2, <2>1 DEF LeftLate, Walking
    <3>3. OthersChecked'
      BY <2>1, <2>3, <2>6, <3>1, <3>2 DEF OthersChecked
    <3> QED BY <2>4, <3>1, <3>3
  <2> QED BY <2>1, <2>5, <2>6
<1>9. CASE WalkOwn \/ WalkOthers \/ Prepare \/ Interrupted \/ Mine \/ Continue
  <2>1. /\ UNCHANGED <<head, chosenOn, manager, group>>
        /\ \/ pcM = "chosen" /\ pcM' = "own" /\ base' = base
           \/ pcM = "own" /\ pcM' = "others" /\ base' = base
           \/ pcM = "others" /\ pcM' = "mine" /\ base' = head
           \/ pcM' \in {"choose", "offered"}
    BY <1>9 DEF WalkOwn, WalkOthers, Prepare, Interrupted, Mine, Continue, chainVars
  <2>2. BlockCount(head)' = BlockCount(head) /\ BlockCount(chosenOn)' = BlockCount(chosenOn)
        /\ Unspent(chosenOn)' = Unspent(chosenOn)
    BY <1>1, <1>2, <2>1 DEF BlockCount, Unspent
  <2> QED BY <2>1, <2>2 DEF Apart, LeftLate, Walking, OthersChecked
<1> QED BY <1>3, <1>4, <1>5, <1>6, <1>7, <1>8, <1>9, GroupSteps

(* A group is sound if the own payments in it are: no output is spent      *)
(* twice (Add), and the others were looked up in the manager of the head,  *)
(* which leaves it only after the head has moved.                          *)
THEOREM GroupsSound == Spec => []GroupSound
<1>1. Init => GroupInv
  BY DEF Init, GroupInv, Apart, LeftLate, Walking, OthersChecked
<1>2. TypeInv /\ GroupInv /\ [Next]_vars => GroupInv'
  BY GroupKept
<1>3. TypeInv /\ GroupInv => GroupSound
  BY GroupInvSound
<1> QED BY <1>1, <1>2, <1>3, TypeInvAlways, PTL DEF Spec

=============================================================================
