----------------------- MODULE TransactionMoney_proofs ----------------------
(***************************************************************************)
(* Money is conserved: along every verified chain the unspent outputs are  *)
(* worth one reward per block.                                             *)
(***************************************************************************)
EXTENDS TransactionPool_proofs

-----------------------------------------------------------------------------
(* More about sums.                                                        *)

(* Counting up by steps of one reaches every number: a set that has 0, and *)
(* the successor of each member below n, has n.  (If it had not, the       *)
(* successor would map it into itself without 0.)                          *)
LEMMA CountUp ==
  ASSUME NEW n \in Nat, NEW S, S \subseteq 0..n, 0 \in S,
         \A m \in S : m < n => m + 1 \in S
  PROVE  n \in S
<1> SUFFICES ASSUME n \notin S PROVE FALSE
  OBVIOUS
<1> DEFINE f == [m \in S |-> m + 1]
<1>1. IsFiniteSet(S)
  <2>1. IsFiniteSet(0..n)
    BY FS_Interval
  <2> QED BY <2>1, FS_Subset
<1>2. \A m \in S : m \in Nat /\ m < n
  OBVIOUS
<1>3. f \in [S -> S \ {0}] /\ \A a, b \in S : f[a] = f[b] => a = b
  BY <1>2
<1>4. f \in Injection(S, S \ {0})
  <2> HIDE DEF f
  <2> QED BY <1>3, Fun_IsInj
<1>5. IsFiniteSet(S \ {0}) /\ Cardinality(S \ {0}) = Cardinality(S) - 1
  BY <1>1, FS_RemoveElement
<1>6. Cardinality(S) <= Cardinality(S \ {0})
  <2> HIDE DEF f
  <2> QED BY <1>4, <1>5, FS_Injection
<1>7. Cardinality(S) \in Nat
  BY <1>1, FS_CardinalityType
<1> QED BY <1>5, <1>6, <1>7

(* A sum does not depend on how its places are named.                      *)
LEMMA SumRenamed ==
  ASSUME NEW S, NEW T, IsFiniteSet(S), NEW h \in Bijection(S, T), NEW f \in [T -> Nat]
  PROVE  Sum([s \in S |-> f[h[s]]]) = Sum(f)
<1> DEFINE g == [s \in S |-> f[h[s]]]
           H == [c \in Pairs(g) |-> <<h[c[1]], c[2]>>]
<1>1. /\ h \in [S -> T]
      /\ \A a, b \in S : h[a] = h[b] => a = b
      /\ \A t \in T : \E s \in S : h[s] = t
  BY Fun_BijectionProperties
<1>2. g \in [S -> Nat]
  BY <1>1
<1>3. IsFiniteSet(Pairs(g))
  <2> HIDE DEF g
  <2> QED BY <1>2, SumIsNat
<1>4. \A c : c \in Pairs(g) <=> \E s \in S : \E i \in 1..f[h[s]] : c = <<s, i>>
  BY PairsOf
<1>5. \A c : c \in Pairs(f) <=> \E t \in T : \E i \in 1..f[t] : c = <<t, i>>
  BY PairsOf
<1>6. H \in [Pairs(g) -> Pairs(f)]
  <2> SUFFICES ASSUME NEW c \in Pairs(g) PROVE <<h[c[1]], c[2]>> \in Pairs(f)
    OBVIOUS
  <2>1. PICK s \in S : \E i \in 1..f[h[s]] : c = <<s, i>>
    BY <1>4
  <2>2. PICK i \in 1..f[h[s]] : c = <<s, i>>
    BY <2>1
  <2> QED BY <1>1, <1>5, <2>2
<1>7. ASSUME NEW c \in Pairs(g), NEW d \in Pairs(g), H[c] = H[d]
      PROVE  c = d
  <2>1. PICK s \in S, i \in Nat : c = <<s, i>>
    BY <1>2, <1>4
  <2>2. PICK t \in S, j \in Nat : d = <<t, j>>
    BY <1>2, <1>4
  <2> QED BY <1>1, <1>7, <2>1, <2>2
<1>8. ASSUME NEW c \in Pairs(f)
      PROVE  \E d \in Pairs(g) : H[d] = c
  <2>1. PICK t \in T : \E i \in 1..f[t] : c = <<t, i>>
    BY <1>5
  <2>2. PICK i \in 1..f[t] : c = <<t, i>>
    BY <2>1
  <2>3. PICK s \in S : h[s] = t
    BY <1>1
  <2>4. <<s, i>> \in Pairs(g)
    BY <1>4, <2>2, <2>3
  <2> QED BY <2>2, <2>3, <2>4
<1>9. H \in Bijection(Pairs(g), Pairs(f))
  <2> HIDE DEF H, g
  <2> QED BY <1>6, <1>7, <1>8, Fun_IsBij
<1>10. ExistsBijection(Pairs(g), Pairs(f))
  BY <1>9 DEF ExistsBijection
<1>11. Cardinality(Pairs(f)) = Cardinality(Pairs(g))
  <2> HIDE DEF H, g
  <2> QED BY <1>3, <1>10, FS_Bijection
<1>12. Sum(g) = Cardinality(Pairs(g)) /\ Sum(f) = Cardinality(Pairs(f))
  <2> HIDE DEF H, g
  <2> QED BY DEF Sum, Pairs
<1> QED BY <1>11, <1>12

-----------------------------------------------------------------------------
(* What sets of outputs are worth.                                         *)

Worth(refs) == Sum([r \in refs |-> Output(r).amount])

Valued(refs) == IsFiniteSet(refs) /\ \A r \in refs : Output(r).amount \in Nat

(* What a finite set of outputs is worth is a number.                      *)
LEMMA WorthIsNat ==
  ASSUME NEW A, Valued(A)
  PROVE  Worth(A) \in Nat
<1> DEFINE f == [r \in A |-> Output(r).amount]
<1>1. f \in [A -> Nat] /\ IsFiniteSet(A)
  BY DEF Valued
<1>2. Sum(f) \in Nat
  <2> HIDE DEF f
  <2> QED BY <1>1, SumIsNat
<1> QED BY <1>2 DEF Worth

(* The worth of two sets that share nothing is the sum of theirs.          *)
LEMMA WorthSplits ==
  ASSUME NEW A, NEW B, A \cap B = {}, Valued(A), Valued(B)
  PROVE  /\ Worth(A \cup B) = Worth(A) + Worth(B)
         /\ Valued(A \cup B)
<1> DEFINE f == [r \in A \cup B |-> Output(r).amount]
           g == [r \in A |-> Output(r).amount]
           h == [r \in B |-> Output(r).amount]
<1>1. f \in [A \cup B -> Nat] /\ g \in [A -> Nat] /\ h \in [B -> Nat]
  BY DEF Valued
<1>2. (\A r \in A : f[r] = g[r]) /\ (\A r \in B : f[r] = h[r])
  OBVIOUS
<1>3. IsFiniteSet(A) /\ IsFiniteSet(B)
  BY DEF Valued
<1>4. Sum(f) = Sum(g) + Sum(h)
  <2> HIDE DEF f, g, h
  <2> QED BY <1>1, <1>2, <1>3, SumSplits
<1>5. Valued(A \cup B)
  BY FS_Union DEF Valued
<1> QED BY <1>4, <1>5 DEF Worth

(* Inputs that name no output twice are worth what their outputs are.      *)
LEMMA InputsWorth ==
  ASSUME NEW inputs, IsFiniteSet(inputs), \A i, j \in inputs : i[2] = j[2] => i = j,
         \A r \in Refs(inputs) : Output(r).amount \in Nat
  PROVE  Received(inputs) = Worth(Refs(inputs)) /\ Valued(Refs(inputs))
<1> DEFINE h == [i \in inputs |-> i[2]]
           f == [r \in Refs(inputs) |-> Output(r).amount]
<1>1. h \in Bijection(inputs, Refs(inputs))
  <2>1. h \in [inputs -> Refs(inputs)] /\ \A t \in Refs(inputs) : \E i \in inputs : h[i] = t
    BY DEF Refs
  <2>2. \A i, j \in inputs : h[i] = h[j] => i = j
    OBVIOUS
  <2> HIDE DEF h
  <2> QED BY <2>1, <2>2, Fun_IsBij
<1>2. f \in [Refs(inputs) -> Nat]
  OBVIOUS
<1>3. Sum([i \in inputs |-> f[h[i]]]) = Sum(f)
  <2> HIDE DEF f, h
  <2> QED BY <1>1, <1>2, SumRenamed
<1>4. \A i \in inputs : f[h[i]] = Output(i[2]).amount
  BY DEF Refs
<1>5. [i \in inputs |-> f[h[i]]] = [i \in inputs |-> Output(i[2]).amount]
  BY <1>4
<1>6. ExistsBijection(inputs, Refs(inputs))
  <2> HIDE DEF h
  <2> QED BY <1>1 DEF ExistsBijection
<1>7. IsFiniteSet(Refs(inputs))
  BY <1>6, FS_Bijection
<1> QED BY <1>3, <1>5, <1>7 DEF Received, Worth, Valued

(* The outputs of a transaction in a block are worth what it pays.         *)
LEMMA OutputsWorth ==
  ASSUME NEW b, NEW k, NEW outs \in Seq(TxOut), blocks[b].txs[k].outs = outs
  PROVE  LET made == {<<b, k, j>> : j \in 1..Len(outs)}
         IN  Paid(outs) = Worth(made) /\ Valued(made)
<1> DEFINE made == {<<b, k, j>> : j \in 1..Len(outs)}
           h == [j \in 1..Len(outs) |-> <<b, k, j>>]
           f == [r \in made |-> Output(r).amount]
<1>1. h \in Bijection(1..Len(outs), made)
  <2>1. h \in [1..Len(outs) -> made] /\ \A t \in made : \E j \in 1..Len(outs) : h[j] = t
    OBVIOUS
  <2>2. \A i, j \in 1..Len(outs) : h[i] = h[j] => i = j
    OBVIOUS
  <2> HIDE DEF h, made
  <2> QED BY <2>1, <2>2, Fun_IsBij
<1>2. \A j \in 1..Len(outs) : Output(<<b, k, j>>) = outs[j] /\ outs[j].amount \in Nat
  <2> TAKE j \in 1..Len(outs)
  <2>1. outs[j] \in TxOut
    OBVIOUS
  <2>2. Output(<<b, k, j>>) = outs[j]
    BY DEF Output
  <2> QED BY <2>1, <2>2 DEF TxOut
<1>3. f \in [made -> Nat]
  BY <1>2
<1>4. IsFiniteSet(1..Len(outs))
  BY RangeFinite
<1>5. Sum([j \in 1..Len(outs) |-> f[h[j]]]) = Sum(f)
  <2> HIDE DEF f, h, made
  <2> QED BY <1>1, <1>3, <1>4, SumRenamed
<1>6. \A j \in 1..Len(outs) : f[h[j]] = outs[j].amount
  BY <1>2
<1>7. [j \in 1..Len(outs) |-> f[h[j]]] = [j \in Range1(outs) |-> outs[j].amount]
  BY <1>6 DEF Range1
<1>8. ExistsBijection(1..Len(outs), made)
  <2> HIDE DEF h, made
  <2> QED BY <1>1 DEF ExistsBijection
<1>9. IsFiniteSet(made)
  <2> HIDE DEF made
  <2> QED BY <1>4, <1>8, FS_Bijection
<1>10. \A r \in made : Output(r).amount \in Nat
  BY <1>2
<1> QED BY <1>5, <1>7, <1>9, <1>10 DEF Paid, Worth, Valued

-----------------------------------------------------------------------------
(* Blocks and payments.                                                    *)

Txs(b) == blocks[b].txs

(* A payment pays what it takes.                                           *)
Balanced(tx) ==
  /\ IsFiniteSet(tx.inputs) /\ Refs(tx.inputs) \subseteq Known(Len(blocks))
  /\ Paid(tx.outs) = Received(tx.inputs)

(* A list of transactions adds one reward.                                 *)
OneReward(txs) ==
  /\ Len(txs) >= 1 /\ txs[1].inputs = {} /\ Paid(txs[1].outs) = Davidcoin
  /\ \A k \in 2..Len(txs) : Balanced(txs[k])

(* Blocks add one reward each, and leave unspent what the manager computes.*)
BlocksBalanced ==
  \A b \in Blocks :
    /\ OneReward(Txs(b))
    /\ Unspent(b) = (Unspent(Parent(b)) \ Spent(Txs(b))) \cup OutputsOf(b, Txs(b))
    /\ IsFiniteSet(Unspent(b))

(* Outputs that exist have a worth.                                        *)
LEMMA KnownValued ==
  ASSUME TypeInv, NEW A, IsFiniteSet(A), A \subseteq Known(Len(blocks))
  PROVE  Valued(A)
BY KnownOutput DEF TypeInv, TxOut, Valued

(* The fields of a block.                                                  *)
LEMMA BlockTxs ==
  ASSUME TypeInv, NEW b \in Blocks
  PROVE  /\ b \in Nat /\ b # NoBlock /\ b \in Nodes /\ Txs(b) \in Seq(Tx)
         /\ Parent(b) \in Nodes /\ Parent(b) \in Nat /\ Parent(b) < b
         /\ BlockCount(b) = BlockCount(Parent(b)) + 1
<1>1. blocks[b] \in Block /\ blocks[b].parent < b /\ b \in Nat /\ b # NoBlock /\ b \in Nodes
  BY DEF TypeInv, ChainInv, ChainType, Blocks, Nodes, NoBlock
<1>2. Parent(b) \in Nat /\ Parent(b) < b
  BY <1>1 DEF Parent, Block
<1>3. Parent(b) \in Nodes
  BY <1>1, <1>2 DEF Nodes
<1>4. BlockCount(b) = BlockCount(Parent(b)) + 1
  BY <1>1 DEF TypeInv, ChainInv, PlacesOk, BlockCount
<1> QED BY <1>1, <1>2, <1>3, <1>4 DEF Txs, Block

(* The genesis has no outputs: all those at a node are finitely many.      *)
LEMMA UnspentValued ==
  ASSUME TypeInv, BlocksBalanced, NEW b \in Nodes
  PROVE  Valued(Unspent(b))
<1>1. CASE b = NoBlock
  BY <1>1, FS_EmptySet DEF Unspent, Valued
<1>2. CASE b # NoBlock
  <2>1. b \in Blocks
    BY <1>2 DEF Nodes, Blocks, NoBlock, TypeInv, ChainInv, ChainType
  <2>2. Unspent(b) \subseteq Known(Len(blocks))
    BY UnspentExists DEF TypeInv
  <2> QED BY <2>1, <2>2, KnownValued DEF BlocksBalanced
<1> QED BY <1>1, <1>2

(* The outputs of a block are worth one reward more than what it spends,   *)
(* if it names no output twice: counted up transaction by transaction.     *)
LEMMA BlockAddsReward ==
  ASSUME TypeInv, BlocksBalanced, NEW b \in Blocks,
         RefsSpendable(Unspent(Parent(b)), Txs(b))
  PROVE  /\ Worth(OutputsOf(b, Txs(b))) = Worth(Spent(Txs(b))) + Davidcoin
         /\ Valued(OutputsOf(b, Txs(b))) /\ Valued(Spent(Txs(b)))
<1> DEFINE txs == Txs(b)
           n == Len(txs)
           in(k) == Refs(txs[k].inputs)
           out(k) == {<<b, k, j>> : j \in 1..Len(txs[k].outs)}
           In(m) == UNION {in(k) : k \in 1..m}
           Out(m) == UNION {out(k) : k \in 1..m}
           fee(m) == IF m = 0 THEN 0 ELSE Davidcoin
           good == {m \in 0..n : /\ Worth(Out(m)) = Worth(In(m)) + fee(m)
                                 /\ Valued(Out(m)) /\ Valued(In(m))}
<1>1. txs \in Seq(Tx) /\ n \in Nat /\ n >= 1 /\ OneReward(txs)
  <2>1. txs \in Seq(Tx)
    BY BlockTxs
  <2>2. OneReward(txs)
    BY DEF BlocksBalanced
  <2>3. n \in Nat
    <3> HIDE DEF txs
    <3> QED BY <2>1
  <2>4. n >= 1
    BY <2>2 DEF OneReward
  <2> QED BY <2>1, <2>2, <2>3, <2>4
<1>2. \A k \in 1..n : txs[k] \in Tx /\ txs[k].outs \in Seq(TxOut)
  <2> HIDE DEF txs
  <2>1. \A k \in 1..n : txs[k] \in Tx
    BY <1>1
  <2> QED BY <2>1 DEF Tx, TxOut
<1>3. ASSUME NEW k \in 1..n
      PROVE  /\ Worth(out(k)) = Worth(in(k)) + (IF k = 1 THEN Davidcoin ELSE 0)
             /\ Valued(out(k)) /\ Valued(in(k)) /\ Worth(in(k)) \in Nat
  <2>1. Paid(txs[k].outs) = Worth(out(k)) /\ Valued(out(k))
    BY <1>2, OutputsWorth DEF Txs
  <2>2. CASE k = 1
    <3>1. in(k) = {}
      BY <1>1, <2>2 DEF OneReward, Refs
    <3>2. Worth(in(k)) = 0 /\ Valued(in(k))
      <4>1. Worth({}) = 0
        BY SumOfNone DEF Worth
      <4>2. Valued({})
        BY FS_EmptySet DEF Valued
      <4> QED BY <3>1, <4>1, <4>2
    <3>3. Paid(txs[k].outs) = Davidcoin
      BY <1>1, <2>2 DEF OneReward
    <3> QED BY <2>1, <2>2, <3>2, <3>3, PoolAssumption
  <2>3. CASE k # 1
    <3>1. Balanced(txs[k])
      BY <1>1, <2>3 DEF OneReward
    <3>2. \A i, j \in txs[k].inputs : i[2] = j[2] => i = j
      BY <1>1 DEF RefsSpendable, Range1
    <3>3. Refs(txs[k].inputs) \subseteq Known(Len(blocks)) /\ IsFiniteSet(txs[k].inputs)
      BY <3>1 DEF Balanced
    <3>4. \A r \in Refs(txs[k].inputs) : Output(r).amount \in Nat
      BY <3>3, KnownOutput DEF TypeInv, TxOut
    <3>5. Received(txs[k].inputs) = Worth(in(k)) /\ Valued(in(k))
      BY <3>2, <3>3, <3>4, InputsWorth
    <3>6. Worth(in(k)) \in Nat
      BY <3>5, WorthIsNat
    <3> QED BY <2>1, <2>3, <3>1, <3>5, <3>6 DEF Balanced
  <2> QED BY <2>2, <2>3
<1>4. ASSUME NEW k \in 1..n, NEW l \in 1..n, k # l
      PROVE  in(k) \cap in(l) = {} /\ out(k) \cap out(l) = {}
  BY <1>1, <1>4 DEF RefsSpendable, Range1, Refs
<1>5. In(0) = {} /\ Out(0) = {}
  OBVIOUS
<1>6. ASSUME NEW m \in 0..n, m < n
      PROVE  /\ In(m + 1) = In(m) \cup in(m + 1) /\ Out(m + 1) = Out(m) \cup out(m + 1)
             /\ In(m) \cap in(m + 1) = {} /\ Out(m) \cap out(m + 1) = {}
  <2>1. 1..(m + 1) = (1..m) \cup {m + 1}
    BY <1>1, <1>6
  <2>2. m + 1 \in 1..n /\ \A k \in 1..m : k \in 1..n /\ k # m + 1
    BY <1>1, <1>6
  <2>3. In(m + 1) = In(m) \cup in(m + 1) /\ Out(m + 1) = Out(m) \cup out(m + 1)
    <3> HIDE DEF in, out
    <3> QED BY <2>1
  <2>4. \A k \in 1..m : in(k) \cap in(m + 1) = {} /\ out(k) \cap out(m + 1) = {}
    <3> HIDE DEF in, out, n
    <3> QED BY <1>4, <2>2
  <2> HIDE DEF in, out
  <2> QED BY <2>3, <2>4
<1> HIDE DEF txs, n, in, out, In, Out
<1>7. 0 \in good
  <2>1. Worth({}) = 0
    BY SumOfNone DEF Worth
  <2>2. Valued({})
    BY FS_EmptySet DEF Valued
  <2>3. 0 \in 0..n
    BY <1>1
  <2>4. Worth(Out(0)) = 0 /\ Worth(In(0)) = 0
    BY <1>5, <2>1
  <2>5. Valued(Out(0)) /\ Valued(In(0))
    BY <1>5, <2>2
  <2> QED BY <2>3, <2>4, <2>5
<1>8. ASSUME NEW m \in good, m < n
      PROVE  m + 1 \in good
  <2>1. m \in 0..n /\ m + 1 \in 1..n /\ m + 1 \in 0..n /\ m \in Nat
    BY <1>1, <1>8
  <2>2. /\ Worth(Out(m)) = Worth(In(m)) + fee(m)
        /\ Valued(Out(m)) /\ Valued(In(m))
    OBVIOUS
  <2>3. /\ Worth(out(m + 1)) = Worth(in(m + 1)) + (IF m + 1 = 1 THEN Davidcoin ELSE 0)
        /\ Valued(out(m + 1)) /\ Valued(in(m + 1)) /\ Worth(in(m + 1)) \in Nat
    BY <1>3, <2>1
  <2>4. /\ In(m + 1) = In(m) \cup in(m + 1) /\ Out(m + 1) = Out(m) \cup out(m + 1)
        /\ In(m) \cap in(m + 1) = {} /\ Out(m) \cap out(m + 1) = {}
    BY <1>6, <1>8, <2>1
  <2>5. Worth(In(m + 1)) = Worth(In(m)) + Worth(in(m + 1)) /\ Valued(In(m + 1))
    <3>1. /\ Worth(In(m) \cup in(m + 1)) = Worth(In(m)) + Worth(in(m + 1))
          /\ Valued(In(m) \cup in(m + 1))
      BY <2>2, <2>3, <2>4, WorthSplits
    <3> QED BY <2>4, <3>1
  <2>6. Worth(Out(m + 1)) = Worth(Out(m)) + Worth(out(m + 1)) /\ Valued(Out(m + 1))
    <3>1. /\ Worth(Out(m) \cup out(m + 1)) = Worth(Out(m)) + Worth(out(m + 1))
          /\ Valued(Out(m) \cup out(m + 1))
      BY <2>2, <2>3, <2>4, WorthSplits
    <3> QED BY <2>4, <3>1
  <2>7. Worth(In(m)) \in Nat
    BY <2>2, WorthIsNat
  <2>8. fee(m) + (IF m + 1 = 1 THEN Davidcoin ELSE 0) = fee(m + 1)
    BY <2>1, PoolAssumption
  <2>9. Worth(Out(m + 1)) = Worth(In(m + 1)) + fee(m + 1)
    <3>1. fee(m) \in Nat /\ (IF m + 1 = 1 THEN Davidcoin ELSE 0) \in Nat /\ fee(m + 1) \in Nat
      BY PoolAssumption
    <3> HIDE DEF fee
    <3> QED BY <2>2, <2>3, <2>5, <2>6, <2>7, <2>8, <3>1
  <2> QED BY <2>1, <2>5, <2>6, <2>9
<1>9. n \in good
  <2>1. good \subseteq 0..n /\ \A m \in good : m < n => m + 1 \in good
    BY <1>8
  <2> HIDE DEF good
  <2> QED BY <1>1, <1>7, <2>1, CountUp
<1>10. Out(n) = OutputsOf(b, Txs(b)) /\ In(n) = Spent(Txs(b))
  BY DEF Out, In, out, in, txs, n, OutputsOf, Spent, Range1
<1>11. fee(n) = Davidcoin
  BY <1>1
<1> QED BY <1>9, <1>10, <1>11

(* A block whose inputs are spendable at its parent adds one reward to     *)
(* what is unspent there.                                                  *)
LEMMA BlockWorth ==
  ASSUME TypeInv, BlocksBalanced, NEW b \in Blocks,
         RefsSpendable(Unspent(Parent(b)), Txs(b))
  PROVE  Worth(Unspent(b)) = Worth(Unspent(Parent(b))) + Davidcoin
<1> DEFINE U == Unspent(Parent(b))
           S == Spent(Txs(b))
           O == OutputsOf(b, Txs(b))
<1>1. /\ Worth(O) = Worth(S) + Davidcoin /\ Valued(O) /\ Valued(S)
  BY BlockAddsReward
<1>2. S \subseteq U
  BY DEF RefsSpendable
<1>3. Unspent(b) = (U \ S) \cup O
  BY DEF BlocksBalanced
<1>4. Valued(U)
  BY BlockTxs, UnspentValued
<1>5. Valued(U \ S)
  BY <1>4, FS_Subset DEF Valued
<1>6. (U \ S) \cap O = {}
  <2>1. U \subseteq Known(Parent(b))
    <3>1. CASE Parent(b) = NoBlock
      BY <3>1 DEF Unspent
    <3>2. CASE Parent(b) # NoBlock
      <4>1. Parent(b) \in Blocks
        BY <3>2, BlockTxs DEF Nodes, Blocks, NoBlock, TypeInv, ChainInv, ChainType
      <4> QED BY <4>1 DEF TypeInv, ChainInv, UnspentKnown
    <3> QED BY <3>1, <3>2
  <2>2. \A r \in U : r[1] <= Parent(b)
    BY <2>1, BlockTxs DEF Known
  <2>3. \A r \in O : r[1] = b
    BY BlockTxs, OutputsKnown
  <2>4. b \in Nat /\ Parent(b) \in Nat /\ Parent(b) < b
    BY BlockTxs
  <2> HIDE DEF U, S, O
  <2> QED BY <2>2, <2>3, <2>4
<1> HIDE DEF U, S, O
<1>7. Worth((U \ S) \cup O) = Worth(U \ S) + Worth(O)
  BY <1>1, <1>5, <1>6, WorthSplits
<1>8. Worth((U \ S) \cup S) = Worth(U \ S) + Worth(S)
  <2>1. (U \ S) \cap S = {}
    OBVIOUS
  <2> QED BY <1>1, <1>5, <2>1, WorthSplits
<1>9. (U \ S) \cup S = U
  BY <1>2
<1>10. Worth(U \ S) \in Nat /\ Worth(S) \in Nat
  BY <1>1, <1>5, WorthIsNat
<1>11. Worth(Unspent(b)) = Worth(U \ S) + Worth(O) /\ Worth(U) = Worth(U \ S) + Worth(S)
  BY <1>3, <1>7, <1>8, <1>9
<1>12. Worth(Unspent(b)) = Worth(U) + Davidcoin
  BY <1>1, <1>10, <1>11, PoolAssumption
<1> QED BY <1>12 DEF U

-----------------------------------------------------------------------------
(* What exists stays worth what it is.                                     *)

(* An output that exists goes on to exist, and is what it was.             *)
LEMMA KnownStays ==
  ASSUME TypeInv, [Next]_vars
  PROVE  /\ Known(Len(blocks)) \subseteq Known(Len(blocks))'
         /\ \A r \in Known(Len(blocks)) : Output(r)' = Output(r)
<1>1. Len(blocks) \in Nat /\ \A b \in Blocks : b \in Blocks' /\ blocks'[b] = blocks[b]
  BY BlocksStay DEF TypeInv, ChainInv, ChainType
<1>2. ASSUME NEW r \in Known(Len(blocks))
      PROVE  r \in Known(Len(blocks))' /\ Output(r)' = Output(r)
  <2>1. r \in Ref /\ r[1] \in Blocks
    BY <1>2 DEF Known, Blocks
  <2>2. blocks'[r[1]] = blocks[r[1]] /\ r[1] \in Blocks'
    BY <1>1, <2>1
  <2>3. /\ r[2] \in 1..Len(blocks[r[1]].txs)
        /\ r[3] \in 1..Len(blocks[r[1]].txs[r[2]].outs)
    BY <1>2 DEF Known
  <2>4. Output(r)' = Output(r)
    BY <2>2 DEF Output
  <2>5. /\ r[2] \in 1..Len(blocks'[r[1]].txs)
        /\ r[3] \in 1..Len(blocks'[r[1]].txs[r[2]].outs)
    BY <2>2, <2>3, Zenon
  <2> QED BY <2>1, <2>2, <2>4, <2>5 DEF Known, Blocks
<1> QED BY <1>2

(* So it stays worth the same.                                             *)
LEMMA WorthStays ==
  ASSUME TypeInv, [Next]_vars, NEW A, A \subseteq Known(Len(blocks))
  PROVE  Sum([r \in A |-> Output(r)'.amount]) = Worth(A)
<1>1. \A r \in A : Output(r)'.amount = Output(r).amount
  BY KnownStays
<1>2. [r \in A |-> Output(r)'.amount] = [r \in A |-> Output(r).amount]
  BY <1>1
<1> QED BY <1>2 DEF Worth

(* A payment that paid what it took still does.                            *)
LEMMA BalancedStays ==
  ASSUME TypeInv, [Next]_vars, NEW tx, Balanced(tx)
  PROVE  Balanced(tx)'
<1>1. IsFiniteSet(tx.inputs) /\ Refs(tx.inputs) \subseteq Known(Len(blocks))'
  BY KnownStays DEF Balanced
<1>2. \A i \in tx.inputs : Output(i[2])' = Output(i[2])
  BY KnownStays DEF Balanced, Refs
<1>3. [i \in tx.inputs |-> Output(i[2])'.amount] = [i \in tx.inputs |-> Output(i[2]).amount]
  BY <1>2
<1>4. Received(tx.inputs)' = Received(tx.inputs)
  BY <1>3 DEF Received
<1> QED BY <1>1, <1>4 DEF Balanced, Refs, Paid, Range1

(* So a list of them goes on to add one reward.                            *)
LEMMA RewardStays ==
  ASSUME TypeInv, [Next]_vars, NEW txs, OneReward(txs)
  PROVE  OneReward(txs)'
<1>1. \A k \in 2..Len(txs) : Balanced(txs[k])'
  <2> TAKE k \in 2..Len(txs)
  <2>1. Balanced(txs[k])
    BY DEF OneReward
  <2> QED BY <2>1, BalancedStays
<1> QED BY <1>1 DEF OneReward, Paid, Range1

-----------------------------------------------------------------------------
(* Everything that is broadcast pays what it takes, and so do the group    *)
(* and the blocks; a chain of such blocks is worth its height.             *)

SentBalanced == \A tx \in sent : Balanced(tx)

(* The group is the fee block, and payments.                               *)
GroupPays ==
  pcM \in {"chosen", "own", "others", "mine"} =>
    /\ Len(group) >= 1 /\ group[1] = FeeBlock(Me)
    /\ \A k \in 2..Len(group) : group[k] \in sent

MoneyInv == SentBalanced /\ GroupPays /\ BlocksBalanced /\ MoneyIsHeight

(* One output pays its amount.                                             *)
LEMMA PaidByOne ==
  ASSUME NEW o \in TxOut
  PROVE  Paid(<<o>>) = o.amount
<1> DEFINE f == [j \in Range1(<<o>>) |-> <<o>>[j].amount]
<1>1. DOMAIN f = {1} /\ f[1] = o.amount /\ f[1] \in Nat
  BY DEF Range1, TxOut
<1>2. Sum(f) = f[1]
  <2> HIDE DEF f
  <2> QED BY <1>1, SumOfOne
<1> QED BY <1>1, <1>2 DEF Paid

(* The sum over two places.                                                *)
LEMMA SumOfTwo ==
  ASSUME NEW x, NEW y, x # y, NEW f, DOMAIN f = {x, y}, f[x] \in Nat, f[y] \in Nat
  PROVE  Sum(f) = f[x] + f[y]
<1> DEFINE P == {x} \X (1..f[x])
           Q == {y} \X (1..f[y])
<1>1. UNION {{z} \X (1..f[z]) : z \in DOMAIN f} = P \cup Q
  OBVIOUS
<1>2. P \cap Q = {}
  OBVIOUS
<1>3. IsFiniteSet(P) /\ Cardinality(P) = f[x] /\ IsFiniteSet(Q) /\ Cardinality(Q) = f[y]
  BY PairsOfOne
<1>4. Cardinality(P \cap Q) = 0
  BY <1>2, FS_EmptySet
<1>5. Sum(f) = Cardinality(P \cup Q)
  BY <1>1 DEF Sum
<1> HIDE DEF P, Q
<1>6. Cardinality(P \cup Q) = Cardinality(P) + Cardinality(Q) - Cardinality(P \cap Q)
  BY <1>3, FS_Union
<1> QED BY <1>3, <1>4, <1>5, <1>6

(* Two outputs pay both their amounts.                                     *)
LEMMA PaidByTwo ==
  ASSUME NEW outs \in Seq(TxOut), Len(outs) = 2
  PROVE  Paid(outs) = outs[1].amount + outs[2].amount
<1> DEFINE f == [j \in Range1(outs) |-> outs[j].amount]
<1>1. Range1(outs) = {1, 2}
  BY DEF Range1
<1>2. outs[1] \in TxOut /\ outs[2] \in TxOut
  OBVIOUS
<1>3. DOMAIN f = {1, 2} /\ f[1] = outs[1].amount /\ f[2] = outs[2].amount
  BY <1>1
<1>4. outs[1].amount \in Nat /\ outs[2].amount \in Nat
  BY <1>2 DEF TxOut
<1>5. Sum(f) = f[1] + f[2]
  <2> HIDE DEF f
  <2>1. 1 # 2 /\ f[1] \in Nat /\ f[2] \in Nat
    BY <1>3, <1>4
  <2>2. \A x, y : (x # y /\ DOMAIN f = {x, y} /\ f[x] \in Nat /\ f[y] \in Nat) => Sum(f) = f[x] + f[y]
    BY SumOfTwo
  <2> QED BY <1>3, <2>1, <2>2
<1> QED BY <1>3, <1>5 DEF Paid

(* The wallet pays back what it took too much.                             *)
LEMMA OwnPaymentBalanced ==
  ASSUME TypeInv, NEW amount \in Nat, Enough(Selected(amount), amount),
         NEW tx, tx.inputs = Selected(amount), tx.outs = Outputs(Selected(amount), amount)
  PROVE  Balanced(tx)
<1> DEFINE taken == Received(Selected(amount))
           first == [to |-> Peer, amount |-> amount]
           rest == [to |-> Me, amount |-> taken - amount]
<1>1. /\ Selected(amount) \subseteq Nat \X Ref
      /\ IsFiniteSet(Selected(amount))
  BY SelectedOk DEF TypeInv, PoolInv
<1>2. Refs(Selected(amount)) \subseteq Known(Len(blocks))
  BY SelectedOk DEF TypeInv, PoolInv
<1>3. taken \in Nat
  BY <1>1, <1>2, ReceivedIsNat DEF TypeInv
<1>4. taken - amount \in Nat
  BY <1>3 DEF Enough
<1>5. first \in TxOut /\ rest \in TxOut /\ first.amount = amount /\ rest.amount = taken - amount
  BY <1>4 DEF TxOut
<1>6. Paid(tx.outs) = taken
  <2>1. CASE taken - amount = 0
    <3>1. tx.outs = <<first>>
      BY <2>1 DEF Outputs
    <3>2. Paid(<<first>>) = amount
      <4> HIDE DEF first
      <4> QED BY <1>5, PaidByOne
    <3> QED BY <1>3, <2>1, <3>1, <3>2
  <2>2. CASE taken - amount # 0
    <3>1. tx.outs = <<first>> \o <<rest>>
      BY <2>2 DEF Outputs
    <3> DEFINE both == <<first>> \o <<rest>>
    <3>2. both \in Seq(TxOut) /\ Len(both) = 2 /\ both[1] = first /\ both[2] = rest
      <4> HIDE DEF first, rest, TxOut
      <4> QED BY <1>5
    <3>3. Paid(both) = amount + (taken - amount)
      <4> HIDE DEF both
      <4> QED BY <1>5, <3>2, PaidByTwo
    <3>4. amount + (taken - amount) = taken
      BY <1>3
    <3> QED BY <3>1, <3>3, <3>4
  <2> QED BY <2>1, <2>2
<1> QED BY <1>1, <1>2, <1>6 DEF Balanced

(* A peer passes on what an output is worth.                               *)
LEMMA PeerPaymentBalanced ==
  ASSUME TypeInv, NEW r \in Known(Len(blocks)),
         NEW tx, tx.inputs = {<<1, r>>}, tx.outs = <<[to |-> Me, amount |-> Output(r).amount]>>
  PROVE  Balanced(tx)
<1> DEFINE o == [to |-> Me, amount |-> Output(r).amount]
           f == [i \in {<<1, r>>} |-> Output(i[2]).amount]
<1>1. Output(r).amount \in Nat
  BY KnownOutput DEF TypeInv, TxOut
<1>2. o \in TxOut /\ o.amount = Output(r).amount
  BY <1>1 DEF TxOut
<1>3. Paid(tx.outs) = Output(r).amount
  <2>1. tx.outs = <<o>>
    OBVIOUS
  <2> HIDE DEF o
  <2> QED BY <1>2, <2>1, PaidByOne
<1>4. DOMAIN f = {<<1, r>>} /\ f[<<1, r>>] = Output(r).amount
  OBVIOUS
<1>5. Sum(f) = Output(r).amount
  <2> HIDE DEF f
  <2> QED BY <1>1, <1>4, SumOfOne
<1>6. Received(tx.inputs) = Output(r).amount
  BY <1>5 DEF Received
<1>7. IsFiniteSet(tx.inputs)
  BY FS_Singleton
<1>8. Refs(tx.inputs) \subseteq Known(Len(blocks))
  BY DEF Refs
<1> QED BY <1>3, <1>6, <1>7, <1>8 DEF Balanced

(* The fee block makes the reward, from nothing.                           *)
LEMMA FeeBlockPays ==
  ASSUME NEW m \in {Me, Peer}
  PROVE  FeeBlock(m).inputs = {} /\ Paid(FeeBlock(m).outs) = Davidcoin
<1> DEFINE o == [to |-> m, amount |-> Davidcoin]
<1>1. o \in TxOut /\ o.amount = Davidcoin
  BY PoolAssumption DEF TxOut
<1>2. FeeBlock(m).inputs = {} /\ FeeBlock(m).outs = <<o>>
  BY DEF FeeBlock
<1> HIDE DEF o
<1> QED BY <1>1, <1>2, PaidByOne

(* What joins the payments pays what it takes.                             *)
LEMMA SentKept ==
  ASSUME TypeInv, SentBalanced, [Next]_vars
  PROVE  SentBalanced' /\ sent \subseteq sent'
<1>1. ASSUME sent' = sent
      PROVE  SentBalanced'
  BY <1>1, BalancedStays DEF SentBalanced
<1>2. ASSUME NEW tx, Balanced(tx), sent' = sent \cup {tx}
      PROVE  SentBalanced'
  BY <1>2, BalancedStays DEF SentBalanced
<1>3. ASSUME NEW amount \in bound.amounts, MakeTransaction(amount), sent' # sent
      PROVE  SentBalanced' /\ sent \subseteq sent'
  <2>1. Enough(Selected(amount), amount) /\ sent' = sent \cup {Payment(amount)}
    BY <1>3 DEF MakeTransaction
  <2>2. /\ Payment(amount).inputs = Selected(amount)
        /\ Payment(amount).outs = Outputs(Selected(amount), amount)
    BY DEF Payment
  <2>3. Balanced(Payment(amount))
    BY <2>1, <2>2, AmountIsNat, OwnPaymentBalanced
  <2> QED BY <1>2, <2>1, <2>3
<1>4. ASSUME NEW b \in Nodes, NEW r \in Unspent(b), PeerPays(r)
      PROVE  SentBalanced' /\ sent \subseteq sent'
  <2>1. PICK tx : /\ tx.inputs = {<<1, r>>} /\ tx.outs = <<[to |-> Me, amount |-> Output(r).amount]>>
                  /\ sent' = sent \cup {tx}
    BY <1>4 DEF PeerPays
  <2>2. r \in Known(Len(blocks))
    BY UnspentExists DEF TypeInv
  <2>3. Balanced(tx)
    BY <2>1, <2>2, PeerPaymentBalanced
  <2> QED BY <1>2, <2>1, <2>3
<1>5. \/ sent' = sent
      \/ \E amount \in bound.amounts : MakeTransaction(amount)
      \/ \E b \in Nodes : \E r \in Unspent(b) : PeerPays(r)
  <2>1. CASE UNCHANGED vars
    BY <2>1 DEF vars, poolVars
  <2>2. CASE Wallet
    BY <2>2 DEF Wallet, TakeManager, LookUp, ReceiveInternal, poolVars
  <2>3. CASE Network
    BY <2>3 DEF Network, PeerMines, ReceiveTransaction, poolVars
  <2>4. CASE Updater
    BY <2>4 DEF Updater, Take, Descend, Reject, Accept, Apply, Tell, Forget, Return, poolVars
  <2>5. CASE Miner
    BY <2>5 DEF Miner, Choose, AddOwn, WalkOwn, WalkOthers, AddOther, Prepare, Interrupted, Mine, Continue, poolVars
  <2> QED BY <2>1, <2>2, <2>3, <2>4, <2>5 DEF Next
<1> QED BY <1>1, <1>3, <1>4, <1>5

(* A group that grows, grows by a payment.                                 *)
LEMMA AddPays ==
  ASSUME NEW txs \in Seq(Tx), Len(txs) >= 1, \A k \in 2..Len(txs) : txs[k] \in sent,
         NEW tx \in Tx, tx \in sent
  PROVE  /\ Len(Add(txs, tx)) >= 1 /\ Add(txs, tx)[1] = txs[1]
         /\ \A k \in 2..Len(Add(txs, tx)) : Add(txs, tx)[k] \in sent
<1>1. CASE Add(txs, tx) = txs
  BY <1>1
<1>2. CASE Add(txs, tx) = Append(txs, tx)
  <2>1. /\ Len(Append(txs, tx)) = Len(txs) + 1 /\ Len(txs) \in Nat
        /\ \A k \in 1..Len(txs) : Append(txs, tx)[k] = txs[k]
        /\ Append(txs, tx)[Len(txs) + 1] = tx
    <3> HIDE DEF Tx
    <3> QED OBVIOUS
  <2> QED BY <1>2, <2>1
<1> QED BY <1>1, <1>2 DEF Add

(* A group is always the fee block and payments that were sent.            *)
LEMMA GroupPaysKept ==
  ASSUME TypeInv, GroupPays, sent \subseteq sent', [Next]_vars
  PROVE  GroupPays'
<1>1. group \in Seq(Tx) /\ todo \subseteq sent /\ sent \subseteq Tx
  BY DEF TypeInv, MinerType, PoolInv
<1>2. CASE UNCHANGED <<group, pcM>>
  BY <1>2 DEF GroupPays
<1>3. CASE Choose
  <2>1. group' = <<FeeBlock(Me)>>
    BY <1>3 DEF Choose
  <2>2. Len(group') = 1 /\ group'[1] = FeeBlock(Me)
    BY <2>1
  <2> QED BY <2>2 DEF GroupPays, FeeBlock
<1>4. ASSUME NEW tx \in todo, AddOwn(tx) \/ AddOther(tx)
      PROVE  GroupPays'
  <2>1. /\ pcM \in {"own", "others"} /\ pcM' = pcM
        /\ group' = group \/ group' = Add(group, tx)
    BY <1>4 DEF AddOwn, AddOther
  <2>2. /\ Len(group) >= 1 /\ group[1] = FeeBlock(Me)
        /\ \A k \in 2..Len(group) : group[k] \in sent
    BY <2>1 DEF GroupPays
  <2>3. CASE group' = group
    BY <1>2, <2>1, <2>3
  <2>4. CASE group' = Add(group, tx)
    <3>1. /\ Len(group') >= 1 /\ group'[1] = group[1]
          /\ \A k \in 2..Len(group') : group'[k] \in sent
      BY <1>1, <2>2, <2>4, AddPays
    <3> QED BY <2>2, <3>1 DEF GroupPays, FeeBlock
  <2> QED BY <2>1, <2>3, <2>4
<1>5. CASE WalkOwn \/ WalkOthers \/ Prepare \/ Interrupted \/ Mine \/ Continue
  <2>1. /\ group' = group
        /\ \/ pcM \in {"chosen", "own", "others"}
           \/ pcM' \in {"choose", "offered"}
    BY <1>5 DEF WalkOwn, WalkOthers, Prepare, Interrupted, Mine, Continue
  <2> QED BY <2>1 DEF GroupPays, FeeBlock
<1>6. CASE Accept \/ Apply
  BY <1>2, <1>6 DEF Accept, Apply, minerVars
<1>7. CASE UNCHANGED <<minerVars, head>>
  BY <1>2, <1>7 DEF minerVars
<1> QED BY <1>3, <1>4, <1>5, <1>6, <1>7, GroupSteps

(* The blocks of the peers and the own ones add one reward.                *)
LEMMA NewBlockRewards ==
  ASSUME TypeInv, SentBalanced, GroupPays, [Next]_vars, blocks' # blocks
  PROVE  \E q \in Nodes : \E txs \in Seq(Tx) : \E m \in {Me, Peer} :
           OneReward(txs) /\ blocks' = Append(blocks, Mined(q, txs, m))
<1>1. \/ \E q \in Nodes : \E txs \in SUBSET sent : PeerMines(q, SetToSeq(txs))
      \/ Mine
  BY ChainSteps DEF chainVars, Take, Descend, Reject, Accept, Apply, Tell, Forget, Return
<1>2. ASSUME NEW q \in Nodes, NEW txs \in SUBSET sent, PeerMines(q, SetToSeq(txs))
      PROVE  \E all \in Seq(Tx) : OneReward(all) /\ blocks' = Append(blocks, Mined(q, all, Peer))
  <2> DEFINE all == <<FeeBlock(Peer)>> \o SetToSeq(txs)
  <2>1. /\ all \in Seq(Tx) /\ Len(all) >= 1 /\ all[1] = FeeBlock(Peer)
        /\ \A k \in 2..Len(all) : all[k] \in sent
    BY PeerBlock DEF TypeInv, PoolInv
  <2>2. blocks' = Append(blocks, Mined(q, all, Peer))
    BY <1>2 DEF PeerMines
  <2> HIDE DEF all
  <2>3. OneReward(all)
    BY <2>1, FeeBlockPays DEF OneReward, SentBalanced
  <2> QED BY <2>1, <2>2, <2>3
<1>3. CASE Mine
  <2>1. blocks' = Append(blocks, Mined(base, group, Me)) /\ pcM = "mine"
    BY <1>3 DEF Mine
  <2>2. /\ Len(group) >= 1 /\ group[1] = FeeBlock(Me)
        /\ \A k \in 2..Len(group) : group[k] \in sent
    BY <2>1 DEF GroupPays
  <2>3. OneReward(group)
    BY <2>2, FeeBlockPays DEF OneReward, SentBalanced
  <2> QED BY <2>1, <2>3 DEF TypeInv, MinerType
<1> QED BY <1>1, <1>2, <1>3

(* A block that is mined adds one reward, and the others stay.             *)
LEMMA BlocksBalancedKept ==
  ASSUME TypeInv, SentBalanced, GroupPays, BlocksBalanced, [Next]_vars
  PROVE  BlocksBalanced'
<1>1. ASSUME NEW b \in Blocks
      PROVE  (/\ OneReward(Txs(b))
              /\ Unspent(b) = (Unspent(Parent(b)) \ Spent(Txs(b))) \cup OutputsOf(b, Txs(b))
              /\ IsFiniteSet(Unspent(b)))'
  <2>1. blocks'[b] = blocks[b]
    BY BlocksStay
  <2>2. Txs(b)' = Txs(b) /\ Parent(b)' = Parent(b)
    BY <2>1 DEF Txs, Parent
  <2>3. OneReward(Txs(b))'
    <3>1. PICK txs : txs = Txs(b)
      OBVIOUS
    <3>2. OneReward(txs)
      BY <3>1 DEF BlocksBalanced
    <3>3. OneReward(txs)' /\ Txs(b)' = txs
      BY <2>2, <3>1, <3>2, RewardStays
    <3> QED BY <3>3
  <2>4. b \in Nodes /\ Parent(b) \in Nodes
    BY BlockTxs
  <2>5. Unspent(b)' = Unspent(b)
    BY <2>4, NodesAsTheyWere
  <2>6. Unspent(Parent(b))' = Unspent(Parent(b))
    <3>1. PICK q : q = Parent(b)
      OBVIOUS
    <3>2. Unspent(q)' = Unspent(q) /\ Parent(b)' = q
      BY <2>2, <2>4, <3>1, NodesAsTheyWere
    <3> QED BY <3>1, <3>2
  <2>7. /\ Unspent(b) = (Unspent(Parent(b)) \ Spent(Txs(b))) \cup OutputsOf(b, Txs(b))
        /\ IsFiniteSet(Unspent(b))
    BY DEF BlocksBalanced
  <2>8. Spent(Txs(b))' = Spent(Txs(b)) /\ OutputsOf(b, Txs(b))' = OutputsOf(b, Txs(b))
    BY <2>2 DEF Spent, OutputsOf, Refs, Range1
  <2> QED BY <2>3, <2>5, <2>6, <2>7, <2>8
<1>2. CASE blocks' = blocks
  <2>1. Blocks' = Blocks
    BY <1>2 DEF Blocks
  <2> QED BY <1>1, <2>1 DEF BlocksBalanced
<1>3. CASE blocks' # blocks
  <2> DEFINE n == Len(blocks) + 1
  <2>1. PICK q \in Nodes, txs \in Seq(Tx), m \in {Me, Peer} :
           OneReward(txs) /\ blocks' = Append(blocks, Mined(q, txs, m))
    BY <1>3, NewBlockRewards
  <2>2. /\ Len(blocks') = n /\ Len(blocks) \in Nat /\ blocks'[n] = Mined(q, txs, m)
        /\ Unspent(q)' = Unspent(q)
    BY <2>1, MinedBlock DEF TypeInv
  <2>3. Blocks' = Blocks \cup {n} /\ n \in Nat /\ n # NoBlock
    BY <2>2 DEF Blocks, NoBlock
  <2>4. /\ blocks'[n].txs = txs /\ blocks'[n].parent = q
        /\ blocks'[n].unspent = (Unspent(q) \ Spent(txs)) \cup OutputsOf(n, txs)
    BY <2>2 DEF Mined
  <2>5. IsFiniteSet(blocks'[n].unspent)
    <3>1. IsFiniteSet(Unspent(q))
      BY UnspentValued DEF Valued
    <3>2. IsFiniteSet(Unspent(q) \ Spent(txs))
      BY <3>1, FS_Subset
    <3>3. IsFiniteSet(OutputsOf(n, txs))
      BY <2>3, OutputsFinite
    <3>4. IsFiniteSet((Unspent(q) \ Spent(txs)) \cup OutputsOf(n, txs))
      <4> HIDE DEF n
      <4> QED BY <3>2, <3>3, FS_Union
    <3> QED BY <2>4, <3>4
  <2>6. ASSUME NEW b, b = n
        PROVE  (/\ OneReward(Txs(b))
                /\ Unspent(b) = (Unspent(Parent(b)) \ Spent(Txs(b))) \cup OutputsOf(b, Txs(b))
                /\ IsFiniteSet(Unspent(b)))'
    <3>1. Txs(b)' = txs /\ Parent(b)' = q /\ Unspent(b)' = blocks'[n].unspent
      BY <2>3, <2>4, <2>6 DEF Txs, Parent, Unspent
    <3>2. OneReward(Txs(b))'
      <4>1. OneReward(txs)'
        BY <2>1, RewardStays
      <4> QED BY <3>1, <4>1
    <3>3. Unspent(Parent(b))' = Unspent(q)
      BY <2>2, <3>1
    <3>4. Spent(Txs(b))' = Spent(txs) /\ OutputsOf(b, Txs(b))' = OutputsOf(b, txs)
      BY <3>1 DEF Spent, OutputsOf, Refs, Range1
    <3> HIDE DEF n
    <3> QED BY <2>4, <2>5, <2>6, <3>1, <3>2, <3>3, <3>4
  <2> QED BY <1>1, <2>3, <2>6 DEF BlocksBalanced
<1> QED BY <1>2, <1>3

(* Only Accept verifies a block: one more reward than its parent.          *)
LEMMA MoneyKept ==
  ASSUME TypeInv, BlocksBalanced, MoneyIsHeight, [Next]_vars
  PROVE  MoneyIsHeight'
<1>1. ASSUME NEW b \in verified
      PROVE  Sum([r \in Unspent(b)' |-> Output(r)'.amount]) = BlockCount(b)' * Davidcoin
  <2>1. b \in Nodes
    BY DEF TypeInv, ChainInv, ChainType, Nodes, Blocks
  <2>2. Unspent(b)' = Unspent(b) /\ BlockCount(b)' = BlockCount(b)
    BY <2>1, NodesAsTheyWere
  <2>3. Unspent(b) \subseteq Known(Len(blocks))
    BY <2>1, UnspentExists DEF TypeInv
  <2>4. Sum([r \in Unspent(b) |-> Output(r)'.amount]) = Worth(Unspent(b))
    BY <2>3, WorthStays
  <2>5. Worth(Unspent(b)) = BlockCount(b) * Davidcoin
    BY DEF MoneyIsHeight, Worth
  <2> QED BY <2>2, <2>4, <2>5
<1>2. CASE verified' = verified
  BY <1>1, <1>2 DEF MoneyIsHeight
<1>3. CASE Accept
  <2>1. path # <<>> /\ blocks' = blocks /\ verified' = verified \cup {Current}
        /\ Parent(Current) \in ready /\ RefsSpendable(Unspent(Parent(Current)), Txs(Current))
    BY <1>3 DEF Accept, At, Acceptable, Txs
  <2>2. /\ Current \in Blocks /\ BlockCount(Current) = BlockCount(Parent(Current)) + 1
        /\ BlockCount(Parent(Current)) \in Nat
    BY <2>1, CurrentOk DEF TypeInv
  <2>3. Worth(Unspent(Current)) = Worth(Unspent(Parent(Current))) + Davidcoin
    BY <2>1, <2>2, BlockWorth
  <2>4. Worth(Unspent(Parent(Current))) = BlockCount(Parent(Current)) * Davidcoin
    <3>1. CASE Parent(Current) = NoBlock
      <4>1. Unspent(Parent(Current)) = {} /\ BlockCount(Parent(Current)) = 0
        BY <3>1 DEF Unspent, BlockCount
      <4>2. Worth({}) = 0
        BY SumOfNone DEF Worth
      <4> QED BY <4>1, <4>2, PoolAssumption
    <3>2. CASE Parent(Current) \in verified
      BY <3>2 DEF MoneyIsHeight, Worth
    <3> QED BY <2>1, <3>1, <3>2 DEF TypeInv, ChainInv, PlacesOk
  <2>5. Worth(Unspent(Current)) = BlockCount(Current) * Davidcoin
    <3>1. \A c \in Nat : (c + 1) * Davidcoin = c * Davidcoin + Davidcoin
      BY PoolAssumption
    <3> QED BY <2>2, <2>3, <2>4, <3>1
  <2>6. ASSUME NEW b \in verified'
        PROVE  (Sum([r \in Unspent(b) |-> Output(r).amount]) = BlockCount(b) * Davidcoin)'
    <3>1. CASE b \in verified
      BY <1>1, <3>1
    <3>2. CASE b = Current
      <4>1. Worth(Unspent(b)) = BlockCount(b) * Davidcoin
        BY <2>5, <3>2
      <4> QED BY <2>1, <4>1 DEF Worth, Unspent, Output, BlockCount
    <3> QED BY <2>1, <3>1, <3>2
  <2> QED BY <2>6 DEF MoneyIsHeight
<1>4. verified' = verified \/ Accept
  BY ChainSteps DEF chainVars, PeerMines, Mine, Take, Descend, Reject, Apply, Tell, Forget, Return
<1> QED BY <1>2, <1>3, <1>4

(* Along every verified chain the unspent outputs are worth one reward per *)
(* block: what a block spends it pays out again, the fee block adds the    *)
(* reward (BlockAddsReward), and payments neither make money nor lose it,  *)
(* since MakeTransaction pays the rest back.                               *)
THEOREM MoneyConserved == Spec => []MoneyIsHeight
<1>1. Init => MoneyInv
  <2> SUFFICES ASSUME Init PROVE MoneyInv
    OBVIOUS
  <2>1. SentBalanced /\ GroupPays /\ MoneyIsHeight
    BY DEF Init, SentBalanced, GroupPays, MoneyIsHeight
  <2>2. Blocks = {}
    BY DEF Init, Blocks
  <2> QED BY <2>1, <2>2 DEF MoneyInv, BlocksBalanced
<1>2. TypeInv /\ MoneyInv /\ [Next]_vars => MoneyInv'
  BY SentKept, GroupPaysKept, BlocksBalancedKept, MoneyKept DEF MoneyInv
<1>3. MoneyInv => MoneyIsHeight
  BY DEF MoneyInv
<1> QED BY <1>1, <1>2, <1>3, TypeInvAlways, PTL DEF Spec

=============================================================================
