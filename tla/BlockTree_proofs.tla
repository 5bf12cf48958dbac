-------------------------- MODULE BlockTree_proofs --------------------------
(***************************************************************************)
(* The tree and the orphan chains have no gaps, for every tree of headers, *)
(* every way they arrive and any number of concurrent handlers.            *)
(***************************************************************************)
EXTENDS BlockTree, TLAPS

-----------------------------------------------------------------------------
(* The inductive invariant.                                                *)

(* The orphan chain's root has its parent in the tree.                     *)
Linked(c) == chains[c].nodes # {} /\ PrevHash[chains[c].root] \in tree

(* What a handler found out before it let go of the locks is still true    *)
(* when it acts on it: neither the tree nor any orphan chain loses a node, *)
(* not even a chain that has been joined; and a chain that is linked to    *)
(* the tree stays linked, since its next root is in the tree already.      *)
PlacesOk ==
  \A h \in Handlers :
    /\ pc[h] = "insert" => PrevHash[BlockOf[h]] \in tree
    /\ pc[h] = "join" => BlockOf[h] \in tree
    /\ pc[h] \in {"extend", "extendInsert"} => PrevHash[BlockOf[h]] \in chains[target[h]].nodes
    /\ pc[h] = "extendHead" => BlockOf[h] \in chains[target[h]].nodes
    /\ pc[h] \in {"copy", "measure", "remove", "tip"} => Linked(target[h])

(* A handler creates its orphan chain last, and only such chains are       *)
(* listed.                                                                 *)
CreatedOk ==
  /\ \A c \in Handlers : pc[c] # "done" => chains[c].nodes = {}
  /\ \A c \in Listed : chains[c].nodes # {}

(* An orphan chain is one tree, and its root is its lowest block.          *)
Connected(chain) ==
  /\ chain.root \in chain.nodes /\ chain.root # Genesis
  /\ chain.head \in chain.nodes
  /\ \A b \in chain.nodes \ {chain.root} : PrevHash[b] \in chain.nodes
  /\ \A b \in chain.nodes : BlockCount[chain.root] <= BlockCount[b]

ChainsOk == \A c \in Handlers : chains[c].nodes # {} => Connected(chains[c])

IInv == TypeOK /\ Genesis \in tree /\ TreeClosed /\ PlacesOk /\ CreatedOk /\ ChainsOk

-----------------------------------------------------------------------------
(* A block is one higher than its parent, and what handlers handle is not  *)
(* the genesis.                                                            *)
LEMMA HeaderFacts ==
  /\ Genesis \in Blocks
  /\ \A b \in Blocks : PrevHash[b] \in Blocks /\ BlockCount[b] \in Nat
  /\ \A b \in Blocks \ {Genesis} : BlockCount[b] = BlockCount[PrevHash[b]] + 1
  BY HeadersAssumption

LEMMA HandledBlocks ==
  ASSUME TypeOK, NEW h \in Handlers
  PROVE  BlockOf[h] \in Blocks \ {Genesis}
  BY HandlersAssumption DEF TypeOK, BlockOf

LEMMA ChainFields ==
  ASSUME TypeOK, NEW c \in Handlers
  PROVE  /\ chains[c] \in [root : Blocks, nodes : SUBSET Blocks, head : Blocks]
         /\ chains[c].root \in Blocks /\ chains[c].nodes \subseteq Blocks
         /\ chains[c].head \in Blocks
  BY DEF TypeOK

(* Listed are the chains some index of orphanBlockChains leads to.         *)
LEMMA ListedFacts ==
  ASSUME TypeOK
  PROVE  /\ Listed \subseteq Handlers
         /\ \A c \in Handlers : \A S : IsFirst(c, S) => c \in S /\ c \in Listed
  BY DEF TypeOK, Listed, ToSet, IsFirst, FirstAt

(* Taking a chain out of orphanBlockChains brings no other in, whatever    *)
(* index and length it is removed by.                                      *)
LEMMA SwapRemoved ==
  ASSUME TypeOK, NEW i \in DOMAIN orphans, NEW l \in DOMAIN orphans
  PROVE  /\ SwapRemove(i, l) \in Seq(Handlers)
         /\ ToSet(SwapRemove(i, l)) \subseteq Listed
<1> DEFINE moved == [orphans EXCEPT ![i] = orphans[l]]
<1>1. orphans \in Seq(Handlers)
  BY DEF TypeOK
<1>2. Len(orphans) \in Nat /\ DOMAIN orphans = 1..Len(orphans)
  BY <1>1
<1>3. orphans[l] \in Handlers
  BY <1>1
<1>4. moved \in Seq(Handlers) /\ Len(moved) = Len(orphans)
  BY <1>1, <1>3
<1>5. \A j \in 1..Len(orphans) : moved[j] \in Listed
  BY <1>1, <1>2 DEF Listed, ToSet
<1>6. SwapRemove(i, l) = SubSeq(moved, 1, l - 1)
  BY DEF SwapRemove
<1>7. l \in Nat /\ 1 <= l /\ l <= Len(moved)
  BY <1>2, <1>4
<1> HIDE DEF moved
<1>8. /\ SwapRemove(i, l) \in Seq(Handlers)
      /\ Len(SwapRemove(i, l)) = l - 1
      /\ \A j \in 1..(l - 1) : SwapRemove(i, l)[j] = moved[j]
  BY <1>4, <1>6, <1>7
<1>9. \A j \in DOMAIN SwapRemove(i, l) : SwapRemove(i, l)[j] \in Listed
  BY <1>4, <1>5, <1>7, <1>8
<1> QED
  BY <1>8, <1>9 DEF ToSet

-----------------------------------------------------------------------------
(* Orphan chains stay connected as they are made and extended.             *)

LEMMA NewChainConnected ==
  ASSUME NEW b \in Blocks \ {Genesis}
  PROVE  Connected(NewChain(b))
  BY HeaderFacts DEF Connected, NewChain

LEMMA NewRootConnected ==
  ASSUME NEW chain \in [root : Blocks, nodes : SUBSET Blocks, head : Blocks],
         Connected(chain), PrevHash[chain.root] # Genesis
  PROVE  Connected(WithNewRoot(chain, PrevHash[chain.root]))
  BY HeaderFacts DEF Connected, WithNewRoot

LEMMA ExtendedConnected ==
  ASSUME NEW chain \in [root : Blocks, nodes : SUBSET Blocks, head : Blocks],
         Connected(chain), NEW b \in Blocks \ {Genesis}, PrevHash[b] \in chain.nodes
  PROVE  Connected([chain EXCEPT !.nodes = @ \cup {b}])
  BY HeaderFacts DEF Connected

-----------------------------------------------------------------------------
(* Steps that leave tree, chains and their list alone.                     *)

LEMMA InitIInv == Init => IInv
<1> SUFFICES ASSUME Init PROVE IInv
  OBVIOUS
<1> USE DEF Init
<1>1. TypeOK
  BY HeaderFacts DEF TypeOK, NoChain
<1>2. Genesis \in tree /\ TreeClosed
  BY HeadersAssumption DEF TreeClosed
<1>3. PlacesOk /\ CreatedOk /\ ChainsOk
  BY DEF PlacesOk, CreatedOk, ChainsOk, NoChain, Listed, ToSet
<1> QED
  BY <1>1, <1>2, <1>3 DEF IInv

(* A step of one handler that only changes where it stands.                *)
LEMMA MovePreserves ==
  ASSUME IInv, UNCHANGED <<arrival, tree, chains, orphans, requested, offered>>,
         NEW h \in Handlers, TypeOK', head' = head,
         \A k \in Handlers \ {h} : pc'[k] = pc[k] /\ target'[k] = target[k],
         pc[h] # "done",
         pc'[h] = "insert" => PrevHash[BlockOf[h]] \in tree,
         pc'[h] # "join",
         pc'[h] \in {"extend", "extendInsert"} =>
           PrevHash[BlockOf[h]] \in chains[target'[h]].nodes,
         pc'[h] # "extendHead",
         pc'[h] \in {"copy", "measure", "remove", "tip"} => Linked(target'[h])
  PROVE  IInv'
<1>1. BlockOf' = BlockOf /\ Listed' = Listed
  BY DEF BlockOf, Listed
<1>2. PlacesOk'
  BY <1>1 DEF IInv, PlacesOk, Linked
<1>3. CreatedOk'
  BY <1>1 DEF IInv, CreatedOk
<1>4. TreeClosed' /\ ChainsOk'
  BY DEF IInv, TreeClosed, ChainsOk
<1> QED
  BY <1>2, <1>3, <1>4 DEF IInv

LEMMA BeginPreserves ==
  ASSUME IInv, UNCHANGED arrival, NEW h \in Handlers, Begin(h)
  PROVE  IInv'
<1>1. TypeOK'
  BY DEF IInv, TypeOK, Begin, Goto
<1>2. /\ pc'[h] \in {"done", "lookup"} /\ pc[h] = "todo"
      /\ \A k \in Handlers \ {h} : pc'[k] = pc[k]
  BY DEF IInv, TypeOK, Begin, Goto
<1> QED
  BY <1>1, <1>2, MovePreserves DEF Begin

LEMMA LookupPreserves ==
  ASSUME IInv, UNCHANGED arrival, NEW h \in Handlers, Lookup(h)
  PROVE  IInv'
<1>1. TypeOK'
  BY DEF IInv, TypeOK, Lookup, Goto
<1>2. /\ \/ pc'[h] = "scan"
         \/ pc'[h] = "insert" /\ PrevHash[BlockOf[h]] \in tree
      /\ pc[h] = "lookup"
      /\ \A k \in Handlers \ {h} : pc'[k] = pc[k]
  BY DEF IInv, TypeOK, Lookup, Goto
<1> QED
  BY <1>1, <1>2, MovePreserves DEF Lookup

LEMMA FindParentPreserves ==
  ASSUME IInv, UNCHANGED arrival, NEW h \in Handlers, FindParent(h)
  PROVE  IInv'
<1>1. PICK c \in Handlers : IsFirst(c, ChainsBelow(BlockOf[h])) /\ target' = [target EXCEPT ![h] = c]
  BY DEF FindParent
<1>2. PrevHash[BlockOf[h]] \in chains[c].nodes
  BY <1>1, ListedFacts DEF IInv, ChainsBelow
<1>3. TypeOK'
  BY <1>1 DEF IInv, TypeOK, FindParent, Goto
<1>4. /\ pc[h] = "scan" /\ pc'[h] = "extend" /\ target'[h] = c
      /\ \A k \in Handlers \ {h} : pc'[k] = pc[k] /\ target'[k] = target[k]
  BY <1>1 DEF IInv, TypeOK, FindParent, CanScan, Goto
<1> QED
  BY <1>2, <1>3, <1>4, MovePreserves DEF FindParent

LEMMA FindNothingPreserves ==
  ASSUME IInv, UNCHANGED arrival, NEW h \in Handlers, FindNothing(h)
  PROVE  IInv'
<1>1. TypeOK'
  BY ListedFacts DEF IInv, TypeOK, FindNothing, Goto
<1>2. /\ pc[h] = "scan" /\ pc'[h] = "append"
      /\ \A k \in Handlers \ {h} : pc'[k] = pc[k]
  BY DEF IInv, TypeOK, FindNothing, CanScan, Goto
<1> QED
  BY <1>1, <1>2, MovePreserves DEF FindNothing

-----------------------------------------------------------------------------
(* Steps that change one orphan chain.  No chain loses a node, so what the *)
(* other handlers rely on stays true.                                      *)

LEMMA ChainGrows ==
  ASSUME IInv, UNCHANGED arrival, TypeOK', UNCHANGED <<tree, head, offered>>,
         NEW h \in Handlers, NEW c \in Handlers,
         \A d \in Handlers \ {c} : chains'[d] = chains[d],
         chains[c].nodes \subseteq chains'[c].nodes,
         Connected(chains'[c]), pc'[c] = "done",
         Linked(c) => Linked(c)',
         \A k \in Handlers \ {h} : pc'[k] = pc[k] /\ target'[k] = target[k],
         pc[h] # "done",
         pc'[h] \in {"done", "extendHead"},
         pc'[h] = "extendHead" => BlockOf[h] \in chains'[target'[h]].nodes,
         Listed' \subseteq Listed \cup {c}
  PROVE  IInv'
<1>1. BlockOf' = BlockOf
  BY DEF BlockOf
<1>2. \A k \in Handlers : chains[k].nodes \subseteq chains'[k].nodes
  OBVIOUS
<1>3. \A k \in Handlers : Linked(k) => Linked(k)'
  BY DEF Linked
<1>4. PlacesOk'
  <2> SUFFICES ASSUME NEW k \in Handlers
               PROVE  /\ pc'[k] = "insert" => PrevHash[BlockOf[k]] \in tree'
                      /\ pc'[k] = "join" => BlockOf[k] \in tree'
                      /\ pc'[k] \in {"extend", "extendInsert"} =>
                           PrevHash[BlockOf[k]] \in chains'[target'[k]].nodes
                      /\ pc'[k] = "extendHead" => BlockOf[k] \in chains'[target'[k]].nodes
                      /\ pc'[k] \in {"copy", "measure", "remove", "tip"} => Linked(target[k])'
    BY <1>1 DEF PlacesOk
  <2>1. CASE k = h
    BY <2>1
  <2>2. CASE k # h
    <3>1. pc'[k] = pc[k] /\ target'[k] = target[k] /\ target[k] \in Handlers
      BY <2>2 DEF IInv, TypeOK
    <3> QED
      BY <1>2, <1>3, <3>1 DEF IInv, PlacesOk, Linked
  <2> QED
    BY <2>1, <2>2
<1>5. CreatedOk'
  <2>1. \A d \in Handlers : pc'[d] # "done" => d # c /\ pc[d] # "done"
    OBVIOUS
  <2>2. chains'[c].nodes # {}
    BY DEF Connected
  <2>3. \A d \in Listed : d # c => chains'[d].nodes # {}
    BY ListedFacts DEF IInv, CreatedOk
  <2> QED
    BY <2>1, <2>2, <2>3 DEF IInv, CreatedOk
<1>6. ChainsOk'
  BY DEF IInv, ChainsOk, Connected
<1>7. TreeClosed'
  <2> SUFFICES ASSUME NEW o \in offered \ tree
               PROVE  \E d \in Handlers : o \in chains'[d].nodes /\ PrevHash[chains'[d].root] \in tree
    BY DEF IInv, TreeClosed
  <2>1. PICK d \in Handlers : o \in chains[d].nodes /\ PrevHash[chains[d].root] \in tree
    BY DEF IInv, TreeClosed
  <2>2. Linked(d)
    BY <2>1 DEF Linked
  <2> QED
    BY <1>2, <1>3, <2>1, <2>2 DEF Linked
<1> QED
  BY <1>4, <1>5, <1>6, <1>7 DEF IInv

LEMMA FindChildPreserves ==
  ASSUME IInv, UNCHANGED arrival, NEW h \in Handlers, FindChild(h)
  PROVE  IInv'
<1>1. PICK c \in Handlers :
        /\ IsFirst(c, ChainsAbove(BlockOf[h]))
        /\ chains' = [chains EXCEPT ![c] = WithNewRoot(@, BlockOf[h])]
  BY DEF FindChild
<1>2. c \in Listed /\ PrevHash[chains[c].root] = BlockOf[h]
  BY <1>1, ListedFacts DEF IInv, ChainsAbove
<1>3. BlockOf[h] \in Blocks \ {Genesis} /\ PrevHash[BlockOf[h]] \in Blocks
  BY HandledBlocks, HeaderFacts DEF IInv
<1>4. /\ pc[h] = "scan" /\ pc'[h] = "done"
      /\ \A k \in Handlers \ {h} : pc'[k] = pc[k]
      /\ UNCHANGED <<tree, head, orphans, offered, target>>
  BY DEF IInv, TypeOK, FindChild, CanScan, Goto
<1>5. /\ chains'[c] = WithNewRoot(chains[c], BlockOf[h])
      /\ \A d \in Handlers \ {c} : chains'[d] = chains[d]
  BY <1>1 DEF IInv, TypeOK
<1>6. chains[c] \in [root : Blocks, nodes : SUBSET Blocks, head : Blocks]
  BY ChainFields DEF IInv
<1>7. Connected(chains'[c])
  <2>1. Connected(chains[c])
    BY <1>2 DEF IInv, CreatedOk, ChainsOk
  <2> QED
    BY <1>2, <1>3, <1>5, <1>6, <2>1, NewRootConnected
<1>8. chains'[c] \in [root : Blocks, nodes : SUBSET Blocks, head : Blocks]
      /\ chains[c].nodes \subseteq chains'[c].nodes
  <2>1. chains'[c] = [root |-> BlockOf[h], nodes |-> chains[c].nodes \cup {BlockOf[h]},
                      head |-> chains[c].head]
    BY <1>5, <1>6 DEF WithNewRoot
  <2>2. chains[c].nodes \cup {BlockOf[h]} \in SUBSET Blocks /\ chains[c].head \in Blocks
    BY <1>3, <1>6
  <2> QED BY <1>3, <2>1, <2>2
<1>9. TypeOK'
  <2>1. chains' \in [Handlers -> [root : Blocks, nodes : SUBSET Blocks, head : Blocks]]
    BY <1>1, <1>5, <1>8 DEF IInv, TypeOK
  <2> QED
    BY <1>3, <2>1 DEF IInv, TypeOK, FindChild, Goto, AskForParent
<1>10. pc[c] = "done" /\ c # h
  BY <1>2, <1>4 DEF IInv, CreatedOk
<1>11. Listed' = Listed
  BY <1>4 DEF Listed
<1>12. Linked(c) => Linked(c)'
  BY <1>2, <1>4, <1>5, <1>6 DEF IInv, TreeClosed, Linked, WithNewRoot
<1> QED
  BY <1>4, <1>5, <1>7, <1>8, <1>9, <1>10, <1>11, <1>12, ChainGrows

LEMMA AppendOrphanPreserves ==
  ASSUME IInv, UNCHANGED arrival, NEW h \in Handlers, AppendOrphan(h)
  PROVE  IInv'
<1>1. BlockOf[h] \in Blocks \ {Genesis} /\ PrevHash[BlockOf[h]] \in Blocks
  BY HandledBlocks, HeaderFacts DEF IInv
<1>2. /\ pc[h] = "append" /\ pc'[h] = "done"
      /\ \A k \in Handlers \ {h} : pc'[k] = pc[k]
      /\ UNCHANGED <<tree, head, offered, target>>
      /\ chains'[h] = NewChain(BlockOf[h])
      /\ \A d \in Handlers \ {h} : chains'[d] = chains[d]
  BY DEF IInv, TypeOK, AppendOrphan, Goto
<1>3. chains[h].nodes = {}
  BY <1>2 DEF IInv, CreatedOk
<1>4. Connected(chains'[h])
  BY <1>1, <1>2, NewChainConnected
<1>5. TypeOK'
  <2>1. chains' \in [Handlers -> [root : Blocks, nodes : SUBSET Blocks, head : Blocks]]
    BY <1>1 DEF IInv, TypeOK, AppendOrphan, NewChain
  <2>2. orphans' \in Seq(Handlers)
    BY DEF IInv, TypeOK, AppendOrphan
  <2> QED
    BY <1>1, <2>1, <2>2 DEF IInv, TypeOK, AppendOrphan, Goto, AskForParent
<1>6. Listed' \subseteq Listed \cup {h}
  <2>1. orphans \in Seq(Handlers) /\ orphans' = Append(orphans, h)
    BY DEF IInv, TypeOK, AppendOrphan
  <2> QED
    BY <2>1 DEF Listed, ToSet
<1>7. ~Linked(h)
  BY <1>3 DEF Linked
<1> QED
  BY <1>2, <1>3, <1>4, <1>5, <1>6, <1>7, ChainGrows

LEMMA ExtendBeginPreserves ==
  ASSUME IInv, UNCHANGED arrival, NEW h \in Handlers, ExtendBegin(h)
  PROVE  IInv'
<1>1. /\ pc[h] = "extend" /\ target[h] \in Handlers
      /\ PrevHash[BlockOf[h]] \in chains[target[h]].nodes
  BY DEF IInv, TypeOK, PlacesOk, ExtendBegin
<1>2. chains[target[h]].head \in Blocks
  BY <1>1, ChainFields DEF IInv
<1>3. TypeOK'
  BY <1>2 DEF IInv, TypeOK, ExtendBegin, Goto
<1>4. /\ pc'[h] \in {"done", "extendInsert"} /\ target' = target
      /\ \A k \in Handlers \ {h} : pc'[k] = pc[k]
  BY DEF IInv, TypeOK, ExtendBegin, Goto
<1> QED
  BY <1>1, <1>3, <1>4, MovePreserves DEF ExtendBegin

LEMMA ExtendInsertPreserves ==
  ASSUME IInv, UNCHANGED arrival, NEW h \in Handlers, ExtendInsert(h)
  PROVE  IInv'
<1> DEFINE c == target[h]
<1>1. c \in Handlers /\ pc[h] = "extendInsert" /\ PrevHash[BlockOf[h]] \in chains[c].nodes
  BY DEF IInv, TypeOK, PlacesOk, ExtendInsert
<1>2. BlockOf[h] \in Blocks \ {Genesis}
  BY HandledBlocks DEF IInv
<1>3. pc[c] = "done" /\ c # h
  BY <1>1 DEF IInv, CreatedOk
<1>4. Connected(chains[c])
  BY <1>1 DEF IInv, ChainsOk
<1>5. chains[c] \in [root : Blocks, nodes : SUBSET Blocks, head : Blocks]
  BY <1>1, ChainFields DEF IInv
<1>6. /\ chains' = [chains EXCEPT ![c] = [chains[c] EXCEPT !.nodes = @ \cup {BlockOf[h]}]]
      /\ pc' = [pc EXCEPT ![h] = "extendHead"]
      /\ UNCHANGED <<tree, head, orphans, requested, offered, seen, target, slot, size, locked>>
  BY <1>1 DEF IInv, TypeOK, ExtendInsert, Goto
<1>7. /\ chains'[c] = [chains[c] EXCEPT !.nodes = @ \cup {BlockOf[h]}]
      /\ \A d \in Handlers \ {c} : chains'[d] = chains[d]
  BY <1>1, <1>6 DEF IInv, TypeOK
<1>8. /\ chains'[c] \in [root : Blocks, nodes : SUBSET Blocks, head : Blocks]
      /\ chains[c].nodes \subseteq chains'[c].nodes /\ BlockOf[h] \in chains'[c].nodes
      /\ chains'[c].root = chains[c].root
  BY <1>2, <1>5, <1>7
<1>9. Connected(chains'[c])
  BY <1>1, <1>2, <1>4, <1>5, <1>7, ExtendedConnected
<1>10. TypeOK'
  <2>1. chains' \in [Handlers -> [root : Blocks, nodes : SUBSET Blocks, head : Blocks]]
    BY <1>1, <1>6, <1>7, <1>8 DEF IInv, TypeOK
  <2> QED
    BY <1>6, <2>1 DEF IInv, TypeOK
<1>11. /\ pc'[h] = "extendHead" /\ pc'[c] = "done"
       /\ \A k \in Handlers \ {h} : pc'[k] = pc[k]
  BY <1>1, <1>3, <1>6 DEF IInv, TypeOK
<1>12. Listed' = Listed
  BY <1>6 DEF Listed
<1>13. Linked(c) => Linked(c)'
  BY <1>6, <1>8 DEF Linked
<1> QED
  BY <1>1, <1>6, <1>7, <1>8, <1>9, <1>10, <1>11, <1>12, <1>13, ChainGrows

LEMMA ExtendHeadPreserves ==
  ASSUME IInv, UNCHANGED arrival, NEW h \in Handlers, ExtendHead(h)
  PROVE  IInv'
<1> DEFINE c == target[h]
<1>1. c \in Handlers /\ pc[h] = "extendHead" /\ BlockOf[h] \in chains[c].nodes
  BY DEF IInv, TypeOK, PlacesOk, ExtendHead
<1>2. BlockOf[h] \in Blocks
  BY HandledBlocks DEF IInv
<1>3. pc[c] = "done" /\ c # h
  BY <1>1 DEF IInv, CreatedOk
<1>4. Connected(chains[c])
  BY <1>1 DEF IInv, ChainsOk
<1>5. chains[c] \in [root : Blocks, nodes : SUBSET Blocks, head : Blocks]
  BY <1>1, ChainFields DEF IInv
<1>6. /\ pc' = [pc EXCEPT ![h] = "done"]
      /\ UNCHANGED <<tree, head, orphans, requested, offered, seen, target, slot, size, locked>>
  BY DEF ExtendHead, Goto
<1>7. /\ pc'[h] = "done" /\ pc'[c] = "done"
      /\ \A k \in Handlers \ {h} : pc'[k] = pc[k]
  BY <1>1, <1>3, <1>6 DEF IInv, TypeOK
<1>8. /\ \A d \in Handlers \ {c} : chains'[d] = chains[d]
      /\ \/ chains'[c] = chains[c]
         \/ chains'[c] = [chains[c] EXCEPT !.head = BlockOf[h]]
      /\ DOMAIN chains' = Handlers /\ chains' = [d \in Handlers |-> chains'[d]]
  BY <1>1 DEF IInv, TypeOK, ExtendHead
<1>9. /\ chains'[c] \in [root : Blocks, nodes : SUBSET Blocks, head : Blocks]
      /\ chains'[c].nodes = chains[c].nodes /\ chains'[c].root = chains[c].root
      /\ chains'[c].head \in {chains[c].head, BlockOf[h]}
  BY <1>2, <1>5, <1>8
<1>10. Connected(chains'[c])
  BY <1>1, <1>4, <1>9 DEF Connected
<1>11. TypeOK'
  <2>1. chains' \in [Handlers -> [root : Blocks, nodes : SUBSET Blocks, head : Blocks]]
    BY <1>8, <1>9 DEF IInv, TypeOK
  <2> QED
    BY <1>6, <2>1 DEF IInv, TypeOK
<1>12. Listed' = Listed
  BY <1>6 DEF Listed
<1>13. Linked(c) => Linked(c)'
  BY <1>6, <1>9 DEF Linked
<1> QED
  BY <1>1, <1>6, <1>7, <1>8, <1>9, <1>10, <1>11, <1>12, <1>13, ChainGrows

-----------------------------------------------------------------------------
(* Steps that let the tree grow.                                           *)

LEMMA TreeGrows ==
  ASSUME IInv, UNCHANGED <<arrival, chains, target>>, TypeOK', tree \subseteq tree',
         \A b \in tree' \ tree : PrevHash[b] \in tree',
         \A o \in offered' \ offered :
           o \in tree' \/ (\E c \in Handlers : o \in chains[c].nodes /\ Linked(c)),
         Listed' \subseteq Listed,
         \A k \in Handlers : pc'[k] # pc[k] =>
           /\ pc[k] # "done"
           /\ \/ pc'[k] \in {"done", "panic"}
              \/ pc'[k] = "join" /\ BlockOf[k] \in tree'
              \/ pc'[k] \in {"measure", "remove", "tip"} /\ Linked(target[k])
  PROVE  IInv'
<1>1. BlockOf' = BlockOf
  BY DEF BlockOf
<1>2. \A c \in Handlers : Linked(c) => Linked(c)'
  BY DEF Linked
<1>3. PlacesOk'
  <2> SUFFICES ASSUME NEW k \in Handlers
               PROVE  /\ pc'[k] = "insert" => PrevHash[BlockOf[k]] \in tree'
                      /\ pc'[k] = "join" => BlockOf[k] \in tree'
                      /\ pc'[k] \in {"extend", "extendInsert"} =>
                           PrevHash[BlockOf[k]] \in chains[target[k]].nodes
                      /\ pc'[k] = "extendHead" => BlockOf[k] \in chains[target[k]].nodes
                      /\ pc'[k] \in {"copy", "measure", "remove", "tip"} => Linked(target[k])'
    BY <1>1 DEF PlacesOk
  <2>1. target[k] \in Handlers
    BY DEF IInv, TypeOK
  <2> QED
    BY <1>2, <2>1 DEF IInv, PlacesOk, Linked
<1>4. CreatedOk'
  BY DEF IInv, CreatedOk
<1>5. TreeClosed'
  BY DEF IInv, TreeClosed, Linked
<1>6. ChainsOk'
  BY DEF IInv, ChainsOk
<1> QED
  BY <1>3, <1>4, <1>5, <1>6 DEF IInv

LEMMA InsertPreserves ==
  ASSUME IInv, UNCHANGED arrival, NEW h \in Handlers, Insert(h)
  PROVE  IInv'
<1>1. BlockOf[h] \in Blocks /\ PrevHash[BlockOf[h]] \in tree
  BY HandledBlocks DEF IInv, PlacesOk, Insert
<1>2. TypeOK'
  BY <1>1 DEF IInv, TypeOK, Insert, Goto
<1>3. /\ tree' = tree \cup {BlockOf[h]} /\ pc[h] = "insert" /\ pc'[h] = "join"
      /\ \A k \in Handlers \ {h} : pc'[k] = pc[k]
      /\ UNCHANGED <<chains, target, orphans, offered>>
  BY DEF IInv, TypeOK, Insert, Goto
<1>4. \A b \in tree' \ tree : PrevHash[b] \in tree'
  BY <1>1, <1>3
<1>5. Listed' = Listed
  BY <1>3 DEF Listed
<1> QED
  BY <1>2, <1>3, <1>4, <1>5, TreeGrows

LEMMA JoinOrphansPreserves ==
  ASSUME IInv, UNCHANGED arrival, NEW h \in Handlers, JoinOrphans(h)
  PROVE  IInv'
<1>1. PICK i \in DOMAIN orphans :
        /\ FirstAt(i, ChainsAbove(BlockOf[h]))
        /\ slot' = [slot EXCEPT ![h] = i]
        /\ target' = [target EXCEPT ![h] = orphans[i]]
  BY DEF JoinOrphans
<1> DEFINE c == orphans[i]
<1>2. c \in Listed /\ PrevHash[chains[c].root] = BlockOf[h]
  BY <1>1 DEF FirstAt, ChainsAbove
<1>3. c \in Handlers /\ i \in Nat
  BY <1>1 DEF IInv, TypeOK
<1>4. Linked(c)
  BY <1>2 DEF IInv, PlacesOk, CreatedOk, JoinOrphans, Linked
<1>5. TypeOK'
  BY <1>1, <1>3 DEF IInv, TypeOK, JoinOrphans, Goto
<1>6. /\ pc[h] = "join" /\ pc'[h] = "copy" /\ target'[h] = c
      /\ \A k \in Handlers \ {h} : pc'[k] = pc[k] /\ target'[k] = target[k]
  BY <1>1 DEF IInv, TypeOK, JoinOrphans, Goto
<1> QED
  BY <1>4, <1>5, <1>6, MovePreserves DEF JoinOrphans

LEMMA CopyChainPreserves ==
  ASSUME IInv, UNCHANGED arrival, NEW h \in Handlers, CopyChain(h)
  PROVE  IInv'
<1> DEFINE c == target[h]
<1>1. c \in Handlers /\ Linked(c)
  BY DEF IInv, TypeOK, PlacesOk, CopyChain
<1>2. Connected(chains[c])
  BY <1>1 DEF IInv, ChainsOk, Linked
<1>3. chains[c].nodes \subseteq Blocks
  BY <1>1, ChainFields DEF IInv
<1>4. TypeOK'
  BY <1>3 DEF IInv, TypeOK, CopyChain, Goto
<1>5. /\ pc[h] = "copy" /\ pc'[h] = "measure" /\ tree' = tree \cup chains[c].nodes
      /\ \A k \in Handlers \ {h} : pc'[k] = pc[k]
      /\ UNCHANGED <<chains, target, orphans, offered>>
  BY DEF IInv, TypeOK, CopyChain, Goto
<1>6. \A b \in tree' \ tree : PrevHash[b] \in tree'
  BY <1>1, <1>2, <1>5 DEF Connected, Linked
<1>7. Listed' = Listed
  BY <1>5 DEF Listed
<1> QED
  BY <1>1, <1>4, <1>5, <1>6, <1>7, TreeGrows

LEMMA MeasureListPreserves ==
  ASSUME IInv, UNCHANGED arrival, NEW h \in Handlers, MeasureList(h)
  PROVE  IInv'
<1>1. Linked(target[h])
  BY DEF IInv, PlacesOk, MeasureList
<1>2. Len(orphans) \in Nat
  BY DEF IInv, TypeOK
<1>3. TypeOK'
  BY <1>2 DEF IInv, TypeOK, MeasureList, Goto
<1>4. /\ pc[h] = "measure" /\ pc'[h] = "remove"
      /\ \A k \in Handlers \ {h} : pc'[k] = pc[k]
  BY DEF IInv, TypeOK, MeasureList, Goto
<1> QED
  BY <1>1, <1>3, <1>4, MovePreserves DEF MeasureList

LEMMA RemoveChainPreserves ==
  ASSUME IInv, UNCHANGED arrival, NEW h \in Handlers, RemoveChain(h)
  PROVE  IInv'
<1>1. Linked(target[h])
  BY DEF IInv, PlacesOk, RemoveChain
<1>2. orphans' \in Seq(Handlers) /\ Listed' \subseteq Listed
  <2>1. CASE {slot[h], size[h]} \subseteq DOMAIN orphans
    BY <2>1, SwapRemoved DEF IInv, RemoveChain, Listed
  <2>2. CASE ~({slot[h], size[h]} \subseteq DOMAIN orphans)
    BY <2>2 DEF IInv, TypeOK, RemoveChain, Listed
  <2> QED
    BY <2>1, <2>2
<1>3. /\ pc[h] = "remove" /\ pc'[h] \in {"tip", "panic"}
      /\ \A k \in Handlers \ {h} : pc'[k] = pc[k]
      /\ pc' \in [Handlers -> {"tip", "panic"} \cup {pc[k] : k \in Handlers}]
      /\ UNCHANGED <<tree, head, chains, requested, offered, seen, target, slot, size, locked>>
  BY DEF IInv, TypeOK, RemoveChain, Goto
<1>4. TypeOK'
  BY <1>2, <1>3 DEF IInv, TypeOK
<1> QED
  BY <1>1, <1>2, <1>3, <1>4, TreeGrows

LEMMA OfferTipPreserves ==
  ASSUME IInv, UNCHANGED arrival, NEW h \in Handlers, OfferTip(h)
  PROVE  IInv'
<1> DEFINE c == target[h]
<1>1. c \in Handlers /\ Linked(c)
  BY DEF IInv, TypeOK, PlacesOk, OfferTip
<1>2. chains[c].head \in chains[c].nodes
  BY <1>1 DEF IInv, ChainsOk, Connected, Linked
<1>3. chains[c].head \in Blocks
  BY <1>1, ChainFields DEF IInv
<1>4. offered' \subseteq offered \cup {chains[c].head}
  BY DEF OfferTip, Offer
<1>5. TypeOK'
  BY <1>3, <1>4 DEF IInv, TypeOK, OfferTip, Goto
<1>6. /\ pc[h] = "tip" /\ pc'[h] = "done"
      /\ \A k \in Handlers \ {h} : pc'[k] = pc[k]
      /\ UNCHANGED <<tree, chains, target, orphans>>
  BY DEF IInv, TypeOK, OfferTip, Goto
<1>7. Listed' = Listed
  BY <1>6 DEF Listed
<1> QED
  BY <1>1, <1>2, <1>4, <1>5, <1>6, <1>7, TreeGrows

LEMMA JoinNothingPreserves ==
  ASSUME IInv, UNCHANGED arrival, NEW h \in Handlers, JoinNothing(h)
  PROVE  IInv'
<1>1. BlockOf[h] \in tree
  BY DEF IInv, PlacesOk, JoinNothing
<1>2. offered' \subseteq offered \cup {BlockOf[h]}
  BY DEF JoinNothing, Offer
<1>3. UNCHANGED tree
  BY DEF JoinNothing
<1>4. TypeOK'
  BY <1>1, <1>2 DEF IInv, TypeOK, JoinNothing, Goto
<1>5. /\ pc[h] = "join" /\ pc'[h] = "done"
      /\ \A k \in Handlers \ {h} : pc'[k] = pc[k]
      /\ UNCHANGED <<tree, chains, target, orphans>>
  BY DEF IInv, TypeOK, JoinNothing, Goto
<1>6. Listed' = Listed
  BY <1>5 DEF Listed
<1> QED
  BY <1>1, <1>2, <1>3, <1>4, <1>5, <1>6, TreeGrows

LEMMA AddInternalPreserves ==
  ASSUME IInv, UNCHANGED arrival, NEW b \in Blocks, AddInternal(b)
  PROVE  IInv'
<1>1. /\ \A a \in tree' \ tree : PrevHash[a] \in tree'
      /\ \A o \in offered' \ offered : o \in tree'
  BY DEF AddInternal
<1>2. TypeOK'
  BY DEF IInv, TypeOK, AddInternal, handlerVars
<1>3. UNCHANGED <<chains, target, orphans, pc>> /\ tree \subseteq tree'
  BY DEF AddInternal, handlerVars
<1>4. Listed' = Listed
  BY <1>3 DEF Listed
<1> QED
  BY <1>1, <1>2, <1>3, <1>4, TreeGrows

LEMMA AdoptPreserves ==
  ASSUME IInv, UNCHANGED arrival, NEW b \in Blocks, Adopt(b)
  PROVE  IInv'
<1>1. offered' = offered
  BY DEF Adopt
<1>2. TypeOK'
  BY DEF IInv, TypeOK, Adopt, handlerVars
<1>3. UNCHANGED <<tree, chains, target, orphans, pc>>
  BY DEF Adopt, handlerVars
<1>4. Listed' = Listed
  BY <1>3 DEF Listed
<1> QED
  BY <1>1, <1>2, <1>3, <1>4, TreeGrows

-----------------------------------------------------------------------------
LEMMA StutterPreserves == IInv /\ UNCHANGED vars => IInv'
  BY DEF vars, handlerVars, IInv, TypeOK, TreeClosed, PlacesOk, CreatedOk,
         ChainsOk, Linked, Listed, BlockOf

LEMMA HandlePreserves ==
  ASSUME IInv, UNCHANGED arrival, NEW h \in Handlers, Handle(h)
  PROVE  IInv'
  BY BeginPreserves, LookupPreserves, FindParentPreserves, FindChildPreserves,
     FindNothingPreserves, AppendOrphanPreserves, InsertPreserves,
     JoinNothingPreserves, JoinOrphansPreserves, CopyChainPreserves,
     MeasureListPreserves, RemoveChainPreserves, OfferTipPreserves,
     ExtendBeginPreserves, ExtendInsertPreserves, ExtendHeadPreserves DEF Handle

(* The invariant holds in every reachable state.                           *)
THEOREM SpecIInv == Spec => []IInv
<1>1. IInv /\ [Next]_vars => IInv'
  BY StutterPreserves, HandlePreserves, AddInternalPreserves, AdoptPreserves DEF Next
<1> QED
  BY InitIInv, <1>1, PTL DEF Spec

(* The fields of the chain and the places of the handlers keep their types.*)
THEOREM TypeCorrect == Spec => []TypeOK
<1>1. IInv => TypeOK
  BY DEF IInv
<1> QED
  BY SpecIInv, <1>1, PTL

(* However many handlers of addBlockChainNode interleave, every block of   *)
(* the tree has its whole chain there, and a block sent on utxoChan is in  *)
(* the tree or in an orphan chain whose root is linked to it: even when    *)
(* the chain was extended after its nodes were copied (OrphansConnected    *)
(* says that the links inside that chain have no gaps either).             *)
THEOREM TreeHasNoGaps == Spec => []TreeClosed
<1>1. IInv => TreeClosed
  BY DEF IInv
<1> QED
  BY SpecIInv, <1>1, PTL

(* Every orphan chain, joined or not, is one tree whose root's parent is   *)
(* not in it: the parent is lower than the root, which is the lowest block *)
(* of the chain.                                                           *)
THEOREM OrphansConnected == Spec => []ChainsConnected
<1>1. IInv => ChainsConnected
  <2> SUFFICES ASSUME IInv, NEW c \in Handlers, chains[c].nodes # {}
               PROVE  /\ chains[c].root \in chains[c].nodes
                      /\ PrevHash[chains[c].root] \notin chains[c].nodes
                      /\ \A b \in chains[c].nodes \ {chains[c].root} :
                           PrevHash[b] \in chains[c].nodes
    BY DEF ChainsConnected
  <2>1. Connected(chains[c])
    BY DEF IInv, ChainsOk
  <2>2. chains[c].root \in Blocks \ {Genesis} /\ chains[c].nodes \subseteq Blocks
    BY <2>1, ChainFields DEF IInv, Connected
  <2>3. PrevHash[chains[c].root] \notin chains[c].nodes
    <3>1. /\ BlockCount[chains[c].root] = BlockCount[PrevHash[chains[c].root]] + 1
          /\ BlockCount[PrevHash[chains[c].root]] \in Nat
      BY <2>2, HeaderFacts
    <3> QED
      BY <2>1, <3>1 DEF Connected
  <2> QED
    BY <2>1, <2>3 DEF Connected
<1> QED
  BY SpecIInv, <1>1, PTL
=============================================================================
