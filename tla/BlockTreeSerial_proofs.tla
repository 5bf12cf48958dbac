----------------------- MODULE BlockTreeSerial_proofs -----------------------
(***************************************************************************)
(* What BlockTree promises when headers are handled one at a time: the     *)
(* best block of the tree has been offered to the updater, and a block     *)
(* that is still missing has been asked for.                               *)
(***************************************************************************)
EXTENDS BlockTree_proofs, FiniteSetTheorems

Serial == arrival.atOnce = 1

OneAtWork == \A h, k \in Handlers : Working(h) /\ Working(k) => h = k

-----------------------------------------------------------------------------
(* Where a handler is between finding the chain it joins and offering it.  *)
Joining == {"copy", "measure", "remove", "tip", "panic"}

(* The head of an orphan chain is its highest block, except while a        *)
(* handler has added a block and not looked at the head yet.               *)
HeadsHighest ==
  /\ \A c \in Handlers : \A b \in chains[c].nodes :
       \/ BlockCount[b] <= BlockCount[chains[c].head]
       \/ \E h \in Handlers : pc[h] = "extendHead" /\ target[h] = c /\ BlockOf[h] = b
  /\ \A h \in Handlers :
       pc[h] \in {"extendInsert", "extendHead"} => seen[h] = chains[target[h]].head

(* The head a handler compares with has been head of the chain.            *)
SeenOk ==
  \A h \in Handlers :
    pc[h] \in {"lookup", "scan", "append", "insert", "join", "extend"} \cup Joining =>
      BlockCount[seen[h]] <= BlockCount[head]

(* What a handler brought into the tree and still has to offer.            *)
ToOffer(h, b) ==
  \/ pc[h] = "join" /\ BlockOf[h] = b
  \/ pc[h] \in Joining /\ BlockCount[b] <= BlockCount[chains[target[h]].head]

(* A block of the tree is no higher than what was offered or is head,      *)
(* except while a handler still has to offer it.                           *)
TreeOffered ==
  \A b \in tree :
    \/ \E o \in offered \cup {head} : BlockCount[o] >= BlockCount[b]
    \/ \E h \in Handlers : ToOffer(h, b)

(* What is offered is in the tree, since nobody extends a chain between    *)
(* the copy of its nodes and the look at its head.                         *)
JoinedOk ==
  /\ offered \subseteq tree
  /\ \A h \in Handlers : pc[h] \in Joining \ {"copy"} => chains[target[h]].nodes \subseteq tree

SerialInv == OneAtWork /\ HeadsHighest /\ SeenOk /\ TreeOffered /\ JoinedOk

-----------------------------------------------------------------------------
(* A handler that begins is alone.                                         *)
LEMMA BeginsAlone ==
  ASSUME Serial, OneAtWork, NEW h \in Handlers, Begin(h)
  PROVE  \A k \in Handlers : ~Working(k)
<1> SUFFICES ASSUME NEW k \in Handlers, Working(k) PROVE FALSE
  OBVIOUS
<1>1. {j \in Handlers : Working(j)} = {k}
  BY DEF OneAtWork
<1>2. Cardinality({j \in Handlers : Working(j)}) = 1
  BY <1>1, FS_Singleton
<1> QED BY <1>2 DEF Begin, Serial

(* What every step of a handler leaves alone.                              *)
LEMMA OthersStay ==
  ASSUME TypeOK, NEW h \in Handlers, Handle(h)
  PROVE  /\ \A k \in Handlers \ {h} :
              /\ pc'[k] = pc[k] /\ seen'[k] = seen[k] /\ target'[k] = target[k]
              /\ slot'[k] = slot[k] /\ size'[k] = size[k]
         /\ head' = head
         /\ Working(h) \/ Begin(h)
<1>1. CASE \/ Begin(h) \/ Lookup(h) \/ FindParent(h) \/ FindChild(h) \/ FindNothing(h)
           \/ AppendOrphan(h) \/ Insert(h) \/ JoinNothing(h)
  BY <1>1 DEF Begin, Lookup, FindParent, FindChild, FindNothing, AppendOrphan, Insert,
              JoinNothing, CanScan, Goto, Working, TypeOK
<1>2. CASE \/ JoinOrphans(h) \/ CopyChain(h) \/ MeasureList(h) \/ RemoveChain(h) \/ OfferTip(h)
           \/ ExtendBegin(h) \/ ExtendInsert(h) \/ ExtendHead(h)
  BY <1>2 DEF JoinOrphans, CopyChain, MeasureList, RemoveChain, OfferTip, ExtendBegin,
              ExtendInsert, ExtendHead, Goto, Working, TypeOK
<1> QED
  BY <1>1, <1>2 DEF Handle

LEMMA OneAtWorkKept ==
  ASSUME TypeOK, Serial, OneAtWork, NEW h \in Handlers, Handle(h)
  PROVE  /\ \A k \in Handlers \ {h} : pc[k] \in {"todo", "done"} /\ pc'[k] = pc[k]
         /\ OneAtWork'
<1>1. \A k \in Handlers \ {h} : ~Working(k)
  BY OthersStay, BeginsAlone DEF OneAtWork
<1> QED BY <1>1, OthersStay DEF OneAtWork, Working

(* Heights of blocks can be compared.                                      *)
LEMMA Heights ==
  ASSUME TypeOK
  PROVE  /\ \A b \in Blocks : BlockCount[b] \in Nat
         /\ \A h \in Handlers : BlockOf[h] \in Blocks /\ seen[h] \in Blocks
                                /\ chains[h].head \in Blocks /\ chains[h].nodes \subseteq Blocks
         /\ head \in Blocks /\ tree \subseteq Blocks /\ offered \subseteq Blocks
<1>1. \A h \in Handlers : chains[h].head \in Blocks /\ chains[h].nodes \subseteq Blocks
  BY ChainFields
<1>2. \A h \in Handlers : BlockOf[h] \in Blocks /\ seen[h] \in Blocks
  BY HandledBlocks DEF TypeOK
<1> QED BY <1>1, <1>2, HeaderFacts DEF TypeOK

-----------------------------------------------------------------------------
(* A handler that moves on without touching tree, chains or offers.        *)
LEMMA SerialMove ==
  ASSUME IInv, Serial, SerialInv, UNCHANGED <<arrival, tree, chains, offered>>,
         NEW h \in Handlers, Handle(h),
         pc[h] # "extendHead", pc'[h] # "extendHead",
         pc'[h] = "extendInsert" => seen'[h] = chains[target'[h]].head,
         pc'[h] \in {"lookup", "scan", "append", "insert", "join", "extend"} \cup Joining =>
           BlockCount[seen'[h]] <= BlockCount[head],
         \A b \in tree : ToOffer(h, b) => ToOffer(h, b)',
         pc'[h] \in Joining \ {"copy"} => chains[target'[h]].nodes \subseteq tree
  PROVE  SerialInv'
<1>1. /\ \A k \in Handlers \ {h} : pc'[k] = pc[k] /\ seen'[k] = seen[k] /\ target'[k] = target[k]
      /\ head' = head /\ BlockOf' = BlockOf /\ OneAtWork'
  BY OthersStay, OneAtWorkKept DEF IInv, BlockOf, SerialInv
<1>2. HeadsHighest'
  BY <1>1 DEF SerialInv, HeadsHighest
<1>3. SeenOk'
  BY <1>1 DEF SerialInv, SeenOk
<1>4. TreeOffered'
  <2> SUFFICES ASSUME NEW b \in tree
               PROVE  \/ \E o \in offered \cup {head} : BlockCount[o] >= BlockCount[b]
                      \/ \E k \in Handlers : ToOffer(k, b)'
    BY <1>1 DEF TreeOffered
  <2>1. \A k \in Handlers \ {h} : ToOffer(k, b) => ToOffer(k, b)'
    BY <1>1 DEF ToOffer
  <2> QED BY <2>1 DEF SerialInv, TreeOffered
<1>5. JoinedOk'
  BY <1>1 DEF SerialInv, JoinedOk
<1> QED BY <1>1, <1>2, <1>3, <1>4, <1>5 DEF SerialInv

(* A handler that ends, having changed one orphan chain so that the head   *)
(* is its highest block.                                                   *)
LEMMA SerialChain ==
  ASSUME IInv, Serial, SerialInv, UNCHANGED <<arrival, tree, offered>>,
         NEW h \in Handlers, Handle(h), NEW c \in Handlers,
         \A d \in Handlers \ {c} : chains'[d] = chains[d],
         pc[h] \in {"scan", "append", "extendHead"}, pc'[h] = "done",
         pc[h] = "extendHead" => target[h] = c,
         \A b \in chains'[c].nodes : BlockCount[b] <= BlockCount[chains'[c].head]
  PROVE  SerialInv'
<1>1. /\ \A k \in Handlers \ {h} : pc'[k] = pc[k] /\ seen'[k] = seen[k] /\ target'[k] = target[k]
      /\ \A k \in Handlers \ {h} : pc[k] \in {"todo", "done"}
      /\ head' = head /\ BlockOf' = BlockOf /\ OneAtWork'
  BY OthersStay, OneAtWorkKept DEF IInv, BlockOf, SerialInv
<1>2. HeadsHighest'
  <2>1. ASSUME NEW d \in Handlers, NEW b \in chains'[d].nodes
        PROVE  BlockCount[b] <= BlockCount[chains'[d].head]
    <3>1. CASE d = c
      BY <3>1
    <3>2. CASE d # c
      BY <1>1, <2>1, <3>2 DEF SerialInv, HeadsHighest
    <3> QED BY <3>1, <3>2
  <2>2. \A k \in Handlers : pc'[k] \notin {"extendInsert", "extendHead"}
    BY <1>1
  <2> QED BY <2>1, <2>2 DEF HeadsHighest
<1>3. SeenOk'
  BY <1>1 DEF SerialInv, SeenOk, Joining
<1>4. TreeOffered'
  BY <1>1 DEF SerialInv, TreeOffered, ToOffer, Joining
<1>5. JoinedOk'
  BY <1>1 DEF SerialInv, JoinedOk, Joining
<1> QED BY <1>1, <1>2, <1>3, <1>4, <1>5 DEF SerialInv

LEMMA SerialFindChild ==
  ASSUME IInv, Serial, SerialInv, UNCHANGED arrival, NEW h \in Handlers, FindChild(h)
  PROVE  SerialInv'
<1>1. PICK c \in Handlers :
        /\ IsFirst(c, ChainsAbove(BlockOf[h]))
        /\ chains' = [chains EXCEPT ![c] = WithNewRoot(@, BlockOf[h])]
  BY DEF FindChild
<1>2. c \in Listed /\ PrevHash[chains[c].root] = BlockOf[h]
  BY <1>1, ListedFacts DEF IInv, ChainsAbove
<1>3. Connected(chains[c])
  BY <1>2 DEF IInv, CreatedOk, ChainsOk
<1>4. chains[c] \in [root : Blocks, nodes : SUBSET Blocks, head : Blocks]
  BY ChainFields DEF IInv
<1>5. /\ \A d \in Handlers \ {c} : chains'[d] = chains[d]
      /\ chains'[c].nodes = chains[c].nodes \cup {BlockOf[h]}
      /\ chains'[c].head = chains[c].head
  BY <1>1, <1>4 DEF IInv, TypeOK, WithNewRoot
<1>6. /\ pc[h] = "scan" /\ pc'[h] = "done" /\ Handle(h)
      /\ \A k \in Handlers \ {h} : pc[k] \in {"todo", "done"}
      /\ UNCHANGED <<tree, offered>>
  <2>0. Handle(h)
    BY DEF Handle
  <2>1. /\ pc[h] = "scan" /\ pc'[h] = "done" /\ Handle(h)
        /\ UNCHANGED <<tree, offered>>
    BY <2>0 DEF IInv, TypeOK, FindChild, CanScan, Goto
  <2>2. \A k \in Handlers \ {h} : pc[k] \in {"todo", "done"}
    BY <2>1, OneAtWorkKept DEF SerialInv, IInv
  <2> QED BY <2>1, <2>2
<1>7. \A b \in chains[c].nodes : BlockCount[b] <= BlockCount[chains[c].head]
  BY <1>6 DEF SerialInv, HeadsHighest
<1>8. BlockCount[BlockOf[h]] <= BlockCount[chains[c].head]
  <2>1. /\ BlockCount[chains[c].root] = BlockCount[BlockOf[h]] + 1
        /\ BlockCount[BlockOf[h]] \in Nat /\ BlockCount[chains[c].head] \in Nat
    BY <1>2, <1>3, <1>4, HeaderFacts DEF Connected
  <2>2. BlockCount[chains[c].root] <= BlockCount[chains[c].head]
    BY <1>3 DEF Connected
  <2> QED BY <2>1, <2>2
<1> QED BY <1>5, <1>6, <1>7, <1>8, SerialChain

LEMMA SerialAppendOrphan ==
  ASSUME IInv, Serial, SerialInv, UNCHANGED arrival, NEW h \in Handlers, AppendOrphan(h)
  PROVE  SerialInv'
<1>1. /\ \A d \in Handlers \ {h} : chains'[d] = chains[d]
      /\ chains'[h].nodes = {BlockOf[h]} /\ chains'[h].head = BlockOf[h]
      /\ pc[h] = "append" /\ pc'[h] = "done" /\ Handle(h)
      /\ UNCHANGED <<tree, offered>>
  BY DEF IInv, TypeOK, AppendOrphan, Goto, Handle, NewChain
<1>2. BlockCount[BlockOf[h]] \in Nat
  BY Heights DEF IInv
<1> QED BY <1>1, <1>2, SerialChain

LEMMA SerialExtendHead ==
  ASSUME IInv, Serial, SerialInv, UNCHANGED arrival, NEW h \in Handlers, ExtendHead(h)
  PROVE  SerialInv'
<1> DEFINE c == target[h]
<1>1. /\ c \in Handlers /\ pc[h] = "extendHead" /\ pc'[h] = "done" /\ Handle(h)
      /\ seen[h] = chains[c].head
      /\ \A k \in Handlers \ {h} : pc[k] \in {"todo", "done"}
      /\ UNCHANGED <<tree, offered>>
  <2>0. Handle(h)
    BY DEF Handle
  <2>1. /\ c \in Handlers /\ pc[h] = "extendHead" /\ pc'[h] = "done" /\ Handle(h)
        /\ UNCHANGED <<tree, offered>>
    BY <2>0 DEF IInv, TypeOK, ExtendHead, Goto
  <2>2. seen[h] = chains[c].head
    BY <2>1 DEF SerialInv, HeadsHighest
  <2>3. \A k \in Handlers \ {h} : pc[k] \in {"todo", "done"}
    BY <2>1, OneAtWorkKept DEF SerialInv, IInv
  <2> QED BY <2>1, <2>2, <2>3
<1>2. /\ \A d \in Handlers \ {c} : chains'[d] = chains[d]
      /\ chains'[c].nodes = chains[c].nodes
      /\ chains'[c].head = IF BlockCount[BlockOf[h]] > BlockCount[chains[c].head]
                           THEN BlockOf[h] ELSE chains[c].head
  BY <1>1, ChainFields DEF IInv, TypeOK, ExtendHead
<1>3. \A b \in chains[c].nodes : BlockCount[b] <= BlockCount[chains[c].head] \/ b = BlockOf[h]
  BY <1>1 DEF SerialInv, HeadsHighest
<1>4. /\ BlockCount[BlockOf[h]] \in Nat /\ BlockCount[chains[c].head] \in Nat
      /\ \A b \in chains[c].nodes : BlockCount[b] \in Nat
  BY <1>1, Heights DEF IInv
<1> HIDE DEF c
<1>5. \A b \in chains'[c].nodes : BlockCount[b] <= BlockCount[chains'[c].head]
  <2> TAKE b \in chains'[c].nodes
  <2> QED BY <1>2, <1>3, <1>4
<1> QED BY <1>1, <1>2, <1>5, SerialChain DEF c

LEMMA SerialExtendInsert ==
  ASSUME IInv, Serial, SerialInv, UNCHANGED arrival, NEW h \in Handlers, ExtendInsert(h)
  PROVE  SerialInv'
<1> DEFINE c == target[h]
<1>1. /\ c \in Handlers /\ pc[h] = "extendInsert" /\ Handle(h) /\ UNCHANGED <<tree, offered>>
      /\ seen[h] = chains[c].head
  BY DEF IInv, TypeOK, ExtendInsert, Handle, SerialInv, HeadsHighest
<1>2. /\ \A d \in Handlers \ {c} : chains'[d] = chains[d]
      /\ chains'[c].nodes = chains[c].nodes \cup {BlockOf[h]}
      /\ chains'[c].head = chains[c].head
      /\ seen' = seen /\ pc'[h] = "extendHead" /\ target' = target
  BY <1>1, ChainFields DEF IInv, TypeOK, ExtendInsert, Goto
<1>3. /\ \A k \in Handlers \ {h} : pc'[k] = pc[k] /\ pc[k] \in {"todo", "done"}
      /\ head' = head /\ BlockOf' = BlockOf /\ OneAtWork'
  BY <1>1, OthersStay, OneAtWorkKept DEF IInv, BlockOf, SerialInv
<1>4. HeadsHighest'
  <2>1. ASSUME NEW d \in Handlers, NEW b \in chains'[d].nodes
        PROVE  BlockCount[b] <= BlockCount[chains'[d].head] \/ (d = c /\ BlockOf[h] = b)
    <3>1. CASE d = c
      BY <1>1, <1>2, <1>3, <2>1, <3>1 DEF SerialInv, HeadsHighest
    <3>2. CASE d # c
      BY <1>1, <1>2, <1>3, <2>1, <3>2 DEF SerialInv, HeadsHighest
    <3> QED BY <3>1, <3>2
  <2>2. \A k \in Handlers :
          pc'[k] \in {"extendInsert", "extendHead"} => seen'[k] = chains'[target'[k]].head
    BY <1>1, <1>2, <1>3
  <2> QED BY <1>1, <1>2, <1>3, <2>1, <2>2 DEF HeadsHighest
<1>5. SeenOk'
  BY <1>2, <1>3 DEF SerialInv, SeenOk, Joining
<1>6. TreeOffered'
  BY <1>1, <1>2, <1>3 DEF SerialInv, TreeOffered, ToOffer, Joining
<1>7. JoinedOk'
  BY <1>1, <1>2, <1>3 DEF SerialInv, JoinedOk, Joining
<1> QED BY <1>3, <1>4, <1>5, <1>6, <1>7 DEF SerialInv

LEMMA SerialInsert ==
  ASSUME IInv, Serial, SerialInv, UNCHANGED arrival, NEW h \in Handlers, Insert(h)
  PROVE  SerialInv'
<1>1. /\ pc[h] = "insert" /\ pc'[h] = "join" /\ Handle(h) /\ tree' = tree \cup {BlockOf[h]}
      /\ UNCHANGED <<chains, offered, target, seen>>
  BY DEF IInv, TypeOK, Insert, Goto, Handle
<1>2. /\ \A k \in Handlers \ {h} : pc'[k] = pc[k]
      /\ head' = head /\ BlockOf' = BlockOf /\ OneAtWork'
  BY <1>1, OthersStay, OneAtWorkKept DEF IInv, BlockOf, SerialInv
<1>3. HeadsHighest'
  BY <1>1, <1>2 DEF SerialInv, HeadsHighest
<1>4. SeenOk'
  BY <1>1, <1>2 DEF SerialInv, SeenOk
<1>5. \A k \in Handlers : \A b \in Blocks : ToOffer(k, b) => ToOffer(k, b)'
  BY <1>1, <1>2 DEF ToOffer, Joining
<1>6. TreeOffered'
  BY <1>1, <1>2, <1>5, Heights DEF IInv, SerialInv, TreeOffered, ToOffer
<1>7. JoinedOk'
  BY <1>1, <1>2 DEF SerialInv, JoinedOk, Joining
<1> QED BY <1>2, <1>3, <1>4, <1>6, <1>7 DEF SerialInv

(* The nodes of an orphan chain, none higher than its head, come into the  *)
(* tree.                                                                   *)
LEMMA SerialCopyChain ==
  ASSUME IInv, Serial, SerialInv, UNCHANGED arrival, NEW h \in Handlers, CopyChain(h)
  PROVE  SerialInv'
<1> DEFINE c == target[h]
<1>1. /\ pc[h] = "copy" /\ pc'[h] = "measure" /\ Handle(h) /\ c \in Handlers
      /\ tree' = tree \cup chains[c].nodes
      /\ UNCHANGED <<chains, offered, target, seen>>
  BY DEF IInv, TypeOK, CopyChain, Goto, Handle
<1>2. /\ \A k \in Handlers \ {h} : pc'[k] = pc[k] /\ pc[k] \in {"todo", "done"}
      /\ head' = head /\ BlockOf' = BlockOf /\ OneAtWork'
  BY <1>1, OthersStay, OneAtWorkKept DEF IInv, BlockOf, SerialInv
<1>3. HeadsHighest'
  BY <1>1, <1>2 DEF SerialInv, HeadsHighest
<1>4. SeenOk'
  BY <1>1, <1>2 DEF SerialInv, SeenOk, Joining
<1>5. \A k \in Handlers : \A b \in Blocks : ToOffer(k, b) => ToOffer(k, b)'
  BY <1>1, <1>2 DEF ToOffer, Joining
<1>6. \A b \in chains[c].nodes : BlockCount[b] <= BlockCount[chains[c].head]
  BY <1>1, <1>2 DEF SerialInv, HeadsHighest
<1>7. \A b \in chains[c].nodes : ToOffer(h, b)'
  BY <1>1, <1>6 DEF ToOffer, Joining
<1>8. TreeOffered'
  <2> SUFFICES ASSUME NEW b \in tree'
               PROVE  \/ \E o \in offered \cup {head} : BlockCount[o] >= BlockCount[b]
                      \/ \E k \in Handlers : ToOffer(k, b)'
    BY <1>1, <1>2 DEF TreeOffered
  <2>1. CASE b \in tree
    BY <1>5, <2>1, Heights DEF IInv, SerialInv, TreeOffered
  <2>2. CASE b \in chains[c].nodes
    BY <1>7, <2>2
  <2> QED BY <1>1, <2>1, <2>2
<1>9. JoinedOk'
  BY <1>1, <1>2 DEF SerialInv, JoinedOk, Joining
<1> QED BY <1>2, <1>3, <1>4, <1>8, <1>9 DEF SerialInv

(* A handler that ends by offering a block of the tree at least as high as *)
(* what it brought in.                                                     *)
LEMMA SerialOffer ==
  ASSUME IInv, Serial, SerialInv, UNCHANGED <<arrival, chains, tree>>, NEW h \in Handlers, Handle(h),
         pc[h] \in {"join", "tip"}, pc'[h] = "done", NEW tip \in tree, Offer(h, tip),
         \A b \in tree : ToOffer(h, b) => BlockCount[b] <= BlockCount[tip]
  PROVE  SerialInv'
<1>1. /\ \A k \in Handlers \ {h} : pc'[k] = pc[k] /\ seen'[k] = seen[k] /\ target'[k] = target[k]
                                   /\ pc[k] \in {"todo", "done"}
      /\ head' = head /\ BlockOf' = BlockOf /\ OneAtWork'
  BY OthersStay, OneAtWorkKept DEF IInv, BlockOf, SerialInv
<1>2. HeadsHighest'
  BY <1>1 DEF SerialInv, HeadsHighest
<1>3. SeenOk'
  BY <1>1 DEF SerialInv, SeenOk, Joining
<1>4. /\ BlockCount[tip] \in Nat /\ BlockCount[head] \in Nat /\ BlockCount[seen[h]] \in Nat
      /\ BlockCount[seen[h]] <= BlockCount[head]
  BY Heights DEF IInv, SerialInv, SeenOk, Joining
<1>5. PICK top \in offered' \cup {head} : BlockCount[top] >= BlockCount[tip]
  BY <1>4 DEF Offer
<1>6. offered \subseteq offered' /\ offered' \subseteq tree
  BY DEF Offer, SerialInv, JoinedOk
<1>7. ASSUME NEW b \in tree
      PROVE  \E o \in offered' \cup {head} : BlockCount[o] >= BlockCount[b]
  <2>1. CASE \E o \in offered \cup {head} : BlockCount[o] >= BlockCount[b]
    BY <1>6, <2>1
  <2>2. CASE ToOffer(h, b)
    <3>1. BlockCount[b] \in Nat /\ BlockCount[top] \in Nat
      BY <1>6, Heights DEF IInv
    <3>2. BlockCount[b] <= BlockCount[tip]
      BY <2>2
    <3> QED BY <1>4, <1>5, <3>1, <3>2
  <2>3. \A k \in Handlers \ {h} : ~ToOffer(k, b)
    BY <1>1 DEF ToOffer, Joining
  <2> QED BY <2>1, <2>2, <2>3 DEF SerialInv, TreeOffered
<1>8. TreeOffered'
  BY <1>1, <1>7 DEF TreeOffered
<1>9. JoinedOk'
  BY <1>1, <1>6 DEF SerialInv, JoinedOk, Joining
<1> QED BY <1>1, <1>2, <1>3, <1>8, <1>9 DEF SerialInv

LEMMA SerialJoinNothing ==
  ASSUME IInv, Serial, SerialInv, UNCHANGED arrival, NEW h \in Handlers, JoinNothing(h)
  PROVE  SerialInv'
<1>1. /\ pc[h] = "join" /\ pc'[h] = "done" /\ Handle(h) /\ Offer(h, BlockOf[h])
      /\ UNCHANGED <<tree, chains>> /\ BlockOf[h] \in tree
  BY DEF IInv, TypeOK, PlacesOk, JoinNothing, Goto, Handle
<1>2. BlockCount[BlockOf[h]] \in Nat
  BY Heights DEF IInv
<1>3. \A b \in tree : ToOffer(h, b) => b = BlockOf[h]
  BY <1>1 DEF ToOffer, Joining
<1> QED BY <1>1, <1>2, <1>3, SerialOffer

LEMMA SerialOfferTip ==
  ASSUME IInv, Serial, SerialInv, UNCHANGED arrival, NEW h \in Handlers, OfferTip(h)
  PROVE  SerialInv'
<1> DEFINE tip == chains[target[h]].head
<1>1. /\ pc[h] = "tip" /\ pc'[h] = "done" /\ Handle(h) /\ Offer(h, tip)
      /\ UNCHANGED <<tree, chains>> /\ target[h] \in Handlers
  BY DEF IInv, TypeOK, OfferTip, Goto, Handle
<1>2. tip \in chains[target[h]].nodes
  BY <1>1 DEF IInv, PlacesOk, Linked, ChainsOk, Connected
<1>3. tip \in tree
  BY <1>1, <1>2 DEF SerialInv, JoinedOk, Joining
<1>4. \A b \in tree : ToOffer(h, b) => BlockCount[b] <= BlockCount[tip]
  BY <1>1 DEF ToOffer
<1> HIDE DEF tip
<1> QED BY <1>1, <1>3, <1>4, SerialOffer

(* A handler that has found the chain it joins will offer the chain's head,*)
(* which is higher than its own block.                                     *)
LEMMA SerialJoinOrphans ==
  ASSUME IInv, Serial, SerialInv, UNCHANGED arrival, NEW h \in Handlers, JoinOrphans(h)
  PROVE  SerialInv'
<1>1. PICK i \in DOMAIN orphans :
        /\ FirstAt(i, ChainsAbove(BlockOf[h]))
        /\ target' = [target EXCEPT ![h] = orphans[i]]
  BY DEF JoinOrphans
<1> DEFINE c == orphans[i]
<1>2. c \in Listed /\ c \in Handlers /\ PrevHash[chains[c].root] = BlockOf[h]
  BY <1>1 DEF FirstAt, ChainsAbove, IInv, TypeOK
<1>3. Connected(chains[c])
  BY <1>2 DEF IInv, CreatedOk, ChainsOk
<1>4. /\ pc[h] = "join" /\ pc'[h] = "copy" /\ Handle(h) /\ target'[h] = c
      /\ UNCHANGED <<chains, tree, offered, seen>>
      /\ BlockCount[seen[h]] <= BlockCount[head]
  BY <1>1 DEF IInv, TypeOK, JoinOrphans, Goto, Handle, SerialInv, SeenOk
<1>5. BlockCount[BlockOf[h]] <= BlockCount[chains[c].head]
  <2>1. chains[c].root \in Blocks /\ chains[c].head \in Blocks
    BY <1>2, ChainFields DEF IInv
  <2>2. /\ BlockCount[chains[c].root] = BlockCount[BlockOf[h]] + 1
        /\ BlockCount[BlockOf[h]] \in Nat /\ BlockCount[chains[c].head] \in Nat
    BY <1>2, <1>3, <2>1, HeaderFacts DEF Connected
  <2>3. BlockCount[chains[c].root] <= BlockCount[chains[c].head]
    BY <1>3 DEF Connected
  <2> QED BY <2>2, <2>3
<1>6. \A b \in tree : ToOffer(h, b) => ToOffer(h, b)'
  BY <1>4, <1>5 DEF ToOffer, Joining
<1> QED BY <1>4, <1>6, SerialMove DEF Joining

(* The mining goroutine and the updater.                                   *)
LEMMA SerialOthers ==
  ASSUME IInv, SerialInv, UNCHANGED arrival, NEW b \in Blocks, AddInternal(b) \/ Adopt(b)
  PROVE  SerialInv'
<1>1. UNCHANGED <<chains, pc, seen, target>> /\ BlockOf' = BlockOf
  BY DEF AddInternal, Adopt, handlerVars, BlockOf
<1>2. OneAtWork' /\ HeadsHighest'
  BY <1>1 DEF SerialInv, OneAtWork, Working, HeadsHighest
<1>3. /\ tree \subseteq Blocks /\ head \in Blocks /\ head' \in Blocks /\ offered \subseteq Blocks
      /\ \A a \in Blocks : BlockCount[a] \in Nat
      /\ \A h \in Handlers : seen[h] \in Blocks
      /\ BlockCount[head] <= BlockCount[head']
  BY Heights DEF IInv, AddInternal, Adopt
<1>4. SeenOk'
  <2> SUFFICES ASSUME NEW h \in Handlers,
                      pc[h] \in {"lookup", "scan", "append", "insert", "join", "extend"} \cup Joining
               PROVE  BlockCount[seen[h]] <= BlockCount[head']
    BY <1>1 DEF SeenOk
  <2>1. BlockCount[seen[h]] <= BlockCount[head]
    BY DEF SerialInv, SeenOk
  <2> QED BY <1>3, <2>1
<1>5. TreeOffered'
  <2>1. CASE AddInternal(b)
    BY <1>1, <1>3, <2>1 DEF SerialInv, TreeOffered, ToOffer, AddInternal
  <2>2. CASE Adopt(b)
    <3>1. ASSUME NEW a \in tree, NEW o \in offered \cup {head}, BlockCount[o] >= BlockCount[a]
          PROVE  \E p \in offered \cup {head'} : BlockCount[p] >= BlockCount[a]
      <4>1. CASE o \in offered
        BY <3>1, <4>1
      <4>2. CASE o = head
        BY <1>3, <3>1, <4>2
      <4> QED BY <4>1, <4>2
    <3>2. tree' = tree /\ offered' = offered
      BY <2>2 DEF Adopt
    <3> QED BY <1>1, <3>1, <3>2 DEF SerialInv, TreeOffered, ToOffer
  <2> QED BY <2>1, <2>2
<1>6. JoinedOk'
  BY <1>1 DEF SerialInv, JoinedOk, AddInternal, Adopt
<1> QED BY <1>2, <1>4, <1>5, <1>6 DEF SerialInv

-----------------------------------------------------------------------------
LEMMA SerialHandle ==
  ASSUME IInv, Serial, SerialInv, UNCHANGED arrival, NEW h \in Handlers, Handle(h)
  PROVE  SerialInv'
<1>1. CASE Begin(h)
  <2>1. BlockCount[head] \in Nat
    BY Heights DEF IInv
  <2>2. /\ pc[h] = "todo" /\ pc'[h] \in {"lookup", "done"}
        /\ pc'[h] = "lookup" => seen'[h] = head
        /\ UNCHANGED <<tree, chains, offered>>
    BY <1>1 DEF IInv, TypeOK, Begin, Goto
  <2> QED BY <2>1, <2>2, SerialMove DEF ToOffer, Joining
<1>2. CASE Lookup(h)
  <2>1. /\ pc[h] = "lookup" /\ pc'[h] \in {"insert", "scan"} /\ UNCHANGED <<tree, chains, offered, seen>>
        /\ BlockCount[seen[h]] <= BlockCount[head]
    BY <1>2 DEF IInv, TypeOK, Lookup, Goto, SerialInv, SeenOk
  <2> QED BY <2>1, SerialMove DEF ToOffer, Joining
<1>3. CASE FindParent(h) \/ FindNothing(h)
  <2>1. /\ pc[h] = "scan" /\ pc'[h] \in {"extend", "append"} /\ UNCHANGED <<tree, chains, offered, seen>>
        /\ BlockCount[seen[h]] <= BlockCount[head]
    BY <1>3 DEF IInv, TypeOK, FindParent, FindNothing, CanScan, Goto, SerialInv, SeenOk
  <2> QED BY <2>1, SerialMove DEF ToOffer, Joining
<1>4. CASE ExtendBegin(h)
  <2>1. /\ pc[h] = "extend" /\ pc'[h] \in {"done", "extendInsert"} /\ UNCHANGED <<tree, chains, offered>>
        /\ pc'[h] = "extendInsert" => seen'[h] = chains[target'[h]].head
    BY <1>4 DEF IInv, TypeOK, ExtendBegin, Goto
  <2> QED BY <2>1, SerialMove DEF ToOffer, Joining
<1>5. CASE MeasureList(h) \/ RemoveChain(h)
  <2>1. /\ pc[h] \in {"measure", "remove"} /\ pc'[h] \in {"remove", "tip", "panic"}
        /\ UNCHANGED <<tree, chains, offered, seen, target>>
        /\ BlockCount[seen[h]] <= BlockCount[head]
        /\ chains[target[h]].nodes \subseteq tree
    BY <1>5 DEF IInv, TypeOK, MeasureList, RemoveChain, Goto, SerialInv, SeenOk, JoinedOk, Joining
  <2>2. \A b \in tree : ToOffer(h, b) => ToOffer(h, b)'
    BY <2>1 DEF ToOffer, Joining
  <2> QED BY <2>1, <2>2, SerialMove DEF Joining
<1> QED BY <1>1, <1>2, <1>3, <1>4, <1>5, SerialFindChild, SerialAppendOrphan, SerialInsert,
           SerialJoinNothing, SerialJoinOrphans, SerialCopyChain, SerialOfferTip,
           SerialExtendInsert, SerialExtendHead DEF Handle

LEMMA SerialNext == IInv /\ (Serial => SerialInv) /\ [Next]_vars => (Serial => SerialInv)'
<1> SUFFICES ASSUME IInv, Serial', Serial => SerialInv, [Next]_vars PROVE SerialInv'
  OBVIOUS
<1>1. UNCHANGED arrival
  BY DEF Next, vars
<1>2. Serial /\ SerialInv
  BY <1>1 DEF Serial
<1>3. CASE UNCHANGED vars
  BY <1>2, <1>3 DEF vars, handlerVars, SerialInv, OneAtWork, Working, HeadsHighest, SeenOk, TreeOffered,
                    ToOffer, JoinedOk, BlockOf
<1>4. CASE Next
  BY <1>1, <1>2, <1>4, SerialHandle, SerialOthers DEF Next
<1> QED BY <1>3, <1>4

LEMMA SerialInit == Init => SerialInv
<1> SUFFICES ASSUME Init PROVE SerialInv
  OBVIOUS
<1>1. BlockCount[Genesis] \in Nat
  BY HeaderFacts
<1> QED BY <1>1 DEF Init, NoChain, SerialInv, OneAtWork, Working, HeadsHighest, SeenOk, TreeOffered,
                   JoinedOk, Joining

(* With headers handled one at a time, whenever no handler is at work the  *)
(* highest block of the tree is no higher than what was offered or is head,*)
(* and all that was offered is in the tree.                                *)
THEOREM BestIsOffered == Spec => []BestOffered
<1>1. (Serial => SerialInv) => BestOffered
  BY DEF BestOffered, Idle, Working, Serial, SerialInv, TreeOffered, ToOffer, Joining, JoinedOk
<1>2. IInv /\ (Serial => SerialInv) /\ [Next]_vars => (Serial => SerialInv)'
  BY SerialNext
<1>3. Init => (Serial => SerialInv)
  BY SerialInit
<1> QED BY SpecIInv, <1>1, <1>2, <1>3, PTL DEF Spec

-----------------------------------------------------------------------------
(* What is missing has been asked for.                                     *)

Once == IsInjective(BlockOf)

(* The blocks of an orphan chain were put there by handlers.               *)
NodesHandled ==
  \A c \in Handlers : \A b \in chains[c].nodes :
    \E k \in Handlers : pc[k] \in {"extendHead", "done"} /\ BlockOf[k] = b

(* A block stays out of the tree until its handler puts it there.          *)
FreshOk ==
  \A h \in Handlers :
    pc[h] \in {"lookup", "scan", "append", "insert", "extend", "extendInsert"} =>
      BlockOf[h] \notin tree

(* The chain was copied into the tree, and is still listed.                *)
Leaving(c) == \E h \in Handlers : pc[h] \in {"measure", "remove"} /\ target[h] = c

(* Listed chains are listed once, outside the tree, and have no block in   *)
(* common.                                                                 *)
ChainsApart ==
  /\ \A i, j \in 1..Len(orphans) : orphans[i] = orphans[j] => i = j
  /\ \A c \in Listed :
       /\ Leaving(c) \/ chains[c].nodes \cap tree = {}
       /\ \A d \in Listed \ {c} : chains[c].nodes \cap chains[d].nodes = {}

(* The chain is still where it was found, and the list still as long as it *)
(* was: the chain that is removed is the one that was copied.              *)
RemovalOk ==
  \A h \in Handlers :
    /\ pc[h] \in {"copy", "measure", "remove"} =>
         slot[h] \in DOMAIN orphans /\ orphans[slot[h]] = target[h]
    /\ pc[h] = "remove" => size[h] = Len(orphans)

(* The root of a listed chain is below all of it, and its parent was asked *)
(* for.                                                                    *)
RootsAsked ==
  \A c \in Listed :
    /\ PrevHash[chains[c].root] \in requested
    /\ \A b \in chains[c].nodes : chains[c].root \in Ancestors(b)

(* A handler extends a chain that is still listed, and leaves its block in *)
(* such a chain or in the tree.                                            *)
Placed ==
  \A h \in Handlers :
    /\ pc[h] \in {"extend", "extendInsert", "extendHead"} => target[h] \in Listed
    /\ pc[h] \in {"copy", "measure", "remove", "tip"} => BlockOf[h] \in tree
    /\ pc[h] = "done" => \/ BlockOf[h] \in tree
                         \/ \E c \in Listed : BlockOf[h] \in chains[c].nodes

OnceInv == NodesHandled /\ FreshOk /\ ChainsApart /\ RemovalOk /\ RootsAsked /\ Placed

-----------------------------------------------------------------------------
LEMMA AncestorFacts ==
  ASSUME NEW b \in Blocks
  PROVE  /\ b \in Ancestors(b)
         /\ \A a \in Ancestors(PrevHash[b]) : a \in Ancestors(b)
         /\ \A a \in Ancestors(b) : PrevHash[a] \in Ancestors(b)
<1>1. b \in Ancestors(b)
  BY DEF Ancestors
<1>2. ASSUME NEW a \in Ancestors(PrevHash[b]) PROVE a \in Ancestors(b)
  BY <1>2 DEF Ancestors
<1>3. ASSUME NEW a \in Ancestors(b) PROVE PrevHash[a] \in Ancestors(b)
  BY <1>3, HeaderFacts DEF Ancestors
<1> QED BY <1>1, <1>2, <1>3

(* A chain listed once is gone when it is taken out of orphanBlockChains,  *)
(* and no other is.                                                        *)
LEMMA SwapRemovedOne ==
  ASSUME TypeOK, ChainsApart, NEW i \in DOMAIN orphans
  PROVE  /\ ToSet(SwapRemove(i, Len(orphans))) = Listed \ {orphans[i]}
         /\ \A j, k \in 1..Len(SwapRemove(i, Len(orphans))) :
              SwapRemove(i, Len(orphans))[j] = SwapRemove(i, Len(orphans))[k] => j = k
<1> DEFINE c == orphans[i]
           n == Len(orphans)
           moved == [orphans EXCEPT ![i] = orphans[n]]
           left == SwapRemove(i, n)
<1>1. orphans \in Seq(Handlers)
  BY DEF TypeOK
<1>2. i \in DOMAIN orphans /\ orphans[i] = c
  OBVIOUS
<1>3. n \in Nat /\ n >= 1 /\ DOMAIN orphans = 1..n /\ i \in 1..n
  BY <1>1, <1>2
<1>4. /\ moved \in Seq(Handlers) /\ Len(moved) = n /\ moved[i] = orphans[n]
      /\ \A j \in 1..n : j # i => moved[j] = orphans[j]
  BY <1>1, <1>2, <1>3
<1>5. left = SubSeq(moved, 1, n - 1)
  BY DEF SwapRemove
<1> HIDE DEF c, n, moved, left
<1>6. /\ DOMAIN left = 1..(n - 1) /\ Len(left) = n - 1
      /\ \A j \in 1..(n - 1) : left[j] = moved[j]
  BY <1>3, <1>4, <1>5
<1>7. \A j, k \in 1..n : orphans[j] = orphans[k] => j = k
  BY DEF ChainsApart, n
<1>8. \A j \in 1..(n - 1) : left[j] = IF j = i THEN orphans[n] ELSE orphans[j]
  BY <1>3, <1>4, <1>6
<1>9. ToSet(left) \subseteq Listed \ {c}
  <2> SUFFICES ASSUME NEW j \in 1..(n - 1) PROVE left[j] \in Listed \ {c}
    BY <1>6 DEF ToSet
  <2>1. j \in 1..n /\ n \in 1..n /\ j # n
    BY <1>3
  <2>2. Listed = {orphans[k] : k \in 1..n}
    BY <1>3 DEF Listed, ToSet
  <2>3. CASE j = i
    BY <1>2, <1>3, <1>7, <1>8, <2>1, <2>2, <2>3
  <2>4. CASE j # i
    BY <1>2, <1>3, <1>7, <1>8, <2>1, <2>2, <2>4
  <2> QED BY <2>3, <2>4
<1>10. Listed \ {c} \subseteq ToSet(left)
  <2> SUFFICES ASSUME NEW k \in 1..n, orphans[k] # c PROVE \E j \in 1..(n - 1) : left[j] = orphans[k]
    BY <1>3, <1>6 DEF Listed, ToSet
  <2>1. CASE k = n
    <3>1. i # n /\ i \in 1..(n - 1)
      BY <1>2, <1>3, <2>1
    <3> QED BY <1>8, <2>1, <3>1
  <2>2. CASE k # n
    <3>1. k \in 1..(n - 1) /\ k # i
      BY <1>2, <1>3, <2>2
    <3> QED BY <1>8, <3>1
  <2> QED BY <2>1, <2>2
<1>11. ASSUME NEW j \in 1..(n - 1), NEW k \in 1..(n - 1), left[j] = left[k] PROVE j = k
  <2>1. j \in 1..n /\ k \in 1..n /\ n \in 1..n /\ j # n /\ k # n
    BY <1>3
  <2> QED BY <1>7, <1>8, <1>11, <2>1
<1> QED BY <1>6, <1>9, <1>10, <1>11 DEF left, n, c

-----------------------------------------------------------------------------
(* A handler that changes no list, tree, or set of blocks of a chain.      *)
LEMMA OnceMove ==
  ASSUME IInv, OnceInv, UNCHANGED <<arrival, tree, orphans, requested>>,
         NEW h \in Handlers, Handle(h),
         \A c \in Handlers : chains'[c].nodes = chains[c].nodes /\ chains'[c].root = chains[c].root,
         pc[h] # "done", pc[h] = "extendHead" => pc'[h] = "done", pc'[h] # "extendHead",
         pc'[h] \in {"lookup", "scan", "append", "insert", "extend", "extendInsert"} =>
           BlockOf[h] \notin tree,
         pc'[h] \in {"extend", "extendInsert"} => target'[h] \in Listed,
         pc[h] \in {"measure", "remove"} => pc'[h] = "remove" /\ target'[h] = target[h],
         pc'[h] \in {"copy", "measure", "remove", "tip"} => BlockOf[h] \in tree,
         pc'[h] \in {"copy", "measure", "remove"} =>
           slot'[h] \in DOMAIN orphans /\ orphans[slot'[h]] = target'[h],
         pc'[h] = "remove" => size'[h] = Len(orphans),
         pc'[h] = "done" => \/ BlockOf[h] \in tree
                            \/ \E c \in Listed : BlockOf[h] \in chains[c].nodes
  PROVE  OnceInv'
<1>1. /\ BlockOf' = BlockOf /\ Listed' = Listed /\ Listed \subseteq Handlers
      /\ \A k \in Handlers \ {h} : /\ pc'[k] = pc[k] /\ target'[k] = target[k]
                                   /\ slot'[k] = slot[k] /\ size'[k] = size[k]
  BY ListedFacts, OthersStay DEF BlockOf, Listed, IInv
<1>2. NodesHandled'
  <2> SUFFICES ASSUME NEW c \in Handlers, NEW b \in chains[c].nodes
               PROVE  \E k \in Handlers : pc'[k] \in {"extendHead", "done"} /\ BlockOf[k] = b
    BY <1>1 DEF NodesHandled
  <2>1. PICK k \in Handlers : pc[k] \in {"extendHead", "done"} /\ BlockOf[k] = b
    BY DEF OnceInv, NodesHandled
  <2> QED BY <1>1, <2>1
<1>3. FreshOk'
  BY <1>1 DEF OnceInv, FreshOk
<1>4. ChainsApart'
  <2>1. \A c \in Listed : Leaving(c) => Leaving(c)'
    BY <1>1 DEF Leaving
  <2> QED BY <1>1, <2>1 DEF OnceInv, ChainsApart
<1>5. RemovalOk'
  BY <1>1 DEF OnceInv, RemovalOk
<1>6. RootsAsked'
  BY <1>1 DEF OnceInv, RootsAsked, Ancestors
<1>7. Placed'
  BY <1>1 DEF OnceInv, Placed
<1> QED BY <1>2, <1>3, <1>4, <1>5, <1>6, <1>7 DEF OnceInv

(* A handler that puts its block in an orphan chain.                       *)
LEMMA OnceChain ==
  ASSUME IInv, Once, OnceInv, UNCHANGED <<arrival, tree>>, NEW h \in Handlers, NEW c \in Handlers,
         \A d \in Handlers \ {c} : chains'[d] = chains[d],
         chains'[c].nodes = chains[c].nodes \cup {BlockOf[h]},
         \A k \in Handlers \ {h} : /\ pc'[k] = pc[k] /\ target'[k] = target[k]
                                   /\ pc[k] \in {"todo", "done"},
         pc[h] \in {"scan", "append", "extendInsert"}, pc'[h] \in {"extendHead", "done"},
         pc'[h] = "extendHead" => target'[h] = c,
         c \in Listed \/ chains[c].nodes = {}, Listed' = Listed \cup {c},
         \A i, j \in 1..Len(orphans') : orphans'[i] = orphans'[j] => i = j,
         requested \subseteq requested', PrevHash[chains'[c].root] \in requested',
         \A b \in chains'[c].nodes : chains'[c].root \in Ancestors(b)
  PROVE  OnceInv'
<1>1. BlockOf' = BlockOf /\ Listed \subseteq Handlers
  BY ListedFacts DEF BlockOf, IInv
<1>2. \A d \in Handlers : BlockOf[h] \notin chains[d].nodes
  <2> SUFFICES ASSUME NEW d \in Handlers, BlockOf[h] \in chains[d].nodes PROVE FALSE
    OBVIOUS
  <2>1. PICK k \in Handlers : pc[k] \in {"extendHead", "done"} /\ BlockOf[k] = BlockOf[h]
    BY DEF OnceInv, NodesHandled
  <2>2. DOMAIN BlockOf = Handlers
    BY HandlersAssumption DEF IInv, TypeOK, BlockOf
  <2> QED BY <2>1, <2>2 DEF Once, IsInjective
<1>3. NodesHandled'
  <2> SUFFICES ASSUME NEW d \in Handlers, NEW b \in chains'[d].nodes
               PROVE  \E k \in Handlers : pc'[k] \in {"extendHead", "done"} /\ BlockOf[k] = b
    BY <1>1 DEF NodesHandled
  <2>1. CASE b = BlockOf[h]
    BY <2>1
  <2>2. CASE b # BlockOf[h]
    <3>1. b \in chains[d].nodes
      BY <2>2
    <3>2. PICK k \in Handlers : pc[k] \in {"extendHead", "done"} /\ BlockOf[k] = b
      BY <3>1 DEF OnceInv, NodesHandled
    <3> QED BY <3>2
  <2> QED BY <2>1, <2>2
<1>4. FreshOk'
  BY <1>1 DEF OnceInv, FreshOk
<1>5. ChainsApart'
  <2>1. BlockOf[h] \notin tree
    BY DEF OnceInv, FreshOk
  <2>2. ASSUME NEW d \in Listed' PROVE chains'[d].nodes \cap tree = {}
    <3>1. ~Leaving(d)
      BY DEF Leaving
    <3> QED BY <1>1, <2>1, <2>2, <3>1 DEF OnceInv, ChainsApart
  <2>3. ASSUME NEW d \in Listed', NEW e \in Listed' \ {d} PROVE chains'[d].nodes \cap chains'[e].nodes = {}
    <3>1. d \in Handlers /\ e \in Handlers /\ chains[d].nodes \cap chains[e].nodes = {}
      BY <1>1, <2>3 DEF OnceInv, ChainsApart
    <3> QED BY <1>2, <2>3, <3>1
  <2> QED BY <2>2, <2>3 DEF ChainsApart
<1>6. RootsAsked'
  BY <1>1 DEF OnceInv, RootsAsked, Ancestors
<1>7. RemovalOk'
  BY DEF RemovalOk
<1>8. Placed'
  <2>1. \A d \in Handlers : chains[d].nodes \subseteq chains'[d].nodes
    OBVIOUS
  <2>2. c \in Listed' /\ BlockOf[h] \in chains'[c].nodes
    OBVIOUS
  <2> SUFFICES ASSUME NEW k \in Handlers
               PROVE  /\ pc'[k] \in {"extend", "extendInsert", "extendHead"} => target'[k] \in Listed'
                      /\ pc'[k] \notin {"copy", "measure", "remove", "tip"}
                      /\ pc'[k] = "done" => \/ BlockOf[k] \in tree
                                            \/ \E d \in Listed' : BlockOf[k] \in chains'[d].nodes
    BY <1>1 DEF Placed
  <2>3. CASE k = h
    BY <2>2, <2>3
  <2>4. CASE k # h
    BY <1>1, <2>1, <2>4 DEF OnceInv, Placed
  <2> QED BY <2>3, <2>4
<1> QED BY <1>3, <1>4, <1>5, <1>6, <1>7, <1>8 DEF OnceInv

LEMMA OnceFindChild ==
  ASSUME IInv, Serial, SerialInv, Once, OnceInv, UNCHANGED arrival, NEW h \in Handlers, FindChild(h)
  PROVE  OnceInv'
<1>1. PICK c \in Handlers :
        /\ IsFirst(c, ChainsAbove(BlockOf[h]))
        /\ chains' = [chains EXCEPT ![c] = WithNewRoot(@, BlockOf[h])]
  BY DEF FindChild
<1>2. c \in Listed /\ PrevHash[chains[c].root] = BlockOf[h]
  BY <1>1, ListedFacts DEF IInv, ChainsAbove
<1>3. chains[c] \in [root : Blocks, nodes : SUBSET Blocks, head : Blocks] /\ BlockOf[h] \in Blocks
  BY ChainFields, HandledBlocks DEF IInv
<1>4. /\ \A d \in Handlers \ {c} : chains'[d] = chains[d]
      /\ chains'[c].nodes = chains[c].nodes \cup {BlockOf[h]}
      /\ chains'[c].root = BlockOf[h]
  BY <1>1, <1>3 DEF IInv, TypeOK, WithNewRoot
<1>5. /\ pc[h] = "scan" /\ pc'[h] = "done" /\ Handle(h)
      /\ UNCHANGED <<tree, orphans>> /\ requested' = requested \cup {PrevHash[BlockOf[h]]}
  <2>1. Handle(h)
    BY DEF Handle
  <2>2. pc[h] = "scan" /\ pc'[h] = "done"
    BY DEF IInv, TypeOK, FindChild, CanScan, Goto
  <2>3. UNCHANGED <<tree, orphans>> /\ requested' = requested \cup {PrevHash[BlockOf[h]]}
    BY DEF FindChild, AskForParent
  <2> QED BY <2>1, <2>2, <2>3
<1>6. \A k \in Handlers \ {h} : /\ pc'[k] = pc[k] /\ target'[k] = target[k]
                                /\ pc[k] \in {"todo", "done"}
  BY <1>5, OthersStay, OneAtWorkKept DEF IInv, SerialInv
<1>7. Listed' = Listed \cup {c} /\ \A i, j \in 1..Len(orphans') : orphans'[i] = orphans'[j] => i = j
  BY <1>2, <1>5 DEF Listed, OnceInv, ChainsApart
<1>8. \A b \in chains'[c].nodes : BlockOf[h] \in Ancestors(b)
  <2> TAKE b \in chains'[c].nodes
  <2>1. CASE b = BlockOf[h]
    BY <1>3, <2>1, AncestorFacts
  <2>2. CASE b \in chains[c].nodes
    <3>1. chains[c].root \in Ancestors(b) /\ b \in Blocks
      BY <1>2, <1>3, <2>2 DEF OnceInv, RootsAsked
    <3> QED BY <1>2, <3>1, AncestorFacts
  <2> QED BY <1>4, <2>1, <2>2
<1> QED BY <1>2, <1>4, <1>5, <1>7, <1>8, <1>6, OnceChain

LEMMA OnceAppendOrphan ==
  ASSUME IInv, Serial, SerialInv, Once, OnceInv, UNCHANGED arrival, NEW h \in Handlers, AppendOrphan(h)
  PROVE  OnceInv'
<1>1. /\ \A d \in Handlers \ {h} : chains'[d] = chains[d]
      /\ chains'[h].nodes = {BlockOf[h]} /\ chains'[h].root = BlockOf[h]
      /\ pc[h] = "append" /\ pc'[h] = "done" /\ Handle(h)
      /\ UNCHANGED tree /\ requested' = requested \cup {PrevHash[BlockOf[h]]}
  BY DEF IInv, TypeOK, AppendOrphan, Goto, NewChain, AskForParent, Handle
<1>2. chains[h].nodes = {} /\ h \notin Listed
  BY <1>1 DEF IInv, CreatedOk
<1>3. orphans \in Seq(Handlers) /\ orphans' = Append(orphans, h)
  BY DEF IInv, TypeOK, AppendOrphan
<1>4. /\ Len(orphans) \in Nat /\ Len(orphans') = Len(orphans) + 1 /\ orphans'[Len(orphans) + 1] = h
      /\ \A i \in 1..Len(orphans) : orphans'[i] = orphans[i] /\ orphans[i] # h
  BY <1>2, <1>3 DEF Listed, ToSet
<1>5. Listed' = Listed \cup {h}
  BY <1>3 DEF Listed, ToSet
<1>6. ASSUME NEW i \in 1..Len(orphans'), NEW j \in 1..Len(orphans'), orphans'[i] = orphans'[j]
      PROVE  i = j
  <2>1. CASE i = Len(orphans) + 1 /\ j \in 1..Len(orphans)
    BY <1>4, <1>6, <2>1
  <2>2. CASE j = Len(orphans) + 1 /\ i \in 1..Len(orphans)
    BY <1>4, <1>6, <2>2
  <2>3. CASE i \in 1..Len(orphans) /\ j \in 1..Len(orphans)
    BY <1>4, <1>6, <2>3 DEF OnceInv, ChainsApart
  <2> QED BY <1>4, <2>1, <2>2, <2>3
<1>7. \A b \in chains'[h].nodes : BlockOf[h] \in Ancestors(b)
  BY <1>1, AncestorFacts, HandledBlocks DEF IInv
<1>8. /\ chains'[h].nodes = chains[h].nodes \cup {BlockOf[h]}
      /\ PrevHash[chains'[h].root] \in requested' /\ requested \subseteq requested'
      /\ \A b \in chains'[h].nodes : chains'[h].root \in Ancestors(b)
  BY <1>1, <1>2, <1>7
<1>9. \A k \in Handlers \ {h} : /\ pc'[k] = pc[k] /\ target'[k] = target[k]
                                /\ pc[k] \in {"todo", "done"}
  BY <1>1, OthersStay, OneAtWorkKept DEF IInv, SerialInv
<1> QED BY <1>1, <1>2, <1>5, <1>6, <1>8, <1>9, OnceChain

LEMMA OnceExtendInsert ==
  ASSUME IInv, Serial, SerialInv, Once, OnceInv, UNCHANGED arrival, NEW h \in Handlers, ExtendInsert(h)
  PROVE  OnceInv'
<1> DEFINE c == target[h]
<1>1. /\ c \in Handlers /\ c \in Listed /\ pc[h] = "extendInsert" /\ Handle(h)
      /\ PrevHash[BlockOf[h]] \in chains[c].nodes
      /\ UNCHANGED <<tree, orphans, requested, target>>
  BY DEF IInv, TypeOK, PlacesOk, OnceInv, Placed, ExtendInsert, Goto, Handle
<1>2. \A k \in Handlers \ {h} : /\ pc'[k] = pc[k] /\ target'[k] = target[k]
                                /\ pc[k] \in {"todo", "done"}
  BY <1>1, OthersStay, OneAtWorkKept DEF IInv, SerialInv
<1>3. chains[c] \in [root : Blocks, nodes : SUBSET Blocks, head : Blocks] /\ BlockOf[h] \in Blocks
  BY <1>1, ChainFields, HandledBlocks DEF IInv
<1>4. /\ \A d \in Handlers \ {c} : chains'[d] = chains[d]
      /\ chains'[c].nodes = chains[c].nodes \cup {BlockOf[h]}
      /\ chains'[c].root = chains[c].root
      /\ pc'[h] = "extendHead"
  BY <1>1, <1>3 DEF IInv, TypeOK, ExtendInsert, Goto
<1>5. Listed' = Listed \cup {c} /\ \A i, j \in 1..Len(orphans') : orphans'[i] = orphans'[j] => i = j
  BY <1>1 DEF Listed, OnceInv, ChainsApart
<1>6. \A b \in chains'[c].nodes : chains[c].root \in Ancestors(b)
  <2> TAKE b \in chains'[c].nodes
  <2>1. CASE b \in chains[c].nodes
    BY <1>1, <2>1 DEF OnceInv, RootsAsked
  <2>2. CASE b = BlockOf[h]
    <3>1. chains[c].root \in Ancestors(PrevHash[b])
      BY <1>1, <2>2 DEF OnceInv, RootsAsked
    <3> QED BY <1>3, <2>2, <3>1, AncestorFacts
  <2> QED BY <1>4, <2>1, <2>2
<1>7. PrevHash[chains'[c].root] \in requested'
  BY <1>1, <1>4 DEF OnceInv, RootsAsked
<1>8. target'[h] = c
  BY <1>1
<1> HIDE DEF c
<1> QED BY <1>1, <1>2, <1>4, <1>5, <1>6, <1>7, <1>8, OnceChain

(* A handler that puts its block, or an orphan chain, into the tree, takes *)
(* a chain of the tree from the list, or offers a block.                   *)
LEMMA OnceTree ==
  ASSUME IInv, OnceInv, UNCHANGED <<arrival, chains, requested>>, tree \subseteq tree',
         NEW h \in Handlers, Handle(h),
         \A k \in Handlers \ {h} : pc[k] \in {"todo", "done"},
         pc[h] \in {"insert", "join", "copy", "remove", "tip"},
         pc'[h] \in {"join", "measure", "tip", "done"}, BlockOf[h] \in tree',
         pc'[h] = "measure" => slot'[h] \in DOMAIN orphans' /\ orphans'[slot'[h]] = target'[h],
         Listed' \subseteq Listed,
         \A c \in Listed' : Leaving(c)' \/ chains[c].nodes \cap tree' = {},
         \A c \in Listed \ Listed' : chains[c].nodes \subseteq tree',
         \A i, j \in 1..Len(orphans') : orphans'[i] = orphans'[j] => i = j
  PROVE  OnceInv'
<1>1. BlockOf' = BlockOf /\ \A k \in Handlers \ {h} : pc'[k] = pc[k] /\ target'[k] = target[k]
  BY OthersStay DEF BlockOf, IInv
<1>2. NodesHandled'
  <2> SUFFICES ASSUME NEW c \in Handlers, NEW b \in chains[c].nodes
               PROVE  \E k \in Handlers : pc'[k] \in {"extendHead", "done"} /\ BlockOf[k] = b
    BY <1>1 DEF NodesHandled
  <2>1. PICK k \in Handlers : pc[k] \in {"extendHead", "done"} /\ BlockOf[k] = b
    BY DEF OnceInv, NodesHandled
  <2> QED BY <1>1, <2>1
<1>3. FreshOk'
  BY <1>1 DEF FreshOk
<1>4. ChainsApart'
  BY DEF OnceInv, ChainsApart
<1>5. RemovalOk'
  BY <1>1 DEF RemovalOk
<1>6. RootsAsked'
  BY DEF OnceInv, RootsAsked, Ancestors
<1>7. Placed'
  <2> SUFFICES ASSUME NEW k \in Handlers, pc'[k] = "done"
               PROVE  BlockOf[k] \in tree' \/ \E c \in Listed' : BlockOf[k] \in chains[c].nodes
    BY <1>1 DEF Placed
  <2>1. CASE k = h
    BY <2>1
  <2>2. CASE k # h
    <3>1. BlockOf[k] \in tree \/ \E c \in Listed : BlockOf[k] \in chains[c].nodes
      BY <1>1, <2>2 DEF OnceInv, Placed
    <3> QED BY <3>1
  <2> QED BY <2>1, <2>2
<1> QED BY <1>2, <1>3, <1>4, <1>5, <1>6, <1>7 DEF OnceInv

(* With one handler at work, no other chain leaves the list.               *)
LEMMA LeavingAlone ==
  ASSUME NEW h \in Handlers, \A k \in Handlers \ {h} : pc[k] \in {"todo", "done"}
  PROVE  \A c : Leaving(c) <=> (pc[h] \in {"measure", "remove"} /\ target[h] = c)
  BY DEF Leaving

LEMMA OnceInsert ==
  ASSUME IInv, Serial, SerialInv, Once, OnceInv, UNCHANGED arrival, NEW h \in Handlers, Insert(h)
  PROVE  OnceInv'
<1>1. /\ pc[h] = "insert" /\ pc'[h] = "join" /\ Handle(h) /\ tree' = tree \cup {BlockOf[h]}
      /\ UNCHANGED <<chains, requested, orphans>>
  BY DEF IInv, TypeOK, Insert, Goto, Handle
<1>2. \A k \in Handlers \ {h} : pc[k] \in {"todo", "done"}
  BY <1>1, OneAtWorkKept DEF IInv, SerialInv
<1>3. Listed' = Listed /\ Listed \subseteq Handlers
  BY <1>1, ListedFacts DEF Listed, IInv
<1>4. ASSUME NEW c \in Listed PROVE BlockOf[h] \notin chains[c].nodes
  <2> SUFFICES ASSUME BlockOf[h] \in chains[c].nodes PROVE FALSE
    OBVIOUS
  <2>1. PICK k \in Handlers : pc[k] \in {"extendHead", "done"} /\ BlockOf[k] = BlockOf[h]
    BY <1>3 DEF OnceInv, NodesHandled
  <2>2. DOMAIN BlockOf = Handlers
    BY HandlersAssumption DEF IInv, TypeOK, BlockOf
  <2> QED BY <1>1, <2>1, <2>2 DEF Once, IsInjective
<1>5. \A c \in Listed' : chains[c].nodes \cap tree' = {}
  <2>1. \A c \in Listed : ~Leaving(c)
    BY <1>1, <1>2, LeavingAlone
  <2> QED BY <1>1, <1>3, <1>4, <2>1 DEF OnceInv, ChainsApart
<1>6. \A i, j \in 1..Len(orphans') : orphans'[i] = orphans'[j] => i = j
  BY <1>1 DEF OnceInv, ChainsApart
<1> QED BY <1>1, <1>2, <1>3, <1>5, <1>6, OnceTree

LEMMA OnceCopyChain ==
  ASSUME IInv, Serial, SerialInv, OnceInv, UNCHANGED arrival, NEW h \in Handlers, CopyChain(h)
  PROVE  OnceInv'
<1> DEFINE c == target[h]
<1>1. /\ pc[h] = "copy" /\ pc'[h] = "measure" /\ Handle(h) /\ tree' = tree \cup chains[c].nodes
      /\ UNCHANGED <<chains, requested, orphans, target, slot>>
  BY DEF IInv, TypeOK, CopyChain, Goto, Handle
<1>2. \A k \in Handlers \ {h} : pc[k] \in {"todo", "done"}
  BY <1>1, OneAtWorkKept DEF IInv, SerialInv
<1>3. Listed' = Listed /\ slot[h] \in DOMAIN orphans /\ orphans[slot[h]] = c /\ BlockOf[h] \in tree
  BY <1>1 DEF Listed, OnceInv, RemovalOk, Placed
<1>4. c \in Listed
  BY <1>3 DEF Listed, ToSet
<1>5. Leaving(c)'
  BY <1>1 DEF Leaving
<1>6. ASSUME NEW d \in Listed \ {c} PROVE chains[d].nodes \cap tree' = {}
  <2>1. ~Leaving(d)
    BY <1>1, <1>2, LeavingAlone
  <2> QED BY <1>1, <1>4, <2>1 DEF OnceInv, ChainsApart
<1>7. \A i, j \in 1..Len(orphans') : orphans'[i] = orphans'[j] => i = j
  BY <1>1 DEF OnceInv, ChainsApart
<1> QED BY <1>1, <1>2, <1>3, <1>5, <1>6, <1>7, OnceTree

(* The index and the length still are right, so the chain that goes is the *)
(* one that was copied into the tree.                                      *)
LEMMA OnceRemoveChain ==
  ASSUME IInv, Serial, SerialInv, OnceInv, UNCHANGED arrival, NEW h \in Handlers, RemoveChain(h)
  PROVE  OnceInv'
<1> DEFINE c == target[h]
           n == Len(orphans)
<1>1. /\ pc[h] = "remove" /\ Handle(h) /\ UNCHANGED <<chains, tree, requested>>
  BY DEF RemoveChain, Handle
<1>2. /\ slot[h] \in DOMAIN orphans /\ orphans[slot[h]] = c /\ size[h] = n /\ BlockOf[h] \in tree
      /\ chains[c].nodes \subseteq tree
  BY <1>1 DEF OnceInv, RemovalOk, Placed, SerialInv, JoinedOk, Joining
<1>3. n \in DOMAIN orphans
  <2>1. orphans \in Seq(Handlers)
    BY DEF IInv, TypeOK
  <2> QED BY <1>2, <2>1
<1>4. orphans' = SwapRemove(slot[h], n) /\ pc'[h] = "tip"
  BY <1>2, <1>3 DEF IInv, TypeOK, RemoveChain, Goto
<1>5. /\ Listed' = Listed \ {c}
      /\ \A i, j \in 1..Len(orphans') : orphans'[i] = orphans'[j] => i = j
  BY <1>2, <1>4, SwapRemovedOne DEF IInv, OnceInv, Listed
<1>6. \A k \in Handlers \ {h} : pc[k] \in {"todo", "done"}
  BY <1>1, OneAtWorkKept DEF IInv, SerialInv
<1>7. ASSUME NEW d \in Listed' PROVE chains[d].nodes \cap tree = {}
  <2>1. ~Leaving(d)
    BY <1>5, <1>6, LeavingAlone
  <2> QED BY <1>5, <2>1 DEF OnceInv, ChainsApart
<1> QED BY <1>1, <1>2, <1>4, <1>5, <1>6, <1>7, OnceTree

LEMMA OnceOffer ==
  ASSUME IInv, Serial, SerialInv, OnceInv, UNCHANGED arrival, NEW h \in Handlers,
         JoinNothing(h) \/ OfferTip(h)
  PROVE  OnceInv'
<1>1. /\ pc[h] \in {"join", "tip"} /\ pc'[h] = "done" /\ Handle(h)
      /\ UNCHANGED <<tree, chains, requested, orphans>> /\ BlockOf[h] \in tree
  BY DEF IInv, TypeOK, PlacesOk, JoinNothing, OfferTip, Goto, Handle, OnceInv, Placed
<1>2. \A k \in Handlers \ {h} : pc[k] \in {"todo", "done"}
  BY <1>1, OneAtWorkKept DEF IInv, SerialInv
<1>3. Listed' = Listed
  BY <1>1 DEF Listed
<1>4. \A c \in Listed : chains[c].nodes \cap tree = {}
  <2>1. \A c \in Listed : ~Leaving(c)
    BY <1>1, <1>2, LeavingAlone
  <2> QED BY <2>1 DEF OnceInv, ChainsApart
<1>5. \A i, j \in 1..Len(orphans') : orphans'[i] = orphans'[j] => i = j
  BY <1>1 DEF OnceInv, ChainsApart
<1> QED BY <1>1, <1>2, <1>3, <1>4, <1>5, OnceTree

(* Own blocks are in no orphan chain, and no handler handles them.         *)
LEMMA OnceOthers ==
  ASSUME IInv, OnceInv, UNCHANGED arrival, NEW b \in Blocks, AddInternal(b) \/ Adopt(b)
  PROVE  OnceInv'
<1>1. /\ UNCHANGED <<chains, pc, target, slot, size, orphans, requested>>
      /\ BlockOf' = BlockOf /\ Listed' = Listed /\ Listed \subseteq Handlers
      /\ tree' = tree \/ (tree' = tree \cup {b} /\ b \in Own)
  BY ListedFacts DEF AddInternal, Adopt, handlerVars, BlockOf, Listed, IInv
<1>2. \A h \in Handlers : BlockOf[h] \notin Own
  BY HandlersAssumption DEF IInv, TypeOK, BlockOf
<1>3. \A c \in Handlers : chains[c].nodes \cap Own = {}
  BY <1>2 DEF OnceInv, NodesHandled
<1>4. NodesHandled'
  BY <1>1 DEF OnceInv, NodesHandled
<1>5. FreshOk'
  BY <1>1, <1>2 DEF OnceInv, FreshOk
<1>6. ChainsApart'
  BY <1>1, <1>3 DEF OnceInv, ChainsApart, Leaving
<1>7. RootsAsked'
  BY <1>1 DEF OnceInv, RootsAsked, Ancestors
<1>8. Placed'
  BY <1>1 DEF OnceInv, Placed
<1>9. RemovalOk'
  BY <1>1 DEF OnceInv, RemovalOk
<1> QED BY <1>4, <1>5, <1>6, <1>7, <1>8, <1>9 DEF OnceInv

-----------------------------------------------------------------------------
LEMMA OnceHandle ==
  ASSUME IInv, Serial, SerialInv, Once, OnceInv, UNCHANGED arrival, NEW h \in Handlers, Handle(h)
  PROVE  OnceInv'
<1>1. CASE Begin(h)
  <2>1. /\ pc[h] = "todo" /\ pc'[h] \in {"lookup", "done"}
        /\ pc'[h] = "lookup" => BlockOf[h] \notin tree
        /\ pc'[h] = "done" => BlockOf[h] \in tree
        /\ UNCHANGED <<tree, chains, orphans, requested>>
    BY <1>1 DEF IInv, TypeOK, Begin, Goto
  <2> QED BY <2>1, OnceMove
<1>2. CASE Lookup(h)
  <2>1. /\ pc[h] = "lookup" /\ pc'[h] \in {"insert", "scan"} /\ BlockOf[h] \notin tree
        /\ UNCHANGED <<tree, chains, orphans, requested>>
    BY <1>2 DEF IInv, TypeOK, Lookup, Goto, OnceInv, FreshOk
  <2> QED BY <2>1, OnceMove
<1>3. CASE FindParent(h)
  <2>1. /\ pc[h] = "scan" /\ pc'[h] = "extend" /\ BlockOf[h] \notin tree /\ target'[h] \in Listed
        /\ UNCHANGED <<tree, chains, orphans, requested>>
    BY <1>3, ListedFacts DEF IInv, TypeOK, FindParent, CanScan, Goto, OnceInv, FreshOk
  <2> QED BY <2>1, OnceMove
<1>4. CASE FindNothing(h)
  <2>1. /\ pc[h] = "scan" /\ pc'[h] = "append" /\ BlockOf[h] \notin tree
        /\ UNCHANGED <<tree, chains, orphans, requested>>
    BY <1>4 DEF IInv, TypeOK, FindNothing, CanScan, Goto, OnceInv, FreshOk
  <2> QED BY <2>1, OnceMove
<1>5. CASE ExtendBegin(h)
  <2>1. /\ pc[h] = "extend" /\ BlockOf[h] \notin tree /\ target'[h] = target[h] /\ target[h] \in Listed
        /\ \/ pc'[h] = "extendInsert"
           \/ pc'[h] = "done" /\ BlockOf[h] \in chains[target[h]].nodes
        /\ UNCHANGED <<tree, chains, orphans, requested>>
    BY <1>5 DEF IInv, TypeOK, ExtendBegin, Goto, OnceInv, FreshOk, Placed
  <2> QED BY <2>1, OnceMove
<1>6. CASE ExtendHead(h)
  <2> DEFINE c == target[h]
  <2>1. /\ c \in Listed /\ c \in Handlers /\ pc[h] = "extendHead" /\ pc'[h] = "done"
        /\ BlockOf[h] \in chains[c].nodes /\ UNCHANGED <<tree, orphans, requested>>
    BY <1>6, ListedFacts DEF IInv, TypeOK, PlacesOk, ExtendHead, Goto, OnceInv, Placed
  <2>2. \A d \in Handlers : chains'[d].nodes = chains[d].nodes /\ chains'[d].root = chains[d].root
    BY <1>6, ChainFields DEF IInv, TypeOK, ExtendHead
  <2> QED BY <2>1, <2>2, OnceMove
<1>7. CASE JoinOrphans(h)
  <2>1. PICK i \in DOMAIN orphans :
          slot' = [slot EXCEPT ![h] = i] /\ target' = [target EXCEPT ![h] = orphans[i]]
    BY <1>7 DEF JoinOrphans
  <2>2. /\ pc[h] = "join" /\ pc'[h] = "copy" /\ BlockOf[h] \in tree
        /\ slot'[h] = i /\ target'[h] = orphans[i]
        /\ UNCHANGED <<tree, chains, orphans, requested>>
    BY <1>7, <2>1 DEF IInv, TypeOK, PlacesOk, JoinOrphans, Goto
  <2> QED BY <2>2, OnceMove
<1>8. CASE MeasureList(h)
  <2>1. /\ pc[h] = "measure" /\ pc'[h] = "remove" /\ BlockOf[h] \in tree
        /\ slot[h] \in DOMAIN orphans /\ orphans[slot[h]] = target[h]
        /\ size'[h] = Len(orphans)
        /\ UNCHANGED <<tree, chains, orphans, requested, slot, target>>
    BY <1>8 DEF IInv, TypeOK, MeasureList, Goto, OnceInv, Placed, RemovalOk
  <2> QED BY <2>1, OnceMove
<1> QED BY <1>1, <1>2, <1>3, <1>4, <1>5, <1>6, <1>7, <1>8, OnceFindChild, OnceAppendOrphan,
           OnceExtendInsert, OnceInsert, OnceCopyChain, OnceRemoveChain, OnceOffer DEF Handle

AskedInv == (Serial => SerialInv) /\ (Serial /\ Once => OnceInv)

LEMMA AskedNext == IInv /\ AskedInv /\ [Next]_vars => AskedInv'
<1> SUFFICES ASSUME IInv, AskedInv, [Next]_vars PROVE AskedInv'
  OBVIOUS
<1>1. UNCHANGED arrival /\ Serial' = Serial /\ Once' = Once
  BY DEF Next, vars, Serial, Once, BlockOf
<1>2. (Serial => SerialInv)'
  BY SerialNext DEF AskedInv
<1>3. ASSUME Serial, Once PROVE OnceInv'
  <2>1. SerialInv /\ OnceInv
    BY <1>3 DEF AskedInv
  <2>2. CASE UNCHANGED vars
    BY <2>1, <2>2 DEF vars, handlerVars, OnceInv, NodesHandled, FreshOk, ChainsApart, RootsAsked, Ancestors,
                      Placed, RemovalOk, Leaving, BlockOf, Listed
  <2>3. CASE Next
    BY <1>1, <1>3, <2>1, <2>3, OnceHandle, OnceOthers DEF Next
  <2> QED BY <2>2, <2>3
<1> QED BY <1>1, <1>2, <1>3 DEF AskedInv

LEMMA AskedInit == Init => AskedInv
<1> SUFFICES ASSUME Init PROVE OnceInv
  BY SerialInit DEF AskedInv
<1> QED BY DEF Init, NoChain, OnceInv, NodesHandled, FreshOk, ChainsApart, RemovalOk, RootsAsked,
               Placed, Listed, ToSet

(* With headers handled one at a time and none twice, whenever no handler  *)
(* is at work, a handled block that is not in the tree lies above a root   *)
(* of an orphan chain whose parent was asked for.                          *)
THEOREM GapIsAskedFor == Spec => []GapAskedFor
<1>1. IInv /\ AskedInv => GapAskedFor
  <2> SUFFICES ASSUME IInv, OnceInv, Idle, NEW h \in Handlers, pc[h] = "done", BlockOf[h] \notin tree
               PROVE  \E a \in Ancestors(BlockOf[h]) \ tree : PrevHash[a] \in requested
    BY DEF GapAskedFor, AskedInv, Serial, Once
  <2>1. PICK c \in Listed : BlockOf[h] \in chains[c].nodes
    BY DEF OnceInv, Placed
  <2>2. c \in Handlers /\ chains[c].root \in chains[c].nodes
    BY <2>1, ListedFacts DEF IInv, CreatedOk, ChainsOk, Connected
  <2>3. chains[c].root \notin tree
    BY <2>1, <2>2 DEF OnceInv, ChainsApart, Leaving, Idle, Working
  <2>4. chains[c].root \in Ancestors(BlockOf[h]) /\ PrevHash[chains[c].root] \in requested
    BY <2>1 DEF OnceInv, RootsAsked
  <2> QED BY <2>3, <2>4
<1> QED BY SpecIInv, AskedInit, AskedNext, <1>1, PTL DEF Spec
=============================================================================
