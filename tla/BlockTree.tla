----------------------------- MODULE BlockTree -----------------------------
(***************************************************************************)
(* How block headers enter the tree of one miner.  Every received header   *)
(* is handled by a goroutine of its own running addBlockChainNode, so the  *)
(* handlers interleave between their critical sections.  A block whose     *)
(* parent is in the tree is linked to it; any other block goes to an       *)
(* orphan chain, which joins the tree when the parent of its root comes.   *)
(* The tips worth verifying are offered to the updater.                    *)
(***************************************************************************)
EXTENDS Headers, FiniteSets, SequencesExt

CONSTANTS
  Handlers,   \* the goroutines that handle one received header each
  Own,        \* the blocks the miner mines itself
  Arrivals    \* the ways headers may arrive: the one a handler is started for,
              \* and how many handlers are at work at the same time

ASSUME HandlersAssumption ==
  /\ Own \subseteq Blocks \ {Genesis}
  /\ Arrivals \subseteq [blockOf : [Handlers -> Blocks \ ({Genesis} \cup Own)], atOnce : Nat]

VARIABLES
  tree,      \* allNodesMap of the main chain, with the nodes linked to their parents
  head,      \* bc.head
  chains,    \* every orphan chain, named after the handler that created it
  orphans,   \* orphanBlockChains
  requested, \* blocks asked for with requestBlockFromHash
  offered,   \* blocks sent on utxoChan
  pc,        \* where each handler is in addBlockChainNode
  seen,      \* the head it read first, of the chain it is working on
  target,    \* the orphan chain it will extend or join
  slot,      \* the index at which it found the chain it joins
  size,      \* the length of orphanBlockChains it read before removing that chain
  locked,    \* the orphan chains whose blockChainMutex it holds
  arrival    \* how headers arrive in this behaviour

handlerVars == <<pc, seen, target, slot, size, locked>>
vars == <<tree, head, chains, orphans, requested, offered, handlerVars, arrival>>

BlockOf == arrival.blockOf

NoChain == [root |-> Genesis, nodes |-> {}, head |-> Genesis]

Goto(h, place) == pc' = [pc EXCEPT ![h] = place]
Working(h) == pc[h] \notin {"todo", "done"}
Panicked == \E h \in Handlers : pc[h] = "panic"
Idle == \A h \in Handlers : ~Working(h)
Listed == ToSet(orphans)

(* The chains that hold the block's parent, and those it is the parent of. *)
ChainsBelow(b) == {c \in Listed : PrevHash[b] \in chains[c].nodes}
ChainsAbove(b) == {c \in Listed : PrevHash[chains[c].root] = b}

(* range over orphanBlockChains stops at the first chain that matches.     *)
FirstAt(i, matching) ==
  /\ i \in DOMAIN orphans /\ orphans[i] \in matching
  /\ \A j \in 1..(i - 1) : orphans[j] \notin matching

IsFirst(c, matching) == \E i \in DOMAIN orphans : orphans[i] = c /\ FirstAt(i, matching)

(* Variant: the head of a new orphan chain is left nil.                    *)
NewHeadlessChain(b) == [root |-> b, nodes |-> {b}, head |-> "nil"]

(* initializeOrphanBlockChain.                                             *)
NewChain(b) == [root |-> b, nodes |-> {b}, head |-> b]

(* Variant: the node is linked, but obc.root still is the old one.         *)
WithOldRoot(chain, b) == [chain EXCEPT !.nodes = @ \cup {b}]

WithNewRoot(chain, b) == [chain EXCEPT !.root = b, !.nodes = @ \cup {b}]

(* Variant: nobody is asked.                                               *)
AskNobody(b) == UNCHANGED requested

AskForParent(b) == requested' = requested \cup {PrevHash[b]}

(***************************************************************************)
(* addBlockChainNode on the main chain.                                    *)
(***************************************************************************)

(* The head is read, and a block that is already in the tree is dropped.   *)
Begin(h) ==
  /\ pc[h] = "todo"
  /\ Cardinality({k \in Handlers : Working(k)}) < arrival.atOnce
  /\ IF BlockOf[h] \in tree
     THEN Goto(h, "done") /\ UNCHANGED seen
     ELSE Goto(h, "lookup") /\ seen' = [seen EXCEPT ![h] = head]
  /\ UNCHANGED <<tree, head, chains, orphans, requested, offered, target, slot, size, locked>>

(* Variant: a parent in an orphan chain is good enough.                    *)
LookupAnywhere(h) ==
  /\ pc[h] = "lookup"
  /\ Goto(h, IF \/ PrevHash[BlockOf[h]] \in tree
              \/ ChainsBelow(BlockOf[h]) # {}
             THEN "insert" ELSE "scan")
  /\ UNCHANGED <<tree, head, chains, orphans, requested, offered, seen, target, slot, size, locked>>

(* The parent is looked up in allNodesMap.                                 *)
Lookup(h) ==
  /\ pc[h] = "lookup"
  /\ Goto(h, IF PrevHash[BlockOf[h]] \in tree THEN "insert" ELSE "scan")
  /\ UNCHANGED <<tree, head, chains, orphans, requested, offered, seen, target, slot, size, locked>>

(* The scan takes the lock of every orphan chain it looks at.              *)
CanScan(h) ==
  /\ pc[h] = "scan"
  /\ \A k \in Handlers \ {h} : locked[k] \cap Listed = {}

(* The parent is in an orphan chain: the block is added to that chain, but *)
(* only after all locks are released.                                      *)
FindParent(h) ==
  /\ CanScan(h)
  /\ \E c \in Handlers :
       IsFirst(c, ChainsBelow(BlockOf[h])) /\ target' = [target EXCEPT ![h] = c]
  /\ Goto(h, "extend")
  /\ UNCHANGED <<tree, head, chains, orphans, requested, offered, seen, slot, size, locked>>

(* The block is the parent of an orphan chain's root: it is the new root.  *)
FindChild(h) ==
  /\ CanScan(h)
  /\ ChainsBelow(BlockOf[h]) = {}
  /\ \E c \in Handlers :
       /\ IsFirst(c, ChainsAbove(BlockOf[h]))
       /\ chains' = [chains EXCEPT ![c] = WithNewRoot(@, BlockOf[h])]
  /\ AskForParent(BlockOf[h])
  /\ Goto(h, "done")
  /\ UNCHANGED <<tree, head, orphans, offered, seen, target, slot, size, locked>>

(* The block starts an orphan chain of its own, which is appended while    *)
(* the locks of the others are still held.                                 *)
FindNothing(h) ==
  /\ CanScan(h)
  /\ ChainsBelow(BlockOf[h]) \cup ChainsAbove(BlockOf[h]) = {}
  /\ locked' = [locked EXCEPT ![h] = Listed]
  /\ Goto(h, "append")
  /\ UNCHANGED <<tree, head, chains, orphans, requested, offered, seen, target, slot, size>>

AppendOrphan(h) ==
  /\ pc[h] = "append"
  /\ chains' = [chains EXCEPT ![h] = NewChain(BlockOf[h])]
  /\ orphans' = Append(orphans, h)
  /\ AskForParent(BlockOf[h])
  /\ locked' = [locked EXCEPT ![h] = {}]
  /\ Goto(h, "done")
  /\ UNCHANGED <<tree, head, offered, seen, target, slot, size>>

(* The parent is in the tree: the new node goes into allNodesMap.          *)
Insert(h) ==
  /\ pc[h] = "insert"
  /\ tree' = tree \cup {BlockOf[h]}
  /\ Goto(h, "join")
  /\ UNCHANGED <<head, chains, orphans, requested, offered, seen, target, slot, size, locked>>

(* Variant: the new block is offered in place of the joined chain's head.  *)
OfferOwnBlock(h, b) ==
  offered' = IF BlockCount[b] > BlockCount[seen[h]]
             THEN offered \cup {BlockOf[h]} ELSE offered

(* Only a tip higher than the head that was read first is offered.         *)
Offer(h, b) ==
  offered' = IF BlockCount[b] > BlockCount[seen[h]] THEN offered \cup {b} ELSE offered

(* The first orphan chain that waits for this block is linked to it.       *)
JoinOrphans(h) ==
  /\ pc[h] = "join"
  /\ \E i \in DOMAIN orphans :
       /\ FirstAt(i, ChainsAbove(BlockOf[h]))
       /\ slot' = [slot EXCEPT ![h] = i]
       /\ target' = [target EXCEPT ![h] = orphans[i]]
  /\ Goto(h, "copy")
  /\ UNCHANGED <<tree, head, chains, orphans, requested, offered, seen, size, locked>>

(* Its nodes are copied to allNodesMap.  A handler that extends the chain  *)
(* shares no lock with this one: what it adds later is not in the tree.    *)
CopyChain(h) ==
  /\ pc[h] = "copy"
  /\ tree' = tree \cup chains[target[h]].nodes
  /\ Goto(h, "measure")
  /\ UNCHANGED <<head, chains, orphans, requested, offered, seen, target, slot, size, locked>>

(* The list is measured before its mutex is taken.                         *)
MeasureList(h) ==
  /\ pc[h] = "measure"
  /\ size' = [size EXCEPT ![h] = Len(orphans)]
  /\ Goto(h, "remove")
  /\ UNCHANGED <<tree, head, chains, orphans, requested, offered, seen, target, slot, locked>>

(* The last chain takes the place of the chain at i, and the list is cut.  *)
SwapRemove(i, l) == SubSeq([orphans EXCEPT ![i] = orphans[l]], 1, l - 1)

(* The chain is removed by the index and the length read before.  If       *)
(* another handler has changed the list, they may lead to another chain,   *)
(* or out of the list, where Go panics and the process ends.               *)
RemoveChain(h) ==
  /\ pc[h] = "remove"
  /\ IF {slot[h], size[h]} \subseteq DOMAIN orphans
     THEN orphans' = SwapRemove(slot[h], size[h]) /\ Goto(h, "tip")
     ELSE UNCHANGED orphans /\ Goto(h, "panic")
  /\ UNCHANGED <<tree, head, chains, requested, offered, seen, target, slot, size, locked>>

(* The head of the chain is read now, and offered.                         *)
OfferTip(h) ==
  /\ pc[h] = "tip"
  /\ Offer(h, chains[target[h]].head)
  /\ Goto(h, "done")
  /\ UNCHANGED <<tree, head, chains, orphans, requested, seen, target, slot, size, locked>>

JoinNothing(h) ==
  /\ pc[h] = "join"
  /\ ChainsAbove(BlockOf[h]) = {}
  /\ Offer(h, BlockOf[h])
  /\ Goto(h, "done")
  /\ UNCHANGED <<tree, head, chains, orphans, requested, seen, target, slot, size, locked>>

(***************************************************************************)
(* The deferred call of addBlockChainNode on an orphan chain, which runs   *)
(* without that chain's lock and whether or not the chain has been joined. *)
(***************************************************************************)

(* The chain's head is read, and a block that is already there is dropped. *)
ExtendBegin(h) ==
  /\ pc[h] = "extend"
  /\ IF BlockOf[h] \in chains[target[h]].nodes
     THEN Goto(h, "done") /\ UNCHANGED seen
     ELSE Goto(h, "extendInsert") /\ seen' = [seen EXCEPT ![h] = chains[target[h]].head]
  /\ UNCHANGED <<tree, head, chains, orphans, requested, offered, target, slot, size, locked>>

ExtendInsert(h) ==
  /\ pc[h] = "extendInsert"
  /\ chains' = [chains EXCEPT ![target[h]].nodes = @ \cup {BlockOf[h]}]
  /\ Goto(h, "extendHead")
  /\ UNCHANGED <<tree, head, orphans, requested, offered, seen, target, slot, size, locked>>

ExtendHead(h) ==
  /\ pc[h] = "extendHead"
  /\ chains' = IF BlockCount[BlockOf[h]] > BlockCount[seen[h]]
               THEN [chains EXCEPT ![target[h]].head = BlockOf[h]] ELSE chains
  /\ Goto(h, "done")
  /\ UNCHANGED <<tree, head, orphans, requested, offered, seen, target, slot, size, locked>>

(***************************************************************************)
(* The other goroutines that touch the tree.                               *)
(***************************************************************************)

(* addInternal: a block mined on what was the head when it was prepared    *)
(* enters the tree and is offered, without a look at the orphan chains.    *)
AddInternal(b) ==
  /\ b \in Own \ tree
  /\ PrevHash[b] \in tree /\ BlockCount[PrevHash[b]] <= BlockCount[head]
  /\ tree' = tree \cup {b}
  /\ offered' = offered \cup {b}
  /\ UNCHANGED <<head, chains, orphans, requested, handlerVars>>

(* The updater (UtxoUpdater) makes an offered block, or one below it, the  *)
(* head.                                                                   *)
Adopt(b) ==
  /\ b \in tree
  /\ \E o \in offered : BlockCount[b] <= BlockCount[o]
  /\ BlockCount[b] > BlockCount[head]
  /\ head' = b
  /\ UNCHANGED <<tree, chains, orphans, requested, offered, handlerVars>>

-----------------------------------------------------------------------------
Init ==
  /\ tree = {Genesis} /\ head = Genesis
  /\ chains = [h \in Handlers |-> NoChain] /\ orphans = <<>>
  /\ requested = {} /\ offered = {}
  /\ pc = [h \in Handlers |-> "todo"]
  /\ seen = [h \in Handlers |-> Genesis]
  /\ target = [h \in Handlers |-> h]
  /\ slot = [h \in Handlers |-> 1] /\ size = [h \in Handlers |-> 0]
  /\ locked = [h \in Handlers |-> {}]
  /\ arrival \in Arrivals

Handle(h) ==
  \/ Begin(h) \/ Lookup(h)
  \/ FindParent(h) \/ FindChild(h) \/ FindNothing(h) \/ AppendOrphan(h)
  \/ Insert(h) \/ JoinNothing(h)
  \/ JoinOrphans(h) \/ CopyChain(h) \/ MeasureList(h) \/ RemoveChain(h) \/ OfferTip(h)
  \/ ExtendBegin(h) \/ ExtendInsert(h) \/ ExtendHead(h)

Next ==
  /\ ~Panicked
  /\ \/ \E h \in Handlers : Handle(h)
     \/ \E b \in Blocks : AddInternal(b) \/ Adopt(b)
  /\ UNCHANGED arrival

Spec == Init /\ [][Next]_vars

-----------------------------------------------------------------------------
(* The variables range over the values the fields of the code can hold.    *)
TypeOK ==
  /\ tree \subseteq Blocks /\ head \in tree
  /\ chains \in [Handlers -> [root : Blocks, nodes : SUBSET Blocks, head : Blocks]]
  /\ orphans \in Seq(Handlers)
  /\ requested \subseteq Blocks /\ offered \subseteq Blocks
  /\ pc \in [Handlers -> {"todo", "lookup", "scan", "append", "insert", "join", "copy",
                          "measure", "remove", "tip", "extend", "extendInsert",
                          "extendHead", "done", "panic"}]
  /\ seen \in [Handlers -> Blocks]
  /\ target \in [Handlers -> Handlers]
  /\ slot \in [Handlers -> Nat] /\ size \in [Handlers -> Nat]
  /\ locked \in [Handlers -> SUBSET Handlers]
  /\ arrival \in Arrivals

(* Whatever order the headers arrive and the handlers run in, every block  *)
(* of the tree has its whole chain there.  What is offered is in the tree, *)
(* or in an orphan chain whose root is linked to it: a handler may extend  *)
(* a chain after its nodes were copied and before its head is read.        *)
TreeClosed ==
  /\ \A b \in tree : PrevHash[b] \in tree
  /\ \A o \in offered \ tree : \E c \in Handlers :
       o \in chains[c].nodes /\ PrevHash[chains[c].root] \in tree

(* Every orphan chain, also one that has joined and is extended still, is  *)
(* one tree below its root.  So the updater can descend from what it is    *)
(* offered to the genesis.                                                 *)
ChainsConnected ==
  \A c \in Handlers : chains[c].nodes # {} =>
    /\ chains[c].root \in chains[c].nodes
    /\ PrevHash[chains[c].root] \notin chains[c].nodes
    /\ \A b \in chains[c].nodes \ {chains[c].root} : PrevHash[b] \in chains[c].nodes

(* A block and everything below it: what every set that holds the block    *)
(* and the parent of each of its members must hold.                        *)
Ancestors(b) ==
  {a \in Blocks : \A S \in SUBSET Blocks :
     (b \in S /\ \A c \in S : PrevHash[c] \in S) => a \in S}

(* If headers are handled one at a time and none is handled twice, a       *)
(* handled block that is not in the tree has a missing ancestor whose      *)
(* parent was asked for.                                                   *)
GapAskedFor ==
  Idle /\ arrival.atOnce = 1 /\ IsInjective(BlockOf) => \A h \in Handlers :
    (pc[h] = "done" /\ BlockOf[h] \notin tree) =>
      \E a \in Ancestors(BlockOf[h]) \ tree : PrevHash[a] \in requested

(* If headers are handled one at a time, something at least as high as any *)
(* block of the tree has been offered to the updater or is the head; and   *)
(* what was offered is in the tree, so that addData will find its node.    *)
BestOffered ==
  Idle /\ arrival.atOnce = 1 =>
    /\ offered \subseteq tree
    /\ \A b \in tree : \E o \in offered \cup {head} : BlockCount[o] >= BlockCount[b]

-----------------------------------------------------------------------------
(* "addBlockChainNode adds a block based on its hash and does internal     *)
(* bookkeeping of the tree" (BlockchainCore.go:13): with every handler     *)
(* done, a handled block is in the tree or in an orphan chain.             *)
NothingLost ==
  Idle => \A h \in Handlers :
    pc[h] = "done" => \/ BlockOf[h] \in tree
                      \/ \E c \in Listed : BlockOf[h] \in chains[c].nodes
=============================================================================
