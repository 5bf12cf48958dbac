---------------------------- MODULE UtxoUpdater ----------------------------
(***************************************************************************)
(* One miner's chain state and the goroutines of utxoUpdater that maintain *)
(* it.  An updater takes a block from utxoChan and runs verifyAndBuildDown *)
(* on it: it descends, asking for missing transaction data, to the nearest *)
(* ancestor that still holds an unspent-output manager, then climbs back,  *)
(* verifying each block and moving the manager on to it.  A copy of the    *)
(* manager stays behind every SavepointEvery blocks, so a fork can be      *)
(* rebuilt later.                                                          *)
(*                                                                         *)
(* Network goroutines (new headers, joined orphan chains, data) and the    *)
(* mining goroutine run concurrently and appear as actions of their own.   *)
(* A block has one node here: one that is linked but not in allNodesMap is *)
(* not added a second time.                                                *)
(***************************************************************************)
EXTENDS BlockUniverse, FiniteSets

CONSTANTS
  Updaters,       \* the goroutines running utxoUpdater
  Own,            \* the blocks this miner mines itself (they enter by addInternal)
  Received,       \* the outputs addressed to this miner's wallet
  SavepointEvery, \* 5 in the code: keepCopy := _newHeight%5 == 1
  NoUm            \* the nil uTxOManagerPointer

ASSUME UpdaterAssumption ==
  /\ Own \subseteq Blocks \ {Genesis}
  /\ Received \subseteq Ref
  /\ SavepointEvery \in Nat /\ SavepointEvery > 1

(* An unspent-output manager: the node it is attached to, and its map.     *)
Manager == [attached : Blocks, unspent : SUBSET Ref]

ASSUME NoUmAssumption == NoUm \notin Manager \cup Blocks

VARIABLES
  known,      \* allNodesMap: the blocks linked into the main tree
  unmapped,   \* blocks linked above the tree by a join, but not in allNodesMap
  data,       \* per block: its transaction data, and whether its inputs were resolved
  requested,  \* blocks whose data was asked for
  arriving,   \* blocks whose addData goroutine is blocked sending on dataHasArrived
  pending,    \* blocks some goroutine is blocked sending on utxoChan
  um,         \* uTxOManagerPointer of every node, NoUm for nil
  verified,   \* verifiedWithUtxoManager
  bad,        \* badblock
  head,       \* bc.head
  height,     \* bc.Height
  credited,   \* how often the wallet has scanned a block and recorded its outputs
  pc,         \* where each updater is in verifyAndBuildDown
  stack,      \* its recursion, innermost call first
  waiting,    \* the calls on its stack that will block on dataHasArrived
  held,       \* the node now holding the manager it took as prevUTXO, or NoUm
  crashed     \* "no", "panic" (nil dereference) or "fatal" (log.Fatal)

netVars == <<known, unmapped, data, requested, arriving, pending>>
treeVars == <<um, verified, bad, head, height>>
threadVars == <<pc, stack, waiting, held>>
vars == <<netVars, treeVars, credited, threadVars, crashed>>

(* A panic or log.Fatal in any goroutine ends the process.                 *)
Running == crashed = "no"

Top(u) == Head(stack[u])
Parent(u) == PrevHash[Top(u)]
At(u, place) == Running /\ pc[u] = place
Goto(u, place) == pc' = [pc EXCEPT ![u] = place]

(* Variant: no savepoints at all.                                          *)
NeverKeepCopy(b) == FALSE

KeepCopy(b) == BlockCount[b] % SavepointEvery = 1

(* Variant: a block as high as the head replaces it.                       *)
AtLeastAsHigh(b) == BlockCount[b] >= height

(* Variant: the last block verified becomes the head.                      *)
AnyHeight(b) == TRUE

Higher(b) == BlockCount[b] > height

(* getTransactionOutput finds the output a reference names only if its     *)
(* block is in the main tree and that block's data has arrived.            *)
Resolvable(ref) ==
  /\ ref[1] \in known
  /\ data[ref[1]] # "none"
  /\ ref \in OutputsOf(ref[1])

(***************************************************************************)
(* The environment of the updaters.                                        *)
(***************************************************************************)

(* A new tip goes to the updater if it is higher than the head the handler *)
(* read when it began; that head may have been overtaken in the meantime.  *)
Offer(b) ==
  \/ pending' = pending \cup {b}
  \/ BlockCount[b] <= BlockCount[head] /\ UNCHANGED pending

(* addBlockChainNode, the ordinary case: the parent is in the tree.        *)
AddBlock(b) ==
  /\ Running
  /\ b \notin known \cup unmapped \cup Own /\ PrevHash[b] \in known
  /\ known' = known \cup {b}
  /\ Offer(b)
  /\ UNCHANGED <<unmapped, data, requested, arriving, treeVars, credited, threadVars, crashed>>

(* addBlockChainNode, when the block is the missing parent of an orphan    *)
(* chain: the whole chain is linked to the tree and only its head is       *)
(* offered.  Which of its blocks that is, BlockTree says; here it may be   *)
(* any.  A block that extends the chain after its nodes were copied is     *)
(* linked, and may be the head, but is not in allNodesMap.                 *)
JoinOrphans(b, orphans, copied, tip) ==
  /\ Running
  /\ b \notin known \cup unmapped \cup Own /\ PrevHash[b] \in known
  /\ \A o \in orphans : PrevHash[o] \in orphans \cup {b}
  /\ Cardinality({o \in orphans : PrevHash[o] = b}) = 1
  /\ \A o \in copied : PrevHash[o] \in copied \cup {b}
  /\ known' = known \cup {b} \cup copied
  /\ unmapped' = unmapped \cup (orphans \ copied)
  /\ Offer(tip)
  /\ UNCHANGED <<data, requested, arriving, treeVars, credited, threadVars, crashed>>

(* addInternal: the mining goroutine adds a block it mined, with its data, *)
(* on a block that has been head, and blocks until an updater takes it.    *)
AddInternal(b) ==
  /\ Running
  /\ b \in Own \ known /\ PrevHash[b] \in verified \cup {Genesis}
  /\ pending \cap Own = {}
  /\ known' = known \cup {b}
  /\ data' = [data EXCEPT ![b] = "resolved"]
  /\ pending' = pending \cup {b}
  /\ UNCHANGED <<unmapped, requested, arriving, treeVars, credited, threadVars, crashed>>

(* Variant: the data is stored and nobody is told.                         *)
AddDataSilently(b) ==
  /\ Running
  /\ b \in requested \cap known /\ data[b] = "none"
  /\ data' = [data EXCEPT ![b] = IF \A r \in SpentBy(b) : Resolvable(r)
                                 THEN "resolved" ELSE "unresolved"]
  /\ UNCHANGED <<known, unmapped, requested, arriving, pending, treeVars,
                 credited, threadVars, crashed>>

(* addData: a peer's answer to a request.  The inputs are resolved against *)
(* the data present at this moment, and never again.  The goroutine then   *)
(* blocks until a call of verifyAndBuildDown receives the signal.  A block *)
(* that already has data is left alone, and data of a block that is not in *)
(* allNodesMap is dropped.                                                 *)
AddData(b) ==
  /\ Running
  /\ b \in requested \cap known /\ data[b] = "none"
  /\ data' = [data EXCEPT ![b] = IF \A r \in SpentBy(b) : Resolvable(r)
                                 THEN "resolved" ELSE "unresolved"]
  /\ arriving' = arriving \cup {b}
  /\ UNCHANGED <<known, unmapped, requested, pending, treeVars, credited, threadVars, crashed>>

(***************************************************************************)
(* The updater.                                                            *)
(***************************************************************************)

(* utxoUpdater receives from utxoChan and calls verifyAndBuildDown.        *)
Receive(u, b) ==
  /\ At(u, "idle")
  /\ b \in pending
  /\ pending' = pending \ {b}
  /\ stack' = [stack EXCEPT ![u] = <<b>>]
  /\ Goto(u, "enter")
  /\ UNCHANGED <<known, unmapped, data, requested, arriving, treeVars,
                 credited, waiting, held, crashed>>

(* return nil: the caller, if any, goes on to wait for its own data.       *)
Return(u) ==
  /\ stack' = [stack EXCEPT ![u] = Tail(@)]
  /\ Goto(u, IF Tail(stack[u]) = <<>> THEN "idle" ELSE "await")

AlreadyUpToDate(u) ==
  /\ At(u, "enter")
  /\ um[Top(u)] # NoUm
  /\ Return(u)
  /\ UNCHANGED <<netVars, treeVars, credited, waiting, held, crashed>>

(* The call asks every peer for data it lacks and remembers to wait.  If   *)
(* the parent has no manager it is built first, by a recursive call.       *)
Descend(u) ==
  /\ At(u, "enter")
  /\ um[Top(u)] = NoUm
  /\ IF data[Top(u)] = "none"
     THEN /\ requested' = requested \cup {Top(u)}
          /\ waiting' = [waiting EXCEPT ![u] = @ \cup {Top(u)}]
     ELSE UNCHANGED <<requested, waiting>>
  /\ IF um[Parent(u)] = NoUm
     THEN stack' = [stack EXCEPT ![u] = <<Parent(u)>> \o @] /\ UNCHANGED pc
     ELSE Goto(u, "await") /\ UNCHANGED stack
  /\ UNCHANGED <<known, unmapped, data, arriving, pending, treeVars, credited, held, crashed>>

(* <-bcn.dataHasArrived, for a call that asked for data.                   *)
Await(u) ==
  /\ At(u, "await")
  /\ Top(u) \in waiting[u] => Top(u) \in arriving
  /\ arriving' = IF Top(u) \in waiting[u] THEN arriving \ {Top(u)} ELSE arriving
  /\ waiting' = [waiting EXCEPT ![u] = @ \ {Top(u)}]
  /\ Goto(u, "verify")
  /\ UNCHANGED <<known, unmapped, data, requested, pending, treeVars,
                 credited, stack, held, crashed>>

(* The manager taken as prevUTXO is dereferenced for every input, and then *)
(* by updateWithNextBlockChainNode; VerifyExceptUTXO dereferences the      *)
(* OutputBlock of every input.  Any of them may be nil.                    *)
View(manager) == IF manager = NoUm THEN {} ELSE manager.unspent

NilManager(u) == um[Parent(u)] = NoUm /\ SpentBy(Top(u)) # {}

NilOutput(u) == data[Top(u)] = "unresolved"

Panic(u) ==
  /\ \/ At(u, "verify") /\ (NilManager(u) \/ NilOutput(u))
     \/ At(u, "apply") /\ held[u] = NoUm
  /\ crashed' = "panic"
  /\ UNCHANGED <<netVars, treeVars, credited, threadVars>>

(* Variant: signatures and amounts are not looked at.                      *)
OnlySpendable(b, manager) == RefsSpendable(View(manager), b)

(* Variant: the references are not looked up.                              *)
OnlySigned(b, manager) == SignaturesOk[b]

Acceptable(b, manager) == RefsSpendable(View(manager), b) /\ SignaturesOk[b]

(* A bad block ends the whole recursion: every caller returns the error.   *)
(* A wrong signature may be met before the first nil OutputBlock.          *)
Reject(u) ==
  /\ At(u, "verify")
  /\ ~NilManager(u)
  /\ NilOutput(u) => ~SignaturesOk[Top(u)]
  /\ ~Acceptable(Top(u), um[Parent(u)])
  /\ bad' = bad \cup {Top(u)}
  /\ stack' = [stack EXCEPT ![u] = <<>>]
  /\ waiting' = [waiting EXCEPT ![u] = {}]
  /\ Goto(u, "idle")
  /\ UNCHANGED <<netVars, um, verified, head, height, credited, held, crashed>>

(* A good block becomes the head if it is higher, before its manager is    *)
(* there, and the mining goroutine is interrupted.                         *)
Accept(u) ==
  /\ At(u, "verify")
  /\ ~NilManager(u) /\ ~NilOutput(u)
  /\ Acceptable(Top(u), um[Parent(u)])
  /\ verified' = verified \cup {Top(u)}
  /\ IF Higher(Top(u))
     THEN head' = Top(u) /\ height' = BlockCount[Top(u)] /\ Goto(u, "interrupt")
     ELSE UNCHANGED <<head, height>> /\ Goto(u, "apply")
  /\ held' = [held EXCEPT ![u] = IF um[Parent(u)] = NoUm THEN NoUm ELSE Parent(u)]
  /\ UNCHANGED <<netVars, um, bad, credited, stack, waiting, crashed>>

(* interrupt <- true, if the miner is mining: the send blocks until the    *)
(* mining goroutine receives it, which it may never do (see MiningLoop).   *)
InterruptMiner(u) ==
  /\ At(u, "interrupt")
  /\ Goto(u, "apply")
  /\ UNCHANGED <<netVars, treeVars, credited, stack, waiting, held, crashed>>

(* The checks of updateWithNextBlockChainNode that lead to log.Fatal.      *)
Updatable(u) ==
  /\ um[held[u]].attached = Parent(u)
  /\ um[Parent(u)] # NoUm
  /\ RefsSpendable(um[held[u]].unspent, Top(u))

(* Variant: the copy is not attached to the node it is stored at.          *)
CopyUnattached(node, manager) == [attached |-> NoUm, unspent |-> manager.unspent]

(* Deepcopy, stored at a node.                                             *)
CopyAt(node, manager) == [attached |-> node, unspent |-> manager.unspent]

(* Variant: spent outputs stay in the map.                                 *)
MovedNotSpending(node, manager) ==
  [attached |-> node, unspent |-> manager.unspent \cup OutputsOf(node)]

(* Variant: the node is not given the pointer to the manager.              *)
MovedAway(node, manager) == NoUm

(* The manager after the block of the node it moves to.                    *)
MovedTo(node, manager) ==
  [attached |-> node, unspent |-> ApplyBlock(manager.unspent, node)]

(* updateWithNextBlockChainNode: the manager moves on to the block, a copy *)
(* stays with the parent after a savepoint, otherwise the parent is left   *)
(* without one.  Any updater holding the same manager sees it move.        *)
Apply(u) ==
  /\ At(u, "apply")
  /\ held[u] # NoUm /\ Updatable(u)
  /\ um' = [um EXCEPT
       ![Parent(u)] = IF KeepCopy(Top(u)) THEN CopyAt(Parent(u), um[held[u]]) ELSE NoUm,
       ![Top(u)] = MovedTo(Top(u), um[held[u]])]
  /\ held' = [v \in Updaters |-> IF held[v] = held[u] THEN Top(u) ELSE held[v]]
  /\ Goto(u, "credit")
  /\ UNCHANGED <<netVars, verified, bad, head, height, credited, stack, waiting, crashed>>

FatalUpdate(u) ==
  /\ At(u, "apply")
  /\ held[u] # NoUm /\ ~Updatable(u)
  /\ crashed' = "fatal"
  /\ UNCHANGED <<netVars, treeVars, credited, threadVars>>

(* Variant: the wallet is told of a block only when it is the head.        *)
CreditHeadOnly(u) ==
  /\ At(u, "credit")
  /\ credited' = [credited EXCEPT ![Top(u)] = IF Top(u) = head THEN @ + 1 ELSE @]
  /\ Return(u)
  /\ UNCHANGED <<netVars, treeVars, waiting, held, crashed>>

(* Wallet.updateWithBlock appends the block's own outputs, whatever it has *)
(* recorded before, and the call returns.  (The transaction pool, updated  *)
(* in the same place, shares no state with this module.)                   *)
Credit(u) ==
  /\ At(u, "credit")
  /\ credited' = [credited EXCEPT ![Top(u)] = @ + 1]
  /\ Return(u)
  /\ UNCHANGED <<netVars, treeVars, waiting, held, crashed>>

-----------------------------------------------------------------------------
(* CreateMiner and BlockChainGenesis: the genesis node alone, with an      *)
(* empty manager.                                                          *)
Init ==
  /\ known = {Genesis} /\ unmapped = {}
  /\ data = [b \in Blocks |-> "none"]
  /\ requested = {} /\ arriving = {} /\ pending = {}
  /\ um = [b \in Blocks |-> IF b = Genesis
                            THEN [attached |-> Genesis, unspent |-> {}] ELSE NoUm]
  /\ verified = {} /\ bad = {}
  /\ head = Genesis /\ height = 0
  /\ credited = [b \in Blocks |-> 0]
  /\ pc = [u \in Updaters |-> "idle"]
  /\ stack = [u \in Updaters |-> <<>>]
  /\ waiting = [u \in Updaters |-> {}]
  /\ held = [u \in Updaters |-> Genesis]
  /\ crashed = "no"

Environment ==
  \/ \E b \in Blocks : AddBlock(b) \/ AddInternal(b) \/ AddData(b)
  \/ \E b \in Blocks : \E orphans \in SUBSET (Blocks \ (known \cup unmapped \cup Own \cup {b})) :
       \E copied \in SUBSET orphans \ {{}} : \E tip \in orphans :
         JoinOrphans(b, orphans, copied, tip)

Step(u) ==
  \/ \E b \in Blocks : Receive(u, b)
  \/ AlreadyUpToDate(u) \/ Descend(u) \/ Await(u)
  \/ Panic(u) \/ Reject(u) \/ Accept(u)
  \/ Apply(u) \/ FatalUpdate(u) \/ Credit(u)

Next == Environment \/ \E u \in Updaters : Step(u) \/ InterruptMiner(u)

Spec == Init /\ [][Next]_vars

(* Goroutines are scheduled fairly.  That a peer answers a request, or     *)
(* that the miner listens to its interrupt, is not assumed.                *)
Fairness == \A u \in Updaters : WF_vars(Step(u))

FairSpec == Spec /\ Fairness

-----------------------------------------------------------------------------
(* The variables range over the values the fields of the code can hold.    *)
TypeOK ==
  /\ known \subseteq Blocks /\ unmapped \subseteq Blocks
  /\ data \in [Blocks -> {"none", "resolved", "unresolved"}]
  /\ requested \subseteq Blocks /\ arriving \subseteq Blocks /\ pending \subseteq Blocks
  /\ um \in [Blocks -> Manager \cup {NoUm}]
  /\ verified \subseteq Blocks /\ bad \subseteq Blocks
  /\ head \in Blocks /\ height \in Nat
  /\ credited \in [Blocks -> Nat]
  /\ pc \in [Updaters -> {"idle", "enter", "await", "verify", "interrupt", "apply", "credit"}]
  /\ stack \in [Updaters -> Seq(Blocks)]
  /\ waiting \in [Updaters -> SUBSET Blocks]
  /\ held \in [Updaters -> Blocks \cup {NoUm}]
  /\ crashed \in {"no", "panic", "fatal"}

(* Whatever forks were built, abandoned and rebuilt from savepoints, a     *)
(* manager a node holds is attached to that node and contains exactly the  *)
(* outputs that replaying the node's own chain leaves unspent.             *)
UtxoFaithful ==
  \A b \in Blocks : um[b] # NoUm =>
    um[b].attached = b /\ um[b].unspent = Ledger[b]

(* verifyAndBuildDown decides right: it passes only blocks whose whole     *)
(* chain is valid, and never marks a block of a valid chain as bad.        *)
VerdictsCorrect == verified \subseteq Valid /\ bad \cap Valid = {}

(* However many updaters share the tree, a verified block was signed       *)
(* correctly and stands on a verified chain: no interleaving lets a block  *)
(* overtake its parent's verification.                                     *)
VerifiedChains ==
  \A b \in verified : SignaturesOk[b] /\ PrevHash[b] \in verified \cup {Genesis}

(* The head is a highest verified block, and Height is the head's height.  *)
HeadIsHighestVerified ==
  /\ head \in verified \cup {Genesis}
  /\ height = BlockCount[head]
  /\ \A b \in verified : BlockCount[b] <= height

(* Whenever no call is in progress the head has its manager, so a payment, *)
(* a balance or a new block can be prepared on it.                         *)
HeadReadyWhenIdle ==
  (\A u \in Updaters : pc[u] = "idle") => um[head] # NoUm

(* updateWithNextBlockChainNode never fails on a block that was verified,  *)
(* so log.Fatal is not reached.                                            *)
NeverFatal == crashed # "fatal"

(* A call re-verifies at most the blocks above the last savepoint.         *)
RebuildIsShort ==
  \A u \in Updaters :
    Cardinality({i \in 1..Len(stack[u]) : stack[u][i] \in verified}) < SavepointEvery

(* Wallet.TotalAvailable, each output counting 1: the recorded outputs     *)
(* that the head's manager says are unspent, as often as they are recorded.*)
TotalAvailable ==
  IF um[head] = NoUm THEN 0
  ELSE LET own == Received \cap um[head].unspent
       IN Cardinality(UNION {{r} \X (1..credited[r[1]]) : r \in own})

(* No own output that is unspent at the head is missing from the wallet    *)
(* once the updaters are idle, and the balance is right unless some block  *)
(* had to be verified, and so was credited, a second time.                 *)
WalletMissesNothing ==
  (\A u \in Updaters : pc[u] = "idle") =>
    LET due == Received \cap um[head].unspent
    IN /\ \A r \in due : credited[r[1]] > 0
       /\ (\A b \in Blocks : credited[b] <= 1) => TotalAvailable = Cardinality(due)

(* A savepoint, once there, is never given up.                             *)
SavepointsRemain ==
  [][\A b \in Blocks :
       (um[b] # NoUm /\ BlockCount[b] % SavepointEvery = 0) => um'[b] # NoUm]_vars

(* The updater waits for the data of a block and none is there: no peer    *)
(* answered, or the answer was dropped.  Or it interrupts the miner.       *)
Blocked(u) ==
  \/ pc[u] = "await" /\ Top(u) \in waiting[u] /\ data[Top(u)] = "none"
  \/ pc[u] = "interrupt"

(* Every valid block offered to the updater is eventually verified, unless *)
(* the process dies first, or the updater stops for good where it waits    *)
(* for others: for data that never gets into the tree, or for a miner that *)
(* never takes its interrupt.  Data that is there always wakes it up.      *)
OfferedIsVerified ==
  \A b \in Valid :
    b \in pending ~> (b \in verified \/ ~Running \/ [](\E u \in Updaters : Blocked(u)))

(* To a reader of the head and of its manager, the updater implements      *)
(* LongestChain: a published view is exact and is not taken back while the *)
(* head stays, though forks are rebuilt beside it.                         *)
HeadView == IF um[head] = NoUm THEN NoUm ELSE um[head].unspent

Abstract == INSTANCE LongestChain WITH NoView <- NoUm, view <- HeadView

ImplementsLongestChain == Abstract!Spec

-----------------------------------------------------------------------------
(* "Here it is checked whether the block and its data is vallid"           *)
(* (BlockchainCore.go:14): the check ends in a verdict, not in a panic.    *)
CheckEndsInVerdict == crashed # "panic"
=============================================================================
