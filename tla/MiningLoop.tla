----------------------------- MODULE MiningLoop -----------------------------
(***************************************************************************)
(* MineContiniously, the goroutine that mines, against the updater, which  *)
(* moves the head and interrupts the mining of a block on the old one.     *)
(* They share the head, isMining (under the miner's generalMutex), the     *)
(* unbuffered channel interrupt and the unbuffered channel utxoChan.       *)
(* Every call of debugPrint takes generalMutex for a moment; only the      *)
(* updater ever holds it while it waits for something else.                *)
(***************************************************************************)
EXTENDS Naturals, FiniteSets

CONSTANTS
  MaxHeight,  \* bound: peers mine blocks up to this height
  MaxMined    \* bound: the miner mines this many blocks

ASSUME BoundAssumption == MaxHeight \in Nat /\ MaxMined \in Nat

(* A block is its height and who mined it; the n-th own block.             *)
Peer == 0
Block == [height : Nat, by : Nat]
GenesisBlock == [height |-> 0, by |-> Peer]

VARIABLES
  head,       \* bc.head
  ready,      \* whether the head's uTxOManagerPointer is set
  mutex,      \* who holds Miner.generalMutex across a step: "free" or "updater"
  isMining,
  pcM,        \* where the mining goroutine is
  chosenOn,   \* the head its transactions were verified against
  base,       \* the head its block was prepared on
  found,      \* whether mineBlock returns a block
  mined,      \* how many blocks it has mined
  pcU,        \* where the updater is
  current,    \* the block the updater works on
  queue,      \* the blocks waiting to be received from utxoChan
  sound,      \* the own blocks mined with transactions verified on their parent
  arrived     \* the peers' blocks received

minerVars == <<pcM, chosenOn, base, found, mined, sound>>
vars == <<head, ready, mutex, isMining, minerVars, pcU, current, queue, arrived>>

(* Variant: the block count goes down.                                     *)
NewBlockBelow == [height |-> base.height - 1, by |-> mined]

NewBlock == [height |-> base.height + 1, by |-> mined]

GotoM(place) == pcM' = place
GotoU(place) == pcU' = place

-----------------------------------------------------------------------------
(* generateTransctionBlockGroup: without a manager at the head it returns  *)
(* nil and MineContiniously tries again; otherwise the transactions are    *)
(* verified against the manager of this head.                              *)
Choose ==
  /\ pcM = "choose" /\ mutex = "free" /\ mined < MaxMined
  /\ ready
  /\ chosenOn' = head
  /\ GotoM("prepare")
  /\ UNCHANGED <<head, ready, mutex, isMining, base, found, mined, pcU, current, queue,
                 sound, arrived>>

(* prepareBlockForMining reads the head again and builds on it.            *)
Prepare ==
  /\ pcM = "prepare" /\ mutex = "free"
  /\ base' = head
  /\ GotoM("start")
  /\ UNCHANGED <<head, ready, mutex, isMining, chosenOn, found, mined, pcU, current, queue,
                 sound, arrived>>

(* mineBlock announces itself under generalMutex.                          *)
Start ==
  /\ pcM = "start" /\ mutex = "free"
  /\ isMining' = TRUE
  /\ GotoM("select")
  /\ UNCHANGED <<head, ready, mutex, chosenOn, base, found, mined, pcU, current, queue,
                 sound, arrived>>

(* Variant: the updater forgets to unlock after it was heard.              *)
InterruptedLocked ==
  /\ pcM = "select" /\ pcU = "send"
  /\ found' = FALSE
  /\ GotoM("stop") /\ GotoU("update")
  /\ UNCHANGED <<mutex, head, ready, isMining, chosenOn, base, mined, current, queue,
                 sound, arrived>>

(* select: the updater is sending on interrupt; both go on, and the        *)
(* updater unlocks generalMutex.                                           *)
Interrupted ==
  /\ pcM = "select" /\ pcU = "send"
  /\ found' = FALSE
  /\ mutex' = "free"
  /\ GotoM("stop") /\ GotoU("update")
  /\ UNCHANGED <<head, ready, isMining, chosenOn, base, mined, current, queue,
                 sound, arrived>>

(* select, default: nobody is sending at this moment.                      *)
NotInterrupted ==
  /\ pcM = "select" /\ pcU # "send"
  /\ GotoM("hash")
  /\ UNCHANGED <<head, ready, mutex, isMining, chosenOn, base, found, mined, pcU, current,
                 queue, sound, arrived>>

(* compHash fails and the nonce is advanced.                               *)
NextNonce ==
  /\ pcM = "hash"
  /\ GotoM("select")
  /\ UNCHANGED <<head, ready, mutex, isMining, chosenOn, base, found, mined, pcU, current,
                 queue, sound, arrived>>

(* compHash accepts the hash.                                              *)
Found ==
  /\ pcM = "hash"
  /\ found' = TRUE
  /\ GotoM("stop")
  /\ UNCHANGED <<head, ready, mutex, isMining, chosenOn, base, mined, pcU, current, queue,
                 sound, arrived>>

(* Variant: isMining is reset without generalMutex.                        *)
StopUnlocked ==
  /\ pcM = "stop"
  /\ isMining' = FALSE
  /\ mined' = IF found THEN mined + 1 ELSE mined
  /\ GotoM(IF found THEN "add" ELSE "choose")
  /\ UNCHANGED <<head, ready, mutex, chosenOn, base, found, pcU, current, queue, sound, arrived>>

(* The deferred function of mineBlock, and the branch on its result.       *)
Stop ==
  /\ pcM = "stop" /\ mutex = "free"
  /\ isMining' = FALSE
  /\ mined' = IF found THEN mined + 1 ELSE mined
  /\ GotoM(IF found THEN "add" ELSE "choose")
  /\ UNCHANGED <<head, ready, mutex, chosenOn, base, found, pcU, current, queue, sound, arrived>>

(* addInternal offers the block to the updater and blocks until it takes   *)
(* it.                                                                     *)
AddInternal ==
  /\ pcM = "add" /\ mutex = "free"
  /\ queue' = queue \cup {NewBlock}
  /\ sound' = IF chosenOn = base THEN sound \cup {NewBlock} ELSE sound
  /\ GotoM("offered")
  /\ UNCHANGED <<head, ready, mutex, isMining, chosenOn, base, found, mined, pcU, current,
                 arrived>>

(* The updater has taken it; it is broadcast and the next round begins.    *)
Broadcast ==
  /\ pcM = "offered" /\ NewBlock \notin queue
  /\ GotoM("choose")
  /\ UNCHANGED <<head, ready, mutex, isMining, chosenOn, base, found, mined, pcU, current,
                 queue, sound, arrived>>

-----------------------------------------------------------------------------
(* A peer's block comes in and its handler sends it on utxoChan.           *)
Arrive(h) ==
  /\ [height |-> h, by |-> Peer] \notin arrived
  /\ arrived' = arrived \cup {[height |-> h, by |-> Peer]}
  /\ queue' = queue \cup {[height |-> h, by |-> Peer]}
  /\ UNCHANGED <<head, ready, mutex, isMining, minerVars, pcU, current>>

(* The updater takes a block. An own block brings its data; for one of a   *)
(* peer, or an ancestor of it, the data may still have to be requested.    *)
Receive(b) ==
  /\ pcU = "idle" /\ b \in queue
  /\ queue' = queue \ {b}
  /\ current' = b
  /\ \/ GotoU("verify")
     \/ b.by = Peer /\ GotoU("await")
  /\ UNCHANGED <<head, ready, mutex, isMining, minerVars, arrived>>

(* The data comes and the updater, which waits on dataHasArrived without   *)
(* holding a lock, goes on. Nothing in the code makes a peer answer, asks  *)
(* again or gives up, so this action is not fair.                          *)
DataArrives ==
  /\ pcU = "await"
  /\ GotoU("verify")
  /\ UNCHANGED <<head, ready, mutex, isMining, minerVars, current, queue, arrived>>

(* An own block whose transactions were verified on another head may spend *)
(* what its own chain has spent already.                                   *)
Reject ==
  /\ pcU = "verify" /\ mutex = "free"
  /\ current.by # Peer /\ current \notin sound
  /\ GotoU("idle")
  /\ UNCHANGED <<head, ready, mutex, isMining, minerVars, current, queue, arrived>>

(* A good block that is higher becomes the head, whose manager is then     *)
(* still to be built.                                                      *)
Verify ==
  /\ pcU = "verify" /\ mutex = "free"
  /\ IF current.height > head.height
     THEN head' = current /\ ready' = FALSE /\ GotoU("signal")
     ELSE UNCHANGED <<head, ready>> /\ GotoU("update")
  /\ UNCHANGED <<mutex, isMining, minerVars, current, queue, arrived>>

(* Under generalMutex: if the miner is mining, the updater sends on        *)
(* interrupt and keeps the mutex until somebody receives.                  *)
Signal ==
  /\ pcU = "signal" /\ mutex = "free"
  /\ IF isMining THEN mutex' = "updater" /\ GotoU("send")
                 ELSE UNCHANGED mutex /\ GotoU("update")
  /\ UNCHANGED <<head, ready, isMining, minerVars, current, queue, arrived>>

(* updateWithNextBlockChainNode.                                           *)
Update ==
  /\ pcU = "update" /\ mutex = "free"
  /\ ready' = (ready \/ current = head)
  /\ GotoU("idle")
  /\ UNCHANGED <<head, mutex, isMining, minerVars, current, queue, arrived>>

-----------------------------------------------------------------------------
Init ==
  /\ head = GenesisBlock /\ ready = TRUE
  /\ mutex = "free" /\ isMining = FALSE
  /\ pcM = "choose" /\ chosenOn = GenesisBlock /\ base = GenesisBlock
  /\ found = FALSE /\ mined = 0
  /\ pcU = "idle" /\ current = GenesisBlock /\ queue = {} /\ sound = {} /\ arrived = {}

Mine ==
  \/ Choose \/ Prepare \/ Start
  \/ Interrupted \/ NotInterrupted \/ NextNonce \/ Found \/ Stop
  \/ AddInternal \/ Broadcast

UpdaterStep ==
  \/ \E b \in queue : Receive(b)
  \/ Reject \/ Verify \/ Signal \/ Update

Next == Mine \/ UpdaterStep \/ DataArrives \/ \E h \in 1..MaxHeight : Arrive(h)

Spec == Init /\ [][Next]_vars

(* The scheduler runs both goroutines, and hashing ends some time. Nothing *)
(* is assumed of DataArrives and Arrive, which are the network's.          *)
Fairness == WF_vars(Mine) /\ SF_vars(Found) /\ WF_vars(UpdaterStep)

FairSpec == Spec /\ Fairness

-----------------------------------------------------------------------------
(* The variables range over the values the fields of the code can hold.    *)
TypeOK ==
  /\ head \in Block /\ ready \in BOOLEAN
  /\ mutex \in {"free", "updater"} /\ isMining \in BOOLEAN
  /\ pcM \in {"choose", "prepare", "start", "select", "hash", "stop", "add", "offered"}
  /\ chosenOn \in Block /\ base \in Block /\ found \in BOOLEAN /\ mined \in Nat
  /\ pcU \in {"idle", "await", "verify", "signal", "send", "update"}
  /\ current \in Block /\ queue \subseteq Block /\ sound \subseteq Block
  /\ arrived \subseteq Block

(* The updater waits on interrupt only while mineBlock has not returned:   *)
(* the mutex keeps the answer it got from isMining true.                   *)
InterruptHasListener == pcU = "send" => pcM \in {"select", "hash", "stop"}

(* The one state in which both goroutines wait for each other: mineBlock   *)
(* is about to return, and needs generalMutex to say so, when the updater, *)
(* which holds it, begins to interrupt.                                    *)
Stuck == pcU = "send" /\ pcM = "stop"

(* Then it is over for both: blocks of peers still arrive, but the head    *)
(* never moves again and no block is mined, until go-deadlock, which waits *)
(* 30 seconds for a mutex by default, ends the process.                    *)
StuckForEver ==
  [][Stuck => UNCHANGED <<head, ready, mutex, isMining, minerVars, pcU, current>>]_vars

(* The miner offers a block that nobody takes, because the updater waits   *)
(* for data. These are waits on channels: go-deadlock sees none of them.   *)
Starved == pcU = "await" /\ pcM = "offered"

(* Done is the end of the bounded run.                                     *)
Done == mined = MaxMined /\ pcM = "choose"

(* Two things keep the miner from starting round after round: the deadlock *)
(* with the updater, and data that was requested and never comes, behind   *)
(* which the miner's own block waits to be taken from utxoChan.            *)
StopsOnlyWhenStuckOrStarved ==
  []<>(pcM = "prepare") \/ <>[]Stuck \/ <>[]Starved \/ <>Done

-----------------------------------------------------------------------------
(* Every wait for data ends.                                               *)
DataComes == []<>(pcU # "await")

(* "MineContiniously does what it says" (miner.go:131): it starts round    *)
(* after round, at least when the peers deliver the data asked of them.    *)
MinesContinuously == DataComes => ([]<>(pcM = "prepare") \/ <>Done)
=============================================================================
