-------------------------- MODULE MiningLoop_proofs --------------------------
(***************************************************************************)
(* What holds between the mining goroutine and the updater for every       *)
(* number of blocks.                                                       *)
(***************************************************************************)
EXTENDS MiningLoop, TLAPS

(* The updater holds generalMutex exactly while it sends on interrupt, and *)
(* it sends only to a miner that said it is mining; isMining is reset      *)
(* under that mutex, so the answer stays true.                             *)
MutexOk == mutex = "updater" <=> pcU = "send"
SendOk == pcU = "send" => isMining
MiningOk == isMining => pcM \in {"select", "hash", "stop"}

IInv == TypeOK /\ MutexOk /\ SendOk /\ MiningOk

(* A block made on a base has a natural height.                            *)
LEMMA NewBlockType ==
  ASSUME base \in Block, mined \in Nat
  PROVE  NewBlock \in Block
BY DEF NewBlock, Block

(* Nobody holds the mutex and nobody mines at the start.                   *)
LEMMA InitIInv == Init => IInv
<1>1. GenesisBlock \in Block
  BY DEF GenesisBlock, Peer, Block
<1>2. Init => TypeOK
  <2> SUFFICES ASSUME Init PROVE TypeOK
    OBVIOUS
  <2>1. {} \subseteq Block
    OBVIOUS
  <2>2. mined \in Nat
    BY DEF Init
  <2> QED
    BY <1>1, <2>1, <2>2, Zenon DEF Init, TypeOK
<1>3. Init => MutexOk /\ SendOk /\ MiningOk
  BY DEF Init, MutexOk, SendOk, MiningOk
<1> QED
  BY <1>2, <1>3 DEF IInv

(* The mining goroutine keeps the invariant: it changes isMining only      *)
(* while the mutex is free.                                                *)
LEMMA MineKeepsIInv == ASSUME IInv, Mine PROVE IInv'
<1> USE DEF IInv, TypeOK, MutexOk, SendOk, MiningOk, GotoM, GotoU, minerVars
<1>1. CASE Choose
  BY <1>1 DEF Choose
<1>2. CASE Prepare
  BY <1>2 DEF Prepare
<1>3. CASE Start
  BY <1>3 DEF Start
<1>4. CASE Interrupted
  BY <1>4 DEF Interrupted
<1>5. CASE NotInterrupted
  BY <1>5 DEF NotInterrupted
<1>6. CASE NextNonce
  BY <1>6 DEF NextNonce
<1>7. CASE Found
  BY <1>7 DEF Found
<1>8. CASE Stop
  <2>1. mined' \in Nat /\ pcM' \in {"add", "choose"} /\ isMining' = FALSE
    <3>1. CASE found
      BY <1>8, <3>1 DEF Stop
    <3>2. CASE ~found
      BY <1>8, <3>2 DEF Stop
    <3> QED
      BY <3>1, <3>2
  <2>2. UNCHANGED <<head, ready, mutex, chosenOn, base, found, pcU, current, queue, sound,
                    arrived>> /\ mutex = "free"
    BY <1>8 DEF Stop
  <2> QED
    BY <2>1, <2>2
<1>9. CASE AddInternal
  BY <1>9, NewBlockType DEF AddInternal
<1>10. CASE Broadcast
  BY <1>10 DEF Broadcast
<1> QED
  BY <1>1, <1>2, <1>3, <1>4, <1>5, <1>6, <1>7, <1>8, <1>9, <1>10 DEF Mine

(* So does the updater: it takes the mutex to send after it read isMining. *)
LEMMA UpdaterKeepsIInv == ASSUME IInv, UpdaterStep PROVE IInv'
<1> USE DEF IInv, TypeOK, MutexOk, SendOk, MiningOk, GotoM, GotoU, minerVars
<1>1. ASSUME NEW b \in queue, Receive(b) PROVE IInv'
  BY <1>1 DEF Receive
<1>2. CASE Reject
  BY <1>2 DEF Reject
<1>3. CASE Verify
  BY <1>3 DEF Verify
<1>4. CASE Signal
  BY <1>4 DEF Signal
<1>5. CASE Update
  BY <1>5 DEF Update
<1> QED
  BY <1>1, <1>2, <1>3, <1>4, <1>5 DEF UpdaterStep

(* Every step keeps the invariant.                                         *)
LEMMA NextIInv == IInv /\ [Next]_vars => IInv'
<1> SUFFICES ASSUME IInv, [Next]_vars PROVE IInv'
  OBVIOUS
<1>1. CASE Mine
  BY <1>1, MineKeepsIInv
<1>2. CASE UpdaterStep
  BY <1>2, UpdaterKeepsIInv
<1>3. ASSUME NEW h \in 1..MaxHeight, Arrive(h) PROVE IInv'
  BY <1>3, BoundAssumption
     DEF Arrive, IInv, TypeOK, MutexOk, SendOk, MiningOk, minerVars, Block, Peer
<1>4. CASE DataArrives
  BY <1>4 DEF DataArrives, IInv, TypeOK, MutexOk, SendOk, MiningOk, GotoU, minerVars
<1>5. CASE UNCHANGED vars
  BY <1>5 DEF vars, minerVars, IInv, TypeOK, MutexOk, SendOk, MiningOk
<1> QED
  BY <1>1, <1>2, <1>3, <1>4, <1>5 DEF Next

(* The invariant holds in every behaviour.                                 *)
THEOREM Invariance == Spec => []IInv
BY InitIInv, NextIInv, PTL DEF Spec

(* The fields keep their types.                                            *)
THEOREM TypeCorrect == Spec => []TypeOK
<1>1. IInv => TypeOK
  BY DEF IInv
<1> QED
  BY <1>1, Invariance, PTL

(* verifyAndBuildDown sends on interrupt only while mineBlock has not      *)
(* returned.                                                               *)
THEOREM ListenerPresent == Spec => []InterruptHasListener
<1>1. IInv => InterruptHasListener
  BY DEF IInv, SendOk, MiningOk, InterruptHasListener
<1> QED
  BY <1>1, Invariance, PTL

(* When mineBlock is about to return and the updater sends on interrupt,   *)
(* each waits for the other, and neither takes a step ever after: the      *)
(* updater holds the mutex that mineBlock needs, by the invariant.         *)
THEOREM StuckStays == Spec => StuckForEver
<1> DEFINE Waiting == UNCHANGED <<head, ready, mutex, isMining, minerVars, pcU, current>>
<1>1. ASSUME IInv, Stuck, [Next]_vars
      PROVE  Waiting
  <2>1. pcU = "send" /\ pcM = "stop" /\ mutex # "free"
    BY <1>1 DEF IInv, Stuck, MutexOk
  <2>2. ~Mine
    BY <2>1 DEF Mine, Choose, Prepare, Start, Interrupted, NotInterrupted, NextNonce, Found,
                Stop, AddInternal, Broadcast
  <2>3. ~UpdaterStep /\ ~DataArrives
    BY <2>1 DEF UpdaterStep, Receive, Reject, Verify, Signal, Update, DataArrives
  <2>4. ASSUME NEW h \in 1..MaxHeight, Arrive(h)
        PROVE  Waiting
    BY <2>4 DEF Arrive
  <2>5. CASE UNCHANGED vars
    BY <2>5 DEF vars
  <2> QED BY <1>1, <2>2, <2>3, <2>4, <2>5 DEF Next
<1>2. IInv /\ [Next]_vars => [Stuck => Waiting]_vars
  BY <1>1
<1> QED BY <1>2, Invariance, PTL DEF Spec, StuckForEver
=============================================================================
