-------------------------- MODULE TransactionPool --------------------------
(***************************************************************************)
(* How money moves: the wallet of one miner makes payments, its            *)
(* transaction pool collects them and those of the peers, its mining       *)
(* goroutine puts them into blocks, and its updater verifies blocks and    *)
(* tells wallet and pool.  Payments refer to outputs by the block they are *)
(* in, so the contents of blocks are state here, and so is the chain.      *)
(*                                                                         *)
(* The updater is the one UtxoUpdater models, seen from outside: a manager *)
(* is the exact replay of its node's chain (UtxoFaithful there), so only   *)
(* the nodes that have one are kept.                                       *)
(***************************************************************************)
EXTENDS Naturals, FiniteSets, SequencesExt

CONSTANTS
  Me,              \* the miner that is modelled
  Peer,            \* everybody else
  Davidcoin,       \* the reward of a block
  Bounds           \* bounds of a behaviour: blocks mined by anyone, payments
                   \* the wallet makes, payments that are made to it, and the
                   \* amounts the wallet is asked to pay

ASSUME PoolAssumption ==
  /\ Me # Peer /\ Davidcoin \in Nat
  /\ Bounds \subseteq [blocks : Nat, own : Nat, peer : Nat, amounts : SUBSET Nat]

NoBlock == 0     \* stands for the genesis block, which has no transactions

VARIABLES
  blocks,      \* every block mined, in that order: a block is its index
  offered,     \* blocks some goroutine is blocked sending on utxoChan
  path,        \* the calls of verifyAndBuildDown, the innermost first
  phase,       \* where it is with the first of them
  told,        \* how many of its payments the pool has been told of
  verified,    \* verifiedWithUtxoManager
  ready,       \* the nodes that hold an unspent-output manager
  head,        \* bc.head
  record,      \* Wallet.transactions: references to own outputs
  paying,      \* whether MakeTransaction is at work
  utxoptr,     \* the block at which the manager is that it took
  looked,      \* how many records it has looked up
  found,       \* those of them that it found unspent
  sent,        \* the payments anyone has broadcast
  unregistered,\* own payments broadcast, and not yet in the pool
  priority,    \* priorityRequest: own payments
  received,    \* signatureVerifiedRequest: payments of peers
  pcM,         \* where the mining goroutine is
  chosenOn,    \* the head it has looked at
  manager,     \* the block at which the manager is that it took from there
  todo,        \* the requests that are still to come of the map it walks
  group,       \* its transactionBlockGroup
  base,        \* the head its block was prepared on
  crashed,
  bound        \* the bounds of this behaviour

chainVars == <<blocks, offered, path, phase, told, verified, ready, head>>
walletVars == <<paying, utxoptr, looked, found>>
poolVars == <<record, sent, unregistered, priority, received>>
minerVars == <<pcM, chosenOn, manager, todo, group, base>>
vars == <<chainVars, walletVars, poolVars, minerVars, crashed, bound>>

-----------------------------------------------------------------------------
(* The chain.                                                              *)

Nodes == 0..Len(blocks)
Parent(b) == blocks[b].parent
BlockCount(b) == IF b = NoBlock THEN 0 ELSE blocks[b].blockCount

Range1(s) == 1..Len(s)

(* transactionRef: block, transaction and output number.  What            *)
(* transactions make available as a block.                                 *)
OutputsOf(b, txs) ==
  UNION {{<<b, k, j>> : j \in Range1(txs[k].outs)} : k \in Range1(txs)}

(* getTransactionOutput.                                                   *)
Output(r) == blocks[r[1]].txs[r[2]].outs[r[3]]

(* An input is a reference, and the place of the wallet's record from      *)
(* which it was taken: an output recorded twice is taken twice.            *)
Refs(inputs) == {i[2] : i \in inputs}
Spent(txs) == UNION {Refs(txs[k].inputs) : k \in Range1(txs)}

(* The outputs left unspent by the chain that ends in a block, kept with   *)
(* the block.                                                              *)
Unspent(b) == IF b = NoBlock THEN {} ELSE blocks[b].unspent

Mined(p, txs, m) ==
  [parent |-> p, blockCount |-> BlockCount(p) + 1, txs |-> txs, miner |-> m,
   unspent |-> (Unspent(p) \ Spent(txs)) \cup OutputsOf(Len(blocks) + 1, txs)]

OnChain ==
  LET C[b \in Nodes] == IF b = NoBlock THEN {} ELSE C[Parent(b)] \cup ToSet(blocks[b].txs)
  IN C

(* The sum of the values of a function, counted out.                       *)
Sum(f) == Cardinality(UNION {{x} \X (1..f[x]) : x \in DOMAIN f})
Received(inputs) == Sum([i \in inputs |-> Output(i[2]).amount])
Paid(outs) == Sum([j \in Range1(outs) |-> outs[j].amount])

(* Variant: an output may be named twice.                                  *)
RefsUnspent(unspent, txs) == Spent(txs) \subseteq unspent

(* verifyTransactionBlockGroupRefs, VerifyTransactionBlockRefs: all refer  *)
(* to what is unspent, and no two inputs to the same.                      *)
RefsSpendable(unspent, txs) ==
  /\ Spent(txs) \subseteq unspent
  /\ \A k, l \in Range1(txs) : \A i \in txs[k].inputs, j \in txs[l].inputs :
       i[2] = j[2] => k = l /\ i = j

(* VerifyExceptUTXO: payers spend what they were paid, and no more; the    *)
(* first transaction may add the reward.  Signatures are right.            *)
AmountsOk(txs) ==
  \A k \in Range1(txs) :
    /\ \A r \in Refs(txs[k].inputs) : Output(r).to = txs[k].payer
    /\ Paid(txs[k].outs) <= Received(txs[k].inputs) + (IF k = 1 THEN Davidcoin ELSE 0)

Acceptable(p, txs) == RefsSpendable(Unspent(p), txs) /\ AmountsOk(txs)

At(place) == ~crashed /\ path # <<>> /\ phase = place
Current == Head(path)

Own(b) == blocks[b].miner = Me
Offering == {b \in offered : Own(b)}

(* generateFeeBlock.                                                       *)
FeeBlock(m) ==
  [id |-> 0, payer |-> m, inputs |-> {}, outs |-> <<[to |-> m, amount |-> Davidcoin]>>]

-----------------------------------------------------------------------------
(* The wallet.                                                             *)

(* Variant: off by one.                                                    *)
AlmostEnough(inputs, amount) == Received(inputs) + 1 >= amount

Enough(inputs, amount) == Received(inputs) >= amount

(* The records up to a place that are unspent in the manager: those not    *)
(* looked up yet are looked up where it is now.                            *)
Good(n) ==
  {i \in found : i[1] <= n}
    \cup {<<i, record[i]>> : i \in {i \in looked + 1..n : record[i] \in Unspent(utxoptr)}}

(* They are taken in order, until they are enough.                         *)
Selected(amount) ==
  {i \in Good(Len(record)) : Good(i[1] - 1) = {} \/ ~Enough(Good(i[1] - 1), amount)}

(* Variant: the rest is not paid back.                                     *)
OutputsWithoutExchange(inputs, amount) == <<[to |-> Peer, amount |-> amount]>>

Outputs(inputs, amount) ==
  LET exchange == Received(inputs) - amount
  IN <<[to |-> Peer, amount |-> amount]>>
       \o (IF exchange # 0 THEN <<[to |-> Me, amount |-> exchange]>> ELSE <<>>)

OwnPayments == {tx \in sent : tx.payer = Me}

BlockLeft == Len(blocks) < bound.blocks
PaymentLeft == Cardinality(OwnPayments) < bound.own
PeerPaymentLeft == Cardinality(sent \ OwnPayments) < bound.peer

(* MakeTransaction takes the manager of the head, if it has one.           *)
TakeManager ==
  /\ ~crashed /\ ~paying
  /\ PaymentLeft
  /\ head \in ready
  /\ paying' = TRUE /\ utxoptr' = head
  /\ UNCHANGED <<chainVars, looked, found, poolVars, minerVars, crashed>>

(* Then it walks the records and looks each up, with the mutex of the      *)
(* wallet.  The updater may move the manager in the middle, but once only: *)
(* after that it needs the mutex.  (A walk that nobody disturbs is part of *)
(* MakeTransaction.)                                                       *)
LookUp(n) ==
  /\ paying /\ looked = 0
  /\ At("apply") /\ utxoptr = Parent(Current)
  /\ looked' = n /\ found' = Good(n)
  /\ UNCHANGED <<chainVars, paying, utxoptr, poolVars, minerVars, crashed>>

(* Two payments are never equal: signatures are randomised.                *)
Payment(amount) ==
  [id |-> Cardinality(sent) + 1, payer |-> Me, inputs |-> Selected(amount),
   outs |-> Outputs(Selected(amount), amount)]

(* If they are enough, the payment is made, and a goroutine is started to  *)
(* broadcast it.                                                           *)
MakeTransaction(amount) ==
  /\ ~crashed /\ paying
  /\ IF Enough(Selected(amount), amount)
     THEN sent' = sent \cup {Payment(amount)} /\ unregistered' = unregistered \cup {Payment(amount)}
     ELSE UNCHANGED <<sent, unregistered>>
  /\ paying' = FALSE /\ utxoptr' = NoBlock /\ looked' = 0 /\ found' = {}
  /\ UNCHANGED <<chainVars, record, priority, received, minerVars, crashed>>

(* Only then it is handed to the own pool: receiveInternal.                *)
ReceiveInternal(tx) ==
  /\ ~crashed
  /\ tx \in unregistered
  /\ unregistered' = unregistered \ {tx}
  /\ priority' = priority \cup {tx}
  /\ UNCHANGED <<chainVars, walletVars, record, sent, received, minerVars, crashed>>

-----------------------------------------------------------------------------
(* The peers, which run the same program.                                  *)

(* A peer pays this miner with an output of its own.                       *)
PeerPays(r) ==
  /\ PeerPaymentLeft
  /\ Output(r).to = Peer
  /\ sent' = sent \cup {[id |-> Cardinality(sent) + 1, payer |-> Peer, inputs |-> {<<1, r>>},
                         outs |-> <<[to |-> Me, amount |-> Output(r).amount]>>]}
  /\ UNCHANGED <<chainVars, walletVars, record, unregistered, priority, received, minerVars, crashed>>

(* A peer mines a block on a good chain, with payments that are good there.*)
PeerMines(p, txs) ==
  /\ ~crashed /\ BlockLeft
  /\ p # NoBlock => Acceptable(Parent(p), blocks[p].txs)
  /\ Acceptable(p, <<FeeBlock(Peer)>> \o txs)
  /\ blocks' = Append(blocks, Mined(p, <<FeeBlock(Peer)>> \o txs, Peer))
  /\ offered' = IF BlockCount(p) + 1 > BlockCount(head)
                THEN offered \cup {Len(blocks) + 1} ELSE offered
  /\ UNCHANGED <<path, phase, told, verified, ready, head, walletVars, poolVars, minerVars, crashed>>

(* receiveTransactionBlock: the inputs are resolved when the payment comes;*)
(* of a block whose data has not come yet nothing can be resolved, and     *)
(* looking at the input panics.                                            *)
MayHaveData(b) == Own(b) \/ b \in verified \/ b \in ToSet(path)
MayLackData(b) == ~Own(b) /\ b \notin verified

ReceiveTransaction(tx) ==
  /\ ~crashed
  /\ tx \in sent \ (OwnPayments \cup received)
  /\ \/ /\ \A r \in Refs(tx.inputs) : MayHaveData(r[1])
        /\ received' = received \cup {tx} /\ UNCHANGED crashed
     \/ /\ \E r \in Refs(tx.inputs) : MayLackData(r[1])
        /\ crashed' = TRUE /\ UNCHANGED received
  /\ UNCHANGED <<chainVars, walletVars, record, sent, unregistered, priority, minerVars>>

-----------------------------------------------------------------------------
(* The updater.                                                            *)

Take(b) ==
  /\ ~crashed /\ path = <<>>
  /\ b \in offered
  /\ offered' = offered \ {b}
  /\ path' = IF b \in ready THEN <<>> ELSE <<b>>
  /\ UNCHANGED <<blocks, phase, told, verified, ready, head, walletVars, poolVars, minerVars, crashed>>

(* verifyAndBuildDown calls itself as long as the parent has no manager.   *)
Descend ==
  /\ At("verify")
  /\ Parent(Current) \notin ready
  /\ path' = <<Parent(Current)>> \o path
  /\ UNCHANGED <<blocks, offered, phase, told, verified, ready, head, walletVars, poolVars, minerVars, crashed>>

(* A bad block ends the climb; a good one that is higher is the head.      *)
Reject ==
  /\ At("verify")
  /\ Parent(Current) \in ready
  /\ ~Acceptable(Parent(Current), blocks[Current].txs)
  /\ path' = <<>>
  /\ UNCHANGED <<blocks, offered, phase, told, verified, ready, head, walletVars, poolVars, minerVars, crashed>>

Accept ==
  /\ At("verify")
  /\ Parent(Current) \in ready
  /\ Acceptable(Parent(Current), blocks[Current].txs)
  /\ verified' = verified \cup {Current}
  /\ head' = IF BlockCount(Current) > BlockCount(head) THEN Current ELSE head
  /\ phase' = "apply"
  /\ UNCHANGED <<blocks, offered, path, told, ready, walletVars, poolVars, minerVars, crashed>>

KeepCopy == BlockCount(Current) % 5 = 1

(* The manager itself moves on to the block; a copy may stay.              *)
Apply ==
  /\ At("apply")
  /\ ready' = (IF KeepCopy THEN ready ELSE ready \ {Parent(Current)}) \cup {Current}
  /\ manager' = IF manager = Parent(Current) THEN Current ELSE manager
  /\ phase' = "tell"
  /\ utxoptr' = IF paying /\ utxoptr = Parent(Current) THEN Current ELSE utxoptr
  /\ UNCHANGED <<blocks, offered, path, told, verified, head, paying, looked, found,
                 poolVars, pcM, chosenOn, todo, group, base, crashed>>

(* The outputs of a block that are the wallet's, in order.                 *)
OwnOutputs(b) ==
  {s \in SetToSeqs({r \in OutputsOf(b, blocks[b].txs) : Output(r).to = Me}) :
     \A m, n \in Range1(s) :
       m < n => s[m][2] < s[n][2] \/ (s[m][2] = s[n][2] /\ s[m][3] < s[n][3])}

(* Variant: the pool is emptied.                                           *)
LeftInPoolNothing(pool) == {}

(* What is left of a map without the next payment of the block.            *)
LeftInPool(pool) == pool \ {blocks[Current].txs[told + 1]}

(* updateWithBlock records what the wallet has been paid; it waits for the *)
(* mutex of the wallet.                                                    *)
Tell ==
  /\ At("tell")
  /\ looked = 0
  /\ \E own \in OwnOutputs(Current) : record' = record \o own
  /\ phase' = "forget" /\ told' = 1
  /\ UNCHANGED <<blocks, offered, path, verified, ready, head,
                 walletVars, sent, unregistered, priority, received, minerVars, crashed>>

(* updateWithBlockchainNode removes the payments of the block from the     *)
(* pool one by one (not the first, a fee block, which is in no map).  It   *)
(* waits for the mutex of signatureVerifiedRequest while that is walked.   *)
(* A payment is in one of the maps, so its removal is one step.  The       *)
(* parent is known to the pool already, save the genesis, which is empty.  *)
Forget ==
  /\ At("forget") /\ told < Len(blocks[Current].txs)
  /\ pcM = "others" => todo = {}
  /\ priority' = LeftInPool(priority)
  /\ received' = LeftInPool(received)
  /\ told' = told + 1
  /\ UNCHANGED <<blocks, offered, path, phase, verified, ready, head,
                 walletVars, record, sent, unregistered, minerVars, crashed>>

(* The call returns to the one for the child.                              *)
Return ==
  /\ At("forget") /\ told = Len(blocks[Current].txs)
  /\ path' = Tail(path) /\ phase' = "verify" /\ told' = 0
  /\ UNCHANGED <<blocks, offered, verified, ready, head,
                 walletVars, poolVars, minerVars, crashed>>

-----------------------------------------------------------------------------
(* The mining goroutine.                                                   *)

(* Variant: the references are not compared.                               *)
AddAnyway(txs, tx) == Append(txs, tx)

(* transactionBlockGroup.Add refuses what spends an output of the group    *)
(* again.  (A transaction that names one output twice is not noticed.)     *)
Add(txs, tx) == IF Refs(tx.inputs) \cap Spent(txs) # {} THEN txs ELSE Append(txs, tx)

(* generateTransctionBlockGroup looks at the head and takes its manager.   *)
Choose ==
  /\ ~crashed /\ pcM = "choose"
  /\ head \in ready
  /\ chosenOn' = head /\ manager' = head
  /\ group' = <<FeeBlock(Me)>>
  /\ pcM' = "chosen"
  /\ UNCHANGED <<chainVars, walletVars, poolVars, todo, base, crashed>>

(* It adds the own payments first, in any order and unchecked.  What comes *)
(* to the map or leaves it meanwhile has to wait for its mutex.            *)
WalkOwn ==
  /\ ~crashed /\ pcM = "chosen"
  /\ todo' = priority
  /\ pcM' = "own"
  /\ UNCHANGED <<chainVars, walletVars, poolVars, chosenOn, manager, group, base, crashed>>

AddOwn(tx) ==
  /\ ~crashed /\ pcM = "own"
  /\ tx \in todo
  /\ group' = Add(group, tx)
  /\ todo' = todo \ {tx}
  /\ UNCHANGED <<chainVars, walletVars, poolVars, pcM, chosenOn, manager, base, crashed>>

(* Then the others that its manager finds spendable: the updater may have  *)
(* moved that on.                                                          *)
WalkOthers ==
  /\ ~crashed /\ pcM = "own" /\ todo = {}
  /\ todo' = received
  /\ pcM' = "others"
  /\ UNCHANGED <<chainVars, walletVars, poolVars, chosenOn, manager, group, base, crashed>>

AddOther(tx) ==
  /\ ~crashed /\ pcM = "others"
  /\ tx \in todo
  /\ group' = IF RefsSpendable(Unspent(manager), <<tx>>) THEN Add(group, tx) ELSE group
  /\ todo' = todo \ {tx}
  /\ UNCHANGED <<chainVars, walletVars, poolVars, pcM, chosenOn, manager, base, crashed>>

(* prepareBlockForMining reads the head again.                             *)
Prepare ==
  /\ ~crashed /\ pcM = "others" /\ todo = {}
  /\ base' = head
  /\ pcM' = "mine"
  /\ UNCHANGED <<chainVars, walletVars, poolVars, chosenOn, manager, todo, group, crashed>>

(* The updater has moved the head and interrupts.                          *)
Interrupted ==
  /\ ~crashed /\ pcM = "mine" /\ base # head
  /\ pcM' = "choose"
  /\ UNCHANGED <<chainVars, walletVars, poolVars, chosenOn, manager, todo, group, base, crashed>>

(* A nonce is found; addInternal offers the block to the updater.          *)
Mine ==
  /\ ~crashed /\ pcM = "mine" /\ BlockLeft
  /\ blocks' = Append(blocks, Mined(base, group, Me))
  /\ offered' = offered \cup {Len(blocks) + 1}
  /\ pcM' = "offered"
  /\ UNCHANGED <<path, phase, told, verified, ready, head, walletVars, poolVars,
                 chosenOn, manager, todo, group, base, crashed>>

Continue ==
  /\ ~crashed /\ pcM = "offered" /\ Offering = {}
  /\ pcM' = "choose"
  /\ UNCHANGED <<chainVars, walletVars, poolVars, chosenOn, manager, todo, group, base, crashed>>

-----------------------------------------------------------------------------
Init ==
  /\ blocks = <<>> /\ offered = {} /\ path = <<>> /\ phase = "verify" /\ told = 0
  /\ verified = {} /\ ready = {NoBlock} /\ head = NoBlock
  /\ paying = FALSE /\ utxoptr = NoBlock /\ looked = 0 /\ found = {}
  /\ record = <<>> /\ sent = {} /\ unregistered = {} /\ priority = {} /\ received = {}
  /\ pcM = "choose" /\ chosenOn = NoBlock /\ manager = NoBlock
  /\ todo = {} /\ group = <<>> /\ base = NoBlock
  /\ crashed = FALSE
  /\ bound \in Bounds

Wallet ==
  \/ TakeManager
  \/ \E n \in Range1(record) : LookUp(n)
  \/ \E amount \in bound.amounts : MakeTransaction(amount)
  \/ \E tx \in unregistered : ReceiveInternal(tx)

Network ==
  \/ \E b \in Nodes \ {NoBlock} : \E r \in Unspent(b) : PeerPays(r)
  \/ \E p \in Nodes : \E txs \in SUBSET sent : PeerMines(p, SetToSeq(txs))
  \/ \E tx \in sent : ReceiveTransaction(tx)

Updater ==
  \/ \E b \in offered : Take(b)
  \/ Descend \/ Reject \/ Accept \/ Apply \/ Tell \/ Forget \/ Return

Miner ==
  \/ Choose \/ WalkOwn \/ WalkOthers
  \/ \E tx \in todo : AddOwn(tx) \/ AddOther(tx)
  \/ Prepare \/ Interrupted \/ Mine \/ Continue

Next == (Wallet \/ Network \/ Updater \/ Miner) /\ UNCHANGED bound

Spec == Init /\ [][Next]_vars

-----------------------------------------------------------------------------
Ref == Nat \X Nat \X Nat
Tx == [id : Nat, payer : {Me, Peer}, inputs : SUBSET (Nat \X Ref),
       outs : Seq([to : {Me, Peer}, amount : Nat])]

(* The variables range over the values the fields of the code can hold.    *)
TypeOK ==
  /\ blocks \in Seq([parent : Nat, blockCount : Nat, txs : Seq(Tx), miner : {Me, Peer},
                    unspent : SUBSET Ref])
  /\ \A b \in Range1(blocks) : blocks[b].parent < b
  /\ offered \subseteq Nodes /\ verified \subseteq Nodes /\ ready \subseteq Nodes
  /\ head \in Nodes /\ path \in Seq(Nodes) /\ phase \in {"verify", "apply", "tell", "forget"}
  /\ told \in Nat /\ paying \in BOOLEAN /\ utxoptr \in Nodes /\ looked \in Nat
  /\ found \subseteq Nat \X Ref
  /\ record \in Seq(Ref)
  /\ sent \subseteq Tx /\ unregistered \subseteq sent
  /\ priority \subseteq sent /\ received \subseteq sent /\ todo \subseteq sent
  /\ pcM \in {"choose", "chosen", "own", "others", "mine", "offered"}
  /\ group \in Seq(Tx) /\ chosenOn \in Nodes /\ manager \in Nodes /\ base \in Nodes
  /\ crashed \in BOOLEAN
  /\ bound \in Bounds

(* Whatever is paid, mined and reorganised, the unspent outputs at a       *)
(* verified block are worth one reward per block of its chain: payments    *)
(* neither make money nor lose it.                                         *)
MoneyIsHeight ==
  \A b \in verified :
    Sum([r \in Unspent(b) |-> Output(r).amount]) = BlockCount(b) * Davidcoin

(* If the own payments of a group are spendable where it was chosen, so is *)
(* the whole group, as long as the head has not moved: the other payments  *)
(* are looked up in a manager that the updater moves meanwhile.            *)
GroupSound ==
  (/\ pcM \in {"chosen", "own", "others", "mine"}
   /\ chosenOn = (IF pcM = "mine" THEN base ELSE head)
   /\ \A tx \in ToSet(group) : tx.payer = Me => RefsSpendable(Unspent(chosenOn), <<tx>>))
  => RefsSpendable(Unspent(chosenOn), group)

(* A payment the wallet made is with the pool, or on its way there, until  *)
(* a verified block has it.                                                *)
NoPaymentForgotten ==
  \A tx \in OwnPayments :
    tx \in unregistered \cup priority \/ \E b \in verified : tx \in ToSet(blocks[b].txs)

-----------------------------------------------------------------------------
(* "prepareBlockForMining takes transactiondata and builds a block         *)
(* suitable for mining" (transactionPool.go:190): the group of a block     *)
(* spends what is unspent on the chain it extends, once.  Checked where    *)
(* the head has not moved since the group was chosen.                      *)
BlockSuitable ==
  (pcM = "mine" /\ chosenOn = base) => RefsSpendable(Unspent(base), group)

(* "transactionPool is Datatype that keeps track of al the requested       *)
(* transaction" (transactionPool.go:11): while nobody is at work on it, an *)
(* own payment is in the pool or in the chain of the head.                 *)
KeepsTrack ==
  path = <<>> =>
    \A tx \in OwnPayments : tx \in unregistered \cup priority \/ tx \in OnChain[head]
=============================================================================
