# A verification of Davidcoin

TLA+ models of the proof-of-work coin in this repository, checked with TLC on
small instances, and theorems about them proved with TLAPS for every instance.
Paths below are relative to the repository; unless a directory is given, Go
files are in `pkg/blockchain`.

## The system

One process runs several miners. Each has its own copy of the chain, its own
wallet and transaction pool, and talks to the others through a `Broadcaster`,
which only hands out their channels.

| Part | State | Operations | Goroutines |
|---|---|---|---|
| block tree (`BlockchainCore.go`) | `allNodesMap`, `orphanBlockChains`, `head`, `Height`, `otherHeadNodes`, `danglingData`, `merkleRootToBlockHashMap` | `addBlockChainNode`, `addInternal`, `addData` | one per received message |
| UTXO updater (`BlockchainCore.go`, `utxoManager.go`) | per node: the manager, data, verdict | `verifyAndBuildDown`, `updateWithNextBlockChainNode`, `Deepcopy` | `utxoUpdater`: one, or two for the genesis miner |
| mining loop (`miner.go`) | `isMining`, `interrupt`, `generalMutex` | `MineContiniously`, `mineBlock` | one |
| wallet (`wallet.go`) | the recorded outputs | `MakeTransaction`, `updateWithBlock`, `TotalAvailable` | shell, updater |
| transaction pool (`transactionPool.go`) | three maps of requests | receive, generate a group, prepare a block, forget what is in the chain | receiver, miner, updater |
| transactions (`transaction.go`) | groups with byte-sized counters | resolve on arrival, verify, add | many |
| Merkle tree (`pkg/merkletree`) | elements, hashes per level | `Add`, `FinalizeTree`, proofs | none |
| network handshake (`miner.go`, `broadcaster.go`) | `receiveChannels`, `receivedData` | `send`, `request`, `receiveNetwork` | one per message |

They meet in these places. A received header goes to `addBlockChainNode`, which
links it into the tree or into an orphan chain and, if the tip is higher than
the head, sends it on the unbuffered `utxoChan`. The updater takes it, asks peers
for missing data, and blocks on each node's `dataHasArrived` until an `addData`
goroutine has stored the data. When a verified block is the new head the updater
sends on `interrupt`, then moves the manager, then tells wallet and pool. The
mining goroutine reads the head twice, mines, and hands its block to the updater
through `addInternal`, blocking until it is taken.

What is hard: goroutines interleave between short critical sections; headers and
data come in any order and possibly twice; forks are built, left, and rebuilt
from savepoints; two parties may wait for each other's channel and mutex.
`PROJECT.json` lists these places line by line under `hazards`.

What makes each part correct: the tree has no gaps, and what does not fit yet is
asked for and joined later; the unspent outputs a node holds are exactly those of
its own chain; the head is a highest valid block and gets its manager back soon;
mining never stops; money is neither made nor lost along a chain, and a payment is
kept until it is mined; the Merkle root commits to all transactions and to nothing
else, and a peer computes the same; a broadcast reaches everyone who listens, a
request is served, and no call of `send` hangs or leaves a channel behind.

## The modules

| Module | Models | Its state and the code's |
|---|---|---|
| `Headers` | headers as constants: a block is its hash, which commits to parent and height | – |
| `BlockUniverse` | what blocks spend and create; `Ledger` is the replay of a chain, `Valid` the blocks whose chain is acceptable | – |
| `UtxoUpdater` | the updater(s), `addData`, the wallet's record, and the environment that adds blocks | `um` is `uTxOManagerPointer`, `known` is `allNodesMap`, `unmapped` the blocks a join has linked without their being in it, `arriving` the goroutines blocked on `dataHasArrived`, `stack` the recursion, `held` the manager taken as `prevUTXO` |
| `LongestChain` | the abstract promise: a head that only rises, and the exact view of its unspent outputs | implemented by `UtxoUpdater` under `view <- HeadView` |
| `BlockTree` | `addBlockChainNode` run by concurrent handlers, with orphan chains and the join | `chains` are the orphan chains, `locked` those whose mutex a handler keeps, `seen` the head read first, `slot` and `size` the index and the list length by which a joined chain is removed |
| `MiningLoop` | `MineContiniously` and `mineBlock` against the updater's interrupt | `mutex` is `generalMutex`, kept across a step only by the updater; `ready` is whether the head has a manager; at `pcU = "await"` the updater waits on `dataHasArrived` |
| `TransactionPool` | payments from wallet to pool to block: `MakeTransaction`, `receiveInternal`, `receiveTransactionBlock`, `generateTransctionBlockGroup`, `prepareBlockForMining`, `updateWithBlock`, `updateWithBlockchainNode`, around an updater seen from outside | `record` is `Wallet.transactions`, `paying`, `utxoptr`, `looked` and `found` a `MakeTransaction` under way: the manager it took, how many records it has looked up and which it found; `told` says how many of a block's payments the pool has been told of; `priority` and `received` the two request maps, `group` the group being mined, put together request by request, with `manager` the node whose manager the walk looks outputs up in and `todo` the requests still to look at; `blocks` are the blocks themselves, each with the outputs unspent after it, since payments refer to outputs by block |
| `MerkleTree` | the tree, its proofs and their verification | `levelHash`, root at level 0, a function of the elements; hashes are terms |
| `TransactionGroup` | a `transactionBlockGroup` from `Add` over the wire to a peer, composed with `MerkleTree`; the peer's tree is the same function of the data it reads | `size` is the byte; `transactionBlocks` the structs; `received` what a peer deserialised |
| `Handshake` | `send`, `request` and the handlers of `receiveNetwork`; miners that subscribe meanwhile | `pc` and `rest` say where a call is and which peers it still has to serve; `handlers` are the goroutines handling a message; `receiveChannels` as in the code, of all miners |
| `MC*` | small universes for TLC | – |
| `*_proofs` | theorems and proofs | – |

How they fit together: `BlockTree` and `UtxoUpdater` assume of the network only
that a header or its data comes some time, in any order, possibly twice; `Handshake`
is what gives them that. `BlockTree` feeds `utxoChan`, which `UtxoUpdater` empties;
each has the other as a few actions of its environment. `TransactionPool` takes
from `UtxoUpdater` what is proved there, that a manager is the replay of its
node's chain, and keeps only which nodes have one. `TransactionGroup` extends
`MerkleTree`.

Each action is one handler's stretch between two points where another goroutine
can matter: a receive or send on an unbuffered channel, a lock that is released
and taken again, a value read and used later. Definitions marked *Variant* are
plausible slips of the definition below them; each property is shown to fail under
one of them.

Abstractions worth knowing:

- `UtxoUpdater`: the verdict (`Reject`, `Accept`), the send on `interrupt`
  (`InterruptMiner`) and the move of the manager (`Apply`) are one step each. With one updater nobody else touches what they
  touch, except for readers of the head, who see the head before the manager as
  in the code. With two updaters the steps are coarser than the code, so for
  these only `VerifiedChains` is claimed. A
  manager that an overwriting update detaches is not told apart from the one
  that replaces it. Whether the miner takes the interrupt is left open, so the
  updater may stay in that send; `MiningLoop` has both ends of it.
- `UtxoUpdater`: a block has one node, so a header handled twice is not told apart
  from one handled once. A header's insertion and its offer are one step, and so
  are the four regions of a join, whose outcomes `JoinOrphans` has all the same: the tip
  may be any block of the chain, and some of the chain may be linked without being
  in `allNodesMap` (`unmapped`). Data of such a block is dropped by `addData`.
- Data answers a request, so its Merkle root is registered already when it
  arrives: the `danglingData` branch of `addData` is not reached and not modelled.
- Heights are the parent's plus one, as every miner writes them; the code does
  not check it. Signatures and amounts are one constant per block.
- `BlockTree`: blocks, not nodes. `Insert` and `ExtendInsert` cover the map entry
  and the parent pointer, which the code sets one after the other. The join is in
  the regions of the code (`JoinOrphans`, `CopyChain`, `MeasureList`, `RemoveChain`,
  `OfferTip`), with the index and the length read before they are used; only the search of
  `orphanBlockChains`, for a parent or for a child, is one step over the list as it is, where the code
  ranges over the slice it began with. Copying a map while another handler inserts
  into it is a race that Go may answer by ending the process; a behaviour may
  end at any time, so no safety property is lost by that. `Adopt` takes blocks of the tree only,
  since data is stored through `allNodesMap` and nothing is verified without it.
- `MiningLoop`: a block is its height and its miner; peers' blocks are good, an
  own block may be bad when its transactions were chosen on another head. One
  wait for data stands for those of a block and of its ancestors.
- `TransactionPool`: a payment, a block and an output are records and triples;
  signatures are right and amounts are integers without overflow. A group is made
  request by request, as in the code: the head and its manager are taken first,
  then the own requests are walked, then the others', each looked up in the
  manager, which the updater may have moved since. A request that comes to a map
  during the walk waits for its mutex. An input is a pair of its place in the
  record and the output it refers to, so that an output recorded twice can be
  paid with twice. A payment of the wallet is made in the same way: the head's
  manager is taken first (`TakeManager`), then the records are looked up in it. The
  updater can move that manager at most once during the walk, because it then needs the
  wallet's mutex to record the block; `LookUp` is the part of a walk before such a
  move, and a walk that nobody disturbs is one step. `updateWithBlock` comes
  first, then the payments of the block leave the pool one by one, each waiting for the
  walk that has the mutex of `signatureVerifiedRequest`. A payment is in one map only,
  so its removal from both is one step; the fee block is in neither. Peers are honest: they pay from outputs
  of their own and mine what is valid, in any order and on any branch.
- `TransactionGroup`: a transaction is its number and its inputs. Whether a
  group is refused for an output it spends already is in `TransactionPool`.
- `Handshake`: a pair of call and peer stands for the random response number.
  The acceptance, the transmission and the closing of the channel are one step
  of the sender (`Transmit`), since the number is known to nobody else then.
  A message is handed over when the receiver listens: the channels are unbuffered
  and every message is handled by a goroutine of its own, so the hand-over is all
  they decide. What `receiveSend` does with the payload is in the other modules.
- `otherHeadNodes` is written and never decides anything: left out.

## The runs

`Genesis`, branches and double spends are drawn at the head of the MC modules.

| Run | Shows |
|---|---|
| `UtxoUpdater_fork` | one updater, two branches that spend the same output and a double spend, an own block; all orders of headers, joins and data, panics included. Ten safety properties, refinement, and `OfferedIsVerified` under fairness of the updater alone |
| `UtxoUpdater_two` | two updaters, a fork and a bad signature: `VerifiedChains` |
| `UtxoUpdater_verdict` | counterexample: data that came before the data it refers to is never resolved, and checking it panics |
| `BlockTree` | headers in all orders, either one after the other with an own block among them, or three handlers at a time with one block received twice: no gaps in tree or orphan chains, though a tip may be offered that is linked and not in the map; one after the other, what is missing was asked for and the best tip was offered, from the map |
| `BlockTree_lost` | counterexample: a join cuts `orphanBlockChains` to the length it read before another handler appended a chain, and that chain is gone |
| `MiningLoop` | the updater interrupts only a running `mineBlock`; mining goes on unless the deadlock below is met, after which neither moves, or the updater waits for data that never comes |
| `MiningLoop_stuck` | counterexample, even if all data comes: `mineBlock` waits for the mutex the updater holds while it sends on `interrupt` |
| `TransactionGroup` | groups of 23 sizes up to 511, transactions with up to 300 inputs: every proof, and what a peer rebuilds |
| `Handshake` | two miners and a third that joins and asks for what the first broadcasts; answers come in time, or whenever |
| `TransactionPool` | payments of both sides over forks: money, the soundness of groups, no payment dropped |
| `TransactionPool_unsuitable` | counterexample: a group made after the manager is at the new head and before the pool is told of its block makes that block's payment again |
| `TransactionPool_forgotten` | counterexample: a payment mined on a branch that loses is gone from the pool and not in the chain |

### What the properties say

- `UtxoFaithful`, `VerdictsCorrect`, `NeverFatal`: after any history of forks a
  manager equals the replay of its node's chain, so verdicts are right and the
  sanity checks of `updateWithNextBlockChainNode` never fail.
- `HeadIsHighestVerified`, `HeadReadyWhenIdle`: the head is a highest verified
  block, with its manager whenever the updater rests.
- `RebuildIsShort`, `SavepointsRemain`: a savepoint is never given up, so a
  rebuild re-verifies at most the blocks above the last one.
- `WalletMissesNothing`: every own output unspent at the head has been recorded,
  and the balance is exact unless the wallet was told of a block twice, which
  happens when a branch is rebuilt from a savepoint (`wallet.go:187`).
- `ImplementsLongestChain`: what a reader of head and manager sees.
- `OfferedIsVerified`: a valid block sent on `utxoChan` is verified in the end, unless
  the process dies or the updater is `Blocked` for good: on data that never gets
  into the tree, because nobody answers or because the block is not in
  `allNodesMap`, or on an interrupt the miner never takes. Nothing in the code ends
  either wait. What the property does say is that data that is there always wakes the updater
  up, and that a bad block does not keep it from the blocks of other branches.
- `TreeClosed`, `ChainsConnected`: the updater can descend from whatever it is
  offered to the genesis. A block of the tree has its whole chain there. What is offered is in
  the tree, or in an orphan chain linked to it: a handler that extends the chain
  between the copy of its nodes (`BlockchainCore.go:203`) and the look at its head (217)
  makes its block the tip that is offered, and `addData` never finds that block's
  node.
- `GapAskedFor`, `BestOffered`: gaps are asked for, and a highest tip is with the
  updater, from the tree. Both are false for concurrent
  handlers: an orphan chain's head may be overwritten by a lower block, and
  the tip may be missing from the map.
  `GapAskedFor` also needs that no header is handled twice: one received twice before its
  parent may become the head of two orphan chains, its child extends the first of
  them, and when the list is reordered by another join the parent takes the
  other one; the child then stays in a chain whose parent is in the tree, and
  nobody will ask for that.
- `InterruptHasListener`, `StopsOnlyWhenStuckOrStarved`: the mutex keeps the answer of
  `isMining` true while the updater sends. Mining stops in two ways only: in `Stuck`,
  or `Starved`, when the updater waits for data that never comes and
  the miner for its own block to be taken from `utxoChan`.
- `StuckForEver`: in `Stuck` the updater has the mutex `mineBlock` needs, so
  whatever peers send, the head never changes again, until go-deadlock, whose `Opts`
  the code leaves alone, has waited 30 seconds for the mutex and ends the process.
  `Starved` is on channels, which go-deadlock does not watch.
- `RootCommitsToAll`, `ProofsVerify`, `ProofsBind`: opened down to its leaves the
  root gives every element, with its level and its index there, and nothing else;
  each proof holds for its element and no other.
- `PeersRebuildTheRoot`, `PeersSeeTheSame`: a peer computes the root of the
  header from the serialised group if and only if its byte `size` is the number of
  elements of the tree, and then reads the transactions that the root commits to.
  From 256 transactions on the byte wraps, while the tree refuses what comes after
  255 elements, so the two agree for up to 255 transactions, and again when the number is
  255 modulo 256: of a group of 511 a peer takes the first 255 for the whole block,
  with the right root, while the miner has all 511 in memory. So
  `deserializeTransactionBlockGroup` "does inverse of SerializeTransactionBlockGroup"
  (`transaction.go:410`) up to 255 transactions only. A payment of 256
  inputs never gets that far: `Add` panics on it, since its list of keys is sized by
  the byte `InputNumber`.
- `MoneyIsHeight`: the outputs unspent at a verified block are worth one reward
  per block. It rests on the checks of a block alone and holds although groups
  may be unsuitable and payments may take outputs that were never unspent together,
  since the updater then rejects the block.
- `GroupSound`: while the head has not moved since the group was chosen, if the
  own payments in the group are spendable, which nobody checks, so is the whole
  group. `BlockSuitable` shows that they need not be. Once the head has moved the
  claim is false, for the updater moves the manager while the requests are walked,
  and a group may then hold payments of two branches; such a group is mined only
  to be rejected.
- `NoPaymentForgotten`: a payment made is on its way to the pool, in the pool, or
  in some verified block. `KeepsTrack` shows that this block need not be in the
  head's chain.
- `NobodySkipped`: a broadcast that ended has served whoever was subscribed when
  it was made, or the payload is on its way; the exception is a peer whose answer
  came after the ten seconds.
- `ChannelsForgotten`, `CallsEnd`, `JoinersGetIn`, `RequestsServed`: calls leave
  no channel behind and return, miners that subscribe get the write lock, and who
  asks for what a listening miner holds gets it if answers are prompt. All but
  the first hold until the process dies of the late acceptance of
  `miner.go:325` (`dead`), which the module has.

Some behaviours the models have are shown by no run of their own: that two updaters come to
update one manager (`UtxoUpdater_two` has it), that a rebuilt branch is credited twice (the
exception in `WalletMissesNothing`), that of two orphan chains on one parent only
one is joined (`BlockTree`), and that the head moves between the choice of a group and the
preparation of its block (`MiningLoop`, `TransactionPool`).

### Bounds

- Blocks: 7 (5 for two updaters) of height up to 3. Two branches are needed for a
  fork, height 3 for a manager that is rebuilt through two blocks.
- `SavepointEvery = 2`, where the code has 5, so that savepoints occur at that
  height; the theorems hold for any value above 1.
- Handlers of `BlockTree`: 5, of which 1 or 3 at work (`Arrivals`). Three are what it takes for one to join a
  chain, another to extend it, a third to interleave with both.
- `MaxHeight = 3`, `MaxMined = 3`: enough for a second interruption after a first
  and for own blocks beside the head.
- Group sizes (`Pools`): all up to 9, the neighbourhood of powers of two, and both
  sides of 255, where tree and byte begin to disagree, and 511, where they agree
  again; inputs on both sides of 255. One
  proof is taken of a tree, as taking it does not change the tree.
- `Bounds` of a behaviour of `TransactionPool`: 3 blocks with two own payments, or
  with one of each side, or 4 blocks with one own payment. Two payments are what it takes to
  spend one output twice; the fourth block lets a branch be taken up again above
  a block the wallet knows. Amounts 1 and 3 against a reward of 2 make payments
  with change, and payments of two inputs; with four blocks the amount is 3, with a
  peer's payment 1.
- Handshake: three miners, one payload, one broadcast, one request and the
  answers to it: the payload is offered to the third miner by up to three calls.
- `CHECK_DEADLOCK FALSE`: with all blocks handled, all calls done, the
  bounds reached, or after a panic, the bounded system has nothing left to do.

### Fairness

`UtxoUpdater!Fairness`: the updater is scheduled (weak fairness of `Step`). That a
peer answers a request for data (`AddData`) or that the miner takes an interrupt
(`InterruptMiner`) is not assumed: the code neither asks again nor gives up.
`MiningLoop!Fairness`: both goroutines are scheduled (weak fairness),
and a nonce is found some time (strong fairness of `Found`, since hashing
alternates with looking at the channel). Peers are never obliged to send blocks or
data; `MinesContinuously` has the arrival of all data (`DataComes`) as a hypothesis, which
makes its counterexample the stronger.
`Handshake!Fairness`: each joining miner, each call and the handlers are
scheduled, and timers go off (weak fairness); nobody has to join or to call. The
variable `prompt` is chosen once per behaviour: in some no offer times out while
its answer is under way, in others timeouts race with answers. Only
`RequestsServed` and the exception in `NobodySkipped` look at it.

## What is proved

Assumptions: only those the modules state of their constants (`HeadersAssumption`,
`UniverseAssumption`, `LedgerAssumption`, `ValidAssumption`, `UpdaterAssumption`,
`NoUmAssumption`, `BoundAssumption`, `HandlersAssumption`, `HandshakeAssumption`,
`PoolAssumption`, `PoolsAssumption`).

`UtxoUpdater_proofs`, for every universe of blocks:

- `Invariance`: `Spec => []IInv`, for any number of updaters. The properties are not inductive alone: that a verdict
  is right needs that the parent's manager is that of its chain (`ManagersOk`),
  that the block is being checked against its parent's manager, which needs that
  the stack is a chain of parents (`StacksOk`), that a manager held by another
  updater is tracked as it moves (`HeldOk`), and that everything verified has a
  verified parent (`ClimbOk`). From it follow `TypeCorrect`, `ManagersFaithful`,
  `VerdictsRight`, `HeadHighest` and `ChainsVerified`.
- Assuming one updater (`OneUpdater`), `SoloInvariance` adds that the parent's
  manager stays where the call found it until the call moves it (`CallsOk`) and
  that a head without manager is about to get it (`HeadOk`). From it follow
  `UpdateNeverFails`, `HeadReady`, and `Implementation`: the initial state maps
  to `LongestChain!Init`, and every step to `Adopt`, to `Publish` or to a stutter.
- `SavepointsStay`, for any number of updaters: an action property. A block takes
  its parent's manager along, and it leaves a copy whenever the parent's height
  is a multiple of the distance between savepoints.
- `WalletComplete`, with one updater. Every verified block has been recorded, or
  the call that verified it is about to do so, and what a verified chain leaves
  unspent are outputs of verified blocks (`RecordOk`).
- `RebuildBounded`, with one updater. A verified savepoint has its manager or is
  about to get it (`SavepointsReady`), and the calls on the stack are for consecutive
  heights of blocks without one, the verified among them innermost
  (`CallsShort`); so no verified savepoint is among those that wait.

`MiningLoop_proofs`, for any bounds: `TypeCorrect`, `ListenerPresent` and the action
property `StuckStays`, from the invariant that
the updater holds `generalMutex` exactly while it sends, that it sends only to a
miner that is mining, and that `isMining` holds only between the two critical
sections of `mineBlock`.

`BlockTree_proofs`, for every set of headers, every way they arrive and any
number of handlers at work: `TypeCorrect`, `TreeHasNoGaps`, `OrphansConnected`. Neither
property is inductive: that a handler may insert its block needs that the parent
it looked up is still there, and that it may copy a chain and offer its tip needs
that the chain stays linked to the tree meanwhile (`PlacesOk`, `Linked`), whatever others do to
the list or to the chain; that it may extend a chain without its
lock needs that chains never lose nodes and exist before they are found
(`CreatedOk`), and that a joined chain leaves no gap needs that its root is its
lowest block and its head is one of its own (`Connected`).

`BlockTreeSerial_proofs`, with one handler at a time:

- `BestIsOffered`. The head of a chain is its highest block (`HeadsHighest`), what a handler
  read as the head is no higher than the head still (`SeenOk`), and every block of the tree is no
  higher than the head or something offered, but for those a handler still has to offer
  a tip for (`ToOffer` in `TreeOffered`). Nobody extends a chain while it is joined, so
  what is offered is in the tree (`JoinedOk`).
- `GapIsAskedFor`, with no header twice (`BlockOf` injective; the reason is above). A block
  handled is in the tree or in a listed chain (`Placed`), where its own handler
  put it (`NodesHandled`, `FreshOk`); the index and the length by which a joined chain is
  removed are those of the list still (`RemovalOk`); no two listed chains share a block (`ChainsApart`),
  and each has its root below all its blocks and has asked for the root's parent (`RootsAsked`).

`TransactionPool_proofs`, for any number of blocks, payments and forks:

- `PoolTyped`. The types are not inductive alone: that amounts stay natural needs that
  payments take outputs which some block has (`ChainInv`), that what a walk of the wallet
  has found so far are such outputs (`WalletInv`), and that the pool holds only
  payments which were made (`PoolInv`).
- `PaymentsSafe`. A payment goes from the wallet to the pool and leaves it only with
  a verified block that has it; the walk that makes a group takes nothing away.
- `GroupsSound`. No two requests taken so far share an output (`Apart`), each
  of the others' was found in the manager (`OthersChecked`), and a manager leaves its
  node only after the head has (`LeftLate`): so as long as the head has not moved,
  all were looked up on the same chain.

`TransactionMoney_proofs`: `MoneyConserved`. Sums are cardinalities of sets of
coins, (output, i) for i up to the amount, so that they need no recursion and the
theorems about finite sets apply. A payment pays out what it takes in
(`SentBalanced`), a group is a fee block and such payments (`GroupPays`), and a block
adds one reward to what was unspent at its parent (`BlocksBalanced`). That the transactions
of a block add up is an induction on their number, which is replaced by an argument on
finite sets: a set of places that has 0 and the successor of each member has
them all (`CountUp`).

`Handshake_proofs`, for any number of miners, payloads and requests:
`TypeCorrect`, `NoChannelLeaks`, `BroadcastsReachAll`. The invariant adds what a
call at rest is waiting for (`RestOk`), that a request asks each miner once and so no
answer is started twice (`AskedOnce`), that an offer whose answer is not under
way was silently turned down because the payload had come (`SilenceMeansReceived`),
and that whoever a broadcast is for is still to come or has been served
(`EveryoneCovered`).

`TransactionGroup_proofs`, for any number of transactions with any inputs:
`GroupTyped`, `RootCommits`, `ProofsAccepted`, `ProofsHold`, `PeersAgree`, `PeersRead`,
and of the trees themselves `RootBinds`: one root, one list of elements. `FinalizeTree`, `VerifyProofStruct`
and the opening of a root recurse over levels, of which a byte allows nine. Each is
a recursive function, shown to exist first (`LevelsExist`, `HashesExist`, `OpenedExists`),
by induction up to a bound: a set of levels that has 0 and the successor of each of its
members has them all (`UpTo`). The places of a tree are those of joins (`Inner`) and those of
elements (`Outer`, `ElementAt`). From there:

- A place of a join holds the join of the two below it (`InnerJoins`), one of an element
  the hash of that element (`OuterHolds`), and every element has one place
  (`ElementsHeld`, `PlacesTaken`). So opening the root eight times reaches exactly the places of elements.
- Halving an index leads from an element to the root (`ParentJoins`), so the hash recomputed
  after each step is the one at that place (`ProofAccepted`). If two data gave one root with
  one path, the hashes would be equal at each step back to the data (`ProofBinds`).
- Two trees with one root have the same leaves at the same places, hence the same number of
  elements (`SharedShape`) and the same elements.
- The invariant `GroupInv` of the group: elements are numbered by their places, the tree counts up to
  255 and the byte modulo 256 (`Counted`), a finalized tree is that of its
  elements (`Hashed`), and proofs and what a peer has are what they are computed from (`Proved`, `Rebuilt`).

What these say of roots and proofs is for ideal hashes: terms are equal only when what
they hash is, and the hash of a transaction is never that of a pair of hashes, which the code
hashes in the same way and tells apart only by their contents.

Only model-checked: liveness (`OfferedIsVerified`, `StopsOnlyWhenStuckOrStarved`,
`CallsEnd`, `JoinersGetIn`, `RequestsServed`), which is beyond the prover. Every
invariant and every other property of the passing runs is a theorem.

## What is left

`BlockTree` over nodes instead of blocks: two nodes of one block when it is
received twice, and the map entry before the parent pointer.

Not modelled, and not planned: RSA calls, the shell, printing, byte layout of
messages, `otherHeadNodes`, the `danglingData` store, overflow of amounts, and the
serialisation of a whole chain for a new miner.
