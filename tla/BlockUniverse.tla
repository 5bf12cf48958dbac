--------------------------- MODULE BlockUniverse ---------------------------
(***************************************************************************)
(* What the blocks contain.  Through the Merkle root the hash commits to   *)
(* the transactions as well, so the references a block spends and the      *)
(* outputs it creates are constants too.  Amounts and signature bytes are  *)
(* reduced to whether VerifyExceptUTXO accepts them.                       *)
(***************************************************************************)
EXTENDS Headers, Sequences

CONSTANTS
  Spends,         \* the references of all inputs of the block's transactions, in order
  OutputNumber,   \* how many outputs its transactions create
  SignaturesOk,   \* whether VerifyExceptUTXO accepts its (resolved) transactions
  Ledger,         \* the unspent outputs after replaying the chain that ends in a block
  Valid           \* the blocks all of whose chain is acceptable

(* A reference names a block and an output of it.  transactionRef has two  *)
(* small indices (transaction, output); one number stands for the pair.    *)
Ref == Blocks \X Nat

OutputsOf(b) == {<<b, i>> : i \in 1..OutputNumber[b]}

SpentBy(b) == {Spends[b][i] : i \in 1..Len(Spends[b])}

(* verifyTransactionBlockGroupRefs: every input is unspent before the      *)
(* block, and no two inputs of the group name the same output.             *)
RefsSpendable(unspent, b) ==
  /\ SpentBy(b) \subseteq unspent
  /\ \A i, j \in 1..Len(Spends[b]) : Spends[b][i] = Spends[b][j] => i = j

(* The map updates of updateWithNextBlockChainNode.  An output that is     *)
(* marked false and one that is absent are both unspendable, so the map is *)
(* the set of the references it maps to true.                              *)
ApplyBlock(unspent, b) == (unspent \ SpentBy(b)) \cup OutputsOf(b)

ASSUME UniverseAssumption ==
  /\ Spends \in [Blocks -> Seq(Ref)]
  /\ OutputNumber \in [Blocks -> Nat]
  /\ SignaturesOk \in [Blocks -> BOOLEAN]

(* Ledger is the replay of a chain from the genesis, block after block.    *)
ASSUME LedgerAssumption ==
  /\ Ledger \in [Blocks -> SUBSET Ref]
  /\ Ledger[Genesis] = {}
  /\ \A b \in Blocks \ {Genesis} :
       Ledger[b] = ApplyBlock(Ledger[PrevHash[b]], b)

(* A block is valid when its parent is, it spends what that chain leaves   *)
(* unspent, and its signatures and amounts are right.                      *)
ASSUME ValidAssumption ==
  /\ Valid \subseteq Blocks
  /\ Genesis \in Valid
  /\ \A b \in Blocks \ {Genesis} :
       b \in Valid <=> /\ PrevHash[b] \in Valid
                       /\ RefsSpendable(Ledger[PrevHash[b]], b)
                       /\ SignaturesOk[b]
=============================================================================
