-------------------------- MODULE TransactionGroup --------------------------
(***************************************************************************)
(* The transactions of a block on their way to a peer: they are added to a *)
(* transactionBlockGroup and to its Merkle tree, the tree is finalized,    *)
(* and a peer rebuilds group and tree from the serialised group.  Counts   *)
(* are bytes everywhere, but only the tree refuses to count beyond 255.    *)
(*                                                                         *)
(* A transaction is its number in the group and how many inputs it has;    *)
(* with 255 of them its length still fits the 16 bits that lengths have.   *)
(***************************************************************************)
EXTENDS MerkleTree

CONSTANT Pools  \* bound: how many transactions there are, inputs of the last

ASSUME PoolsAssumption == Pools \subseteq [number : Nat \ {0}, inputs : Nat]

VARIABLES
  pool,               \* the transactions to put into the group
  size,               \* uint8
  transactionBlocks,  \* and TransactionBlockStructs
  received            \* what a peer has made of the group

vars == <<treeVars, pool, size, transactionBlocks, received>>

Transaction(n, inputs) == [number |-> n, inputs |-> inputs]
Panicked == [panicked |-> TRUE]
NoGroup == [transactionBlocks |-> <<>>, root |-> [missing |-> TRUE]]

NextTransaction ==
  LET n == Len(transactionBlocks) + 1
  IN Transaction(n, IF n = pool.number THEN pool.inputs ELSE 1)

(* Variant: there is room for all keys.                                    *)
RoomForAnyKeys(tx) == TRUE

(* Add makes room for the keys of InputNumber inputs, a byte, and then     *)
(* writes one for each.                                                    *)
RoomForKeys(tx) == tx.inputs <= Uint8(tx.inputs)

AddTransaction ==
  /\ Len(transactionBlocks) < pool.number /\ ~panicked
  /\ IF RoomForKeys(NextTransaction)
     THEN /\ size' = Uint8(size + 1)
          /\ transactionBlocks' = Append(transactionBlocks, NextTransaction)
          /\ Add
     ELSE /\ panicked' = TRUE
          /\ UNCHANGED <<elements, data, levelHash, finalized, asked, proof, size, transactionBlocks>>
  /\ UNCHANGED <<pool, received>>

(* finalizeTransactionBlockGroup.                                          *)
Finalize ==
  /\ Len(transactionBlocks) = pool.number
  /\ FinalizeTree
  /\ UNCHANGED <<pool, size, transactionBlocks, received>>

(* serializeTransactionBlock: as many inputs as InputNumber says.          *)
Serialize(tx) == Transaction(tx.number, Uint8(tx.inputs))

(* serializeTransactionBlockGroup: size says how many lengths are read     *)
(* back, and where the first transaction starts.                           *)
Wire == [size |-> size,
         transactionBlocks |-> [i \in DOMAIN transactionBlocks |-> Serialize(transactionBlocks[i])]]

(* Variant: the last transaction is not read back.                         *)
DeserializeAlmost(wire) == SubSeq(wire.transactionBlocks, 1, wire.size - 1)

Deserialize(wire) == SubSeq(wire.transactionBlocks, 1, wire.size)

(* What the peer adds to its own tree, which has room for all.             *)
PeerData(wire) ==
  LET group == Deserialize(wire) IN [i \in DOMAIN group |-> group[i].number]

(* deserializeTransactionBlockGroup finalizes its own tree; that of no     *)
(* transactions panics.                                                    *)
Receive ==
  /\ finalized /\ received = NoGroup /\ proof = NoProof
  /\ received' = [transactionBlocks |-> Deserialize(Wire),
                  root |-> IF Deserialize(Wire) = <<>> THEN Panicked ELSE LevelHash(PeerData(Wire))[0][0]]
  /\ UNCHANGED <<treeVars, pool, size, transactionBlocks>>

Proof ==
  /\ \E n \in 0..255 : GenerareteMerkleProof(n)
  /\ UNCHANGED <<pool, size, transactionBlocks, received>>

Init ==
  /\ TreeInit
  /\ pool \in Pools /\ size = 0 /\ transactionBlocks = <<>> /\ received = NoGroup

Next == AddTransaction \/ Finalize \/ Receive \/ Proof

Spec == Init /\ [][Next]_vars

-----------------------------------------------------------------------------
(* A peer computes the root that is in the block's header, and so finds    *)
(* the block the data is for, exactly if the byte that counts the          *)
(* transactions agrees with the tree, which counts to 255 and no further.  *)
PeersRebuildTheRoot ==
  received # NoGroup =>
    (received.root = MerkleRoot <=>
       Len(transactionBlocks) <= 255 \/ Len(transactionBlocks) % 256 = 255)

(* What a peer then verifies are the transactions that the root commits    *)
(* to: all the miner has in memory, as long as the tree has counted them.  *)
PeersSeeTheSame ==
  received # NoGroup /\ received.root = MerkleRoot
    => received.transactionBlocks = SubSeq(transactionBlocks, 1, elements)
=============================================================================
