------------------------------ MODULE Headers ------------------------------
(***************************************************************************)
(* The block headers that exist in one run of the program, seen as         *)
(* constants.  A block is identified by its hash, and the hash commits to  *)
(* the parent and to the height, so neither ever changes: only which       *)
(* blocks a miner has received, and what it made of them, is state.        *)
(* Headers that block.Verify rejects are dropped at once and do not appear.*)
(***************************************************************************)
EXTENDS Naturals

CONSTANTS
  Blocks,     \* the blocks, each standing for its hash
  Genesis,    \* genesisBlock
  PrevHash,   \* the parent; the genesis node points to itself
  BlockCount  \* the height written in the header

ASSUME HeadersAssumption ==
  /\ Genesis \in Blocks
  /\ PrevHash \in [Blocks -> Blocks]
  /\ PrevHash[Genesis] = Genesis
  /\ BlockCount \in [Blocks -> Nat]
  /\ BlockCount[Genesis] = 0
  /\ \A b \in Blocks \ {Genesis} : BlockCount[b] = BlockCount[PrevHash[b]] + 1
=============================================================================
