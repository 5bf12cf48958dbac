---------------------------- MODULE LongestChain ----------------------------
(***************************************************************************)
(* What the chain of a miner promises the rest of the program, whatever    *)
(* arrives from the network in whatever order: the head is always a valid  *)
(* block and only ever moves to a higher one; after a move there is for a  *)
(* while no view of the unspent outputs; once there is one, it is exactly  *)
(* the replay of the head's chain, and it stays until the head moves on.   *)
(***************************************************************************)
EXTENDS BlockUniverse

CONSTANT NoView   \* no unspent outputs are known at the head

VARIABLES head, view

vars == <<head, view>>

Init == head = Genesis /\ view = Ledger[Genesis]

Adopt(b) ==
  /\ b \in Valid
  /\ BlockCount[b] > BlockCount[head]
  /\ head' = b
  /\ view' = NoView

Publish ==
  /\ view = NoView
  /\ view' = Ledger[head]
  /\ UNCHANGED head

Next == Publish \/ \E b \in Blocks : Adopt(b)

Spec == Init /\ [][Next]_vars
=============================================================================
