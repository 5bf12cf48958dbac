------------------------- MODULE MCTransactionPool -------------------------
(***************************************************************************)
(* Bounds for TLC.  Three blocks are enough for two own payments that      *)
(* spend one output, and for payments of both sides in one group; the      *)
(* fourth lets a branch be taken up again above a block the wallet has     *)
(* already been told of, so that an output is recorded twice, and a        *)
(* payment of more than one reward is made with it.                        *)
(***************************************************************************)
EXTENDS TransactionPool

MCBounds == {[blocks |-> 3, own |-> 2, peer |-> 0, amounts |-> {1, 3}],
             [blocks |-> 3, own |-> 1, peer |-> 1, amounts |-> {1}],
             [blocks |-> 4, own |-> 1, peer |-> 0, amounts |-> {3}]}
=============================================================================
