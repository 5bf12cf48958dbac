------------------------- MODULE MCTransactionGroup -------------------------
(***************************************************************************)
(* Group sizes up to ten, around the powers of two, and on both sides of   *)
(* the largest byte, the first time and the second; numbers of inputs on   *)
(* both sides of it.                                                       *)
(***************************************************************************)
EXTENDS TransactionGroup

MCPools == [number : {1, 2, 3, 4, 5, 6, 7, 8, 9, 13, 16, 31, 32, 33, 48, 127, 128, 129,
                      254, 255, 256, 257, 511}, inputs : {1}]
           \cup [number : {3}, inputs : {0, 255, 256, 300}]
=============================================================================
