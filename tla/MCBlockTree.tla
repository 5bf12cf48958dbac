---------------------------- MODULE MCBlockTree ----------------------------
(***************************************************************************)
(* A chain of four blocks, a fork c3 at its second block, and a block o2   *)
(* that the miner mines itself.                                            *)
(*                                                                         *)
(*      g --- b1 --- b2 --- b3 --- b4                                      *)
(*             |      `---- c3                                             *)
(*             `---- o2                                                    *)
(***************************************************************************)
EXTENDS BlockTree, TLC

MCBlocks == {"g", "b1", "b2", "b3", "b4", "c3", "o2"}
MCPrevHash == "g" :> "g" @@ "b1" :> "g" @@ "b2" :> "b1" @@ "b3" :> "b2"
              @@ "b4" :> "b3" @@ "c3" :> "b2" @@ "o2" :> "b1"
MCBlockCount[b \in MCBlocks] == IF b = "g" THEN 0 ELSE MCBlockCount[MCPrevHash[b]] + 1

MCHandlers == {"h1", "h2", "h3", "h4", "h5"}

(* Every block of the fork is received once.                               *)
MCForkBlockOf ==
  "h1" :> "b1" @@ "h2" :> "b2" @@ "h3" :> "b3" @@ "h4" :> "b4" @@ "h5" :> "c3"

(* Two peers send b2 before either copy is marked as received.             *)
MCTwiceBlockOf ==
  "h1" :> "b1" @@ "h2" :> "b2" @@ "h3" :> "b3" @@ "h4" :> "b4" @@ "h5" :> "b2"

(* One header after the other, and three at a time with one sent twice.    *)
MCArrivals == {[blockOf |-> MCForkBlockOf, atOnce |-> 1],
               [blockOf |-> MCTwiceBlockOf, atOnce |-> 3]}
MCTwice == {[blockOf |-> MCTwiceBlockOf, atOnce |-> 3]}
=============================================================================
