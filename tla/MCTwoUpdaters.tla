--------------------------- MODULE MCTwoUpdaters ---------------------------
(***************************************************************************)
(* A smaller universe, for two updaters on the same tree: two blocks on a1 *)
(* that spend the same output, and a block y3 with a wrong signature.      *)
(*                                                                         *)
(*      g --- a1 --- a2 --- y3                                             *)
(*             `---- b2                                                    *)
(***************************************************************************)
EXTENDS UtxoUpdater, TLC

MCBlocks == {"g", "a1", "a2", "b2", "y3"}

MCPrevHash == "g" :> "g" @@ "a1" :> "g" @@ "a2" :> "a1" @@ "b2" :> "a1" @@ "y3" :> "a2"

MCBlockCount[b \in MCBlocks] == IF b = "g" THEN 0 ELSE MCBlockCount[MCPrevHash[b]] + 1

MCSpends ==
  [b \in MCBlocks |-> IF b \in {"a2", "b2"} THEN <<<<"a1", 1>>>> ELSE <<>>]

MCOutputNumber == [b \in MCBlocks |-> IF b = "g" THEN 0 ELSE 1]

MCSignaturesOk == [b \in MCBlocks |-> b # "y3"]

MCReceived == {<<"a2", 1>>}

MCLedger[b \in MCBlocks] ==
  IF b = "g" THEN {} ELSE ApplyBlock(MCLedger[MCPrevHash[b]], b)

MCValid == {"g", "a1", "a2", "b2"}
=============================================================================
