--------------------------- MODULE MCUtxoUpdater ---------------------------
(***************************************************************************)
(* A small universe of blocks for UtxoUpdater: two branches that part      *)
(* after a1 and spend the same output of a1, and a block x3 that spends it *)
(* a second time on the first branch.                                      *)
(*                                                                         *)
(*      g --- a1 --- a2 --- a3                                             *)
(*             |      `---- x3                                             *)
(*             `---- b2 --- b3                                             *)
(***************************************************************************)
EXTENDS UtxoUpdater, TLC

MCBlocks == {"g", "a1", "a2", "a3", "x3", "b2", "b3"}

MCPrevHash ==
  "g" :> "g" @@ "a1" :> "g" @@ "a2" :> "a1" @@ "a3" :> "a2" @@ "x3" :> "a2"
  @@ "b2" :> "a1" @@ "b3" :> "b2"

MCBlockCount[b \in MCBlocks] == IF b = "g" THEN 0 ELSE MCBlockCount[MCPrevHash[b]] + 1

MCSpends ==
  "g" :> <<>> @@ "a1" :> <<>> @@ "a2" :> <<<<"a1", 1>>>> @@ "a3" :> <<<<"a2", 1>>>>
  @@ "x3" :> <<<<"a1", 1>>>> @@ "b2" :> <<<<"a1", 1>>>>
  @@ "b3" :> <<<<"b2", 2>>, <<"a1", 2>>>>

MCOutputNumber == [b \in MCBlocks |-> IF b = "g" THEN 0 ELSE 2]

MCSignaturesOk == [b \in MCBlocks |-> TRUE]

MCReceived == {<<"a1", 2>>, <<"b2", 1>>, <<"a3", 1>>}

MCLedger[b \in MCBlocks] ==
  IF b = "g" THEN {} ELSE ApplyBlock(MCLedger[MCPrevHash[b]], b)

MCGood[b \in MCBlocks] ==
  b = "g" \/ (/\ MCGood[MCPrevHash[b]]
              /\ RefsSpendable(MCLedger[MCPrevHash[b]], b)
              /\ MCSignaturesOk[b])

MCValid == {b \in MCBlocks : MCGood[b]}
=============================================================================
