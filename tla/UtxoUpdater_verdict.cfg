SPECIFICATION Spec
CONSTANTS
  Blocks <- MCBlocks
  Genesis = "g"
  PrevHash <- MCPrevHash
  BlockCount <- MCBlockCount
  Spends <- MCSpends
  OutputNumber <- MCOutputNumber
  SignaturesOk <- MCSignaturesOk
  Ledger <- MCLedger
  Valid <- MCValid
  Received <- MCReceived
  NoUm = NoUm
  Updaters = {u1}
  Own = {"b3"}
  SavepointEvery = 2

INVARIANT CheckEndsInVerdict

CHECK_DEADLOCK FALSE
