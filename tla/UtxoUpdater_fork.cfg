SPECIFICATION FairSpec
CONSTANTS
  Blocks <- MCBlocks
  Genesis = "g"
  PrevHash <- MCPrevHash
  BlockCount <- MCBlockCount
  Spends <- MCSpends
  OutputNumber <- MCOutputNumber
  SignaturesOk <- MCSignaturesOk
  Ledger <- MCLedger
  Valid <- MCValid
  Received <- MCReceived
  NoUm = NoUm
  Updaters = {u1}
  Own = {"b3"}
  SavepointEvery = 2

INVARIANTS
  TypeOK
  UtxoFaithful
  VerdictsCorrect
  HeadIsHighestVerified
  HeadReadyWhenIdle
  NeverFatal
  RebuildIsShort
  WalletMissesNothing

PROPERTIES
  SavepointsRemain
  ImplementsLongestChain
  OfferedIsVerified

CHECK_DEADLOCK FALSE
