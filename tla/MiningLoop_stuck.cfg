SPECIFICATION FairSpec
CONSTANTS
  MaxHeight = 3
  MaxMined = 3

PROPERTY MinesContinuously

CHECK_DEADLOCK FALSE
