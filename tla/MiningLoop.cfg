SPECIFICATION FairSpec
CONSTANTS
  MaxHeight = 3
  MaxMined = 3

INVARIANTS
  TypeOK
  InterruptHasListener

PROPERTIES
  StopsOnlyWhenStuckOrStarved
  StuckForEver

CHECK_DEADLOCK FALSE
