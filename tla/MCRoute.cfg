CONSTANTS
  Nodes = {1, 2, 3}
  Cost <- MCCost
  Slot <- MCSlot
  Seeds = {1}
  MaxRank = 12
  Hysteresis = 1
  MaxParents = 2
  LinksTarget = 2
  Margin = 1
  AdvPeriod = 1
  Repeats = FALSE
  Troubles = {"down", "up", "cut", "loss"}
  MaxTroubles = 2

SPECIFICATION FairSpec

INVARIANT TypeOK
INVARIANT QuietIsTrue
PROPERTY ComesToRest
PROPERTY SinkLossNoticed

\* A grid that has lost its only sink before it has formed has nothing to do.
CHECK_DEADLOCK FALSE
