CONSTANTS
  Nodes = {1, 2, 3}
  Cost <- MCCost
  Slot <- MCSlot
  Seeds = {1}
  MaxRank = 12
  Hysteresis = 1
  MaxParents = 2
  LinksTarget = 2
  Margin = 1
  AdvPeriod = 1
  Repeats = FALSE
  Troubles = {}
  MaxTroubles = 0

SPECIFICATION FairSpec

INVARIANT NoForwardingLoop
