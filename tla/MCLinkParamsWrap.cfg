CONSTANTS
  CounterMod = 8
  Lead = 2
  SubrateMax = 1
  Horizon = 10
  MaxLosses = 0
  MaxSpills = 0
  MaxDrops = 0
  MaxMaps = 0
  MaxUrgent = 0

SPECIFICATION FairSpec

PROPERTY CatchUpEnds

\* The number of events is bounded.
CHECK_DEADLOCK FALSE
