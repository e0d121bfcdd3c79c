CONSTANTS
  CounterMod = 65536
  Lead = 3
  SubrateMax = 4
  Horizon = 14
  MaxLosses = 2
  MaxSpills = 1
  MaxDrops = 1
  MaxMaps = 2
  MaxUrgent = 1

SPECIFICATION FairSpec

INVARIANT TypeOK
INVARIANT CleanChangesAgree

PROPERTY InitiatorConfirmed
PROPERTY CatchUpEnds

\* The number of events is bounded.
CHECK_DEADLOCK FALSE
