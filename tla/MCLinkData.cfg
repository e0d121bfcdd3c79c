CONSTANTS
  QueueSize = 2
  DupSize = 2
  MaxMsgs = 2
  MaxForeign = 1
  Troubles <- MCTroubles
  MaxTroubles = 3

SPECIFICATION FairSpec

INVARIANT TypeOK
INVARIANT FreedWasDelivered

PROPERTY DeliversInOrder
PROPERTY QueuesDrain
