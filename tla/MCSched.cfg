CONSTANTS
  Neighbours = {n1, n2}
  NoNeigh = NoNeigh
  RxRingSize = 2

SPECIFICATION FairSpec

INVARIANT TypeOK
INVARIANT NoLeakedGrant
INVARIANT EventDriven
INVARIANT NeverStalls

PROPERTY PlansOnQuietRadio
PROPERTY EventEnds
PROPERTY KeepsLooking
