CONSTANTS
  NeighCount = 2
  Others <- BeaconThenScan
  Times = {0, 1, 2, 3, 4, 5, 6}
  Contend = 2

SPECIFICATION SelectSpec

INVARIANT SelectTypeOK
INVARIANT DelayBounded
INVARIANT ContendersBeaten

\* A choice is made and the module's behaviour ends.
CHECK_DEADLOCK FALSE
