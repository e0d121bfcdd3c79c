SPECIFICATION Spec
SYMMETRY MCSymmetry
CONSTANTS
  a = a
  b = b
  poor = poor
  far = far
  None = None
  Peers = {a, b, poor}
  Lower = {}
  CostOf <- MCCost
  Offers = {0, 1, 4}
  Lists <- MCLists
  MaxNeighbors = 2
  MaxLinks = 2
  MaxParents = 1
  MaxRoutes = 1
  LinksTarget = 2
  Margin = 0
  Hysteresis = 1
  Tolerable = 1
  MaxRank = 4
INVARIANT TypeOK
INVARIANT JoiningIsDriven
INVARIANT RankHasParent
INVARIANT RoutesFollowLinks
PROPERTY UplinkStays
