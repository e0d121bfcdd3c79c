CONSTANTS
  Nodes = {1, 2, 3}
  InRange <- MCInRange
  Capable = {1}
  LinksTarget = 2
  MaxLinks = 2
  Density = 1
  Margin = 0
  MaxTroubles = 1

SPECIFICATION FairSpec

INVARIANT TypeOK
INVARIANT InitiatorUnambiguous
PROPERTY GridForms
PROPERTY RolesHold
