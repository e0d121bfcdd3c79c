CONSTANTS
  ReqFrags = 2
  RspFrags = 2
  IdleLimit = 4
  ResumeIdleLimit = 3
  SlotLimit = 8
  ResumeSlotLimit = 5
  LastSlot = 10
  MaxAttempts = 2
  MaxLosses = 2
  MaxDrops = 1
  MaxOutages = 1

SPECIFICATION FairSpec

INVARIANT TypeOK
INVARIANT KeysAgree
INVARIANT TurnsKept
INVARIANT CleanAttemptSucceeds

PROPERTY JoinsTogether
PROPERTY HandshakeEnds

\* The joiner's attempts are bounded.
CHECK_DEADLOCK FALSE
