CONSTANTS
  ReqFrags = 2
  RspFrags = 3
  IdleLimit = 8
  ResumeIdleLimit = 5
  SlotLimit = 48
  ResumeSlotLimit = 24
  LastSlot = 255
  MaxAttempts = 2
  MaxLosses = 0
  MaxDrops = 0
  MaxOutages = 1

SPECIFICATION Spec

PROPERTY ResumptionSucceeds

CHECK_DEADLOCK FALSE
