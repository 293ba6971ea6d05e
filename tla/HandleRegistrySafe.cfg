\* Owned values (the safe layer) under a fair scheduler.
CONSTANTS
  t1 = t1
  t2 = t2
  s1 = s1
  s2 = s2
  s3 = s3
  oA = oA
  oB = oB
  Thread <- TwoThreads
  Slot <- TwoSlots
  Object <- OneObject
  NoThread = NoThread
  NoSlot = NoSlot
  NoObject = NoObject
  MaxId = 3
  SysCopies = FALSE
SPECIFICATION FairSpec
INVARIANTS OwnedIsRegistered
PROPERTIES MutexReleased ReturnsWhenAlone
CHECK_DEADLOCK FALSE
