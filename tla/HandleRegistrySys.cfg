\* Raw handle structs, copied freely (the sys layer), against the table promised.
CONSTANTS
  t1 = t1
  t2 = t2
  s1 = s1
  s2 = s2
  s3 = s3
  oA = oA
  oB = oB
  Thread <- TwoThreads
  Slot <- ThreeSlots
  Object <- TwoObjects
  NoThread = NoThread
  NoSlot = NoSlot
  NoObject = NoObject
  MaxId = 3
  SysCopies = TRUE
SPECIFICATION Spec
INVARIANTS TypeOK CursorValid NoAliasing NoOrphan ValidIffHandle
PROPERTIES EntriesFinal ImplementsHandleTable
CHECK_DEADLOCK FALSE
