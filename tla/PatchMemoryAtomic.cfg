\* Patches alone, two of them over the same bytes.
CONSTANTS
  t1 = t1
  t2 = t2
  p1 = p1
  p2 = p2
  b1 = b1
  b2 = b2
  Thread <- TwoThreads
  PatchSlot <- TwoPatches
  BackupSlot <- OneBackup
  Addr <- TwoAddrs
  Byte <- Trits
  Pristine <- Loaded
  Requests <- SameRange
  Regions <- None
  Reads <- None
  Writes <- None
  NoThread = NoThread
  NoSlot = NoSlot
  NoObject = NoObject
  NoPatch = NoPatch
  SysCopies = FALSE
  MaxPatch = 2
  MaxBackup = 0
SPECIFICATION Spec
INVARIANTS InspectExact
PROPERTIES PatchesAreAtomic
CHECK_DEADLOCK FALSE
