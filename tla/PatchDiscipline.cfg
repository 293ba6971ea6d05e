\* A host program that keeps to the discipline; its handles may be copied.
CONSTANTS
  t1 = t1
  t2 = t2
  p1 = p1
  p2 = p2
  b1 = b1
  Thread <- TwoThreads
  PatchSlot <- TwoPatches
  BackupSlot <- OneBackup
  Addr <- ThreeAddrs
  Byte <- Trits
  Pristine <- Loaded
  Requests <- Layered
  Regions <- None
  Reads <- None
  Writes <- None
  NoThread = NoThread
  NoSlot = NoSlot
  NoObject = NoObject
  NoPatch = NoPatch
  SysCopies = TRUE
  MaxPatch = 3
  MaxBackup = 0
SPECIFICATION DSpec
SYMMETRY Symmetric
INVARIANTS Unwinds
CHECK_DEADLOCK FALSE
