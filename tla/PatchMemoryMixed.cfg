\* A patch of two bytes, a backup and raw reads and writes of one of them, handles copied.
CONSTANTS
  t1 = t1
  t2 = t2
  p1 = p1
  p2 = p2
  b1 = b1
  b2 = b2
  Thread <- TwoThreads
  PatchSlot <- TwoPatches
  BackupSlot <- TwoBackups
  Addr <- TwoAddrs
  Byte <- Quads
  Pristine <- Loaded
  Requests <- OneRequest
  Regions <- LastByte
  Reads <- LastByte
  Writes <- OneWrite
  NoThread = NoThread
  NoSlot = NoSlot
  NoObject = NoObject
  NoPatch = NoPatch
  SysCopies = TRUE
  MaxPatch = 1
  MaxBackup = 1
SPECIFICATION Spec
SYMMETRY Symmetric
INVARIANTS TypeOK JobBacked NoForeignByte
CHECK_DEADLOCK FALSE
