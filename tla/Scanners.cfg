\* Two libraries that take turns at one base address, two threads, copied handles.
CONSTANTS
  t1 = t1
  t2 = t2
  s1 = s1
  s2 = s2
  l1 = l1
  l2 = l2
  p1 = p1
  Thread <- Threads
  Slot <- Slots
  Lib <- Libs
  Page <- Pages
  NoLib = NoLib
  Unread = Unread
  NoScan = NoScan
  NoThread = NoThread
  NoSlot = NoSlot
  NoObject = NoObject
  SysCopies = TRUE
  MaxId = 2
  MaxAge = 2
SPECIFICATION Spec
INVARIANTS TypeOK HalfReadAlone UnsoundOnlyAfterUnload
PROPERTIES OnlyRefreshChanges
CHECK_DEADLOCK FALSE
