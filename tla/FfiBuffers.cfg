\* Two threads and two objects over two blocks of the allocator.
CONSTANTS
  t1 = t1
  t2 = t2
  c1 = c1
  c2 = c2
  x = x
  y = y
  s1 = s1
  s2 = s2
  Slot <- Slots
  State = {made, used}
  Made = made
  Zeroed = Zeroed
  Thread <- Threads
  Cell <- Cells
  Item <- Items
  Empty = Empty
  Null = Null
  Junk = Junk
  Nothing = Nothing
SPECIFICATION Spec
SYMMETRY Symmetric
INVARIANTS TypeOK BlocksOwned ResultIsOwn ObjectsIntact
