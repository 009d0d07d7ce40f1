SPECIFICATION Spec
CONSTANTS
  Slots = {p1}
  MaxId = 2
  Workers = {w1, w2}
  Senders = {c1, c2}
  NContexts = 2
  MaxUsed = 2
  NoThread = NoThread
  NoSlot = NoSlot
SYMMETRY Alike
INVARIANTS TypeOK PendingExact OneOperationEach NoDangling FreedOnce
CHECK_DEADLOCK FALSE
