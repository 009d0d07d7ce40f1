SPECIFICATION FairSpec
CONSTANTS
  Slots = {p1}
  MaxId = 1
  Workers = {w1, w2}
  Senders = {c1}
  NContexts = 1
  MaxUsed = 1
  NoThread = NoThread
  NoSlot = NoSlot
PROPERTIES UsedIsReclaimed
CHECK_DEADLOCK FALSE
