SPECIFICATION FairSpec
CONSTANTS
  Slots = {p1}
  MaxId = 2
  Workers = {w1}
  Senders = {c1, c2}
  NContexts = 2
  MaxUsed = 2
  NoThread = NoThread
  NoSlot = NoSlot
PROPERTIES ReferencesDrain AcceptsGoOn
CHECK_DEADLOCK FALSE
