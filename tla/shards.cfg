SPECIFICATION FairSpec
CONSTANTS
  NShards = 2
  Sessions = {1, 2}
  Workers = {w1, w2}
  MaxSent = 2
  NoSession = NoSession
INVARIANTS TypeOK NoLostWakeup SessionOrder
PROPERTIES EndsDrained AllHandled StopReturns
CHECK_DEADLOCK FALSE
