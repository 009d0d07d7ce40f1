SPECIFICATION Spec
CONSTANTS
  Consumers = {c1, c2}
  Rewards = {1, 2}
  Mults = {120, 125}
  DropPower = 6
  IntMax = 9
  PriceUnit = 1
  MaxItems = 2
  MaxEarned = 10
  NoConsumer = NoConsumer
INVARIANTS TypeOK NoLevelIsFree
