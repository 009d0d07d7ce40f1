SPECIFICATION Spec
CONSTANTS
  Users = {1, 2}
  Consumers = {c1, c2}
  Readers = {c1}
  Gains = {0, 1, 2}
  MaxPower = 2
  TopN = 2
  Span = 1
  HeadBytes = 4
  RowBytes = 3
  UnknownBytes = 4
  MaxBody = 7
  NoConsumer = NoConsumer
  Unranked = Unranked
INVARIANTS TypeOK RankFollows NamesKept ReplyWhole
PROPERTY OwnRowMarked
