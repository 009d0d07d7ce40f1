SPECIFICATION FairRecvSpec
CONSTANTS
  Size = 9
  Header = 2
  IdBytes = {2}
  MaxPacket = 4
  Sizes = {0, 2, 3, 4, 5}
  MaxPackets = 4
CHECK_DEADLOCK FALSE
PROPERTIES AllInputTaken
