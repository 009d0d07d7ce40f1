SPECIFICATION Spec
CONSTANTS
  Size = 9
  Lengths = {1, 2, 3, 5}
  MaxBytes = 24
  Header = 2
  IdBytes = {2}
  MaxPacket = 4
  Sizes = {0, 2, 3, 4, 5}
  MaxPackets = 4
INVARIANTS SendTypeOK NoLostWakeup InFlightIntact RecvTypeOK PacketsIntact NothingLost
PROPERTIES ImplementsStream AllReceived
CHECK_DEADLOCK FALSE
