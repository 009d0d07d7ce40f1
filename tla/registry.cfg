SPECIFICATION Spec
CONSTANTS
  Slots = {p1, p2}
  MaxId = 3
  NShards = 2
  Names = {alice, bob}
  UserIds = {1, 2}
  IdSpace = 2
  NoName = NoName
  NoSlot = NoSlot
  Lossy = FALSE
SYMMETRY Symmetry
INVARIANTS TypeOK MapsCoherent OneSessionPerUser CommandActsForItsUser RosterComplete SpeakerShown
PROPERTIES IdentityStable ImplementsPool
