SPECIFICATION Spec
CONSTANTS
  Users = {ann, bob}
  Consumers = {c1, c2}
  Overlap = FALSE
  NoUser = NoUser
  NoConsumer = NoConsumer
INVARIANTS CacheSound
