CONSTANTS
  ShardIndex = {1, 2, 3}
  Threshold = 2
  Slot = {a, b}
  a = a b = b
  MaxSecrets = 1
  MaxWrites = 3
  MaxTimers = 1
SPECIFICATION FairSpec
INVARIANTS SecretsConsistent QuorumUnseals
PROPERTIES SealTakesHold ImplementsStore
