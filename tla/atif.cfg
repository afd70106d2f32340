SPECIFICATION Spec
CONSTANTS
  Sessions = {"s1"}
  Instances = {"i1", "i2"}
  Configs <- MCConfigs
  Slots = {1, 2}
  MaxVersion = 2
  MaxAttempts = 2
  MaxEvents = 3
INVARIANTS AckedIsStored NewestUnlessLate DisabledOnlyByStore StoredInScope
PROPERTY PutsAnswered
CHECK_DEADLOCK FALSE
