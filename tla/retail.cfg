SPECIFICATION Spec
CONSTANTS
  Employees = {"e1"}
  Stores = {"s1", "s2"}
  Calls = {c1, c2}
  NoStore = NoStore
  NoToken = NoToken
  Seed <- MCSeed
  FirstStaff <- MCFirstStaff
  Commands <- MCCommands
  Records <- MCRecords
  Lifetime = 0
  MaxNow = 1
  MaxEdits = 1
SYMMETRY CallSymmetry
PROPERTIES OutcomeTold WritesInScope StaleTokensExpire
CHECK_DEADLOCK FALSE
