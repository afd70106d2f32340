SPECIFICATION RunSpec
CONSTANTS
  k1 = k1  k2 = k2  k3 = k3  bad = bad  garbled = garbled
  t1 = t1  t2 = t2
  Configs <- Contents3
  Broken <- OneBroken
  Garbled <- OneGarbled
  Tasks <- TwoTasks
  Flaky <- OneFlaky
  Keys = {"m", "n"}
  Parts = {"p", "q", "r"}
  Builtin <- MCBuiltin
  CallsOf <- MCCallsOf
  MaxTurns = 1
  MaxIters = 3
  MaxPerFailure = 2
  VerifyRuns = 2
  MaxLost = 1
CHECK_DEADLOCK FALSE
INVARIANTS
  FinalReportIsCurrent
  AttemptLeavesNoTrace
PROPERTIES
  TunesInPlace
  Terminates
