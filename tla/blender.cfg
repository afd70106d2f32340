SPECIFICATION Spec
CONSTANTS
  Fixtures = {"f1", "f2"}
  Bodies = {"b1", "b2", "b3"}
  BodiesOf <- MCBodiesOf
  Alike <- MCAlike
  Readings <- MCReadings
  Requests <- MCRequests
  MaxCalls = 4
  MaxAsked = 3
  MaxWork = 4
INVARIANTS PassIsOwnRun FramesMatchReplay UnmovedAsImported OneRig ReceiptHolds
PROPERTY CallsAnswered
CHECK_DEADLOCK FALSE
