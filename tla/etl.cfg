SPECIFICATION MCSpec
CONSTANTS
  Topics = {t1, t2, t3}
  Backfill = 2
  Overlap = 1
  PageSize = 2
  NoTime = NoTime
  NoState = NoState
  MaxNow = 3
  MaxActivity = 2
  MaxUntags = 1
  MaxFailures = 1
  MaxChanges = 3
  MaxBreaks = 2
  NoLimit = NoLimit
  NoQuestion = NoQuestion
  NoAnswer = NoAnswer
  LivePage = 2
  MaxItems = 3
  MaxMoves = 2
SYMMETRY TopicSymmetry
INVARIANTS ChangesShown SkipsExplained CompleteIsComplete
CHECK_DEADLOCK FALSE
