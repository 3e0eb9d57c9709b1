SPECIFICATION MSpec
CONSTANTS
  NoScore = NoScore
  Member = {1, 2, 3, 4}
  Score = {1, 2}
  SKIPLIST_MAXLEVEL = 2
  Interval = {1, 2}
  Times = {0, 2}
  MaxHandle = 2
  MaxTime = 2
  Trials <- Dictionaries
  MaxIndex = 4
  MaxSparse = 2
  Page <- Pages
  Value = {"1", ""}
  MaxCalls = 4
  Bytes = {0, 1, 77, 128, 255}
  Sextets = {16, 63}
  MaxBytes = 5
  MaxText = 8
  MaxBehind = 2
CHECK_DEADLOCK FALSE
INVARIANTS QueriesExact FilterExact Traversed RenderExact TextExact
PROPERTY FiresExact
