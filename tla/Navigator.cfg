\* A path and a guarded line, cancels; motions stall and the controller
\* answers late, or neither.
SPECIFICATION MCSpec
CONSTANTS
  Paths = {path}
  Plain = {}
  Guarded = {line}
  NoGoal = none
  MaxSegments = 2
  MaxMotions = 3
  MaxThreads = 1
  MayCancel = TRUE
  MayStall = TRUE
  MayBeLate = TRUE
\* Every goal may be over and nothing be left to do.
CHECK_DEADLOCK FALSE
INVARIANTS OwnedWhenTimely OneMotionAfterCancel SuccessIsTrue
PROPERTIES ContactStops AnsweredWhenFaulty
