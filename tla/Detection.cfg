\* Three calls, an arm motion; alone and in time, or shared and late.  A cell is
\* a third of min_size, 1.7 cm: dedupe_distance, 3 cm, is 3.6 half cells.
SPECIFICATION DetectFairSpec
CONSTANTS
  MaxCalls = 3
  MaxMoves = 1
  Threads = 2
  PairGap = 0
  Candidates <- MCCandidates
  Border <- MCBorder
  MinSize = 3
  MaxSize = 6
  DedupeDistance = 4
\* All calls may be made and answered.
CHECK_DEADLOCK FALSE
INVARIANTS OwnAndTrueWhenAlone FacesRight
PROPERTIES NeverTwice CallsAnswered
