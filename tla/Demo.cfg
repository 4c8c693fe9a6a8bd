\* Failing motions, vision and grasps, operator calls at any step; calls of
\* set_suction that fail, time out and come late, or a prompt gripper.
SPECIFICATION MCSpec
CONSTANTS
  PlaceNodes <- MCPlaceNodes
  Home = "5"
  Inspect = "5"
  Box = box
  RoundRobin = TRUE
  UseVision = TRUE
  GoHomeOnStart = TRUE
  StartEnabled = TRUE
  MayFail = TRUE
  MayTimeOut = TRUE
  MayLag = TRUE
  MayHoldAtStart = TRUE
  MaxOps = 3
  MaxPending = 3
  MaxCycles = 2
INVARIANT CyclesWhenPrompt
PROPERTIES DropsOnlyWhereMeant FailureStops DropsWhenPrompt
           ServedWhenPrompt PlacedWhenPrompt
