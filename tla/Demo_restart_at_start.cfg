\* A gripper that answers in time and a demo that drives home at the start:
\* a restart during that drive is never served.
SPECIFICATION MCSpec
CONSTANTS
  PlaceNodes <- MCPlaceNodes
  Home = "5"
  Inspect = "5"
  Box = box
  RoundRobin = TRUE
  UseVision = TRUE
  GoHomeOnStart = TRUE
  StartEnabled = TRUE
  MayFail = FALSE
  MayTimeOut = FALSE
  MayLag = TRUE
  MayHoldAtStart = FALSE
  MaxOps = 1
  MaxPending = 2
  MaxCycles = 2
PROPERTY RestartServed
