\* A tick is two seconds up to the relay, and the spawner's patience is cut
\* to three and two of them.
SPECIFICATION StartFairSpec
CONSTANTS
  ArmDelay = 2
  BeltDelay = 3
  RelayLag = 1
  ManagerTimeout = 3
  SwitchTimeout = 2
  Initial = 6
  BeltSpeeds = {0, 1}
  MaxInbox = 2
  None = None
INVARIANT StartsTurning
PROPERTY ComesUp
CHECK_DEADLOCK FALSE
