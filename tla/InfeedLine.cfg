\* Noisy scans and one relay restart, with fair timers, scans and delivery.
SPECIFICATION FairSpec
CONSTANTS
  BlockN = 2
  ClearN = 3
  Speeds <- MCSpeeds
  RunningSpeed = 6
  BootSpeed = 6
  NoCommand = NoCommand
  NoState = NoState
  StartEnabled = TRUE
  QueueDepth = 2
  Noisy = TRUE
  MaxStopped = 0
  MaxRelayRestarts = 1
INVARIANTS HeldBeltStands
PROPERTIES NoStartAgainstBeam NoiseNeverFlips
           RestartsWhenClear HoldsWhenCut BeltFollows
