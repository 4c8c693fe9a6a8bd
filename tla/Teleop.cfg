\* A joint of seven cells; each device with up to two requests under way.
SPECIFICATION FairSpec
CONSTANTS
  Lo = 0
  Hi = 6
  Home = 2
  Margin = 1
  LookAhead = 2
  MaxRequests = 2
  None = None
  Restart = Restart
INVARIANTS NoJump FollowsTheUser
PROPERTIES ComesToRest
