\* Creations time out and are carried out late.
SPECIFICATION Spec
CONSTANTS
  MaxName = 3
  FollowLine = TRUE
  MayRefuse = FALSE
  MayTimeOut = TRUE
  MayLag = FALSE
  MayGoSilent = FALSE
  MaxRestarts = 0
INVARIANTS NoStacking
