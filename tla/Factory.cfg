\* Creations that time out and are carried out sooner or later than
\* PENDING_TIMEOUT_SEC, or never, refusals, an erratic and a silent line, no
\* restart ("late"); or a prompt Gazebo and one restart.
SPECIFICATION MCSpec
CONSTANTS
  MaxName = 2
  FollowLine = TRUE
  MayRefuse = TRUE
  MayTimeOut = TRUE
  MayLag = TRUE
  MayGoSilent = TRUE
  MaxRestarts = 0
INVARIANT SpawnsWhenPrompt
PROPERTIES AnnouncedWhenLate ResumesByItself
