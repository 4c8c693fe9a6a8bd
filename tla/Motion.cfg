\* Three cells, two branches, three nodes; others plan and move the arm as
\* they like.
SPECIFICATION FairSpec
CONSTANTS
  Cells = {1, 2, 3}
  Branches = {"up", "down"}
  Nodes <- MCNodes
  conf <- MCConf
  edges <- MCEdges
  JointNodes = {1, 3}
  FreeNodes = {1}
  Obstacles = {3}
  DirectMax = 1
  Threshold = 1
  BranchGap = 2
  MaxAttempts = 2
INVARIANTS OneMotionThatEndsAtGoal KeepsToEdges NoJump
PROPERTIES CommandEnds
