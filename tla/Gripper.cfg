\* Refused, timed-out and late requests and a restart in the middle of one, or
\* deletions and none of these faults; a factory box and a spawned one.
SPECIFICATION MCSpec
CONSTANTS
  FactoryBoxes = {f1}
  MaxSpawn = 1
  Places = {belt, table}
  Nowhere = Nowhere
  Deleted = Deleted
  Tall = {f1}
  MayRefuse = TRUE
  MayDelete = FALSE
  MayTimeOut = TRUE
  MaxRestarts = 1
INVARIANTS HeldIsWelded
PROPERTIES SpawnedIsNew LatchesWhenReliable CapturesWhenReliable
