----------------------- MODULE GripperManager_proofs -----------------------
(***************************************************************************)
(* Proofs about GripperManager, for any number of boxes and places: types, *)
(* what a reported grasp means, that a manager whose Gazebo answers in time *)
(* implements the latching gripper of SuctionGripper, and that spawn_box   *)
(* never gives a box of the world a second time.                           *)
(***************************************************************************)
EXTENDS MCGripperManager, TLAPS

(* A request for one candidate, whichever way it ends.                     *)
LEMMA InstallFacts ==
  ASSUME TypeOK, NEW b \in Names, Install(b)
  PROVE  /\ grasped' \subseteq Names /\ installFailed' \subseteq Names
         /\ welded' \subseteq Names /\ late' \subseteq Names
         /\ grasped \subseteq grasped' /\ welded \subseteq welded'
         /\ b \in grasped' /\ b \notin grasped => (b \in Present => b \in welded')
         /\ grasped' \subseteq grasped \cup {b}
         /\ welded' \subseteq welded \cup {b}
         /\ b \in welded' /\ b \notin welded => b \in grasped'
         /\ ~MayTimeOut => late' = late
  BY DEF Install, GraspOk, GraspRefused, GraspTimedOut, Weld, TypeOK

(* The initial states have the types.                                      *)
THEOREM InitTypeOK == Init => TypeOK
  <1>. SUFFICES ASSUME Init PROVE TypeOK
    OBVIOUS
  <1>1. poses \in [Names -> Places \cup {Nowhere}]
    BY DEF Init
  <1>2. boxAt \in [Names -> Places \cup {Nowhere, Deleted}]
    BY DEF Init
  <1>3. spawnCounter \in 0..MaxSpawn /\ spawning \in 0..MaxSpawn /\ restarts \in 0..MaxRestarts
    BY GripperAssumption DEF Init
  <1>. QED
    BY <1>1, <1>2, <1>3 DEF Init, TypeOK

(* Every step preserves them.                                              *)
THEOREM NextTypeOK == TypeOK /\ [Next]_vars => TypeOK'
  <1>. SUFFICES ASSUME TypeOK, [Next]_vars PROVE TypeOK'
    OBVIOUS
  <1>. USE DEF rosVars, trackVars, zoneVars, loopVars, gzVars, lifeVars
  <1>1. ASSUME NEW withRobot \in BOOLEAN, OnGzPoses(withRobot) PROVE TypeOK'
    <2>1. poses' \in [Names -> Places \cup {Nowhere}]
      BY <1>1 DEF OnGzPoses, Present
    <2>. QED
      BY <1>1, <2>1 DEF OnGzPoses, TypeOK
  <1>2. ASSUME NEW b \in FactoryBoxes, OnSpawnedBox(b) PROVE TypeOK'
    BY <1>2 DEF OnSpawnedBox, TypeOK, Names
  <1>3. ASSUME NEW transform \in BOOLEAN, OnRobotDescription(transform) PROVE TypeOK'
    BY <1>3 DEF OnRobotDescription, TypeOK
  <1>4. ASSUME UpdateFootprint PROVE TypeOK'
    BY <1>4 DEF UpdateFootprint, TypeOK
  <1>5. ASSUME NEW on \in BOOLEAN, OnSetSuction(on) PROVE TypeOK'
    BY <1>5 DEF OnSetSuction, ReleaseAll, TypeOK
  <1>6. ASSUME OnTimer PROVE TypeOK'
    BY <1>6 DEF OnTimer, Candidates, Tracked, TypeOK
  <1>7. ASSUME NEW b \in Names, PassOver(b) PROVE TypeOK'
    BY <1>7 DEF PassOver, LoopNext, LookAgain, TypeOK
  <1>8. ASSUME NEW b \in Names, Grasp(b) PROVE TypeOK'
    BY <1>8, InstallFacts DEF Grasp, LoopNext, TypeOK
  <1>9. ASSUME NEW n \in SpawnNames, OnSpawnBox(n) PROVE TypeOK'
    <2>1. spawnCounter' \in 0..MaxSpawn /\ spawning' \in 0..MaxSpawn
      BY <1>9, GripperAssumption DEF OnSpawnBox, SpawnNames
    <2>. QED
      BY <1>9, <2>1 DEF OnSpawnBox, TypeOK
  <1>15. ASSUME NEW p \in Places, SpawnAnswer(p) PROVE TypeOK'
    <2>1. spawning \in SpawnNames /\ spawning \in Names /\ spawning' \in 0..MaxSpawn
      BY <1>15, GripperAssumption DEF SpawnAnswer, TypeOK, SpawnNames, Names
    <2>2. /\ boxAt' \in [Names -> Places \cup {Nowhere, Deleted}]
          /\ knownHeight' \subseteq Names /\ lateSpawn' \subseteq SpawnNames
      BY <1>15, <2>1 DEF SpawnAnswer, SpawnOk, SpawnRefused, SpawnTimedOut, Create, TypeOK
    <2>. QED
      BY <1>15, <2>1, <2>2 DEF SpawnAnswer, TypeOK
  <1>10. ASSUME ManagerRestart PROVE TypeOK'
    <2>1. /\ restarts' \in 0..MaxRestarts /\ spawnCounter' \in 0..MaxSpawn
          /\ spawning' \in 0..MaxSpawn
      BY <1>10, GripperAssumption DEF ManagerRestart, TypeOK
    <2>3. late' \subseteq Names /\ lateSpawn' \subseteq SpawnNames
      BY <1>10, GripperAssumption DEF ManagerRestart, TypeOK, SpawnNames
    <2>2. poses' \in [Names -> Places \cup {Nowhere}]
      BY <1>10 DEF ManagerRestart
    <2>. QED
      BY <1>10, <2>1, <2>2, <2>3 DEF ManagerRestart, TypeOK
  <1>11. ASSUME NEW p \in Places, ArmMoves(p) PROVE TypeOK'
    <2>1. boxAt' \in [Names -> Places \cup {Nowhere, Deleted}]
      BY <1>11 DEF ArmMoves, TypeOK
    <2>. QED
      BY <1>11, <2>1 DEF ArmMoves, TypeOK
  <1>12. ASSUME NEW b \in Names, NEW p \in Places, BoxMoves(b, p) \/ LateSpawn(b, p)
         PROVE  TypeOK'
    <2>1. boxAt' \in [Names -> Places \cup {Nowhere, Deleted}]
      BY <1>12 DEF BoxMoves, LateSpawn, Create, TypeOK
    <2>. QED
      BY <1>12, <2>1 DEF BoxMoves, LateSpawn, TypeOK
  <1>13. ASSUME NEW b \in Names, BoxDeleted(b) \/ LateInstall(b) \/ LateDropped(b)
         PROVE  TypeOK'
    <2>1. boxAt' \in [Names -> Places \cup {Nowhere, Deleted}]
      BY <1>13 DEF BoxDeleted, LateInstall, LateDropped, TypeOK
    <2>. QED
      BY <1>13, <2>1 DEF BoxDeleted, LateInstall, LateDropped, Weld, TypeOK
  <1>14. ASSUME UNCHANGED vars PROVE TypeOK'
    BY <1>14 DEF vars, TypeOK
  <1>. QED
    BY <1>1, <1>2, <1>3, <1>4, <1>5, <1>6, <1>7, <1>8, <1>9, <1>10, <1>11,
       <1>12, <1>13, <1>14, <1>15 DEF Next

(* Type correctness.                                                       *)
THEOREM TypeCorrect == Spec => []TypeOK
  BY InitTypeOK, NextTypeOK, PTL DEF Spec

-----------------------------------------------------------------------------
(* Every box the manager counts as held is in the world and welded ...     *)
HeldInv == grasped \subseteq Present /\ grasped \subseteq welded

(* ... because it only ever looks at boxes that are in the world.          *)
Tracks == Tracked \subseteq Present /\ todo \subseteq Present

(* HeldInv and Tracks hold initially ...                                   *)
LEMMA InitHeld == Init => HeldInv /\ Tracks
  BY DEF Init, HeldInv, Tracks, Tracked

(* ... and every step preserves them.                                      *)
LEMMA NextHeld ==
  ASSUME ~MayDelete, TypeOK, HeldInv, Tracks, [Next]_vars
  PROVE  HeldInv' /\ Tracks'
  <1>. USE DEF rosVars, trackVars, zoneVars, loopVars, gzVars, lifeVars, HeldInv, Tracks
  <1>1. ASSUME NEW withRobot \in BOOLEAN, OnGzPoses(withRobot) PROVE HeldInv' /\ Tracks'
    <2>1. Present' = Present /\ Tracked' \subseteq Present
      BY <1>1 DEF OnGzPoses, Present, Tracked
    <2>. QED
      BY <1>1, <2>1 DEF OnGzPoses
  <1>2. ASSUME UNCHANGED <<boxAt, poses>>, todo' \subseteq todo \cup Candidates,
               HeldInv'
        PROVE  HeldInv' /\ Tracks'
    BY <1>2 DEF Present, Tracked, Candidates
  <1>3. ASSUME NEW b \in FactoryBoxes, OnSpawnedBox(b) PROVE HeldInv' /\ Tracks'
    BY <1>2, <1>3 DEF OnSpawnedBox, Present
  <1>4. ASSUME NEW transform \in BOOLEAN, OnRobotDescription(transform)
        PROVE  HeldInv' /\ Tracks'
    BY <1>2, <1>4 DEF OnRobotDescription, Present
  <1>5. ASSUME UpdateFootprint PROVE HeldInv' /\ Tracks'
    BY <1>2, <1>5 DEF UpdateFootprint, Present
  <1>6. ASSUME NEW on \in BOOLEAN, OnSetSuction(on) PROVE HeldInv' /\ Tracks'
    BY <1>2, <1>6 DEF OnSetSuction, ReleaseAll, Present
  <1>7. ASSUME OnTimer PROVE HeldInv' /\ Tracks'
    BY <1>2, <1>7 DEF OnTimer, Present
  <1>8. ASSUME NEW b \in Names, PassOver(b) PROVE HeldInv' /\ Tracks'
    BY <1>2, <1>8 DEF PassOver, LoopNext, Present
  <1>9. ASSUME NEW b \in Names, Grasp(b) PROVE HeldInv' /\ Tracks'
    <2>1. b \in Present /\ Present' = Present
      BY <1>9 DEF Grasp, TypeOK, Present
    <2>2. grasped' \subseteq Present /\ grasped' \subseteq welded'
      BY <1>9, <2>1, InstallFacts DEF Grasp
    <2>. QED
      BY <1>2, <1>9, <2>1, <2>2 DEF Grasp, LoopNext
  <1>10. ASSUME NEW n \in SpawnNames, OnSpawnBox(n)
         PROVE  HeldInv' /\ Tracks'
    BY <1>2, <1>10 DEF OnSpawnBox, Present
  <1>16. ASSUME NEW p \in Places, SpawnAnswer(p)
         PROVE  HeldInv' /\ Tracks'
    <2>1. Present \subseteq Present'
      BY <1>16 DEF SpawnAnswer, SpawnOk, SpawnRefused, SpawnTimedOut, Create, Present, TypeOK
    <2>. QED
      BY <1>16, <2>1 DEF SpawnAnswer, Tracked
  <1>11. ASSUME ManagerRestart PROVE HeldInv' /\ Tracks'
    BY <1>11 DEF ManagerRestart, Tracked
  <1>12. ASSUME NEW p \in Places, ArmMoves(p) PROVE HeldInv' /\ Tracks'
    <2>1. Present \subseteq Present'
      BY <1>12 DEF ArmMoves, Present, TypeOK
    <2>. QED
      BY <1>12, <2>1 DEF ArmMoves, Tracked
  <1>13. ASSUME NEW b \in Names, NEW p \in Places, BoxMoves(b, p) \/ LateSpawn(b, p)
         PROVE  HeldInv' /\ Tracks'
    <2>1. Present \subseteq Present'
      BY <1>13 DEF BoxMoves, LateSpawn, Create, Present, TypeOK
    <2>. QED
      BY <1>13, <2>1 DEF BoxMoves, LateSpawn, Tracked
  <1>14. ASSUME NEW b \in Names, BoxDeleted(b) \/ LateInstall(b) \/ LateDropped(b)
         PROVE  HeldInv' /\ Tracks'
    <2>1. LateInstall(b) \/ LateDropped(b)
      BY <1>14 DEF BoxDeleted
    <2>. QED
      BY <1>2, <2>1 DEF LateInstall, LateDropped, Weld, Present
  <1>15. ASSUME UNCHANGED vars PROVE HeldInv' /\ Tracks'
    BY <1>2, <1>15 DEF vars, Present
  <1>. QED
    BY <1>1, <1>3, <1>4, <1>5, <1>6, <1>7, <1>8, <1>9, <1>10, <1>11,
       <1>12, <1>13, <1>14, <1>15, <1>16 DEF Next

(* Without deletions, what gripper/state reports as held exists and is     *)
(* held, also when Gazebo refuses, does not answer in time, or is late, and *)
(* across restarts of the manager.                                         *)
THEOREM ReportedIsHeld ==
  ~MayDelete /\ Spec => [](HeldIsWelded /\ grasped \subseteq Present)
  <1>1. HeldInv => HeldIsWelded /\ grasped \subseteq Present
    BY DEF HeldInv, HeldIsWelded
  <1>. SUFFICES ASSUME ~MayDelete PROVE Spec => [](HeldIsWelded /\ grasped \subseteq Present)
    OBVIOUS
  <1>2. TypeOK /\ HeldInv /\ Tracks /\ [Next]_vars => HeldInv' /\ Tracks'
    BY NextHeld
  <1>. QED
    BY <1>1, <1>2, InitHeld, TypeCorrect, PTL DEF Spec

-----------------------------------------------------------------------------
(* The refinement: with answers in time and without restarts, the manager  *)
(* knows of every joint, and only installs joints while suction is on.     *)
(* Boxes may be deleted all the same.                                      *)
Deletes(b) ==
  /\ b \in Present
  /\ boxAt' = [boxAt EXCEPT ![b] = Deleted]
  /\ welded' = welded \ {b}
  /\ UNCHANGED <<rosVars, trackVars, zoneVars, loopVars, armAt, late,
                 lateSpawn, lifeVars>>

InTime ==
  \/ Next /\ late' \subseteq late /\ restarts' = restarts
  \/ \E b \in Names : Deletes(b)

LEMMA NextInTime ==
  ASSUME ~MayTimeOut, MaxRestarts = 0, TypeOK, Next
  PROVE  InTime
  <1>. USE DEF rosVars, trackVars, zoneVars, loopVars, gzVars, lifeVars
  <1>1. ~ManagerRestart
    BY DEF ManagerRestart, TypeOK
  <1>2. ASSUME NEW b \in Names, PassOver(b) \/ Grasp(b)
        PROVE  late' \subseteq late /\ restarts' = restarts
    BY <1>2 DEF PassOver, Grasp, Install, GraspOk, GraspRefused, GraspTimedOut
  <1>. QED
    BY <1>1, <1>2
       DEF InTime, Next, OnGzPoses, OnSpawnedBox, OnRobotDescription, UpdateFootprint,
           OnSetSuction, OnTimer, OnSpawnBox, SpawnAnswer, ArmMoves, BoxMoves, LateSpawn, BoxDeleted,
           LateInstall, LateDropped

(* In its reliable setting the checked instance only makes such steps.     *)
LEMMA ReliableInTime ==
  ASSUME TypeOK, Reliable!Next
  PROVE  InTime
  <1>. USE DEF rosVars, trackVars, zoneVars, loopVars, gzVars, lifeVars, Reliable!rosVars,
               Reliable!trackVars, Reliable!zoneVars, Reliable!loopVars, Reliable!gzVars,
               Reliable!lifeVars
  <1>1. /\ Reliable!Idle <=> Idle
        /\ Reliable!Names = Names /\ Reliable!SpawnNames = SpawnNames
        /\ Reliable!Present = Present /\ Reliable!Tracked = Tracked
    BY DEF Reliable!Idle, Idle, Reliable!Names, Names, Reliable!SpawnNames, SpawnNames,
           Reliable!Present, Present, Reliable!Tracked, Tracked
  <1>2. Reliable!Candidates = Candidates /\ Reliable!NextBoxName = NextBoxName
        /\ \A b : Reliable!InSuctionZone(b) <=> InSuctionZone(b)
    BY <1>1 DEF Reliable!Candidates, Candidates, Reliable!NextBoxName, NextBoxName,
                Reliable!FreshNames, FreshNames, Reliable!InSuctionZone, InSuctionZone
  <1>3. ~Reliable!ManagerRestart
    BY DEF Reliable!ManagerRestart, TypeOK
  <1>4. ASSUME NEW b \in Names, Reliable!Grasp(b)
        PROVE  Grasp(b) /\ late' = late /\ restarts' = restarts
    BY <1>1, <1>4
       DEF Reliable!Grasp, Reliable!Install, Reliable!GraspOk, Reliable!GraspRefused,
           Reliable!GraspTimedOut, Reliable!Weld, Reliable!LoopNext,
           Grasp, Install, GraspOk, Weld, LoopNext
  <1>5. ASSUME NEW n \in SpawnNames, Reliable!OnSpawnBox(n)
        PROVE  OnSpawnBox(n) /\ late' = late /\ restarts' = restarts
    BY <1>1, <1>2, <1>5 DEF Reliable!OnSpawnBox, OnSpawnBox
  <1>13. ASSUME NEW p \in Places, Reliable!SpawnAnswer(p)
         PROVE  SpawnAnswer(p) /\ late' = late /\ restarts' = restarts
    BY <1>1, <1>13
       DEF Reliable!SpawnAnswer, Reliable!SpawnOk, Reliable!SpawnRefused,
           Reliable!SpawnTimedOut, Reliable!Create, SpawnAnswer, SpawnOk, Create
  <1>6. ASSUME NEW b \in Names, Reliable!BoxDeleted(b) PROVE Deletes(b)
    BY <1>1, <1>6 DEF Reliable!BoxDeleted, Deletes
  <1>7. ASSUME NEW b \in Names,
               Reliable!PassOver(b) \/ Reliable!LateInstall(b) \/ Reliable!LateDropped(b)
        PROVE  /\ PassOver(b) \/ LateInstall(b) \/ LateDropped(b)
               /\ late' \subseteq late /\ restarts' = restarts
    BY <1>1, <1>7
       DEF Reliable!PassOver, Reliable!LookAgain, Reliable!LoopNext, Reliable!LateInstall,
           Reliable!LateDropped, Reliable!Weld, PassOver, LookAgain, LoopNext,
           LateInstall, LateDropped, Weld
  <1>8. ASSUME NEW b \in Names, NEW p \in Places,
               Reliable!BoxMoves(b, p) \/ Reliable!LateSpawn(b, p)
        PROVE  /\ BoxMoves(b, p) \/ LateSpawn(b, p)
               /\ late' = late /\ restarts' = restarts
    BY <1>1, <1>8 DEF Reliable!BoxMoves, Reliable!LateSpawn, Reliable!Create,
                      BoxMoves, LateSpawn, Create
  <1>9. ASSUME NEW on \in BOOLEAN,
               Reliable!OnGzPoses(on) \/ Reliable!OnRobotDescription(on)
                 \/ Reliable!OnSetSuction(on)
        PROVE  /\ OnGzPoses(on) \/ OnRobotDescription(on) \/ OnSetSuction(on)
               /\ late' = late /\ restarts' = restarts
    BY <1>1, <1>9
       DEF Reliable!OnGzPoses, Reliable!OnRobotDescription, Reliable!OnSetSuction,
           Reliable!ReleaseAll, OnGzPoses, OnRobotDescription, OnSetSuction, ReleaseAll
  <1>10. ASSUME Reliable!UpdateFootprint \/ Reliable!OnTimer
         PROVE  /\ UpdateFootprint \/ OnTimer
                /\ late' = late /\ restarts' = restarts
    BY <1>1, <1>2, <1>10
       DEF Reliable!UpdateFootprint, Reliable!OnTimer, Reliable!ReadyToGrasp,
           UpdateFootprint, OnTimer, ReadyToGrasp
  <1>11. ASSUME NEW b \in FactoryBoxes, Reliable!OnSpawnedBox(b)
         PROVE  OnSpawnedBox(b) /\ late' = late /\ restarts' = restarts
    BY <1>1, <1>11 DEF Reliable!OnSpawnedBox, OnSpawnedBox
  <1>12. ASSUME NEW p \in Places, Reliable!ArmMoves(p)
         PROVE  ArmMoves(p) /\ late' = late /\ restarts' = restarts
    BY <1>1, <1>12 DEF Reliable!ArmMoves, ArmMoves
  <1>. QED
    BY <1>1, <1>3, <1>4, <1>5, <1>6, <1>7, <1>8, <1>9, <1>10, <1>11, <1>12, <1>13
       DEF Reliable!Next, InTime, Next

(* They keep the types, too.                                               *)
LEMMA InTimeTypeOK ==
  ASSUME TypeOK, [InTime]_vars
  PROVE  TypeOK'
  <1>. USE DEF rosVars, trackVars, zoneVars, loopVars, lifeVars
  <1>1. ASSUME NEW b \in Names, Deletes(b) PROVE TypeOK'
    <2>1. boxAt' \in [Names -> Places \cup {Nowhere, Deleted}]
      BY <1>1 DEF Deletes, TypeOK
    <2>. QED
      BY <1>1, <2>1 DEF Deletes, TypeOK
  <1>. QED
    BY <1>1, NextTypeOK DEF InTime

KnownWelds ==
  /\ todo # {} => suctionOn
  /\ late = {} /\ welded \subseteq grasped

(* KnownWelds holds initially.                                             *)
LEMMA InitKnown == Init => KnownWelds
  BY DEF Init, KnownWelds

(* A step preserves KnownWelds.                                            *)
LEMMA NextKnown ==
  ASSUME TypeOK, KnownWelds, [InTime]_vars
  PROVE  KnownWelds'
  <1>. USE DEF rosVars, trackVars, zoneVars, loopVars, gzVars, lifeVars, KnownWelds
  <1>1. ASSUME NEW on \in BOOLEAN, OnSetSuction(on) PROVE KnownWelds'
    BY <1>1 DEF OnSetSuction, ReleaseAll, Idle
  <1>2. ASSUME OnTimer PROVE KnownWelds'
    BY <1>2 DEF OnTimer, ReadyToGrasp
  <1>3. ASSUME NEW b \in Names, PassOver(b) PROVE KnownWelds'
    BY <1>3 DEF PassOver, LoopNext, LookAgain
  <1>4. ASSUME NEW b \in Names, Grasp(b), late' \subseteq late PROVE KnownWelds'
    <2>1. late' = late /\ welded' \subseteq grasped'
      BY <1>4, InstallFacts DEF Grasp
    <2>2. todo # {} /\ suctionOn' = suctionOn
      BY <1>4 DEF Grasp, TypeOK
    <2>. QED
      BY <2>1, <2>2
  <1>5. ASSUME ManagerRestart, restarts' = restarts PROVE FALSE
    BY <1>5, GripperAssumption DEF ManagerRestart, TypeOK
  <1>6. ASSUME NEW b \in Names,
               Deletes(b) \/ BoxDeleted(b) \/ LateInstall(b) \/ LateDropped(b)
        PROVE  KnownWelds'
    BY <1>6 DEF Deletes, BoxDeleted, LateInstall, LateDropped
  <1>7. ASSUME \/ \E n \in SpawnNames : OnSpawnBox(n)
               \/ \E p \in Places : SpawnAnswer(p)
        PROVE  KnownWelds'
    BY <1>7 DEF OnSpawnBox, SpawnAnswer
  <1>8. ASSUME NEW b \in Names, NEW p \in Places, BoxMoves(b, p) \/ LateSpawn(b, p)
        PROVE  KnownWelds'
    BY <1>8 DEF BoxMoves, LateSpawn
  <1>9. ASSUME \/ \E withRobot \in BOOLEAN : OnGzPoses(withRobot)
               \/ \E b \in FactoryBoxes : OnSpawnedBox(b)
               \/ \E transform \in BOOLEAN : OnRobotDescription(transform)
               \/ UpdateFootprint
               \/ \E p \in Places : ArmMoves(p)
               \/ UNCHANGED vars
        PROVE  KnownWelds'
    BY <1>9 DEF OnGzPoses, OnSpawnedBox, OnRobotDescription, UpdateFootprint,
                ArmMoves, vars
  <1>. QED
    BY <1>1, <1>2, <1>3, <1>4, <1>5, <1>6, <1>7, <1>8, <1>9 DEF InTime, Next

(* Every step is a step of the latching gripper or leaves it alone.        *)
LEMMA StepRefines ==
  ASSUME TypeOK, KnownWelds, [InTime]_vars
  PROVE  [Suction!Next]_<<suctionOn, welded>>
  <1>. USE DEF rosVars, trackVars, zoneVars, loopVars, gzVars, lifeVars
  <1>1. ASSUME NEW on \in BOOLEAN, OnSetSuction(on) PROVE Suction!Next
    <2>1. CASE on
      BY <1>1, <2>1 DEF OnSetSuction, Suction!Next, Suction!SwitchOn
    <2>2. CASE ~on
      <3>1. welded' = {}
        BY <1>1, <2>2 DEF OnSetSuction, ReleaseAll, KnownWelds
      <3>. QED
        BY <1>1, <2>2, <3>1 DEF OnSetSuction, Suction!Next, Suction!SwitchOff
    <2>. QED
      BY <2>1, <2>2
  <1>2. ASSUME NEW b \in Names, Grasp(b)
        PROVE  Suction!Capture(b) \/ UNCHANGED <<suctionOn, welded>>
    <2>1. suctionOn /\ suctionOn' = suctionOn
      BY <1>2 DEF Grasp, KnownWelds, TypeOK
    <2>2. welded' = welded \/ welded' = welded \cup {b}
      BY <1>2 DEF Grasp, Install, GraspOk, GraspRefused, GraspTimedOut, Weld
    <2>. QED
      BY <2>1, <2>2 DEF Suction!Capture
  <1>3. ASSUME NEW b \in Names, Deletes(b) \/ BoxDeleted(b) PROVE Suction!Vanish(b)
    BY <1>3 DEF Deletes, BoxDeleted, Suction!Vanish
  <1>4. ASSUME NEW b \in Names, PassOver(b) \/ LateInstall(b) \/ LateDropped(b)
        PROVE  UNCHANGED <<suctionOn, welded>>
    BY <1>4 DEF PassOver, LateInstall, LateDropped, KnownWelds
  <1>5. ASSUME ManagerRestart, restarts' = restarts PROVE FALSE
    BY <1>5, GripperAssumption DEF ManagerRestart, TypeOK
  <1>6. ASSUME \/ \E n \in SpawnNames : OnSpawnBox(n)
               \/ \E p \in Places : SpawnAnswer(p)
        PROVE  UNCHANGED <<suctionOn, welded>>
    BY <1>6 DEF OnSpawnBox, SpawnAnswer
  <1>7. ASSUME NEW b \in Names, NEW p \in Places, BoxMoves(b, p) \/ LateSpawn(b, p)
        PROVE  UNCHANGED <<suctionOn, welded>>
    BY <1>7 DEF BoxMoves, LateSpawn
  <1>8. ASSUME \/ \E withRobot \in BOOLEAN : OnGzPoses(withRobot)
               \/ \E b \in FactoryBoxes : OnSpawnedBox(b)
               \/ \E transform \in BOOLEAN : OnRobotDescription(transform)
               \/ UpdateFootprint \/ OnTimer
               \/ \E p \in Places : ArmMoves(p)
               \/ UNCHANGED vars
        PROVE  UNCHANGED <<suctionOn, welded>>
    BY <1>8 DEF OnGzPoses, OnSpawnedBox, OnRobotDescription, UpdateFootprint,
                OnTimer, ArmMoves, vars
  <1>. QED
    BY <1>1, <1>2, <1>3, <1>4, <1>5, <1>6, <1>7, <1>8 DEF InTime, Next, Suction!Next

(* With a Gazebo that answers in time, the manager implements the latching *)
(* gripper: what is welded only grows while suction is on, and switching   *)
(* suction off releases all of it.                                         *)
THEOREM LatchingGripper ==
  ~MayTimeOut /\ MaxRestarts = 0 => (Spec => ImplementsSuction)
  <1>. SUFFICES ASSUME ~MayTimeOut, MaxRestarts = 0
                PROVE  Spec => ImplementsSuction
    OBVIOUS
  <1>1. Init => Suction!Init
    BY DEF Init, Suction!Init
  <1>2. TypeOK /\ KnownWelds /\ [Next]_vars => KnownWelds'
    BY NextInTime, NextKnown
  <1>3. TypeOK /\ KnownWelds /\ [Next]_vars => [Suction!Next]_<<suctionOn, welded>>
    BY NextInTime, StepRefines
  <1>4. [Suction!Next]_<<suctionOn, welded>> => [Suction!Next]_(Suction!svars)
    BY DEF Suction!svars
  <1>. QED
    BY <1>1, <1>2, <1>3, <1>4, InitKnown, TypeCorrect, PTL
    DEF Spec, ImplementsSuction, Suction!Spec

(* So it is in the reliable setting of the checked instances, of any size. *)
THEOREM LatchingWhenReliable == MCSpec => LatchesWhenReliable
  <1>. DEFINE Inv == TypeOK /\ (setting = "reliable" => KnownWelds)
  <1>1. MCInit => Inv /\ Suction!Init
    BY InitTypeOK, InitKnown DEF MCInit, Init, Suction!Init
  <1>2. ASSUME Inv, [MCNext]_<<vars, setting>>
        PROVE  /\ setting = "reliable" => [InTime]_vars
               /\ setting # "reliable" => [Next]_vars
               /\ setting' = setting
    BY <1>2, ReliableInTime DEF MCNext
  <1>3. Inv /\ [MCNext]_<<vars, setting>> => Inv'
    BY <1>2, NextTypeOK, InTimeTypeOK, NextKnown
  <1>4. Inv /\ [MCNext]_<<vars, setting>>
          => [setting = "reliable" => [Suction!Next]_<<suctionOn, welded>>]_vars
    BY <1>2, StepRefines
  <1>. HIDE DEF Inv
  <1>. QED
    BY <1>1, <1>3, <1>4, PTL DEF MCSpec, LatchesWhenReliable

-----------------------------------------------------------------------------
(* Names.  What is left to be created has a number that the counter has    *)
(* passed, or is doubtful; so has a spawned box of the world, unless the    *)
(* manager tracks it or, restarted, has not heard anything yet; and the     *)
(* name that is being asked for is nobody's, or is doubtful.                *)
LateInv == \A n \in lateSpawn : n <= spawnCounter \/ n \in doubtful
Accounted(n) == n <= spawnCounter \/ n \in Tracked \/ n \in doubtful
AskedInv ==
  spawning # 0 =>
    /\ spawning = spawnCounter
    /\ spawning \in Present \cup lateSpawn => spawning \in doubtful
NamesInv ==
  /\ LateInv
  /\ AskedInv
  /\ restarts = 0 \/ robotSeen => \A n \in SpawnNames \cap Present : Accounted(n)

LEMMA InitNames == Init => NamesInv
  BY GripperAssumption DEF Init, NamesInv, LateInv, AskedInv, Present, SpawnNames, Names

(* Only a box in the world is welded: so none appears by moving the arm.   *)
WeldsExist == welded \subseteq Present

LEMMA NextWelds ==
  ASSUME TypeOK, WeldsExist, [Next]_vars
  PROVE  WeldsExist'
  <1>. USE DEF rosVars, trackVars, zoneVars, loopVars, gzVars, lifeVars
  <1>1. ASSUME UNCHANGED boxAt, welded' \subseteq welded \cup Present PROVE WeldsExist'
    BY <1>1 DEF WeldsExist, Present
  <1>2. ASSUME Present \subseteq Present', welded' = welded PROVE WeldsExist'
    BY <1>2 DEF WeldsExist
  <1>3. ASSUME NEW p \in Places, SpawnAnswer(p) PROVE WeldsExist'
    BY <1>2, <1>3 DEF SpawnAnswer, SpawnOk, SpawnRefused, SpawnTimedOut, Create, Present, TypeOK
  <1>4. ASSUME NEW b \in Names, NEW p \in Places, BoxMoves(b, p) \/ LateSpawn(b, p)
        PROVE  WeldsExist'
    BY <1>2, <1>4 DEF BoxMoves, LateSpawn, Create, Present, TypeOK
  <1>5. ASSUME NEW b \in Names, BoxDeleted(b) PROVE WeldsExist'
    BY <1>5 DEF BoxDeleted, WeldsExist, Present, TypeOK
  <1>6. ASSUME NEW p \in Places, ArmMoves(p) PROVE WeldsExist'
    BY <1>2, <1>6 DEF ArmMoves, Present, TypeOK
  <1>7. ASSUME NEW b \in Names, PassOver(b) \/ Grasp(b) \/ LateInstall(b) \/ LateDropped(b)
        PROVE  WeldsExist'
    BY <1>1, <1>7 DEF PassOver, Grasp, Install, GraspOk, GraspRefused, GraspTimedOut,
                      Weld, LateInstall, LateDropped
  <1>8. ASSUME \/ \E withRobot \in BOOLEAN : OnGzPoses(withRobot)
               \/ \E b \in FactoryBoxes : OnSpawnedBox(b)
               \/ \E transform \in BOOLEAN : OnRobotDescription(transform)
               \/ UpdateFootprint \/ OnTimer \/ ManagerRestart
               \/ \E on \in BOOLEAN : OnSetSuction(on)
               \/ \E n \in SpawnNames : OnSpawnBox(n)
               \/ UNCHANGED vars
        PROVE  WeldsExist'
    BY <1>1, <1>8 DEF OnSpawnBox, OnGzPoses, OnSpawnedBox, OnRobotDescription, UpdateFootprint, OnTimer,
                      OnSetSuction, ReleaseAll, ManagerRestart, vars
  <1>. QED
    BY <1>3, <1>4, <1>5, <1>6, <1>7, <1>8 DEF Next

(* Every step preserves that.                                              *)
LEMMA NextNames ==
  ASSUME TypeOK, WeldsExist, NamesInv, [Next]_vars
  PROVE  NamesInv'
  <1>. USE DEF rosVars, trackVars, zoneVars, loopVars, gzVars, lifeVars
  <1>0. /\ spawnCounter \in Nat /\ restarts \in Nat /\ SpawnNames \subseteq Nat
        /\ lateSpawn \subseteq SpawnNames /\ FactoryBoxes \cap SpawnNames = {}
        /\ SpawnNames \subseteq Names /\ 0 \notin SpawnNames
        /\ spawning \in SpawnNames \cup {0}
    BY GripperAssumption DEF TypeOK, SpawnNames, Names
  <1>1. ASSUME NEW withRobot \in BOOLEAN, OnGzPoses(withRobot) PROVE NamesInv'
    <2>1. Present' = Present /\ Tracked' = Present
      <3>1. /\ \A b \in Names : poses'[b] = IF b \in Present THEN boxAt[b] ELSE Nowhere
            /\ boxAt' = boxAt
        BY <1>1 DEF OnGzPoses
      <3>. QED
        BY <3>1, GripperAssumption DEF Present, Tracked
    <2>. QED
      BY <1>1, <2>1 DEF OnGzPoses, NamesInv, LateInv, AskedInv, Accounted
  <1>2. ASSUME Present' \subseteq Present, UNCHANGED <<poses, robotSeen, restarts, spawning>>,
               doubtful' = doubtful, spawnCounter' = spawnCounter,
               lateSpawn' \subseteq lateSpawn
        PROVE  NamesInv'
    BY <1>2 DEF NamesInv, LateInv, AskedInv, Accounted, Tracked
  <1>3. ASSUME NEW n \in SpawnNames, OnSpawnBox(n)
        PROVE  NamesInv'
    <2>1. /\ n > spawnCounter /\ n \notin Tracked
          /\ spawnCounter' = n /\ spawning' = n
          /\ doubtful' = doubtful \cup {m \in {n} : restarts > 0 /\ ~robotSeen}
          /\ UNCHANGED <<poses, robotSeen, restarts, lateSpawn, boxAt>>
      BY <1>3 DEF OnSpawnBox, NextBoxName, FreshNames
    <2>2. Present' = Present /\ Tracked' = Tracked
      BY <2>1 DEF Present, Tracked
    <2>3. ~(n <= spawnCounter)
      BY <1>0, <2>1
    <2>4. n \in Present \cup lateSpawn => n \in doubtful'
      <3>1. CASE restarts > 0 /\ ~robotSeen
        BY <2>1, <3>1
      <3>2. CASE ~(restarts > 0 /\ ~robotSeen)
        BY <1>0, <2>1, <2>3, <3>2 DEF NamesInv, LateInv, Accounted
      <3>. QED
        BY <3>1, <3>2
    <2>5. AskedInv'
      BY <2>1, <2>2, <2>4 DEF AskedInv
    <2>6. LateInv'
      BY <1>0, <2>1 DEF NamesInv, LateInv
    <2>7. \A m \in SpawnNames : Accounted(m) => Accounted(m)'
      BY <1>0, <2>1, <2>2 DEF Accounted
    <2>. QED
      BY <2>1, <2>2, <2>5, <2>6, <2>7 DEF NamesInv
  <1>4. CASE ManagerRestart
    <2>1. restarts' > 0 /\ ~robotSeen' /\ spawning' = 0 /\ lateSpawn' \subseteq doubtful'
      BY <1>0, <1>4 DEF ManagerRestart
    <2>. QED
      BY <1>0, <2>1, <1>4 DEF ManagerRestart, NamesInv, LateInv, AskedInv
  <1>5. ASSUME NEW b \in Names, NEW p \in Places, BoxMoves(b, p)
        PROVE  NamesInv'
    <2>1. Present' \cap SpawnNames \subseteq Present
      BY <1>0, <1>5 DEF BoxMoves, Present, TypeOK
    <2>. QED
      BY <1>0, <1>5, <2>1 DEF BoxMoves, NamesInv, LateInv, AskedInv, Accounted, Tracked
  <1>6. ASSUME NEW b \in Names, NEW p \in Places, LateSpawn(b, p)
        PROVE  NamesInv'
    <2>1. Present' \subseteq Present \cup {b} /\ b \in lateSpawn
      BY <1>6 DEF LateSpawn, Create, Present, TypeOK
    <2>. QED
      BY <1>0, <1>6, <2>1 DEF LateSpawn, NamesInv, LateInv, AskedInv, Accounted, Tracked
  <1>7. ASSUME NEW b \in Names, BoxDeleted(b) PROVE NamesInv'
    <2>1. Present' \subseteq Present
      BY <1>7, GripperAssumption DEF BoxDeleted, Present, TypeOK
    <2>. QED
      BY <1>2, <1>7, <2>1 DEF BoxDeleted
  <1>8. ASSUME NEW p \in Places, ArmMoves(p) PROVE NamesInv'
    <2>1. Present' = Present
      BY <1>8 DEF ArmMoves, Present, TypeOK, WeldsExist
    <2>. QED
      BY <1>2, <1>8, <2>1 DEF ArmMoves
  <1>9. ASSUME NEW b \in Names, PassOver(b) \/ Grasp(b) \/ LateInstall(b) \/ LateDropped(b)
        PROVE  NamesInv'
    BY <1>2, <1>9 DEF PassOver, Grasp, LoopNext, LateInstall, LateDropped, Present
  <1>10. ASSUME \/ \E b \in FactoryBoxes : OnSpawnedBox(b)
                \/ \E transform \in BOOLEAN : OnRobotDescription(transform)
                \/ UpdateFootprint \/ OnTimer
                \/ \E on \in BOOLEAN : OnSetSuction(on)
                \/ UNCHANGED vars
         PROVE  NamesInv'
    BY <1>2, <1>10 DEF OnSpawnedBox, OnRobotDescription, UpdateFootprint, OnTimer,
                       OnSetSuction, vars, Present
  <1>11. ASSUME NEW p \in Places, SpawnAnswer(p) PROVE NamesInv'
    <2>1. /\ spawning \in SpawnNames /\ spawning = spawnCounter /\ spawning' = 0
          /\ UNCHANGED <<poses, robotSeen, restarts, doubtful, spawnCounter>>
          /\ lateSpawn' \subseteq lateSpawn \cup {spawning}
      BY <1>0, <1>11 DEF SpawnAnswer, SpawnOk, SpawnRefused, SpawnTimedOut, NamesInv, AskedInv
    <2>2. Present' \subseteq Present \cup {spawning}
      BY <1>11 DEF SpawnAnswer, SpawnOk, SpawnRefused, SpawnTimedOut, Create, Present, TypeOK
    <2>. QED
      BY <1>0, <2>1, <2>2 DEF NamesInv, LateInv, AskedInv, Accounted, Tracked
  <1>. QED
    BY <1>1, <1>3, <1>4, <1>5, <1>6, <1>7, <1>8, <1>9, <1>10, <1>11 DEF Next

(* A spawn_box that succeeds has put a new box into the world, or its name  *)
(* is one this process could not know of: while the request is under way,   *)
(* nothing that has the name appears.                                      *)
THEOREM SpawnsNewBoxes == Spec => SpawnedIsNew
  <1>. DEFINE NewOnes == \A n \in SpawnNames :
                 n \in knownHeight' \ knownHeight /\ n \notin doubtful => n \notin Present
  <1>1. ASSUME TypeOK, NamesInv, [Next]_vars PROVE NewOnes
    <2>. USE DEF rosVars, trackVars, zoneVars, loopVars, gzVars, lifeVars
    <2>1. ASSUME NEW p \in Places, SpawnAnswer(p)
          PROVE  NewOnes
      <3>1. spawning # 0 /\ knownHeight' \subseteq knownHeight \cup {spawning}
        BY <2>1 DEF SpawnAnswer, SpawnOk, SpawnRefused, SpawnTimedOut
      <3>. QED
        BY <1>1, <3>1 DEF NamesInv, AskedInv
    <2>2. ASSUME NEW b \in FactoryBoxes, OnSpawnedBox(b) PROVE NewOnes
      BY <2>2, GripperAssumption DEF OnSpawnedBox, SpawnNames
    <2>3. ASSUME knownHeight' \subseteq knownHeight PROVE NewOnes
      BY <2>3
    <2>4. ASSUME NEW b \in Names,
                 PassOver(b) \/ Grasp(b) \/ BoxDeleted(b) \/ LateInstall(b) \/ LateDropped(b)
          PROVE  knownHeight' \subseteq knownHeight
      BY <2>4 DEF PassOver, Grasp, BoxDeleted, LateInstall, LateDropped
    <2>5. ASSUME NEW p \in Places,
                 \/ ArmMoves(p)
                 \/ \E b \in Names : BoxMoves(b, p) \/ LateSpawn(b, p)
          PROVE  knownHeight' \subseteq knownHeight
      BY <2>5 DEF ArmMoves, BoxMoves, LateSpawn
    <2>6. ASSUME \/ \E withRobot \in BOOLEAN : OnGzPoses(withRobot)
                 \/ \E transform \in BOOLEAN : OnRobotDescription(transform)
                 \/ UpdateFootprint \/ OnTimer \/ ManagerRestart
                 \/ \E on \in BOOLEAN : OnSetSuction(on)
                 \/ \E n \in SpawnNames : OnSpawnBox(n)
                 \/ UNCHANGED vars
          PROVE  knownHeight' \subseteq knownHeight
      BY <2>6 DEF OnGzPoses, OnRobotDescription, UpdateFootprint, OnTimer, ManagerRestart,
                  OnSetSuction, OnSpawnBox, vars
    <2>. HIDE DEF NewOnes
    <2>. QED
      BY <1>1, <2>1, <2>2, <2>3, <2>4, <2>5, <2>6 DEF Next
  <1>2. Init => WeldsExist
    BY DEF Init, WeldsExist
  <1>3. TypeOK /\ WeldsExist /\ NamesInv /\ [Next]_vars => (WeldsExist /\ NamesInv)'
    BY NextWelds, NextNames
  <1>4. TypeOK /\ NamesInv /\ [Next]_vars => [NewOnes]_vars
    BY <1>1
  <1>. QED
    BY <1>2, <1>3, <1>4, InitNames, TypeCorrect, PTL DEF Spec, SpawnedIsNew
=============================================================================
