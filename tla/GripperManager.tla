--------------------------- MODULE GripperManager ---------------------------
(***************************************************************************)
(* gripper_manager: decides what the suction gripper grasps and makes      *)
(* Gazebo hold it, by installing a DetachableJoint per object and          *)
(* publishing one detach message to all of them.                           *)
(*                                                                         *)
(* The node has two threads: the single-threaded executor that runs every  *)
(* ROS callback, and a gz-transport thread that replaces the tracked poses. *)
(* A callback blocks while Gazebo answers a request, so the timer callback *)
(* and spawn_box are split at their requests; nothing else of the executor *)
(* runs in between, but poses, the arm and Gazebo move on, and the process  *)
(* may die.  Positions are abstracted to places: an object is in the        *)
(* suction zone when it is where the tool is.                              *)
(***************************************************************************)
EXTENDS Naturals, FiniteSets

CONSTANTS
  FactoryBoxes,  \* names of boxes announced on spawned_box_topics
  MaxSpawn,      \* bound on _spawn_counter; spawn_box names are 1..MaxSpawn
  Places,        \* where the tool and the boxes can be
  Nowhere,       \* of a box: not in the world yet, or not tracked
  Deleted,       \* of a box: no longer in the world
  Tall,          \* boxes out of reach unless their height is known
  MayRefuse,     \* may Gazebo answer a request with FALSE?
  MayTimeOut,    \* may a request outlast GZ_SERVICE_TIMEOUT_MS?
  MayDelete,     \* may somebody delete boxes from the world?
  MaxRestarts    \* how often gripper_manager may be restarted

SpawnNames == 1..MaxSpawn
Names == FactoryBoxes \cup SpawnNames

ASSUME GripperAssumption ==
  /\ MaxSpawn \in Nat /\ MaxRestarts \in Nat
  /\ FactoryBoxes \cap Nat = {}
  /\ Nowhere \notin Places /\ Deleted \notin Places /\ Nowhere # Deleted
  /\ Places # {}
  /\ MayRefuse \in BOOLEAN /\ MayTimeOut \in BOOLEAN
  /\ MayDelete \in BOOLEAN

VARIABLES
  suctionOn, grasped, installFailed, knownHeight, spawnCounter,
  poses,         \* where the last pose message saw each box
  robotSeen,     \* _robot_entity_id is known
  linkBox,       \* the suction link's box is known from robot_description
  footprint,     \* and placed in the tool frame
  todo, inZone,  \* the running timer loop: candidates left, those in the zone
  spawning,      \* the name spawn_box is asking Gazebo for, or 0
  \* Gazebo
  armAt, boxAt,  \* where the tool and the boxes are
  welded,        \* boxes a joint holds to the tool
  late,          \* boxes whose timed-out install may still be carried out
  lateSpawn,     \* boxes whose timed-out spawn may still be carried out
  restarts,
  doubtful       \* names that may be in use without this process knowing

rosVars   == <<suctionOn, grasped, installFailed, knownHeight, spawnCounter>>
trackVars == <<poses, robotSeen>>
zoneVars  == <<linkBox, footprint>>
loopVars  == <<todo, inZone, spawning>>
gzVars    == <<armAt, boxAt, welded, late, lateSpawn>>
lifeVars  == <<restarts, doubtful>>
vars == <<rosVars, trackVars, zoneVars, loopVars, gzVars, lifeVars>>

(* No callback is running on the executor: the next one may start.         *)
Idle == todo = {} /\ spawning = 0

Tracked == {b \in Names : poses[b] # Nowhere}
Present == {b \in Names : boxAt[b] \in Places}

-----------------------------------------------------------------------------
(* The gz-transport thread.                                                *)

(* _on_gz_poses: every message lists every box, and usually the robot.     *)
OnGzPoses(withRobot) ==
  /\ poses' = [b \in Names |-> IF b \in Present THEN boxAt[b] ELSE Nowhere]
  /\ robotSeen' = (robotSeen \/ withRobot)
  /\ UNCHANGED <<rosVars, zoneVars, loopVars, gzVars, lifeVars>>

-----------------------------------------------------------------------------
(* ROS callbacks that finish without asking Gazebo anything.               *)

(* _on_spawned_box *)
OnSpawnedBox(b) ==
  /\ Idle
  /\ knownHeight' = knownHeight \cup {b}
  /\ UNCHANGED <<suctionOn, grasped, installFailed, spawnCounter,
                 trackVars, zoneVars, loopVars, gzVars, lifeVars>>

(* _on_robot_description, with or without a transform to place the box by. *)
OnRobotDescription(transform) ==
  /\ Idle
  /\ linkBox' = TRUE
  /\ footprint' = transform
  /\ UNCHANGED <<rosVars, trackVars, loopVars, gzVars, lifeVars>>

(* _update_footprint, retried every second until the transform is there.   *)
UpdateFootprint ==
  /\ Idle
  /\ linkBox /\ ~footprint
  /\ footprint' = TRUE
  /\ UNCHANGED <<rosVars, trackVars, linkBox, loopVars, gzVars, lifeVars>>

SilentRelease ==  \* mutant: the detach message is never published
  grasped' = {} /\ installFailed' = {} /\ UNCHANGED welded

(* _release_all: detach only if something is held; a fresh suction cycle   *)
(* retries what could not be installed.                                    *)
ReleaseAll ==
  /\ welded' = IF grasped # {} THEN {} ELSE welded
  /\ grasped' = {}
  /\ installFailed' = {}

(* _on_set_suction *)
OnSetSuction(on) ==
  /\ Idle
  /\ suctionOn' = on
  /\ IF on THEN UNCHANGED <<grasped, installFailed, welded>> ELSE ReleaseAll
  /\ UNCHANGED <<knownHeight, spawnCounter, trackVars, zoneVars, loopVars,
                 armAt, boxAt, late, lateSpawn, lifeVars>>

-----------------------------------------------------------------------------
(* The grasp control loop.                                                 *)

(* _in_suction_zone, with the tool where it is when the loop starts.       *)
InSuctionZone(b) == poses[b] = armAt /\ (b \in Tall => b \in knownHeight)

Candidates == Tracked \ (grasped \cup installFailed)

(* _on_timer up to its loop: the tool pose and the candidates' poses are   *)
(* taken here, once.  The loop's test of _suction_on needs no action: on   *)
(* this executor nobody can switch it off meanwhile.                       *)
ReadyToGrasp == suctionOn /\ footprint

OnTimer ==
  /\ Idle
  /\ ReadyToGrasp
  /\ todo' = Candidates
  /\ inZone' = {b \in Candidates : InSuctionZone(b)}
  /\ UNCHANGED <<rosVars, trackVars, zoneVars, spawning, gzVars, lifeVars>>

(* The candidate is dealt with; after the last one the callback returns.   *)
LoopNext(b) ==
  todo' = todo \ {b} /\ inZone' = inZone \ {b} /\ UNCHANGED spawning

GiveUp(b) ==  \* mutant: without an entity id the box is marked failed
  installFailed' = IF b \in inZone THEN installFailed \cup {b} ELSE installFailed
LookAgain(b) == UNCHANGED installFailed

(* Not in the zone, or the robot's entity is not known yet: the candidate  *)
(* is passed over and looked at again at the next timer.                   *)
PassOver(b) ==
  /\ b \in todo
  /\ b \notin inZone \/ ~robotSeen
  /\ LookAgain(b)
  /\ LoopNext(b)
  /\ UNCHANGED <<suctionOn, grasped, knownHeight, spawnCounter,
                 trackVars, zoneVars, gzVars, lifeVars>>

(* _grasp: Gazebo installs the joint, refuses, or does not answer in time. *)
Weld(b) == welded' = IF b \in Present THEN welded \cup {b} ELSE welded

GraspOk(b) ==
  /\ Weld(b)
  /\ grasped' = grasped \cup {b}
  /\ UNCHANGED <<installFailed, late>>

GraspRefused(b) ==
  /\ MayRefuse
  /\ installFailed' = installFailed \cup {b}
  /\ UNCHANGED <<grasped, welded, late>>

GraspTimedOut(b) ==
  /\ MayTimeOut
  /\ installFailed' = installFailed \cup {b}
  /\ late' = late \cup {b}
  /\ UNCHANGED <<grasped, welded>>

OptimisticGrasp(b) ==  \* mutant: the reply of the service is not looked at
  \/ GraspOk(b)
  \/ /\ MayRefuse \/ MayTimeOut
     /\ grasped' = grasped \cup {b}
     /\ UNCHANGED <<installFailed, welded, late>>

Install(b) == GraspOk(b) \/ GraspRefused(b) \/ GraspTimedOut(b)

Grasp(b) ==
  /\ b \in inZone /\ robotSeen
  /\ Install(b)
  /\ LoopNext(b)
  /\ UNCHANGED <<suctionOn, knownHeight, spawnCounter, trackVars, zoneVars,
                 armAt, boxAt, lateSpawn, lifeVars>>

-----------------------------------------------------------------------------
(* _on_spawn_box: the next name that is not tracked.                       *)

SameNames ==  \* mutant: the counter is not advanced first
  {n \in SpawnNames : n >= spawnCounter /\ n \notin Tracked}

FreshNames == {n \in SpawnNames : n > spawnCounter /\ n \notin Tracked}

NextBoxName == {n \in FreshNames : \A m \in FreshNames : n <= m}

(* The name is chosen, then Gazebo is asked: it creates the box, unless a  *)
(* box has that name, which it does not say; or refuses; or takes too long. *)
OnSpawnBox(n) ==
  /\ Idle
  /\ n \in NextBoxName
  /\ spawnCounter' = n
  /\ spawning' = n
  /\ doubtful' = doubtful \cup {m \in {n} : restarts > 0 /\ ~robotSeen}
  /\ UNCHANGED <<suctionOn, grasped, installFailed, knownHeight, trackVars,
                 zoneVars, todo, inZone, gzVars, restarts>>

Create(n, p) ==
  boxAt' = IF n \in Present THEN boxAt ELSE [boxAt EXCEPT ![n] = p]

SpawnOk(p) ==
  /\ Create(spawning, p)
  /\ knownHeight' = knownHeight \cup {spawning}
  /\ UNCHANGED lateSpawn

SpawnRefused ==
  /\ MayRefuse
  /\ UNCHANGED <<boxAt, knownHeight, lateSpawn>>

SpawnTimedOut ==
  /\ MayTimeOut
  /\ lateSpawn' = lateSpawn \cup {spawning}
  /\ UNCHANGED <<boxAt, knownHeight>>

SpawnAnswer(p) ==
  /\ spawning # 0
  /\ SpawnOk(p) \/ SpawnRefused \/ SpawnTimedOut
  /\ spawning' = 0
  /\ UNCHANGED <<suctionOn, grasped, installFailed, spawnCounter, trackVars,
                 zoneVars, todo, inZone, armAt, welded, late, lifeVars>>

(* A new process: everything learned is gone, the joints in Gazebo stay,   *)
(* and so do the requests of the old process, also the one it died with.   *)
ManagerRestart ==
  /\ restarts < MaxRestarts
  /\ restarts' = restarts + 1
  /\ suctionOn' = FALSE /\ grasped' = {} /\ installFailed' = {}
  /\ knownHeight' = {} /\ spawnCounter' = 0
  /\ poses' = [b \in Names |-> Nowhere] /\ robotSeen' = FALSE
  /\ linkBox' = FALSE /\ footprint' = FALSE
  /\ todo' = {} /\ inZone' = {} /\ spawning' = 0
  /\ late' \in {late} \cup {late \cup {b} : b \in inZone}
  /\ lateSpawn' = lateSpawn \cup ({spawning} \ {0})
  /\ doubtful' = doubtful \cup lateSpawn'
  /\ UNCHANGED <<armAt, boxAt, welded>>

-----------------------------------------------------------------------------
(* Gazebo.                                                                 *)

(* The tool moves, and what is welded to it.                               *)
ArmMoves(p) ==
  /\ armAt' = p
  /\ boxAt' = [b \in Names |-> IF b \in welded THEN p ELSE boxAt[b]]
  /\ UNCHANGED <<rosVars, trackVars, zoneVars, loopVars, welded, late,
                 lateSpawn, lifeVars>>

(* A free box is moved by a belt, or appears from the box factory.         *)
BoxMoves(b, p) ==
  /\ b \notin welded
  /\ b \in Present \/ (b \in FactoryBoxes /\ boxAt[b] = Nowhere)
  /\ boxAt' = [boxAt EXCEPT ![b] = p]
  /\ UNCHANGED <<rosVars, trackVars, zoneVars, loopVars, armAt, welded, late,
                 lateSpawn, lifeVars>>

(* A box is deleted from the world, its joint with it.                     *)
BoxDeleted(b) ==
  /\ MayDelete /\ b \in Present
  /\ boxAt' = [boxAt EXCEPT ![b] = Deleted]
  /\ welded' = welded \ {b}
  /\ UNCHANGED <<rosVars, trackVars, zoneVars, loopVars, armAt, late,
                 lateSpawn, lifeVars>>

(* A request the caller has given up on is carried out after all.          *)
LateInstall(b) ==
  /\ b \in late
  /\ late' = late \ {b}
  /\ Weld(b)
  /\ UNCHANGED <<rosVars, trackVars, zoneVars, loopVars, armAt, boxAt,
                 lateSpawn, lifeVars>>

LateDropped(b) ==
  /\ b \in late \cup lateSpawn
  /\ late' = late \ {b} /\ lateSpawn' = lateSpawn \ {b}
  /\ UNCHANGED <<rosVars, trackVars, zoneVars, loopVars, armAt, boxAt, welded,
                 lifeVars>>

LateSpawn(b, p) ==
  /\ b \in lateSpawn
  /\ lateSpawn' = lateSpawn \ {b}
  /\ Create(b, p)
  /\ UNCHANGED <<rosVars, trackVars, zoneVars, loopVars, armAt, welded, late,
                 lifeVars>>

-----------------------------------------------------------------------------
Init ==
  /\ suctionOn = FALSE /\ grasped = {} /\ installFailed = {}
  /\ knownHeight = {} /\ spawnCounter = 0
  /\ poses = [b \in Names |-> Nowhere] /\ robotSeen = FALSE
  /\ linkBox = FALSE /\ footprint = FALSE
  /\ todo = {} /\ inZone = {} /\ spawning = 0
  /\ armAt \in Places
  /\ boxAt = [b \in Names |-> Nowhere]
  /\ welded = {} /\ late = {} /\ lateSpawn = {}
  /\ restarts = 0 /\ doubtful = {}

Next ==
  \/ \E withRobot \in BOOLEAN : OnGzPoses(withRobot)
  \/ \E b \in FactoryBoxes : OnSpawnedBox(b)
  \/ \E transform \in BOOLEAN : OnRobotDescription(transform)
  \/ UpdateFootprint
  \/ \E on \in BOOLEAN : OnSetSuction(on)
  \/ OnTimer
  \/ \E b \in Names : PassOver(b) \/ Grasp(b)
  \/ \E n \in SpawnNames : OnSpawnBox(n)
  \/ \E p \in Places : SpawnAnswer(p)
  \/ ManagerRestart
  \/ \E p \in Places : ArmMoves(p)
  \/ \E b \in Names, p \in Places : BoxMoves(b, p) \/ LateSpawn(b, p)
  \/ \E b \in Names : BoxDeleted(b) \/ LateInstall(b) \/ LateDropped(b)

Spec == Init /\ [][Next]_vars

(* The timers fire, pose messages keep coming and carry the robot, and a   *)
(* started callback goes on.                                               *)
Fairness ==
  /\ WF_vars(OnGzPoses(TRUE))
  /\ WF_vars(UpdateFootprint)
  /\ SF_vars(OnTimer)
  /\ \A b \in Names : WF_vars(PassOver(b) \/ Grasp(b))
  /\ WF_vars(\E p \in Places : SpawnAnswer(p))

FairSpec == Spec /\ Fairness

-----------------------------------------------------------------------------
(* Every variable has its type.                                            *)
TypeOK ==
  /\ suctionOn \in BOOLEAN
  /\ grasped \subseteq Names /\ installFailed \subseteq Names
  /\ knownHeight \subseteq Names
  /\ spawnCounter \in 0..MaxSpawn
  /\ poses \in [Names -> Places \cup {Nowhere}] /\ robotSeen \in BOOLEAN
  /\ linkBox \in BOOLEAN /\ footprint \in BOOLEAN
  /\ todo \subseteq Names /\ inZone \subseteq todo
  /\ spawning \in 0..MaxSpawn
  /\ armAt \in Places
  /\ boxAt \in [Names -> Places \cup {Nowhere, Deleted}]
  /\ welded \subseteq Names /\ late \subseteq Names
  /\ lateSpawn \subseteq SpawnNames
  /\ restarts \in 0..MaxRestarts
  /\ doubtful \subseteq SpawnNames

(* What gripper/state reports as held is held: the joint is there, for     *)
(* every reported box that was not deleted, whatever Gazebo answered, timed *)
(* out on or did late.                                                     *)
HeldIsWelded == grasped \cap Present \subseteq welded

(* A spawn_box call that succeeds has put a new box into the world, under a *)
(* name of nothing that is there: the manager "skips names already in the  *)
(* world (e.g. boxes left over from a previous run)".  Doubtful are the     *)
(* names it cannot know of: those a new process takes before it has heard  *)
(* anything, and those a dead process still had a creation outstanding for. *)
(* A name whose creation this process gave up on is not doubtful.          *)
SpawnedIsNew ==
  [][\A n \in SpawnNames :
       n \in knownHeight' \ knownHeight /\ n \notin doubtful
         => n \notin Present]_vars

(* With a Gazebo that answers in time, and no restart, the manager is the  *)
(* latching gripper it promises to be, of the boxes really welded.         *)
Suction == INSTANCE SuctionGripper
             WITH Objects <- Names, on <- suctionOn, held <- welded
ImplementsSuction == Suction!Spec

(* A box that stays at the tool while suction is on is captured, however   *)
(* late its pose, its size, the footprint or the robot's id become known.  *)
StaysAtTool(b) == suctionOn /\ boxAt[b] = armAt /\ b \in knownHeight /\ linkBox
CapturesInZone ==
  \A b \in Names : <>[]StaysAtTool(b) => <>[](b \in grasped)
=============================================================================
