-------------------------- MODULE MCGripperManager --------------------------
(***************************************************************************)
(* Instances of GripperManager for TLC: a tall box of the factory and one  *)
(* or two of spawn_box.  Every behaviour runs in one of two settings: with *)
(* the faults the configuration allows, or with none of them.              *)
(***************************************************************************)
EXTENDS GripperManager

VARIABLE setting

Reliable == INSTANCE GripperManager
              WITH MayRefuse <- FALSE, MayTimeOut <- FALSE, MaxRestarts <- 0,
                   MayDelete <- TRUE

MCInit == Init /\ setting \in {"faulty", "reliable"}

MCNext ==
  /\ IF setting = "reliable" THEN Reliable!Next ELSE Next
  /\ UNCHANGED setting

MCSpec == MCInit /\ [][MCNext]_<<vars, setting>> /\ Fairness

(* With a Gazebo that answers in time, and no restart, the manager is the  *)
(* latching gripper it promises to be (ImplementsSuction), also when boxes *)
(* are removed from the world.                                             *)
LatchesWhenReliable ==
  /\ setting = "reliable" => Suction!Init
  /\ [][setting = "reliable" => [Suction!Next]_<<suctionOn, welded>>]_vars

(* ... and a box that stays at the tool is captured (CapturesInZone).      *)
CapturesWhenReliable == setting = "reliable" => CapturesInZone
=============================================================================
