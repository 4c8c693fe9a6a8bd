---------------------------- MODULE MCBoxFactory ----------------------------
(***************************************************************************)
(* Instances of BoxFactory for TLC.  Every behaviour runs in one of two    *)
(* settings: "late", the faults the configuration allows, or "prompt", a   *)
(* Gazebo that answers or refuses in time, poses without delay, and one    *)
(* restart of the node.                                                    *)
(***************************************************************************)
EXTENDS BoxFactory

VARIABLE setting

Prompt == INSTANCE BoxFactory
            WITH MayTimeOut <- FALSE, MayLag <- FALSE, MaxRestarts <- 1

MCInit == Init /\ setting \in {"late", "prompt"}

MCNext ==
  /\ IF setting = "prompt" THEN Prompt!Next ELSE Next
  /\ UNCHANGED setting

MCSpec == MCInit /\ [][MCNext]_<<vars, setting>> /\ Fairness

(* "No box is spawned while another box is still inside the spawn area",   *)
(* "skip names already in the world": where creations do not time out and  *)
(* the poses are up to date, two boxes are never in it together, and       *)
(* Gazebo is never asked for a box by the name of one that is there, also  *)
(* after a restart.                                                        *)
SpawnsWhenPrompt == setting = "prompt" => NoStacking /\ NameIsNew

(* A box in the world is announced or was given up, however late it was    *)
(* created.  (After a restart nobody announces the boxes the node was      *)
(* waiting for.)                                                           *)
AnnouncedWhenLate == setting = "late" => EveryBoxAnnounced
=============================================================================
