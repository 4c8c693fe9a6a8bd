------------------------- MODULE MCNavigatorServer -------------------------
(***************************************************************************)
(* Instances of NavigatorServer for TLC: a path and a guarded line.  Every *)
(* behaviour runs in one of two settings: "faulty", the faults the         *)
(* configuration allows, or "timely", motions that do not stall and a      *)
(* controller that answers in time.                                        *)
(***************************************************************************)
EXTENDS NavigatorServer

VARIABLE setting

Timely == INSTANCE NavigatorServer WITH MayStall <- FALSE, MayBeLate <- FALSE

MCInit == Init /\ setting \in {"faulty", "timely"}

MCNext ==
  /\ IF setting = "timely" THEN Timely!Next ELSE Next
  /\ UNCHANGED setting

(* As Fairness, of the steps the setting allows.                           *)
MCFairness ==
  /\ OthersFair
  /\ WF_vars(IF setting = "timely" THEN Timely!Executing ELSE Executing)

MCSpec == MCInit /\ [][MCNext]_<<vars, setting>> /\ MCFairness

(* "One motion at a time": where controllers are timely, a moving arm      *)
(* belongs to the goal that holds the lock (MotionIsOwned).                *)
OwnedWhenTimely == setting = "timely" => MotionIsOwned

(* Every accepted goal gets its result, whatever stalls, is late, is       *)
(* cancelled or waits for the lock.  (In the other setting a motion may    *)
(* last for ever and never overrun its time.)                              *)
AnsweredWhenFaulty == setting = "faulty" => EveryGoalAnswered
=============================================================================
