--------------------------- MODULE SuctionGripper ---------------------------
(***************************************************************************)
(* What gripper_manager promises: suction is latching.  While it is on,    *)
(* objects are captured one after another and stay held; switching it off  *)
(* releases all of them.                                                   *)
(***************************************************************************)
CONSTANT Objects
VARIABLES on, held

svars == <<on, held>>

Init == on = FALSE /\ held = {}

SwitchOn  == on' = TRUE /\ UNCHANGED held
SwitchOff == on' = FALSE /\ held' = {}
Capture(b) == on /\ held' = held \cup {b} /\ UNCHANGED on

(* An object that is removed from the world is no longer held.             *)
Vanish(b) == held' = held \ {b} /\ UNCHANGED on

Next ==
  \/ SwitchOn
  \/ SwitchOff
  \/ \E b \in Objects : Capture(b) \/ Vanish(b)

Spec == Init /\ [][Next]_svars
=============================================================================
