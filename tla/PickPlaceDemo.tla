---------------------------- MODULE PickPlaceDemo ----------------------------
(***************************************************************************)
(* pick_place_demo: the worker thread that runs pick and place cycles, the *)
(* ROS callbacks that run beside it, and what the two meet: navigator,     *)
(* vision, the suction gripper and the infeed line.                        *)
(*                                                                         *)
(* The worker is a program counter over the named steps of run_cycle, of   *)
(* _do_restart and of the start.  A step that asks somebody begins (most   *)
(* steps look at the restart request first), is calling, and ends with an  *)
(* answer.  All callbacks are in one mutually exclusive group; the worker  *)
(* is not, so it runs in between the two halves of _on_reset.              *)
(*                                                                         *)
(* The gripper is the specification SuctionGripper, behind a queue of      *)
(* set_suction calls: a call the worker gave up on stays in the queue.     *)
(***************************************************************************)
EXTENDS Naturals, Sequences

CONSTANTS
  PlaceNodes,      \* place_nodes, a sequence
  Home, Inspect,   \* home_node and inspect_node, usually the same
  RoundRobin,      \* place_order is 'round_robin'
  UseVision, GoHomeOnStart, StartEnabled,
  Box,             \* what the gripper can hold
  MayFail,         \* may motions, vision and grasps fail?
  MayTimeOut,      \* may set_suction be unavailable, or outlast its timeout?
  MayLag,          \* may the line's mode differ from the beam for longer
                   \* than a motion (released, switched off, delayed)?
  MayHoldAtStart,  \* may the gripper hold something when the demo starts?
  MaxOps,          \* how many operator calls there are
  MaxPending,      \* how many set_suction calls may be waiting
  MaxCycles        \* cycles and placed saturate here

Places == {PlaceNodes[i] : i \in 1..Len(PlaceNodes)}

ASSUME DemoAssumption ==
  /\ PlaceNodes \in Seq(STRING) /\ PlaceNodes # <<>>
  /\ Home \in STRING /\ Inspect \in STRING
  /\ {Home, Inspect} \cap Places = {}
  /\ {"none", "between", "above", "contact", "lifted"}
       \cap (Places \cup {Home, Inspect}) = {}
  /\ {RoundRobin, UseVision, GoHomeOnStart, StartEnabled} \subseteq BOOLEAN
  /\ {MayFail, MayTimeOut, MayLag, MayHoldAtStart} \subseteq BOOLEAN
  /\ {MaxOps, MaxPending, MaxCycles} \subseteq Nat
  /\ MaxPending > 0

VARIABLES
  \* the node
  enabled, error, restart, line, view, placeIndex, cycles,
  \* the worker: step, is it calling, and run_cycle's local "place"
  pc, calling, target,
  reset,         \* how far _on_reset is
  \* the gripper and the queue in front of it
  suction, held,
  calls,         \* not dealt with yet, and: may it drop a box anywhere?
  \* the rest of the world
  at,            \* where the tool is
  stray,         \* where a goal leads that was accepted too late, or "none"
  boxAtBeam,     \* a box waits at the infeed beam
  \* the operator's calls so far, and history
  ops,
  unacked,       \* a step failed, and nobody has acknowledged it
  placed         \* boxes put down at a place node

nodeVars    == <<enabled, error, restart, line, view, placeIndex, cycles>>
workerVars  == <<pc, calling, target>>
gripperVars == <<suction, held, calls>>
worldVars   == <<at, stray, boxAtBeam>>
opVars      == <<ops, reset>>
history     == <<unacked, placed>>
vars == <<nodeVars, workerVars, gripperVars, worldVars, opVars, history>>

Suction == INSTANCE SuctionGripper WITH Objects <- {Box}, on <- suction

-----------------------------------------------------------------------------
(* The steps of the worker.                                                *)

Motions == {"startHome", "inspect", "align", "approach", "backOutNoContact",
            "backOutNoGrasp", "homeNoGrasp", "lift", "place", "home", "rsHome"}
Suctions == {"gripOn", "gripOffNoGrasp", "release", "rsOff"}
Steps == Motions \cup Suctions
           \cup {"ready", "top", "detect", "waitGrasp", "dead"}

(* Steps whose first statement is _check_restart; the two calls of         *)
(* nav.gripper(False) that do not go through _gripper have none.           *)
Checked == (Motions \cup {"detect", "gripOn", "release"})

(* Steps whose answer is looked at: StepFailed when it is no success.      *)
(* The others go on whatever comes back.                                   *)
Careless(step) == step \notin Suctions  \* mutant: set_suction's answer is ignored
AnswerCounts(step) == step \notin {"gripOffNoGrasp", "rsOff"}

(* Where a motion that succeeds leaves the tool.                           *)
Destination(step) ==
  CASE step \in {"startHome", "homeNoGrasp", "home", "rsHome"} -> Home
    [] step = "inspect"  -> Inspect
    [] step \in {"align", "backOutNoContact", "backOutNoGrasp"} -> "above"
    [] step = "approach" -> "contact"
    [] step = "lift"     -> "lifted"
    [] step = "place"    -> target

(* The step after one that succeeded; run_cycle read top to bottom.        *)
NextStep(step) ==
  CASE step = "inspect" -> IF UseVision THEN "detect" ELSE "approach"
    [] step = "detect"  -> "align"
    [] step = "align"   -> "approach"
    [] step = "approach" -> "gripOn"
    [] step = "gripOn"  -> "waitGrasp"
    [] step = "gripOffNoGrasp" -> "backOutNoGrasp"
    [] step = "backOutNoGrasp" -> "homeNoGrasp"
    [] step = "lift"    -> "place"
    [] step = "place"   -> "release"
    [] step = "release" -> "home"
    [] step = "rsOff"   -> "rsHome"
    [] OTHER            -> "top"

Saturate(n) == IF n < MaxCycles THEN n + 1 ELSE n

(* raise StepFailed, caught in loop: ERROR, and back to the top.  A failure *)
(* that falls into the answer to a reset is lost with that reset.          *)
StepFailed ==
  /\ pc' = "top" /\ calling' = FALSE
  /\ error' = TRUE /\ unacked' = (unacked \/ reset = "idle")

(* The worker goes on with another step.                                   *)
GoTo(step) ==
  /\ pc' = step /\ calling' = FALSE
  /\ UNCHANGED <<error, unacked>>

-----------------------------------------------------------------------------
(* The worker: start and loop.                                             *)

(* loop: wait_until_ready, then home unless something is held.             *)
Start(ready) ==
  /\ pc = "ready"
  /\ IF ~ready THEN MayFail /\ StepFailed
     ELSE GoTo(IF GoHomeOnStart /\ view = {} THEN "startHome" ELSE "top")
  /\ UNCHANGED <<enabled, restart, line, view, placeIndex, cycles, target,
                 gripperVars, worldVars, opVars, placed>>

StraightHome ==  \* mutant: suction is not switched off
  /\ restart' = FALSE /\ error' = FALSE /\ unacked' = FALSE /\ enabled' = TRUE
  /\ pc' = "rsHome" /\ calling' = FALSE
  /\ UNCHANGED calls

NeverServed ==  \* mutant: the request is not cleared
  /\ error' = FALSE /\ unacked' = FALSE /\ enabled' = TRUE
  /\ pc' = "rsOff" /\ calling' = FALSE
  /\ UNCHANGED <<calls, restart>>

(* _do_restart up to its call of nav.gripper(False).  From now on a box    *)
(* may drop wherever the arm is.                                           *)
DoRestart ==
  /\ calls' = [i \in DOMAIN calls |-> [calls[i] EXCEPT !.anywhere = TRUE]]
  /\ restart' = FALSE
  /\ error' = FALSE /\ unacked' = FALSE
  /\ enabled' = TRUE
  /\ pc' = "rsOff" /\ calling' = FALSE

RestartAtTop ==
  /\ pc = "top" /\ restart
  /\ DoRestart
  /\ UNCHANGED <<line, view, placeIndex, cycles, target, suction, held,
                 worldVars, opVars, placed>>

IgnoresHeld == ~error /\ enabled /\ line = "BLOCKED"  \* mutant: held or not

(* The conditions loop tests one by one before run_cycle.                  *)
PickPossible == ~error /\ enabled /\ line = "BLOCKED" /\ view = {}

StartCycle ==
  /\ pc = "top" /\ ~restart
  /\ PickPossible
  /\ GoTo("inspect")
  /\ UNCHANGED <<enabled, restart, line, view, placeIndex, cycles, target,
                 gripperVars, worldVars, opVars, placed>>

-----------------------------------------------------------------------------
(* The worker: beginning a step.                                           *)

(* RestartRequested: a cycle is left for the top of the loop, _do_restart  *)
(* begins again, and nobody catches it around the drive home at the start. *)
RestartRequested ==
  /\ pc \in Checked /\ ~calling /\ restart
  /\ IF pc = "rsHome" THEN DoRestart
     ELSE /\ GoTo(IF pc = "startHome" THEN "dead" ELSE "top")
          /\ UNCHANGED <<restart, enabled, calls>>
  /\ UNCHANGED <<line, view, placeIndex, cycles, target, suction, held,
                 worldVars, opVars, placed>>

MayBegin == ~calling /\ (pc \in Checked => ~restart)

Begin ==
  /\ MayBegin
  /\ pc \in Motions \cup Suctions \cup {"detect"}
  /\ calling' = TRUE
  /\ calls' = IF pc \in Suctions
                THEN Append(calls, [on |-> pc = "gripOn",
                                     anywhere |-> pc # "release"])
                ELSE calls
  /\ UNCHANGED <<nodeVars, pc, target, suction, held, worldVars, opVars, history>>

(* The server is not there, rejects the goal, or does not accept it within *)
(* 2 s: the step ends where it is, and a goal accepted later is carried    *)
(* out all the same (one such goal at a time).                             *)
Refused ==
  /\ MayBegin
  /\ \/ pc \in Motions \cup {"detect"} /\ MayFail
     \/ pc \in Suctions /\ MayTimeOut
  /\ IF AnswerCounts(pc) THEN StepFailed ELSE GoTo(NextStep(pc))
  /\ stray' \in {stray} \cup (IF pc \in Motions /\ stray = "none"
                               THEN {Destination(pc)} ELSE {})
  /\ UNCHANGED <<enabled, restart, line, view, placeIndex, cycles, target,
                 gripperVars, at, boxAtBeam, opVars, placed>>

-----------------------------------------------------------------------------
(* The worker: ending a step.                                              *)

TriesAgain(step) == step \notin Steps  \* mutant: no grasp is no error

(* What a step that succeeded leaves behind, besides the next step:        *)
(* run_cycle picks the place node right after the lift, and counts itself  *)
(* at its very end; the two ways out that are not a cycle end in an error. *)
FailsAnyway(step) == step \in {"homeNoGrasp", "backOutNoContact"}

PickPlace ==
  \/ /\ RoundRobin
     /\ target' = PlaceNodes[placeIndex + 1]
     /\ placeIndex' = (placeIndex + 1) % Len(PlaceNodes)
  \/ /\ ~RoundRobin
     /\ target' \in Places
     /\ UNCHANGED placeIndex

EarlyCount ==  \* mutant: the cycle is counted before the box is put down
  cycles' = IF pc = "lift" THEN Saturate(cycles) ELSE cycles
CountCycle == cycles' = IF pc = "home" THEN Saturate(cycles) ELSE cycles

Succeed ==
  /\ IF FailsAnyway(pc) THEN StepFailed ELSE GoTo(NextStep(pc))
  /\ IF pc = "lift" THEN PickPlace ELSE UNCHANGED <<target, placeIndex>>
  /\ CountCycle

(* A motion takes seconds: it outlasts a gripper/state message, and, unless *)
(* the line was released or switched off, the line's mode follows the beam. *)
(* A gripper that is late (3 s per joint Gazebo does not answer for) is    *)
(* not a whole cycle late.                                                 *)
MessagesInTime ==
  /\ view = held
  /\ MayLag \/ (line = "BLOCKED") = boxAtBeam
  /\ pc = "inspect" => calls = <<>>

MotionEnds ==
  /\ calling /\ pc \in Motions
  /\ at = "between" /\ stray = "none"
  /\ MessagesInTime
  /\ pc = "approach" => boxAtBeam \/ MayFail
  /\ at' = Destination(pc)
  /\ Succeed
  /\ UNCHANGED <<enabled, restart, line, view, gripperVars, stray, boxAtBeam,
                 opVars, placed>>

(* The motion fails somewhere on its way; an approach without contact      *)
(* backs out by the distance it travelled.                                 *)
MotionFails(travelled) ==
  /\ calling /\ pc \in Motions
  /\ MayFail \/ (pc = "approach" /\ ~boxAtBeam)
  /\ IF pc = "approach" /\ travelled THEN GoTo("backOutNoContact")
     ELSE StepFailed
  /\ UNCHANGED <<enabled, restart, line, view, placeIndex, cycles, target,
                 gripperVars, worldVars, opVars, placed>>

(* _align_over_box up to its motion: no detection, no box, or no TF fail.  *)
DetectEnds(found) ==
  /\ calling /\ pc = "detect"
  /\ IF found THEN (boxAtBeam \/ MayFail) /\ Succeed
     ELSE /\ ~boxAtBeam \/ MayFail
          /\ StepFailed /\ UNCHANGED <<target, placeIndex, cycles>>
  /\ UNCHANGED <<enabled, restart, line, view, gripperVars, worldVars, opVars,
                 placed>>

(* The answer to set_suction; the gripper has dealt with every call.       *)
SuctionAnswers ==
  /\ calling /\ pc \in Suctions /\ calls = <<>>
  /\ Succeed
  /\ UNCHANGED <<enabled, restart, line, view, gripperVars, worldVars, opVars,
                 placed>>

(* No answer within call_service's timeout; the call stays where it is.    *)
SuctionTimesOut ==
  /\ MayTimeOut /\ Len(calls) < MaxPending
  /\ calling /\ pc \in Suctions
  /\ IF AnswerCounts(pc) THEN StepFailed ELSE GoTo(NextStep(pc))
  /\ UNCHANGED <<enabled, restart, line, view, placeIndex, cycles, target,
                 gripperVars, worldVars, opVars, placed>>

(* One round of _wait_for_grasp: a restart, a grasp, or the deadline.      *)
CanCapture == suction /\ at = "contact" /\ boxAtBeam /\ Box \notin held

WaitForGrasp ==
  /\ pc = "waitGrasp"
  /\ \/ restart /\ GoTo("top")
     \/ ~restart /\ view # {} /\ GoTo("lift")
     \/ /\ MayFail \/ ~(CanCapture \/ Box \in held)
        /\ GoTo("gripOffNoGrasp")
  /\ UNCHANGED <<enabled, restart, line, view, placeIndex, cycles, target,
                 gripperVars, worldVars, opVars, placed>>

(* What the worker does next, also in between the halves of _on_reset.     *)
Worker ==
  \/ \E ready \in BOOLEAN : Start(ready)
  \/ RestartAtTop \/ StartCycle \/ RestartRequested
  \/ Begin \/ Refused
  \/ MotionEnds \/ \E travelled \in BOOLEAN : MotionFails(travelled)
  \/ \E found \in BOOLEAN : DetectEnds(found)
  \/ SuctionAnswers \/ SuctionTimesOut
  \/ WaitForGrasp

-----------------------------------------------------------------------------
(* The callbacks.                                                          *)

(* _on_line_state: the line's latest mode.                                 *)
OnLineState(mode) ==
  /\ reset = "idle"
  /\ MayLag \/ (mode = "BLOCKED") = boxAtBeam
  /\ line' = mode
  /\ UNCHANGED <<enabled, error, restart, view, placeIndex, cycles,
                 workerVars, gripperVars, worldVars, opVars, history>>

(* NavigatorClient._on_gripper_state: a depth-1 latched topic.             *)
OnGripperState ==
  /\ reset = "idle"
  /\ view' = held
  /\ UNCHANGED <<enabled, error, restart, line, placeIndex, cycles,
                 workerVars, gripperVars, worldVars, opVars, history>>

OperatorCalls == reset = "idle" /\ ops < MaxOps /\ ops' = ops + 1

EnableResumes(on) ==  \* mutant: enabling the demo clears its ERROR
  /\ OperatorCalls
  /\ enabled' = on /\ error' = (error /\ ~on)
  /\ UNCHANGED <<restart, line, view, placeIndex, cycles, workerVars,
                 gripperVars, worldVars, reset, unacked, placed>>

(* _on_set_enabled *)
OnSetEnabled(on) ==
  /\ OperatorCalls
  /\ enabled' = on
  /\ UNCHANGED <<error, restart, line, view, placeIndex, cycles, workerVars,
                 gripperVars, worldVars, reset, unacked, placed>>

(* _on_restart *)
OnRestart ==
  /\ OperatorCalls
  /\ restart' = TRUE
  /\ UNCHANGED <<enabled, error, line, view, placeIndex, cycles, workerVars,
                 gripperVars, worldVars, reset, unacked, placed>>

(* _on_reset up to the response's success, and the rest of it.             *)
OnResetReads ==
  /\ OperatorCalls
  /\ reset' = "answering"
  /\ UNCHANGED <<nodeVars, workerVars, gripperVars, worldVars, history>>

OnResetWrites ==
  /\ reset = "answering"
  /\ error' = FALSE /\ unacked' = FALSE
  /\ reset' = "idle"
  /\ UNCHANGED <<enabled, restart, line, view, placeIndex, cycles, workerVars,
                 gripperVars, worldVars, ops, placed>>

-----------------------------------------------------------------------------
(* Arm, gripper and line.                                                  *)

(* The navigator deals with one goal at a time, in the order they came.    *)
(* The arm leaves for the one whose turn it is; a held box comes along,    *)
(* off the beam.                                                           *)
ArmLeaves ==
  /\ stray # "none" \/ (calling /\ pc \in Motions)
  /\ at # "between"
  /\ at' = "between"
  /\ boxAtBeam' = (boxAtBeam /\ ~(at = "contact" /\ Box \in held))
  /\ UNCHANGED <<nodeVars, workerVars, gripperVars, stray, opVars, history>>

(* The goal nobody waits for any more is carried out, or fails on its way. *)
StrayEnds(arrives) ==
  /\ stray # "none" /\ at = "between"
  /\ at' = IF arrives THEN stray ELSE at
  /\ stray' = "none"
  /\ UNCHANGED <<nodeVars, workerVars, gripperVars, boxAtBeam, opVars, history>>

(* gripper_manager deals with the oldest call.                             *)
GripperExecutes ==
  /\ calls # <<>>
  /\ IF Head(calls).on THEN Suction!SwitchOn ELSE Suction!SwitchOff
  /\ calls' = Tail(calls)
  /\ placed' = IF Box \in held \ held' /\ at \in Places
                 THEN Saturate(placed) ELSE placed
  /\ UNCHANGED <<nodeVars, workerVars, worldVars, opVars, unacked>>

Capture ==
  /\ CanCapture
  /\ Suction!Capture(Box)
  /\ UNCHANGED <<nodeVars, workerVars, calls, worldVars, opVars, history>>

BoxArrives ==
  /\ ~boxAtBeam
  /\ boxAtBeam' = TRUE
  /\ UNCHANGED <<nodeVars, workerVars, gripperVars, at, stray, opVars, history>>

-----------------------------------------------------------------------------
Init ==
  /\ enabled = StartEnabled /\ error = FALSE /\ restart = FALSE
  /\ line = "none" /\ view = {}
  /\ placeIndex = 0 /\ cycles = 0
  /\ pc = "ready" /\ calling = FALSE /\ target = PlaceNodes[1]
  /\ reset = "idle"
  /\ held \in IF MayHoldAtStart THEN {{}, {Box}} ELSE {{}}
  /\ suction = (Box \in held) /\ calls = <<>>
  /\ at = "between" /\ stray = "none" /\ boxAtBeam \in BOOLEAN
  /\ ops = 0
  /\ unacked = FALSE /\ placed = 0

Next ==
  \/ Worker
  \/ \E mode \in {"BLOCKED", "OTHER"} : OnLineState(mode)
  \/ OnGripperState
  \/ \E on \in BOOLEAN : OnSetEnabled(on)
  \/ OnRestart
  \/ OnResetReads \/ OnResetWrites
  \/ ArmLeaves \/ \E arrives \in BOOLEAN : StrayEnds(arrives)
  \/ GripperExecutes \/ Capture \/ BoxArrives

Spec == Init /\ [][Next]_vars

(* The worker is never starved, the navigator and vision answer in the end *)
(* (the trajectory executor gives up on a stalled motion), messages arrive, *)
(* the gripper works off its queue and captures what it can reach.         *)
OthersFair ==
  /\ WF_vars(boxAtBeam /\ OnLineState("BLOCKED"))
  /\ WF_vars(~boxAtBeam /\ OnLineState("OTHER"))
  /\ WF_vars(OnGripperState)
  /\ WF_vars(OnResetWrites)
  /\ WF_vars(ArmLeaves)
  /\ WF_vars(\E arrives \in BOOLEAN : StrayEnds(arrives))
  /\ WF_vars(GripperExecutes)
  /\ WF_vars(Capture)

Fairness == OthersFair /\ WF_vars(Worker)

FairSpec == Spec /\ Fairness

-----------------------------------------------------------------------------
(* Every variable has its type, and only a calling step is a step that asks. *)
TypeOK ==
  /\ {enabled, error, restart, calling, suction, boxAtBeam, unacked} \subseteq BOOLEAN
  /\ line \in {"none", "BLOCKED", "OTHER"}
  /\ view \subseteq {Box} /\ held \subseteq {Box}
  /\ placeIndex \in 0..(Len(PlaceNodes) - 1)
  /\ cycles \in 0..MaxCycles /\ placed \in 0..MaxCycles
  /\ pc \in Steps /\ target \in Places
  /\ calling => pc \in Motions \cup Suctions \cup {"detect"}
  /\ reset \in {"idle", "answering"}
  /\ calls \in Seq([on : BOOLEAN, anywhere : BOOLEAN])
  /\ at \in Places \cup {Home, Inspect, "between", "above", "contact", "lifted"}
  /\ stray \in Places \cup {Home, Inspect, "none", "above", "contact", "lifted"}
  /\ ops \in 0..MaxOps

(* A carried box is let go only over a place node, or on purpose elsewhere *)
(* (a restart, a failed grasp) - also if the gripper gets to a call long   *)
(* after the worker has given up on it.  Until it is lifted, a box stands  *)
(* on the belt and letting it go drops nothing.                            *)
DropsOnlyWhereMeant ==
  [][(Box \in held \ held')
       => at \in Places \cup {"contact"} \/ Head(calls).anywhere]_vars

(* Every cycle the demo counts as placed has put a box down at a place     *)
(* node, whatever was restarted, paused or failed in between.              *)
CountedIsPlaced == cycles <= placed

(* A pick starts "whenever ... the robot is idle and holds nothing": no    *)
(* box hangs from the gripper while the worker is on its way to the beam.  *)
PickStartsEmpty ==
  pc \in {"inspect", "detect", "align", "approach"} => held = {}

(* "A failed step puts the demo into ERROR and it stops commanding the     *)
(* robot": nothing is asked of navigator, vision or gripper before somebody *)
(* has acknowledged the failure, by a reset or a restart that came after   *)
(* it - however reset, restart, pause and the worker fall in between each  *)
(* other.  (A failure that falls into the answer to a reset is lost.)      *)
FailureStops == [][~calling /\ calling' => ~unacked]_vars

(* "Suction off (drops anything held), go home" - "a failure here is an    *)
(* ERROR again": a restart that is through without an error has dropped    *)
(* everything.                                                             *)
RestartDrops == [][pc = "rsHome" /\ pc' = "top" /\ ~error' => held = {}]_vars

(* "restart: start over from any state": a restart request is served.      *)
RestartServed == restart ~> ~restart

(* Left alone by the operator, the demo picks a box that waits at a line    *)
(* that says so and puts it down at a place node, or stops with an ERROR:   *)
(* it never hangs in a cycle.                                               *)
EveryBoxIsPlaced ==
  /\ ~<>[](boxAtBeam /\ line = "BLOCKED" /\ ops = 0 /\ ~error)
  /\ Box \in held ~> ((held = {} /\ at \in Places) \/ error \/ ops > 0)
=============================================================================
