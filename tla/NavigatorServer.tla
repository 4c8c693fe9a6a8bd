--------------------------- MODULE NavigatorServer ---------------------------
(***************************************************************************)
(* navigator_server: motion goals of several clients, one robot.           *)
(*                                                                         *)
(* The node runs on a MultiThreadedExecutor with one reentrant callback    *)
(* group, so goals, cancels and wrench samples interleave freely with the  *)
(* goal being executed, which holds the lock _busy.  Executing it means    *)
(* planning motions and handing them one by one to the TrajectoryExecutor, *)
(* which follows the controller's action (external: it accepts or rejects  *)
(* a motion, a newer motion replaces the one it follows, and a cancel is a *)
(* message that arrives later).                                            *)
(***************************************************************************)
EXTENDS Naturals, Sequences

CONSTANTS
  Paths,       \* navigate_to_node goals that follow the graph
  Plain,       \* goals that are one motion: direct, or a line without guard
  Guarded,     \* cartesian_move goals with stop_force > 0
  NoGoal,
  MaxSegments, \* the longest path
  MaxMotions,  \* bound on the motions handed to the controller
  MaxThreads,  \* callbacks of one guard that may be under way at a time
  MayCancel,   \* may clients cancel?
  MayStall,    \* may a motion stall, or overrun its time?
  MayBeLate    \* may the controller answer a goal later than after 5 s?

Goals == Paths \cup Plain \cup Guarded

ASSUME NavigatorAssumption ==
  /\ Paths \cap Plain = {} /\ (Paths \cup Plain) \cap Guarded = {}
  /\ NoGoal \notin Goals
  /\ {MaxSegments, MaxMotions, MaxThreads} \subseteq Nat
  /\ {MayCancel, MayStall, MayBeLate} \subseteq BOOLEAN

VARIABLES
  status,      \* of each goal, as its action server sees it
  cancel,      \* of each goal: not asked, in _on_cancel, or requested
  success,     \* result.success of each goal
  busy,        \* the goal that holds _busy
  pc,          \* how far that goal is
  left,        \* its motions still to do
  handle,      \* _goal_handle: the motion execute() follows, 0 for None
  guard,       \* _guard: the goal whose guard is watching
  contact, stopped,  \* of each goal: the fields of its guard
  pressing,    \* the force differs from the baseline by more than the limit
  underway,    \* of each guard: callbacks between unlock and cancel_motion
  \* the controller
  motions,     \* every motion handed to it, oldest first
  \* history
  sentLate     \* of each goal: motions sent after its cancel was accepted

goalVars  == <<status, cancel, success>>
execVars  == <<busy, pc, left, handle>>
guardVars == <<guard, contact, stopped, pressing, underway>>
vars == <<goalVars, execVars, guardVars, motions, sentLate>>

Ended == {"rejected", "succeeded", "aborted", "canceled"}
Over  == {"refused", "succeeded", "aborted", "canceled"}

Asked(m) == [motions EXCEPT ![m].asked = TRUE]

-----------------------------------------------------------------------------
(* Goals and cancels.                                                      *)

(* _on_goal: the lock is looked at, not taken.                             *)
OnGoal(g) ==
  /\ status[g] = "new"
  /\ status' = [status EXCEPT ![g] = IF busy # NoGoal THEN "rejected"
                                                      ELSE "accepted"]
  /\ UNCHANGED <<cancel, success, execVars, guardVars, motions, sentLate>>

(* executor.cancel: whatever motion is being followed, if any.             *)
CancelMotion == motions' = IF handle # 0 THEN Asked(handle) ELSE motions

(* _on_cancel stops the current motion; the action server marks the goal   *)
(* as cancelled after the callback has returned.                           *)
OnCancel(g) ==
  /\ MayCancel
  /\ status[g] \in {"accepted", "running", "finishing"} /\ cancel[g] = "no"
  /\ CancelMotion
  /\ cancel' = [cancel EXCEPT ![g] = "stopping"]
  /\ UNCHANGED <<status, success, execVars, guardVars, sentLate>>

CancelAccepted(g) ==
  /\ cancel[g] = "stopping" /\ status[g] \notin Ended
  /\ cancel' = [cancel EXCEPT ![g] = "requested"]
  /\ UNCHANGED <<status, success, execVars, guardVars, motions, sentLate>>

(* with self._busy: a goal accepted earlier waits here, cancelled or not.  *)
(* Moving onto the graph is the first motion of a path that does not start *)
(* at a node; should_stop is looked at before all its other motions.       *)
Acquire(g) ==
  /\ status[g] = "accepted" /\ busy = NoGoal
  /\ busy' = g
  /\ status' = [status EXCEPT ![g] = "running"]
  /\ IF g \in Paths
       THEN /\ left' \in 0..MaxSegments
            /\ pc' \in IF left' = 0 THEN {"check"} ELSE {"check", "plan"}
       ELSE left' = 1 /\ pc' = "plan"
  /\ guard' = IF g \in Guarded THEN g ELSE guard     \* _start_guard
  /\ pressing' = FALSE
  /\ UNCHANGED <<cancel, success, handle, contact, stopped, underway, motions,
                 sentLate>>

(* The goal's work is over: the guard is stopped and decides about a       *)
(* guarded move, a cancelled path is no success, the lock is free again.   *)
OwnOutcome(ok) ==
  CASE busy \in Guarded -> contact[busy]
    [] busy \in Paths   -> ok /\ cancel[busy] # "requested"
    [] OTHER            -> ok

KeepsBusy(ok) ==  \* mutant: a failure leaves the lock taken
  /\ success' = [success EXCEPT ![busy] = OwnOutcome(ok)]
  /\ status' = [status EXCEPT ![busy] = "finishing"]
  /\ busy' = IF ok THEN NoGoal ELSE busy
  /\ pc' = "idle" /\ left' = 0 /\ handle' = 0
  /\ guard' = NoGoal

Finish(ok) ==
  /\ success' = [success EXCEPT ![busy] = OwnOutcome(ok)]
  /\ status' = [status EXCEPT ![busy] = "finishing"]
  /\ busy' = NoGoal /\ pc' = "idle" /\ left' = 0 /\ handle' = 0
  /\ guard' = NoGoal

(* _finish, outside the lock.                                              *)
Report(g) ==
  /\ status[g] = "finishing"
  /\ status' = [status EXCEPT ![g] = IF cancel[g] = "requested" THEN "canceled"
                                     ELSE IF success[g] THEN "succeeded"
                                     ELSE "aborted"]
  /\ UNCHANGED <<cancel, success, execVars, guardVars, motions, sentLate>>

-----------------------------------------------------------------------------
(* The goal that holds the lock: find_and_move_to_node_logic, or a single  *)
(* motion, through TrajectoryExecutor.execute.                             *)

NeverStops ==  \* mutant: should_stop is not looked at
  /\ pc = "check"
  /\ IF left = 0
       THEN Finish(TRUE)
       ELSE /\ pc' = "plan"
            /\ UNCHANGED <<status, success, busy, left, handle, guard>>
  /\ UNCHANGED <<cancel, contact, stopped, pressing, underway, motions, sentLate>>

CheckStop ==
  /\ pc = "check"
  /\ IF left = 0 \/ cancel[busy] = "requested"
       THEN Finish(left = 0)
       ELSE /\ pc' = "plan"
            /\ UNCHANGED <<status, success, busy, left, handle, guard>>
  /\ UNCHANGED <<cancel, contact, stopped, pressing, underway, motions, sentLate>>

(* No such node, no force data, no plan, a plan that starts elsewhere.     *)
NoPlan ==
  /\ pc = "plan"
  /\ Finish(FALSE)
  /\ UNCHANGED <<cancel, contact, stopped, pressing, underway, motions, sentLate>>

SendMotion ==
  /\ pc = "plan" /\ Len(motions) < MaxMotions
  /\ pc' = "wait"
  /\ motions' = Append(motions, [goal |-> busy, state |-> "sent", asked |-> FALSE])
  /\ sentLate' = IF cancel[busy] = "requested"
                   THEN [sentLate EXCEPT ![busy] = @ + 1] ELSE sentLate
  /\ UNCHANGED <<goalVars, busy, left, handle, guardVars>>

(* The controller has accepted: from now on the motion can be cancelled.   *)
Accepted ==
  /\ pc = "wait" /\ motions[Len(motions)].state \notin {"sent", "refused"}
  /\ pc' = "run"
  /\ handle' = Len(motions)
  /\ UNCHANGED <<goalVars, busy, left, guardVars, motions, sentLate>>

Impatient ==  \* mutant: it does not wait for the controller's answer
  /\ pc = "wait"
  /\ Finish(FALSE)
  /\ UNCHANGED <<cancel, contact, stopped, pressing, underway, motions, sentLate>>

(* It has rejected the motion, or has not answered within 5 s.             *)
NotAccepted ==
  /\ pc = "wait"
  /\ \/ motions[Len(motions)].state = "refused"
     \/ motions[Len(motions)].state = "sent" /\ MayBeLate
  /\ Finish(FALSE)
  /\ UNCHANGED <<cancel, contact, stopped, pressing, underway, motions, sentLate>>

AnyResult ==  \* mutant: the controller's error code is not looked at
  /\ pc = "run" /\ motions[handle].state \in Over
  /\ IF left > 1
       THEN /\ pc' = "check" /\ left' = left - 1 /\ handle' = 0
            /\ UNCHANGED <<status, success, busy, guard>>
       ELSE Finish(TRUE)
  /\ UNCHANGED <<cancel, contact, stopped, pressing, underway, motions, sentLate>>

MotionDone ==
  /\ pc = "run" /\ motions[handle].state \in Over
  /\ IF motions[handle].state = "succeeded" /\ left > 1
       THEN /\ pc' = "check" /\ left' = left - 1 /\ handle' = 0
            /\ UNCHANGED <<status, success, busy, guard>>
       ELSE Finish(motions[handle].state = "succeeded")
  /\ UNCHANGED <<cancel, contact, stopped, pressing, underway, motions, sentLate>>

(* Over its time, or no feedback: execute asks the controller to cancel    *)
(* and returns at once.                                                    *)
GiveUp ==
  /\ MayStall
  /\ pc = "run" /\ motions[handle].state \notin Over
  /\ motions' = Asked(handle)
  /\ Finish(FALSE)
  /\ UNCHANGED <<cancel, contact, stopped, pressing, underway, sentLate>>

-----------------------------------------------------------------------------
(* The guard.                                                              *)

(* The pad touches something (or the force drifts) while a guard watches,  *)
(* and touches it no more.                                                 *)
Touch(on) ==
  /\ guard # NoGoal /\ pressing # on
  /\ pressing' = on
  /\ UNCHANGED <<goalVars, execVars, guard, contact, stopped, underway, motions,
                 sentLate>>

Press == Touch(TRUE)
Release == Touch(FALSE)

(* _on_wrench under the lock: contact is noted, this callback will cancel. *)
OnWrench ==
  /\ guard # NoGoal /\ ~stopped[guard] /\ pressing
  /\ underway[guard] < MaxThreads
  /\ contact' = [contact EXCEPT ![guard] = TRUE]
  /\ underway' = [underway EXCEPT ![guard] = @ + 1]
  /\ UNCHANGED <<goalVars, execVars, guard, stopped, pressing, motions, sentLate>>

CancelsOnce(g) ==  \* mutant: "stopped" whether anything was cancelled or not
  /\ underway[g] > 0
  /\ underway' = [underway EXCEPT ![g] = @ - 1]
  /\ CancelMotion
  /\ stopped' = [stopped EXCEPT ![g] = TRUE]
  /\ UNCHANGED <<goalVars, execVars, guard, contact, pressing, sentLate>>

(* _on_wrench after the lock: what is cancelled is whatever runs now.      *)
GuardCancels(g) ==
  /\ underway[g] > 0
  /\ underway' = [underway EXCEPT ![g] = @ - 1]
  /\ CancelMotion
  /\ stopped' = [stopped EXCEPT ![g] = @ \/ handle # 0]
  /\ UNCHANGED <<goalVars, execVars, guard, contact, pressing, sentLate>>

-----------------------------------------------------------------------------
(* The controller.                                                         *)

ControllerAccepts(m) ==
  /\ motions[m].state = "sent"
  /\ motions' = [i \in DOMAIN motions |->
                  IF i = m THEN [motions[i] EXCEPT !.state = "active"]
                  ELSE IF motions[i].state = "active"
                         THEN [motions[i] EXCEPT !.state = "aborted"]
                  ELSE motions[i]]
  /\ UNCHANGED <<goalVars, execVars, guardVars, sentLate>>

ControllerRefuses(m) ==
  /\ motions[m].state = "sent"
  /\ motions' = [motions EXCEPT ![m].state = "refused"]
  /\ UNCHANGED <<goalVars, execVars, guardVars, sentLate>>

ControllerEnds(m, outcome) ==
  /\ motions[m].state = "active"
  /\ outcome = "canceled" => motions[m].asked
  /\ motions' = [motions EXCEPT ![m].state = outcome]
  /\ UNCHANGED <<goalVars, execVars, guardVars, sentLate>>

-----------------------------------------------------------------------------
Init ==
  /\ status = [g \in Goals |-> "new"] /\ cancel = [g \in Goals |-> "no"]
  /\ success = [g \in Goals |-> FALSE]
  /\ busy = NoGoal /\ pc = "idle" /\ left = 0 /\ handle = 0
  /\ guard = NoGoal /\ pressing = FALSE
  /\ contact = [g \in Goals |-> FALSE] /\ stopped = [g \in Goals |-> FALSE]
  /\ underway = [g \in Goals |-> 0]
  /\ motions = <<>>
  /\ sentLate = [g \in Goals |-> 0]

Executing == CheckStop \/ NoPlan \/ SendMotion \/ Accepted \/ NotAccepted
               \/ MotionDone \/ GiveUp

Controller(m) ==
  \/ ControllerAccepts(m) \/ ControllerRefuses(m)
  \/ \E outcome \in {"succeeded", "aborted", "canceled"} :
       ControllerEnds(m, outcome)

Next ==
  \/ \E g \in Goals : \/ OnGoal(g) \/ Acquire(g) \/ Report(g)
                      \/ OnCancel(g) \/ CancelAccepted(g) \/ GuardCancels(g)
  \/ Executing
  \/ Press \/ Release \/ OnWrench
  \/ \E m \in DOMAIN motions : Controller(m)

Spec == Init /\ [][Next]_vars

(* Threads run and the controller answers; a motion need not end unless it *)
(* is told to, so that only the guard or a cancel makes it.                *)
OthersFair ==
  /\ \A g \in Goals : /\ WF_vars(Acquire(g)) /\ WF_vars(Report(g))
                      /\ WF_vars(CancelAccepted(g)) /\ WF_vars(GuardCancels(g))
  /\ WF_vars(OnWrench)
  /\ \A m \in 1..MaxMotions :
       /\ WF_vars(m \in DOMAIN motions
                    /\ (ControllerAccepts(m) \/ ControllerRefuses(m)))
       /\ WF_vars(m \in DOMAIN motions /\ motions[m].asked /\ Controller(m))

Fairness == OthersFair /\ WF_vars(Executing)

FairSpec == Spec /\ Fairness

-----------------------------------------------------------------------------
(* Every variable has its type.                                            *)
TypeOK ==
  /\ status \in [Goals -> {"new", "accepted", "running", "finishing"} \cup Ended]
  /\ cancel \in [Goals -> {"no", "stopping", "requested"}]
  /\ success \in [Goals -> BOOLEAN]
  /\ busy \in Goals \cup {NoGoal}
  /\ pc \in {"idle", "check", "plan", "wait", "run"}
  /\ left \in 0..MaxSegments \cup {1}
  /\ motions \in Seq([goal : Goals, asked : BOOLEAN,
                      state : {"sent", "active"} \cup Over])
  /\ handle \in 0..Len(motions)
  /\ guard \in Guarded \cup {NoGoal} /\ pressing \in BOOLEAN
  /\ contact \in [Goals -> BOOLEAN] /\ stopped \in [Goals -> BOOLEAN]
  /\ underway \in [Goals -> 0..MaxThreads]
  /\ sentLate \in [Goals -> Nat]

(* "One motion at a time": while a motion moves the arm, the goal it is    *)
(* for holds the lock, and so no other goal is let in or moves.            *)
MotionIsOwned ==
  \A m \in DOMAIN motions :
    motions[m].state = "active"
      => busy = motions[m].goal /\ pc \in {"wait", "run"}

(* A goal that is reported as reached has been: every motion made for it   *)
(* ended at its end.                                                       *)
SuccessIsTrue ==
  \A m \in DOMAIN motions :
    status[motions[m].goal] = "succeeded" /\ motions[m].goal \notin Guarded
      => motions[m].state = "succeeded"

(* Why these two hold.  The goal that holds the lock is the running one,   *)
(* and the motion it follows is the last that was made ...                 *)
ExecInv ==
  /\ pc = "idle" <=> busy = NoGoal
  /\ \A g \in Goals : status[g] = "running" <=> g = busy
  /\ handle # 0 => pc = "run"
  /\ pc = "run" => handle = Len(motions)
  /\ pc \in {"wait", "run"} => Len(motions) > 0

(* ... a goal has motions only once it runs; while it runs they have all   *)
(* succeeded, except for the one it is waiting for.                        *)
MotionsInv ==
  \A m \in DOMAIN motions :
    LET g == motions[m].goal
    IN  /\ status[g] \notin {"new", "accepted", "rejected"}
        /\ status[g] = "running"
             => \/ motions[m].state = "succeeded"
                \/ m = Len(motions) /\ pc \in {"wait", "run"}
        /\ status[g] = "finishing" /\ success[g] /\ g \notin Guarded
             => motions[m].state = "succeeded"

IInv == TypeOK /\ ExecInv /\ MotionsInv /\ SuccessIsTrue

(* What a cancel guarantees: of a goal whose cancel was accepted, at most    *)
(* the motion that was being planned is still made.                        *)
OneMotionAfterCancel == \A g \in Goals : sentLate[g] <= 1

(* Every accepted goal gets its result, whatever stalls, is late, is       *)
(* cancelled or waits for the lock.                                        *)
EveryGoalAnswered ==
  \A g \in Goals : status[g] = "accepted" ~> status[g] \in Ended

(* A line does not push on: once contact is noted it ends or the contact   *)
(* does, also when it was noted before the controller had accepted the     *)
(* motion, so that nothing could be cancelled yet; and a line whose motion *)
(* the guard has cancelled ends, whether the contact lasts or not.         *)
ContactStops ==
  \A g \in Guarded :
    /\ (contact[g] /\ status[g] = "running") ~> (status[g] # "running" \/ ~pressing)
    /\ (stopped[g] /\ status[g] = "running") ~> status[g] # "running"
=============================================================================
