----------------------- MODULE NavigatorServer_proofs -----------------------
(***************************************************************************)
(* Proofs about NavigatorServer, for any number of goals and motions: what *)
(* is reported as reached has been reached, a cancelled goal makes one     *)
(* more motion at most, and, as long as the controller answers in time and *)
(* no motion stalls, only the goal that holds the lock ever moves the arm. *)
(***************************************************************************)
EXTENDS MCNavigatorServer, TLAPS

Motion == [goal : Goals, asked : BOOLEAN, state : {"sent", "active"} \cup Over]

(* What is known of every motion.                                          *)
LEMMA MotionFacts ==
  ASSUME motions \in Seq(Motion)
  PROVE  /\ DOMAIN motions = 1..Len(motions)
         /\ \A m \in DOMAIN motions : motions[m] \in Motion
         /\ \A m \in DOMAIN motions : motions[m].goal \in Goals
  <1>1. \A m \in DOMAIN motions : motions[m] \in Motion
    OBVIOUS
  <1>. QED
    BY <1>1 DEF Motion

(* Asking a motion to stop changes nothing else about the motions.         *)
LEMMA AskedFacts ==
  ASSUME motions \in Seq(Motion), NEW m \in DOMAIN motions
  PROVE  /\ Asked(m) \in Seq(Motion) /\ Len(Asked(m)) = Len(motions)
         /\ DOMAIN Asked(m) = DOMAIN motions
         /\ \A i \in DOMAIN motions : /\ Asked(m)[i].goal = motions[i].goal
                                      /\ Asked(m)[i].state = motions[i].state
  <1>. DEFINE new == [motions[m] EXCEPT !.asked = TRUE]
  <1>1. Asked(m) = [motions EXCEPT ![m] = new]
    BY DEF Asked
  <1>2. motions[m] \in Motion
    OBVIOUS
  <1>3. new \in Motion /\ new.goal = motions[m].goal
                       /\ new.state = motions[m].state
    BY <1>2 DEF Motion
  <1>. HIDE DEF new
  <1>. QED
    BY <1>1, <1>3

(* What CancelMotion leaves alone, whatever is being followed.             *)
LEMMA CancelMotionFacts ==
  ASSUME TypeOK, CancelMotion
  PROVE  /\ motions' \in Seq(Motion) /\ Len(motions') = Len(motions)
         /\ DOMAIN motions' = DOMAIN motions
         /\ \A i \in DOMAIN motions : /\ motions'[i].goal = motions[i].goal
                                      /\ motions'[i].state = motions[i].state
  <1>1. motions \in Seq(Motion) /\ handle \in 0..Len(motions)
    BY DEF TypeOK, Motion
  <1>2. handle # 0 => handle \in DOMAIN motions
    BY <1>1
  <1>. QED
    BY <1>1, <1>2, AskedFacts DEF CancelMotion

(* What the controller does to one motion, or to two when a newer one      *)
(* replaces the one that was active.                                       *)
LEMMA ControllerFacts ==
  ASSUME TypeOK, NEW m \in DOMAIN motions, Controller(m)
  PROVE  /\ motions' \in Seq(Motion) /\ Len(motions') = Len(motions)
         /\ DOMAIN motions' = DOMAIN motions
         /\ \A i \in DOMAIN motions :
              /\ motions'[i].goal = motions[i].goal
              /\ motions[i].state \in Over => motions'[i].state = motions[i].state
              /\ motions'[i].state \in {"sent", "active"}
                   => motions[i].state \in {"sent", "active"}
         /\ UNCHANGED <<goalVars, execVars, guardVars, sentLate>>
  <1>1. motions \in Seq(Motion) /\ DOMAIN motions = 1..Len(motions)
    BY DEF TypeOK, Motion
  <1>2. \A i \in 1..Len(motions) : motions[i] \in Motion
    BY <1>1
  <1>3. /\ DOMAIN motions' = 1..Len(motions)
        /\ motions' = [i \in 1..Len(motions) |-> motions'[i]]
        /\ \A i \in 1..Len(motions) :
             /\ motions'[i] \in Motion
             /\ motions'[i].goal = motions[i].goal
             /\ motions[i].state \in Over => motions'[i].state = motions[i].state
             /\ motions'[i].state \in {"sent", "active"}
                  => motions[i].state \in {"sent", "active"}
    <2>1. CASE ControllerAccepts(m)
      BY <1>1, <1>2, <2>1 DEF ControllerAccepts, Motion, Over
    <2>2. CASE ControllerRefuses(m)
      BY <1>1, <1>2, <2>2 DEF ControllerRefuses, Motion, Over
    <2>3. ASSUME NEW o \in {"succeeded", "aborted", "canceled"},
                 ControllerEnds(m, o)
          PROVE  <1>3!1 /\ <1>3!2 /\ <1>3!3
      BY <1>1, <1>2, <2>3 DEF ControllerEnds, Motion, Over
    <2>. QED
      BY <2>1, <2>2, <2>3 DEF Controller
  <1>4. UNCHANGED <<goalVars, execVars, guardVars, sentLate>>
    BY DEF Controller, ControllerAccepts, ControllerRefuses, ControllerEnds
  <1>. QED
    BY <1>1, <1>3, <1>4

(* The end of a goal's work keeps the types of what it touches.            *)
LEMMA FinishFacts ==
  ASSUME TypeOK, busy # NoGoal, NEW ok \in BOOLEAN, Finish(ok)
  PROVE  /\ busy \in Goals
         /\ success' \in [Goals -> BOOLEAN]
         /\ status' = [status EXCEPT ![busy] = "finishing"]
         /\ status' \in [Goals -> {"new", "accepted", "running", "finishing"}
                                    \cup Ended]
         /\ \A g \in Goals \ {busy} : success'[g] = success[g]
         /\ success'[busy] /\ busy \notin Guarded => ok
         /\ busy' = NoGoal /\ pc' = "idle" /\ left' = 0 /\ handle' = 0
         /\ guard' = NoGoal
  <1>1. busy \in Goals
    BY DEF TypeOK
  <1>2. /\ OwnOutcome(ok) \in BOOLEAN
        /\ OwnOutcome(ok) /\ busy \notin Guarded => ok
    <2>1. CASE busy \in Guarded
      BY <1>1, <2>1, NavigatorAssumption DEF OwnOutcome, TypeOK, Goals
    <2>2. CASE busy \in Paths
      BY <1>1, <2>2, NavigatorAssumption DEF OwnOutcome, TypeOK, Goals
    <2>3. CASE busy \notin Guarded /\ busy \notin Paths
      BY <2>3 DEF OwnOutcome
    <2>. QED
      BY <2>1, <2>2, <2>3
  <1>. QED
    BY <1>1, <1>2 DEF Finish, TypeOK

-----------------------------------------------------------------------------
(* The inductive invariant.                                                *)

(* It holds initially.                                                     *)
THEOREM InitIInv == Init => IInv
  <1>. SUFFICES ASSUME Init PROVE IInv
    OBVIOUS
  <1>1. motions = <<>> /\ DOMAIN motions = {}
    BY DEF Init
  <1>2. TypeOK
    <2>1. MaxThreads \in Nat /\ MaxSegments \in Nat
      BY NavigatorAssumption
    <2>2. motions \in Seq(Motion) /\ Len(motions) = 0
      BY <1>1
    <2>3. /\ status \in [Goals -> {"new", "accepted", "running", "finishing"}
                                   \cup Ended]
          /\ cancel \in [Goals -> {"no", "stopping", "requested"}]
          /\ success \in [Goals -> BOOLEAN] /\ contact \in [Goals -> BOOLEAN]
          /\ stopped \in [Goals -> BOOLEAN]
      BY DEF Init
    <2>4. underway \in [Goals -> 0..MaxThreads] /\ sentLate \in [Goals -> Nat]
      BY <2>1 DEF Init
    <2>5. /\ busy \in Goals \cup {NoGoal} /\ guard \in Guarded \cup {NoGoal}
          /\ pc \in {"idle", "check", "plan", "wait", "run"} /\ pressing \in BOOLEAN
          /\ left = 0 /\ handle = 0
      BY DEF Init
    <2>6. left \in 0..MaxSegments /\ handle \in 0..Len(motions)
      BY <2>1, <2>2, <2>5
    <2>. QED
      BY <2>2, <2>3, <2>4, <2>5, <2>6 DEF TypeOK, Motion
  <1>3. ExecInv
    BY NavigatorAssumption DEF Init, ExecInv
  <1>. QED
    BY <1>1, <1>2, <1>3 DEF IInv, MotionsInv, SuccessIsTrue

(* The end of a goal's work, once it is known which of its motions have    *)
(* succeeded.                                                              *)
LEMMA FinishKeeps ==
  ASSUME IInv, busy # NoGoal, NEW ok \in BOOLEAN, Finish(ok),
         ok => \A m \in DOMAIN motions :
                 motions[m].goal = busy => motions[m].state = "succeeded",
         motions' \in Seq(Motion), DOMAIN motions' = DOMAIN motions,
         \A m \in DOMAIN motions : /\ motions'[m].goal = motions[m].goal
                                   /\ motions'[m].state = motions[m].state,
         UNCHANGED <<cancel, contact, stopped, pressing, underway>>,
         sentLate' \in [Goals -> Nat]
  PROVE  IInv'
  <1>1. TypeOK /\ busy \in Goals /\ motions \in Seq(Motion)
    BY FinishFacts DEF IInv, TypeOK, Motion
  <1>2. TypeOK'
    BY <1>1, FinishFacts, NavigatorAssumption DEF TypeOK, Motion
  <1>3. \A g \in Goals : status'[g] = IF g = busy THEN "finishing" ELSE status[g]
    BY <1>1, FinishFacts DEF TypeOK
  <1>4. ExecInv'
    BY <1>1, <1>3, FinishFacts, NavigatorAssumption DEF IInv, ExecInv
  <1>5. \A m \in DOMAIN motions : motions[m].goal \in Goals
    BY <1>1, MotionFacts
  <1>6. MotionsInv'
    <2>. SUFFICES ASSUME NEW m \in DOMAIN motions
         PROVE  LET g == motions[m].goal
                IN  /\ status'[g] \notin {"new", "accepted", "rejected"}
                    /\ status'[g] # "running"
                    /\ status'[g] = "finishing" /\ success'[g] /\ g \notin Guarded
                         => motions[m].state = "succeeded"
      BY DEF MotionsInv
    <2>1. CASE motions[m].goal = busy
      BY <1>1, <1>3, <2>1, FinishFacts
    <2>2. CASE motions[m].goal # busy
      BY <1>1, <1>3, <1>5, <2>2, FinishFacts DEF IInv, ExecInv, MotionsInv
    <2>. QED
      BY <2>1, <2>2
  <1>7. SuccessIsTrue'
    BY <1>3, <1>5 DEF IInv, SuccessIsTrue
  <1>. QED
    BY <1>2, <1>4, <1>6, <1>7 DEF IInv

(* The callbacks of the server.                                            *)
LEMMA CallbacksKeep ==
  ASSUME IInv, NEW g \in Goals,
         \/ OnGoal(g) \/ Acquire(g) \/ Report(g)
         \/ OnCancel(g) \/ CancelAccepted(g) \/ GuardCancels(g)
  PROVE  IInv'
  <1>1. /\ TypeOK /\ ExecInv /\ MotionsInv /\ SuccessIsTrue
        /\ motions \in Seq(Motion)
        /\ \A m \in DOMAIN motions : motions[m].goal \in Goals
    BY MotionFacts DEF IInv, TypeOK, Motion
  <1>2. CASE OnGoal(g)
    <2>1. TypeOK'
      BY <1>1, <1>2 DEF OnGoal, TypeOK, execVars, guardVars, Ended
    <2>2. ExecInv'
      BY <1>1, <1>2 DEF OnGoal, TypeOK, ExecInv, execVars
    <2>3. MotionsInv' /\ SuccessIsTrue'
      BY <1>1, <1>2 DEF OnGoal, TypeOK, MotionsInv, SuccessIsTrue, execVars
    <2>. QED
      BY <2>1, <2>2, <2>3 DEF IInv
  <1>3. CASE Acquire(g)
    <2>1. /\ left' \in 0..MaxSegments \cup {1} /\ pc' \in {"check", "plan"}
          /\ status' = [status EXCEPT ![g] = "running"]
          /\ busy = NoGoal /\ busy' = g /\ handle' = handle
          /\ UNCHANGED <<cancel, success, contact, stopped, underway, motions,
                         sentLate>>
      BY <1>3 DEF Acquire
    <2>2. guard' \in Guarded \cup {NoGoal} /\ pressing' \in BOOLEAN
      BY <1>1, <1>3 DEF Acquire, TypeOK
    <2>3. TypeOK'
      BY <1>1, <2>1, <2>2 DEF TypeOK
    <2>4. ExecInv'
      BY <1>1, <2>1, NavigatorAssumption DEF TypeOK, ExecInv
    <2>5. MotionsInv' /\ SuccessIsTrue'
      BY <1>1, <1>3, <2>1, NavigatorAssumption
         DEF Acquire, TypeOK, ExecInv, MotionsInv, SuccessIsTrue
    <2>. QED
      BY <2>3, <2>4, <2>5 DEF IInv
  <1>4. CASE Report(g)
    <2>1. TypeOK'
      BY <1>1, <1>4 DEF Report, TypeOK, execVars, guardVars, Ended
    <2>2. ExecInv'
      BY <1>1, <1>4 DEF Report, TypeOK, ExecInv, execVars
    <2>3. MotionsInv' /\ SuccessIsTrue'
      BY <1>1, <1>4 DEF Report, TypeOK, MotionsInv, SuccessIsTrue, execVars
    <2>. QED
      BY <2>1, <2>2, <2>3 DEF IInv
  <1>5. CASE OnCancel(g) \/ GuardCancels(g)
    <2>1. /\ motions' \in Seq(Motion) /\ Len(motions') = Len(motions)
          /\ DOMAIN motions' = DOMAIN motions
          /\ \A i \in DOMAIN motions : /\ motions'[i].goal = motions[i].goal
                                       /\ motions'[i].state = motions[i].state
      BY <1>1, <1>5, CancelMotionFacts DEF OnCancel, GuardCancels
    <2>2. UNCHANGED <<status, success, execVars, guard, contact, pressing, sentLate>>
      BY <1>5 DEF OnCancel, GuardCancels, guardVars, goalVars
    <2>3. /\ cancel' \in [Goals -> {"no", "stopping", "requested"}]
          /\ stopped' \in [Goals -> BOOLEAN] /\ underway' \in [Goals -> 0..MaxThreads]
      <3>1. CASE OnCancel(g)
        BY <1>1, <3>1 DEF OnCancel, TypeOK, guardVars
      <3>2. CASE GuardCancels(g)
        BY <1>1, <3>2, NavigatorAssumption DEF GuardCancels, TypeOK, goalVars
      <3>. QED
        BY <1>5, <3>1, <3>2
    <2>4. TypeOK'
      BY <1>1, <2>1, <2>2, <2>3 DEF TypeOK, execVars, Motion
    <2>6. ExecInv'
      BY <1>1, <2>1, <2>2 DEF ExecInv, execVars
    <2>7. MotionsInv' /\ SuccessIsTrue'
      BY <1>1, <2>1, <2>2 DEF MotionsInv, SuccessIsTrue, execVars
    <2>. QED
      BY <2>4, <2>6, <2>7 DEF IInv
  <1>6. CASE CancelAccepted(g)
    BY <1>1, <1>6 DEF CancelAccepted, IInv, TypeOK, ExecInv, MotionsInv,
                      SuccessIsTrue, execVars, guardVars
  <1>. QED
    BY <1>2, <1>3, <1>4, <1>5, <1>6

(* The goal that holds the lock.                                           *)
LEMMA ExecutingKeeps ==
  ASSUME IInv, Executing
  PROVE  IInv'
  <1>1. /\ TypeOK /\ ExecInv /\ MotionsInv /\ SuccessIsTrue
        /\ motions \in Seq(Motion) /\ DOMAIN motions = 1..Len(motions)
        /\ \A m \in DOMAIN motions : motions[m].goal \in Goals
        /\ sentLate \in [Goals -> Nat]
    BY MotionFacts DEF IInv, TypeOK, Motion
  <1>2. pc # "idle" => busy # NoGoal /\ busy \in Goals /\ status[busy] = "running"
    BY <1>1 DEF ExecInv, TypeOK
  <1>3. pc \in {"check", "plan"}
          => \A m \in DOMAIN motions :
               motions[m].goal = busy => motions[m].state = "succeeded"
    BY <1>1, <1>2 DEF MotionsInv
  <1>4. CASE CheckStop
    <2>1. CASE left = 0 \/ cancel[busy] = "requested"
      <3>1. (left = 0) \in BOOLEAN /\ Finish(left = 0)
            /\ UNCHANGED <<cancel, contact, stopped, pressing, underway, motions,
                           sentLate>> /\ pc = "check"
        BY <1>4, <2>1 DEF CheckStop
      <3>. QED
        BY <1>1, <1>2, <1>3, <3>1, FinishKeeps
    <2>2. CASE ~(left = 0 \/ cancel[busy] = "requested")
      BY <1>1, <1>2, <1>4, <2>2
         DEF CheckStop, IInv, TypeOK, ExecInv, MotionsInv, SuccessIsTrue
    <2>. QED
      BY <2>1, <2>2
  <1>5. CASE NoPlan
    BY <1>1, <1>2, <1>5, FinishKeeps DEF NoPlan
  <1>6. CASE SendMotion
    <2>. DEFINE sent == [goal |-> busy, state |-> "sent", asked |-> FALSE]
    <2>1. sent \in Motion /\ sent.goal = busy /\ sent.state = "sent"
      BY <1>2, <1>6 DEF SendMotion, Motion
    <2>2. motions' = Append(motions, sent) /\ pc = "plan" /\ pc' = "wait"
          /\ UNCHANGED <<goalVars, busy, left, handle, guardVars>>
      BY <1>6 DEF SendMotion
    <2>. HIDE DEF sent
    <2>3. /\ motions' \in Seq(Motion) /\ Len(motions') = Len(motions) + 1
          /\ DOMAIN motions' = 1..Len(motions) + 1
          /\ \A m \in 1..Len(motions) : motions'[m] = motions[m]
          /\ motions'[Len(motions) + 1] = sent
      BY <1>1, <2>1, <2>2
    <2>4. sentLate' \in [Goals -> Nat]
      BY <1>1, <1>2, <1>6 DEF SendMotion
    <2>5. TypeOK'
      BY <1>1, <2>2, <2>3, <2>4 DEF TypeOK, Motion, goalVars, guardVars
    <2>6. ExecInv'
      BY <1>1, <2>2, <2>3 DEF ExecInv, goalVars
    <2>7. MotionsInv' /\ SuccessIsTrue'
      <3>. SUFFICES ASSUME NEW m \in 1..Len(motions) + 1
           PROVE  LET g == motions'[m].goal
                  IN  /\ status[g] \notin {"new", "accepted", "rejected"}
                      /\ status[g] = "running"
                           => \/ motions'[m].state = "succeeded"
                              \/ m = Len(motions) + 1
                      /\ status[g] = "finishing" /\ success[g] /\ g \notin Guarded
                           => motions'[m].state = "succeeded"
                      /\ status[g] = "succeeded" /\ g \notin Guarded
                           => motions'[m].state = "succeeded"
        BY <2>2, <2>3 DEF MotionsInv, SuccessIsTrue, goalVars
      <3>1. CASE m = Len(motions) + 1
        BY <1>2, <2>1, <2>2, <2>3, <3>1
      <3>2. CASE m \in 1..Len(motions)
        BY <1>1, <2>2, <2>3, <3>2 DEF MotionsInv, SuccessIsTrue
      <3>. QED
        BY <1>1, <3>1, <3>2
    <2>. QED
      BY <2>5, <2>6, <2>7 DEF IInv
  <1>7. CASE Accepted
    BY <1>1, <1>2, <1>7 DEF Accepted, IInv, TypeOK, ExecInv, MotionsInv,
                            SuccessIsTrue, goalVars, guardVars
  <1>8. CASE NotAccepted
    BY <1>1, <1>2, <1>8, FinishKeeps DEF NotAccepted
  <1>9. CASE MotionDone
    <2>1. CASE motions[handle].state = "succeeded" /\ left > 1
      BY <1>1, <1>2, <1>9, <2>1, NavigatorAssumption
         DEF MotionDone, IInv, TypeOK, ExecInv, MotionsInv, SuccessIsTrue
    <2>2. CASE ~(motions[handle].state = "succeeded" /\ left > 1)
      <3>1. pc = "run" /\ Finish(motions[handle].state = "succeeded")
            /\ UNCHANGED <<cancel, contact, stopped, pressing, underway, motions,
                           sentLate>>
        BY <1>9, <2>2 DEF MotionDone
      <3>2. motions[handle].state = "succeeded"
              => \A m \in DOMAIN motions :
                   motions[m].goal = busy => motions[m].state = "succeeded"
        BY <1>1, <1>2, <3>1 DEF MotionsInv, ExecInv
      <3>. QED
        BY <1>1, <1>2, <3>1, <3>2, FinishKeeps
    <2>. QED
      BY <2>1, <2>2
  <1>10. CASE GiveUp
    <2>1. /\ pc = "run" /\ motions' = Asked(handle) /\ Finish(FALSE)
          /\ UNCHANGED <<cancel, contact, stopped, pressing, underway, sentLate>>
      BY <1>10 DEF GiveUp
    <2>2. handle = Len(motions) /\ Len(motions) \in Nat /\ Len(motions) > 0
      BY <1>1, <2>1 DEF ExecInv
    <2>3. handle \in DOMAIN motions
      BY <1>1, <2>2
    <2>. QED
      BY <1>1, <1>2, <2>1, <2>3, AskedFacts, FinishKeeps
  <1>. QED
    BY <1>4, <1>5, <1>6, <1>7, <1>8, <1>9, <1>10 DEF Executing
(* It is kept by every step.                                               *)
THEOREM NextIInv == IInv /\ [Next]_vars => IInv'
  <1>. SUFFICES ASSUME IInv, [Next]_vars PROVE IInv'
    OBVIOUS
  <1>1. /\ TypeOK /\ ExecInv /\ MotionsInv /\ SuccessIsTrue
        /\ motions \in Seq(Motion)
        /\ \A m \in DOMAIN motions : motions[m].goal \in Goals
    BY MotionFacts DEF IInv, TypeOK, Motion
  <1>2. CASE UNCHANGED vars
    BY <1>1, <1>2 DEF IInv, TypeOK, ExecInv, MotionsInv, SuccessIsTrue, vars,
                      goalVars, execVars, guardVars
  <1>3. CASE Press \/ Release \/ OnWrench
    <2>1. UNCHANGED <<status, success, busy, pc, left, handle, motions, cancel,
                     guard, stopped, sentLate>>
      BY <1>3 DEF Press, Release, Touch, OnWrench, goalVars, execVars
    <2>2. /\ pressing' \in BOOLEAN /\ contact' \in [Goals -> BOOLEAN]
          /\ underway' \in [Goals -> 0..MaxThreads]
      <3>1. CASE Press \/ Release
        BY <1>1, <3>1 DEF Press, Release, Touch, TypeOK
      <3>2. CASE OnWrench
        <4>1. guard \in Goals /\ MaxThreads \in Nat /\ underway[guard] < MaxThreads
          BY <1>1, <3>2, NavigatorAssumption DEF OnWrench, TypeOK, Goals
        <4>2. underway[guard] + 1 \in 0..MaxThreads
          BY <1>1, <4>1 DEF TypeOK
        <4>. QED
          BY <1>1, <3>2, <4>1, <4>2 DEF OnWrench, TypeOK
      <3>. QED
        BY <1>3, <3>1, <3>2
    <2>3. TypeOK'
      BY <1>1, <2>1, <2>2 DEF TypeOK
    <2>. QED
      BY <1>1, <2>1, <2>3 DEF IInv, ExecInv, MotionsInv, SuccessIsTrue
  <1>4. ASSUME NEW m \in DOMAIN motions, Controller(m) PROVE IInv'
    <2>1. /\ motions' \in Seq(Motion) /\ Len(motions') = Len(motions)
          /\ DOMAIN motions' = DOMAIN motions
          /\ \A i \in DOMAIN motions :
               /\ motions'[i].goal = motions[i].goal
               /\ motions[i].state = "succeeded" => motions'[i].state = "succeeded"
          /\ UNCHANGED <<goalVars, execVars, guardVars, sentLate>>
      BY <1>1, <1>4, ControllerFacts DEF Over
    <2>2. TypeOK'
      BY <1>1, <2>1 DEF TypeOK, goalVars, execVars, guardVars, Motion
    <2>3. ExecInv'
      BY <1>1, <2>1 DEF ExecInv, goalVars, execVars
    <2>4. MotionsInv' /\ SuccessIsTrue'
      BY <1>1, <2>1 DEF MotionsInv, SuccessIsTrue, goalVars, execVars
    <2>. QED
      BY <2>2, <2>3, <2>4 DEF IInv
  <1>. QED
    BY <1>2, <1>3, <1>4, CallbacksKeep, ExecutingKeeps DEF Next

(* The invariant holds in every reachable state - also where motions       *)
(* stall, are answered late, are cancelled or preempted.                   *)
THEOREM Invariance == Spec => []IInv
  BY InitIInv, NextIInv, PTL DEF Spec

(* The state of goals, lock, guard and motions always has its types.       *)
THEOREM TypeCorrect == Spec => []TypeOK
  <1>1. IInv => TypeOK
    BY DEF IInv
  <1>. QED
    BY <1>1, Invariance, PTL

(* A navigate_to_node goal (or an unguarded line) that is reported as      *)
(* succeeded has made its every motion to the end.                         *)
THEOREM TruthfulSuccess == Spec => []SuccessIsTrue
  <1>1. IInv => SuccessIsTrue
    BY DEF IInv
  <1>. QED
    BY <1>1, Invariance, PTL

-----------------------------------------------------------------------------
(* What a cancel guarantees.                                               *)

(* A motion can only be made after the cancel was accepted if it was being *)
(* planned then; no other is planned after it.                             *)
LateInv ==
  \A g \in Goals :
    /\ sentLate[g] \in {0, 1}
    /\ sentLate[g] = 1 => /\ cancel[g] = "requested"
                          /\ status[g] \notin {"new", "accepted"}
                          /\ ~(busy = g /\ pc = "plan")

(* LateInv is kept by every step.                                          *)
LEMMA NextLateInv ==
  ASSUME IInv, LateInv, [Next]_vars
  PROVE  LateInv'
  <1>. USE DEF LateInv
  <1>1. /\ TypeOK /\ ExecInv
        /\ cancel \in [Goals -> {"no", "stopping", "requested"}]
        /\ status \in [Goals -> {"new", "accepted", "running", "finishing"}
                                  \cup Ended]
        /\ sentLate \in [Goals -> Nat]
    BY DEF IInv, TypeOK
  <1>2. pc # "idle" => busy # NoGoal /\ busy \in Goals /\ status[busy] = "running"
    BY <1>1 DEF ExecInv, TypeOK
  <1>3. ASSUME NEW ok \in BOOLEAN, pc # "idle", Finish(ok),
               UNCHANGED <<cancel, sentLate>>
        PROVE  LateInv'
    <2>1. status' = [status EXCEPT ![busy] = "finishing"] /\ busy' = NoGoal
      BY <1>3 DEF Finish
    <2>. QED
      BY <1>1, <1>2, <1>3, <2>1, NavigatorAssumption
  <1>4. CASE UNCHANGED vars
    BY <1>4 DEF vars, goalVars, execVars
  <1>5. CASE Press \/ Release \/ OnWrench
    BY <1>5 DEF Press, Release, Touch, OnWrench, goalVars, execVars
  <1>6. ASSUME NEW m \in DOMAIN motions, Controller(m) PROVE LateInv'
    BY <1>1, <1>6, ControllerFacts DEF goalVars, execVars
  <1>7. ASSUME NEW g \in Goals, OnGoal(g) PROVE LateInv'
    BY <1>1, <1>7 DEF OnGoal, execVars
  <1>8. ASSUME NEW g \in Goals, Report(g) PROVE LateInv'
    BY <1>1, <1>8 DEF Report, execVars
  <1>9. ASSUME NEW g \in Goals, CancelAccepted(g) PROVE LateInv'
    BY <1>1, <1>9 DEF CancelAccepted, execVars
  <1>10. ASSUME NEW g \in Goals, OnCancel(g) PROVE LateInv'
    BY <1>1, <1>10 DEF OnCancel, execVars
  <1>11. ASSUME NEW g \in Goals, GuardCancels(g) PROVE LateInv'
    BY <1>11 DEF GuardCancels, execVars, goalVars
  <1>12. ASSUME NEW g \in Goals, Acquire(g) PROVE LateInv'
    <2>1. /\ status[g] = "accepted" /\ status' = [status EXCEPT ![g] = "running"]
          /\ busy' = g /\ UNCHANGED <<cancel, sentLate>>
      BY <1>12 DEF Acquire
    <2>. QED
      BY <1>1, <2>1
  <1>13. CASE CheckStop
    <2>1. CASE left = 0 \/ cancel[busy] = "requested"
      BY <1>3, <1>13, <2>1 DEF CheckStop
    <2>2. CASE ~(left = 0 \/ cancel[busy] = "requested")
      BY <1>2, <1>13, <2>2 DEF CheckStop
    <2>. QED
      BY <2>1, <2>2
  <1>14. CASE NoPlan
    BY <1>3, <1>14 DEF NoPlan
  <1>15. CASE SendMotion
    <2>1. /\ pc = "plan" /\ pc' = "wait" /\ UNCHANGED <<goalVars, busy>>
          /\ sentLate' = IF cancel[busy] = "requested"
                           THEN [sentLate EXCEPT ![busy] = @ + 1] ELSE sentLate
      BY <1>15 DEF SendMotion
    <2>2. sentLate[busy] = 0
      BY <1>2, <2>1
    <2>3. \A g \in Goals : sentLate'[g] # sentLate[g] =>
            g = busy /\ sentLate'[g] = 1 /\ cancel[g] = "requested"
      BY <1>1, <1>2, <2>1, <2>2
    <2>. QED
      BY <1>2, <2>1, <2>3 DEF goalVars
  <1>16. CASE Accepted
    BY <1>16 DEF Accepted, goalVars
  <1>17. CASE NotAccepted
    BY <1>3, <1>17 DEF NotAccepted
  <1>18. CASE MotionDone
    <2>1. CASE motions[handle].state = "succeeded" /\ left > 1
      BY <1>18, <2>1 DEF MotionDone
    <2>2. CASE ~(motions[handle].state = "succeeded" /\ left > 1)
      BY <1>3, <1>18, <2>2 DEF MotionDone
    <2>. QED
      BY <2>1, <2>2
  <1>19. CASE GiveUp
    BY <1>3, <1>19 DEF GiveUp
  <1>. QED
    BY <1>4, <1>5, <1>6, <1>7, <1>8, <1>9, <1>10, <1>11, <1>12, <1>13, <1>14,
       <1>15, <1>16, <1>17, <1>18, <1>19 DEF Next, Executing

(* Of a goal whose cancel was accepted, at most the motion that was being  *)
(* planned is still made, however many motions the path has left.          *)
THEOREM CancelEndsMotions == Spec => []OneMotionAfterCancel
  <1>1. Init => LateInv
    BY DEF Init, LateInv
  <1>2. LateInv => OneMotionAfterCancel
    BY DEF LateInv, OneMotionAfterCancel
  <1>. QED
    BY <1>1, <1>2, NextLateInv, Invariance, PTL DEF Spec

-----------------------------------------------------------------------------
(* One motion at a time.                                                   *)

(* A controller that answers in time and finishes what it begins has only  *)
(* ever one motion that is not over: the one the lock's holder waits for.  *)
OneLive ==
  \A m \in DOMAIN motions :
    motions[m].state \in {"sent", "active"}
      => m = Len(motions) /\ busy = motions[m].goal /\ pc \in {"wait", "run"}

(* Where nothing is live, Finish may give the lock away.                   *)
LEMMA NothingLive ==
  ASSUME IInv, OneLive,
         pc \notin {"wait", "run"} \/ motions[Len(motions)].state \in Over,
         NEW m \in DOMAIN motions
  PROVE  motions[m].state \notin {"sent", "active"}
  BY DEF OneLive, Over

(* The steps where the controller answers in time and no motion stalls.    *)
RefusedMotion == NotAccepted /\ motions[Len(motions)].state = "refused"

TimelyNext ==
  \/ \E g \in Goals : \/ OnGoal(g) \/ Acquire(g) \/ Report(g)
                      \/ OnCancel(g) \/ CancelAccepted(g) \/ GuardCancels(g)
  \/ CheckStop \/ NoPlan \/ SendMotion \/ Accepted \/ RefusedMotion \/ MotionDone
  \/ Press \/ Release \/ OnWrench
  \/ \E m \in DOMAIN motions : Controller(m)

(* They are steps of the navigator; and all of them, if it is always so.   *)
LEMMA TimelyIsNext == TimelyNext => Next
  BY DEF TimelyNext, Next, Executing, RefusedMotion

LEMMA NextIsTimely ==
  ASSUME ~MayStall, ~MayBeLate
  PROVE  Next => TimelyNext
  BY DEF TimelyNext, Next, Executing, RefusedMotion, NotAccepted, GiveUp

(* OneLive is kept by all of them.                                         *)
THEOREM NextOneLive ==
  ASSUME IInv, OneLive, [TimelyNext]_vars
  PROVE  OneLive'
  <1>1. /\ TypeOK /\ ExecInv /\ motions \in Seq(Motion)
        /\ DOMAIN motions = 1..Len(motions)
        /\ \A m \in DOMAIN motions : motions[m].goal \in Goals
    BY MotionFacts DEF IInv, TypeOK, Motion
  <1>2. CASE UNCHANGED vars
    BY <1>2 DEF OneLive, vars, execVars
  <1>3. CASE Press \/ Release \/ OnWrench
    BY <1>3 DEF Press, Release, Touch, OnWrench, OneLive, execVars
  <1>4. ASSUME NEW m \in DOMAIN motions, Controller(m) PROVE OneLive'
    BY <1>1, <1>4, ControllerFacts DEF OneLive, execVars
  <1>5. ASSUME NEW g \in Goals,
               OnGoal(g) \/ Report(g) \/ CancelAccepted(g)
        PROVE  OneLive'
    BY <1>5 DEF OnGoal, Report, CancelAccepted, OneLive, execVars
  <1>6. ASSUME NEW g \in Goals, OnCancel(g) \/ GuardCancels(g) PROVE OneLive'
    <2>1. CancelMotion /\ UNCHANGED execVars
      BY <1>6 DEF OnCancel, GuardCancels
    <2>. QED
      BY <1>1, <2>1, CancelMotionFacts DEF OneLive, execVars
  <1>7. ASSUME NEW g \in Goals, Acquire(g) PROVE OneLive'
    <2>1. pc = "idle" /\ UNCHANGED motions
      BY <1>1, <1>7 DEF Acquire, ExecInv
    <2>. QED
      BY <2>1, NothingLive DEF OneLive
  <1>8. CASE CheckStop \/ NoPlan
    <2>1. pc \notin {"wait", "run"} /\ UNCHANGED motions
      BY <1>8 DEF CheckStop, NoPlan
    <2>. QED
      BY <2>1, NothingLive DEF OneLive
  <1>9. CASE SendMotion
    <2>. DEFINE sent == [goal |-> busy, state |-> "sent", asked |-> FALSE]
    <2>1. /\ motions' = Append(motions, sent) /\ pc = "plan" /\ pc' = "wait"
          /\ busy' = busy /\ busy \in Goals /\ sent \in Motion /\ sent.goal = busy
      BY <1>1, <1>9 DEF SendMotion, ExecInv, TypeOK, Motion
    <2>. HIDE DEF sent
    <2>2. /\ DOMAIN motions' = 1..Len(motions) + 1 /\ Len(motions') = Len(motions) + 1
          /\ \A m \in 1..Len(motions) : motions'[m] = motions[m]
          /\ motions'[Len(motions) + 1] = sent
      BY <1>1, <2>1
    <2>3. \A m \in 1..Len(motions) : motions'[m].state \notin {"sent", "active"}
      BY <1>1, <2>1, <2>2, NothingLive
    <2>. QED
      BY <1>1, <2>1, <2>2, <2>3 DEF OneLive
  <1>10. CASE Accepted
    BY <1>10 DEF Accepted, OneLive
  <1>11. CASE RefusedMotion
    <2>1. motions[Len(motions)].state \in Over /\ UNCHANGED motions
      BY <1>11 DEF RefusedMotion, NotAccepted, Over
    <2>. QED
      BY <2>1, NothingLive DEF OneLive
  <1>12. CASE MotionDone
    <2>1. motions[Len(motions)].state \in Over /\ UNCHANGED motions
      BY <1>1, <1>12 DEF MotionDone, ExecInv
    <2>. QED
      BY <2>1, NothingLive DEF OneLive
  <1>. QED
    BY <1>2, <1>3, <1>4, <1>5, <1>6, <1>7, <1>8, <1>9, <1>10, <1>11, <1>12
       DEF TimelyNext

(* "One motion at a time": only the goal that holds the lock moves the arm, *)
(* provided the controller answers within 5 s and no motion stalls.         *)
THEOREM OneMotionAtATime ==
  ASSUME ~MayStall, ~MayBeLate
  PROVE  Spec => []MotionIsOwned
  <1>1. Init => OneLive
    BY DEF Init, OneLive
  <1>2. IInv /\ OneLive /\ [Next]_vars => OneLive'
    BY NextOneLive, NextIsTimely
  <1>3. OneLive => MotionIsOwned
    BY DEF OneLive, MotionIsOwned
  <1>. QED
    BY <1>1, <1>2, <1>3, Invariance, PTL DEF Spec

-----------------------------------------------------------------------------
(* The instances for TLC, of any size.                                     *)

(* Without stalls and late answers, NavigatorServer takes timely steps:    *)
(* its definitions are those of this module, but for two disjuncts.        *)
LEMMA TimelySteps == Timely!Next => TimelyNext
  <1>. USE DEF Timely!goalVars, Timely!execVars, Timely!guardVars, Timely!Goals,
               Timely!Ended, Timely!Over, goalVars, execVars, guardVars, Goals,
               Ended, Over
  <1>1. ASSUME NEW ok PROVE Timely!Finish(ok) <=> Finish(ok)
    BY DEF Timely!Finish, Timely!OwnOutcome, Finish, OwnOutcome
  <1>3. Timely!CancelMotion <=> CancelMotion
    BY DEF Timely!CancelMotion, Timely!Asked, CancelMotion, Asked
  <1>4. ASSUME NEW g \in Goals
        PROVE  /\ Timely!OnGoal(g) <=> OnGoal(g)
               /\ Timely!Acquire(g) <=> Acquire(g)
               /\ Timely!Report(g) <=> Report(g)
               /\ Timely!OnCancel(g) <=> OnCancel(g)
               /\ Timely!CancelAccepted(g) <=> CancelAccepted(g)
               /\ Timely!GuardCancels(g) <=> GuardCancels(g)
    BY <1>3 DEF Timely!OnGoal, OnGoal, Timely!Acquire, Acquire, Timely!Report, Report,
                Timely!OnCancel, OnCancel, Timely!CancelAccepted, CancelAccepted,
                Timely!GuardCancels, GuardCancels
  <1>5. ASSUME NEW m
        PROVE  Timely!Controller(m) <=> Controller(m)
    BY DEF Timely!Controller, Timely!ControllerAccepts, Timely!ControllerRefuses,
           Timely!ControllerEnds, Controller, ControllerAccepts, ControllerRefuses,
           ControllerEnds
  <1>6. /\ Timely!Press <=> Press
        /\ Timely!Release <=> Release
        /\ Timely!OnWrench <=> OnWrench
    BY DEF Timely!Press, Press, Timely!Release, Release, Timely!Touch, Touch,
           Timely!OnWrench, OnWrench
  <1>7. /\ Timely!CheckStop <=> CheckStop
        /\ Timely!NoPlan <=> NoPlan
        /\ Timely!SendMotion <=> SendMotion
        /\ Timely!Accepted <=> Accepted
        /\ Timely!NotAccepted => RefusedMotion
        /\ Timely!MotionDone <=> MotionDone
        /\ ~Timely!GiveUp
    BY <1>1 DEF Timely!CheckStop, CheckStop, Timely!NoPlan, NoPlan,
                Timely!SendMotion, SendMotion, Timely!Accepted, Accepted,
                Timely!NotAccepted, NotAccepted, RefusedMotion,
                Timely!MotionDone, MotionDone, Timely!GiveUp
  <1>. QED
    BY <1>4, <1>5, <1>6, <1>7 DEF Timely!Next, Timely!Executing, TimelyNext

(* "One motion at a time" in both settings.                                *)
THEOREM OneMotionWhenTimely == MCSpec => []OwnedWhenTimely
  <1>. DEFINE Live == setting = "timely" => OneLive
  <1>1. MCInit => IInv /\ Live
    BY InitIInv DEF MCInit, Init, OneLive
  <1>2. IInv /\ Live /\ [MCNext]_<<vars, setting>> => IInv' /\ Live'
    <2>. SUFFICES ASSUME IInv, Live, [MCNext]_<<vars, setting>>
         PROVE  IInv' /\ Live'
      OBVIOUS
    <2>1. [Next]_vars /\ (setting = "timely" => [TimelyNext]_vars)
      BY TimelySteps, TimelyIsNext DEF MCNext
    <2>2. IInv'
      BY <2>1, NextIInv
    <2>3. setting' = setting
      BY DEF MCNext
    <2>4. Live'
      BY <2>1, <2>3, NextOneLive
    <2>. QED
      BY <2>2, <2>4
  <1>3. Live => OwnedWhenTimely
    BY DEF OneLive, MotionIsOwned, OwnedWhenTimely
  <1>. QED
    BY <1>1, <1>2, <1>3, PTL DEF MCSpec
=============================================================================
