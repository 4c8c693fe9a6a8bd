------------------------ MODULE PickPlaceDemo_proofs ------------------------
(***************************************************************************)
(* Proofs about PickPlaceDemo and its instances, for any place nodes and   *)
(* any number of operator calls: a box is only dropped where it is meant   *)
(* to be, no step begins before a failure is acknowledged, and with a      *)
(* prompt gripper every cycle that is counted has placed a box and every   *)
(* pick starts empty-handed.                                               *)
(***************************************************************************)
EXTENDS MCPickPlaceDemo, TLAPS

-----------------------------------------------------------------------------
(* The invariants.                                                         *)

(* A release that is not for anywhere is pending only where the tool came  *)
(* to let go, or where nothing is held any more; and while it is, the      *)
(* demo's view of the gripper shows what is held, so that no cycle starts. *)
Releasing == pc = "release" => at \in Places /\ held \subseteq view
Pending ==
  \A i \in DOMAIN calls : ~calls[i].anywhere =>
    /\ pc \in {"release", "top", "inspect"}
    /\ at \in Places \cup {"between", Inspect}
    /\ held \subseteq view
    /\ held # {} => at \in Places /\ pc # "inspect"

(* A goal accepted too late is carried out while the worker is at the top, *)
(* waits for its next motion or switches suction off for a restart; if a   *)
(* release is still pending then, nothing is held.                         *)
StrayInv ==
  stray # "none" =>
    /\ pc \in {"top", "inspect", "rsOff", "rsHome"}
    /\ \/ \A i \in DOMAIN calls : calls[i].anywhere
       \/ held = {} /\ stray = Inspect
LooseInv == Releasing /\ Pending /\ StrayInv

(* An unacknowledged failure keeps the worker at the top, whatever falls   *)
(* in between the halves of _on_reset.                                     *)
AckInv == unacked => error /\ pc = "top"

(* With a prompt gripper: a call is answered before the worker goes on,    *)
(* and what the tool holds follows from the step the worker is at.         *)
Off == held = {} /\ ~suction
Carries == held = {Box} /\ view = {Box}
Answered == calling /\ calls = <<>>
Empty == {"ready", "startHome", "dead", "inspect", "detect", "align", "approach",
          "backOutNoContact", "backOutNoGrasp", "homeNoGrasp", "home", "rsHome"}
Picking == {"inspect", "detect", "align", "approach", "gripOn", "waitGrasp"}

OneCall ==
  calls # <<>> =>
    /\ calling /\ pc \in Suctions
    /\ calls = <<[on |-> pc = "gripOn", anywhere |-> pc # "release"]>>
Holding ==
  /\ pc \in Empty => Off
  /\ pc \in Picking => view \subseteq held
  /\ pc = "gripOn" /\ ~Answered => Off
  /\ pc \in {"lift", "place"} => Carries
  /\ pc = "release" => IF Answered THEN Off ELSE Carries
  /\ pc \in {"gripOffNoGrasp", "rsOff"} /\ Answered => Off
  /\ pc = "top" => restart \/ Carries \/ Off
OverPlace == pc = "release" => at \in Places

(* ... and a cycle that is about to be counted has put its box down.       *)
Ahead == placed > cycles \/ placed = MaxCycles
Counting == /\ cycles <= placed
            /\ pc = "home" => Ahead
            /\ pc = "release" /\ Answered => Ahead

PromptInv == OneCall /\ Holding /\ OverPlace /\ Counting

-----------------------------------------------------------------------------
(* What the worker does, in either setting, without the reasons for which  *)
(* it fails or goes another way.                                           *)

Others == <<enabled, restart, line, view, placeIndex, cycles, target, suction,
            held, calls, at, boxAtBeam, ops, reset, placed>>

Fails ==
  /\ pc \in {"ready", "detect"} \cup Motions
  /\ StepFailed /\ UNCHANGED Others
  /\ stray' = stray \/ (pc \in Motions /\ stray' = Destination(pc))

Goes(from, to) == pc = from /\ GoTo(to) /\ UNCHANGED <<Others, stray>>
Turns ==
  \/ Goes("ready", "startHome") \/ Goes("ready", "top")
  \/ ~restart /\ PickPossible /\ Goes("top", "inspect")
  \/ calling /\ Goes("approach", "backOutNoContact")
  \/ restart /\ Goes("waitGrasp", "top")
  \/ view # {} /\ Goes("waitGrasp", "lift")
  \/ Goes("waitGrasp", "gripOffNoGrasp")
  \/ \E step \in Checked \ {"rsHome"} :
       /\ restart /\ ~calling
       /\ Goes(step, IF step = "startHome" THEN "dead" ELSE "top")

Restarts ==
  /\ restart /\ (pc = "top" \/ (pc = "rsHome" /\ ~calling))
  /\ DoRestart
  /\ UNCHANGED <<line, view, placeIndex, cycles, target, suction, held,
                 worldVars, opVars, placed>>

(* A step that succeeds; which place the lift leads to is left open.       *)
Succeeds ==
  /\ calling
  /\ IF FailsAnyway(pc) THEN StepFailed ELSE GoTo(NextStep(pc))
  /\ IF pc = "lift" THEN target' \in Places /\ placeIndex' \in 0..(Len(PlaceNodes) - 1)
     ELSE UNCHANGED <<target, placeIndex>>
  /\ CountCycle
  /\ UNCHANGED <<enabled, restart, line, view, gripperVars, stray, boxAtBeam,
                 opVars, placed>>

Ends ==
  \/ /\ pc \in Motions /\ MessagesInTime /\ stray = "none"
     /\ at' = Destination(pc) /\ Succeeds
  \/ pc = "detect" /\ Succeeds /\ UNCHANGED at
  \/ pc \in Suctions /\ calls = <<>> /\ Succeeds /\ UNCHANGED at

(* A call of set_suction is given up: only if the gripper is not prompt.   *)
GivesUp ==
  /\ pc \in Suctions
  /\ IF AnswerCounts(pc) THEN StepFailed ELSE GoTo(NextStep(pc))
  /\ UNCHANGED <<Others, stray>>

Callbacks ==
  \/ \E mode \in {"BLOCKED", "OTHER"} : OnLineState(mode)
  \/ OnGripperState
  \/ \E on \in BOOLEAN : OnSetEnabled(on)
  \/ OnRestart \/ OnResetReads \/ OnResetWrites
  \/ ArmLeaves \/ \E arrives \in BOOLEAN : StrayEnds(arrives)
  \/ GripperExecutes \/ Capture \/ BoxArrives

Works == Fails \/ Turns \/ Restarts \/ Begin \/ Ends
PromptStep == Works \/ Callbacks
AnyStep == PromptStep \/ GivesUp

(* Every step of PickPlaceDemo is one of these ...                         *)
LEMMA WorkerFacts ==
  ASSUME TypeOK, Worker
  PROVE  Works \/ GivesUp
  <1>. USE DEF Others, gripperVars, worldVars, opVars
  <1>1. PlaceNodes[placeIndex + 1] \in Places
        /\ (placeIndex + 1) % Len(PlaceNodes) \in 0..(Len(PlaceNodes) - 1)
    BY DemoAssumption DEF TypeOK, Places
  <1>2. Succeed => /\ IF pc = "lift" THEN /\ target' \in Places
                                          /\ placeIndex' \in 0..(Len(PlaceNodes) - 1)
                                     ELSE UNCHANGED <<target, placeIndex>>
                   /\ IF FailsAnyway(pc) THEN StepFailed ELSE GoTo(NextStep(pc))
                   /\ CountCycle
    BY <1>1 DEF Succeed, PickPlace, TypeOK
  <1>3. ASSUME NEW ready \in BOOLEAN, Start(ready) PROVE Works
    BY <1>3 DEF Start, Works, Fails, Turns, Goes
  <1>4. CASE RestartAtTop
    BY <1>4 DEF RestartAtTop, Works, Restarts
  <1>5. CASE StartCycle
    BY <1>5 DEF StartCycle, Works, Turns, Goes
  <1>6. CASE RestartRequested
    <2>1. CASE pc = "rsHome"
      BY <1>6, <2>1 DEF RestartRequested, Works, Restarts
    <2>2. CASE pc # "rsHome"
      BY <1>6, <2>2 DEF RestartRequested, Works, Turns, Goes
    <2>. QED
      BY <2>1, <2>2
  <1>7. CASE Refused
    <2>1. CASE pc \in Suctions
      BY <1>7, <2>1 DEF Refused, GivesUp, Motions, Suctions
    <2>2. CASE pc \in Motions \cup {"detect"}
      BY <1>7, <2>2 DEF Refused, AnswerCounts, Motions, Works, Fails
    <2>. QED
      BY <1>7, <2>1, <2>2 DEF Refused
  <1>8. CASE MotionEnds
    BY <1>2, <1>8 DEF MotionEnds, Works, Ends, Succeeds
  <1>9. ASSUME NEW travelled \in BOOLEAN, MotionFails(travelled) PROVE Works
    BY <1>9 DEF MotionFails, Works, Fails, Turns, Goes
  <1>10. ASSUME NEW found \in BOOLEAN, DetectEnds(found) PROVE Works
    BY <1>2, <1>10 DEF DetectEnds, Works, Ends, Succeeds, Fails
  <1>11. CASE SuctionAnswers
    BY <1>2, <1>11 DEF SuctionAnswers, Works, Ends, Succeeds
  <1>12. CASE SuctionTimesOut
    BY <1>12 DEF SuctionTimesOut, GivesUp
  <1>13. CASE WaitForGrasp
    BY <1>13 DEF WaitForGrasp, Works, Turns, Goes
  <1>. QED
    BY <1>3, <1>4, <1>5, <1>6, <1>7, <1>8, <1>9, <1>10, <1>11, <1>12, <1>13
       DEF Worker, Works

LEMMA NextFacts ==
  ASSUME TypeOK, Next
  PROVE  AnyStep
  BY WorkerFacts DEF Next, AnyStep, PromptStep, Callbacks

(* ... and with a prompt gripper none of them gives up a call.             *)
LEMMA PromptFacts ==
  ASSUME TypeOK, Prompt!Next
  PROVE  PromptStep
  <1>. USE DEF Others, nodeVars, workerVars, gripperVars, worldVars, opVars, history,
               Prompt!nodeVars, Prompt!workerVars, Prompt!gripperVars,
               Prompt!worldVars, Prompt!opVars, Prompt!history
  <1>1. /\ Prompt!Motions = Motions /\ Prompt!Suctions = Suctions
        /\ Prompt!Checked = Checked /\ Prompt!Places = Places
    BY DEF Prompt!Motions, Motions, Prompt!Suctions, Suctions, Prompt!Checked,
           Checked, Prompt!Places, Places
  <1>2. /\ Prompt!StepFailed <=> StepFailed
        /\ \A step : Prompt!GoTo(step) <=> GoTo(step)
        /\ \A step : Prompt!NextStep(step) = NextStep(step)
        /\ \A step : Prompt!AnswerCounts(step) <=> AnswerCounts(step)
        /\ \A step : Prompt!FailsAnyway(step) <=> FailsAnyway(step)
        /\ \A step : Prompt!Destination(step) = Destination(step)
        /\ Prompt!CountCycle <=> CountCycle
        /\ Prompt!DoRestart <=> DoRestart
        /\ Prompt!PickPossible <=> PickPossible
        /\ Prompt!MessagesInTime <=> MessagesInTime
    BY DEF Prompt!StepFailed, StepFailed, Prompt!GoTo, GoTo, Prompt!NextStep, NextStep,
           Prompt!AnswerCounts, AnswerCounts, Prompt!FailsAnyway, FailsAnyway,
           Prompt!Destination, Destination, Prompt!CountCycle, CountCycle,
           Prompt!Saturate, Saturate,
           Prompt!DoRestart, DoRestart, Prompt!PickPossible, PickPossible,
           Prompt!MessagesInTime, MessagesInTime
  <1>3. Prompt!Succeed =>
          /\ IF pc = "lift" THEN /\ target' \in Places
                                 /\ placeIndex' \in 0..(Len(PlaceNodes) - 1)
                            ELSE UNCHANGED <<target, placeIndex>>
          /\ IF FailsAnyway(pc) THEN StepFailed ELSE GoTo(NextStep(pc))
          /\ CountCycle
    BY <1>1, <1>2 DEF Prompt!Succeed, Prompt!PickPlace, TypeOK
  <1>4. ASSUME NEW ready \in BOOLEAN, Prompt!Start(ready) PROVE Works
    BY <1>2, <1>4 DEF Prompt!Start, Works, Fails, Turns, Goes
  <1>5. ASSUME Prompt!RestartAtTop PROVE Works
    BY <1>2, <1>5 DEF Prompt!RestartAtTop, Works, Restarts
  <1>6. ASSUME Prompt!StartCycle PROVE Works
    BY <1>2, <1>6 DEF Prompt!StartCycle, Works, Turns, Goes
  <1>7. ASSUME Prompt!RestartRequested PROVE Works
    <2>1. CASE pc = "rsHome"
      BY <1>2, <1>7, <2>1 DEF Prompt!RestartRequested, Works, Restarts
    <2>2. CASE pc # "rsHome"
      BY <1>1, <1>2, <1>7, <2>2 DEF Prompt!RestartRequested, Works, Turns, Goes
    <2>. QED
      BY <2>1, <2>2
  <1>8. ASSUME Prompt!Begin PROVE Works
    BY <1>1, <1>2, <1>8 DEF Prompt!Begin, Prompt!MayBegin, Begin, MayBegin, Works
  <1>9. ASSUME Prompt!Refused PROVE Works
    BY <1>1, <1>2, <1>9
       DEF Prompt!Refused, AnswerCounts, Motions, Suctions, Works, Fails
  <1>10. ASSUME Prompt!MotionEnds PROVE Works
    BY <1>1, <1>2, <1>3, <1>10 DEF Prompt!MotionEnds, Works, Ends, Succeeds
  <1>11. ASSUME NEW travelled \in BOOLEAN, Prompt!MotionFails(travelled) PROVE Works
    BY <1>1, <1>2, <1>11 DEF Prompt!MotionFails, Works, Fails, Turns, Goes
  <1>12. ASSUME NEW found \in BOOLEAN, Prompt!DetectEnds(found) PROVE Works
    BY <1>2, <1>3, <1>12 DEF Prompt!DetectEnds, Works, Ends, Succeeds, Fails
  <1>13. ASSUME Prompt!SuctionAnswers PROVE Works
    BY <1>1, <1>2, <1>3, <1>13 DEF Prompt!SuctionAnswers, Works, Ends, Succeeds
  <1>14. ASSUME Prompt!WaitForGrasp PROVE Works
    BY <1>2, <1>14 DEF Prompt!WaitForGrasp, Works, Turns, Goes
  <1>15. Prompt!Worker => Works
    BY <1>4, <1>5, <1>6, <1>7, <1>8, <1>9, <1>10, <1>11, <1>12, <1>13, <1>14
       DEF Prompt!Worker, Prompt!SuctionTimesOut
  <1>16. Prompt!OperatorCalls => OperatorCalls
    BY DemoAssumption DEF Prompt!OperatorCalls, OperatorCalls, TypeOK
  <1>17. ASSUME NEW mode, Prompt!OnLineState(mode) PROVE OnLineState(mode)
    BY <1>17 DEF Prompt!OnLineState, OnLineState
  <1>18. ASSUME NEW on, Prompt!OnSetEnabled(on) PROVE OnSetEnabled(on)
    BY <1>16, <1>18 DEF Prompt!OnSetEnabled, OnSetEnabled
  <1>19. /\ Prompt!OnGripperState => OnGripperState
         /\ Prompt!OnRestart => OnRestart
         /\ Prompt!OnResetReads => OnResetReads
         /\ Prompt!OnResetWrites => OnResetWrites
         /\ Prompt!BoxArrives => BoxArrives
         /\ Prompt!ArmLeaves => ArmLeaves
         /\ \A arrives : Prompt!StrayEnds(arrives) => StrayEnds(arrives)
    BY <1>1, <1>16 DEF Prompt!ArmLeaves, ArmLeaves, Prompt!StrayEnds, StrayEnds, Prompt!OnGripperState, OnGripperState, Prompt!OnRestart, OnRestart,
                 Prompt!OnResetReads, OnResetReads, Prompt!OnResetWrites, OnResetWrites,
                 Prompt!BoxArrives, BoxArrives
  <1>20. Prompt!GripperExecutes => GripperExecutes
    BY <1>1 DEF Prompt!GripperExecutes, GripperExecutes, Prompt!Saturate, Saturate,
                Prompt!Suction!SwitchOn, Prompt!Suction!SwitchOff,
                Suction!SwitchOn, Suction!SwitchOff
  <1>21. Prompt!Capture => Capture
    BY DEF Prompt!Capture, Capture, Prompt!CanCapture, CanCapture,
           Prompt!Suction!Capture, Suction!Capture
  <1>. QED
    BY <1>15, <1>17, <1>18, <1>19, <1>20, <1>21 DEF Prompt!Next, PromptStep, Callbacks

-----------------------------------------------------------------------------
(* Type correctness.                                                       *)

Call == [on : BOOLEAN, anywhere : BOOLEAN]
Spots == Places \cup {Home, Inspect, "between", "above", "contact", "lifted"}
Goals == Places \cup {Home, Inspect, "none", "above", "contact", "lifted"}

LEMMA StepFacts ==
  ASSUME NEW step \in Steps
  PROVE  /\ step \in Motions \cup Suctions \cup {"detect"} => NextStep(step) \in Steps
         /\ NextStep(step) # "inspect" /\ NextStep(step) # "ready"
         /\ (step \in Motions /\ target \in Places) => Destination(step) \in Spots \cap Goals
  BY DEF Steps, Motions, Suctions, NextStep, Destination, Spots, Goals

LEMMA SaturateFacts ==
  ASSUME NEW n \in 0..MaxCycles
  PROVE  /\ Saturate(n) \in 0..MaxCycles /\ n <= Saturate(n)
         /\ Saturate(n) > n \/ Saturate(n) = MaxCycles
  BY DemoAssumption DEF Saturate

LEMMA CallsFacts ==
  ASSUME calls \in Seq(Call)
  PROVE  /\ DOMAIN calls = 1..Len(calls) /\ Len(calls) \in Nat
         /\ \A i \in DOMAIN calls :
              /\ calls[i] \in Call /\ calls[i].on \in BOOLEAN
              /\ [calls[i] EXCEPT !.anywhere = TRUE] \in Call
         /\ calls # <<>> => /\ Head(calls) = calls[1] /\ 1 \in DOMAIN calls
                            /\ Tail(calls) \in Seq(Call)
                            /\ \A i \in DOMAIN Tail(calls) :
                                 i + 1 \in DOMAIN calls /\ Tail(calls)[i] = calls[i + 1]
  <1>1. \A i \in DOMAIN calls : calls[i] \in Call
    OBVIOUS
  <1>2. \A c \in Call : c.on \in BOOLEAN /\ [c EXCEPT !.anywhere = TRUE] \in Call
    BY DEF Call
  <1>. QED
    BY <1>1, <1>2

LEMMA TypeInit ==
  ASSUME Init
  PROVE  TypeOK
  <1>1. PlaceNodes[1] \in Places /\ Len(PlaceNodes) \in Nat /\ Len(PlaceNodes) > 0
    BY DemoAssumption DEF Places
  <1>2. 0 \in 0..(Len(PlaceNodes) - 1) /\ 0 \in 0..MaxCycles /\ 0 \in 0..MaxOps
    BY <1>1, DemoAssumption
  <1>3. held \subseteq {Box} /\ calls \in Seq(Call) /\ (suction \in BOOLEAN)
    BY DEF Init
  <1>4. /\ enabled \in BOOLEAN /\ error \in BOOLEAN /\ restart \in BOOLEAN
        /\ calling \in BOOLEAN /\ boxAtBeam \in BOOLEAN /\ unacked \in BOOLEAN
    BY DemoAssumption DEF Init
  <1>. QED
    BY <1>1, <1>2, <1>3, <1>4 DEF Init, TypeOK, Steps, Call

LEMMA TypeStep ==
  ASSUME TypeOK, [AnyStep]_vars
  PROVE  TypeOK'
  <1>. USE DEF TypeOK, Others, StepFailed, GoTo, gripperVars, worldVars, opVars,
               nodeVars, workerVars, history
  <1>1. CASE Fails
    <2>1. stray' \in Goals
      BY <1>1, StepFacts DEF Fails, Goals
    <2>. QED
      BY <1>1, <2>1 DEF Fails, Steps, Goals
  <1>2. CASE Turns
    BY <1>2 DEF Turns, Goes, Steps, Motions, Suctions
  <1>3. CASE Restarts
    <2>1. calls' \in Seq(Call)
      <3>1. \A i \in 1..Len(calls) : [calls[i] EXCEPT !.anywhere = TRUE] \in Call
        BY CallsFacts DEF Call
      <3>2. calls' = [i \in 1..Len(calls) |-> [calls[i] EXCEPT !.anywhere = TRUE]]
        BY <1>3 DEF Restarts, DoRestart
      <3>. QED
        BY <3>1, <3>2
    <2>. QED
      BY <1>3, <2>1 DEF Restarts, DoRestart, Steps, Suctions, Call
  <1>4. CASE Begin
    <2>1. calls' \in Seq(Call)
      <3>. DEFINE new == [on |-> pc = "gripOn", anywhere |-> pc # "release"]
      <3>1. new \in Call
        BY DEF Call
      <3>2. calls \in Seq(Call)
        BY DEF Call
      <3>3. calls' = IF pc \in Suctions THEN Append(calls, new) ELSE calls
        BY <1>4 DEF Begin
      <3>. HIDE DEF new
      <3>. QED
        BY <3>1, <3>2, <3>3
    <2>. QED
      BY <1>4, <2>1 DEF Begin, Call
  <1>5. CASE GivesUp
    BY <1>5, StepFacts DEF GivesUp, Steps
  <1>6. CASE Ends
    <2>1. pc \in Motions \cup Suctions \cup {"detect"} /\ Succeeds
      BY <1>6 DEF Ends
    <2>2. NextStep(pc) \in Steps
      BY <2>1, StepFacts
    <2>3. pc' \in Steps /\ calling' = FALSE /\ error' \in BOOLEAN /\ unacked' \in BOOLEAN
      BY <2>1, <2>2 DEF Succeeds, Steps
    <2>4. target' \in Places /\ placeIndex' \in 0..(Len(PlaceNodes) - 1)
      BY <2>1 DEF Succeeds
    <2>5. cycles' \in 0..MaxCycles
      BY <2>1, SaturateFacts DEF Succeeds, CountCycle
    <2>6. at' \in Spots
      BY <1>6, StepFacts DEF Ends, Spots
    <2>. QED
      BY <2>1, <2>3, <2>4, <2>5, <2>6 DEF Succeeds, Spots
  <1>7. CASE Callbacks
    <2>1. ops' \in 0..MaxOps
      BY <1>7, DemoAssumption
         DEF Callbacks, OperatorCalls, OnLineState, OnGripperState, OnSetEnabled,
             OnRestart, OnResetReads, OnResetWrites, GripperExecutes, Capture,
             BoxArrives, ArmLeaves, StrayEnds
    <2>2. CASE GripperExecutes
      <3>1. calls' \in Seq(Call)
        BY <2>2, CallsFacts DEF GripperExecutes, Call
      <3>2. suction' \in BOOLEAN /\ held' \subseteq {Box}
        BY <2>2 DEF GripperExecutes, Suction!SwitchOn, Suction!SwitchOff
      <3>3. placed' \in 0..MaxCycles
        BY <2>2, SaturateFacts DEF GripperExecutes
      <3>. QED
        BY <2>2, <3>1, <3>2, <3>3 DEF GripperExecutes, Call
    <2>3. CASE Capture
      BY <2>3 DEF Capture, Suction!Capture
    <2>4. CASE BoxArrives
      BY <2>4 DEF BoxArrives
    <2>5. ASSUME NEW mode \in {"BLOCKED", "OTHER"}, OnLineState(mode)
          PROVE  TypeOK'
      BY <2>5 DEF OnLineState
    <2>6. CASE OnGripperState
      BY <2>6 DEF OnGripperState
    <2>7. ASSUME NEW on \in BOOLEAN, OnSetEnabled(on) PROVE TypeOK'
      BY <2>1, <2>7 DEF OnSetEnabled
    <2>8. CASE OnRestart
      BY <2>1, <2>8 DEF OnRestart
    <2>9. CASE OnResetReads
      BY <2>1, <2>9 DEF OnResetReads
    <2>10. CASE OnResetWrites
      BY <2>10 DEF OnResetWrites
    <2>11. CASE ArmLeaves
      BY <2>11 DEF ArmLeaves
    <2>12. ASSUME NEW arrives \in BOOLEAN, StrayEnds(arrives) PROVE TypeOK'
      BY <2>12 DEF StrayEnds
    <2>. QED
      BY <1>7, <2>2, <2>3, <2>4, <2>5, <2>6, <2>7, <2>8, <2>9, <2>10, <2>11, <2>12
         DEF Callbacks
  <1>8. CASE UNCHANGED vars
    BY <1>8 DEF vars
  <1>. QED
    BY <1>1, <1>2, <1>3, <1>4, <1>5, <1>6, <1>7, <1>8 DEF AnyStep, PromptStep, Works

-----------------------------------------------------------------------------
(* Dropped boxes.                                                          *)

LEMMA LooseInit == Init => LooseInv
  BY DEF Init, LooseInv, Releasing, Pending, StrayInv

(* LooseInv is kept by every step, whatever fails or is late.              *)
LEMMA LooseStep ==
  ASSUME TypeOK, LooseInv, [AnyStep]_vars
  PROVE  LooseInv'
  <1>. USE DEF Others, StepFailed, GoTo, gripperVars, worldVars, opVars,
               nodeVars, workerVars, history
  <1>1. /\ calls \in Seq(Call) /\ held \subseteq {Box} /\ pc \in Steps
        /\ target \in Places /\ Releasing /\ Pending /\ StrayInv
        /\ "between" \notin Places /\ "contact" \notin Places \cup {Inspect}
    BY DemoAssumption DEF TypeOK, Call, LooseInv
  <1>2. CASE Fails \/ GivesUp
    <2>1. UNCHANGED <<calls, at, held, view>> /\ pc' # "release"
      BY <1>2, <1>1 DEF Fails, GivesUp, AnswerCounts, NextStep, Suctions
    <2>2. pc \in {"release", "top", "inspect"} => pc' = "top"
      BY <1>2 DEF Fails, GivesUp, AnswerCounts, Motions, Suctions
    <2>3. StrayInv'
      <3>1. CASE stray' = stray
        <4>1. pc \in {"top", "inspect", "rsOff", "rsHome"}
                => pc' \in {"top", "rsHome"}
          BY <1>2 DEF Fails, GivesUp, AnswerCounts, NextStep, Motions, Suctions
        <4>. QED
          BY <1>1, <2>1, <3>1, <4>1 DEF StrayInv
      <3>2. CASE stray' # stray
        <4>1. Fails /\ pc \in Motions /\ stray' = Destination(pc) /\ pc' = "top"
          BY <1>2, <3>2 DEF Fails, GivesUp
        <4>2. pc = "inspect" => stray' = Inspect
          BY <4>1 DEF Destination
        <4>3. pc # "inspect" => \A i \in DOMAIN calls : calls[i].anywhere
          BY <1>1, <4>1 DEF Pending, Motions
        <4>. QED
          BY <1>1, <2>1, <4>1, <4>2, <4>3 DEF StrayInv, Pending
      <3>. QED
        BY <3>1, <3>2
    <2>. QED
      BY <1>1, <2>1, <2>2, <2>3 DEF LooseInv, Releasing, Pending
  <1>3. CASE Turns
    <2>1. UNCHANGED <<calls, at, held, view, stray>> /\ pc' # "release"
      BY <1>3 DEF Turns, Goes
    <2>2. \/ pc \in {"release", "top", "inspect"} => pc' = "top"
          \/ pc = "top" /\ pc' = "inspect" /\ view = {}
      BY <1>3 DEF Turns, Goes, PickPossible
    <2>3. pc \in {"top", "inspect", "rsOff", "rsHome"} => pc' \in {"top", "inspect"}
      BY <1>3 DEF Turns, Goes, Checked, Motions
    <2>. QED
      BY <1>1, <2>1, <2>2, <2>3 DEF LooseInv, Releasing, Pending, StrayInv
  <1>4. CASE Restarts
    <2>1. pc' = "rsOff" /\ \A i \in DOMAIN calls' : calls'[i].anywhere
      BY <1>1, <1>4, CallsFacts DEF Restarts, DoRestart, Call
    <2>. QED
      BY <2>1 DEF LooseInv, Releasing, Pending, StrayInv
  <1>5. CASE Begin
    <2>1. UNCHANGED <<pc, held, view, at, stray>>
      BY <1>5 DEF Begin
    <2>2. CASE pc \in Suctions
      <3>. DEFINE new == [on |-> pc = "gripOn", anywhere |-> pc # "release"]
      <3>1. calls' = Append(calls, new)
        BY <1>5, <2>2 DEF Begin
      <3>2. ~new.anywhere => pc = "release"
        OBVIOUS
      <3>. HIDE DEF new
      <3>3. \A i \in DOMAIN calls' : calls'[i] = new \/ (i \in DOMAIN calls /\ calls'[i] = calls[i])
        BY <1>1, <3>1
      <3>4. pc \notin {"top", "inspect"}
        BY <2>2 DEF Suctions
      <3>. QED
        BY <1>1, <2>1, <3>1, <3>2, <3>3, <3>4 DEF LooseInv, Releasing, Pending, StrayInv
    <2>3. CASE pc \notin Suctions
      <3>1. calls' = calls
        BY <1>5, <2>3 DEF Begin
      <3>. QED
        BY <1>1, <2>1, <3>1 DEF LooseInv, Releasing, Pending, StrayInv
    <2>. QED
      BY <2>2, <2>3
  <1>6. CASE Ends
    <2>1. Succeeds /\ UNCHANGED <<calls, held, view, stray>>
      BY <1>6 DEF Ends, Succeeds
    <2>2. pc \in {"release", "top", "inspect"} => calls = <<>>
      BY <1>6 DEF Ends, MessagesInTime, Motions, Suctions
    <2>3. \A i \in DOMAIN calls : calls[i].anywhere
      BY <1>1, <2>2 DEF Pending
    <2>4. pc' = "release" => pc = "place"
      BY <2>1 DEF Succeeds, NextStep
    <2>5. pc = "place" => at' = target /\ view = held
      BY <1>6 DEF Ends, MessagesInTime, Destination, Motions, Suctions
    <2>6. pc = "rsOff" => pc' = "rsHome"
      BY <2>1 DEF Succeeds, FailsAnyway, NextStep, GoTo
    <2>7. stray # "none" => pc = "rsOff"
      BY <1>1, <1>6 DEF StrayInv, Ends, Motions, Suctions
    <2>. QED
      BY <1>1, <2>1, <2>3, <2>4, <2>5, <2>6, <2>7
         DEF LooseInv, Releasing, Pending, StrayInv
  <1>7. CASE GripperExecutes
    <2>1. UNCHANGED <<pc, at, view, stray>> /\ held' \subseteq held
      BY <1>7 DEF GripperExecutes, Suction!SwitchOn, Suction!SwitchOff
    <2>2. \A i \in DOMAIN calls' : i + 1 \in DOMAIN calls /\ calls'[i] = calls[i + 1]
      BY <1>1, <1>7, CallsFacts DEF GripperExecutes
    <2>. QED
      BY <1>1, <2>1, <2>2 DEF LooseInv, Releasing, Pending, StrayInv
  <1>8. CASE Capture
    <2>1. UNCHANGED <<pc, at, view, calls, stray>> /\ at = "contact"
      BY <1>8 DEF Capture, CanCapture
    <2>2. \A i \in DOMAIN calls : calls[i].anywhere
      BY <1>1, <2>1 DEF Pending
    <2>. QED
      BY <1>1, <2>1, <2>2 DEF LooseInv, Releasing, Pending, StrayInv
  <1>9. CASE OnGripperState
    <2>1. UNCHANGED <<pc, at, calls, held, stray>> /\ view' = held
      BY <1>9 DEF OnGripperState
    <2>. QED
      BY <1>1, <2>1 DEF LooseInv, Releasing, Pending, StrayInv
  <1>10. CASE UNCHANGED <<pc, at, calls, held, view, stray>>
    BY <1>1, <1>10 DEF LooseInv, Releasing, Pending, StrayInv
  <1>12. CASE ArmLeaves
    <2>1. /\ UNCHANGED <<pc, calls, held, view, stray>> /\ at' = "between"
          /\ stray # "none" \/ pc \in Motions
      BY <1>12 DEF ArmLeaves
    <2>2. pc # "release"
      BY <1>1, <2>1 DEF StrayInv, Motions
    <2>3. held # {} => \A i \in DOMAIN calls : calls[i].anywhere
      BY <1>1, <2>1 DEF StrayInv, Pending, Motions
    <2>. QED
      BY <1>1, <2>1, <2>2, <2>3 DEF LooseInv, Releasing, Pending, StrayInv
  <1>13. ASSUME NEW arrives \in BOOLEAN, StrayEnds(arrives) PROVE LooseInv'
    <2>1. /\ UNCHANGED <<pc, calls, held, view>> /\ stray # "none" /\ stray' = "none"
          /\ at' \in {stray, "between"}
      BY <1>13 DEF StrayEnds
    <2>. QED
      BY <1>1, <2>1 DEF LooseInv, Releasing, Pending, StrayInv
  <1>11. CASE Callbacks
    BY <1>7, <1>8, <1>9, <1>10, <1>11, <1>12, <1>13
       DEF Callbacks, OnLineState, OnSetEnabled, OnRestart, OnResetReads,
           OnResetWrites, BoxArrives
  <1>. QED
    BY <1>2, <1>3, <1>4, <1>5, <1>6, <1>10, <1>11
       DEF AnyStep, PromptStep, Works, vars

(* Only a call that switches suction off drops a box: one for anywhere, or *)
(* the release, and then LooseInv says where the tool is.                  *)
LEMMA DropsFact ==
  ASSUME TypeOK, LooseInv, [AnyStep]_vars, Box \in held \ held'
  PROVE  at \in Places \cup {"contact"} \/ Head(calls).anywhere
  <1>. USE DEF Others, gripperVars, worldVars, opVars, nodeVars, workerVars, history
  <1>1. ASSUME held' = held PROVE FALSE
    BY <1>1
  <1>2. ~Capture
    BY DEF Capture, Suction!Capture
  <1>3. GripperExecutes
    BY <1>1, <1>2
       DEF AnyStep, PromptStep, Works, Callbacks, vars, Fails, Turns, Goes, Restarts,
           Begin, Ends, Succeeds, GivesUp, OnLineState, OnGripperState, OnSetEnabled,
           OnRestart, OnResetReads, OnResetWrites, BoxArrives, ArmLeaves, StrayEnds
  <1>4. calls \in Seq(Call) /\ calls # <<>>
    BY <1>3 DEF TypeOK, Call, GripperExecutes
  <1>5. Head(calls) = calls[1] /\ 1 \in DOMAIN calls
    BY <1>4, CallsFacts
  <1>. QED
    BY <1>5 DEF LooseInv, Pending

-----------------------------------------------------------------------------
(* Failures.                                                               *)

(* AckInv is kept by every step, also within _on_reset.                    *)
LEMMA AckStep ==
  ASSUME TypeOK, AckInv, [AnyStep]_vars
  PROVE  AckInv'
  <1>. USE DEF AckInv, Others, StepFailed, GoTo, gripperVars, worldVars, opVars,
               nodeVars, workerVars, history
  <1>1. CASE Fails \/ GivesUp
    BY <1>1 DEF Fails, GivesUp, Motions, Suctions
  <1>2. CASE Turns
    BY <1>2 DEF Turns, Goes, PickPossible, Checked, Motions
  <1>3. CASE Restarts
    BY <1>3 DEF Restarts, DoRestart
  <1>4. CASE Begin
    BY <1>4 DEF Begin
  <1>5. CASE Ends
    BY <1>5 DEF Ends, Succeeds, Motions, Suctions
  <1>6. CASE OnResetWrites
    BY <1>6 DEF OnResetWrites
  <1>7. CASE UNCHANGED <<error, unacked, pc>>
    BY <1>7
  <1>8. CASE Callbacks
    BY <1>6, <1>7, <1>8
       DEF Callbacks, OnLineState, OnGripperState, OnSetEnabled, OnRestart,
           OnResetReads, GripperExecutes, Capture, BoxArrives, ArmLeaves, StrayEnds
  <1>. QED
    BY <1>1, <1>2, <1>3, <1>4, <1>5, <1>7, <1>8 DEF AnyStep, PromptStep, Works, vars

(* Only Begin makes a step call, and no step is begun at the top.          *)
LEMMA BeginFact ==
  ASSUME AckInv, [AnyStep]_vars, ~calling, calling'
  PROVE  ~unacked
  <1>. USE DEF Others, gripperVars, worldVars, opVars, nodeVars, workerVars, history
  <1>1. Begin
    BY DEF AnyStep, PromptStep, Works, Callbacks, vars, Fails, StepFailed, Turns,
           Goes, GoTo, Restarts, DoRestart, Ends, Succeeds, GivesUp, OnLineState,
           OnGripperState, OnSetEnabled, OnRestart, OnResetReads, OnResetWrites,
           GripperExecutes, Capture, BoxArrives, ArmLeaves, StrayEnds
  <1>. QED
    BY <1>1 DEF Begin, AckInv, Motions, Suctions

-----------------------------------------------------------------------------
(* A prompt gripper.                                                       *)

LEMMA PromptInit ==
  ASSUME Prompt!Init
  PROVE  PromptInv
  <1>1. /\ held = {} /\ ~suction /\ view = {} /\ calls = <<>> /\ pc = "ready"
        /\ cycles = 0 /\ placed = 0
    BY DEF Prompt!Init
  <1>. QED
    BY <1>1 DEF PromptInv, OneCall, Holding, OverPlace, Counting, Off, Picking

(* Where no call is under way, none is waiting for the gripper.            *)
LEMMA NoCall ==
  ASSUME OneCall, ~calling \/ pc \notin Suctions
  PROVE  calls = <<>> /\ ~(pc \in Suctions /\ Answered)
  BY DEF OneCall, Answered

(* PromptInv when a step fails, or the worker turns to another one.        *)
LEMMA PromptTurns ==
  ASSUME TypeOK, PromptInv, Fails \/ Turns
  PROVE  PromptInv'
  <1>. USE DEF Others, StepFailed, GoTo, gripperVars
  <1>1. /\ OneCall /\ Holding /\ Counting /\ view \subseteq {Box} /\ held \subseteq {Box}
        /\ UNCHANGED <<calls, held, suction, view, restart, cycles, placed>>
        /\ ~calling' /\ pc' \notin {"release", "home"}
    BY DEF PromptInv, TypeOK, Fails, Turns, Goes
  <1>2. calls = <<>>
    BY <1>1, NoCall DEF Fails, Turns, Goes, Motions, Suctions
  <1>3. CASE Fails
    <2>1. pc' = "top" /\ (Carries \/ Off)
      BY <1>1, <1>3 DEF Fails, Motions, Holding, Empty
    <2>2. Holding'
      BY <1>1, <2>1 DEF Holding, Empty, Picking, Carries, Off
    <2>. QED
      BY <1>1, <1>2, <2>2 DEF PromptInv, OneCall, OverPlace, Counting, Ahead
  <1>4. CASE Turns
    <2>1. \/ pc' = "top" /\ restart
          \/ pc' \in (Empty \cup {"top"}) \ Picking /\ Off
          \/ pc' = "inspect" /\ Off /\ view = {}
          \/ pc' = "lift" /\ Carries
          \/ pc' = "gripOffNoGrasp"
      <3>1. CASE Goes("ready", "startHome") \/ Goes("ready", "top")
        BY <1>1, <3>1 DEF Goes, Holding, Empty, Picking
      <3>2. CASE ~restart /\ PickPossible /\ Goes("top", "inspect")
        BY <1>1, <3>2 DEF Goes, PickPossible, Holding, Carries
      <3>3. CASE Goes("approach", "backOutNoContact")
        BY <1>1, <3>3 DEF Goes, Holding, Empty, Picking
      <3>4. CASE view # {} /\ Goes("waitGrasp", "lift")
        BY <1>1, <3>4 DEF Goes, Holding, Picking, Carries
      <3>5. ASSUME NEW step \in Checked \ {"rsHome"}, restart,
                   Goes(step, IF step = "startHome" THEN "dead" ELSE "top")
            PROVE  \/ pc' = "top" /\ restart
                   \/ pc' = "dead" /\ Off
        BY <1>1, <3>5 DEF Goes, Holding, Empty
      <3>. QED
        BY <1>4, <3>1, <3>2, <3>3, <3>4, <3>5 DEF Turns, Goes, Empty, Picking
    <2>2. Holding'
      BY <1>1, <2>1 DEF Holding, Empty, Picking, Carries, Off, Answered
    <2>. QED
      BY <1>1, <1>2, <2>2 DEF PromptInv, OneCall, OverPlace, Counting, Ahead
  <1>. QED
    BY <1>3, <1>4

(* ... when a restart or a step begins,                                    *)
LEMMA PromptBegins ==
  ASSUME TypeOK, PromptInv, Restarts \/ Begin
  PROVE  PromptInv'
  <1>. USE DEF gripperVars, worldVars, opVars, nodeVars, history
  <1>1. /\ OneCall /\ Holding /\ OverPlace /\ Counting /\ calls \in Seq(Call)
        /\ ~calling
        /\ UNCHANGED <<held, suction, view, cycles, placed>>
    <2>1. Restarts => ~calling
      BY DEF Restarts, TypeOK, Motions, Suctions
    <2>. QED
      BY <2>1 DEF PromptInv, TypeOK, Call, Restarts, DoRestart, Begin, MayBegin
  <1>2. calls = <<>>
    BY <1>1, NoCall
  <1>3. CASE Restarts
    <2>1. calls' = <<>>
      <3>1. calls' = [i \in 1..0 |-> [calls[i] EXCEPT !.anywhere = TRUE]]
        BY <1>2, <1>3 DEF Restarts, DoRestart
      <3>. QED
        BY <3>1
    <2>2. pc' = "rsOff" /\ ~calling'
      BY <1>3 DEF Restarts, DoRestart
    <2>. QED
      BY <1>1, <2>1, <2>2
         DEF PromptInv, OneCall, Holding, OverPlace, Counting, Ahead, Empty, Picking,
             Answered
  <1>4. CASE Begin
    <2>. DEFINE new == [on |-> pc = "gripOn", anywhere |-> pc # "release"]
    <2>1. /\ pc' = pc /\ calling' /\ pc \in Motions \cup Suctions \cup {"detect"}
          /\ calls' = IF pc \in Suctions THEN Append(calls, new) ELSE calls
          /\ UNCHANGED restart
      BY <1>4 DEF Begin
    <2>2. calls' = IF pc \in Suctions THEN <<new>> ELSE <<>>
      BY <1>2, <2>1
    <2>3. pc \in Suctions => calls' # <<>>
      BY <2>2
    <2>4. OneCall'
      BY <2>1, <2>2 DEF OneCall
    <2>5. Holding'
      <3>1. pc \in Suctions => ~Answered'
        BY <2>3 DEF Answered
      <3>2. ~Answered
        BY <1>1 DEF Answered
      <3>. QED
        BY <1>1, <2>1, <3>1, <3>2 DEF Holding, Suctions, Off, Carries
    <2>6. OverPlace'
      BY <1>1, <1>4, <2>1 DEF OverPlace, Begin
    <2>7. Counting'
      BY <1>1, <2>1, <2>3 DEF Counting, Ahead, Answered, Suctions
    <2>. QED
      BY <2>4, <2>5, <2>6, <2>7 DEF PromptInv
  <1>. QED
    BY <1>3, <1>4

(* ... when a step succeeds,                                               *)
LEMMA PromptEnds ==
  ASSUME TypeOK, PromptInv, Ends
  PROVE  PromptInv'
  <1>. USE DEF StepFailed, GoTo, gripperVars
  <1>1. /\ Succeeds /\ Holding /\ OverPlace /\ Counting /\ calling
        /\ pc \in Motions \cup Suctions \cup {"detect"}
        /\ cycles \in 0..MaxCycles /\ placed \in 0..MaxCycles
        /\ view \subseteq {Box} /\ held \subseteq {Box} /\ target \in Places
        /\ UNCHANGED <<calls, held, suction, view, restart, placed>> /\ ~calling'
    BY DEF PromptInv, Ends, Succeeds, TypeOK
  <1>2. calls = <<>>
    BY NoCall DEF PromptInv, Ends, Motions, Suctions
  <1>3. Answered /\ ~Answered' /\ calls' = <<>>
    BY <1>1, <1>2 DEF Answered
  <1>4. /\ pc' = IF FailsAnyway(pc) THEN "top" ELSE NextStep(pc)
        /\ cycles' = IF pc = "home" THEN Saturate(cycles) ELSE cycles
    BY <1>1 DEF Succeeds, CountCycle
  <1>5. CASE pc \in {"inspect", "detect", "align", "approach"}
    <2>1. pc' \in {"detect", "align", "approach", "gripOn"}
      BY <1>4, <1>5 DEF FailsAnyway, NextStep
    <2>2. Off /\ view \subseteq held
      BY <1>1, <1>5 DEF Holding, Empty, Picking
    <2>. QED
      BY <1>1, <1>3, <1>4, <1>5, <2>1, <2>2
         DEF PromptInv, OneCall, Holding, OverPlace, Counting, Ahead, Off, Empty, Picking
  <1>6. CASE pc = "gripOn"
    <2>1. pc' = "waitGrasp" /\ view \subseteq held
      BY <1>1, <1>4, <1>6 DEF FailsAnyway, NextStep, Holding, Picking
    <2>. QED
      BY <1>1, <1>3, <1>4, <1>6, <2>1
         DEF PromptInv, OneCall, Holding, OverPlace, Counting, Ahead, Empty, Picking
  <1>7. CASE pc \in {"lift", "place"}
    <2>1. pc' = (IF pc = "lift" THEN "place" ELSE "release") /\ Carries
      BY <1>1, <1>4, <1>7 DEF FailsAnyway, NextStep, Holding
    <2>2. pc = "place" => at' = target /\ target' = target
      BY <1>1, <1>7 DEF Ends, Succeeds, Destination, Motions, Suctions
    <2>. QED
      BY <1>1, <1>3, <1>4, <1>7, <2>1, <2>2
         DEF PromptInv, OneCall, Holding, OverPlace, Counting, Ahead, Carries, Empty,
             Picking
  <1>8. CASE pc = "release"
    <2>1. pc' = "home" /\ Off /\ Ahead
      BY <1>1, <1>3, <1>4, <1>8 DEF FailsAnyway, NextStep, Holding, Counting
    <2>. QED
      BY <1>1, <1>3, <1>4, <1>8, <2>1
         DEF PromptInv, OneCall, Holding, OverPlace, Counting, Ahead, Off, Picking
  <1>9. CASE pc \in {"startHome", "home", "rsHome", "backOutNoContact", "homeNoGrasp",
                     "backOutNoGrasp", "gripOffNoGrasp", "rsOff"}
    <2>1. pc' \in {"top", "homeNoGrasp", "backOutNoGrasp", "rsHome"} /\ Off
      BY <1>1, <1>3, <1>4, <1>9 DEF FailsAnyway, NextStep, Holding, Empty
    <2>2. cycles' <= placed
      BY <1>1, <1>4 DEF Counting, Ahead, Saturate
    <2>. QED
      BY <1>1, <1>3, <2>1, <2>2
         DEF PromptInv, OneCall, Holding, OverPlace, Counting, Off, Picking
  <1>. QED
    BY <1>1, <1>5, <1>6, <1>7, <1>8, <1>9 DEF Motions, Suctions

(* ... when the gripper deals with a call, or captures a box,              *)
LEMMA PromptGrips ==
  ASSUME TypeOK, PromptInv, GripperExecutes
  PROVE  PromptInv'
  <1>. USE DEF gripperVars, worldVars, opVars, nodeVars, workerVars, history
  <1>1. /\ calls = <<[on |-> pc = "gripOn", anywhere |-> pc # "release"]>>
        /\ OneCall /\ Holding /\ OverPlace /\ Counting /\ calling /\ pc \in Suctions
        /\ cycles \in 0..MaxCycles /\ placed \in 0..MaxCycles
        /\ UNCHANGED <<pc, calling, view, restart, cycles, at>>
    BY DEF PromptInv, OneCall, GripperExecutes, TypeOK
  <1>2. (Head(calls).on <=> pc = "gripOn") /\ Tail(calls) = <<>>
    <2>. DEFINE new == [on |-> pc = "gripOn", anywhere |-> pc # "release"]
    <2>1. new.on <=> pc = "gripOn"
      OBVIOUS
    <2>2. calls = <<new>>
      BY <1>1
    <2>. HIDE DEF new
    <2>3. Head(calls) = new /\ Tail(calls) = <<>>
      BY <2>2
    <2>. QED
      BY <2>1, <2>3
  <1>3. calls' = <<>> /\ Answered'
    BY <1>1, <1>2 DEF GripperExecutes, Answered
  <1>4. ~Answered
    BY <1>1 DEF Answered, GripperExecutes
  <1>5. IF pc = "gripOn" THEN held' = held ELSE Off'
    BY <1>2 DEF GripperExecutes, Suction!SwitchOn, Suction!SwitchOff, Off
  <1>6. Holding'
    BY <1>1, <1>3, <1>5 DEF Holding, Suctions, Off, Empty, Picking
  <1>7. Counting'
    <2>1. /\ placed <= placed' /\ placed' \in 0..MaxCycles
      BY <1>1, SaturateFacts DEF GripperExecutes
    <2>2. pc = "release" => placed' = Saturate(placed)
      BY <1>1, <1>4, <1>5 DEF GripperExecutes, Holding, Carries, Off, OverPlace
    <2>3. Saturate(placed) > placed \/ Saturate(placed) = MaxCycles
      BY <1>1, SaturateFacts
    <2>4. /\ cycles' <= placed' /\ pc' # "home"
          /\ cycles \in Nat /\ placed \in Nat /\ cycles <= placed
      BY <1>1, <2>1, DemoAssumption DEF Counting, Suctions
    <2>5. pc = "release" => Ahead'
      BY <1>1, <2>1, <2>2, <2>3, <2>4, DemoAssumption DEF Ahead
    <2>. QED
      BY <1>1, <2>4, <2>5 DEF Counting
  <1>. QED
    BY <1>1, <1>3, <1>6, <1>7 DEF PromptInv, OneCall, OverPlace

(* ... and with the other callbacks.                                       *)
LEMMA PromptCalls ==
  ASSUME TypeOK, PromptInv, StrayInv, Callbacks
  PROVE  PromptInv'
  <1>. USE DEF gripperVars, worldVars, opVars, nodeVars, workerVars, history
  <1>1. OneCall /\ Holding /\ OverPlace /\ Counting
    BY DEF PromptInv
  <1>2. CASE GripperExecutes
    BY <1>2, PromptGrips
  <1>3. CASE Capture
    <2>1. /\ UNCHANGED <<pc, calling, calls, at, view, restart, cycles, placed, suction>>
          /\ suction /\ Box \notin held /\ held \subseteq held'
      BY <1>3 DEF Capture, CanCapture, Suction!Capture
    <2>2. ~Off /\ ~Carries
      BY <2>1 DEF Off, Carries
    <2>3. Holding'
      BY <1>1, <2>1, <2>2 DEF Holding, Answered
    <2>. QED
      BY <1>1, <2>1, <2>3 DEF PromptInv, OneCall, OverPlace, Counting, Ahead, Answered
  <1>4. CASE OnGripperState
    <2>1. /\ UNCHANGED <<pc, calling, calls, at, held, restart, cycles, placed, suction>>
          /\ view' = held
      BY <1>4 DEF OnGripperState
    <2>2. Holding'
      BY <1>1, <2>1 DEF Holding, Off, Carries, Answered
    <2>. QED
      BY <1>1, <2>1, <2>2 DEF PromptInv, OneCall, OverPlace, Counting, Ahead, Answered
  <1>5. ASSUME UNCHANGED <<pc, calling, calls, at, held, view, cycles, placed, suction>>,
               restart => restart'
        PROVE  PromptInv'
    <2>1. Holding'
      BY <1>1, <1>5 DEF Holding, Off, Carries, Answered
    <2>. QED
      BY <1>1, <1>5, <2>1 DEF PromptInv, OneCall, OverPlace, Counting, Ahead, Answered
  <1>6. CASE OnRestart
    BY <1>5, <1>6 DEF OnRestart
  <1>7. CASE ArmLeaves
    <2>1. /\ UNCHANGED <<pc, calling, calls, held, view, restart, cycles, placed, suction>>
          /\ stray # "none" \/ pc \in Motions
      BY <1>7 DEF ArmLeaves
    <2>2. Holding' /\ pc # "release"
      BY <1>1, <2>1 DEF Holding, Off, Carries, Answered, StrayInv, Motions
    <2>. QED
      BY <1>1, <2>1, <2>2 DEF PromptInv, OneCall, OverPlace, Counting, Ahead, Answered
  <1>8. ASSUME NEW arrives \in BOOLEAN, StrayEnds(arrives) PROVE PromptInv'
    <2>1. /\ UNCHANGED <<pc, calling, calls, held, view, restart, cycles, placed, suction>>
          /\ stray # "none"
      BY <1>8 DEF StrayEnds
    <2>2. Holding' /\ pc # "release"
      BY <1>1, <2>1 DEF Holding, Off, Carries, Answered, StrayInv
    <2>. QED
      BY <1>1, <2>1, <2>2 DEF PromptInv, OneCall, OverPlace, Counting, Ahead, Answered
  <1>. QED
    BY <1>2, <1>3, <1>4, <1>5, <1>6, <1>7, <1>8
       DEF Callbacks, OnLineState, OnSetEnabled, OnResetReads, OnResetWrites, BoxArrives

(* PromptInv is kept by every step of the demo with a prompt gripper.      *)
LEMMA PromptKept ==
  ASSUME TypeOK, PromptInv, StrayInv, [PromptStep]_vars
  PROVE  PromptInv'
  <1>1. CASE UNCHANGED vars
    BY <1>1 DEF vars, nodeVars, workerVars, gripperVars, worldVars, opVars, history,
                PromptInv, OneCall, Holding, OverPlace, Counting, Ahead, Off, Carries,
                Answered
  <1>. QED
    BY <1>1, PromptTurns, PromptBegins, PromptEnds, PromptCalls DEF PromptStep, Works

-----------------------------------------------------------------------------
(* The theorems.                                                           *)

(* Every variable keeps its type.                                          *)
THEOREM TypeCorrect == Spec => []TypeOK
  <1>1. Init => TypeOK
    BY TypeInit
  <1>2. TypeOK /\ [Next]_vars => TypeOK'
    BY NextFacts, TypeStep
  <1>. QED
    BY <1>1, <1>2, PTL DEF Spec

(* A carried box is let go only over a place node, or by a call that may   *)
(* let go anywhere, however late the gripper gets to the calls.            *)
THEOREM DropsWhereMeant == Spec => DropsOnlyWhereMeant
  <1>1. Init => LooseInv
    BY LooseInit
  <1>2. TypeOK /\ LooseInv /\ [Next]_vars => LooseInv'
    BY NextFacts, LooseStep
  <1>3. TypeOK /\ LooseInv /\ [Next]_vars
          => [(Box \in held \ held')
               => at \in Places \cup {"contact"} \/ Head(calls).anywhere]_vars
    BY NextFacts, DropsFact
  <1>. QED
    BY <1>1, <1>2, <1>3, TypeCorrect, PTL DEF Spec, DropsOnlyWhereMeant

(* After a failure nothing is asked of the others until a reset or a       *)
(* restart has acknowledged it, also if the worker runs in between the     *)
(* halves of _on_reset.                                                    *)
THEOREM StopsAfterFailure == Spec => FailureStops
  <1>1. Init => AckInv
    BY DEF Init, AckInv
  <1>2. TypeOK /\ AckInv /\ [Next]_vars => AckInv'
    BY NextFacts, AckStep
  <1>3. TypeOK /\ AckInv /\ [Next]_vars
          => [~calling /\ calling' => ~unacked]_vars
    BY NextFacts, BeginFact
  <1>. QED
    BY <1>1, <1>2, <1>3, TypeCorrect, PTL DEF Spec, FailureStops

(* Of the two settings together: types, the two invariants above, and      *)
(* with a prompt gripper the third.                                        *)
BothInv == TypeOK /\ LooseInv /\ (setting = "prompt" => PromptInv)

LEMMA BothInit == MCInit => BothInv
  <1>1. Prompt!Init => Init
    BY DEF Prompt!Init, Init
  <1>. QED
    BY <1>1, TypeInit, LooseInit, PromptInit DEF MCInit, BothInv

LEMMA BothSteps ==
  ASSUME BothInv, [MCNext]_<<vars, setting>>
  PROVE  [AnyStep]_vars /\ (setting = "prompt" => [PromptStep]_vars)
         /\ setting' = setting
  BY NextFacts, PromptFacts DEF BothInv, MCNext, AnyStep

LEMMA BothStep ==
  ASSUME BothInv, [MCNext]_<<vars, setting>>
  PROVE  BothInv'
  BY BothSteps, TypeStep, LooseStep, PromptKept DEF BothInv, LooseInv

LEMMA BothKept == MCSpec => []BothInv
  <1>1. BothInv /\ [MCNext]_<<vars, setting>> => BothInv'
    BY BothStep
  <1>. QED
    BY <1>1, BothInit, PTL DEF MCSpec

(* With a prompt gripper every cycle that is counted has put a box down at *)
(* a place node, and no pick sets out with a box in the gripper.           *)
THEOREM CyclesTrueWhenPrompt == MCSpec => []CyclesWhenPrompt
  <1>1. BothInv => CyclesWhenPrompt
    BY DEF BothInv, PromptInv, Counting, Holding, Empty, Off, CyclesWhenPrompt,
           CountedIsPlaced, PickStartsEmpty
  <1>. QED
    BY <1>1, BothKept, PTL

(* ... and a restart that is through without an error has dropped          *)
(* everything.                                                             *)
THEOREM RestartDropsWhenPrompt == MCSpec => DropsWhenPrompt
  <1>1. BothInv => [setting = "prompt" /\ pc = "rsHome" /\ pc' = "top" /\ ~error'
                     => held = {}]_vars
    BY DEF BothInv, PromptInv, Holding, Empty, Off
  <1>. QED
    BY <1>1, BothKept, PTL DEF MCSpec, DropsWhenPrompt
=============================================================================
