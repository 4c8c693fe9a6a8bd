----------------------------- MODULE BoxFactory -----------------------------
(***************************************************************************)
(* box_factory: spawns a stream of boxes onto the infeed belt while the    *)
(* feeding line runs, one at a time in the spawn area.                     *)
(*                                                                         *)
(* One thread runs the timer and the ROS callbacks and blocks while Gazebo *)
(* answers /create; a gz-transport thread replaces the known boxes.  What  *)
(* a box looks like is left out, and of its place it matters whether it is *)
(* in the spawn area.  Boxes are named 1, 2, ... as _name_counter goes.    *)
(***************************************************************************)
EXTENDS Naturals, FiniteSets

CONSTANTS
  MaxName,      \* bound on _name_counter
  FollowLine,   \* follow_line
  MayRefuse,    \* may Gazebo refuse to create a box?
  MayTimeOut,   \* may /create outlast GZ_SERVICE_TIMEOUT_MS?
  MayLag,       \* may a whole tick (0.1 s) pass without a pose message?
  MayGoSilent,  \* may the line's controller fall silent?
  MaxRestarts   \* how often the node may be restarted

Names == 1..MaxName

ASSUME FactoryAssumption ==
  /\ {MaxName, MaxRestarts} \subseteq Nat
  /\ {FollowLine, MayRefuse, MayTimeOut, MayLag, MayGoSilent} \subseteq BOOLEAN

VARIABLES
  enabled, wasEnabled,
  lineState,     \* the last message on line/state: does the belt move?
  lineFresh,     \* and is it younger than line_state_timeout_sec?
  linePaused, areaBlocked,
  spawnDue,      \* _next_spawn has come
  nameCounter,
  pending,       \* _pending
  overdue,       \* those of it that are older than PENDING_TIMEOUT_SEC
  announced,     \* the boxes published on spawned
  dropped,       \* history: those logged as "never appeared in Gazebo"
  creating,      \* the box /create is being asked for, 0 for none
  seen, seenInArea,  \* _box_names, and those of them in the spawn area
  posesNew,     \* a pose message has come since the last tick
  \* the world
  box,           \* of each name: not in the world, in the spawn area, or past it
  late,          \* boxes whose timed-out creation may still be carried out
  lineMoves,     \* does the belt move?
  restarts

lineVars  == <<lineState, lineFresh>>
tickVars  == <<wasEnabled, linePaused, areaBlocked, spawnDue>>
boxVars   == <<nameCounter, pending, overdue, announced, dropped,
               creating>>
seenVars  == <<seen, seenInArea, posesNew>>
worldVars == <<box, late, lineMoves>>
vars == <<enabled, lineVars, tickVars, boxVars, seenVars, worldVars, restarts>>

Created == {n \in Names : box[n] # "absent"}
InArea  == {n \in Names : box[n] = "area"}

Idle == creating = 0

-----------------------------------------------------------------------------
(* Messages and parameters.                                                *)

(* _on_gz_poses *)
OnGzPoses ==
  /\ seen' = Created /\ seenInArea' = InArea /\ posesNew' = TRUE
  /\ UNCHANGED <<enabled, lineVars, tickVars, boxVars, worldVars, restarts>>

(* _on_line_state; the topic is latched and its latest message is current. *)
OnLineState ==
  /\ Idle
  /\ lineState' = IF lineMoves THEN "moves" ELSE "stands"
  /\ lineFresh' = TRUE
  /\ UNCHANGED <<enabled, tickVars, boxVars, seenVars, worldVars, restarts>>

LineSilent ==
  /\ MayGoSilent /\ lineFresh
  /\ lineFresh' = FALSE
  /\ UNCHANGED <<enabled, lineState, tickVars, boxVars, seenVars, worldVars,
                 restarts>>

SetEnabled(on) ==
  /\ Idle
  /\ enabled' = on
  /\ UNCHANGED <<lineVars, tickVars, boxVars, seenVars, worldVars, restarts>>

NeverResumes ==  \* mutant: a paused factory does not look at the line again
  /\ ~linePaused
  /\ lineState # "none" /\ lineFresh => lineState = "moves"

(* _line_allows_spawn: without a (recent) word from the line, yes.         *)
LineAllowsSpawn ==
  FollowLine /\ lineState # "none" /\ lineFresh => lineState = "moves"

-----------------------------------------------------------------------------
(* Time.                                                                   *)

(* The gap to the next box is over.                                        *)
SpawnDue ==
  /\ ~spawnDue
  /\ spawnDue' = TRUE
  /\ UNCHANGED <<enabled, lineVars, wasEnabled, linePaused, areaBlocked, boxVars,
                 seenVars, worldVars, restarts>>

(* A box waits for its appearance longer than PENDING_TIMEOUT_SEC.         *)
PendingOverdue(n) ==
  /\ n \in pending \ overdue
  /\ overdue' = overdue \cup {n}
  /\ UNCHANGED <<enabled, lineVars, tickVars, nameCounter, pending, announced,
                 dropped, creating, seenVars, worldVars, restarts>>

-----------------------------------------------------------------------------
(* The timer.                                                              *)

NextNumber(taken) == nameCounter + 1  \* mutant: names are not compared

(* _next_box_name: the counter goes on until the name is new.              *)
NameAfter(taken) ==
  CHOOSE n \in Names : /\ n > nameCounter /\ n \notin taken
                       /\ \A k \in (nameCounter + 1)..(n - 1) : k \in taken

NamesLeft(taken) == \E n \in Names : n > nameCounter /\ n \notin taken

NeverLooks ==  \* mutant: a pending box that has appeared is forgotten
  /\ announced' = announced
  /\ pending' = pending \ (seen \cup overdue)
  /\ dropped' = dropped \cup (overdue \ seen)
  /\ overdue' = {}

(* _confirm_pending *)
ConfirmPending ==
  /\ announced' = announced \cup (pending \cap seen)
  /\ pending' = pending \ (seen \cup overdue)
  /\ dropped' = dropped \cup (overdue \ seen)
  /\ overdue' = {}

(* _spawn up to its request: Gazebo is asked for the next box.             *)
AskForBox ==
  /\ nameCounter' = NameAfter(seen \cup pending')
  /\ creating' = nameCounter'

(* Is the next box due?  At once when the stream is switched on; a line    *)
(* that runs again begins with a full gap.                                 *)
DueAtTick ==
  /\ spawnDue \/ (enabled /\ ~wasEnabled)
  /\ ~(linePaused /\ LineAllowsSpawn)

WantsBox == enabled /\ LineAllowsSpawn /\ DueAtTick

LastVerdict == areaBlocked  \* mutant: the verdict of the tick before

(* _spawn_area_blocked *)
SpawnAreaBlocked == seenInArea # {}

(* _on_tick *)
OnTick ==
  /\ Idle
  /\ MayLag \/ posesNew
  /\ wasEnabled' = enabled
  /\ linePaused' = ~LineAllowsSpawn
  /\ areaBlocked' = SpawnAreaBlocked
  /\ ConfirmPending
  /\ spawnDue' = DueAtTick
  /\ posesNew' = FALSE
  /\ IF WantsBox /\ ~SpawnAreaBlocked /\ NamesLeft(seen \cup pending')
       THEN AskForBox
       ELSE UNCHANGED <<nameCounter, creating>>
  /\ UNCHANGED <<enabled, lineVars, seen, seenInArea, worldVars, restarts>>

-----------------------------------------------------------------------------
(* _spawn after the request; the callback returns and a new gap begins.    *)

Answered ==
  /\ creating' = 0 /\ spawnDue' = FALSE
  /\ posesNew' = FALSE /\ UNCHANGED <<seen, seenInArea>>

(* Of a name that is taken Gazebo makes no second box - and says nothing.  *)
Appear(n) == box' = IF box[n] = "absent" THEN [box EXCEPT ![n] = "area"] ELSE box

CreateOk ==
  /\ ~Idle
  /\ Appear(creating)
  /\ announced' = announced \cup {creating}
  /\ Answered
  /\ UNCHANGED <<enabled, lineVars, wasEnabled, linePaused, areaBlocked,
                 nameCounter, pending, overdue, dropped, late, lineMoves,
                 restarts>>

CreateRefused ==
  /\ MayRefuse
  /\ ~Idle
  /\ Answered
  /\ UNCHANGED <<enabled, lineVars, wasEnabled, linePaused, areaBlocked,
                 nameCounter, pending, overdue, announced, dropped, worldVars,
                 restarts>>

CreateTimedOut ==
  /\ MayTimeOut
  /\ ~Idle
  /\ pending' = pending \cup {creating}
  /\ late' = late \cup {creating}
  /\ Answered
  /\ UNCHANGED <<enabled, lineVars, wasEnabled, linePaused, areaBlocked,
                 nameCounter, overdue, announced, dropped, box, lineMoves,
                 restarts>>

-----------------------------------------------------------------------------
(* Gazebo and the belt.                                                    *)

(* A creation that was not answered in time is carried out, or lost.       *)
CreatedLate(n, lost) ==
  /\ n \in late
  /\ late' = late \ {n}
  /\ IF lost THEN UNCHANGED box ELSE Appear(n)
  /\ UNCHANGED <<enabled, lineVars, tickVars, boxVars, seenVars, lineMoves,
                 restarts>>

BoxMovesOn(n) ==
  /\ lineMoves /\ box[n] = "area"
  /\ box' = [box EXCEPT ![n] = "past"]
  /\ UNCHANGED <<enabled, lineVars, tickVars, boxVars, seenVars, late, lineMoves,
                 restarts>>

LineSwitches ==
  /\ lineMoves' = ~lineMoves
  /\ UNCHANGED <<enabled, lineVars, tickVars, boxVars, seenVars, box, late,
                 restarts>>

(* A new factory process: nothing is remembered, the boxes are still there. *)
(* To be stopped during a request is to miss its answer, as by a time-out.  *)
Restart ==
  /\ restarts < MaxRestarts
  /\ Idle \/ MayTimeOut
  /\ restarts' = restarts + 1
  /\ enabled' \in BOOLEAN /\ wasEnabled' = FALSE
  /\ lineState' = "none" /\ lineFresh' = FALSE
  /\ linePaused' = FALSE /\ areaBlocked' = FALSE /\ spawnDue' = TRUE
  /\ nameCounter' = 0 /\ pending' = {} /\ overdue' = {} /\ announced' = {}
  /\ dropped' = {} /\ creating' = 0
  /\ seen' = {} /\ seenInArea' = {} /\ posesNew' = FALSE
  /\ late' = IF Idle THEN late ELSE late \cup {creating}
  /\ UNCHANGED <<box, lineMoves>>

-----------------------------------------------------------------------------
Init ==
  /\ enabled \in BOOLEAN /\ wasEnabled = FALSE
  /\ lineState = "none" /\ lineFresh = FALSE
  /\ linePaused = FALSE /\ areaBlocked = FALSE /\ spawnDue = TRUE
  /\ nameCounter = 0 /\ pending = {} /\ overdue = {} /\ announced = {}
  /\ dropped = {} /\ creating = 0
  /\ seen = {} /\ seenInArea = {} /\ posesNew = FALSE
  /\ box = [n \in Names |-> "absent"] /\ late = {}
  /\ lineMoves \in BOOLEAN
  /\ restarts = 0

Answer == CreateOk \/ CreateRefused \/ CreateTimedOut

Next ==
  \/ OnGzPoses \/ OnLineState \/ LineSilent
  \/ \E on \in BOOLEAN : SetEnabled(on)
  \/ SpawnDue \/ \E n \in Names : PendingOverdue(n)
  \/ OnTick \/ Answer
  \/ \E n \in Names : \/ \E lost \in BOOLEAN : CreatedLate(n, lost)
                      \/ BoxMovesOn(n)
  \/ LineSwitches
  \/ Restart

Spec == Init /\ [][Next]_vars

(* Timers fire, topics deliver, Gazebo answers, and a moving belt moves.   *)
Fairness ==
  /\ WF_vars(OnTick) /\ WF_vars(SpawnDue) /\ WF_vars(Answer)
  /\ WF_vars(OnGzPoses) /\ WF_vars(OnLineState)
  /\ \A n \in Names : /\ WF_vars(BoxMovesOn(n)) /\ WF_vars(PendingOverdue(n))
                      /\ WF_vars(\E lost \in BOOLEAN : CreatedLate(n, lost))

FairSpec == Spec /\ Fairness

-----------------------------------------------------------------------------
(* Every variable has its type.                                            *)
TypeOK ==
  /\ {enabled, wasEnabled, lineFresh, linePaused, areaBlocked, spawnDue,
      posesNew, lineMoves} \subseteq BOOLEAN
  /\ lineState \in {"none", "moves", "stands"}
  /\ nameCounter \in 0..MaxName /\ creating \in 0..MaxName
  /\ pending \subseteq Names /\ overdue \subseteq pending
  /\ announced \subseteq Names /\ dropped \subseteq Names
  /\ seen \subseteq Names /\ seenInArea \subseteq seen
  /\ box \in [Names -> {"absent", "area", "past"}]
  /\ late \subseteq Names
  /\ restarts \in 0..MaxRestarts

(* "No box is spawned while another box is still inside the spawn area":   *)
(* two boxes are never in it together.                                     *)
NoStacking == Cardinality(InArea) <= 1

(* "Skip names already in the world": Gazebo is never asked for a box by   *)
(* the name of one that is there.                                          *)
NameIsNew == creating \notin Created

(* A box whose creation was not answered is not forgotten: every box in the *)
(* world is announced on spawned, so that the gripper learns its height, or *)
(* is one the factory gave up and said so; and one that has been seen while *)
(* it was waited for is announced, overdue or not.                         *)
EveryBoxAnnounced ==
  \A n \in Names :
    /\ box[n] # "absent" ~> n \in announced \cup dropped
    /\ n \in pending \cap seen ~> n \in announced

(* A stopped line "pauses the factory, and it resumes by itself when the   *)
(* line restarts": boxes keep coming, as long as there are names.          *)
ResumesByItself ==
  <>[](enabled /\ lineMoves /\ lineFresh)
    => <>(nameCounter = MaxName)
=============================================================================
