---------------------------- MODULE TeleopPanel ----------------------------
(***************************************************************************)
(* workcell_teleop: a Qt window that spins ROS in its own thread, 20 times *)
(* a second.  Its user works on one thing at a time: jogs a joint, or      *)
(* turns one of four devices on and off - the suction gripper by a call    *)
(* that blocks the thread, the feeding line, the box factory and the demo  *)
(* by calls that do not.                                                   *)
(*                                                                         *)
(* A joint position is a number of cells; one cell is what the arm moves   *)
(* in one period of the timers.                                            *)
(***************************************************************************)
EXTENDS Integers, Sequences

CONSTANTS
  Lo, Hi,           \* the limits of the joint
  Home,             \* where Home takes it
  Margin,           \* LIMIT_MARGIN_RAD
  LookAhead,        \* what a jog covers in JOG_LOOKAHEAD_SEC
  MaxRequests,      \* bound: requests under way
  None,             \* no message (any more)
  Restart           \* the request of the demo's second button

Cells == Lo..Hi
Devices == {"gripper", "line", "factory", "demo"}

ASSUME TeleopAssumption ==
  /\ {Lo, Hi, Margin, LookAhead, MaxRequests} \subseteq Int
  /\ Margin \in 0..LookAhead /\ LookAhead > 0 /\ MaxRequests > 0
  /\ Lo + Margin <= Hi - Margin /\ Home \in Cells /\ None \notin Cells
  /\ {None, Restart} \cap BOOLEAN = {}

VARIABLES
  \* the setting, fixed
  task,     \* "jog" or the device that the user turns on and off
  steady,   \* do the devices run all the time?
  calm,     \* does nobody else use them, and the user wait for the panel?
  \* the Qt thread
  qt,       \* "free", or in a blocking call: "waits" for the service, "spins"
  due,      \* timers that have to fire: "ros", "jog"
  \* jogging
  arm, target,  \* the joint, and where the controller takes it
  by,       \* who said so last: "user" by jogging, or "others"
  seen,     \* the last joint state received
  jog,      \* _jog: direction, or 0
  down,     \* is the button down?
  \* a device and its panel
  up, dev,  \* does it run, is it on?
  error, restarting,  \* of the demo
  pub,      \* its latched state
  cache,    \* the last state received, None if it is too old
  shown,    \* what the panel shows it to be
  chip,     \* and the banner on top of the window
  reqs,     \* requests under way
  want,     \* history: what the user last asked for
  quiet     \* will the user and all others leave it as it is from now on?

setting == <<task, steady, calm>>
qtVars == <<qt, due>>
jogVars == <<arm, target, by, seen, jog, down>>
devVars == <<up, dev, error, restarting, pub>>
panelVars == <<cache, shown, chip, reqs, want>>
vars == <<setting, qtVars, jogVars, devVars, panelVars, quiet>>

-----------------------------------------------------------------------------
(* The window's timers, and calls that block them.                         *)

Free == qt = "free"

(* One period passes.  Timers are late only while the thread is blocked;   *)
(* joint states go on arriving while it spins, not while it waits.         *)
Tick ==
  /\ task = "jog" /\ (due = {} \/ ~Free)
  /\ arm' = IF arm < target THEN arm + 1 ELSE IF arm > target THEN arm - 1 ELSE arm
  /\ seen' = IF qt = "spins" THEN arm ELSE seen
  /\ due' = {"ros"} \cup IF jog # 0 THEN {"jog"} ELSE {}
  /\ UNCHANGED <<setting, qt, target, by, jog, down, devVars, panelVars, quiet>>

(* What a panel shows, given the state it has: a silent line or gripper as *)
(* off, a silent factory as before, a demo with its button for Pause.      *)
SwitchShows(state) == state # None /\ state
FactoryShows(state) == IF state = None THEN shown ELSE state
DemoShows(state) == state = None \/ state

Shows(state) == CASE task = "factory" -> FactoryShows(state)
                  [] task = "demo" -> DemoShows(state)
                  [] OTHER -> SwitchShows(state)

RefreshPushes(state) ==  \* mutant: the panel's own update counts as the user's
  /\ shown' = Shows(state)
  /\ reqs' = IF task = "factory" /\ shown' # shown /\ Len(reqs) < MaxRequests
             THEN Append(reqs, shown') ELSE reqs

Refresh(state) == shown' = Shows(state) /\ UNCHANGED reqs

(* The banner shows a silent device as off.                                *)
Chip(state) == state # None /\ state

(* _on_ros_tick, on the device's tab: what has arrived is received.        *)
RosTick ==
  \/ /\ task = "jog" /\ Free /\ "ros" \in due
     /\ due' = due \ {"ros"} /\ seen' = arm
     /\ UNCHANGED <<setting, qt, arm, target, by, jog, down, devVars, panelVars, quiet>>
  \/ /\ task \in Devices /\ Free
     /\ cache' = IF up THEN pub ELSE cache
     /\ Refresh(cache') /\ chip' = Chip(cache')
     /\ UNCHANGED <<setting, qtVars, jogVars, devVars, want, quiet>>

(* _call_service: the click on the gripper's or the spawn button while the *)
(* arm moves.                                                              *)
BlockingCall ==
  /\ task = "jog" /\ Free
  /\ qt' \in {"spins"} \cup IF steady THEN {} ELSE {"waits"}
  /\ UNCHANGED <<setting, due, jogVars, devVars, panelVars, quiet>>

CallReturns ==
  /\ task = "jog" /\ ~Free /\ qt' = "free"
  /\ UNCHANGED <<setting, due, jogVars, devVars, panelVars, quiet>>

-----------------------------------------------------------------------------
(* Hold to jog.                                                            *)

SendJointPosition(cell) == target' = cell /\ by' = "user"

Clamp(cell) == IF cell < Lo + Margin THEN Lo + Margin
               ELSE IF cell > Hi - Margin THEN Hi - Margin ELSE cell

JogsOnTarget(d) ==  \* mutant: built on the last commanded position
  SendJointPosition(Clamp(target + d * LookAhead))

JogOn(d) == IF seen = None THEN UNCHANGED <<target, by>>
            ELSE SendJointPosition(Clamp(seen + d * LookAhead))

Hold == IF seen = None THEN UNCHANGED <<target, by>> ELSE SendJointPosition(seen)

StopJog == jog' = 0 /\ Hold

StartJog(d) ==
  /\ task = "jog" /\ Free /\ ~down /\ down' = TRUE
  /\ jog' = d /\ JogOn(d)
  /\ UNCHANGED <<setting, qtVars, arm, seen, devVars, panelVars, quiet>>

Release ==
  /\ task = "jog" /\ Free /\ down /\ down' = FALSE
  /\ StopJog /\ due' = due \ {"jog"}
  /\ UNCHANGED <<setting, qt, arm, seen, devVars, panelVars, quiet>>

(* "release event lost (focus change, touch)"                              *)
ReleaseLost ==
  /\ task = "jog" /\ Free /\ down /\ down' = FALSE
  /\ UNCHANGED <<setting, qtVars, arm, target, by, seen, jog, devVars, panelVars, quiet>>

KeepsJogging ==  \* mutant: the tick does not look at the button
  /\ task = "jog" /\ Free /\ "jog" \in due /\ due' = due \ {"jog"}
  /\ JogOn(jog)
  /\ UNCHANGED <<setting, qt, arm, seen, down, jog, devVars, panelVars, quiet>>

JogTick ==
  /\ task = "jog" /\ Free /\ "jog" \in due /\ due' = due \ {"jog"}
  /\ \/ (seen = None \/ down) /\ JogOn(jog) /\ UNCHANGED jog
     \/ seen # None /\ ~down /\ StopJog
  /\ UNCHANGED <<setting, qt, arm, seen, down, devVars, panelVars, quiet>>

(* Home, or another program, sends the arm somewhere.                      *)
GoHome ==
  /\ task = "jog" /\ Free /\ seen # None
  /\ target' = Home /\ by' = "others"
  /\ UNCHANGED <<setting, qtVars, arm, seen, jog, down, devVars, panelVars, quiet>>

OthersMove(cell) ==
  /\ task = "jog" /\ target' = cell /\ by' = "others"
  /\ UNCHANGED <<setting, qtVars, arm, seen, jog, down, devVars, panelVars, quiet>>

-----------------------------------------------------------------------------
(* Turning a device on and off.                                            *)

(* The state the device publishes.  A demo that failed says ERROR whether  *)
(* it is enabled or not, and its button then reads Pause.                  *)
Says == dev \/ (task = "demo" /\ error)

(* All that was asked for is done, and the panel shows it.                 *)
Settled == /\ reqs = <<>> /\ Free /\ ~restarting
           /\ pub = Says /\ cache = pub /\ shown = cache
Careful == calm => Settled

(* Line and demo disable their buttons without a state; the gripper's      *)
(* and the factory's stay enabled.                                         *)
Usable == task \in {"gripper", "factory"} \/ cache # None

(* The factory's box is unticked if the factory is not there.              *)
Unticked(show) == show /\ (up \/ task # "factory")

(* Not delivered if the service is not there.                              *)
Deliver(v) == reqs' = IF up THEN Append(reqs, v) ELSE reqs

Request(v, show) ==
  /\ want' = IF v = Restart THEN TRUE ELSE v
  /\ Deliver(v) /\ shown' = Unticked(show)
  /\ UNCHANGED <<setting, due, jogVars, devVars, cache, chip, quiet>>

CanAsk == task \in Devices /\ Free /\ ~quiet /\ Usable /\ Len(reqs) < MaxRequests

(* A click: line, gripper and factory toggle the button, which the next    *)
(* tick resets; the demo's button sends what it reads.                     *)
Click ==
  /\ CanAsk /\ (task = "demo" => Careful)
  /\ Request(~shown, IF task = "demo" THEN shown ELSE ~shown)
  /\ qt' = IF task # "gripper" THEN qt ELSE IF up THEN "spins" ELSE "waits"

(* Another control of the factory panel: the whole panel is pushed.        *)
ChangeSlider == /\ CanAsk /\ Careful /\ task = "factory" /\ UNCHANGED qt
                /\ Deliver(shown) /\ shown' = Unticked(shown)
                /\ UNCHANGED <<setting, due, jogVars, devVars, cache, chip, want, quiet>>

RestartDemo == CanAsk /\ Careful /\ task = "demo" /\ Request(Restart, shown) /\ UNCHANGED qt

(* set_gripper: answered, timed out, or never there - then refresh().      *)
Spin ==
  /\ task = "gripper" /\ qt = "spins"
  /\ cache' = IF up THEN pub ELSE cache
  /\ UNCHANGED <<setting, qtVars, jogVars, devVars, shown, chip, reqs, want, quiet>>

GripperReturns ==
  /\ task = "gripper" /\ ~Free /\ qt' = "free" /\ Refresh(cache)
  /\ UNCHANGED <<setting, due, jogVars, devVars, cache, chip, want, quiet>>

(* The device.                                                             *)
Handle ==
  /\ up /\ reqs # <<>> /\ reqs' = Tail(reqs)
  /\ IF Head(reqs) = Restart THEN restarting' = TRUE /\ UNCHANGED dev
                               ELSE dev' = Head(reqs) /\ UNCHANGED restarting
  /\ UNCHANGED <<setting, qtVars, jogVars, up, error, pub, cache, shown, chip, want, quiet>>

ServeRestart ==
  /\ up /\ restarting /\ restarting' = FALSE /\ dev' = TRUE /\ error' = FALSE
  /\ UNCHANGED <<setting, qtVars, jogVars, up, pub, panelVars, quiet>>

Publish ==
  /\ up /\ pub # Says /\ pub' = Says
  /\ UNCHANGED <<setting, qtVars, jogVars, up, dev, error, restarting, panelVars, quiet>>

OthersTurn ==
  /\ up /\ ~calm /\ ~quiet /\ task \in Devices
  /\ \/ dev' = ~dev /\ UNCHANGED error
     \/ task = "demo" /\ error' = TRUE /\ UNCHANGED dev
  /\ UNCHANGED <<setting, qtVars, jogVars, up, restarting, pub, panelVars, quiet>>

Crash ==
  /\ up /\ ~steady /\ ~quiet /\ task \in Devices /\ up' = FALSE /\ reqs' = <<>>
  /\ restarting' = FALSE /\ error' = FALSE
  /\ UNCHANGED <<setting, qtVars, jogVars, dev, pub, cache, shown, chip, want, quiet>>

StartAgain ==
  /\ ~up /\ ~quiet /\ task \in Devices /\ up' = TRUE /\ dev' \in BOOLEAN /\ (dev' => task # "gripper")
  /\ pub' = dev'
  /\ UNCHANGED <<setting, qtVars, jogVars, error, restarting, panelVars, quiet>>

(* Three seconds without a message, or no service any more; the gripper's  *)
(* state never gets old.                                                   *)
GetsOld ==
  /\ ~up /\ task \in Devices \ {"gripper"} /\ cache' = None
  /\ UNCHANGED <<setting, qtVars, jogVars, devVars, shown, chip, reqs, want, quiet>>

BecomeQuiet == /\ task \in Devices /\ ~quiet /\ quiet' = TRUE
               /\ UNCHANGED <<setting, qtVars, jogVars, devVars, panelVars>>

-----------------------------------------------------------------------------
Init ==
  /\ task \in {"jog"} \cup Devices /\ steady \in BOOLEAN 
  /\ calm \in BOOLEAN /\ (calm => task # "jog")
  /\ qt = "free" /\ due = {}
  /\ arm \in Cells /\ (task # "jog" => arm = Lo)
  /\ target = arm /\ by = "others"
  /\ seen = None /\ jog = 0 /\ down = FALSE
  /\ up = steady /\ dev = FALSE /\ error = FALSE /\ restarting = FALSE
  /\ pub = dev /\ cache = None /\ chip = FALSE /\ shown = (task = "demo")
  /\ reqs = <<>> /\ want = dev /\ quiet = FALSE

Jogs == \/ \E d \in {-1, 1} : StartJog(d)
        \/ Release \/ ReleaseLost \/ GoHome \/ BlockingCall
Timers == Tick \/ RosTick \/ JogTick
Calls == CallReturns \/ Spin \/ GripperReturns
Device == Handle \/ ServeRestart \/ Publish
Uses == Click \/ ChangeSlider \/ RestartDemo \/ BecomeQuiet
Others == \/ \E cell \in Cells : OthersMove(cell)
          \/ OthersTurn \/ Crash \/ StartAgain \/ GetsOld

Next == Jogs \/ Timers \/ Calls \/ Device \/ Uses \/ Others

Spec == Init /\ [][Next]_vars

(* Time passes, Qt serves a due timer between two clicks, calls time out,  *)
(* and a device that runs does its work.                                   *)
FairSpec ==
  /\ Spec /\ SF_vars(Tick) /\ SF_vars(RosTick) /\ SF_vars(JogTick)
  /\ WF_vars(CallReturns) /\ WF_vars(GripperReturns)
  /\ WF_vars(GetsOld) /\ WF_vars(Handle) /\ WF_vars(ServeRestart) /\ WF_vars(Publish)

-----------------------------------------------------------------------------
(* "Built on the measured state, it cannot run away or jump": whatever     *)
(* moved the arm before and whenever the button goes down or up, a jog or  *)
(* a hold asks for a position that is the look-ahead and one period away   *)
(* at most - where the gripper's service is there, so that the panel never *)
(* waits without hearing of joint states.                                  *)
NoJump == steady /\ by = "user" => target - arm \in -(LookAhead + 1)..(LookAhead + 1)

(* For a user who changes sliders and uses the demo's buttons only when    *)
(* the panel shows what was asked for, and otherwise clicks as he likes:   *)
(* when all requests have been worked off, the device is what he wanted,   *)
(* although the panel keeps resetting his clicks to what it last heard.    *)
FollowsTheUser ==
  steady /\ calm /\ Settled => dev = want

(* A jog ends when its button is up, also if nobody was told; and when     *)
(* everybody leaves a device alone, its panel ends up showing what it is,  *)
(* whoever changed it and however often it was started again, and the      *)
(* banner does so even of one that is gone - except a gripper.             *)
ComesToRest ==
  /\ jog # 0 /\ ~down ~> jog = 0 \/ down
  /\ quiet ~> [](/\ up => shown = Says /\ chip = Says
                 /\ up \/ task = "gripper" \/ ~chip)
=============================================================================
