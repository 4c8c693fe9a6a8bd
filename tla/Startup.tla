------------------------------ MODULE Startup ------------------------------
(***************************************************************************)
(* How one stack of the workcell comes up - the arm, a pallet belt or the  *)
(* infeed belt.  The launch files start its nodes together and two of them *)
(* by timers: the spawner of its controllers, and a belt's speed relay two *)
(* seconds later.  Nothing waits for anything but by its own time-outs.    *)
(*                                                                         *)
(* Time is counted from when the stack is launched.                        *)
(***************************************************************************)
EXTENDS Integers, Sequences

CONSTANTS
  ArmDelay, BeltDelay,  \* periods of the TimerActions of the spawners
  RelayLag,             \* from the spawner to the relay
  ManagerTimeout,       \* --controller-manager-timeout
  SwitchTimeout,        \* --switch-timeout
  Initial,              \* belt_speed, the relay's initial_speed
  BeltSpeeds,           \* others that a belt is asked for
  MaxInbox,             \* bound: messages that wait for the relay
  None                  \* nothing said yet

ASSUME StartupAssumption ==
  /\ {ArmDelay, BeltDelay, RelayLag, ManagerTimeout, SwitchTimeout, MaxInbox}
       \subseteq Nat \ {0}
  /\ BeltSpeeds \cup {Initial} \subseteq Int /\ None \notin BeltSpeeds \cup {Initial, 0}

VARIABLES
  \* the setting, fixed
  kind,       \* "arm", "pallet" or "infeed"
  sim,        \* Gazebo, or hardware?
  prompt,     \* is the manager up before the spawner, and the spawner done
              \* before the relay?
  heard,      \* does a new publisher's first message arrive?
  now,
  \* what the spawner waits for
  world, described, model, manager,
  spawner, since, active,
  \* a belt
  relay, inbox, belt,
  line,       \* the speed the infeed line controller asks for
  \* the users: what the relay heard last, and have they stopped?
  asked, quiet

setting == <<kind, sim, prompt, heard>>
plant == <<world, described, model, manager>>
spawnVars == <<spawner, since, active>>
beltVars == <<relay, inbox, belt, line, asked>>
startVars == <<setting, now, plant, spawnVars, beltVars, quiet>>

-----------------------------------------------------------------------------
Delay == IF kind = "arm" THEN ArmDelay ELSE BeltDelay

ArmControllers == <<"joint_state_broadcaster", "gp70l_joint_trajectory_controller">>
BeltControllers == <<"joint_state_broadcaster", "belt_velocity_controller">>
Controllers == IF kind = "arm" THEN ArmControllers ELSE BeltControllers

(* They are activated one after the other, the one that moves things last. *)
Active == active = Len(Controllers)

(* Which timers are due, and whether the spawner's patience is over.       *)
SpawnerDue == spawner = "no" /\ now >= Delay
RelayTooEarly == relay = "no" /\ kind # "arm" /\ now >= Delay  \* mutant
RelayDue == relay = "no" /\ kind # "arm" /\ now >= Delay + RelayLag

OutOfPatience == \/ spawner = "waits" /\ now - since >= ManagerTimeout
                 \/ spawner = "switches" /\ now - since >= SwitchTimeout

Punctual == /\ now + 1 >= Delay => manager
            /\ now + 1 >= Delay + RelayLag => spawner = "done"

(* Time has nothing more to say once the spawner and the relay are there.  *)
TimePasses ==
  /\ spawner \notin {"done", "died"} \/ (kind # "arm" /\ relay = "no")
  /\ ~SpawnerDue /\ ~RelayDue /\ ~OutOfPatience
  /\ prompt => Punctual
  /\ now' = now + 1
  /\ UNCHANGED <<setting, plant, spawnVars, beltVars, quiet>>

-----------------------------------------------------------------------------
(* From Gazebo to a controller manager, in any time or never.              *)

WorldUp ==
  /\ ~world /\ world' = TRUE
  /\ UNCHANGED <<setting, now, described, model, manager, spawnVars, beltVars, quiet>>

Describe ==
  /\ ~described /\ described' = TRUE
  /\ UNCHANGED <<setting, now, world, model, manager, spawnVars, beltVars, quiet>>

(* ros_gz_sim create, from the topic robot_description.                    *)
CreateModel ==
  /\ sim /\ world /\ described /\ ~model /\ model' = TRUE
  /\ UNCHANGED <<setting, now, world, described, manager, spawnVars, beltVars, quiet>>

(* In Gazebo the manager is a plugin of the model, else ros2_control_node. *)
ManagerUp ==
  /\ ~manager /\ (sim => model) /\ manager' = TRUE
  /\ UNCHANGED <<setting, now, world, described, model, spawnVars, beltVars, quiet>>

-----------------------------------------------------------------------------
(* The controller spawner.                                                 *)

LaunchSpawner ==
  /\ SpawnerDue /\ spawner' = "waits" /\ since' = now
  /\ UNCHANGED <<setting, now, plant, active, beltVars, quiet>>

SpawnerFinds ==
  /\ spawner = "waits" /\ manager /\ spawner' = "switches" /\ since' = now
  /\ UNCHANGED <<setting, now, plant, active, beltVars, quiet>>

Activate ==
  /\ spawner = "switches" /\ active' = active + 1 /\ since' = now
  /\ spawner' = IF active' = Len(Controllers) THEN "done" ELSE "switches"
  /\ UNCHANGED <<setting, now, plant, beltVars, quiet>>

SpawnerGivesUp ==
  /\ OutOfPatience /\ spawner' = "died"
  /\ UNCHANGED <<setting, now, plant, since, active, beltVars, quiet>>

-----------------------------------------------------------------------------
(* A belt: its relay, and the infeed line controller in front of it.       *)

LaunchRelay ==
  /\ RelayDue /\ relay' = "starts"
  /\ UNCHANGED <<setting, now, plant, spawnVars, inbox, belt, line, asked, quiet>>

(* The controller keeps the last velocity it got, for ever.                *)
Publish(speed) == belt' = IF Active THEN speed ELSE belt

RelaySubscribes ==
  /\ relay = "starts" /\ relay' = "subscribed"
  /\ UNCHANGED <<setting, now, plant, spawnVars, inbox, belt, line, asked, quiet>>

RelayBootstraps ==
  /\ relay = "subscribed" /\ relay' = "runs"
  /\ IF heard THEN Publish(Initial) ELSE UNCHANGED belt
  /\ UNCHANGED <<setting, now, plant, spawnVars, inbox, line, asked, quiet>>

OnTargetSpeed ==
  /\ relay = "runs" /\ inbox # <<>> /\ inbox' = Tail(inbox)
  /\ Publish(Head(inbox))
  /\ UNCHANGED <<setting, now, plant, spawnVars, relay, line, asked, quiet>>

(* A message on the topic the relay listens to.                            *)
Tell(speed) ==
  IF relay \in {"subscribed", "runs"}
    THEN /\ Len(inbox) < MaxInbox
         /\ inbox' = Append(inbox, speed) /\ asked' = speed
    ELSE UNCHANGED <<inbox, asked>>

(* A slider moves: target_speed is the relay's topic or the controller's.  *)
Ask(speed) ==
  /\ ~quiet
  /\ \/ kind = "pallet" /\ Tell(speed) /\ UNCHANGED line
     \/ /\ kind = "infeed" /\ line # None /\ line' = speed
        /\ UNCHANGED <<inbox, asked>>
  /\ UNCHANGED <<setting, now, plant, spawnVars, relay, belt, quiet>>

(* infeed_line.launch.py, at any time; its speed is its own running_speed. *)
LaunchLine(speed) ==
  /\ kind = "infeed" /\ ~quiet /\ line = None /\ line' = speed
  /\ UNCHANGED <<setting, now, plant, spawnVars, relay, inbox, belt, asked, quiet>>

SendOnce ==  \* mutant: a command is not repeated
  /\ line # None /\ line # asked /\ inbox = <<>> /\ asked' = line
  /\ inbox' = IF relay \in {"subscribed", "runs"} THEN Append(inbox, line) ELSE inbox
  /\ UNCHANGED <<setting, now, plant, spawnVars, relay, belt, line, quiet>>

(* _send_command, on a change and every second.                            *)
RepeatCommand ==
  /\ line # None /\ Tell(line)
  /\ UNCHANGED <<setting, now, plant, spawnVars, relay, belt, line, quiet>>

BecomeQuiet ==
  /\ ~quiet /\ quiet' = TRUE
  /\ UNCHANGED <<setting, now, plant, spawnVars, beltVars>>

-----------------------------------------------------------------------------
StartInit ==
  /\ kind \in {"arm", "pallet", "infeed"}
  /\ sim \in BOOLEAN /\ prompt \in BOOLEAN /\ heard \in BOOLEAN
  /\ now = 0 /\ world \in BOOLEAN /\ (world => sim)
  /\ described = FALSE /\ model = FALSE /\ manager = FALSE
  /\ spawner = "no" /\ since = 0 /\ active = 0
  /\ relay = "no" /\ inbox = <<>> /\ belt = 0 /\ line = None
  /\ asked = None /\ quiet = FALSE

Plant == (sim /\ WorldUp) \/ Describe \/ CreateModel \/ ManagerUp
Spawner == LaunchSpawner \/ SpawnerFinds \/ Activate \/ SpawnerGivesUp
Relay == LaunchRelay \/ RelaySubscribes \/ RelayBootstraps \/ OnTargetSpeed
Users == BecomeQuiet \/ \E speed \in BeltSpeeds : Ask(speed) \/ LaunchLine(speed)

StartNext == TimePasses \/ Plant \/ Spawner \/ Relay \/ Users \/ RepeatCommand

StartSpec == StartInit /\ [][StartNext]_startVars

(* Time passes, timers fire, processes start and read their messages; a    *)
(* switch may take for ever, and so may Gazebo.                            *)
StartFairSpec ==
  /\ StartSpec
  /\ WF_startVars(TimePasses)
  /\ WF_startVars(LaunchSpawner) /\ WF_startVars(SpawnerFinds)
  /\ WF_startVars(SpawnerGivesUp)
  /\ WF_startVars(Relay) /\ SF_startVars(RepeatCommand)

-----------------------------------------------------------------------------
(* Two seconds are enough for the relay's first and only word, and it has  *)
(* the first and never the last: where the spawner is done in that time    *)
(* and the word arrives, a belt turns at belt_speed, or at what its relay  *)
(* was told since.                                                         *)
StartsTurning ==
  prompt /\ heard /\ relay = "runs" /\ inbox = <<>>
    => belt = (IF asked = None THEN Initial ELSE asked)

(* However late everything is: the spawner ends, and unless it died, the   *)
(* infeed belt ends up doing what its line controller says - whichever of  *)
(* the two was there first, and although the relay forgets what it said to *)
(* nobody.                                                                 *)
ComesUp ==
  /\ prompt \/ <>(spawner \in {"done", "died"})
  /\ quiet /\ line # None /\ spawner = "done" ~> belt = line
=============================================================================
