# A formal model of the zero-shot robot workcell

TLA+ modules, TLC runs and TLAPS proofs about the control software of the
workcell in `src/src`: a GP70L arm with a suction gripper that picks boxes from
an infeed belt and puts them down on outfeed belts, in Gazebo, under ROS 2.

Everything is translated from the Python nodes. Definitions carry the names of
the code where TLA+ allows it; `PROJECT.json` maps each of them to its lines.

Contents: [the system](#the-system), [how the modules relate to the
code](#modules), [the runs](#runs), [fairness](#fairness), [proofs](#proofs),
[where the code departs from its documentation](#departures), [what is left
out](#left-out), [plan](#plan).

<a id="the-system"></a>
## The system

All nodes talk over ROS topics, services and actions; gripper manager and box
factory also talk to Gazebo through gz-transport, whose callbacks come on a
thread of their own.

```
 box_factory --spawned--> gripper_manager --gripper/state--> pick_place_demo
      ^  create|poses          ^  joints|poses                |  |      |
      |        Gazebo ---------+                   set_suction+  |      | goals
   line/state    ^ rollers                                       |      v
      |          |                                      detect   |  navigator_server
 infeed_line_controller --line_speed--> belt_speed_relay  vision_+   |  TrajectoryExecutor
      ^ scans (laser beam)                                             v
      +---------------- line/state ---> pick_place_demo        arm controller
```

| Component | State it keeps | Operations | What makes it correct |
|---|---|---|---|
| `infeed_line_controller` | enable flag, mode (DISABLED, RUNNING, BLOCKED, RELEASED), debouncing counters, verdict on the beam, requested speed, command in force | scan, tick, speed request, `set_enabled`, `release` | a held line means standing rollers; nothing starts the belt against a box; noise does not flip the verdict; the line restarts by itself |
| `belt_speed_relay` | the last command | receive, process restart | the rollers follow the command in force |
| `gripper_manager` | suction flag, held boxes, boxes whose joint failed, known heights, tracked poses, footprint of the suction pad | `set_suction`, grasp loop, `spawn_box`, `spawned`, pose messages | suction is latching; what is reported as held is held; a box at the tool is captured; a spawned box is new |
| `pick_place_demo` | enabled, error, restart request, place index, cycle count, and where its worker thread is | `set_enabled`, `restart`, `reset`, the cycle | a carried box drops only where it is meant to; a failure stops the demo until acknowledged; a restart is served; every box is placed |
| `navigator_server`, `TrajectoryExecutor` | the busy lock, the motion being followed, the contact guard | goals, cancels, wrench samples, planning, following a motion | the arm moves for the goal that holds the lock only; success is success; every goal is answered; contact ends a guarded line |
| `box_factory` | enable flag, line gate, spawn area, pending creations, names | tick, pose messages, line state, `set_enabled` | never two boxes in the spawn area; names are new; every box is announced; the stream resumes |
| `navigator_cli` pose graph | nodes, edges, ids, the file | edit, reload, save, shortest path | ends of edges exist; ids are unique; a saved graph reloads; a path is shortest |
| `box_pose_estimator` and `BoxDetectionClient` | latest frames, the lock of the estimate, the message counter of the client | frames, `~/detect`, timer, the estimate, `detect()` | the caller gets its own faces, seen where they are; an estimate finds a face once; every call is answered |
| `gp70l`, `navigator_cli` commands, cuMotion client | a walk along the graph, one goal and its attempts | the commands that move the arm, planning, execution | one motion per goal, into the right configuration; a walk keeps to the edges; a plan starts where the arm is; a command ends |
| `teleop_gui` | last messages, the jog, what its controls show | clicks, jogs, timers, calls that block and calls that do not | no jump, no running away; a device is what the user asked for; the panel shows what is |
| launch files of arm, belts and infeed line | timers, the spawner's patience | start of nodes, spawner, relay | the belt turns; the spawner ends; the infeed belt follows its controller |
| force sensor, collision scene, numerics, other launch files | see `PROJECT.json` | | |

What is hard in it, and hard to test:

- **Two threads in one node.** The demo's worker runs beside its callbacks; the
  gripper's and the factory's poses are replaced by a gz-transport thread while
  their loops work; the navigator runs goals, cancels and wrench samples in one
  reentrant group, with a lock that is looked at before it is taken and a cancel
  that is issued after another lock has been released.
- **Requests given up on and carried out anyway.** `set_suction`, the joint
  install, `/create` and the controller's acceptance all have a time limit, and
  none of them is withdrawn when it passes.
- **Messages of the past.** `gripper/state`, `line/state`, Gazebo's poses and
  queued speed commands are read later than they were true.
- **Shared services.** cuMotion plans for one client at a time, the estimator
  estimates for one, the arm controller follows the last trajectory it got:
  other programs use all three, and a call that was given up goes on.
- **What was looked at before.** A path is shown and the user asked before it is
  driven; a picture is taken and transformed seconds later; a jog starts from the
  last joint state; a checkbox shows the last message.
- **Start by timers.** Nothing in the launch files waits for anything else.
- **Restarts.** Belt relay, gripper manager and box factory learn the world from
  messages and start out knowing nothing, while Gazebo goes on.
- **Everything has to go on.** A line that stops must restart, a stream that
  pauses must resume, a worker must come back to the top of its loop, a lock
  must be released on every way out.

`PROJECT.json` lists these as hazards at their lines, each with the properties
that would catch it or a note why there is none.

<a id="modules"></a>
## The modules and the code

**`InfeedLine`** models `infeed_line_controller.py` and `belt_speed_relay.py`
with the topic between them. Every callback of the controller is one action
(it runs on one thread): `Scan`, `Tick`, `SetEnabled`, `Release`, `Request`.
`SetEnabled` and `Release` end in a tick, as in the code. Clocks become the three
comparisons the code makes (`Clock`). The topic is a queue that drops its oldest
message. The beam is the environment: a box enters or passes it only while the
rollers turn, or is taken from it; a noisy scan contradicts the beam, never twice
in a row. `truthRun` and `lastNoisy` record what the last scans really saw, for
`NoiseNeverFlips` only. Counters saturate at their thresholds, which is all the
code compares them with.

**`GripperManager`** models `gripper_manager.py`, with Gazebo as the environment
(`ArmMoves`, `BoxMoves`, `BoxDeleted`, and requests carried out late). Geometry
is one question: is a tracked pose at the tool? The timer loop `_on_timer` is
split where other threads can change what it works on: `OnTimer` takes its
snapshot, then each candidate is passed over or grasped (`PassOver`, `Grasp`).
`spawn_box` is split at its request: `OnSpawnBox` chooses the name, `SpawnAnswer` is
what comes of `/create`. Either blocks the other ROS callbacks meanwhile (`Idle`), as
the single-threaded executor does; pose messages come on a thread of their own and do
not wait. The process may die at any step, in the middle of a request too
(`ManagerRestart`): what it had asked Gazebo for may still be carried out, while the new
process counts names from 1. `doubtful` records the names this makes uncertain: those the
dead process had a creation outstanding for, and those a new one takes before it has heard
which boxes there are.
`spawnCounter` is bounded by `MaxSpawn`, process restarts by `MaxRestarts`.

**`SuctionGripper`** is what the gripper promises: while suction is on boxes are
captured and stay held, off releases all. `GripperManager!ImplementsSuction` maps
its `held` to the joints that exist in Gazebo - not to what the manager believes.
The same module is the gripper the demo meets.

**`PickPlaceDemo`** models `pick_place_demo.py` and, through its answers,
`navigator_client.py`. The worker thread is a program counter over the named
steps of the code, read from `run_cycle`, `_approach_until_contact`,
`_wait_for_grasp`, `_do_restart` and `loop`. A step that asks somebody begins
(`Begin`, after the restart test most steps start with), is `calling`, and ends
in an answer, a failure or a timeout. The callbacks are mutually exclusive with
each other and not with the worker; `_on_reset` is split in its two halves, and the
worker goes on in between. A `set_suction` call the worker gave up on stays in the
gripper's queue and is carried out there. A goal that navigator_server accepts after the
2 s of `send_action_goal` counts as rejected and moves the arm all the same: `stray` is
where it leads, `ArmLeaves` and `StrayEnds` carry it out, at any step of the worker.
`target` is `run_cycle`'s local variable `place`.

**`NavigatorServer`** models `navigator_server.py` and
`trajectory_executor.py`. `OnGoal` looks at the lock, `Acquire` takes it later;
the goal that holds it plans, sends a motion, waits for its acceptance and follows
it; `Report` sets the result. Cancels are split in `_on_cancel` and its acceptance,
the guard in the part under its lock (`OnWrench`) and the cancel after it
(`GuardCancels`). The controller is external: it accepts or rejects a motion,
perhaps after the 5 s the executor waits, a new motion preempts the old one, and
a cancel reaches it later. The contact comes and goes while a guard watches (`Press`,
`Release`). Paths are numbers of motions.
The early failures of the code report their result before the lock is released,
the model after: the lock being free a moment earlier only adds behaviours.

**`BoxFactory`** models `box_factory_node.py`. A box is in the spawn area, past it or
absent. `OnTick` is a tick up to its call of `/create`, during which the node's
thread blocks (`creating`) and the pose thread goes on; `Create...` are its
answers. `PendingOverdue` is the clock passing `PENDING_TIMEOUT_SEC`; `dropped` records
the boxes the factory gave up on then.

**`PoseGraph`** models `graph.py` and the editor of the navigator CLI,
`graph_editing.py`, on it: one action per command, each running to its end before
the next prompt. A pose is a place and the id it carries, which the dictionaries of
the class must agree with. A save empties the file first (`Torn`) and writes it
then (`Written`); `NewSession` is the next start of the program, perhaps after a
crash between the two. A missing file and an undecodable one load as an empty
graph, so the run starts from `Torn`. `add` ends with the node in the graph and
nothing saved when the move group is misspelt. `orphans` records which parents were
deleted, for `CarriesItsId` only.

**`BoxDetection`** models `box_pose_estimator.py` with what `box_geometry.py`
decides, and `BoxDetectionClient` (`perception.py`). A call of `~/detect` takes a
thread of the executor (`OnDetect`), waits for the lock, and goes through the
estimate: frames (`BeginEstimate`), segmentation (`Segment`), transform and publication
(`NoTransform`, `Publish`). Time is the number of arm motions, so that a frame and a
transform of different times can be told apart; an estimate takes the latest frames,
whatever the arm did since. `rested` records whether the camera had delivered both since
the last motion when the client called. A mask is a stretch of cells in a plane; the
distance of two faces is that of their centres, across planes too. Merging and
deduplication are the code's loops, with every order of SAM's masks. `shared` is a
setting: are there other callers, and may calls and markers be late?

**`RobotMotion`** models what is above the executor: the commands (`home`, `ta`,
`e`, `e -d`, `t`, `cart`, `go_to_pose`) in `cli_functions` and `utils.py`, the choice
between a straight line and cuMotion, the attempts and fall-backs in `gp70l.py`, the
planning clients, and `TrajectoryExecutor` again, from the side of its start check. A
configuration is a cell of the tool and a branch of the inverse kinematics: a line
keeps the branch, a plan of cuMotion to a tool pose may end in any. Every wait of the
code is a step with its failure. `arm` is where the arm is, `known` the last JointState
received (`OnJointState`), which is what the executor and the start of a walk look at.
`loose` is where a trajectory leads that was accepted too late or given up as stalled: it
moves the arm on its own (`LooseMoves`) until it arrives, its cancel does (`LooseEnds`) or
the controller accepts another. Others plan and move as they like. `moved` and `strayed` record
disturbances, for the properties only: the arm was moved by something else than the
current trajectory and no JointState of that was in when the executor looked, or it came
after; the arm was not where the walk's path begins, or was moved since.

**`TeleopPanel`** models `teleop_gui.py`: jogging with its two timers, and the
switches of gripper, line, factory and demo with the messages they are reset from.
`_call_service` blocks the window, receiving (`"spins"`) or not (`"waits"`). The user
does one thing per behaviour (`task`); `steady` devices run all the time; a `calm`
user changes sliders and uses the demo's buttons only when the panel shows what was
asked for. One cell is what the arm moves in a period of the timers.

**`Startup`** models the launch files of the arm, of a belt and of the infeed line:
the timers that start spawner and relay, the time-outs of the spawner, the relay's
first message and the controller's repeated ones. `kind` is the stack that starts;
`prompt` says that the spawner is done before the relay starts, `heard` that a first
message arrives at a subscriber that has just been found.

**`MC...`** modules give the sequences and sets a `.cfg` cannot write. Four of them
add a variable `setting` and a second instance of the module with faults switched off,
so that one run checks what holds with them and what needs their absence.
**`..._proofs`** hold the theorems. `InfeedLine_proofs` extends `Startup` as well, and
`RobotMotion_proofs` extends `BoxDetection`; that is why the names of these two are their
own (`StartInit`, `DetectInit`, ...).

<a id="runs"></a>
## The runs

| Run | Setting | What it shows |
|---|---|---|
| `InfeedLine` | thresholds 2 and 3, two speeds, queue of 2, noise, one relay restart | `HeldBeltStands`: with the line held and all commands delivered the rollers stand, whatever was queued, dropped or late. `NoStartAgainstBeam`: no command goes from 0 to moving while the verdict is blocked, except by a release. `NoiseNeverFlips`. `RestartsWhenClear`, `HoldsWhenCut`, `BeltFollows` under fairness |
| `Gripper` | a factory box (tall) and a spawned one, two places. *faulty*: refusals, timeouts, late installs and creations, one restart; *reliable*: deletions, none of these | `HeldIsWelded`: what is reported as held is welded. `SpawnedIsNew`: a `spawn_box` that succeeds made a new box, whatever Gazebo did late and at whatever step the process died; not claimed of doubtful names (see the module). Reliable: `LatchesWhenReliable`, the refinement of `SuctionGripper`, and `CapturesWhenReliable`, a box that stays at the tool is captured in whatever order what the grasp needs becomes known |
| `Demo` | failures, lagging messages, operator calls. *faulty*: a goal counts as refused and moves the arm later, `set_suction` times out and is carried out late, three operator calls, perhaps a box held at the start, a drive home first; *prompt*: none of these, two operator calls | `DropsOnlyWhereMeant`: a carried box is let go over a place node or on purpose. `FailureStops`: after a failure nothing is asked of navigator, vision or gripper before somebody has acknowledged it. Prompt: `CyclesWhenPrompt`, a counted cycle put a box down at a place node and no pick starts with a box hanging; `DropsWhenPrompt`, a restart that ends well has dropped everything; `ServedWhenPrompt`, requested at any step, it is served; `PlacedWhenPrompt`, left alone, the demo places each box or stops with an ERROR |
| `Navigator` | a path of up to two motions and a guarded line, cancels, a contact that comes and goes. *faulty*: stalls, overruns, acceptances after 5 s; *timely*: none of these | `OneMotionAfterCancel`: at most the motion being planned is still made. `SuccessIsTrue`: success means that all motions reached their end. `ContactStops`: a noted contact that lasts ends the line, also when it came before the controller had accepted; and a line on whose motion the guard's cancel fell ends, whether the contact lasts or not. `AnsweredWhenFaulty`: every goal gets its result. Timely: `OwnedWhenTimely`, a moving arm belongs to the goal holding the lock |
| `Factory` | two names, refusals, a line that falls silent. *late*: creations that time out and are carried out late or never; *prompt*: none of these, one restart | Late: `AnnouncedWhenLate`, every box that appears is announced or was given up on, and one that is seen while it is waited for is announced, overdue or not. `ResumesByItself`. Prompt: `SpawnsWhenPrompt`, never two boxes in the spawn area and never a name that is taken |
| `PoseGraph` | two places, ids 0 to 3 of which 3 is temporary, five commands over any number of sessions | `GraphInv`: ids are unique, edges end at nodes, nodes carry their ids, the parent is a node, a saved graph is the graph that loads. `IdsKeepTheirPlace`: no step - edit, reload or crash - makes an id that is there before and after name another place (an id that was deleted and saved away may be given again after a reload). `PathsAreShortest`: the search against a reference distance over ordinary nodes, on every graph reached |
| `Detection` | three estimates, one arm motion, two threads, five masks that nest, touch or are near each other, one of them on the belt; alone and in time, or shared and late | `OwnAndTrueWhenAlone`: a client that is alone gets the faces of its own call, and where they are, if the camera had delivered since the last motion when it called. `NeverTwice`: nobody is given a message twice or one from before the call. `FacesRight`: no face twice, none lost but to a larger one, in whatever order masks come. `CallsAnswered` |
| `Motion` | three cells, two branches, three nodes of which one is a tool pose, an obstacle; two attempts; late joint states and acceptances, trajectories that were given up and go on, others that plan and move | `OneMotionThatEndsAtGoal`: a failed motion is never followed by another to the same goal, and success is success, in the right configuration. `KeepsToEdges`: a walk from a joint state that was current, undisturbed, follows the edges. `NoJump`: an arm that moved while a trajectory was planned is not jumped, if a joint state said so before the executor looked. `CommandEnds`: also while others keep the planner busy and move the arm |
| `Teleop` | a joint of seven cells; each device, two requests under way | `NoJump`: a jog or a hold asks for a position near the arm, whatever moved it before. `FollowsTheUser`: when all requests have been worked off the device is what the user wanted, although the panel resets its controls with every message. `ComesToRest`: a jog whose release was lost ends; the panel and its banner end up showing what the device is |
| `Startup` | the arm, a pallet belt, the infeed belt; in Gazebo or on hardware; everything arbitrarily late, or prompt | `StartsTurning`: a belt in time turns at `belt_speed` or at what was asked since. `ComesUp`: the spawner ends, and the infeed belt follows its controller in whatever order the two started |
| `Demo_restart_at_start` | as *prompt* of `Demo`, with `go_home_on_start` | *violated*: `RestartServed`, see below |
| `Factory_late_stacking` | as `Factory`, late, one setting | *violated*: `NoStacking`, see below |

Each property has a mutant in its module, a plausible bug under which TLC finds
it violated, so that none of them holds by the shape of the model.

**Bounds.** The systems are small by nature: one line, one gripper, one arm. The
sizes that are free: a queue of 2 shows a message overwritten, one still under
way and one delivered; two places tell "at the tool" from "elsewhere"; a box whose
size is announced and spawned ones show both ways of learning a height and the
reuse of a name; three estimates are one of one's own between two of others; two
attempts are one that is the last and one that is not; an edge
into a joint goal and one into a tool pose are all kinds there are; two goals suffice
for one to wait for, cancel or stop the other; a path of two motions has a motion that is not the last; three motions
let an orphaned one overlap two others; two names let a box be
spawned while another is pending; seven cells leave room for a jog to be cut off at
either end and not to be; two requests under way are one that is the newest and one
that is not; two or three operator calls
give every ordered pair and triple of them at every step; five commands build a
graph of four nodes, or delete, reload and add again (`shortest` is the weakest
there: most wrong orders of the search need five nodes to show). `block_samples` keeps
its value of the code and `clear_samples` is 3 for 6: the code only compares, and
the proofs cover every value from 2. Counters kept for a property (`cycles`,
`placed`, `sentLate`, `boxesStopped`) saturate or are bounded by the others. In
`Startup` a tick is two seconds, what the relay waits for, and the spawner's 30 and 20 seconds are cut to three and two
ticks: `ComesUp` needs them to pass, not how long they are.
`CHECK_DEADLOCK FALSE` stands in `Navigator`, where all goals may be over, in
`Detection`, where all calls may be answered, and in `Startup`, where the stack may be
up, and nothing is left to do.

<a id="fairness"></a>
## Fairness

- `InfeedLine`: the tick timer fires, the sensor scans, a command becomes due and
  the topic delivers (`WF`). Nothing is assumed of boxes or operators; liveness is
  stated for a beam that stays as it is and scans that have become quiet.
- `GripperManager`: pose messages keep coming, the footprint is retried by its
  timer, and a callback that has started goes on (`WF`). The grasp timer has
  strong fairness: it is disabled whenever another callback runs, and the
  executor serves ready timers in turn.
- `PickPlaceDemo`: the worker is not starved and what it waits for ends - the
  navigator gives up on a stalled motion, service calls have timeouts -, messages
  arrive, the gripper works off its queue and captures what it can reach. A goal that was
  accepted too late is carried out or fails in the end.
- `NavigatorServer`: callbacks run and the controller answers in the end. A motion
  need *not* end by itself: only one that was asked to cancel does. `MayStall`
  says whether the executor's own limits may trigger.
  In `MCNavigatorServer`, as in the demo's MC module, the fairness is that of the
  steps the setting allows.
- `BoxDetection`: the camera delivers, the executor serves what waits for a thread,
  one of the callbacks that wait for the lock gets it, and an estimate goes on. Which
  of the waiting callbacks is next is left open.
- `RobotMotion`: the program goes on (every wait in it has a time-out) and cuMotion
  ends a plan. Others may take the planner again and again.
- `TeleopPanel`: calls return and a running device does its work (`WF`). The timers
  have strong fairness: a blocked window disables them, and Qt serves what is due
  when the call has returned. `GetsOld` is the age limit of the panel's messages.
- `Startup`: time passes, the launched processes go on; the controller's repeated
  command has strong fairness because a full queue of the relay disables it in the
  model only. A manager may never come up, and a switch may take for ever.
- `BoxFactory`: ticks, pose and state messages go on, `/create` returns, a box in
  the area moves on while the belt runs.

<a id="proofs"></a>
## The proofs

TLAPS proves these for every value of the constants that satisfies the named
assumption of the module; the assumptions only give the constants their types,
require thresholds of at least 2, a queue that holds something, a margin within the
look-ahead, a finite graph, and masks that are stretches larger than what deduplication
takes for the same, and keep model values apart.

Each proof has the same shape: the initial states have the invariant, each action keeps
it (one step for each action, one below it for each part that the action can disturb), the
invariant implies the property, and a last step joins these. Where a property of a run holds in one
setting only (`...WhenPrompt`, `...WhenTimely`, `...WhenReliable`), a lemma first shows
which steps are left in that setting, for instances of any size, and the theorem is about
`MCSpec`, the specification the run checks.

`InfeedLine_proofs`
: `Invariance`: `Spec => []IInv`. `HeldBeltStands` is not inductive: that the
  rollers stand depends on what is under way. `CommandInv` adds that the *newest*
  message on the topic is the command in force, that a relay that has caught up
  follows it, and that only a moving mode ever commands a speed; `KeepLastFacts`
  is why dropping the oldest message keeps this. `ScanInv` ties the counters to
  the scans they counted, for `NoiseIgnored`. Then `TypeCorrect`, `HeldBelt`,
  `NoStart` and `NoiseIgnored` follow, for all thresholds, speeds, queue depths and
  numbers of relay restarts.
: Of `Startup`, `BeltStartsTurning`: `StartSpec => []StartsTurning`, for all delays,
  time-outs and speeds. `BootTime` adds that a spawner in time is done when the relay
  is due, `BootInbox` that the newest waiting message is the last that was said.

`GripperManager_proofs`
: `TypeCorrect`. `ReportedIsHeld`: without deletions what is reported as held
  exists and is welded, whatever Gazebo refuses, times out on or does late, across
  restarts; its invariant adds that the boxes tracked and being looked at exist.
  `LatchingGripper`: with answers in time and no restart, `Spec =>
  ImplementsSuction`; the strengthening, `KnownWelds`, is that every joint is known to
  the manager and that the loop only runs while suction is on, so that a joint is never
  installed after suction went off. `LatchingWhenReliable` is the same of the setting
  *reliable*, deletions included (`InTime` are the steps it has). `SpawnsNewBoxes`:
  `SpawnedIsNew`, with restarts at any step of a request; `NamesInv` adds that a late
  creation has a number that the counter has passed, or that is doubtful, and that so has
  a spawned box in the world, or it is tracked - after a restart, once the manager has
  heard of the world again.

`PickPlaceDemo_proofs`
: `TypeCorrect`, for which the worker's steps are grouped by what they do (`Turns`,
  `Begin`, `Ends`, `GivesUp`, ...; `NextFacts` shows that there are no others).
  `DropsWhereMeant`: `LooseInv` adds that the worker who is asking for a release is at a
  place, and that each call of `set_suction(false)` still in the gripper's queue was
  made over a place or may let go anywhere. `StopsAfterFailure`: `AckInv`, while a
  failure is not acknowledged the error is still set, between the halves of a reset too, and
  the worker is at the top of its loop, which only a restart leaves then. `CyclesTrueWhenPrompt` and
  `RestartDropsWhenPrompt` rest on `PromptInv`: one call at a time, and only while the
  worker waits for it (`OneCall`); what hangs at the gripper at each step of the cycle
  (`Holding`); the release happens over a place (`OverPlace`); a box put down is counted
  once (`Counting`).

`NavigatorServer_proofs`
: `Invariance` for `IInv` = types, `ExecInv` (who holds the lock, and that the
  motion it follows is the last one made), `MotionsInv` (a running goal's motions
  have succeeded except for the one it waits for) and `SuccessIsTrue`. From it
  `TypeCorrect`, `TruthfulSuccess` (with stalls, late answers and cancels) and,
  with a controller in time and no stalls, `OneMotionAtATime`, whose invariant `OneLive` is
  that every motion but the followed one is over; `OneMotionWhenTimely` carries it over to
  the setting *timely*. `CancelEndsMotions`: `LateInv` adds that a goal which has had a motion made
  after its cancel was accepted plans no other.

`BoxFactory_proofs`
: `TypeCorrect`. `SpawnsOneAtATime` and `SpawnsOneWhenPrompt`: with a Gazebo in time
  `PromptInv` adds that no creation is outstanding, that poses which came since the last
  tick show all boxes there are, and that the area is empty and the name free while a
  creation is asked for. `NextNameFacts`, that the next number is free, comes from
  `LeastNumber`: a set of numbers has a least one.

`PoseGraph_proofs`
: `IInv` is `Sound` - types (`IsGraph`), dictionaries that agree (`Agree`), edges that
  end at nodes (`Edges`), ids below the next one (`Names`) - with `CarriesItsId` and
  `Backed`: each id of the file is free in memory or names the node it has there. The
  last is what `GraphInv` lacks to be inductive: a reload after edits brings ids back.
  `GraphKept` gives `GraphInv` with its `RoundTrip`, `IdsKeepTheirNode` the action property,
  over any number of commands, sessions and crashes.
: `ShortestPaths`: `Spec => []PathsAreShortest`, for every graph that is `Sound`; the
  reference is a path through nodes below 1000, which every reading of "temporary" admits.
  `SearchInv` is the invariant of breadth-first search: the paths in the queue have `d`
  edges, or one more and are behind them; all nodes within `d` edges are visited; what is
  visited waits in the queue or has had its neighbours visited; the goal, once visited,
  waits in the queue. `NextLevel` goes on from `d` to `d + 1`, `LeftFacts` says why it ends.

`RobotMotion_proofs`
: `IInv` says where trajectory and arm may be at every step of a call (`StartsAtArm`,
  `StartsOnce`, `AimsAtGoal`, `EndsThere`), and where a walk is on its path (`OnPath`,
  `NextGoal`, `StillThere`). `StartsAtArm` is what the executor's check rests on: as long
  as it is not sent, a trajectory begins at the arm, or the last joint state is from
  where the arm is now, so that the check refuses it, or the arm was moved and nothing has
  said so. From `IInv` follow `StartsWhereArmIs`, `EndsAtGoal` and `WalksKeepToEdges`, for
  every graph, obstacle, number of attempts, old joint state and whatever others or a
  trajectory that was given up do; each says in its premise which disturbance the code
  cannot notice.
: Of `BoxDetection`, `OwnFaces` and `NoneTwice`, for any number of calls, threads and
  motions and whatever SAM proposes. `CountInv` says what of the messages the client has
  counted; `AloneInv` that, while the client is alone, only its own call is open, the message
  it will take is the next one and its own, and, if the camera had delivered both frames
  since the last motion when it called (`rested`), that the frames are from where the arm is.
: `FacesFound`: `DetectSpec => []FacesRight`, for any masks and sizes. `MergeEnds`: whichever
  pairs are met first, nothing mergeable is left and every mask is in one of the outcome;
  `DedupeEnds`: what is dropped is near a kept one that is not smaller. That the kept one
  covers some of the dropped one needs a distance of less than twice the least size
  (`DetectionAssumption`; 3 cm and 5 cm in the code), and then `NearCovers` shows it even of
  each mask that was merged into the dropped one.

`TeleopPanel_proofs`
: `JoggingNeverJumps`: `Spec => []NoJump`, for every joint, margin and look-ahead. How
  far a jog may go depends on how old the joint state is that it is built on; `IInv`
  adds that it is one period old at most, and not old once the ROS timer has fired.
  `TeleopAssumption` says that the margin at the limits is not larger than the
  look-ahead: 0.01 rad against 0.027 for the slowest joint at the lowest speed.
  `DevicesFollow`: `Spec => []FollowsTheUser`, for any number of requests under way;
  `AskedInv` adds that the newest of them is what the user wants, and that a demo has
  one at most. `TailFacts` is why taking the oldest keeps the newest.

Every invariant and every action property that a passing run checks is stated by one of
these theorems. Only model-checked is all liveness (`RestartsWhenClear`, `HoldsWhenCut`,
`BeltFollows`, `CapturesWhenReliable`, `ServedWhenPrompt`, `PlacedWhenPrompt`,
`ContactStops`, `AnsweredWhenFaulty`, `AnnouncedWhenLate`, `ResumesByItself`,
`CallsAnswered`, `CommandEnds`, `ComesToRest`, `ComesUp`): `ENABLED` and fairness are out
of the prover's reach.

*Recursion.* The search of `shortest_path`, the reference distance it is held against, the
merging and the deduplication of masks are recursive functions, whose value is known only
once there is a function that satisfies the definition. `RecursionExists` shows that there
is one for every rule of the form "what is found here, and all that is found from the
successors": the least one. `LoopExists` derives the search from it. Induction then is the
search for a smallest counterexample (`LeastNumber`) - the smallest set of masks, the state
of the search with the least left to do - as the prover cannot instantiate the induction
theorems of the library.

<a id="departures"></a>
## Where the code departs from its documentation

Checked by a run that TLC shows violated:

- `Demo_restart_at_start`. A restart requested while the demo drives home at its
  start raises `RestartRequested` in `_navigate` (`pick_place_demo.py:343`), and
  only `StepFailed` is caught there (344). The worker thread ends; the node goes
  on answering its services. The docstring: "start over from any state" (36).
- `Factory_late_stacking`. A creation that timed out is pending and in no pose
  message; the spawn area looks free, another box is spawned, and the late one
  appears on top of it. The docstring: "No box is spawned while another box is
  still inside the spawn area" (`box_factory_node.py:44`).

The other properties hold under conditions, which constants or settings name or the
property states itself, and what the code does outside of them is this. A constant can be
changed in the `.cfg` or in the second instance of the MC module, and an exception taken out of
its property, to see a behaviour that shows it:

- `Demo`: `_on_reset` reads the error for its answer and clears it afterwards. A failure
  that the worker sets between the two is wiped out before anybody was told of it, and the
  demo goes on, against "A failed step puts the demo into ERROR and it stops commanding the
  robot" (`pick_place_demo.py:40`). `FailureStops` counts such a failure as acknowledged by that reset
  (`unacked` in `StepFailed`); of all others it holds however reset, restart, pause and
  worker fall in between each other.
- `Demo`: a goal that navigator_server accepts after 2 s has counted as rejected, and the
  arm moves although the demo stands in ERROR, or while it takes its next step; the
  navigator deals with the goals one after the other, so a next step waits for it.
- `Demo` in the setting *faulty*, where `MayTimeOut`: `_do_restart` ignores the answer of
  `set_suction`, goes home with the box and reports no error (`DropsWhenPrompt` without its premise). With
  `MayHoldAtStart`: before the first `gripper/state` message the demo takes
  the gripper for empty (`PickStartsEmpty`).
- `Navigator` in the setting *faulty*, with `MayBeLate` or `MayStall`: an acceptance after 5 s
  counts as a rejection and a stalled motion is asked to cancel and not waited
  for, so the arm may move for a goal that has been answered (`MotionIsOwned`).
- `Navigator`: the guard cancels again only with the next sample over the limit ("retried
  on the next sample until the executor actually has a goal to cancel",
  `navigator_server.py:171`). A contact that comes and goes before the controller has
  accepted the motion is noted, cancels nothing, and the line runs on to its end, which
  is then reported as success with contact (228) - against "stop as soon as the gripper
  force pad reads this much more" (`CartesianMove.action:12`). `ContactStops` claims an end
  of a contact that lasts and of one that found a motion to cancel.
- `Gripper` with `MayDelete = TRUE`: a deleted box stays in
  `gripper/state`, and so does a new box of its name, which nothing holds
  (`HeldIsWelded`). With late installs a weld may outlive suction off, which is why
  `LatchesWhenReliable` is stated for a Gazebo that answers in time. A box whose
  install failed is not tried again until suction goes off, as line 431 says.
- `Gripper`: a restarted manager counts from 1 again. Before its first pose message it
  knows no names in use; and a name for which the dead process had a `/create` outstanding
  looks free until the box appears. When it appears between the last pose message and the
  new request, Gazebo adds nothing and says nothing, and `spawn_box` reports success for
  the old box, with the new one's height. `SpawnedIsNew` excepts these names (`doubtful`).
- `Factory`: a box that appears after `PENDING_TIMEOUT_SEC` is never announced
  (`box_factory_node.py:395`), and the gripper never learns its height; the docstring has "every
  box" on `spawned` (14). `EveryBoxAnnounced` says of such a box only that the factory gave
  it up (`dropped`), which it logs.
  With `MayLag` in its setting *prompt*: a restarted factory counts from 1 and may
  ask for a taken name before the first pose message (`NameIsNew`).
- `PoseGraph`: node 1000 is temporary for `find_nearby_nodes` (`graph.py:209`) and in the
  rules ("ids >= 1000 are reserved for temporary nodes", `shared/RULES.md:10`), and an
  ordinary node for the search (`graph.py:184`), which passes through it.
  `PathsAreShortest` is stated for the nodes that are ordinary in both readings.
- `PoseGraph`: "Previous node was deleted, resetting it to None" is never printed.
  `_delete_node` asks for the id of the deleted parent (`graph_editing.py:218`),
  which puts it back under a new id. The node still carries the old one ("Store the
  copy that carries its id - saved nodes need it to reload", `graph.py:121`), so the
  edges it gets afterwards are lost at the next save and reload. `CarriesItsId` and
  `RoundTrip`, parts of `GraphInv`, except these nodes.
- `Detection`: the estimate takes the latest frames, whatever the arm did since
  (`box_pose_estimator.py:166`), and transforms them to where the arm is at the end (314). A
  client that calls before the camera has delivered since its own last motion, as the demo
  may right after it has arrived (`pick_place_demo.py:230`), gets displaced faces, alone or
  not.
- `Detection`, when `shared`: a client may be handed the faces of somebody else's
  estimate, seen before its own call, and placed with the transform of a later arm
  position (`box_pose_estimator.py:314` looks up the latest one). Two callers who wait
  for the lock and one who holds it occupy the executor's three threads; frames then
  wait, and the estimates go on with old ones.
- `Motion`: a goal that cuMotion accepts too late counts as
  rejected and is planned all the same, so the next attempts meet a busy planner
  (`ros_helpers.py:69`). A planner that reports success without a trajectory makes
  `execute(None)` raise, which the command loop catches.
- `Motion`: the executor compares a plan with the last JointState it received
  (`trajectory_executor.py:60`). An arm that moves after that one - by another program, or
  by a trajectory that was accepted too late or given up as stalled and goes on - is not
  noticed, and the new trajectory starts where the arm no longer is. `NoJump` claims
  nothing then (`moved`). A walk that was shown from an old joint state, or disturbed after
  it, leaves the edges (`strayed`).
- `Teleop`: `NoJump` asks for `steady`. While `gripper_manager` is missing, a click
  on its button waits two seconds without receiving anything; the next jog or hold is
  built on a joint state that old, and the arm jumps back ("it cannot run away or
  jump", `teleop_gui.py:412`). `FollowsTheUser` asks for a user who lets the panel catch
  up: the factory's checkbox is reset by an older status while a request is under
  way, and a slider moved meanwhile sends `enabled` as the checkbox shows it (822).
  The chip of a gripper whose manager has died keeps its last state. A demo in
  ERROR has a button that reads Pause, disabled or not.
- `Startup`: `StartsTurning` asks for `prompt` and `heard`. The relay is started two
  seconds after the spawner whether the controllers are active or not, and says its
  initial speed once ("bootstrap-published once the belt controller is active",
  `conveyor_bringup/launch/bringup.launch.py:24`). When the spawner takes longer - it
  may take 50 s - a pallet belt stands until somebody moves its slider. The infeed
  belt recovers because its controller repeats its commands. A spawner that runs out
  of patience dies, and nothing starts another.
- `InfeedLine`: when scans stop, the verdict is kept; "clear" then lets a box pass.
  `beam_ok` reports it, and nothing in the repository acts on it.

<a id="left-out"></a>
## What is left out

Robot, sensor and vision numerics (plane fitting, filters, kinematics, trajectory
timing), geometry beyond "at the tool", "in the spawn area" and cells on a line, RViz
markers, log texts, the look of boxes, URDF, widget layout.

Components without a module:

- *Force sensor.* It republishes wrenches on one thread; nothing in the repository
  reads its contact flag or calls its tare. The wrenches that count are those the
  navigator's guard compares (`OnWrench`).
- *Collision scene.* A pure function from the layout to a text.
- *Trajectory, geometry, filters, bag files.* Real-valued; in `RobotMotion` they are
  outcomes of a plan or a motion.
- *Launch files that only start nodes* and wait for nothing, interface definitions.

Parts of modelled components that are left out: `plan_grasp`, `solve_ik` and the MoveIt
client, which only the examples call; the CLI commands that print or draw; belt
sliders, camera view and the Spawn form of the panel; exceptions that end a callback of the
estimator (an unsupported image encoding, say), of which only running out of memory and
images that do not match are ways an estimate ends.

Simplifications: the demo has one goal at a time that was accepted too late, `RobotMotion`
one trajectory that was given up. A trajectory that is accepted too late is accepted
before the next one is sent, as the controller serves one client's requests in order. The
state cuMotion and MoveIt plan from is where the arm is when planning begins; the 0.05 rad
by which a plan may start elsewhere are none.

Executor threads are counted in `BoxDetection`, not in `NavigatorServer`: its four
threads are occupied only if four goals are accepted before the first of them takes
the lock; with fewer there is a thread for cancels and wrench samples.

<a id="plan"></a>
## Plan

Done, in this order, the most important first: `InfeedLine` (what keeps boxes at
the pick position), `GripperManager` with `SuctionGripper`, `PickPlaceDemo`,
`NavigatorServer`, `BoxFactory`, `PoseGraph`, then `RobotMotion`, `BoxDetection`,
`TeleopPanel`, `Startup`; then the proofs, of each of them.

Next:

1. An abstract specification of the demo - a box is at the pick position, in the gripper,
   placed or dropped on purpose - and the proof that it is implemented when prompt.
2. An abstract lock, one owner at a time who is served or refused, that the navigator
   implements when timely.
3. The composition of line, factory, demo and navigator over their topics.
