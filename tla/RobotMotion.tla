---------------------------- MODULE RobotMotion ----------------------------
(***************************************************************************)
(* navigator_cli: from a command to trajectories.  A command is one goal   *)
(* (home, ta, e -d, cart), a walk along the pose graph (e), a tool pose    *)
(* with a detour over the graph (t), or a goal after the closest node      *)
(* (go_to_pose).  Gp70lRobotManager turns each goal into one trajectory: a *)
(* straight tool line planned by MoveIt if the goal is near, otherwise a   *)
(* plan of cuMotion, which plans for one client at a time and which other  *)
(* programs use too.  The executor refuses a plan that does not start      *)
(* where the last joint state says the arm is; and what it gave up - a     *)
(* trajectory accepted too late, or one whose feedback stalled - may move  *)
(* the arm all the same.                                                   *)
(*                                                                         *)
(* A configuration of the arm is a cell of its tool and the branch of the  *)
(* inverse kinematics it is in.  A line keeps the branch; a plan of        *)
(* cuMotion to a tool pose may end in any.                                 *)
(***************************************************************************)
EXTENDS Integers, Sequences, FiniteSets

CONSTANTS
  Cells, Branches,  \* of the tool, of the arm
  Nodes, conf,      \* the pose graph: each node's configuration,
  JointNodes,       \* which are joint goals (is_joint_goal), not tool poses,
  FreeNodes,        \* which are free to move from,
  edges,            \* and the successors
  Obstacles,        \* cells no straight line crosses
  DirectMax,        \* direct_max_distance, in cells
  Threshold,        \* of determine_start_node, in joint distance
  BranchGap,        \* the joint distance between branches
  MaxAttempts       \* max_attempts of a move

Configs == [cell : Cells, branch : Branches]

ASSUME MotionAssumption ==
  /\ Cells \subseteq Int /\ Obstacles \subseteq Cells /\ Branches # {}
  /\ conf \in [Nodes -> Configs] /\ edges \in [Nodes -> SUBSET Nodes]
  /\ JointNodes \cup FreeNodes \subseteq Nodes /\ Nodes # {} /\ IsFiniteSet(Nodes)
  /\ {DirectMax, Threshold, BranchGap} \subseteq Nat /\ MaxAttempts \in Nat \ {0}

VARIABLES
  \* the arm
  arm,      \* its configuration,
  known,    \* the one in the last JointState received, or NoConfig
  loose,    \* where a trajectory that was given up still leads, or NoConfig
  \* the command under way
  job,      \* what it is, or "prompt"; "ask" waits for y/N
  path, at, \* the walk: its nodes, and how many are reached
  strayed,  \* was the arm not where it was known, or moved by others?
  final,    \* the goal that follows a detour or a walk
  \* the manager's current call
  goal,     \* joints, a tool pose, or the end of a straight line
  step,     \* how far it is; "none" between two calls
  tries,    \* planning attempts made
  traj,     \* the trajectory: from and to
  started,  \* number of trajectories started in this call
  moved,    \* moved by others, and not in the joint state the executor looks at
  planner   \* cuMotion: "idle", planning "forUs", or "busy" otherwise

jobVars == <<job, path, at, strayed, final>>
callVars == <<goal, step, tries, traj, started, moved>>
robotVars == <<arm, known, loose>>
vars == <<robotVars, jobVars, callVars, planner>>

-----------------------------------------------------------------------------
(* The graph.                                                              *)

Abs(n) == IF n < 0 THEN -n ELSE n
ToolDistance(a, b) == Abs(a - b)
NoConfig == [kind |-> "none"]
JointDistance(c, d) == ToolDistance(c.cell, d.cell)
                         + IF c.branch = d.branch THEN 0 ELSE BranchGap

Closest(S, dist(_)) == {n \in S : \A m \in S : dist(n) <= dist(m)}

(* determine_start_node: the node closest to the joint state, of those     *)
(* that are connected, or else the free one closest to the tool (by TF).   *)
StartNodes ==
  LET joints(n) == JointDistance(conf[n], known)
      tool(n) == ToolDistance(conf[n].cell, arm.cell)
      near == Closest({n \in Nodes : edges[n] # {}}, joints)
  IN  IF known = NoConfig THEN {}
      ELSE IF \E n \in near : joints(n) <= Threshold THEN near
      ELSE Closest(FreeNodes, tool)

Paths(a, b) == {p \in UNION {[1..k -> Nodes] : k \in 1..Cardinality(Nodes)} :
                  /\ p[1] = a /\ p[Len(p)] = b
                  /\ \A i \in 1..(Len(p) - 1) : p[i + 1] \in edges[p[i]]}
ShortestPaths(a, b) == Closest(Paths(a, b), Len)

(* Node n as a goal of a walk.                                             *)
NearIsAt(n) == JointDistance(known, conf[n]) <= Threshold  \* mutant: not exact
IsAt(n) == known = conf[n]

Joints(c) == [kind |-> "joints", to |-> c]
Pose(cell) == [kind |-> "pose", to |-> cell]
Line(cell) == [kind |-> "line", to |-> cell]
NodeGoal(n) == IF n \in JointNodes THEN Joints(conf[n]) ELSE Pose(conf[n].cell)

NoGoal == [kind |-> "none"]
NoTraj == [from |-> NoConfig, to |-> NoConfig]

CellOf(g) == IF g.kind = "joints" THEN g.to.cell ELSE g.to
Reached(g) == IF g.kind = "joints" THEN arm = g.to ELSE arm.cell = g.to

-----------------------------------------------------------------------------
(* The commands.                                                           *)

Start(g, s) == /\ goal' = g /\ step' = s /\ tries' = 0 /\ started' = 0
               /\ traj' = NoTraj /\ moved' = FALSE
Call(g) == Start(g, "choose")
NoCall == Start(NoGoal, "none")

Prompt == /\ job' = "prompt" /\ path' = <<>> /\ at' = 0 /\ strayed' = FALSE
          /\ final' = NoGoal
Begin(p) == /\ path' = p /\ at' = IF IsAt(p[1]) THEN 1 ELSE 0
            /\ strayed' = (known # arm)

(* e: the path is shown before it is asked whether to take it.             *)
Go(n) ==
  /\ job = "prompt" /\ job' = "askWalk"
  /\ \E s \in StartNodes : \E p \in ShortestPaths(s, n) : Begin(p)
  /\ NoCall /\ UNCHANGED <<robotVars, final, planner>>

(* ta and cart ask, home and e -d do not.                                  *)
Ask(g) ==
  /\ job = "prompt" /\ job' = "askGoal" /\ final' = g
  /\ NoCall /\ UNCHANGED <<robotVars, path, at, strayed, planner>>

MoveTo(g) ==
  /\ job = "prompt" /\ job' = "goal" /\ Call(g)
  /\ UNCHANGED <<robotVars, path, at, strayed, final, planner>>

Answer(yes) ==
  /\ job \in {"askWalk", "askGoal"}
  /\ UNCHANGED <<robotVars, planner>>
  /\ \/ ~yes /\ Prompt /\ NoCall
     \/ /\ yes /\ job = "askWalk" /\ job' = "walk" /\ NoCall
        /\ UNCHANGED <<path, at, strayed, final>>
     \/ /\ yes /\ job = "askGoal" /\ job' = "goal" /\ Call(final)
        /\ final' = NoGoal /\ UNCHANGED <<path, at, strayed>>

(* t: to the pose, or over the graph if that fails.                        *)
MoveToTarget(cell) ==
  /\ job = "prompt" /\ known # NoConfig
  /\ job' = "direct" /\ final' = Pose(cell) /\ Call(Pose(cell))
  /\ UNCHANGED <<robotVars, path, at, strayed, planner>>

(* go_to_pose, for programs that import it: to the closest node first, if  *)
(* there is one, then, in any case, to the joints.                         *)
GoToPose(c) ==
  /\ job = "prompt"
  /\ IF StartNodes = {}
     THEN job' = "goal" /\ Call(Joints(c)) /\ UNCHANGED final
     ELSE /\ job' = "snap" /\ final' = Joints(c)
          /\ \E s \in StartNodes : Call(Joints(conf[s]))
  /\ UNCHANGED <<robotVars, path, at, strayed, planner>>

(* find_and_move_to_node_logic, one goal at a time.                        *)
NextSegment ==
  /\ job \in {"walk", "detour"} /\ step = "none"
  /\ \/ /\ at = 0 /\ Call(Joints(conf[path[1]])) /\ UNCHANGED jobVars
     \/ /\ at > 0 /\ at < Len(path)
        /\ Call(NodeGoal(path[at + 1])) /\ UNCHANGED jobVars
     \/ /\ at = Len(path) /\ job = "walk" /\ Prompt /\ NoCall
     \/ /\ at = Len(path) /\ job = "detour" /\ Call(final)
        /\ job' = "goal" /\ path' = <<>> /\ at' = 0 /\ final' = NoGoal
        /\ strayed' = FALSE
  /\ UNCHANGED <<robotVars, planner>>

(* The detour ends at the closest connected node, if there is a path.      *)
Detour ==
  LET tool(n) == ToolDistance(conf[n].cell, final.to)
  IN  \E n \in Closest({m \in Nodes : edges[m] # {}}, tool), s \in StartNodes :
        IF ShortestPaths(s, n) = {} THEN Prompt
        ELSE /\ \E p \in ShortestPaths(s, n) : Begin(p)
             /\ job' = "detour" /\ UNCHANGED final

Returned ==
  /\ step \in {"ok", "failed"}
  /\ CASE job \in {"walk", "detour"} /\ step = "ok" ->
            at' = at + 1 /\ UNCHANGED <<job, path, final, strayed>> /\ NoCall
       [] job = "direct" /\ step = "failed" -> NoCall /\ (Detour \/ Prompt)
       [] job = "snap" -> /\ job' = "goal" /\ Call(final) /\ final' = NoGoal
                          /\ UNCHANGED <<path, at, strayed>>
       [] OTHER -> Prompt /\ NoCall
  /\ UNCHANGED <<robotVars, planner>>

-----------------------------------------------------------------------------
(* The manager.                                                            *)

Becomes(s) == step' = s /\ UNCHANGED <<goal, tries, traj, started, moved>>
Ends(s) == /\ step' = s /\ tries' = 0 /\ traj' = NoTraj /\ moved' = FALSE
           /\ UNCHANGED <<goal, started>>

(* compute_cartesian_path: all of the line can be followed, or else, or    *)
(* for another reason, it cannot.                                          *)
Straight(cell) ==
  \A c \in Cells : (arm.cell <= c /\ c <= cell) \/ (cell <= c /\ c <= arm.cell)
                     => c \notin Obstacles
LineTo(cell) == [from |-> arm, to |-> [arm EXCEPT !.cell = cell]]

(* _try_direct applies to short moves of the tool, and to a joint goal if  *)
(* the line ends there.                                                    *)
EndsSomewhere(g) == TRUE  \* mutant: which branch the line ends in is not checked
EndsInGoal(g) == g.kind = "joints" => LineTo(CellOf(g)).to = g.to

Direct == /\ goal.kind # "line"
          /\ ToolDistance(arm.cell, CellOf(goal)) \in 1..DirectMax
          /\ EndsInGoal(goal)

ChooseLine ==
  /\ step = "choose" /\ (Direct \/ goal.kind = "line")
  /\ Straight(CellOf(goal))
  /\ step' = "check" /\ traj' = LineTo(CellOf(goal))
  /\ UNCHANGED <<robotVars, jobVars, goal, tries, started, moved, planner>>

(* Without the line - not short, not straight, no transform, no FK or no   *)
(* MoveIt - cuMotion plans; execute_cartesian fails.                       *)
NoLine ==
  /\ step = "choose"
  /\ IF goal.kind = "line" THEN Ends("failed") ELSE Becomes("plan")
  /\ UNCHANGED <<robotVars, jobVars, planner>>

Attempt(s) == step' = s /\ tries' = tries + 1

(* One attempt of _plan_and_execute.  A request is rejected while the      *)
(* planner is busy or not there; one that it accepts after 2 s, or answers *)
(* after 30 s, keeps it busy although its client gave up.                  *)
GivesUp == step = "plan" /\ tries = MaxAttempts /\ Ends("failed")
             /\ UNCHANGED <<robotVars, jobVars, planner>>

BusyIsFree ==  \* mutant: a rejected request is no attempt
  /\ step = "plan" /\ tries < MaxAttempts /\ planner = "busy" /\ UNCHANGED vars

Rejected ==
  /\ step = "plan" /\ tries < MaxAttempts
  /\ planner' \in {planner, "busy"}
  /\ Attempt("plan")
  /\ UNCHANGED <<robotVars, jobVars, goal, traj, started, moved>>

Planning ==
  /\ step = "plan" /\ tries < MaxAttempts /\ planner = "idle"
  /\ planner' = "forUs" /\ Attempt("planning")
  /\ traj' = [from |-> arm, to |-> arm]
  /\ UNCHANGED <<robotVars, jobVars, goal, started, moved>>

NotPlanned == /\ step' = "plan" /\ traj' = NoTraj /\ moved' = FALSE
              /\ UNCHANGED <<goal, tries, started>>

Planned ==
  /\ step = "planning" /\ planner' = "idle"
  /\ \/ NotPlanned
     \/ /\ step' = "check" /\ tries' = 0
        /\ UNCHANGED <<goal, started, moved>>
        /\ \E c \in Configs : /\ IF goal.kind = "joints" THEN c = goal.to
                                                        ELSE c.cell = goal.to
                              /\ traj' = [traj EXCEPT !.to = c]
  /\ UNCHANGED <<robotVars, jobVars>>

PlanTimesOut ==
  /\ step = "planning" /\ NotPlanned /\ planner' = "busy"
  /\ UNCHANGED <<robotVars, jobVars>>

(* execute: the plan must start where the last JointState says the arm is, *)
(* which need not be where it is now; after that it is sent.               *)
Check ==
  /\ step = "check"
  /\ IF traj.from = known THEN Becomes("send") ELSE Ends("failed")
  /\ UNCHANGED <<robotVars, jobVars, planner>>

(* The controller accepts, and gives up what it was following; or it does  *)
(* not, or only after the wait of 5 s, and the arm moves although this     *)
(* counts as rejected.                                                     *)
Send ==
  /\ step = "send"
  /\ \/ /\ step' = "executing" /\ started' = started + 1
        /\ loose' = NoConfig
        /\ UNCHANGED <<goal, tries, traj, moved>>
     \/ Ends("failed") /\ loose' \in {loose, traj.to}
  /\ UNCHANGED <<arm, known, jobVars, planner>>

Done ==
  /\ step = "executing" /\ arm' = traj.to /\ Ends("ok")
  /\ UNCHANGED <<known, loose, jobVars, planner>>

(* The configurations on the way from c to d, in any branch on the way.    *)
Between(c, d) ==
  {e \in Configs : /\ e.branch \in {c.branch, d.branch}
                   /\ e.cell \in c.cell..d.cell \cup d.cell..c.cell}

(* Aborted, and the arm stops anywhere on the way; or given up there, as   *)
(* stalled or overdue, although the controller may still follow it.        *)
Stops ==
  /\ step = "executing" /\ Ends("failed")
  /\ arm' \in Between(traj.from, traj.to)
  /\ loose' \in {NoConfig, traj.to}
  /\ UNCHANGED <<known, jobVars, planner>>

-----------------------------------------------------------------------------
(* JointStateCache: the executor, and the start of a walk, look at the     *)
(* latest message.                                                         *)
KeepsFirst ==  \* mutant: later messages are not kept
  /\ known' = IF known = NoConfig THEN arm ELSE known
  /\ moved' = (moved /\ step \in {"send", "executing", "ok"})
  /\ UNCHANGED <<arm, loose, jobVars, goal, step, tries, traj, started, planner>>

OnJointState ==
  /\ known' = arm
  /\ moved' = (moved /\ step \in {"send", "executing", "ok"})
  /\ UNCHANGED <<arm, loose, jobVars, goal, step, tries, traj, started, planner>>

(* Others: cuMotion's answer to nobody; a trajectory that was given up and *)
(* goes on until it arrives or its cancel does; and programs that plan or  *)
(* move - cumotion_cli, navigator_server, the teleop panel.                *)

PlannerDone == /\ planner = "busy" /\ planner' = "idle"
               /\ UNCHANGED <<robotVars, jobVars, callVars>>
OthersPlan == /\ planner = "idle" /\ planner' = "busy"
              /\ UNCHANGED <<robotVars, jobVars, callVars>>

MovesTo(places) ==
  /\ arm' \in places \ {arm}
  /\ moved' = (step \in {"planning", "check", "send", "executing", "ok"})
  /\ strayed' = (job \in {"askWalk", "walk", "detour"})
  /\ UNCHANGED <<known, loose, planner>>
  /\ UNCHANGED <<job, path, at, final, goal, step, tries, traj, started>>
LooseMoves == loose # NoConfig /\ MovesTo(Between(arm, loose))
LooseEnds == /\ loose # NoConfig /\ loose' = NoConfig
             /\ UNCHANGED <<arm, known, jobVars, callVars, planner>>
OthersMove == MovesTo(Configs)

-----------------------------------------------------------------------------
Init ==
  /\ arm \in Configs /\ known = NoConfig /\ loose = NoConfig
  /\ moved = FALSE /\ strayed = FALSE
  /\ job = "prompt" /\ path = <<>> /\ at = 0
  /\ final = NoGoal /\ goal = NoGoal
  /\ step = "none" /\ tries = 0 /\ started = 0 /\ traj = NoTraj
  /\ planner = "idle"

Command ==
  \/ \E n \in Nodes : Go(n) \/ MoveTo(Joints(conf[n])) \/ Ask(Joints(conf[n]))
                            \/ GoToPose(conf[n])
  \/ \E c \in Cells : Ask(Line(c)) \/ MoveToTarget(c)
  \/ \E yes \in BOOLEAN : Answer(yes)

Manager ==
  \/ ChooseLine \/ NoLine \/ GivesUp \/ Rejected \/ Planning \/ Planned
  \/ PlanTimesOut \/ Check \/ Send \/ Done \/ Stops

Works == NextSegment \/ Returned \/ Manager

Others == \/ OnJointState \/ PlannerDone \/ LooseMoves \/ LooseEnds
          \/ OthersPlan \/ OthersMove

Next == Command \/ Works \/ Others

Spec == Init /\ [][Next]_vars

(* Every wait of the program has a time-out, and the planner stops.        *)
FairSpec == Spec /\ WF_vars(Works) /\ WF_vars(PlannerDone)

-----------------------------------------------------------------------------
(* A goal starts at most one trajectory - one that fails on the way, or is *)
(* accepted too late, is never followed by another to the same goal - and  *)
(* when it reports success the arm is there: at the tool pose, and for a   *)
(* joint goal in its joints, never in another branch - unless something    *)
(* else has moved it since it arrived.                                     *)
OneMotionThatEndsAtGoal ==
  /\ started <= 1
  /\ step = "ok" => Reached(goal) \/ moved

(* A walk keeps to the edges of the graph: when the move to a node begins, *)
(* the tool is at the node before it, and the arm in its joints if that    *)
(* node is a joint goal or the first - unless others, or a motion given up *)
(* before, move the arm after the path was computed, or the joint state it *)
(* was computed from was an old one.                                       *)
KeepsToEdges ==
  ~strayed /\ job \in {"walk", "detour"} /\ step = "choose" /\ at > 0 =>
    /\ arm.cell = conf[path[at]].cell
    /\ path[at] \in JointNodes \/ at = 1 => arm = conf[path[at]]

(* "A stale plan would otherwise make the arm jump": whatever moves the    *)
(* arm while a trajectory is planned, if a JointState from after that was  *)
(* received before the executor looked, the trajectory begins where the    *)
(* arm is or is not started at all.                                        *)
NoJump == step = "executing" => arm = traj.from \/ moved

(* Every command comes back to the prompt, although others take the        *)
(* planner and move the arm as they like.                                  *)
CommandEnds == job \notin {"prompt", "askWalk", "askGoal"} ~> job = "prompt"
=============================================================================
