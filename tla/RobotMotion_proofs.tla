------------------------ MODULE RobotMotion_proofs ------------------------
(***************************************************************************)
(* Proofs about RobotMotion, for any arm, pose graph and obstacles: a      *)
(* trajectory begins where the arm is, a goal starts one trajectory at     *)
(* most and ends where it says, and a walk keeps to the edges.  At the end *)
(* proofs about BoxDetection, whose clock is the motions of this arm.      *)
(***************************************************************************)
EXTENDS RobotMotion, BoxDetection, FiniteSetTheorems, WellFoundedInduction, TLAPS

(* What a call may be asked for, and the phases of a call and of a command. *)
Goals == [kind : {"joints"}, to : Configs]
           \cup [kind : {"pose", "line"}, to : Cells]

Flying == {"check", "send", "executing"}     \* there is a trajectory
Calling == Flying \cup {"choose", "plan", "planning", "ok", "failed"}
Walking == {"askWalk", "walk", "detour"}
Jobs == Walking \cup {"prompt", "askGoal", "goal", "direct", "snap"}

TypeOK ==
  /\ arm \in Configs
  /\ known \in Configs \cup {NoConfig} /\ loose \in Configs \cup {NoConfig}
  /\ job \in Jobs /\ path \in Seq(Nodes) /\ at \in Nat
  /\ final \in Goals \cup {NoGoal} /\ goal \in Goals \cup {NoGoal}
  /\ step \in Calling \cup {"none"}
  /\ tries \in 0..MaxAttempts /\ started \in Nat
  /\ planner \in {"idle", "forUs", "busy"}

Flags == moved \in BOOLEAN /\ strayed \in BOOLEAN

(* There is a goal during a call, a final one when a job needs it, and a   *)
(* trajectory when there is something to fly.                              *)
Present ==
  /\ step \in Calling => goal \in Goals
  /\ job \in {"askGoal", "detour", "snap"} => final \in Goals
  /\ job = "direct" => final \in [kind : {"pose"}, to : Cells]
  /\ step \in Flying \cup {"planning"} =>
       traj \in [from : Configs, to : Configs]

-----------------------------------------------------------------------------
(* What the executor relies on: until it looks, the arm is where the plan  *)
(* begins, or was moved and the joint state is old, or is where the joint  *)
(* state says.                                                             *)
StartsAtArm ==
  /\ step \in {"planning", "check"} => arm = traj.from \/ moved \/ known = arm
  /\ step \in {"send", "executing"} => arm = traj.from \/ moved

(* The invariant behind OneMotionThatEndsAtGoal.                           *)
EndsAt(c, g) == IF g.kind = "joints" THEN c = g.to ELSE c.cell = g.to

StartsOnce ==
  /\ started \in {0, 1}
  /\ step \notin {"executing", "ok", "failed"} => started = 0
AimsAtGoal == step \in Flying => EndsAt(traj.to, goal)
EndsThere ==
  /\ step = "ok" => EndsAt(arm, goal) \/ moved
  /\ step = "ok" /\ moved /\ job \in {"walk", "detour"} => strayed

(* The invariant behind KeepsToEdges: a walk has nodes left to go to, its  *)
(* goal is the next of them, and until that goal is over the arm has not   *)
(* left the node before it.                                                *)
OnPath ==
  job \in Walking =>
    /\ path # <<>> /\ at <= Len(path)
    /\ \A i \in 1..(Len(path) - 1) : path[i + 1] \in edges[path[i]]
NextGoal ==
  /\ job = "askWalk" => step = "none"
  /\ job \in {"walk", "detour"} /\ step # "none" =>
       /\ at < Len(path)
       /\ goal = IF at = 0 THEN Joints(conf[path[1]])
                           ELSE NodeGoal(path[at + 1])
StillThere ==
  ~strayed /\ job \in Walking /\ at > 0 /\ step \notin {"ok", "failed"} =>
    /\ arm.cell = conf[path[at]].cell
    /\ path[at] \in JointNodes \/ at = 1 => arm = conf[path[at]]

IInv == /\ TypeOK /\ Flags /\ Present
        /\ StartsAtArm /\ StartsOnce /\ AimsAtGoal /\ EndsThere
        /\ OnPath /\ NextGoal /\ StillThere

-----------------------------------------------------------------------------
(* Lemmas about the operators.                                             *)

(* A node's configuration, its cell and the goal it makes.                 *)
LEMMA NodeFacts ==
  ASSUME NEW n \in Nodes
  PROVE  /\ conf[n] \in Configs /\ conf[n].cell \in Cells
         /\ Joints(conf[n]) \in Goals /\ NodeGoal(n) \in Goals
  BY MotionAssumption DEF Configs, Joints, Pose, NodeGoal, Goals

(* A walk starts at nodes of the graph.                                    *)
LEMMA StartNodesFact == StartNodes \subseteq Nodes
  BY MotionAssumption DEF StartNodes, Closest

(* A path from the search is a walk along the edges, with a first node.    *)
LEMMA PathFacts ==
  ASSUME NEW a, NEW b, NEW p \in ShortestPaths(a, b)
  PROVE  /\ p \in Seq(Nodes) /\ p # <<>> /\ Len(p) \in Nat /\ 1 <= Len(p)
         /\ p[1] \in Nodes
         /\ \A i \in 1..(Len(p) - 1) : p[i + 1] \in edges[p[i]]
  <1>1. p \in Paths(a, b)
    BY DEF ShortestPaths, Closest
  <1>2. Cardinality(Nodes) \in Nat
    BY MotionAssumption, FS_CardinalityType
  <1>3. PICK k \in 1..Cardinality(Nodes) : p \in [1..k -> Nodes]
    BY <1>1 DEF Paths
  <1>4. k \in Nat /\ 1 <= k
    BY <1>2, <1>3
  <1>5. p \in Seq(Nodes) /\ Len(p) = k
    BY <1>3, <1>4
  <1>6. p # <<>> /\ p[1] \in Nodes
    BY <1>4, <1>5
  <1>. QED
    BY <1>1, <1>4, <1>5, <1>6 DEF Paths

(* Where an arm that goes for a goal aims: at a configuration that has the *)
(* cell of the goal, and its joints if it has joints.                      *)
LEMMA GoalFacts ==
  ASSUME NEW g \in Goals
  PROVE  /\ CellOf(g) \in Cells /\ g # NoGoal
         /\ g.kind \in {"joints", "pose", "line"}
         /\ g.kind = "joints" => g.to \in Configs
         /\ g.kind # "joints" => g.to \in Cells
  <1>1. CASE g \in [kind : {"joints"}, to : Configs]
    BY <1>1 DEF CellOf, Configs, NoGoal
  <1>2. CASE g \in [kind : {"pose", "line"}, to : Cells]
    BY <1>2 DEF CellOf, NoGoal
  <1>. QED
    BY <1>1, <1>2 DEF Goals

-----------------------------------------------------------------------------
(* Type correctness, and that a call has its goal and a flight its         *)
(* trajectory.                                                             *)

(* The state after the command that a call, a question or a walk begins.   *)
LEMMA CommandTypes ==
  ASSUME TypeOK, Present, Command
  PROVE  TypeOK' /\ Present'
  <1>. USE DEF TypeOK, Present, Calling, Flying, Jobs, Walking, Start, Call,
               NoCall, robotVars
  <1>1. 0 \in 0..MaxAttempts
    BY MotionAssumption
  <1>2. \A c \in Configs : Joints(c) \in Goals
    BY DEF Joints, Goals
  <1>3. \A c \in Cells : /\ Line(c) \in Goals /\ Pose(c) \in Goals
                         /\ Pose(c) \in [kind : {"pose"}, to : Cells]
    BY DEF Line, Pose, Goals
  <1>4. ASSUME NEW n \in Nodes, Go(n)
        PROVE  TypeOK' /\ Present'
    <2>1. PICK s \in StartNodes : \E p \in ShortestPaths(s, n) : Begin(p)
      BY <1>4 DEF Go
    <2>2. path' \in Seq(Nodes) /\ at' \in Nat
      BY <2>1, PathFacts DEF Begin
    <2>. QED
      BY <1>1, <1>4, <2>2 DEF Go
  <1>5. ASSUME NEW g \in Goals, MoveTo(g) \/ Ask(g)
        PROVE  TypeOK' /\ Present'
    BY <1>1, <1>5 DEF MoveTo, Ask
  <1>6. ASSUME NEW c \in Cells, MoveToTarget(c)
        PROVE  TypeOK' /\ Present'
    BY <1>1, <1>3, <1>6 DEF MoveToTarget
  <1>7. ASSUME NEW c \in Configs, GoToPose(c)
        PROVE  TypeOK' /\ Present'
    <2>1. CASE StartNodes = {}
      BY <1>1, <1>2, <1>7, <2>1 DEF GoToPose
    <2>2. CASE StartNodes # {}
      <3>1. PICK s \in StartNodes : Call(Joints(conf[s]))
        BY <1>7, <2>2 DEF GoToPose
      <3>2. Joints(conf[s]) \in Goals
        BY <3>1, StartNodesFact, NodeFacts
      <3>. QED
        BY <1>1, <1>2, <1>7, <2>2, <3>1, <3>2 DEF GoToPose
    <2>. QED
      BY <2>1, <2>2
  <1>8. ASSUME NEW yes \in BOOLEAN, Answer(yes)
        PROVE  TypeOK' /\ Present'
    <2>1. CASE ~yes /\ Prompt /\ NoCall
      BY <1>1, <1>8, <2>1 DEF Answer, Prompt
    <2>2. CASE job = "askWalk" /\ job' = "walk" /\ NoCall
                 /\ UNCHANGED <<path, at, final>>
      BY <1>1, <1>8, <2>2 DEF Answer
    <2>3. CASE job = "askGoal" /\ job' = "goal" /\ Call(final)
                 /\ final' = NoGoal /\ UNCHANGED <<path, at>>
      BY <1>1, <1>8, <2>3 DEF Answer
    <2>. QED
      BY <1>8, <2>1, <2>2, <2>3 DEF Answer
  <1>. QED
    BY <1>2, <1>3, <1>4, <1>5, <1>6, <1>7, <1>8, NodeFacts DEF Command

(* ... after the next goal of a walk.                                      *)
LEMMA SegmentTypes ==
  ASSUME TypeOK, Present, OnPath, NextSegment
  PROVE  TypeOK' /\ Present'
  <1>. USE DEF TypeOK, Present, Calling, Flying, Jobs, Walking, Start, Call,
               NoCall, robotVars
  <1>1. 0 \in 0..MaxAttempts
    BY MotionAssumption
  <1>2. path # <<>> /\ Len(path) \in Nat /\ path[1] \in Nodes
    BY DEF NextSegment, OnPath
  <1>3. CASE at = 0 /\ Call(Joints(conf[path[1]])) /\ UNCHANGED jobVars
    BY <1>1, <1>2, <1>3, NodeFacts DEF NextSegment, jobVars
  <1>4. CASE /\ at > 0 /\ at < Len(path)
             /\ Call(NodeGoal(path[at + 1])) /\ UNCHANGED jobVars
    <2>1. path[at + 1] \in Nodes
      BY <1>2, <1>4
    <2>. QED
      BY <1>1, <1>4, <2>1, NodeFacts DEF NextSegment, jobVars
  <1>5. CASE job = "walk" /\ Prompt /\ NoCall
    BY <1>1, <1>5 DEF NextSegment, Prompt
  <1>6. CASE /\ job = "detour" /\ Call(final)
             /\ job' = "goal" /\ path' = <<>> /\ at' = 0 /\ final' = NoGoal
    BY <1>1, <1>6 DEF NextSegment
  <1>. QED
    BY <1>3, <1>4, <1>5, <1>6 DEF NextSegment

(* ... after the end of a call.                                            *)
LEMMA ReturnedTypes ==
  ASSUME TypeOK, Present, Returned
  PROVE  TypeOK' /\ Present'
  <1>. USE DEF TypeOK, Present, Calling, Flying, Jobs, Walking, Start, Call,
               NoCall, robotVars
  <1>1. 0 \in 0..MaxAttempts
    BY MotionAssumption
  <1>2. UNCHANGED <<robotVars, planner>>
    BY DEF Returned
  <1>3. CASE job \in {"walk", "detour"} /\ step = "ok"
    BY <1>1, <1>2, <1>3 DEF Returned
  <1>4. CASE job = "direct" /\ step = "failed"
    <2>1. NoCall /\ (Detour \/ Prompt)
      BY <1>4 DEF Returned
    <2>2. CASE Prompt
      BY <1>1, <1>2, <2>1, <2>2 DEF Prompt
    <2>3. CASE ~Prompt
      <3>1. PICK s \in StartNodes, n \in Nodes :
               \E p \in ShortestPaths(s, n) :
                  Begin(p) /\ job' = "detour" /\ UNCHANGED final
        BY <2>1, <2>3 DEF Detour, Closest
      <3>2. path' \in Seq(Nodes) /\ at' \in Nat
        BY <3>1, PathFacts DEF Begin
      <3>3. final \in Goals
        BY <1>4 DEF Goals
      <3>. QED
        BY <1>1, <1>2, <2>1, <3>1, <3>2, <3>3
    <2>. QED
      BY <2>2, <2>3
  <1>5. CASE job = "snap"
    BY <1>1, <1>2, <1>5 DEF Returned
  <1>6. CASE Prompt /\ NoCall
    BY <1>1, <1>2, <1>6 DEF Prompt
  <1>. QED
    BY <1>3, <1>4, <1>5, <1>6 DEF Returned

(* ... after the manager's steps.                                          *)
LEMMA ManagerTypes ==
  ASSUME TypeOK, Present, Manager
  PROVE  TypeOK' /\ Present'
  <1>. USE DEF TypeOK, Present, Calling, Flying, Becomes, Ends, NotPlanned, robotVars
  <1>1. goal \in Goals /\ UNCHANGED <<jobVars, goal>>
    BY DEF Manager, ChooseLine, NoLine, GivesUp, Rejected, Planning, Planned,
           PlanTimesOut, Check, Send, Done, Stops, Attempt, jobVars
  <1>2. UNCHANGED <<job, path, at, strayed, final, goal>>
    BY <1>1 DEF jobVars
  <1>3. MaxAttempts \in Nat
    BY MotionAssumption
  <1>4. CASE ChooseLine
    <2>1. CellOf(goal) \in Cells
      BY <1>1, GoalFacts
    <2>2. LineTo(CellOf(goal)) \in [from : Configs, to : Configs]
      BY <2>1 DEF LineTo, Configs
    <2>. QED
      BY <1>1, <1>2, <1>4, <2>2 DEF ChooseLine
  <1>5. CASE NoLine \/ GivesUp \/ PlanTimesOut \/ Check
    BY <1>1, <1>2, <1>3, <1>5 DEF NoLine, GivesUp, PlanTimesOut, Check
  <1>6. CASE Rejected
    BY <1>1, <1>2, <1>3, <1>6 DEF Rejected, Attempt
  <1>7. CASE Planning
    BY <1>1, <1>2, <1>3, <1>7 DEF Planning, Attempt
  <1>8. CASE Planned
    <2>1. CASE NotPlanned
      BY <1>1, <1>2, <1>8, <2>1 DEF Planned
    <2>2. CASE step' = "check"
      <3>1. traj' \in [from : Configs, to : Configs]
        BY <1>8, <2>2 DEF Planned
      <3>. QED
        BY <1>1, <1>2, <1>3, <1>8, <2>2, <3>1 DEF Planned
    <2>. QED
      BY <1>8, <2>1, <2>2 DEF Planned
  <1>9. CASE Send
    BY <1>1, <1>2, <1>3, <1>9 DEF Send
  <1>10. CASE Done
    BY <1>1, <1>2, <1>3, <1>10 DEF Done
  <1>11. CASE Stops
    <2>1. arm' \in Configs /\ loose' \in Configs \cup {NoConfig}
      BY <1>11 DEF Stops, Between
    <2>. QED
      BY <1>1, <1>2, <1>3, <1>11, <2>1 DEF Stops
  <1>. QED
    BY <1>4, <1>5, <1>6, <1>7, <1>8, <1>9, <1>10, <1>11 DEF Manager

(* ... and when others plan or move the arm.                               *)
LEMMA Types ==
  ASSUME IInv, [Next]_vars
  PROVE  TypeOK' /\ Present'
  <1>. USE DEF IInv
  <1>1. CASE Command
    BY <1>1, CommandTypes
  <1>2. CASE NextSegment
    BY <1>2, SegmentTypes
  <1>3. CASE Returned
    BY <1>3, ReturnedTypes
  <1>4. CASE Manager
    BY <1>4, ManagerTypes
  <1>5. CASE OnJointState \/ PlannerDone \/ LooseEnds \/ OthersPlan
    BY <1>5 DEF OnJointState, PlannerDone, LooseEnds, OthersPlan, TypeOK, Present,
                robotVars, jobVars, callVars
  <1>6. CASE LooseMoves \/ OthersMove
    <2>1. arm' \in Configs
      BY <1>6 DEF LooseMoves, OthersMove, MovesTo, Between
    <2>2. /\ UNCHANGED <<known, loose, planner>>
          /\ UNCHANGED <<job, path, at, final, goal, step, tries, traj, started>>
      BY <1>6 DEF LooseMoves, OthersMove, MovesTo
    <2>. QED
      BY <2>1, <2>2 DEF TypeOK, Present
  <1>7. CASE UNCHANGED vars
    BY <1>7 DEF vars, TypeOK, Present, robotVars, jobVars, callVars
  <1>. QED
    BY <1>1, <1>2, <1>3, <1>4, <1>5, <1>6, <1>7 DEF Next, Works, Others

(* What is remembered of disturbances is a truth value.                    *)
LEMMA FlagsStep ==
  ASSUME Flags, [Next]_vars
  PROVE  Flags'
  <1>. USE DEF Flags
  <1>1. CASE Command
    <2>1. moved' = FALSE
      BY <1>1 DEF Command, Go, MoveTo, Ask, MoveToTarget, GoToPose, Answer, Start, Call,
                  NoCall
    <2>2. strayed' \in {strayed, FALSE, known # arm}
      BY <1>1 DEF Command, Go, MoveTo, Ask, MoveToTarget, GoToPose, Answer, Begin, Prompt
    <2>. QED
      BY <2>1, <2>2
  <1>2. CASE NextSegment
    <2>1. moved' = FALSE /\ strayed' \in {strayed, FALSE}
      BY <1>2 DEF NextSegment, Prompt, Start, Call, NoCall, jobVars
    <2>. QED
      BY <2>1
  <1>3. CASE Returned
    <2>1. moved' = FALSE /\ strayed' \in {strayed, FALSE, known # arm}
      BY <1>3 DEF Returned, Detour, Begin, Prompt, Start, Call, NoCall
    <2>. QED
      BY <2>1
  <1>4. CASE Manager
    <2>1. moved' \in {moved, FALSE} /\ strayed' = strayed
      BY <1>4 DEF Manager, Becomes, Ends, NotPlanned, Attempt, ChooseLine, NoLine, GivesUp,
                  Rejected, Planning, Planned, PlanTimesOut, Check, Send, Done, Stops,
                  jobVars
    <2>. QED
      BY <2>1
  <1>5. CASE LooseMoves \/ OthersMove
    <2>. DEFINE InCall == step \in {"planning", "check", "send", "executing", "ok"}
                OnWalk == job \in {"askWalk", "walk", "detour"}
    <2>1. InCall \in BOOLEAN /\ OnWalk \in BOOLEAN
      OBVIOUS
    <2>2. moved' = InCall /\ strayed' = OnWalk
      BY <1>5 DEF LooseMoves, OthersMove, MovesTo
    <2>. HIDE DEF InCall, OnWalk
    <2>. QED
      BY <2>1, <2>2
  <1>6. CASE OnJointState
    BY <1>6 DEF OnJointState, jobVars
  <1>7. CASE PlannerDone \/ LooseEnds \/ OthersPlan \/ UNCHANGED vars
    BY <1>7 DEF PlannerDone, LooseEnds, OthersPlan, vars, jobVars, callVars
  <1>. QED
    BY <1>1, <1>2, <1>3, <1>4, <1>5, <1>6, <1>7 DEF Next, Works, Others

-----------------------------------------------------------------------------
(* One call of the manager.                                                *)

(* Between two calls nothing is planned or flown: every step but those of  *)
(* the manager leaves the call alone, or starts one afresh.                *)
Outside == Command \/ NextSegment \/ Returned

(* The arm rests meanwhile, and no trajectory has been started yet.        *)
LEMMA CallFacts ==
  ASSUME Outside
  PROVE  /\ UNCHANGED robotVars
         /\ started' = 0 /\ step' \in {"none", "choose"}
  <1>. USE DEF Start, Call, NoCall
  <1>1. CASE Command
    BY <1>1 DEF Command, Go, MoveTo, Ask, MoveToTarget, GoToPose, Answer
  <1>2. CASE NextSegment
    BY <1>2 DEF NextSegment
  <1>3. CASE Returned
    BY <1>3 DEF Returned
  <1>. QED
    BY <1>1, <1>2, <1>3 DEF Outside

(* What the executor has looked at still holds, or others moved the arm.   *)
LEMMA StartsAtArmStep ==
  ASSUME IInv, [Next]_vars
  PROVE  StartsAtArm'
  <1>. USE DEF StartsAtArm
  <1>0. StartsAtArm /\ Present
    BY DEF IInv
  <1>1. CASE Outside
    BY <1>1, CallFacts
  <1>2. CASE Manager
    <2>. USE DEF Becomes, Ends, NotPlanned, Attempt, robotVars
    <2>1. CASE ChooseLine
      BY <2>1 DEF ChooseLine, LineTo
    <2>2. CASE Planning
      BY <2>2 DEF Planning
    <2>3. CASE Planned
      <3>1. step' = "check" => traj'.from = traj.from /\ step = "planning"
        BY <1>0, <2>3 DEF Planned, Present
      <3>. QED
        BY <1>0, <2>3, <3>1 DEF Planned
    <2>4. CASE Check
      BY <1>0, <2>4 DEF Check
    <2>5. CASE Send
      BY <1>0, <2>5 DEF Send
    <2>6. CASE NoLine \/ GivesUp \/ Rejected \/ PlanTimesOut \/ Done \/ Stops
      BY <2>6 DEF NoLine, GivesUp, Rejected, PlanTimesOut, Done, Stops
    <2>. QED
      BY <1>2, <2>1, <2>2, <2>3, <2>4, <2>5, <2>6 DEF Manager
  <1>3. CASE PlannerDone \/ OthersPlan \/ LooseEnds \/ UNCHANGED vars
    BY <1>0, <1>3 DEF PlannerDone, OthersPlan, LooseEnds, vars, robotVars, callVars
  <1>4. CASE LooseMoves \/ OthersMove
    BY <1>0, <1>4 DEF LooseMoves, OthersMove, MovesTo
  <1>5. CASE OnJointState
    BY <1>0, <1>5 DEF OnJointState
  <1>. QED
    BY <1>1, <1>2, <1>3, <1>4, <1>5 DEF Next, Works, Others, Outside

(* A trajectory is started once, only after the executor looked at it, and *)
(* ends in the goal it was planned for.                                    *)
LEMMA AimsStep ==
  ASSUME IInv, [Next]_vars
  PROVE  StartsOnce' /\ AimsAtGoal' /\ EndsThere'
  <1>. USE DEF StartsOnce, AimsAtGoal, EndsThere, Flying
  <1>1. StartsOnce /\ AimsAtGoal /\ EndsThere
    BY DEF IInv
  <1>2. CASE Outside
    BY <1>1, <1>2, CallFacts
  <1>3. CASE Manager
    <2>. USE <1>1 DEF Becomes, Attempt, Ends, NotPlanned
    <2>1. goal \in Goals /\ UNCHANGED goal
      BY <1>3 DEF IInv, Present, Calling, Manager, ChooseLine, NoLine, GivesUp,
                  Rejected, Planning, Planned, PlanTimesOut, Check, Send, Done,
                  Stops, Ends, NotPlanned, robotVars, jobVars
    <2>2. CASE ChooseLine
      <3>1. EndsAt(LineTo(CellOf(goal)).to, goal)
        <4>1. goal.kind = "joints" => Direct
          BY <2>2 DEF ChooseLine
        <4>2. goal.kind = "joints" => LineTo(CellOf(goal)).to = goal.to
          BY <4>1 DEF Direct, EndsInGoal
        <4>3. LineTo(CellOf(goal)).to.cell = CellOf(goal)
          BY DEF IInv, TypeOK, LineTo, Configs
        <4>. QED
          BY <4>2, <4>3 DEF EndsAt, CellOf
      <3>. QED
        BY <2>1, <2>2, <3>1 DEF ChooseLine
    <2>3. CASE NoLine \/ GivesUp \/ Rejected \/ Planning \/ PlanTimesOut
      BY <2>1, <2>3 DEF NoLine, GivesUp, Rejected, Planning, PlanTimesOut
    <2>4. CASE Planned
      <3>1. traj \in [from : Configs, to : Configs]
        BY <2>4 DEF Planned, IInv, Present
      <3>2. CASE NotPlanned
        BY <2>1, <2>4, <3>2 DEF Planned
      <3>3. CASE step' = "check"
        <4>1. EndsAt(traj'.to, goal)
          BY <2>4, <3>1, <3>3 DEF Planned, EndsAt
        <4>. QED
          BY <2>1, <2>4, <3>3, <4>1 DEF Planned
      <3>. QED
        BY <2>4, <3>2, <3>3 DEF Planned
    <2>5. CASE Check
      BY <2>1, <2>5 DEF Check
    <2>6. CASE Send
      BY <2>1, <2>6 DEF Send
    <2>7. CASE Done
      BY <2>1, <2>7 DEF Done
    <2>8. CASE Stops
      BY <2>1, <2>8 DEF Stops
    <2>. QED
      BY <1>3, <2>2, <2>3, <2>4, <2>5, <2>6, <2>7, <2>8 DEF Manager
  <1>4. CASE PlannerDone \/ OthersPlan \/ LooseEnds \/ UNCHANGED vars
    BY <1>1, <1>4 DEF PlannerDone, OthersPlan, LooseEnds, vars, robotVars, jobVars,
                      callVars
  <1>5. CASE LooseMoves \/ OthersMove
    BY <1>1, <1>5 DEF LooseMoves, OthersMove, MovesTo
  <1>6. CASE OnJointState
    BY <1>1, <1>6 DEF OnJointState, jobVars
  <1>. QED
    BY <1>2, <1>3, <1>4, <1>5, <1>6 DEF Next, Works, Others, Outside

-----------------------------------------------------------------------------
(* Walks.                                                                  *)

WalkInv == OnPath /\ NextGoal /\ StillThere

(* A walk begins at the first node if the arm is known to be there, or     *)
(* else before it.                                                         *)
LEMMA BeginFacts ==
  ASSUME NEW a, NEW b, NEW p \in ShortestPaths(a, b), Begin(p), arm' = arm,
         job' \in {"askWalk", "detour"}, step' = "none"
  PROVE  WalkInv'
  <1>1. /\ path' = p /\ at' \in {0, 1} /\ p # <<>>
        /\ 1 <= Len(p) /\ Len(p) \in Nat
        /\ \A i \in 1..(Len(p) - 1) : p[i + 1] \in edges[p[i]]
    BY PathFacts DEF Begin
  <1>2. OnPath'
    BY <1>1 DEF OnPath
  <1>3. NextGoal'
    BY DEF NextGoal
  <1>4. StillThere'
    <2>1. at' = 1 => known = conf[p[1]]
      BY DEF Begin, IsAt
    <2>2. ~strayed' => known = arm
      BY DEF Begin
    <2>. QED
      BY <1>1, <2>1, <2>2 DEF StillThere
  <1>. QED
    BY <1>2, <1>3, <1>4 DEF WalkInv

(* Without a walk there is nothing to show.                                *)
LEMMA NoWalk ==
  ASSUME job' \notin Walking
  PROVE  WalkInv'
  BY DEF WalkInv, OnPath, NextGoal, StillThere, Walking

(* Commands that are no walk end it or show none; a walk is as it was shown. *)
LEMMA CommandWalks ==
  ASSUME IInv, Command
  PROVE  WalkInv'
  <1>1. arm' = arm
    BY CallFacts DEF Outside, robotVars
  <1>2. ASSUME NEW n \in Nodes, Go(n)
        PROVE  WalkInv'
    <2>1. /\ step' = "none" /\ job' = "askWalk"
          /\ \E s \in StartNodes : \E p \in ShortestPaths(s, n) : Begin(p)
      BY <1>2 DEF Go, NoCall, Start
    <2>. QED
      BY <1>1, <2>1, BeginFacts
  <1>3. ASSUME NEW yes \in BOOLEAN, Answer(yes)
        PROVE  WalkInv'
    <2>1. CASE job' = "walk"
      <3>1. /\ job = "askWalk" /\ step' = "none"
            /\ UNCHANGED <<path, at, strayed, arm>>
        BY <1>1, <1>3, <2>1 DEF Answer, NoCall, Start, Prompt
      <3>2. step = "none"
        BY <3>1 DEF IInv, NextGoal
      <3>. QED
        BY <2>1, <3>1, <3>2 DEF IInv, WalkInv, OnPath, NextGoal, StillThere,
                                Walking
    <2>2. CASE job' # "walk"
      <3>1. job' \in {"prompt", "goal"}
        BY <1>3, <2>2 DEF Answer, Prompt
      <3>. QED
        BY <3>1, NoWalk DEF Walking
    <2>. QED
      BY <2>1, <2>2
  <1>4. CASE job' \in {"goal", "askGoal", "direct", "snap"}
    BY <1>4, NoWalk DEF Walking
  <1>. QED
    BY <1>2, <1>3, <1>4 DEF Command, MoveTo, Ask, MoveToTarget, GoToPose

(* The next segment is to the next node, from where the arm still is.      *)
LEMMA SegmentWalks ==
  ASSUME IInv, NextSegment
  PROVE  WalkInv'
  <1>1. /\ OnPath /\ StillThere /\ job \in {"walk", "detour"} /\ step = "none"
        /\ UNCHANGED arm
    BY DEF IInv, NextSegment, robotVars
  <1>2. path # <<>> /\ Len(path) \in Nat /\ 0 < Len(path)
    <2>1. path # <<>> /\ path \in Seq(Nodes)
      BY <1>1 DEF OnPath, Walking, IInv, TypeOK
    <2>. QED
      BY <2>1
  <1>3. CASE at = 0 /\ Call(Joints(conf[path[1]])) /\ UNCHANGED jobVars
    BY <1>1, <1>2, <1>3 DEF Call, Start, jobVars, WalkInv, OnPath, NextGoal,
                            StillThere, Walking
  <1>4. CASE /\ at > 0 /\ at < Len(path)
             /\ Call(NodeGoal(path[at + 1])) /\ UNCHANGED jobVars
    <2>1. /\ UNCHANGED <<job, path, at, strayed, arm>>
          /\ goal' = NodeGoal(path[at + 1])
      BY <1>1, <1>4 DEF Call, Start, jobVars
    <2>2. OnPath' /\ StillThere'
      BY <1>1, <2>1 DEF OnPath, StillThere
    <2>3. NextGoal'
      BY <1>1, <1>4, <2>1 DEF NextGoal
    <2>. QED
      BY <2>2, <2>3 DEF WalkInv
  <1>5. CASE job' \in {"prompt", "goal"}
    BY <1>5, NoWalk DEF Walking
  <1>. QED
    BY <1>3, <1>4, <1>5 DEF NextSegment, Prompt

(* A segment that succeeded has brought the arm to the next node.          *)
LEMMA ReturnedWalks ==
  ASSUME IInv, Returned
  PROVE  WalkInv'
  <1>1. UNCHANGED arm /\ step \in {"ok", "failed"}
    BY DEF Returned, robotVars
  <1>2. CASE job \in {"walk", "detour"} /\ step = "ok"
    <2>1. at' = at + 1 /\ UNCHANGED <<job, path, strayed>> /\ step' = "none"
      BY <1>2 DEF Returned, NoCall, Start
    <2>2. /\ at \in Nat /\ Len(path) \in Nat /\ at < Len(path)
          /\ goal = IF at = 0 THEN Joints(conf[path[1]])
                              ELSE NodeGoal(path[at + 1])
      BY <1>2 DEF IInv, TypeOK, NextGoal
    <2>3. OnPath'
      BY <1>2, <2>1, <2>2 DEF IInv, OnPath
    <2>4. NextGoal'
      BY <1>2, <2>1 DEF NextGoal
    <2>5. ASSUME ~strayed
          PROVE  /\ arm.cell = conf[path[at + 1]].cell
                 /\ path[at + 1] \in JointNodes \/ at = 0 =>
                      arm = conf[path[at + 1]]
      <3>1. EndsAt(arm, goal)
        BY <1>2, <2>5 DEF IInv, EndsThere
      <3>2. CASE at = 0
        BY <2>2, <3>1, <3>2 DEF EndsAt, Joints
      <3>3. CASE at # 0
        BY <2>2, <3>1, <3>3 DEF EndsAt, NodeGoal, Joints, Pose
      <3>. QED
        BY <3>2, <3>3
    <2>6. StillThere'
      BY <1>1, <2>1, <2>2, <2>5 DEF StillThere
    <2>. QED
      BY <2>3, <2>4, <2>6 DEF WalkInv
  <1>3. CASE job = "direct" /\ step = "failed"
    <2>1. step' = "none" /\ (Detour \/ job' = "prompt")
      BY <1>3 DEF Returned, NoCall, Start, Prompt
    <2>2. CASE job' = "prompt"
      BY <2>2, NoWalk DEF Walking
    <2>3. CASE job' # "prompt"
      <3>1. PICK s \in StartNodes, n \in Nodes :
               \E p \in ShortestPaths(s, n) : Begin(p) /\ job' = "detour"
        BY <2>1, <2>3 DEF Detour, Closest, Prompt
      <3>. QED
        BY <1>1, <2>1, <3>1, BeginFacts
    <2>. QED
      BY <2>2, <2>3
  <1>4. CASE job' \in {"prompt", "goal"}
    BY <1>4, NoWalk DEF Walking
  <1>. QED
    BY <1>2, <1>3, <1>4 DEF Returned, Prompt

(* Walks under every step.                                                 *)
LEMMA Walks ==
  ASSUME IInv, [Next]_vars
  PROVE  WalkInv'
  <1>1. CASE Command
    BY <1>1, CommandWalks
  <1>2. CASE NextSegment
    BY <1>2, SegmentWalks
  <1>3. CASE Returned
    BY <1>3, ReturnedWalks
  <1>4. CASE Manager
    <2>1. /\ UNCHANGED <<job, path, at, strayed, goal>>
          /\ step \notin {"none", "ok", "failed"} /\ step' # "none"
          /\ step' \notin {"ok", "failed"} => arm' = arm
      BY <1>4 DEF Manager, Becomes, Attempt, ChooseLine, NoLine, GivesUp,
                  Rejected, Planning, Planned, PlanTimesOut, Check, Send, Done,
                  Stops, Ends, NotPlanned, robotVars, jobVars, jobVars
    <2>2. OnPath' /\ NextGoal'
      BY <2>1 DEF IInv, OnPath, NextGoal
    <2>3. StillThere'
      BY <2>1 DEF IInv, StillThere
    <2>. QED
      BY <2>2, <2>3 DEF WalkInv
  <1>5. CASE Others \/ UNCHANGED vars
    <2>1. /\ UNCHANGED <<job, path, at, goal, step>>
          /\ ~strayed' /\ job \in Walking => arm' = arm /\ ~strayed
      <3>1. CASE LooseMoves \/ OthersMove
        BY <3>1 DEF LooseMoves, OthersMove, MovesTo, Walking
      <3>2. CASE OnJointState \/ PlannerDone \/ LooseEnds \/ OthersPlan \/ UNCHANGED vars
        BY <3>2 DEF OnJointState, PlannerDone, LooseEnds, OthersPlan, vars, robotVars,
                    jobVars, callVars
      <3>. QED
        BY <1>5, <3>1, <3>2 DEF Others
    <2>2. OnPath' /\ NextGoal'
      BY <2>1 DEF IInv, OnPath, NextGoal
    <2>3. StillThere'
      BY <2>1 DEF IInv, StillThere
    <2>. QED
      BY <2>2, <2>3 DEF WalkInv
  <1>. QED
    BY <1>1, <1>2, <1>3, <1>4, <1>5 DEF Next, Works

-----------------------------------------------------------------------------
(* The invariant holds at the prompt.                                      *)
LEMMA InitHolds ==
  ASSUME Init
  PROVE  IInv
  <1>1. 0 \in 0..MaxAttempts /\ <<>> \in Seq(Nodes)
    BY MotionAssumption
  <1>2. TypeOK
    BY <1>1 DEF Init, TypeOK, Jobs, Walking, Calling
  <1>3. Present /\ StartsAtArm /\ StartsOnce /\ AimsAtGoal /\ EndsThere
    BY DEF Init, Present, StartsAtArm, StartsOnce, AimsAtGoal, EndsThere,
           Calling, Flying
  <1>4. OnPath /\ NextGoal /\ StillThere
    BY DEF Init, OnPath, NextGoal, StillThere, Walking
  <1>5. Flags
    BY DEF Init, Flags
  <1>. QED
    BY <1>2, <1>3, <1>4, <1>5 DEF IInv

(* The inductive invariant holds, whatever others do.                      *)
THEOREM Invariance == Spec => []IInv
  <1>1. Init => IInv
    BY InitHolds
  <1>2. IInv /\ [Next]_vars => IInv'
    BY Types, FlagsStep, StartsAtArmStep, AimsStep, Walks DEF IInv, WalkInv
  <1>. QED
    BY <1>1, <1>2, PTL DEF Spec

(* Every variable has its type: a call has its goal, and what the executor *)
(* looks at or flies is a trajectory between two configurations.           *)
THEOREM TypeCorrect == Spec => [](TypeOK /\ Flags /\ Present)
  <1>1. IInv => TypeOK /\ Flags /\ Present
    BY DEF IInv
  <1>. QED
    BY <1>1, Invariance, PTL

(* The executor's check of the start works although it looks at a message: *)
(* a trajectory begins where the arm is, unless that was moved and no      *)
(* joint state said so before the executor looked.                         *)
THEOREM StartsWhereArmIs == Spec => []NoJump
  <1>1. IInv => NoJump
    BY DEF IInv, StartsAtArm, NoJump
  <1>. QED
    BY <1>1, Invariance, PTL

(* A goal starts one trajectory at most, and what reports success has      *)
(* brought the arm to the goal - in its joints, not only its tool, if the  *)
(* goal has joints - where it is unless something else moved it since.     *)
THEOREM EndsAtGoal == Spec => []OneMotionThatEndsAtGoal
  <1>1. IInv => OneMotionThatEndsAtGoal
    BY DEF IInv, StartsOnce, EndsThere, EndsAt, Reached, OneMotionThatEndsAtGoal
  <1>. QED
    BY <1>1, Invariance, PTL

(* A walk keeps to the edges: its nodes follow the edges of the graph, and *)
(* each move begins at the node before, unless the arm was not where it    *)
(* was known to be at the beginning, or something else moved it since.     *)
THEOREM WalksKeepToEdges == Spec => [](KeepsToEdges /\ OnPath)
  <1>1. IInv => KeepsToEdges /\ OnPath
    BY DEF IInv, StillThere, KeepsToEdges, Walking
  <1>. QED
    BY <1>1, Invariance, PTL
-----------------------------------------------------------------------------
(* Vision: proofs about BoxDetection, for any number of calls, threads and *)
(* arm motions, whatever SAM proposes.  What a client is handed depends on *)
(* the order in which the answer and the markers come, so the invariants   *)
(* relate the messages published, those received and the call it made.     *)
Stages == {"none", "sent", "waiting", "sam", "tf", "refused", "done"}
Open == {"sent", "waiting", "sam", "tf"}     \* the call is not answered

DetectTypes ==
  /\ shared \in BOOLEAN /\ now \in Nat
  /\ stage \in [Calls -> Stages]
  /\ published \in Seq([by : Calls, true : BOOLEAN])
  /\ count \in Nat /\ seen \in Nat /\ answer \in Nat /\ mine \in Nat
  /\ pc \in {"idle", "called", "markers"} /\ rested \in BOOLEAN

(* What was returned had been received, and detect() looks for a message   *)
(* beyond those it had received.                                           *)
CountInv ==
  /\ answer <= count /\ count <= Len(published)
  /\ pc # "idle" => answer <= seen /\ seen <= count

(* A client that is alone: only its own call is open, and if the camera    *)
(* had delivered when it called, the arm has not moved since the frames.   *)
OneCall == \A i \in Calls : stage[i] \in Open => pc = "called" /\ mine = i
Rests ==
  /\ rested /\ pc # "idle" => color = now /\ depth = now
  /\ \A i \in Calls : rested /\ stage[i] \in {"sam", "tf"} => shot = <<now, now>>

(* Before its call is done nothing comes, then one message: its own, and   *)
(* with a true transform if the camera had delivered.                      *)
Own(k) == published[k].by = mine /\ (rested => published[k].true)
OwnMessage == Len(published) = seen + 1 /\ Own(seen + 1)
Expected ==
  /\ pc # "idle" => mine \in Calls
  /\ pc = "called" => IF stage[mine] = "done" THEN OwnMessage ELSE Len(published) = seen
  /\ pc = "markers" => stage[mine] = "done" /\ OwnMessage
  /\ pc = "idle" => /\ count = Len(published)
                    /\ mine \in Calls /\ stage[mine] = "done" =>
                         answer = Len(published) /\ answer > 0 /\ Own(answer)
  /\ answer > 0 => mine \in Calls

AloneInv == ~shared => OneCall /\ Rests /\ Expected
DetectInv == DetectTypes /\ CountInv /\ AloneInv

LEMMA DetectStart == DetectInit => DetectInv
  <1>. SUFFICES ASSUME DetectInit PROVE DetectInv
    OBVIOUS
  <1>1. published = <<>> /\ Len(published) = 0
    BY DEF DetectInit
  <1>2. stage \in [Calls -> Stages] /\ \A i \in Calls : stage[i] = "none"
    BY DEF DetectInit, Stages
  <1>3. DetectTypes /\ CountInv
    <2>1. shared \in BOOLEAN /\ rested \in BOOLEAN
      BY DEF DetectInit
    <2>2. published \in Seq([by : Calls, true : BOOLEAN])
      BY <1>1
    <2>. QED
      BY <1>1, <1>2, <2>1, <2>2 DEF DetectInit, DetectTypes, CountInv
  <1>4. OneCall /\ Rests
    BY <1>2 DEF DetectInit, OneCall, Rests, Open
  <1>5. Expected
    BY <1>1, <1>2 DEF DetectInit, Expected
  <1>. QED
    BY <1>3, <1>4, <1>5 DEF DetectInv, AloneInv

(* A call that moves on to another stage.                                  *)
LEMMA StageFacts ==
  ASSUME DetectTypes, NEW i \in Calls, NEW s \in Stages, Stage(i, s)
  PROVE  /\ stage' \in [Calls -> Stages] /\ stage'[i] = s
         /\ \A j \in Calls : j # i => stage'[j] = stage[j]
  BY DEF DetectTypes, Stage

(* What leaves the messages sent, the calls and the arm alone.             *)
LEMMA DetectQuiet ==
  ASSUME DetectInv, UNCHANGED <<shared, stage, shot, published, now>>,
         UNCHANGED <<pc, seen, mine, rested, answer>>,
         color' \in {color, now}, depth' \in {depth, now},
         count' \in Nat, count <= count', count' <= Len(published)
  PROVE  DetectInv'
  <1>. USE DEF DetectInv
  <1>1. DetectTypes' /\ CountInv'
    BY DEF DetectTypes, CountInv
  <1>2. ~shared => (OneCall /\ Rests)'
    BY DEF AloneInv, OneCall, Rests
  <1>3. ~shared => Expected'
    BY DEF AloneInv, Expected, OwnMessage, Own, DetectTypes, CountInv
  <1>. QED
    BY <1>1, <1>2, <1>3 DEF AloneInv

(* An estimate that goes on without publishing anything.                   *)
LEMMA EstimateGoesOn ==
  ASSUME DetectInv, NEW i \in Calls, stage[i] \in Open,
         NEW s \in Open \cup {"refused"}, Stage(i, s),
         UNCHANGED <<shared, color, depth, published, clientVars, now>>,
         ~shared /\ rested /\ s \in {"sam", "tf"} => shot' = <<now, now>>
  PROVE  DetectInv'
  <1>. USE DEF DetectInv, clientVars
  <1>1. /\ stage' \in [Calls -> Stages] /\ stage'[i] = s
        /\ \A j \in Calls : j # i => stage'[j] = stage[j]
    BY StageFacts DEF Stages, Open
  <1>2. DetectTypes' /\ CountInv'
    BY <1>1 DEF DetectTypes, CountInv
  <1>3. ASSUME ~shared PROVE (OneCall /\ Rests /\ Expected)'
    <2>1. pc = "called" /\ mine = i /\ OneCall /\ Rests /\ Expected
      BY <1>3 DEF AloneInv, OneCall
    <2>2. \A j \in Calls : j # i => stage'[j] \notin Open
      BY <1>1, <2>1 DEF OneCall
    <2>3. OneCall' /\ Rests'
      BY <1>1, <1>3, <2>1, <2>2 DEF OneCall, Rests, Open
    <2>4. Expected'
      BY <1>1, <2>1 DEF Expected, Open
    <2>. QED
      BY <2>3, <2>4
  <1>. QED
    BY <1>2, <1>3 DEF AloneInv

(* The estimate publishes its faces: the one message its caller waits for. *)
LEMMA PublishKeeps ==
  ASSUME DetectInv, NEW i \in Calls, Publish(i)
  PROVE  DetectInv'
  <1>. USE DEF DetectInv, clientVars
  <1>1. /\ stage[i] = "tf" /\ Stage(i, "done")
        /\ UNCHANGED <<shared, color, depth, now>>
        /\ UNCHANGED <<count, pc, seen, mine, rested, answer>>
    BY DEF Publish
  <1>2. /\ stage' \in [Calls -> Stages] /\ stage'[i] = "done"
        /\ \A j \in Calls : j # i => stage'[j] = stage[j]
    BY <1>1, StageFacts DEF Stages
  <1>. DEFINE message == [by |-> i, true |-> shot = <<now, now>>]
  <1>3. message.by = i /\ message.true = (shot = <<now, now>>)
        /\ message \in [by : Calls, true : BOOLEAN]
    OBVIOUS
  <1>4. published' = Append(published, message)
    BY DEF Publish
  <1>. HIDE DEF message
  <1>5. /\ published \in Seq([by : Calls, true : BOOLEAN]) /\ Len(published) \in Nat
        /\ published' \in Seq([by : Calls, true : BOOLEAN])
        /\ Len(published') = Len(published) + 1
        /\ published'[Len(published) + 1] = message
        /\ \A k \in 1..Len(published) : published'[k] = published[k]
    BY <1>3, <1>4 DEF DetectTypes
  <1>6. DetectTypes' /\ CountInv'
    BY <1>1, <1>2, <1>5 DEF DetectTypes, CountInv
  <1>7. ASSUME ~shared PROVE (OneCall /\ Rests /\ Expected)'
    <2>1. /\ OneCall /\ Rests /\ Expected
          /\ pc = "called" /\ mine = i /\ (rested => shot = <<now, now>>)
      BY <1>1, <1>7 DEF AloneInv, OneCall, Rests, Open
    <2>2. \A j \in Calls : stage'[j] \notin Open
      BY <1>2, <2>1 DEF OneCall, Open
    <2>3. OneCall' /\ Rests'
      BY <1>1, <2>1, <2>2 DEF OneCall, Rests, Open
    <2>4. Len(published) = seen /\ seen \in Nat
      BY <1>1, <2>1 DEF Expected, DetectTypes
    <2>5. OwnMessage'
      <3>1. message.by = mine /\ (rested => message.true)
        BY <1>3, <2>1
      <3>2. published'[seen + 1] = message /\ Len(published') = seen + 1
        BY <1>5, <2>4
      <3>. QED
        BY <1>1, <3>1, <3>2 DEF OwnMessage, Own
    <2>6. Expected'
      BY <1>1, <1>2, <2>1, <2>5 DEF Expected
    <2>. QED
      BY <2>3, <2>6
  <1>. QED
    BY <1>1, <1>6, <1>7 DEF AloneInv

(* Others only call while the client is not alone.                         *)
LEMMA OthersCall ==
  ASSUME DetectInv, NEW i \in Calls, CheckTriggers(i) \/ OnTimer(i)
  PROVE  DetectInv'
  <1>1. PICK s \in {"sent", "waiting"} : Stage(i, s)
    BY DEF CheckTriggers, OnTimer, NewCall
  <1>2. stage' \in [Calls -> Stages]
    BY <1>1, StageFacts DEF DetectInv, Stages
  <1>. QED
    BY <1>2 DEF CheckTriggers, OnTimer, clientVars, DetectInv, DetectTypes, CountInv,
                AloneInv

(* detect() begins.                                                        *)
LEMMA DetectKeeps ==
  ASSUME DetectInv, NEW i \in Calls, Detect(i)
  PROVE  DetectInv'
  <1>. USE DEF DetectInv
  <1>1. /\ pc = "idle" /\ stage[i] = "none" /\ Stage(i, "sent")
        /\ pc' = "called" /\ seen' = count /\ mine' = i
        /\ rested' = (color = now /\ depth = now)
        /\ UNCHANGED <<shared, color, depth, shot, published, count, answer, now>>
    BY DEF Detect, NewCall, workVars
  <1>2. /\ stage' \in [Calls -> Stages] /\ stage'[i] = "sent"
        /\ \A j \in Calls : j # i => stage'[j] = stage[j]
    BY <1>1, StageFacts DEF Stages
  <1>3. DetectTypes' /\ CountInv'
    BY <1>1, <1>2 DEF DetectTypes, CountInv, Calls
  <1>4. ASSUME ~shared PROVE (OneCall /\ Rests /\ Expected)'
    <2>1. OneCall /\ Expected
      BY <1>4 DEF AloneInv
    <2>2. \A j \in Calls : j # i => stage'[j] \notin Open
      BY <1>1, <1>2, <2>1 DEF OneCall
    <2>3. OneCall' /\ Rests'
      BY <1>1, <1>2, <2>2 DEF OneCall, Rests, Open
    <2>4. Expected'
      BY <1>1, <1>2, <2>1 DEF Expected
    <2>. QED
      BY <2>3, <2>4
  <1>. QED
    BY <1>1, <1>3, <1>4 DEF AloneInv

(* The client is answered, takes a message or gives up.                    *)
LEMMA ClientKeeps ==
  ASSUME DetectInv, Answered \/ TakeMarkers \/ NoMarkers
  PROVE  DetectInv'
  <1>. USE DEF DetectInv
  <1>1. /\ UNCHANGED <<shared, color, depth, stage, shot, published, now>>
        /\ UNCHANGED <<count, seen, mine, rested>>
    BY DEF Answered, TakeMarkers, NoMarkers, workVars
  <1>2. DetectTypes' /\ CountInv'
    BY <1>1 DEF Answered, TakeMarkers, NoMarkers, DetectTypes, CountInv
  <1>3. ASSUME ~shared PROVE (OneCall /\ Rests /\ Expected)'
    <2>1. OneCall /\ Rests /\ Expected /\ pc # "idle" /\ mine \in Calls
      BY <1>3 DEF AloneInv, Answered, TakeMarkers, NoMarkers, Expected
    <2>2. pc = "called" => stage[mine] \in {"done", "refused"} /\ pc' # "called"
      BY <1>3 DEF Answered, TakeMarkers, NoMarkers
    <2>3. \A i \in Calls : stage[i] \notin Open
      BY <2>1, <2>2 DEF OneCall, Expected, Open
    <2>4. OneCall' /\ Rests'
      BY <1>1, <2>1, <2>3 DEF OneCall, Rests, Open
    <2>5. Expected'
      <3>1. Len(published) \in Nat /\ count \in Nat /\ seen \in Nat /\ answer \in Nat
            /\ seen <= count /\ count <= Len(published)
        BY <2>1 DEF DetectTypes, CountInv
      <3>2. CASE Answered
        BY <1>1, <1>3, <2>1, <3>1, <3>2 DEF Answered, Expected, OwnMessage, Own
      <3>3. CASE TakeMarkers
        BY <1>1, <1>3, <2>1, <3>1, <3>3 DEF TakeMarkers, Expected, OwnMessage, Own
      <3>4. ~NoMarkers
        BY <1>3 DEF NoMarkers
      <3>. QED
        BY <3>2, <3>3, <3>4
    <2>. QED
      BY <2>4, <2>5
  <1>. QED
    BY <1>1, <1>2, <1>3 DEF AloneInv

LEMMA DetectStep ==
  ASSUME DetectInv, [DetectNext]_detectVars
  PROVE  DetectInv'
  <1>. USE DEF workVars, clientVars
  <1>1. CASE OnColor \/ OnDepth \/ UNCHANGED detectVars
    BY <1>1, DetectQuiet
    DEF OnColor, OnDepth, detectVars, DetectInv, DetectTypes, CountInv
  <1>2. CASE OnMarkers
    BY <1>2, DetectQuiet DEF OnMarkers, DetectInv, DetectTypes
  <1>3. ASSUME NEW i \in Calls, OnDetect(i) PROVE DetectInv'
    BY <1>3, EstimateGoesOn DEF OnDetect, Open
  <1>4. ASSUME NEW i \in Calls, BeginEstimate(i) PROVE DetectInv'
    <2>1. /\ stage[i] \in Open
          /\ UNCHANGED <<shared, color, depth, published, clientVars, now>>
          /\ \/ Stage(i, "sam") /\ shot' = <<color, depth>>
             \/ Stage(i, "refused")
      BY <1>4 DEF BeginEstimate, Open
    <2>2. ~shared /\ rested => color = now /\ depth = now
      BY <2>1 DEF DetectInv, AloneInv, OneCall, Rests
    <2>. QED
      BY <2>1, <2>2, EstimateGoesOn DEF Open
  <1>5. ASSUME NEW i \in Calls, Segment(i) \/ NoTransform(i) PROVE DetectInv'
    <2>1. /\ stage[i] \in {"sam", "tf"} /\ stage[i] \in Open
          /\ UNCHANGED <<shared, color, depth, published, clientVars, now>>
          /\ \/ Stage(i, "tf") /\ shot' = shot
             \/ Stage(i, "refused")
      BY <1>5 DEF Segment, NoTransform, Open
    <2>2. ~shared /\ rested => shot = <<now, now>>
      BY <2>1 DEF DetectInv, AloneInv, Rests
    <2>. QED
      BY <2>1, <2>2, EstimateGoesOn DEF Open
  <1>6. CASE ArmMoves
    <2>1. /\ pc = "idle" /\ now' = now + 1
          /\ UNCHANGED <<shared, color, depth, stage, shot, published>>
          /\ UNCHANGED <<count, pc, seen, mine, rested, answer>>
      BY <1>6 DEF ArmMoves
    <2>2. DetectTypes' /\ CountInv'
      BY <2>1 DEF DetectInv, DetectTypes, CountInv
    <2>3. AloneInv'
      BY <2>1 DEF DetectInv, AloneInv, OneCall, Rests, Expected, Own, Open
    <2>. QED
      BY <2>2, <2>3 DEF DetectInv
  <1>. QED
    BY <1>1, <1>2, <1>3, <1>4, <1>5, <1>6, PublishKeeps, OthersCall, DetectKeeps,
       ClientKeeps DEF DetectNext, Estimate

(* The inductive invariant of the detection.                               *)
THEOREM DetectInvariance == DetectSpec => []DetectInv
  BY DetectStart, DetectStep, PTL DEF DetectSpec

(* A client that is alone gets the faces of its own call, in whatever      *)
(* order the answer and the markers reach it, and gets them where they are *)
(* if the camera had delivered since the last motion when it called.       *)
THEOREM OwnFaces == DetectSpec => []OwnAndTrueWhenAlone
  <1>1. DetectInv => OwnAndTrueWhenAlone
    BY DEF DetectInv, AloneInv, Expected, Own, OwnAndTrueWhenAlone
  <1>. QED
    BY <1>1, DetectInvariance, PTL

(* No message is returned twice, and none that was there before the call,  *)
(* whoever else calls the estimator.                                       *)
THEOREM NoneTwice == DetectSpec => NeverTwice
  <1>1. ASSUME DetectInv, [DetectNext]_detectVars
        PROVE  answer' # answer => answer' > answer /\ answer' > seen
    <2>1. CASE TakeMarkers
      BY <1>1, <2>1 DEF TakeMarkers, DetectInv, DetectTypes, CountInv
    <2>2. CASE ~TakeMarkers
      BY <1>1, <2>2
      DEF DetectNext, Estimate, OnColor, OnDepth, OnDetect, BeginEstimate, Segment,
          NoTransform, Publish, CheckTriggers, OnTimer, Detect, OnMarkers, Answered,
          NoMarkers, ArmMoves, detectVars, clientVars
    <2>. QED
      BY <2>1, <2>2
  <1>. QED
    BY <1>1, DetectInvariance, PTL DEF DetectSpec, NeverTwice
-----------------------------------------------------------------------------
(* What merging and deduplication compute.  Both are recursive; a recursive *)
(* function has the value its definition says if there is such a function.  *)
(* For one that collects what it finds on the way there is: the least one,  *)
(* which holds what every function that is closed under the rule holds.     *)
Unfolds(f, D, base, next) ==
  f = [T \in D |-> base[T] \cup UNION {f[U] : U \in next[T]}]

LEMMA RecursionExists ==
  ASSUME NEW D, NEW R, NEW base \in [D -> SUBSET R], NEW next \in [D -> SUBSET D]
  PROVE  \E f \in [D -> SUBSET R] : Unfolds(f, D, base, next)
  <1>. DEFINE Body(h, T) == base[T] \cup UNION {h[U] : U \in next[T]}
              Closed(h) == \A T \in D : Body(h, T) \subseteq h[T]
              f == [T \in D |-> {x \in R : \A h \in [D -> SUBSET R] :
                                            Closed(h) => x \in h[T]}]
              g == [T \in D |-> Body(f, T)]
  <1>1. f \in [D -> SUBSET R]
    OBVIOUS
  <1>2. \A T \in D : base[T] \subseteq R /\ next[T] \subseteq D
    OBVIOUS
  <1>3. ASSUME NEW h \in [D -> SUBSET R], Closed(h), NEW T \in D
        PROVE  f[T] \subseteq h[T]
    BY <1>3
  <1>4. \A T \in D : Body(f, T) \subseteq f[T]
    <2>1. ASSUME NEW T \in D, NEW h \in [D -> SUBSET R], Closed(h)
          PROVE  Body(f, T) \subseteq h[T]
      <3>1. \A U \in next[T] : f[U] \subseteq h[U]
        <4>. HIDE DEF f, Closed
        <4>. QED BY <1>3, <2>1, <1>2
      <3>. HIDE DEF f
      <3>2. Body(f, T) \subseteq Body(h, T)
        BY <3>1
      <3>. QED
        BY <3>2, <2>1
    <2>2. ASSUME NEW T \in D PROVE Body(f, T) \subseteq R
      <3>. HIDE DEF f
      <3>. QED BY <1>1, <1>2
    <2>. HIDE DEF Body, Closed
    <2>. QED
      BY <2>1, <2>2
  <1>5. g \in [D -> SUBSET R] /\ Closed(g)
    <2>. HIDE DEF f
    <2>1. \A T \in D : g[T] = Body(f, T)
      OBVIOUS
    <2>2. g \in [D -> SUBSET R]
      BY <1>1, <1>2
    <2>. HIDE DEF g
    <2>3. ASSUME NEW T \in D PROVE Body(g, T) \subseteq Body(f, T)
      <3>1. \A U \in next[T] : g[U] \subseteq f[U]
        BY <2>1, <1>4, <1>2
      <3>. QED
        BY <3>1
    <2>. QED
      BY <2>1, <2>2, <2>3
  <1>6. \A T \in D : f[T] \subseteq Body(f, T)
    <2>. HIDE DEF f, Closed, Body
    <2>. QED BY <1>3, <1>5
  <1>. HIDE DEF f
  <1>7. f = [T \in D |-> Body(f, T)]
    BY <1>1, <1>4, <1>6
  <1>. QED
    BY <1>1, <1>7 DEF Unfolds


(* Every set of natural numbers that is not empty has a least element: what *)
(* is wrong for some set of masks is wrong for one of the smallest size.    *)
LEMMA LeastNumber ==
  ASSUME NEW S \in SUBSET Nat, S # {}
  PROVE  \E n \in S : \A m \in S : n <= m
  <1>. DEFINE R == {p \in Nat \X Nat : p[1] < p[2]}
  <1>1. IsWellFoundedOn(R, Nat)
    BY NatLessThanWellFounded DEF OpToRel
  <1>2. PICK n \in S : \A m \in S : <<m, n>> \notin R
    <2>. HIDE DEF R
    <2>. QED
      BY <1>1, WFMin
  <1>3. \A m \in S : <<m, n>> \in R <=> m < n
    OBVIOUS
  <1>. HIDE DEF R
  <1>4. ASSUME NEW m \in S PROVE n <= m
    <2>1. ~(m < n) /\ m \in Nat /\ n \in Nat
      BY <1>2, <1>3
    <2>. QED
      BY <2>1
  <1>. QED
    BY <1>4

(* Stretches of cells, and what the geometry says of them.                 *)
Stretch(m) == m \in Masks /\ \E first, last \in m.cells : m.cells = first..last

LEMMA StretchFacts ==
  ASSUME NEW m, Stretch(m)
  PROVE  /\ Lowest(m.cells) \in Int /\ Highest(m.cells) \in Int
         /\ Lowest(m.cells) <= Highest(m.cells)
         /\ m.cells = Lowest(m.cells)..Highest(m.cells)
         /\ IsFiniteSet(m.cells)
         /\ Inliers(m) = Highest(m.cells) - Lowest(m.cells) + 1
         /\ Inliers(m) \in Nat
  <1>1. PICK first, last \in m.cells : m.cells = first..last
    BY DEF Stretch
  <1>2. first \in Int /\ last \in Int /\ first <= last
    BY <1>1 DEF Stretch, Masks
  <1>3. Lowest(m.cells) = first
    <2>1. \A c \in m.cells : (\A d \in m.cells : c <= d) <=> c = first
      BY <1>1, <1>2
    <2>. QED
      BY <1>1, <2>1 DEF Lowest
  <1>4. Highest(m.cells) = last
    <2>1. \A c \in m.cells : (\A d \in m.cells : c >= d) <=> c = last
      BY <1>1, <1>2
    <2>. QED
      BY <1>1, <2>1 DEF Highest
  <1>5. IsFiniteSet(m.cells) /\ Cardinality(m.cells) = last - first + 1
    BY <1>1, <1>2, FS_Interval
  <1>. QED
    BY <1>1, <1>2, <1>3, <1>4, <1>5 DEF Inliers

(* What may be merged is a stretch afterwards.                             *)
LEMMA UnionIsStretch ==
  ASSUME NEW a, NEW b, Stretch(a), Stretch(b), Mergeable(a, b)
  PROVE  /\ Stretch(Union(a, b)) /\ Fits(Union(a, b).cells)
         /\ Union(a, b).plane = a.plane /\ a.plane = b.plane
         /\ a.cells \subseteq Union(a, b).cells /\ b.cells \subseteq Union(a, b).cells
  <1>. DEFINE u == Union(a, b)
              al == Lowest(a.cells)   ah == Highest(a.cells)
              bl == Lowest(b.cells)   bh == Highest(b.cells)
  <1>1. /\ al \in Int /\ ah \in Int /\ al <= ah /\ a.cells = al..ah
        /\ bl \in Int /\ bh \in Int /\ bl <= bh /\ b.cells = bl..bh
    BY StretchFacts
  <1>2. u \in Masks /\ u.plane = a.plane /\ u.cells = a.cells \cup b.cells
    BY DEF Union, Stretch, Masks
  <1>. HIDE DEF u, al, ah, bl, bh
  <1>3. bl <= ah + 1 /\ al <= bh + 1
    BY <1>1 DEF Mergeable, Touch
  <1>4. PICK lo \in {al, bl}, hi \in {ah, bh} :
          lo <= al /\ lo <= bl /\ hi >= ah /\ hi >= bh
    BY <1>1
  <1>5. u.cells = lo..hi /\ lo \in u.cells /\ hi \in u.cells
    BY <1>1, <1>2, <1>3, <1>4
  <1>6. Stretch(u) 
    BY <1>2, <1>5 DEF Stretch
  <1>. QED
    BY <1>2, <1>6 DEF Mergeable, u

(* Masks that were accepted, and what merging leaves of them.              *)
Tops(S) ==
  /\ S \in SUBSET Masks /\ IsFiniteSet(S)
  /\ \A m \in S : Stretch(m) /\ Fits(m.cells)

Merged(S, T) ==
  /\ Tops(T)
  /\ \A a, b \in T : ~Mergeable(a, b)
  /\ \A m \in S : \E n \in T : m.cells \subseteq n.cells

(* One step of the merging: which pairs there are, and what becomes of one. *)
Pairs(S) == {p \in S \X S : Mergeable(p[1], p[2])}
Joined(S, p) == (S \ {p[1], p[2]}) \cup {Union(p[1], p[2])}

LEMMA MergeFacts ==
  ASSUME NEW S \in SUBSET Masks
  PROVE  /\ Pairs(S) = {} => MergeCoplanar(S) = {S}
         /\ Pairs(S) # {} =>
              \A T \in MergeCoplanar(S) :
                \E p \in Pairs(S) : T \in MergeCoplanar(Joined(S, p))
  <1>. DEFINE D == SUBSET Masks
              base == [T \in D |-> IF Pairs(T) = {} THEN {T} ELSE {}]
              next == [T \in D |-> {Joined(T, p) : p \in Pairs(T)}]
              Body(h, T) == IF Pairs(T) = {} THEN {T}
                            ELSE UNION {h[Joined(T, p)] : p \in Pairs(T)}
              merge == CHOOSE h : h = [T \in D |-> Body(h, T)]
  <1>1. \A T : MergeCoplanar(T) = merge[T]
    BY DEF MergeCoplanar, Pairs, Joined
  <1>2. ASSUME NEW T \in D, NEW p \in Pairs(T) PROVE Joined(T, p) \in D
    <2>1. Union(p[1], p[2]) \in Masks
      BY DEF Union, Masks, Pairs
    <2>. QED
      BY <2>1 DEF Joined
  <1>3. base \in [D -> SUBSET D] /\ next \in [D -> SUBSET D]
    BY <1>2
  <1>4. PICK f : f = [T \in D |-> base[T] \cup UNION {f[U] : U \in next[T]}]
    <2>. HIDE DEF base, next, D
    <2>1. \E f \in [D -> SUBSET D] : Unfolds(f, D, base, next)
      BY <1>3, RecursionExists
    <2>. QED
      BY <2>1 DEF Unfolds
  <1>5. f = [T \in D |-> Body(f, T)]
    <2>1. ASSUME NEW T \in D
          PROVE  base[T] \cup UNION {f[U] : U \in next[T]} = Body(f, T)
      <3>1. CASE Pairs(T) = {}
        BY <3>1
      <3>2. CASE Pairs(T) # {}
        BY <3>2
      <3>. QED
        BY <3>1, <3>2
    <2>. HIDE DEF base, next, Body, D
    <2>. QED
      BY <1>4, <2>1
  <1>6. merge = [T \in D |-> Body(merge, T)]
    <2>. HIDE DEF Body, D
    <2>. QED
      BY <1>5, Zenon
  <1>7. merge[S] = Body(merge, S)
    <2>. HIDE DEF merge, Body
    <2>. QED
      BY <1>6
  <1>. HIDE DEF merge
  <1>. QED
    BY <1>1, <1>7

(* Merging ends with nothing left to merge and with nothing lost, whichever *)
(* pairs are met first.                                                    *)
LEMMA MergeEnds ==
  ASSUME NEW S, Tops(S), NEW T \in MergeCoplanar(S)
  PROVE  Merged(S, T)
  <1>. DEFINE Wrong(U) == Tops(U) /\ \E V \in MergeCoplanar(U) : ~Merged(U, V)
              Sizes == {k \in Nat : \E U \in SUBSET Masks :
                                      Wrong(U) /\ Cardinality(U) = k}
  <1>1. SUFFICES ASSUME Wrong(S) PROVE FALSE
    OBVIOUS
  <1>2. Sizes # {}
    <2>1. Cardinality(S) \in Sizes
      BY <1>1, FS_CardinalityType DEF Tops
    <2>. QED
      BY <2>1
  <1>. HIDE DEF Wrong
  <1>3. PICK k \in Sizes : \A j \in Sizes : k <= j
    <2>. HIDE DEF Sizes
    <2>1. Sizes \in SUBSET Nat
      BY DEF Sizes
    <2>. QED
      BY <1>2, <2>1, LeastNumber
  <1>4. PICK U \in SUBSET Masks : Wrong(U) /\ Cardinality(U) = k
    BY <1>3
  <1>5. Tops(U)
    BY <1>4 DEF Wrong
  <1>6. PICK V \in MergeCoplanar(U) : ~Merged(U, V)
    BY <1>4 DEF Wrong
  <1>7. CASE Pairs(U) = {}
    <2>1. V = U
      BY <1>6, <1>7, MergeFacts
    <2>2. \A a, b \in U : ~Mergeable(a, b)
      <3>1. ASSUME NEW a \in U, NEW b \in U, Mergeable(a, b) PROVE <<a, b>> \in Pairs(U)
        BY <3>1 DEF Pairs
      <3>. QED
        BY <1>7, <3>1
    <2>. QED
      BY <1>5, <1>6, <2>1, <2>2 DEF Merged
  <1>8. CASE Pairs(U) # {}
    <2>1. PICK p \in Pairs(U) : V \in MergeCoplanar(Joined(U, p))
      BY <1>6, <1>8, MergeFacts
    <2>. DEFINE a == p[1]   b == p[2]   W == (U \ {a, b}) \cup {Union(a, b)}
    <2>2. a \in U /\ b \in U /\ Mergeable(a, b) /\ V \in MergeCoplanar(W)
      BY <2>1 DEF Pairs, Joined
    <2>. HIDE DEF a, b
    <2>3. /\ Stretch(a) /\ Stretch(b) /\ Stretch(Union(a, b)) /\ Fits(Union(a, b).cells)
          /\ a.cells \subseteq Union(a, b).cells /\ b.cells \subseteq Union(a, b).cells
      BY <1>5, <2>2, UnionIsStretch DEF Tops
    <2>4. /\ IsFiniteSet(U \ {a}) /\ IsFiniteSet(U \ {a, b}) /\ Cardinality(U) \in Nat
          /\ Cardinality(U \ {a, b}) = Cardinality(U) - 2
      <3>. DEFINE X == U \ {a}   Y == U \ {a, b}
      <3>1. IsFiniteSet(U) /\ a # b /\ X \ {b} = Y /\ b \in X
        BY <1>5, <2>2 DEF Tops, Mergeable
      <3>2. IsFiniteSet(X) /\ Cardinality(X) = Cardinality(U) - 1
        BY <2>2, <3>1, FS_RemoveElement
      <3>3. Cardinality(U) \in Nat
        BY <3>1, FS_CardinalityType
      <3>. HIDE DEF X, Y
      <3>4. IsFiniteSet(Y) /\ Cardinality(Y) = Cardinality(X) - 1
        BY <3>1, <3>2, FS_RemoveElement
      <3>5. Cardinality(Y) = Cardinality(U) - 2
        BY <3>2, <3>3, <3>4
      <3>. QED
        BY <3>2, <3>3, <3>4, <3>5 DEF X, Y
    <2>5. IsFiniteSet(W) /\ Cardinality(W) \in Nat /\ Cardinality(W) < Cardinality(U)
      <3>1. /\ IsFiniteSet(W)
            /\ Cardinality(W) \in {Cardinality(U \ {a, b}), Cardinality(U \ {a, b}) + 1}
        BY <2>4, FS_AddElement
      <3>2. Cardinality(W) \in Nat
        BY <3>1, FS_CardinalityType
      <3>. QED
        BY <2>4, <3>1, <3>2
    <2>6. Tops(W) /\ W \in SUBSET Masks
      BY <1>5, <2>3, <2>5 DEF Tops, Stretch
    <2>7. Merged(W, V)
      <3>1. Cardinality(W) \notin Sizes
        <4>. HIDE DEF Sizes
        <4>1. k = Cardinality(U) /\ k \in Nat
          BY <1>4, <2>4
        <4>. QED
          BY <1>3, <2>5, <4>1
      <3>2. ~Wrong(W)
        BY <2>5, <2>6, <3>1
      <3>. QED
        BY <2>2, <2>6, <3>2 DEF Wrong
    <2>8. \A m \in U : \E n \in W : m.cells \subseteq n.cells
      BY <2>3
    <2>9. \A m \in U : \E n \in V : m.cells \subseteq n.cells
      <3>. HIDE DEF W
      <3>. QED
        BY <2>7, <2>8 DEF Merged
    <2>. QED
      BY <1>6, <2>7, <2>9 DEF Merged
  <1>. QED
    BY <1>7, <1>8

-----------------------------------------------------------------------------
(* dedupe keeps the largest face and goes on with what is not near it.     *)
Largest(S) == CHOOSE x \in S : \A y \in S : LargestFirst(x, y)
Rest(S) == {g \in S \ {Largest(S)} : ~Near(Largest(S), g)}

LEMMA DedupeFacts ==
  ASSUME NEW S \in SUBSET Masks
  PROVE  Dedupe(S) = IF S = {} THEN {} ELSE {Largest(S)} \cup Dedupe(Rest(S))
  <1>. DEFINE D == SUBSET Masks
              R == {Largest(T) : T \in D}
              base == [T \in D |-> IF T = {} THEN {} ELSE {Largest(T)}]
              next == [T \in D |-> IF T = {} THEN {} ELSE {Rest(T)}]
              Body(h, T) == IF T = {} THEN {} ELSE {Largest(T)} \cup h[Rest(T)]
              keep == CHOOSE h : h = [T \in D |-> Body(h, T)]
  <1>1. \A T : Dedupe(T) = keep[T]
    BY DEF Dedupe, Largest, Rest
  <1>2. \A T \in D : Rest(T) \in D
    BY DEF Rest
  <1>3. base \in [D -> SUBSET R] /\ next \in [D -> SUBSET D]
    BY <1>2
  <1>4. PICK f : f = [T \in D |-> base[T] \cup UNION {f[U] : U \in next[T]}]
    <2>. HIDE DEF base, next, D, R
    <2>1. \E f \in [D -> SUBSET R] : Unfolds(f, D, base, next)
      BY <1>3, RecursionExists
    <2>. QED
      BY <2>1 DEF Unfolds
  <1>5. f = [T \in D |-> Body(f, T)]
    <2>1. ASSUME NEW T \in D
          PROVE  base[T] \cup UNION {f[U] : U \in next[T]} = Body(f, T)
      <3>1. CASE T = {}
        BY <3>1
      <3>2. CASE T # {}
        BY <3>2
      <3>. QED
        BY <3>1, <3>2
    <2>. HIDE DEF base, next, Body, D
    <2>. QED
      BY <1>4, <2>1
  <1>6. keep = [T \in D |-> Body(keep, T)]
    <2>. HIDE DEF Body, D
    <2>. QED
      BY <1>5, Zenon
  <1>7. keep[S] = Body(keep, S)
    <2>. HIDE DEF keep, Body
    <2>. QED
      BY <1>6
  <1>. HIDE DEF keep
  <1>. QED
    BY <1>1, <1>7

(* A set of faces has a largest one.                                       *)
LEMMA LargestFacts ==
  ASSUME NEW S, Tops(S), S # {}
  PROVE  Largest(S) \in S /\ \A y \in S : LargestFirst(Largest(S), y)
  <1>. DEFINE Larger(x) == {y \in S : ~LargestFirst(x, y)}
              Numbers == {Cardinality(Larger(x)) : x \in S}
  <1>1. ASSUME NEW x \in S
        PROVE  IsFiniteSet(Larger(x)) /\ Cardinality(Larger(x)) \in Nat
    <2>1. Larger(x) \in SUBSET S /\ IsFiniteSet(S)
      BY DEF Tops
    <2>. QED
      BY <2>1, FS_Subset, FS_CardinalityType
  <1>2. \A x \in S : Inliers(x) \in Nat
    BY StretchFacts DEF Tops
  <1>3. PICK x \in S : \A y \in S : Cardinality(Larger(x)) <= Cardinality(Larger(y))
    <2>1. Numbers \in SUBSET Nat /\ Numbers # {}
      BY <1>1
    <2>2. PICK n \in Numbers : \A m \in Numbers : n <= m
      <3>. HIDE DEF Numbers
      <3>. QED
        BY <2>1, LeastNumber
    <2>. QED
      BY <2>2
  <1>4. ASSUME NEW y \in S, ~LargestFirst(x, y) PROVE FALSE
    <2>1. Larger(y) \in SUBSET Larger(x) /\ y \in Larger(x) /\ y \notin Larger(y)
      BY <1>2, <1>4 DEF LargestFirst
    <2>. HIDE DEF Larger
    <2>2. Cardinality(Larger(y)) <= Cardinality(Larger(x))
      BY <1>1, <2>1, FS_Subset
    <2>3. Cardinality(Larger(y)) # Cardinality(Larger(x))
      BY <1>1, <2>1, FS_Subset
    <2>. QED
      BY <1>1, <1>3, <2>2, <2>3
  <1>. QED
    BY <1>4 DEF Largest

(* Being near is mutual.                                                   *)
LEMMA NearFacts ==
  ASSUME NEW f, NEW g, Stretch(f), Stretch(g), Near(f, g)
  PROVE  Near(g, f)
  <1>1. /\ Lowest(f.cells) \in Int /\ Highest(f.cells) \in Int
        /\ Lowest(g.cells) \in Int /\ Highest(g.cells) \in Int
    BY StretchFacts
  <1>2. DedupeDistance \in Nat
    BY DetectionAssumption
  <1>3. f.plane \in Nat /\ g.plane \in Nat
    BY DEF Stretch, Masks
  <1>. QED
    BY <1>1, <1>2, <1>3 DEF Near, Mid2, Square

(* dedupe keeps one of those that are near each other, and a larger one.   *)
Deduped(S, K) ==
  /\ K \subseteq S
  /\ \A f, g \in K : f # g => ~Near(f, g)
  /\ \A m \in S : \E f \in K : LargestFirst(f, m) /\ (f = m \/ Near(f, m))

(* That is what dedupe does.                                               *)
LEMMA DedupeEnds ==
  ASSUME NEW S, Tops(S)
  PROVE  Deduped(S, Dedupe(S))
  <1>. DEFINE Wrong(U) == Tops(U) /\ ~Deduped(U, Dedupe(U))
              Sizes == {k \in Nat : \E U \in SUBSET Masks :
                                      Wrong(U) /\ Cardinality(U) = k}
  <1>1. SUFFICES ASSUME Wrong(S) PROVE FALSE
    OBVIOUS
  <1>2. Sizes # {}
    <2>1. Cardinality(S) \in Sizes
      BY <1>1, FS_CardinalityType DEF Tops
    <2>. QED
      BY <2>1
  <1>. HIDE DEF Wrong
  <1>3. PICK k \in Sizes : \A j \in Sizes : k <= j
    <2>. HIDE DEF Sizes
    <2>1. Sizes \in SUBSET Nat
      BY DEF Sizes
    <2>. QED
      BY <1>2, <2>1, LeastNumber
  <1>4. PICK U \in SUBSET Masks : Wrong(U) /\ Cardinality(U) = k
    BY <1>3
  <1>5. Tops(U) /\ ~Deduped(U, Dedupe(U))
    BY <1>4 DEF Wrong
  <1>6. CASE U = {}
    BY <1>5, <1>6, DedupeFacts DEF Deduped
  <1>7. CASE U # {}
    <2>. DEFINE f == Largest(U)   V == Rest(U)   K == Dedupe(V)
    <2>1. f \in U /\ \A y \in U : LargestFirst(f, y)
      BY <1>5, <1>7, LargestFacts
    <2>2. Dedupe(U) = {f} \cup K
      BY <1>7, DedupeFacts
    <2>3. V \subseteq U \ {f} /\ \A m \in U : m = f \/ m \in V \/ Near(f, m)
      BY DEF Rest
    <2>4. \A m \in V : ~Near(f, m)
      BY DEF Rest
    <2>. HIDE DEF f, V, K
    <2>5. IsFiniteSet(V) /\ Cardinality(V) \in Nat /\ Cardinality(V) < Cardinality(U)
      <3>1. IsFiniteSet(U) /\ V \in SUBSET U /\ V # U
        BY <1>5, <2>1, <2>3 DEF Tops
      <3>2. /\ IsFiniteSet(V) /\ Cardinality(V) <= Cardinality(U)
            /\ Cardinality(V) # Cardinality(U)
        BY <3>1, FS_Subset
      <3>3. Cardinality(V) \in Nat /\ Cardinality(U) \in Nat
        BY <3>1, <3>2, FS_CardinalityType
      <3>. QED
        BY <3>2, <3>3
    <2>6. Tops(V) /\ V \in SUBSET Masks
      BY <1>5, <2>3, <2>5 DEF Tops
    <2>7. Deduped(V, K)
      <3>1. Cardinality(V) \notin Sizes
        <4>. HIDE DEF Sizes
        <4>1. k = Cardinality(U) /\ k \in Nat
          BY <1>4, FS_CardinalityType, <1>5 DEF Tops
        <4>. QED
          BY <1>3, <2>5, <4>1
      <3>2. ~Wrong(V)
        BY <2>5, <2>6, <3>1
      <3>. QED
        BY <2>6, <3>2 DEF Wrong, K
    <2>8. \A x, y \in {f} \cup K : x # y => ~Near(x, y)
      <3>1. \A y \in K : y \in V /\ y \in U
        BY <2>3, <2>7 DEF Deduped
      <3>2. ASSUME NEW y \in K PROVE ~Near(f, y) /\ ~Near(y, f)
        <4>1. Stretch(f) /\ Stretch(y)
          BY <1>5, <2>1, <3>1 DEF Tops
        <4>. QED
          BY <2>4, <3>1, <4>1, NearFacts
      <3>. QED
        BY <2>7, <3>2 DEF Deduped
    <2>9. \A m \in U : \E x \in {f} \cup K : LargestFirst(x, m) /\ (x = m \/ Near(x, m))
      BY <2>1, <2>3, <2>7 DEF Deduped
    <2>. QED
      BY <1>5, <2>1, <2>2, <2>3, <2>7, <2>8, <2>9 DEF Deduped
  <1>. QED
    BY <1>6, <1>7

(* What a sum of squares says of its terms.                                *)
LEMMA SquareBounds ==
  ASSUME NEW d \in Int, NEW h \in Int, NEW k \in Nat, d * d + h * h < k * k
  PROVE  d \in (1 - k)..(k - 1)
  <1>1. h * h >= 0
    OBVIOUS
  <1>2. ASSUME d >= k PROVE FALSE
    <2>1. d * d >= k * k
      BY <1>2
    <2>. QED
      BY <1>1, <2>1
  <1>3. ASSUME -d >= k PROVE FALSE
    <2>1. d * d >= k * k
      BY <1>3
    <2>. QED
      BY <1>1, <2>1
  <1>. QED
    BY <1>2, <1>3

(* A mask of n that is large enough to be a face reaches into every face   *)
(* that is near n and not smaller: the margin of dedupe is too small for   *)
(* it to be left out.                                                      *)
LEMMA NearCovers ==
  ASSUME NEW m, Stretch(m), Fits(m.cells), NEW n, Stretch(n), m.cells \subseteq n.cells,
         NEW f, Stretch(f), LargestFirst(f, n), f = n \/ Near(f, n)
  PROVE  m.cells \cap f.cells # {} /\ Inliers(f) >= Inliers(m)
  <1>. DEFINE ml == Lowest(m.cells)   mh == Highest(m.cells)
              nl == Lowest(n.cells)   nh == Highest(n.cells)
              fl == Lowest(f.cells)   fh == Highest(f.cells)
  <1>1. /\ ml \in Int /\ mh \in Int /\ ml <= mh /\ m.cells = ml..mh
        /\ Inliers(m) = mh - ml + 1
        /\ nl \in Int /\ nh \in Int /\ nl <= nh /\ n.cells = nl..nh
        /\ Inliers(n) = nh - nl + 1
        /\ fl \in Int /\ fh \in Int /\ fl <= fh /\ f.cells = fl..fh
        /\ Inliers(f) = fh - fl + 1
    BY StretchFacts
  <1>2. /\ MinSize \in Nat /\ DedupeDistance \in Nat /\ DedupeDistance < 2 * MinSize
        /\ mh - ml + 1 >= MinSize
    BY <1>1, DetectionAssumption DEF Fits
  <1>3. f = n \/ (fl + fh) - (nl + nh) \in (1 - DedupeDistance)..(DedupeDistance - 1)
    <2>. DEFINE d == (fl + fh) - (nl + nh)   h == f.plane - n.plane
    <2>1. Near(f, n) => d * d + h * h < DedupeDistance * DedupeDistance
      BY DEF Near, Mid2, Square
    <2>. HIDE DEF fl, fh, nl, nh
    <2>2. d \in Int /\ h \in Int
      <3>1. f.plane \in Nat /\ n.plane \in Nat
        BY DEF Stretch, Masks
      <3>. QED
        BY <1>1, <3>1
    <2>. HIDE DEF d, h
    <2>3. Near(f, n) => d \in (1 - DedupeDistance)..(DedupeDistance - 1)
      BY <1>2, <2>1, <2>2, SquareBounds
    <2>. QED
      BY <2>3 DEF d
  <1>4. Inliers(f) >= Inliers(n)
    BY DEF LargestFirst
  <1>5. f = n => fl = nl /\ fh = nh
    OBVIOUS
  <1>. HIDE DEF ml, mh, nl, nh, fl, fh
  <1>6. nl <= ml /\ mh <= nh
    BY <1>1
  <1>7. fl <= mh /\ ml <= fh
    BY <1>1, <1>2, <1>3, <1>4, <1>5, <1>6
  <1>8. (IF ml <= fl THEN fl ELSE ml) \in m.cells \cap f.cells
    BY <1>1, <1>7
  <1>9. m.cells \cap f.cells # {}
    BY <1>8
  <1>10. Inliers(f) >= Inliers(m)
    BY <1>1, <1>4, <1>6
  <1>. QED
    BY <1>9, <1>10

(* The faces of a picture, whatever SAM proposed.                          *)
LEMMA FacesOfPicture ==
  ASSUME NEW ms \in SUBSET Candidates, NEW merged \in MergeCoplanar(Accepted(ms)),
         masks' = Accepted(ms), faces' = Dedupe(merged)
  PROVE  FacesRight'
  <1>1. Tops(Accepted(ms))
    <2>1. Accepted(ms) \in SUBSET Candidates /\ IsFiniteSet(Candidates)
      BY DetectionAssumption DEF Accepted
    <2>2. \A m \in Candidates : Stretch(m)
      BY DetectionAssumption DEF Stretch
    <2>3. IsFiniteSet(Accepted(ms))
      BY <2>1, FS_Subset
    <2>. QED
      BY <2>1, <2>2, <2>3, DetectionAssumption DEF Accepted, Tops
  <1>2. Merged(Accepted(ms), merged)
    BY <1>1, MergeEnds
  <1>3. Deduped(merged, Dedupe(merged))
    BY <1>2, DedupeEnds DEF Merged
  <1>4. \A f, g \in faces' : f # g => ~Near(f, g) /\ ~Mergeable(f, g)
    BY <1>2, <1>3 DEF Merged, Deduped
  <1>5. ASSUME NEW m \in Accepted(ms)
        PROVE  \E f \in faces' : m.cells \cap f.cells # {} /\ Inliers(f) >= Inliers(m)
    <2>1. PICK n \in merged : m.cells \subseteq n.cells
      BY <1>2 DEF Merged
    <2>2. PICK f \in Dedupe(merged) : LargestFirst(f, n) /\ (f = n \/ Near(f, n))
      BY <1>3 DEF Deduped
    <2>3. Stretch(m) /\ Fits(m.cells) /\ Stretch(n) /\ Stretch(f)
      BY <1>1, <1>2, <1>3 DEF Tops, Merged, Deduped
    <2>. QED
      BY <2>1, <2>2, <2>3, NearCovers
  <1>. QED
    BY <1>4, <1>5 DEF FacesRight

(* An estimate finds no face twice and loses none but to a larger one that *)
(* covers some of it, in whatever order the masks come.                    *)
THEOREM FacesFound == DetectSpec => []FacesRight
  <1>1. DetectInit => FacesRight
    BY DEF DetectInit, FacesRight
  <1>2. FacesRight /\ [DetectNext]_detectVars => FacesRight'
    <2>. SUFFICES ASSUME FacesRight, [DetectNext]_detectVars PROVE FacesRight'
      OBVIOUS
    <2>1. ASSUME masks' = {}, faces' = {} PROVE FacesRight'
      BY <2>1 DEF FacesRight
    <2>2. ASSUME UNCHANGED <<masks, faces>> PROVE FacesRight'
      BY <2>2 DEF FacesRight
    <2>3. ASSUME NEW i \in Calls, Segment(i) PROVE FacesRight'
      BY <2>1, <2>3, FacesOfPicture DEF Segment, NothingKept
    <2>4. ASSUME NEW i \in Calls, NoTransform(i) \/ Publish(i) PROVE FacesRight'
      BY <2>1, <2>4 DEF NoTransform, Publish, NothingKept
    <2>5. ASSUME NEW i \in Calls,
                 \/ OnDetect(i) \/ BeginEstimate(i)
                 \/ CheckTriggers(i) \/ OnTimer(i) \/ Detect(i)
          PROVE  FacesRight'
      BY <2>2, <2>5 DEF OnDetect, BeginEstimate, CheckTriggers, OnTimer, Detect,
                        workVars
    <2>6. CASE \/ OnColor \/ OnDepth \/ OnMarkers \/ Answered
               \/ TakeMarkers \/ NoMarkers \/ ArmMoves \/ UNCHANGED detectVars
      BY <2>2, <2>6 DEF OnColor, OnDepth, OnMarkers, Answered, TakeMarkers, NoMarkers,
                        ArmMoves, detectVars, workVars
    <2>. QED
      BY <2>3, <2>4, <2>5, <2>6 DEF DetectNext, Estimate
  <1>. QED
    BY <1>1, <1>2, PTL DEF DetectSpec
=============================================================================
