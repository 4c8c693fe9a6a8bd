------------------------- MODULE TeleopPanel_proofs -------------------------
(***************************************************************************)
(* Proofs about TeleopPanel, for every joint, look-ahead and margin and    *)
(* any number of requests under way.                                       *)
(*                                                                         *)
(* NoJump is not inductive: where a jog may ask the arm to go depends on   *)
(* how old the joint state is that it is built on.  IInv adds that it is   *)
(* at most one period old, and not old at all once the timer of the ROS    *)
(* thread has fired.                                                       *)
(*                                                                         *)
(* FollowsTheUser is not inductive either: it says nothing of requests     *)
(* under way.  AskedInv adds that the newest of them is what the user      *)
(* wants.                                                                  *)
(***************************************************************************)
EXTENDS TeleopPanel, SequenceTheorems, TLAPS

(* The message that was added last.                                        *)
Newest(q) == q[Len(q)]

Near(a, b) == a - b \in -1..1

(* What a jog and a hold are built on.                                     *)
SeenInv ==
  /\ qt # "waits"
  /\ seen # None => Near(seen, arm)
  /\ "ros" \notin due => seen \in {None, arm}

TypeInv ==
  /\ task \in {"jog"} \cup Devices /\ steady \in BOOLEAN
  /\ qt \in {"free", "waits", "spins"} /\ due \subseteq {"ros", "jog"}
  /\ arm \in Cells /\ target \in Cells /\ seen \in Cells \cup {None}
  /\ jog \in {-1, 0, 1} /\ by \in {"user", "others"}

IInv ==
  /\ TypeInv
  /\ task # "jog" => by = "others"
  /\ steady /\ task = "jog" => SeenInv
  /\ NoJump

(* Taking the oldest of the messages that wait leaves the newest where it  *)
(* was.                                                                    *)
LEMMA TailFacts ==
  ASSUME NEW S, NEW q \in Seq(S), q # <<>>
  PROVE  /\ Head(q) \in S /\ Tail(q) \in Seq(S) /\ Len(Tail(q)) = Len(q) - 1
         /\ Tail(q) # <<>> => Newest(Tail(q)) = Newest(q)
         /\ Tail(q) = <<>> => Head(q) = Newest(q)
  <1>1. Len(q) \in Nat /\ Len(q) > 0 /\ Head(q) = q[1]
    OBVIOUS
  <1>2. Tail(q) \in Seq(S) /\ Len(Tail(q)) = Len(q) - 1
    BY <1>1
  <1>3. Tail(q) = <<>> => Len(Tail(q)) = 0
    BY EmptySeq
  <1>4. ASSUME Tail(q) # <<>> PROVE Newest(Tail(q)) = Newest(q)
    <2>1. Len(Tail(q)) \in 1..Len(Tail(q))
      BY <1>1, <1>2, <1>4
    <2>2. \A i \in 1..Len(Tail(q)) : Tail(q)[i] = q[i + 1]
      BY <1>1, <1>2
    <2>. QED
      BY <1>1, <1>2, <2>1, <2>2 DEF Newest
  <1>. QED
    BY <1>1, <1>2, <1>3, <1>4 DEF Newest

(* Adding one makes it the newest.                                         *)
LEMMA AppendFacts ==
  ASSUME NEW S, NEW q \in Seq(S), NEW m \in S
  PROVE  /\ Append(q, m) \in Seq(S) /\ Append(q, m) # <<>>
         /\ Len(Append(q, m)) = Len(q) + 1 /\ Newest(Append(q, m)) = m
  BY DEF Newest

-----------------------------------------------------------------------------
(* A jog built on a position within one cell of the arm asks for one       *)
(* within the look-ahead and one more, also at the ends of the joint.      *)
LEMMA ClampFacts ==
  ASSUME NEW s \in Cells, NEW d \in {-1, 0, 1}
  PROVE  /\ Clamp(s + d * LookAhead) \in Cells
         /\ Clamp(s + d * LookAhead) - s \in -LookAhead..LookAhead
  <1>. DEFINE x == s + d * LookAhead
  <1>1. x \in Int /\ x - s \in -LookAhead..LookAhead
    BY TeleopAssumption DEF Cells
  <1>2. Clamp(x) \in Cells /\ Clamp(x) - s \in -LookAhead..LookAhead
    <2>. HIDE DEF x
    <2>. QED  BY <1>1, TeleopAssumption DEF Cells, Clamp
  <1>. QED
    BY <1>2

(* So a jog keeps the invariant ...                                        *)
LEMMA JogOnFacts ==
  ASSUME IInv, task = "jog", NEW d \in {-1, 0, 1}, JogOn(d), arm' = arm, steady' = steady
  PROVE  target' \in Cells /\ by' \in {"user", "others"} /\ NoJump'
  <1>1. CASE seen = None
    BY <1>1 DEF IInv, TypeInv, NoJump, JogOn
  <1>2. CASE seen # None
    <2>1. seen \in Cells /\ by' = "user" /\ target' = Clamp(seen + d * LookAhead)
      BY <1>2 DEF IInv, TypeInv, JogOn, SendJointPosition
    <2>2. target' \in Cells /\ target' - seen \in -LookAhead..LookAhead
      BY <2>1, ClampFacts
    <2>3. steady => Near(seen, arm)
      BY <1>2 DEF IInv, SeenInv
    <2>. QED
      BY <2>1, <2>2, <2>3, TeleopAssumption DEF IInv, TypeInv, NoJump, Near, Cells
  <1>. QED
    BY <1>1, <1>2

(* ... and so does a hold.                                                 *)
LEMMA HoldFacts ==
  ASSUME IInv, task = "jog", Hold, arm' = arm, steady' = steady
  PROVE  target' \in Cells /\ by' \in {"user", "others"} /\ NoJump'
  <1>1. CASE seen = None
    BY <1>1 DEF IInv, TypeInv, NoJump, Hold
  <1>2. CASE seen # None
    <2>1. steady => Near(seen, arm)
      BY <1>2 DEF IInv, SeenInv
    <2>. QED
      BY <1>2, <2>1, TeleopAssumption DEF IInv, TypeInv, NoJump, Hold, SendJointPosition, Near, Cells
  <1>. QED
    BY <1>1, <1>2

-----------------------------------------------------------------------------
LEMMA InitIInv == Init => IInv
  BY TeleopAssumption DEF Init, IInv, TypeInv, SeenInv, NoJump, Devices, Cells

(* One period: the arm comes nearer to its target, and the joint state     *)
(* gets one period old.                                                    *)
LEMMA TickKeepsIInv == ASSUME IInv, Tick PROVE IInv'
  <1>. USE DEF setting, devVars, panelVars
  <1>1. TypeInv' /\ (task # "jog" => by = "others")' /\ (steady /\ task = "jog" => SeenInv)'
    BY TeleopAssumption DEF Tick, IInv, TypeInv, SeenInv, Near, Cells, Free
  <1>2. NoJump'
    BY TeleopAssumption DEF Tick, IInv, TypeInv, NoJump, Cells
  <1>. QED
    BY <1>1, <1>2 DEF IInv

(* What has to do with jogging.                                            *)
LEMMA JogKeepsIInv ==
  ASSUME IInv, Jogs \/ RosTick \/ JogTick \/ CallReturns
  PROVE  IInv'
  <1>. USE DEF setting, qtVars, devVars, panelVars, Free, IInv
  <1>1. ASSUME NEW d \in {-1, 1}, StartJog(d) PROVE IInv'
    BY <1>1, JogOnFacts DEF StartJog, TypeInv, SeenInv, Near
  <1>2. CASE Release
    BY <1>2, HoldFacts DEF Release, StopJog, TypeInv, SeenInv, Near
  <1>3. CASE ReleaseLost
    BY <1>3 DEF ReleaseLost, TypeInv, SeenInv, Near, NoJump
  <1>4. CASE GoHome
    BY <1>4, TeleopAssumption DEF GoHome, TypeInv, SeenInv, Near, NoJump
  <1>5. CASE BlockingCall
    BY <1>5 DEF BlockingCall, TypeInv, SeenInv, Near, NoJump, jogVars
  <1>6. CASE RosTick
    <2>1. CASE task = "jog"
      <3>1. /\ due' = due \ {"ros"} /\ seen' = arm
            /\ UNCHANGED <<setting, qt, arm, target, by, jog>>
        BY <1>6, <2>1 DEF RosTick, Devices
      <3>2. TypeInv' /\ NoJump' /\ (steady /\ task = "jog" => qt # "waits")'
        BY <2>1, <3>1 DEF TypeInv, SeenInv, NoJump
      <3>3. Near(seen, arm)'
        BY <3>1, TeleopAssumption DEF TypeInv, Near, Cells
      <3>. QED
        BY <2>1, <3>1, <3>2, <3>3 DEF SeenInv
    <2>2. CASE task # "jog"
      BY <1>6, <2>2 DEF RosTick, TypeInv, SeenInv, Near, NoJump, jogVars
    <2>. QED
      BY <2>1, <2>2
  <1>7. CASE JogTick
    <2>1. CASE JogOn(jog) /\ UNCHANGED jog
      BY <1>7, <2>1, JogOnFacts DEF JogTick, TypeInv, SeenInv, Near
    <2>2. CASE StopJog
      BY <1>7, <2>2, HoldFacts DEF JogTick, StopJog, TypeInv, SeenInv, Near
    <2>. QED
      BY <1>7, <2>1, <2>2 DEF JogTick
  <1>8. CASE CallReturns
    BY <1>8 DEF CallReturns, TypeInv, SeenInv, Near, NoJump, jogVars
  <1>. QED
    BY <1>1, <1>2, <1>3, <1>4, <1>5, <1>6, <1>7, <1>8 DEF Jogs

(* Other programs may send the arm anywhere; then the panel did not.       *)
LEMMA OthersKeepIInv ==
  ASSUME IInv, NEW cell \in Cells, OthersMove(cell)
  PROVE  IInv'
  BY DEF OthersMove, IInv, TypeInv, SeenInv, Near, NoJump, setting, qtVars, devVars, panelVars

(* Devices leave the joint alone.                                          *)
LEMMA DevicesKeepIInv ==
  ASSUME IInv, jogVars' = jogVars, due' = due, setting' = setting,
         qt' \in {"free", "waits", "spins"}, qt' = qt \/ task # "jog"
  PROVE  IInv'
  BY DEF IInv, TypeInv, SeenInv, Near, NoJump, jogVars, setting

LEMMA DeviceSteps ==
  ASSUME IInv, Spin \/ GripperReturns \/ Device \/ Uses \/ OthersTurn \/ Crash \/ StartAgain \/ GetsOld
  PROVE  /\ jogVars' = jogVars /\ due' = due /\ setting' = setting
         /\ qt' \in {"free", "waits", "spins"} /\ (qt' = qt \/ task # "jog")
  <1>. USE DEF qtVars, IInv, TypeInv
  <1>1. CASE Spin \/ GripperReturns
    BY <1>1 DEF Spin, GripperReturns
  <1>2. CASE Device
    BY <1>2 DEF Device, Handle, ServeRestart, Publish
  <1>3. CASE Click
    BY <1>3 DEF Click, CanAsk, Request, Devices
  <1>4. CASE ChangeSlider \/ RestartDemo \/ BecomeQuiet
    BY <1>4 DEF ChangeSlider, RestartDemo, Request, BecomeQuiet
  <1>5. CASE OthersTurn \/ Crash \/ StartAgain \/ GetsOld
    BY <1>5 DEF OthersTurn, Crash, StartAgain, GetsOld
  <1>. QED
    BY <1>1, <1>2, <1>3, <1>4, <1>5 DEF Uses

LEMMA NextIInv == ASSUME IInv, [Next]_vars PROVE IInv'
  <1>1. CASE Tick
    BY <1>1, TickKeepsIInv
  <1>2. CASE Jogs \/ RosTick \/ JogTick \/ CallReturns
    BY <1>2, JogKeepsIInv
  <1>3. ASSUME NEW cell \in Cells, OthersMove(cell) PROVE IInv'
    BY <1>3, OthersKeepIInv
  <1>4. CASE Spin \/ GripperReturns \/ Device \/ Uses \/ OthersTurn \/ Crash \/ StartAgain \/ GetsOld
    BY <1>4, DeviceSteps, DevicesKeepIInv
  <1>5. CASE UNCHANGED vars
    BY <1>5 DEF vars, setting, qtVars, jogVars, IInv, TypeInv, SeenInv, Near, NoJump
  <1>. QED
    BY <1>1, <1>2, <1>3, <1>4, <1>5 DEF Next, Timers, Calls, Others

(* The inductive invariant of jogging.                                     *)
THEOREM Invariance == Spec => []IInv
  BY InitIInv, NextIInv, PTL DEF Spec

(* No jog and no hold lets the arm jump, for every joint and look-ahead:   *)
(* what the comment of JOG_LOOKAHEAD_SEC says of jogging on the measured   *)
(* state.                                                                  *)
THEOREM JoggingNeverJumps == Spec => []NoJump
  <1>1. IInv => NoJump
    BY DEF IInv
  <1>. QED
    BY <1>1, Invariance, PTL

-----------------------------------------------------------------------------
Requests == BOOLEAN \cup {Restart}

(* A demo has one request under way at most, as its buttons are used only  *)
(* when nothing is.                                                        *)
AskedInv ==
  /\ task \in Devices /\ up /\ ~error
  /\ dev \in BOOLEAN /\ want \in BOOLEAN
  /\ reqs \in Seq(Requests) /\ restarting \in BOOLEAN
  /\ task # "demo" => reqs \in Seq(BOOLEAN) /\ ~restarting
  /\ task = "demo" => Len(reqs) <= 1
  /\ restarting => reqs = <<>> /\ want
  /\ reqs # <<>> => Newest(reqs) = want \/ (Newest(reqs) = Restart /\ want)
  /\ reqs = <<>> /\ ~restarting => dev = want

FollowInv == steady /\ calm => AskedInv

LEMMA InitFollowInv == Init => FollowInv
  <1>1. ASSUME Init, steady, calm PROVE AskedInv
    <2>1. /\ task \in Devices /\ up /\ ~error /\ dev = FALSE /\ want = FALSE
          /\ reqs = <<>> /\ restarting = FALSE
      BY <1>1 DEF Init
    <2>2. reqs \in Seq(Requests) /\ reqs \in Seq(BOOLEAN) /\ Len(reqs) <= 1
      BY <2>1
    <2>3. dev \in BOOLEAN /\ want \in BOOLEAN /\ dev = want /\ restarting \in BOOLEAN /\ ~restarting
      BY <2>1
    <2>. QED
      BY <2>1, <2>2, <2>3, Zenon DEF AskedInv
  <1>. QED
    BY <1>1 DEF FollowInv

(* A user who is asked for a Boolean, or restarts the demo.                *)
LEMMA AskFacts ==
  ASSUME AskedInv, NEW v \in Requests, Deliver(v), ~restarting,
         want' \in BOOLEAN, v = want' \/ (v = Restart /\ want'),
         task # "demo" => v \in BOOLEAN, task = "demo" => reqs = <<>>,
         UNCHANGED <<task, up, dev, error, restarting>>
  PROVE  AskedInv'
  <1>1. reqs' = Append(reqs, v) /\ reqs \in Seq(Requests)
    BY DEF Deliver, AskedInv
  <1>2. reqs' \in Seq(Requests) /\ reqs' # <<>> /\ Newest(reqs') = v /\ Len(reqs') = Len(reqs) + 1
    BY <1>1, AppendFacts
  <1>3. task # "demo" => reqs' \in Seq(BOOLEAN)
    BY <1>1, AppendFacts DEF AskedInv
  <1>4. task = "demo" => Len(reqs') <= 1
    BY <1>2
  <1>. QED
    BY <1>2, <1>3, <1>4 DEF AskedInv

LEMMA UserKeepsFollowInv == ASSUME FollowInv, Uses PROVE FollowInv'
  <1>. SUFFICES ASSUME steady, calm, AskedInv PROVE AskedInv'
    BY DEF FollowInv, Uses, Click, ChangeSlider, RestartDemo, BecomeQuiet, Request, setting
  <1>1. CASE Click
    <2>1. Deliver(~shown) /\ UNCHANGED <<task, up, dev, error, restarting>> /\ task \in Devices
      BY <1>1 DEF Click, Request, setting, devVars, AskedInv, CanAsk
    <2>2. want' = ~shown
      BY <1>1, TeleopAssumption DEF Click, Request
    <2>3. task = "demo" => reqs = <<>>
      BY <1>1 DEF Click, Careful, Settled
    <2>4. ~restarting
      BY <1>1 DEF Click, Careful, Settled, AskedInv
    <2>. QED
      BY <2>1, <2>2, <2>3, <2>4, AskFacts DEF Requests
  <1>2. CASE ChangeSlider
    <2>1. Deliver(shown) /\ UNCHANGED <<task, up, dev, error, restarting, want>> /\ task = "factory"
      BY <1>2 DEF ChangeSlider, setting, devVars
    <2>2. Settled
      BY <1>2 DEF ChangeSlider, Careful
    <2>3. shown = dev /\ dev = want /\ want \in BOOLEAN /\ ~restarting
      BY <2>1, <2>2 DEF Settled, Says, AskedInv
    <2>. QED
      BY <2>1, <2>3, AskFacts DEF Requests
  <1>3. CASE RestartDemo
    <2>1. Deliver(Restart) /\ UNCHANGED <<task, up, dev, error, restarting>> /\ task = "demo"
      BY <1>3 DEF RestartDemo, Request, setting, devVars
    <2>2. Settled
      BY <1>3 DEF RestartDemo, Careful
    <2>3. want' = TRUE
      BY <1>3 DEF RestartDemo, Request
    <2>. QED
      BY <2>1, <2>2, <2>3, AskFacts DEF Requests, Settled
  <1>4. CASE BecomeQuiet
    BY <1>4 DEF BecomeQuiet, setting, devVars, panelVars, AskedInv
  <1>. QED
    BY <1>1, <1>2, <1>3, <1>4 DEF Uses

LEMMA DeviceKeepsFollowInv == ASSUME FollowInv, Device PROVE FollowInv'
  <1>. SUFFICES ASSUME steady, calm, AskedInv PROVE AskedInv'
    BY DEF FollowInv, Device, Handle, ServeRestart, Publish, setting
  <1>1. CASE Handle
    <2>1. /\ reqs # <<>> /\ reqs' = Tail(reqs) /\ reqs \in Seq(Requests)
          /\ UNCHANGED <<task, up, error, want>>
      BY <1>1 DEF Handle, setting, AskedInv
    <2>2. /\ Head(reqs) \in Requests /\ reqs' \in Seq(Requests) /\ Len(reqs') = Len(reqs) - 1
          /\ reqs' # <<>> => Newest(reqs') = Newest(reqs)
          /\ reqs' = <<>> => Head(reqs) = Newest(reqs)
      BY <2>1, TailFacts
    <2>3. task # "demo" => reqs' \in Seq(BOOLEAN) /\ Head(reqs) \in BOOLEAN
      BY <2>1, TailFacts DEF AskedInv
    <2>4. task = "demo" => reqs' = <<>>
      BY <2>1, <2>2, EmptySeq DEF AskedInv
    <2>5. ~restarting
      BY <2>1 DEF AskedInv
    <2>6. CASE Head(reqs) = Restart
      <3>1. restarting' = TRUE /\ dev' = dev
        BY <1>1, <2>6 DEF Handle
      <3>2. task = "demo" /\ reqs' = <<>> /\ want
        BY <2>1, <2>2, <2>3, <2>4, <2>6, TeleopAssumption DEF AskedInv
      <3>3. Len(reqs') <= 1
        BY <3>2
      <3>4. dev' \in BOOLEAN /\ want' /\ want' \in BOOLEAN
        BY <2>1, <3>1, <3>2 DEF AskedInv
      <3>. QED
        BY <2>1, <2>2, <3>1, <3>2, <3>3, <3>4 DEF AskedInv
    <2>7. CASE Head(reqs) # Restart
      <3>1. restarting' = restarting /\ dev' = Head(reqs) /\ dev' \in BOOLEAN
        BY <1>1, <2>2, <2>7 DEF Handle, Requests
      <3>2. reqs' = <<>> => dev' = want
        BY <2>1, <2>2, <2>7, <3>1 DEF AskedInv
      <3>3. reqs' # <<>> => Newest(reqs') = want \/ (Newest(reqs') = Restart /\ want)
        BY <2>1, <2>2 DEF AskedInv
      <3>. QED
        BY <2>1, <2>2, <2>3, <2>4, <2>5, <3>1, <3>2, <3>3 DEF AskedInv
    <2>. QED
      BY <2>6, <2>7
  <1>2. CASE ServeRestart
    BY <1>2 DEF ServeRestart, setting, panelVars, AskedInv
  <1>3. CASE Publish
    BY <1>3 DEF Publish, setting, panelVars, AskedInv
  <1>. QED
    BY <1>1, <1>2, <1>3 DEF Device

(* What the panel hears changes what it shows, and asks for nothing.       *)
LEMMA PanelKeepsFollowInv ==
  ASSUME FollowInv, RosTick \/ Spin \/ GripperReturns
  PROVE  FollowInv'
  BY DEF FollowInv, AskedInv, RosTick, Spin, GripperReturns, Refresh, setting, devVars, panelVars

(* Neither jogging nor others have to do with a user and a device.         *)
LEMMA RestKeepsFollowInv ==
  ASSUME FollowInv, Jogs \/ Tick \/ JogTick \/ CallReturns \/ Others \/ UNCHANGED vars
  PROVE  FollowInv'
  <1>. SUFFICES ASSUME steady', calm' PROVE AskedInv'
    BY DEF FollowInv
  <1>. USE DEF setting
  <1>1. CASE UNCHANGED vars
    BY <1>1 DEF vars, devVars, panelVars, FollowInv, AskedInv
  <1>2. CASE Jogs \/ Tick \/ JogTick \/ CallReturns
    <2>1. task = "jog" /\ steady /\ calm
      BY <1>2 DEF Jogs, StartJog, Release, ReleaseLost, GoHome, BlockingCall, Tick, JogTick, CallReturns
    <2>. QED
      BY <2>1 DEF FollowInv, AskedInv, Devices
  <1>3. CASE Others
    <2>1. steady /\ calm /\ (task = "jog" \/ ~up)
      BY <1>3 DEF Others, OthersMove, OthersTurn, Crash, StartAgain, GetsOld
    <2>. QED
      BY <2>1 DEF FollowInv, AskedInv, Devices
  <1>. QED
    BY <1>1, <1>2, <1>3

LEMMA NextFollowInv == ASSUME FollowInv, [Next]_vars PROVE FollowInv'
  BY UserKeepsFollowInv, DeviceKeepsFollowInv, PanelKeepsFollowInv, RestKeepsFollowInv
  DEF Next, Timers, Calls

(* When all requests have been worked off, the device is what the user     *)
(* last asked for - however many are under way while he clicks, and        *)
(* although the panel resets what it shows with every message.             *)
THEOREM DevicesFollow == Spec => []FollowsTheUser
  <1>1. FollowInv => FollowsTheUser
    BY DEF FollowInv, AskedInv, FollowsTheUser, Settled
  <1>. QED
    BY <1>1, InitFollowInv, NextFollowInv, PTL DEF Spec
=============================================================================
