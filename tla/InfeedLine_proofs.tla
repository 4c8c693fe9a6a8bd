------------------------- MODULE InfeedLine_proofs -------------------------
(***************************************************************************)
(* Proofs about InfeedLine, for every debouncing threshold above 1, every  *)
(* set of speeds and every queue depth.  The inductive invariant IInv adds *)
(* to the types what the messages under way and the scan counters know     *)
(* about the past.  At the end, proofs about Startup, in which the relay   *)
(* of this line and of the other belts comes up.                           *)
(***************************************************************************)
EXTENDS InfeedLine, Startup, SequenceTheorems, TLAPS

(* The queue keeps its type and its bound, and ends in what was sent.      *)
LEMMA KeepLastFacts ==
  ASSUME NEW q \in Seq(Speeds), NEW m \in Speeds, Len(q) <= QueueDepth
  PROVE  /\ KeepLast(q, m) \in Seq(Speeds)
         /\ Len(KeepLast(q, m)) <= QueueDepth
         /\ KeepLast(q, m) # <<>>
         /\ KeepLast(q, m)[Len(KeepLast(q, m))] = m
  <1>1. QueueDepth \in Nat \ {0}
    BY LineAssumption
  <1>2. CASE Len(q) < QueueDepth
    BY <1>1, <1>2 DEF KeepLast
  <1>3. CASE ~(Len(q) < QueueDepth)
    <2>1. q # <<>> /\ Len(q) = QueueDepth
      BY <1>1, <1>3
    <2>2. Tail(q) \in Seq(Speeds) /\ Len(Tail(q)) = Len(q) - 1
      BY <2>1
    <2>3. KeepLast(q, m) = Append(Tail(q), m)
      BY <1>3 DEF KeepLast
    <2>. QED
      BY <1>1, <2>1, <2>2, <2>3
  <1>. QED
    BY <1>2, <1>3

(* Taking the oldest message leaves the newest where it was.               *)
LEMMA TailFacts ==
  ASSUME NEW S, NEW q \in Seq(S), q # <<>>
  PROVE  /\ Head(q) \in S /\ Head(q) = q[1]
         /\ Tail(q) \in Seq(S) /\ Len(Tail(q)) = Len(q) - 1
         /\ Tail(q) # <<>> => Tail(q)[Len(Tail(q))] = q[Len(q)]
         /\ Tail(q) = <<>> => Len(q) = 1
  <1>1. Len(q) \in Nat /\ Len(q) > 0
    OBVIOUS
  <1>2. Head(q) = q[1] /\ Head(q) \in S
    BY <1>1
  <1>3. Tail(q) \in Seq(S) /\ Len(Tail(q)) = Len(q) - 1
    BY <1>1
  <1>4. Tail(q) = <<>> => Len(Tail(q)) = 0
    BY EmptySeq
  <1>5. ASSUME Tail(q) # <<>> PROVE Tail(q)[Len(Tail(q))] = q[Len(q)]
    <2>1. Len(Tail(q)) \in 1..Len(Tail(q))
      BY <1>1, <1>3, <1>5
    <2>2. \A i \in 1..Len(Tail(q)) : Tail(q)[i] = q[i + 1]
      BY <1>1, <1>3
    <2>. QED
      BY <1>1, <1>3, <2>1, <2>2
  <1>. QED
    BY <1>1, <1>2, <1>3, <1>4, <1>5

(* _on_request: the next mode is a mode, and it is RUNNING only when the   *)
(* light barrier reads clear.                                              *)
LEMMA NextModeFacts ==
  ASSUME NEW en \in BOOLEAN, NEW md \in Modes, beamBlocked \in BOOLEAN
  PROVE  /\ NextMode(en, md) \in Modes
         /\ NextMode(en, md) = "RUNNING" => ~beamBlocked
  BY DEF NextMode, Modes

(* Every entry into the body of _on_tick: types and the command.           *)
LEMMA TickKeeps ==
  ASSUME TypeOK, CommandInv, NEW en \in BOOLEAN, NEW md \in Modes,
         TickFrom(en, md), UNCHANGED <<beltSpeed, synced, relayRestarts, beamVars>>
  PROVE  TypeOK' /\ CommandInv'
  <1>. DEFINE speed == IF mode' \in Moving THEN speedRequest ELSE 0
  <1>1. mode' \in Modes /\ enabled' \in BOOLEAN
    BY NextModeFacts DEF TickFrom, TypeOK
  <1>2. speed \in Speeds
    BY LineAssumption DEF TypeOK
  <1>3. boxesStopped' \in 0..MaxStopped
    BY LineAssumption DEF TickFrom, TypeOK, Saturate
  <1>4. SendCommand(speed)
    BY DEF TickFrom
  <1>5. /\ command' = speed
        /\ command' \in Speeds
        /\ commandDue' \in BOOLEAN
        /\ wire' \in Seq(Speeds) /\ Len(wire') <= QueueDepth
        /\ wire' # <<>> => wire'[Len(wire')] = command'
        /\ wire' = <<>> /\ synced => beltSpeed = command'
    <2>1. CASE WorthSending(speed)
      <3>1. command' = speed /\ commandDue' = FALSE /\ wire' = KeepLast(wire, speed)
        BY <1>4, <2>1 DEF SendCommand
      <3>. QED
        BY <1>2, <3>1, KeepLastFacts DEF TypeOK
    <2>2. CASE ~WorthSending(speed)
      <3>1. command = speed /\ UNCHANGED <<command, commandDue, wire>>
        BY <1>4, <2>2 DEF SendCommand, WorthSending
      <3>. QED
        BY <1>2, <3>1 DEF TypeOK, CommandInv
    <2>. QED
      BY <2>1, <2>2
  <1>6. lineState' \in LineStates
    BY <1>1, <1>3, <1>5 DEF TickFrom, PublishState, LineStates, TypeOK
  <1>7. TypeOK'
    BY <1>1, <1>3, <1>5, <1>6 DEF TickFrom, TypeOK, beamVars
  <1>8. CommandInv'
    BY <1>5 DEF CommandInv
  <1>. QED
    BY <1>7, <1>8

(* The controller and the relay start in a consistent state.               *)
THEOREM InitIInv == Init => IInv
  <1>. SUFFICES ASSUME Init PROVE IInv
    OBVIOUS
  <1>1. wire \in Seq(Speeds) /\ Len(wire) <= QueueDepth
    BY EmptySeq, LineAssumption DEF Init
  <1>2. TypeOK
    <2>1. /\ hits \in 0..BlockN /\ misses \in 0..ClearN
          /\ boxesStopped \in 0..MaxStopped /\ relayRestarts \in 0..MaxRelayRestarts
          /\ truthRun \in [cut : BOOLEAN, len : 0..2]
      BY LineAssumption DEF Init
    <2>2. /\ enabled \in BOOLEAN /\ mode \in Modes /\ beamBlocked \in BOOLEAN
          /\ scansFresh \in BOOLEAN /\ commandDue \in BOOLEAN
          /\ speedRequest \in Speeds /\ beltSpeed \in Speeds
          /\ command \in Speeds \cup {NoCommand}
          /\ lineState \in LineStates \cup {NoState}
          /\ synced \in BOOLEAN /\ beamCut \in BOOLEAN /\ lastNoisy \in BOOLEAN
      BY LineAssumption DEF Init, Modes
    <2>. QED
      BY <1>1, <2>1, <2>2 DEF TypeOK
  <1>3. CommandInv /\ ScanInv
    BY LineAssumption DEF Init, CommandInv, ScanInv, Moving
  <1>. QED
    BY <1>2, <1>3 DEF IInv

(* Every callback of the controller and the relay, every lost or delayed   *)
(* command and every movement of a box keeps it consistent.                *)
THEOREM NextIInv == IInv /\ [Next]_vars => IInv'
  <1>. SUFFICES ASSUME IInv, [Next]_vars PROVE IInv'
    OBVIOUS
  <1>. USE DEF IInv
  <1>1. ASSUME NEW s \in Speeds, Request(s) PROVE IInv'
    BY <1>1 DEF Request, OnRequest, TypeOK, CommandInv, ScanInv, relayVars, beamVars
  <1>2. ASSUME NEW noise \in BOOLEAN, Scan(noise) PROVE IInv'
    <2>1. BlockN \in Nat /\ ClearN \in Nat /\ BlockN > 1 /\ ClearN > 1
      BY LineAssumption
    <2>2. /\ hits' = HitsAfter(beamCut # noise)
          /\ misses' = MissesAfter(beamCut # noise)
          /\ beamBlocked' = Verdict(hits', misses')
          /\ scansFresh' = TRUE
          /\ UNCHANGED <<enabled, mode, boxesStopped, speedRequest, command,
                         commandDue, lineState, relayVars, beamCut>>
          /\ lastNoisy' = noise
      BY <1>2 DEF Scan, OnScan
    <2>3. hits' \in 0..BlockN /\ misses' \in 0..ClearN
      BY <2>1, <2>2 DEF HitsAfter, MissesAfter, Saturate, TypeOK
    <2>4. beamBlocked' \in BOOLEAN
      BY <2>2 DEF Verdict, TypeOK
    <2>5. truthRun' \in [cut : BOOLEAN, len : 0..2]
          /\ truthRun'.len > 0 /\ truthRun'.cut = beamCut
      BY <1>2 DEF Scan, Saturate, TypeOK
    <2>6. TypeOK'
      BY <2>2, <2>3, <2>4, <2>5 DEF TypeOK, relayVars
    <2>7. CommandInv'
      BY <2>2 DEF CommandInv, relayVars
    <2>8. ScanInv'
      BY <2>1, <2>2, <2>5 DEF ScanInv, HitsAfter, MissesAfter, TypeOK
    <2>. QED
      BY <2>6, <2>7, <2>8
  <1>3. ASSUME NEW on \in BOOLEAN, SetEnabled(on) PROVE IInv'
    <2>. DEFINE md == IF ~on THEN "DISABLED"
                      ELSE IF mode = "DISABLED" THEN "RUNNING" ELSE mode
    <2>1. md \in Modes
      BY DEF Modes, TypeOK
    <2>2. TickFrom(on, md) /\ UNCHANGED <<beltSpeed, synced, relayRestarts, beamVars>>
      BY <1>3 DEF SetEnabled, OnSetEnabled
    <2>3. TypeOK' /\ CommandInv'
      BY <2>1, <2>2, TickKeeps
    <2>. QED
      BY <2>2, <2>3 DEF TickFrom, ScanInv, beamVars
  <1>4. ASSUME Release PROVE IInv'
    <2>1. /\ TickFrom(enabled, "RELEASED")
          /\ UNCHANGED <<beltSpeed, synced, relayRestarts, beamVars>>
      BY <1>4 DEF Release, OnRelease
    <2>2. TypeOK' /\ CommandInv'
      BY <2>1, TickKeeps DEF TypeOK, Modes
    <2>. QED
      BY <2>1, <2>2 DEF TickFrom, ScanInv, beamVars
  <1>5. ASSUME Tick PROVE IInv'
    <2>1. TypeOK' /\ CommandInv'
      BY <1>5, TickKeeps DEF Tick, OnTick, TypeOK
    <2>. QED
      BY <1>5, <2>1 DEF Tick, OnTick, TickFrom, ScanInv, beamVars
  <1>6. ASSUME Clock PROVE IInv'
    <2>1. /\ UNCHANGED <<enabled, mode, beamBlocked, hits, misses, boxesStopped,
                         speedRequest, command, lineState, relayVars, beamVars>>
          /\ scansFresh' \in BOOLEAN /\ commandDue' \in BOOLEAN
      BY <1>6 DEF Clock, ScansStop, CommandDue, TypeOK
    <2>. QED
      BY <2>1 DEF TypeOK, CommandInv, ScanInv, relayVars, beamVars
  <1>7. ASSUME RelayReceive PROVE IInv'
    <2>1. /\ wire # <<>> /\ beltSpeed' = Head(wire) /\ wire' = Tail(wire) /\ synced' = TRUE
          /\ UNCHANGED <<ctlVars, beamVars, relayRestarts>>
      BY <1>7 DEF RelayReceive
    <2>2. wire \in Seq(Speeds) /\ Len(wire) \in Nat /\ Len(wire) > 0 /\ Len(wire) <= QueueDepth
      BY <2>1 DEF TypeOK
    <2>3. /\ Head(wire) \in Speeds /\ Head(wire) = wire[1]
          /\ wire' \in Seq(Speeds) /\ Len(wire') = Len(wire) - 1
          /\ wire' # <<>> => wire'[Len(wire')] = wire[Len(wire)]
          /\ wire' = <<>> => Len(wire) = 1
      BY <2>1, <2>2, TailFacts
    <2>4. Len(wire') <= QueueDepth
      BY <2>2, <2>3, LineAssumption
    <2>5. TypeOK'
      BY <2>1, <2>3, <2>4 DEF TypeOK, ctlVars, beamVars
    <2>6. CommandInv'
      BY <2>1, <2>3 DEF CommandInv, ctlVars
    <2>. QED
      BY <2>1, <2>5, <2>6 DEF ScanInv, ctlVars, beamVars
  <1>8. ASSUME RelayRestart PROVE IInv'
    <2>1. wire' \in Seq(Speeds) /\ Len(wire') <= QueueDepth
      BY <1>8, EmptySeq, LineAssumption DEF RelayRestart
    <2>2. relayRestarts' \in 0..MaxRelayRestarts
      BY <1>8, LineAssumption DEF RelayRestart, TypeOK
    <2>3. TypeOK'
      BY <1>8, <2>1, <2>2, LineAssumption DEF RelayRestart, TypeOK, ctlVars, beamVars
    <2>. QED
      BY <1>8, <2>3 DEF RelayRestart, CommandInv, ScanInv, ctlVars, beamVars
  <1>9. ASSUME BoxEnters \/ BoxPasses \/ BoxTaken PROVE IInv'
    <2>1. beamCut' \in BOOLEAN /\ UNCHANGED <<ctlVars, relayVars, lastNoisy, truthRun>>
      BY <1>9 DEF BoxEnters, BoxPasses, BoxTaken
    <2>. QED
      BY <2>1 DEF TypeOK, CommandInv, ScanInv, ctlVars, relayVars
  <1>10. ASSUME UNCHANGED vars PROVE IInv'
    BY <1>10 DEF vars, ctlVars, relayVars, beamVars, TypeOK, CommandInv, ScanInv
  <1>. QED
    BY <1>1, <1>2, <1>3, <1>4, <1>5, <1>6, <1>7, <1>8, <1>9, <1>10 DEF Next

(* The inductive invariant holds in every reachable state.                 *)
THEOREM Invariance == Spec => []IInv
  BY InitIInv, NextIInv, PTL DEF Spec

(* Type correctness of the controller, its topics and the relay.           *)
THEOREM TypeCorrect == Spec => []TypeOK
  <1>1. IInv => TypeOK
    BY DEF IInv
  <1>. QED
    BY <1>1, Invariance, PTL

(* The rollers stand still once a held line's commands are delivered.      *)
THEOREM HeldBelt == Spec => []HeldBeltStands
  <1>1. IInv => HeldBeltStands
    BY DEF IInv, TypeOK, CommandInv, HeldBeltStands
  <1>. QED
    BY <1>1, Invariance, PTL

(* Only a clear beam or a release sets a stopped belt moving.              *)
THEOREM NoStart == Spec => NoStartAgainstBeam
  <1>. DEFINE P == command = 0 /\ command' # 0
                     => ~beamBlocked' \/ mode' = "RELEASED"
  <1>1. ASSUME TypeOK, NEW en \in BOOLEAN, NEW md \in Modes, TickFrom(en, md)
        PROVE  P
    <2>1. mode' = NextMode(en, md) /\ beamBlocked' = beamBlocked
          /\ SendCommand(IF mode' \in Moving THEN speedRequest ELSE 0)
      BY <1>1 DEF TickFrom
    <2>2. mode' \notin Moving => command' = 0 \/ command' = command
      BY <2>1 DEF SendCommand
    <2>3. mode' = "RUNNING" => ~beamBlocked
      BY <1>1, <2>1, NextModeFacts DEF TypeOK
    <2>. QED
      BY <2>1, <2>2, <2>3 DEF Moving
  <1>2. ASSUME TypeOK, [Next]_vars PROVE [P]_vars
    <2>1. ASSUME NEW on \in BOOLEAN, SetEnabled(on) PROVE P
      BY <1>1, <1>2, <2>1 DEF SetEnabled, OnSetEnabled, TypeOK, Modes
    <2>2. ASSUME Release PROVE P
      BY <1>1, <1>2, <2>2 DEF Release, OnRelease, TypeOK, Modes
    <2>3. ASSUME Tick PROVE P
      BY <1>1, <1>2, <2>3 DEF Tick, OnTick, TypeOK
    <2>4. ASSUME UNCHANGED command PROVE P
      BY <2>4
    <2>5. ASSUME NEW s \in Speeds, Request(s) PROVE UNCHANGED command
      BY <2>5 DEF Request, OnRequest
    <2>6. ASSUME NEW noise \in BOOLEAN, Scan(noise) PROVE UNCHANGED command
      BY <2>6 DEF Scan, OnScan
    <2>7. ASSUME Clock \/ RelayReceive \/ RelayRestart \/ BoxEnters \/ BoxPasses \/ BoxTaken
          PROVE  UNCHANGED command
      BY <2>7 DEF Clock, ScansStop, CommandDue, RelayReceive, RelayRestart,
                  BoxEnters, BoxPasses, BoxTaken, ctlVars
    <2>. QED
      BY <1>2, <2>1, <2>2, <2>3, <2>4, <2>5, <2>6, <2>7 DEF Next
  <1>. QED
    BY <1>2, TypeCorrect, PTL DEF Spec, NoStartAgainstBeam

(* A noisy scan alone never flips the verdict.                             *)
THEOREM NoiseIgnored == Spec => NoiseNeverFlips
  <1>. DEFINE P == beamBlocked' # beamBlocked
                     => truthRun'.cut = beamBlocked' \/ truthRun'.len < 2
  <1>1. ASSUME IInv, NEW noise \in BOOLEAN, Scan(noise) PROVE P
    <2>. SUFFICES ASSUME beamBlocked' # beamBlocked,
                         truthRun'.cut # beamBlocked', ~(truthRun'.len < 2)
                  PROVE  FALSE
      OBVIOUS
    <2>1. BlockN \in Nat /\ ClearN \in Nat /\ BlockN > 1 /\ ClearN > 1
      BY LineAssumption
    <2>2. /\ noise => ~lastNoisy
          /\ hits' = HitsAfter(beamCut # noise)
          /\ misses' = MissesAfter(beamCut # noise)
          /\ beamBlocked' = Verdict(hits', misses')
          /\ truthRun'.cut = beamCut
          /\ truthRun'.len = IF truthRun.cut = beamCut THEN Saturate(truthRun.len, 2) ELSE 1
      BY <1>1 DEF Scan, OnScan
    <2>3. truthRun.cut = beamCut
      BY <2>2
    <2>4. beamCut \in BOOLEAN /\ lastNoisy \in BOOLEAN /\ beamBlocked \in BOOLEAN
          /\ hits \in 0..BlockN /\ misses \in 0..ClearN
      BY <1>1 DEF IInv, TypeOK
    <2>5. CASE hits' >= BlockN
      <3>1. beamBlocked' = TRUE /\ beamCut # noise /\ hits > 0
        BY <2>1, <2>2, <2>4, <2>5 DEF Verdict, HitsAfter, MissesAfter, Saturate
      <3>2. beamCut = FALSE /\ noise = TRUE
        BY <2>2, <2>4, <3>1
      <3>. QED
        BY <1>1, <2>2, <2>3, <2>4, <3>1, <3>2 DEF IInv, ScanInv
    <2>6. CASE ~(hits' >= BlockN) /\ misses' >= ClearN
      <3>1. beamBlocked' = FALSE /\ ~(beamCut # noise) /\ misses > 0
        BY <2>1, <2>2, <2>4, <2>6 DEF Verdict, MissesAfter, Saturate
      <3>2. beamCut = TRUE /\ noise = TRUE
        BY <2>2, <2>4, <3>1
      <3>. QED
        BY <1>1, <2>2, <2>3, <2>4, <3>1, <3>2 DEF IInv, ScanInv
    <2>. QED
      BY <2>2, <2>5, <2>6 DEF Verdict
  <1>2. ASSUME [Next]_vars, ~(\E noise \in BOOLEAN : Scan(noise))
        PROVE  UNCHANGED beamBlocked
    BY <1>2 DEF Next, vars, ctlVars, Request, OnRequest, SetEnabled, OnSetEnabled, Release,
       OnRelease, Tick, OnTick, TickFrom, Clock, ScansStop, CommandDue, RelayReceive,
       RelayRestart, BoxEnters, BoxPasses, BoxTaken
  <1>3. IInv /\ [Next]_vars => [P]_vars
    BY <1>1, <1>2
  <1>. QED
    BY <1>3, Invariance, PTL DEF Spec, NoiseNeverFlips

-----------------------------------------------------------------------------
(* How the belt starts: proofs about Startup, for all delays, time-outs    *)
(* and speeds.  The relay that comes up in it is the one above.            *)
(* StartsTurning is not inductive: that the belt obeys depends on what the *)
(* relay has yet to read, and on the controller being active in time.      *)

BootTypes ==
  /\ kind \in {"arm", "pallet", "infeed"} /\ prompt \in BOOLEAN /\ heard \in BOOLEAN
  /\ now \in Nat /\ active \in Nat
  /\ spawner \in {"no", "waits", "switches", "done", "died"}
  /\ relay \in {"no", "starts", "subscribed", "runs"}
  /\ inbox \in Seq(BeltSpeeds) /\ line \in BeltSpeeds \cup {None}
  /\ asked \in BeltSpeeds \cup {None}

(* A stack that is on time: the spawner is done when the relay is due, and *)
(* done means that all controllers are active.                             *)
BootTime ==
  /\ prompt /\ now >= Delay + RelayLag => spawner = "done"
  /\ spawner \in {"no", "waits"} => active = 0
  /\ spawner = "switches" => active < Len(Controllers)
  /\ spawner = "done" => Active
  /\ relay # "no" => kind # "arm" /\ now >= Delay + RelayLag

(* The newest message that waits is the last one that was said, and none   *)
(* waits for a relay that was told nothing.                                *)
BootInbox ==
  /\ inbox # <<>> => asked = inbox[Len(inbox)]
  /\ relay \in {"no", "starts"} => inbox = <<>> /\ asked = None
  /\ relay = "subscribed" /\ inbox = <<>> => asked = None

BootInv == BootTypes /\ BootTime /\ BootInbox /\ StartsTurning

(* Adding one makes it the newest.                                         *)
LEMMA AppendFacts ==
  ASSUME NEW S, NEW q \in Seq(S), NEW m \in S
  PROVE  /\ Append(q, m) \in Seq(S) /\ Append(q, m) # <<>>
         /\ Append(q, m)[Len(Append(q, m))] = m
  OBVIOUS

(* Of an arm and of a belt alike.                                          *)
LEMMA ControllersFacts == Len(Controllers) = 2
  BY DEF Controllers, ArmControllers, BeltControllers

-----------------------------------------------------------------------------
LEMMA InitBootInv == StartInit => BootInv
  BY StartupAssumption, ControllersFacts
  DEF StartInit, BootInv, BootTypes, BootTime, BootInbox, StartsTurning, Active, Delay

(* What the belt is told does not matter to what the belt waits for.       *)
LEMMA TimeUnchanged ==
  ASSUME BootTime, kind' = kind, prompt' = prompt, now' = now, UNCHANGED spawnVars,
         relay' = relay \/ (kind # "arm" /\ now >= Delay + RelayLag)
  PROVE  BootTime'
  BY DEF BootTime, spawnVars, Delay, Active, Controllers

LEMMA BeltUnchanged ==
  ASSUME BootInbox, StartsTurning, UNCHANGED <<setting, beltVars>>
  PROVE  BootInbox' /\ StartsTurning'
  BY DEF BootInbox, StartsTurning, beltVars, setting

LEMMA TickKeepsBootInv == ASSUME BootInv, TimePasses PROVE BootInv'
  <1>. USE DEF setting, plant, spawnVars, beltVars, BootInv, TimePasses
  <1>1. BootTypes'
    BY DEF BootTypes
  <1>2. Delay \in Nat /\ RelayLag \in Nat /\ Delay' = Delay
    BY StartupAssumption DEF Delay
  <1>3. BootTime'
    <2>1. (prompt /\ now >= Delay + RelayLag => spawner = "done")'
      BY <1>2 DEF BootTypes, BootTime, Punctual
    <2>2. (relay # "no" => kind # "arm" /\ now >= Delay + RelayLag)'
      BY <1>2 DEF BootTypes, BootTime
    <2>. QED
      BY <2>1, <2>2 DEF BootTime, Active, Controllers
  <1>. QED
    BY <1>1, <1>3, BeltUnchanged

LEMMA PlantKeepsBootInv == ASSUME BootInv, Plant \/ BecomeQuiet PROVE BootInv'
  <1>1. UNCHANGED <<setting, now, spawnVars, beltVars>>
    BY DEF Plant, WorldUp, Describe, CreateModel, ManagerUp, BecomeQuiet
  <1>. QED
    BY <1>1, TimeUnchanged, BeltUnchanged
    DEF BootInv, BootTypes, setting, spawnVars, beltVars

LEMMA SpawnerKeepsBootInv == ASSUME BootInv, Spawner PROVE BootInv'
  <1>. USE DEF setting, beltVars, BootInv
  <1>1. UNCHANGED <<setting, now, beltVars>>
    BY DEF Spawner, LaunchSpawner, SpawnerFinds, Activate, SpawnerGivesUp
  <1>2. Delay \in Nat \ {0} /\ RelayLag \in Nat \ {0} /\ Delay' = Delay
    BY <1>1, StartupAssumption DEF Delay
  <1>3. Controllers' = Controllers
    BY <1>1 DEF Controllers
  <1>4. (relay # "no" => kind # "arm" /\ now >= Delay + RelayLag)'
    BY <1>1, <1>2 DEF BootTime
  <1>5. BootTypes' /\ BootTime'
    <2>1. CASE LaunchSpawner
      BY <1>1, <1>2, <1>3, <1>4, <2>1
      DEF LaunchSpawner, SpawnerDue, BootTypes, BootTime
    <2>2. CASE SpawnerFinds
      BY <1>1, <1>2, <1>3, <1>4, <2>2, ControllersFacts
      DEF SpawnerFinds, BootTypes, BootTime
    <2>3. CASE Activate
      BY <1>1, <1>2, <1>3, <1>4, <2>3, ControllersFacts
      DEF Activate, BootTypes, BootTime, Active
    <2>4. CASE SpawnerGivesUp
      BY <1>1, <1>2, <1>3, <1>4, <2>4
      DEF SpawnerGivesUp, OutOfPatience, BootTypes, BootTime
    <2>. QED
      BY <2>1, <2>2, <2>3, <2>4 DEF Spawner
  <1>. QED
    BY <1>1, <1>5, BeltUnchanged

LEMMA RelayKeepsBootInv == ASSUME BootInv, Relay PROVE BootInv'
  <1>. USE DEF setting, spawnVars, BootInv
  <1>1. UNCHANGED <<setting, now, spawnVars, line, asked>>
    BY DEF Relay, LaunchRelay, RelaySubscribes, RelayBootstraps, OnTargetSpeed
  <1>2. BootTime'
    <2>1. relay' = relay \/ (kind # "arm" /\ now >= Delay + RelayLag)
      BY DEF Relay, LaunchRelay, RelayDue, RelaySubscribes, RelayBootstraps,
         OnTargetSpeed, BootTime
    <2>. QED
      BY <1>1, <2>1, TimeUnchanged
  <1>3. CASE LaunchRelay \/ RelaySubscribes
    BY <1>1, <1>2, <1>3
    DEF LaunchRelay, RelayDue, RelaySubscribes, BootTypes, BootInbox,
        StartsTurning
  <1>4. CASE RelayBootstraps
    <2>1. prompt => Active
      BY <1>4 DEF RelayBootstraps, BootTime
    <2>2. BootTypes' /\ BootInbox'
      BY <1>1, <1>4 DEF RelayBootstraps, BootTypes, BootInbox
    <2>3. prompt /\ heard => belt' = Initial
      BY <1>4, <2>1 DEF RelayBootstraps, Publish
    <2>4. inbox' = <<>> => asked' = None
      BY <1>1, <1>4 DEF RelayBootstraps, BootInbox
    <2>. QED
      BY <1>1, <1>2, <2>2, <2>3, <2>4 DEF StartsTurning
  <1>5. CASE OnTargetSpeed
    <2>1. prompt => Active
      BY <1>5 DEF OnTargetSpeed, BootTime
    <2>2. /\ inbox \in Seq(BeltSpeeds) /\ inbox # <<>> /\ inbox' = Tail(inbox)
          /\ relay = "runs" /\ relay' = relay
      BY <1>5 DEF OnTargetSpeed, BootTypes
    <2>3. /\ Head(inbox) \in BeltSpeeds /\ Tail(inbox) \in Seq(BeltSpeeds)
          /\ Tail(inbox) # <<>> => Tail(inbox)[Len(Tail(inbox))] = inbox[Len(inbox)]
          /\ Tail(inbox) = <<>> => Head(inbox) = inbox[Len(inbox)]
      BY <2>2, TailFacts
    <2>4. BootTypes' /\ BootInbox'
      BY <1>1, <2>2, <2>3 DEF BootTypes, BootInbox
    <2>5. prompt => belt' = Head(inbox)
      BY <1>5, <2>1 DEF OnTargetSpeed, Publish
    <2>6. inbox' = <<>> => Head(inbox) = asked /\ asked # None
      BY <2>2, <2>3, StartupAssumption DEF BootInbox
    <2>. QED
      BY <1>1, <1>2, <2>2, <2>4, <2>5, <2>6 DEF StartsTurning
  <1>. QED
    BY <1>3, <1>4, <1>5 DEF Relay

(* Somebody tells the relay a speed.                                       *)
LEMMA TellFacts ==
  ASSUME BootInv, NEW speed \in BeltSpeeds, Tell(speed), UNCHANGED <<setting, relay, belt>>
  PROVE  /\ inbox' \in Seq(BeltSpeeds) /\ asked' \in BeltSpeeds \cup {None}
         /\ BootInbox' /\ StartsTurning'
  <1>. USE DEF BootInv, setting
  <1>1. CASE relay \in {"subscribed", "runs"}
    <2>1. inbox \in Seq(BeltSpeeds) /\ inbox' = Append(inbox, speed) /\ asked' = speed
      BY <1>1 DEF Tell, BootTypes
    <2>2. inbox' \in Seq(BeltSpeeds) /\ inbox' # <<>> /\ inbox'[Len(inbox')] = speed
      BY <2>1, AppendFacts
    <2>. QED
      BY <1>1, <2>1, <2>2 DEF BootInbox, StartsTurning
  <1>2. CASE relay \notin {"subscribed", "runs"}
    BY <1>2 DEF Tell, BootTypes, BootInbox, StartsTurning
  <1>. QED
    BY <1>1, <1>2

LEMMA TalkKeepsBootInv ==
  ASSUME BootInv,
         RepeatCommand \/ \E speed \in BeltSpeeds : Ask(speed) \/ LaunchLine(speed)
  PROVE  BootInv'
  <1>. USE DEF BootInv
  <1>1. UNCHANGED <<setting, now, spawnVars, relay, belt>>
    BY DEF RepeatCommand, Ask, LaunchLine
  <1>2. BootTime'
    BY <1>1, TimeUnchanged DEF setting
  <1>3. CASE RepeatCommand
    <2>1. line \in BeltSpeeds /\ Tell(line) /\ line' = line
      BY <1>3 DEF RepeatCommand, BootTypes
    <2>. QED
      BY <1>1, <1>2, <2>1, TellFacts DEF BootTypes, setting, spawnVars
  <1>4. ASSUME NEW speed \in BeltSpeeds, Ask(speed) PROVE BootInv'
    <2>1. CASE kind = "pallet" /\ Tell(speed) /\ UNCHANGED line
      BY <1>1, <1>2, <2>1, TellFacts DEF BootTypes, setting, spawnVars
    <2>2. CASE line' = speed /\ UNCHANGED <<inbox, asked>>
      BY <1>1, <1>2, <2>2
      DEF BootTypes, BootInbox, StartsTurning, setting, spawnVars
    <2>. QED
      BY <1>4, <2>1, <2>2 DEF Ask
  <1>5. ASSUME NEW speed \in BeltSpeeds, LaunchLine(speed) PROVE BootInv'
    BY <1>1, <1>2, <1>5
    DEF LaunchLine, BootTypes, BootInbox, StartsTurning, setting, spawnVars
  <1>. QED
    BY <1>3, <1>4, <1>5

LEMMA NextBootInv == ASSUME BootInv, [StartNext]_startVars PROVE BootInv'
  <1>1. CASE UNCHANGED startVars
    BY <1>1, TimeUnchanged, BeltUnchanged
    DEF BootInv, BootTypes, startVars, setting, spawnVars, beltVars
  <1>. QED
    BY <1>1, TickKeepsBootInv, PlantKeepsBootInv, SpawnerKeepsBootInv,
       RelayKeepsBootInv, TalkKeepsBootInv
    DEF StartNext, Users

(* The inductive invariant of the start.                                   *)
THEOREM BootInvariance == StartSpec => []BootInv
  BY InitBootInv, NextBootInv, PTL DEF StartSpec

(* A stack that starts in time turns at what it was told, whatever the     *)
(* delays of the launch files, the order in which relay, controllers and   *)
(* users come, and however many requests wait.                             *)
THEOREM BeltStartsTurning == StartSpec => []StartsTurning
  <1>1. BootInv => StartsTurning
    BY DEF BootInv
  <1>. QED
    BY <1>1, BootInvariance, PTL
=============================================================================
