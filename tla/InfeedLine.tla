----------------------------- MODULE InfeedLine -----------------------------
(***************************************************************************)
(* The feeding line of the infeed belt: infeed_line_controller (a laser    *)
(* beam stops the belt when a box reaches it), the belt_speed_relay that   *)
(* turns its commands into roller speeds, and the part of the world the    *)
(* two can see: is the beam cut, and are the rollers turning.              *)
(*                                                                         *)
(* The controller is one node on a single-threaded executor, so each       *)
(* callback is one action.  Time appears only as the three things the code *)
(* compares clocks for: a tick, a scan that is overdue (beam_timeout_sec)  *)
(* and a command that is due again (COMMAND_PERIOD_SEC).                   *)
(***************************************************************************)
EXTENDS Integers, Sequences

CONSTANTS
  BlockN,        \* block_samples: consecutive blocked scans that stop the line
  ClearN,        \* clear_samples: consecutive clear scans that restart it
  Speeds,        \* the speeds target_speed may ask for
  RunningSpeed,  \* running_speed: used until the first request arrives
  BootSpeed,     \* initial_speed: what a starting relay gives the rollers
  NoCommand,     \* _command before the first tick
  NoState,       \* _last_state before the first tick
  StartEnabled,  \* start_enabled
  QueueDepth,    \* depth of the line_speed topic (10 in the code)
  Noisy,         \* may a single scan contradict the beam?
  MaxStopped,    \* boxesStopped saturates here
  MaxRelayRestarts  \* how often the relay may be restarted

ASSUME LineAssumption ==
  /\ BlockN \in Nat \ {0, 1} /\ ClearN \in Nat \ {0, 1}
  /\ Speeds \subseteq Int /\ 0 \in Speeds
  /\ RunningSpeed \in Speeds /\ BootSpeed \in Speeds
  /\ NoCommand \notin Speeds
  /\ StartEnabled \in BOOLEAN /\ Noisy \in BOOLEAN
  /\ QueueDepth \in Nat \ {0}
  /\ MaxStopped \in Nat /\ MaxRelayRestarts \in Nat

VARIABLES
  \* infeed_line_controller
  enabled, mode, beamBlocked, hits, misses, scansFresh,
  boxesStopped, speedRequest, command, commandDue,
  lineState,     \* the latched message on line/state
  \* belt_speed_relay and the topic it follows
  wire, beltSpeed, synced, relayRestarts,
  \* the beam itself, and two facts about the scans so far
  beamCut, lastNoisy, truthRun

ctlVars   == <<enabled, mode, beamBlocked, hits, misses, scansFresh,
               boxesStopped, speedRequest, command, commandDue, lineState>>
relayVars == <<wire, beltSpeed, synced, relayRestarts>>
beamVars  == <<beamCut, lastNoisy, truthRun>>
vars      == <<ctlVars, relayVars, beamVars>>

Modes == {"DISABLED", "RUNNING", "BLOCKED", "RELEASED"}

(* The modes in which the belt is asked to move. *)
Moving == {"RUNNING", "RELEASED"}

(* The code compares these counters with a threshold only, so counting     *)
(* stops there.                                                            *)
Saturate(n, cap) == IF n < cap THEN n + 1 ELSE cap

-----------------------------------------------------------------------------
(* The controller.                                                         *)

(* _on_request *)
OnRequest(s) ==
  /\ speedRequest' = s
  /\ UNCHANGED <<enabled, mode, beamBlocked, hits, misses, scansFresh,
                 boxesStopped, command, commandDue, lineState>>

HitsKept(hit) == IF hit THEN Saturate(hits, BlockN) ELSE hits  \* mutant: no reset

(* The counters and the verdict of the debouncing.                         *)
HitsAfter(hit) == IF hit THEN Saturate(hits, BlockN) ELSE 0
MissesAfter(hit) == IF hit THEN 0 ELSE Saturate(misses, ClearN)

LateVerdict(h, m) == IF h > BlockN THEN TRUE  \* mutant: > for >=
                     ELSE IF m > ClearN THEN FALSE ELSE beamBlocked
Verdict(h, m) == CASE h >= BlockN -> TRUE
                   [] m >= ClearN -> FALSE
                   [] OTHER       -> beamBlocked

(* _on_scan: the debounced verdict on the beam. *)
OnScan(hit) ==
  /\ scansFresh' = TRUE
  /\ hits'   = HitsAfter(hit)
  /\ misses' = MissesAfter(hit)
  /\ beamBlocked' = Verdict(hits', misses')
  /\ UNCHANGED <<enabled, mode, boxesStopped, speedRequest, command,
                 commandDue, lineState>>

OneShotRelease(en, md) ==  \* mutant: a release is over at the first tick
  IF ~en THEN "DISABLED"
  ELSE IF beamBlocked /\ md # "RELEASED" THEN "BLOCKED" ELSE "RUNNING"

NeverClears(en, md) ==  \* mutant: only a release leaves BLOCKED
  IF ~en THEN "DISABLED"
  ELSE IF beamBlocked THEN IF md = "RELEASED" THEN md ELSE "BLOCKED"
  ELSE IF md = "BLOCKED" THEN md ELSE "RUNNING"

(* The mode a tick leaves, from the enable flag and the mode it finds. *)
NextMode(en, md) ==
  CASE ~en                                   -> "DISABLED"
    [] en /\ beamBlocked /\ md = "RELEASED" -> "RELEASED"
    [] en /\ beamBlocked /\ md # "RELEASED" -> "BLOCKED"
    [] en /\ ~beamBlocked                    -> "RUNNING"

KeepFirst(q, m) ==  \* mutant: a full queue drops the new one
  IF Len(q) < QueueDepth THEN Append(q, m) ELSE q

(* A KEEP_LAST publisher: a full queue drops its oldest message. *)
KeepLast(q, m) ==
  IF Len(q) < QueueDepth THEN Append(q, m) ELSE Append(Tail(q), m)

OnlyChanges(speed) == speed # command  \* mutant: nothing is sent twice

WorthSending(speed) == speed # command \/ commandDue

(* _send_command: on a change, and again when it is due. *)
SendCommand(speed) ==
  IF WorthSending(speed)
    THEN /\ command' = speed
         /\ commandDue' = FALSE
         /\ wire' = KeepLast(wire, speed)
    ELSE UNCHANGED <<command, commandDue, wire>>

(* _publish_state: the latched message; what changes is published at once. *)
PublishState ==
  lineState' = [mode |-> mode', enabled |-> enabled',
                beamBlocked |-> beamBlocked, beamOk |-> scansFresh,
                speedRequest |-> speedRequest, command |-> command',
                boxesStopped |-> boxesStopped']

(* The body of _on_tick, entered with the given flag and mode. *)
TickFrom(en, md) ==
  /\ enabled' = en
  /\ mode' = NextMode(en, md)
  /\ boxesStopped' = IF mode' = "BLOCKED" /\ md # "BLOCKED"
                       THEN Saturate(boxesStopped, MaxStopped)
                       ELSE boxesStopped
  /\ SendCommand(IF mode' \in Moving THEN speedRequest ELSE 0)
  /\ PublishState
  /\ UNCHANGED <<beamBlocked, hits, misses, scansFresh, speedRequest>>

OnTick == TickFrom(enabled, mode)

(* _on_set_enabled *)
OnSetEnabled(on) ==
  TickFrom(on, IF ~on THEN "DISABLED"
               ELSE IF mode = "DISABLED" THEN "RUNNING" ELSE mode)

(* _on_release; with any other mode the service only says so. *)
OnRelease ==
  /\ mode = "BLOCKED"
  /\ TickFrom(enabled, "RELEASED")

(* The clock: scans are overdue, or the command is due again. *)
ScansStop ==
  /\ scansFresh
  /\ scansFresh' = FALSE
  /\ UNCHANGED <<enabled, mode, beamBlocked, hits, misses, boxesStopped,
                 speedRequest, command, commandDue, lineState>>

CommandDue ==
  /\ command # NoCommand /\ ~commandDue
  /\ commandDue' = TRUE
  /\ UNCHANGED <<enabled, mode, beamBlocked, hits, misses, scansFresh,
                 boxesStopped, speedRequest, command, lineState>>

-----------------------------------------------------------------------------
(* The relay.                                                              *)

(* _on_target_speed *)
RelayReceive ==
  /\ wire # <<>>
  /\ beltSpeed' = Head(wire)
  /\ wire' = Tail(wire)
  /\ synced' = TRUE
  /\ UNCHANGED <<ctlVars, beamVars, relayRestarts>>

(* A new relay process: what was under way to the old one is lost, and the *)
(* rollers get initial_speed until the first command arrives.              *)
RelayRestart ==
  /\ relayRestarts < MaxRelayRestarts
  /\ relayRestarts' = relayRestarts + 1
  /\ beltSpeed' = BootSpeed
  /\ wire' = <<>>
  /\ synced' = FALSE
  /\ UNCHANGED <<ctlVars, beamVars>>

-----------------------------------------------------------------------------
(* The beam.  A box enters or leaves it only when the rollers turn, or is  *)
(* taken from it.                                                          *)

BoxEnters ==
  /\ ~beamCut /\ beltSpeed # 0
  /\ beamCut' = TRUE
  /\ UNCHANGED <<ctlVars, relayVars, lastNoisy, truthRun>>

BoxPasses ==
  /\ beamCut /\ beltSpeed # 0
  /\ beamCut' = FALSE
  /\ UNCHANGED <<ctlVars, relayVars, lastNoisy, truthRun>>

BoxTaken ==
  /\ beamCut
  /\ beamCut' = FALSE
  /\ UNCHANGED <<ctlVars, relayVars, lastNoisy, truthRun>>

(* One scan.  Where Noisy, a scan may contradict the beam, though never    *)
(* two in a row: the noise the debouncing is there for.  truthRun remembers *)
(* how the beam was at this scan and, up to 2, for how many in a row.      *)
Scan(noise) ==
  /\ noise => Noisy /\ ~lastNoisy
  /\ OnScan(beamCut # noise)
  /\ lastNoisy' = noise
  /\ truthRun' = [cut |-> beamCut,
                  len |-> IF truthRun.cut = beamCut
                            THEN Saturate(truthRun.len, 2) ELSE 1]
  /\ UNCHANGED <<relayVars, beamCut>>

-----------------------------------------------------------------------------
Init ==
  /\ enabled = StartEnabled
  /\ mode = IF StartEnabled THEN "RUNNING" ELSE "DISABLED"
  /\ beamBlocked = FALSE /\ hits = 0 /\ misses = 0 /\ scansFresh = FALSE
  /\ boxesStopped = 0
  /\ speedRequest = RunningSpeed
  /\ command = NoCommand /\ commandDue = TRUE
  /\ lineState = NoState
  /\ wire = <<>> /\ beltSpeed = BootSpeed /\ synced = FALSE
  /\ relayRestarts = 0
  /\ beamCut \in BOOLEAN
  /\ lastNoisy = FALSE
  /\ truthRun = [cut |-> beamCut, len |-> 0]

(* Callbacks that only touch the controller leave the relay's topic alone, *)
(* those that tick may publish on it.                                      *)
Request(s) == OnRequest(s) /\ UNCHANGED <<relayVars, beamVars>>
Tick       == OnTick /\ UNCHANGED <<beltSpeed, synced, relayRestarts, beamVars>>
SetEnabled(on) == /\ OnSetEnabled(on)
                  /\ UNCHANGED <<beltSpeed, synced, relayRestarts, beamVars>>
Release == OnRelease /\ UNCHANGED <<beltSpeed, synced, relayRestarts, beamVars>>
Clock   == (ScansStop \/ CommandDue) /\ UNCHANGED <<relayVars, beamVars>>

Next ==
  \/ \E s \in Speeds : Request(s)
  \/ \E noise \in BOOLEAN : Scan(noise)
  \/ \E on \in BOOLEAN : SetEnabled(on)
  \/ Release
  \/ Tick
  \/ Clock
  \/ RelayReceive
  \/ RelayRestart
  \/ BoxEnters
  \/ BoxPasses
  \/ BoxTaken

Spec == Init /\ [][Next]_vars

(* The timers fire, the sensor scans and the topic delivers; nobody has to *)
(* press a button, and no box has to move.                                 *)
Fairness ==
  /\ WF_vars(Tick)
  /\ WF_vars(\E noise \in BOOLEAN : Scan(noise))
  /\ WF_vars(CommandDue /\ UNCHANGED <<relayVars, beamVars>>)
  /\ WF_vars(RelayReceive)

FairSpec == Spec /\ Fairness

-----------------------------------------------------------------------------
LineStates ==
  [mode : Modes, enabled : BOOLEAN, beamBlocked : BOOLEAN, beamOk : BOOLEAN,
   speedRequest : Speeds, command : Speeds, boxesStopped : 0..MaxStopped]

(* Every variable has its type. *)
TypeOK ==
  /\ enabled \in BOOLEAN /\ mode \in Modes /\ beamBlocked \in BOOLEAN
  /\ hits \in 0..BlockN /\ misses \in 0..ClearN /\ scansFresh \in BOOLEAN
  /\ boxesStopped \in 0..MaxStopped
  /\ speedRequest \in Speeds
  /\ command \in Speeds \cup {NoCommand} /\ commandDue \in BOOLEAN
  /\ lineState \in LineStates \cup {NoState}
  /\ wire \in Seq(Speeds) /\ Len(wire) <= QueueDepth
  /\ beltSpeed \in Speeds /\ synced \in BOOLEAN
  /\ relayRestarts \in 0..MaxRelayRestarts
  /\ beamCut \in BOOLEAN /\ lastNoisy \in BOOLEAN
  /\ truthRun \in [cut : BOOLEAN, len : 0..2]

(* What a held line means on the rollers: while the line is BLOCKED or     *)
(* DISABLED and every command has been delivered, the rollers stand still, *)
(* whatever was requested, dropped from the queue or delivered late before. *)
(* (A restarted relay that has heard nothing yet is the one exception.)    *)
HeldBeltStands ==
  mode \notin Moving /\ command # NoCommand /\ wire = <<>> /\ synced
    => beltSpeed = 0

(* Why it does: the newest message under way is the current command, and   *)
(* so is what a relay that has caught up follows; only a mode that moves   *)
(* the belt ever commands a speed other than 0.                            *)
CommandInv ==
  /\ wire # <<>> => wire[Len(wire)] = command
  /\ wire = <<>> /\ synced => beltSpeed = command
  /\ mode \notin Moving => command \in {0, NoCommand}

(* The counters remember the reading of the last scan, which lastNoisy and *)
(* truthRun.cut make up.                                                   *)
ScanInv ==
  /\ hits > 0   => truthRun.len > 0 /\ truthRun.cut # lastNoisy
  /\ misses > 0 => truthRun.len > 0 /\ truthRun.cut = lastNoisy

IInv == TypeOK /\ CommandInv /\ ScanInv

(* The belt is never set moving against the beam: a command goes from      *)
(* stopped to moving only when the verdict is clear or the operator has    *)
(* released the box - so neither a speed request nor switching the line    *)
(* off and on lets a waiting box past the beam.                            *)
NoStartAgainstBeam ==
  [][command = 0 /\ command' # 0 => ~beamBlocked' \/ mode' = "RELEASED"]_vars

(* "A single noisy ray neither stops nor restarts the line": the verdict   *)
(* flips only if at one of the last two scans the beam really was so.      *)
NoiseNeverFlips ==
  [][beamBlocked' # beamBlocked
       => truthRun'.cut = beamBlocked' \/ truthRun'.len < 2]_vars

(* A line that stays switched on restarts by itself once the box is gone   *)
(* and the scans have become quiet.                                        *)
RestartsWhenClear ==
  <>[](enabled /\ ~beamCut /\ ~lastNoisy) => <>[](mode = "RUNNING")

(* A box that stays at the beam is held, unless it was released, once the  *)
(* scans have become quiet.                                                *)
HoldsWhenCut ==
  <>[](enabled /\ beamCut /\ ~lastNoisy)
    => <>[](mode \in {"BLOCKED", "RELEASED"})

(* The rollers follow a command that stays, also after the relay restarts. *)
BeltFollows ==
  \A s \in Speeds : <>[](command = s) => <>[](beltSpeed = s)
=============================================================================
