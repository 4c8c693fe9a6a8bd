-------------------------- MODULE BoxFactory_proofs --------------------------
(***************************************************************************)
(* Proofs about BoxFactory, for any number of names and restarts: types,   *)
(* and that with a Gazebo that answers in time and poses that come before  *)
(* every tick, the spawn area holds one box at most and no name is used    *)
(* twice.  PromptInv says why: what the node has heard since its last tick *)
(* is all there is, and nothing appears while a creation is being asked    *)
(* for but the box it asks for.                                            *)
(***************************************************************************)
EXTENDS MCBoxFactory, FiniteSetTheorems, WellFoundedInduction, TLAPS

(* Every set of natural numbers that is not empty has a least element.     *)
LEMMA LeastNumber ==
  ASSUME NEW S \in SUBSET Nat, S # {}
  PROVE  \E n \in S : \A m \in S : n <= m
  <1>. DEFINE R == {p \in Nat \X Nat : p[1] < p[2]}
  <1>1. IsWellFoundedOn(R, Nat)
    BY NatLessThanWellFounded DEF OpToRel
  <1>2. PICK n \in S : \A m \in S : <<m, n>> \notin R
    <2>. HIDE DEF R
    <2>. QED
      BY <1>1, WFMin
  <1>3. \A m \in S : <<m, n>> \in R <=> m < n
    OBVIOUS
  <1>. HIDE DEF R
  <1>4. ASSUME NEW m \in S PROVE n <= m
    <2>1. ~(m < n) /\ m \in Nat /\ n \in Nat
      BY <1>2, <1>3
    <2>. QED
      BY <2>1
  <1>. QED
    BY <1>4

(* The next number is a name that is not taken, as long as there are some. *)
LEMMA NextNameFacts ==
  ASSUME nameCounter \in 0..MaxName, NEW taken, NamesLeft(taken)
  PROVE  NameAfter(taken) \in Names /\ NameAfter(taken) \notin taken
  <1>. DEFINE Free == {n \in Names : n > nameCounter /\ n \notin taken}
  <1>1. Free \in SUBSET Nat /\ Free # {}
    BY FactoryAssumption DEF Names, NamesLeft
  <1>2. PICK least \in Free : \A m \in Free : least <= m
    BY <1>1, LeastNumber
  <1>3. ASSUME NEW k \in (nameCounter + 1)..(least - 1) PROVE k \in taken
    <2>1. /\ nameCounter \in Nat /\ MaxName \in Nat /\ least \in 1..MaxName
          /\ k \in Int /\ nameCounter + 1 <= k /\ k <= least - 1
      BY <1>2, FactoryAssumption DEF Names
    <2>2. k \in Names /\ k > nameCounter /\ ~(least <= k)
      BY <2>1 DEF Names
    <2>. QED
      BY <1>2, <2>2
  <1>. QED
    BY <1>2, <1>3 DEF NameAfter

-----------------------------------------------------------------------------
(* A new process, however often there may be one.                          *)
NewProcess ==
  /\ enabled' \in BOOLEAN /\ wasEnabled' = FALSE
  /\ lineState' = "none" /\ lineFresh' = FALSE
  /\ linePaused' = FALSE /\ areaBlocked' = FALSE /\ spawnDue' = TRUE
  /\ nameCounter' = 0 /\ pending' = {} /\ overdue' = {} /\ announced' = {}
  /\ dropped' = {} /\ creating' = 0 /\ seen' = {} /\ seenInArea' = {} /\ posesNew' = FALSE
  /\ late' = IF Idle THEN late ELSE late \cup {creating}
  /\ UNCHANGED <<box, lineMoves>>

(* What neither a time-out nor a lagging pose has a part in.               *)
Elsewhere ==
  \/ OnLineState \/ LineSilent \/ \E on \in BOOLEAN : SetEnabled(on)
  \/ SpawnDue \/ \E n \in Names : PendingOverdue(n)
  \/ LineSwitches
World == \E n \in Names : (\E lost \in BOOLEAN : CreatedLate(n, lost)) \/ BoxMovesOn(n)

AnyStep == OnGzPoses \/ Elsewhere \/ World \/ OnTick \/ Answer \/ NewProcess
PromptStep ==
  \/ OnGzPoses \/ Elsewhere \/ World
  \/ (OnTick /\ posesNew)
  \/ CreateOk \/ CreateRefused
  \/ (NewProcess /\ Idle)

LEMMA NextIsAny == Next => AnyStep
  BY DEF Next, AnyStep, Elsewhere, World, Restart, NewProcess

LEMMA NextIsPrompt ==
  ASSUME ~MayTimeOut, ~MayLag, Next
  PROVE  PromptStep
  BY DEF Next, PromptStep, Elsewhere, World, Answer, CreateTimedOut, OnTick, Restart,
         NewProcess

LEMMA PromptIsAny == PromptStep => AnyStep
  BY DEF PromptStep, AnyStep, Answer

-----------------------------------------------------------------------------
(* Types, but for the number of restarts.                                  *)
Types ==
  /\ {enabled, wasEnabled, lineFresh, linePaused, areaBlocked, spawnDue,
      posesNew, lineMoves} \subseteq BOOLEAN
  /\ lineState \in {"none", "moves", "stands"}
  /\ nameCounter \in 0..MaxName /\ creating \in 0..MaxName
  /\ pending \subseteq Names /\ overdue \subseteq pending
  /\ announced \subseteq Names /\ dropped \subseteq Names
  /\ seen \subseteq Names /\ seenInArea \subseteq seen
  /\ box \in [Names -> {"absent", "area", "past"}]
  /\ late \subseteq Names

LEMMA InitTypes == Init => Types
  <1>1. 0 \in 0..MaxName
    BY FactoryAssumption
  <1>2. Init => box \in [Names -> {"absent", "area", "past"}]
    BY DEF Init
  <1>. QED
    BY <1>1, <1>2 DEF Init, Types

LEMMA AppearFacts ==
  ASSUME Types, NEW n \in Names, Appear(n)
  PROVE  /\ box' \in [Names -> {"absent", "area", "past"}]
         /\ Created \subseteq Created' /\ Created' \subseteq Created \cup {n}
         /\ InArea' \subseteq InArea \cup {n}
  BY DEF Types, Appear, Created, InArea

LEMMA TickFacts ==
  ASSUME Types, OnTick
  PROVE  /\ Types' /\ creating = 0 /\ UNCHANGED <<box, late>> /\ posesNew' = FALSE
         /\ creating' # 0 => seenInArea = {} /\ creating' \notin seen
  <1>. DEFINE Asks == WantsBox /\ ~SpawnAreaBlocked /\ NamesLeft(seen \cup pending')
  <1>1. 0 \notin Names /\ 0 \in 0..MaxName /\ Names \subseteq 0..MaxName
    BY FactoryAssumption DEF Names
  <1>2. /\ creating = 0 /\ UNCHANGED <<box, late, lineMoves, seen, seenInArea, enabled>>
        /\ UNCHANGED <<lineState, lineFresh>> /\ posesNew' = FALSE
    BY DEF OnTick, Idle, worldVars, lineVars
  <1>3. CASE Asks
    <2>1. nameCounter' = NameAfter(seen \cup pending') /\ creating' = nameCounter'
      BY <1>3 DEF OnTick, AskForBox
    <2>2. creating' \in Names /\ creating' \notin seen
      BY <1>3, <2>1, NextNameFacts DEF Types
    <2>3. seenInArea = {}
      BY <1>3 DEF SpawnAreaBlocked
    <2>. HIDE DEF Asks
    <2>4. nameCounter' \in 0..MaxName /\ creating' \in 0..MaxName
      BY <1>1, <2>1, <2>2
    <2>5. Types'
      BY <1>2, <2>4 DEF OnTick, ConfirmPending, Types, DueAtTick, LineAllowsSpawn,
                        SpawnAreaBlocked
    <2>. QED
      BY <1>2, <2>2, <2>3, <2>5
  <1>4. CASE ~Asks
    <2>1. UNCHANGED <<nameCounter, creating>>
      BY <1>4 DEF OnTick
    <2>. HIDE DEF Asks
    <2>2. Types'
      BY <1>2, <2>1 DEF OnTick, ConfirmPending, Types, DueAtTick, LineAllowsSpawn,
                        SpawnAreaBlocked
    <2>. QED
      BY <1>2, <2>1, <2>2
  <1>. QED
    BY <1>3, <1>4

LEMMA StepTypes ==
  ASSUME Types, AnyStep \/ UNCHANGED vars
  PROVE  Types'
  <1>. USE DEF lineVars, tickVars, boxVars, seenVars, worldVars
  <1>1. 0 \in 0..MaxName /\ Names \subseteq 0..MaxName
    BY FactoryAssumption DEF Names
  <1>2. CASE OnGzPoses
    BY <1>2 DEF OnGzPoses, Types, Created, InArea
  <1>3. CASE Elsewhere
    BY <1>3 DEF Elsewhere, OnLineState, LineSilent, SetEnabled, SpawnDue, PendingOverdue,
                LineSwitches, Types
  <1>4. ASSUME NEW n \in Names, NEW lost \in BOOLEAN, CreatedLate(n, lost) PROVE Types'
    <2>1. box' \in [Names -> {"absent", "area", "past"}]
      BY <1>4, AppearFacts DEF CreatedLate, Types
    <2>. QED
      BY <1>4, <2>1 DEF CreatedLate, Types
  <1>5. ASSUME NEW n \in Names, BoxMovesOn(n) PROVE Types'
    BY <1>5 DEF BoxMovesOn, Types
  <1>6. ASSUME Answer PROVE Types'
    <2>1. creating \in Names
      BY <1>6, FactoryAssumption
      DEF Answer, CreateOk, CreateRefused, CreateTimedOut, Idle, Types, Names
    <2>2. CASE CreateOk
      BY <1>1, <2>1, <2>2, AppearFacts DEF CreateOk, Answered, Types
    <2>3. CASE CreateRefused \/ CreateTimedOut
      BY <1>1, <2>1, <2>3 DEF CreateRefused, CreateTimedOut, Answered, Types
    <2>. QED
      BY <1>6, <2>2, <2>3 DEF Answer
  <1>7. CASE NewProcess
    <2>1. ~Idle => creating \in Names
      BY FactoryAssumption DEF Idle, Types, Names
    <2>. QED
      BY <1>1, <1>7, <2>1 DEF NewProcess, Types
  <1>8. CASE UNCHANGED vars
    BY <1>8 DEF vars, Types
  <1>. QED
    BY <1>2, <1>3, <1>4, <1>5, <1>6, <1>7, <1>8, TickFacts DEF AnyStep, World

(* Types, as TypeOK states them.                                           *)
THEOREM TypeCorrect == Spec => []TypeOK
  <1>. DEFINE Count == restarts \in 0..MaxRestarts
  <1>1. Init => Types /\ Count
    BY InitTypes, FactoryAssumption DEF Init
  <1>2. Types /\ Count /\ [Next]_vars => Types' /\ Count'
    <2>. SUFFICES ASSUME Types, Count, [Next]_vars PROVE Types' /\ Count'
      OBVIOUS
    <2>1. Types'
      BY NextIsAny, StepTypes
    <2>2. CASE Restart
      <3>1. restarts' = restarts + 1 /\ restarts < MaxRestarts /\ MaxRestarts \in Nat
        BY <2>2, FactoryAssumption DEF Restart
      <3>2. Count'
        BY <3>1
      <3>. QED
        BY <2>1, <3>2
    <2>3. CASE restarts' = restarts
      BY <2>1, <2>3
    <2>4. Restart \/ restarts' = restarts
      BY DEF Next, vars, OnGzPoses, OnLineState, LineSilent, SetEnabled, SpawnDue,
             PendingOverdue, OnTick, Answer, CreateOk, CreateRefused, CreateTimedOut,
             CreatedLate, BoxMovesOn, LineSwitches
    <2>. HIDE DEF Count
    <2>. QED
      BY <2>1, <2>2, <2>3, <2>4
  <1>3. Types /\ Count => TypeOK
    BY DEF Types, TypeOK
  <1>. HIDE DEF Count
  <1>. QED
    BY <1>1, <1>2, <1>3, PTL DEF Spec

-----------------------------------------------------------------------------
(* Since a pose message nothing has appeared that is not in it, and while  *)
(* a box is asked for the area is empty and its name is free.              *)
OneAtMost == \A m, n \in InArea : m = n
PromptInv ==
  /\ late = {}
  /\ posesNew => Created \subseteq seen /\ InArea \subseteq seenInArea
  /\ creating # 0 => InArea = {} /\ creating \notin Created
  /\ OneAtMost

LEMMA InitPrompt == Init => PromptInv
  BY DEF Init, PromptInv, OneAtMost, InArea

LEMMA PromptKept ==
  ASSUME Types, PromptInv, PromptStep \/ UNCHANGED vars
  PROVE  PromptInv'
  <1>. USE DEF lineVars, tickVars, boxVars, seenVars, worldVars
  <1>1. ASSUME UNCHANGED <<box, late, creating, posesNew, seen, seenInArea>>
        PROVE  PromptInv'
    BY <1>1 DEF PromptInv, OneAtMost, Created, InArea
  <1>2. CASE OnGzPoses
    BY <1>2 DEF OnGzPoses, PromptInv, OneAtMost, Created, InArea
  <1>3. CASE Elsewhere
    <2>1. UNCHANGED <<box, late, creating, posesNew, seen, seenInArea>>
      BY <1>3 DEF Elsewhere, OnLineState, LineSilent, SetEnabled, SpawnDue,
                  PendingOverdue, LineSwitches
    <2>. QED
      BY <1>1, <2>1
  <1>4. ASSUME NEW n \in Names, BoxMovesOn(n) PROVE PromptInv'
    <2>1. Created' = Created /\ InArea' \subseteq InArea
      BY <1>4 DEF BoxMovesOn, Created, InArea, Types
    <2>2. UNCHANGED <<late, creating, posesNew, seen, seenInArea>>
      BY <1>4 DEF BoxMovesOn
    <2>. QED
      BY <2>1, <2>2 DEF PromptInv, OneAtMost
  <1>5. CASE World
    BY <1>4, <1>5 DEF World, CreatedLate, PromptInv
  <1>6. CASE OnTick /\ posesNew
    <2>1. InArea' = InArea /\ Created' = Created
      BY <1>6, TickFacts DEF InArea, Created
    <2>. QED
      BY <1>6, <2>1, TickFacts DEF PromptInv, OneAtMost
  <1>7. CASE CreateOk
    <2>1. creating # 0 /\ creating \in Names
      BY <1>7, FactoryAssumption DEF CreateOk, Idle, Types, Names
    <2>2. InArea' \subseteq {creating}
      BY <1>7, <2>1, AppearFacts DEF CreateOk, PromptInv
    <2>3. creating' = 0 /\ posesNew' = FALSE /\ late' = late
      BY <1>7 DEF CreateOk, Answered
    <2>. QED
      BY <2>2, <2>3 DEF PromptInv, OneAtMost
  <1>8. CASE CreateRefused \/ (NewProcess /\ Idle)
    <2>1. /\ creating' = 0 /\ posesNew' = FALSE /\ late' = late
          /\ InArea' = InArea
      BY <1>8 DEF CreateRefused, NewProcess, Answered, InArea
    <2>. QED
      BY <2>1 DEF PromptInv, OneAtMost
  <1>9. CASE UNCHANGED vars
    BY <1>1, <1>9 DEF vars
  <1>. QED
    BY <1>2, <1>3, <1>5, <1>6, <1>7, <1>8, <1>9 DEF PromptStep

(* A set without two different members has at most one.                    *)
LEMMA PromptFacts ==
  ASSUME PromptInv
  PROVE  NoStacking /\ NameIsNew
  <1>1. NameIsNew
    <2>1. 0 \notin Created
      BY FactoryAssumption DEF Created, Names
    <2>. QED
      BY <2>1 DEF PromptInv, NameIsNew
  <1>2. CASE InArea = {}
    BY <1>1, <1>2, FS_EmptySet DEF NoStacking
  <1>3. ASSUME NEW n \in InArea PROVE NoStacking
    <2>1. InArea = {n}
      BY <1>3 DEF PromptInv, OneAtMost
    <2>2. Cardinality({n}) = 1
      BY FS_Singleton
    <2>. QED
      BY <2>1, <2>2 DEF NoStacking
  <1>. QED
    BY <1>1, <1>2, <1>3

(* With a prompt Gazebo and poses before every tick two boxes are never in *)
(* the spawn area and no name is asked for that is in the world.           *)
THEOREM SpawnsOneAtATime ==
  ~MayTimeOut /\ ~MayLag => (Spec => [](NoStacking /\ NameIsNew))
  <1>. SUFFICES ASSUME ~MayTimeOut, ~MayLag
                PROVE  Spec => [](NoStacking /\ NameIsNew)
    OBVIOUS
  <1>1. Init => Types /\ PromptInv
    BY InitTypes, InitPrompt
  <1>2. Types /\ PromptInv /\ [Next]_vars => Types' /\ PromptInv'
    BY NextIsAny, NextIsPrompt, StepTypes, PromptKept
  <1>3. PromptInv => NoStacking /\ NameIsNew
    BY PromptFacts
  <1>. QED
    BY <1>1, <1>2, <1>3, PTL DEF Spec

(* The prompt setting of the checked instance only makes prompt steps.     *)
LEMMA PromptSteps ==
  ASSUME Prompt!Next
  PROVE  PromptStep
  <1>. USE DEF Prompt!lineVars, Prompt!tickVars, Prompt!boxVars, Prompt!seenVars,
               Prompt!worldVars, lineVars, tickVars, boxVars, seenVars, worldVars
  <1>1. /\ Prompt!Names = Names /\ Prompt!Created = Created /\ Prompt!InArea = InArea
        /\ Prompt!Idle <=> Idle
    BY DEF Prompt!Names, Names, Prompt!Created, Created, Prompt!InArea, InArea,
           Prompt!Idle, Idle
  <1>2. CASE Prompt!OnGzPoses
    BY <1>1, <1>2 DEF Prompt!OnGzPoses, OnGzPoses, PromptStep
  <1>3. ASSUME \/ Prompt!OnLineState \/ Prompt!LineSilent
               \/ \E on \in BOOLEAN : Prompt!SetEnabled(on)
               \/ Prompt!SpawnDue \/ \E n \in Names : Prompt!PendingOverdue(n)
               \/ Prompt!LineSwitches
        PROVE  Elsewhere
    BY <1>1, <1>3
    DEF Elsewhere, Prompt!OnLineState, Prompt!LineSilent, Prompt!SetEnabled,
        Prompt!SpawnDue, Prompt!PendingOverdue, Prompt!LineSwitches, OnLineState,
        LineSilent, SetEnabled, SpawnDue, PendingOverdue, LineSwitches
  <1>4. ASSUME NEW n \in Names, NEW lost \in BOOLEAN,
               Prompt!CreatedLate(n, lost) \/ Prompt!BoxMovesOn(n)
        PROVE  CreatedLate(n, lost) \/ BoxMovesOn(n)
    BY <1>4 DEF Prompt!CreatedLate, Prompt!BoxMovesOn, Prompt!Appear, CreatedLate,
                BoxMovesOn, Appear
  <1>5. CASE Prompt!OnTick
    BY <1>1, <1>5
    DEF Prompt!OnTick, Prompt!LineAllowsSpawn, Prompt!SpawnAreaBlocked,
        Prompt!ConfirmPending, Prompt!DueAtTick, Prompt!WantsBox, Prompt!NamesLeft,
        Prompt!AskForBox, Prompt!NameAfter, OnTick, LineAllowsSpawn, SpawnAreaBlocked,
        ConfirmPending, DueAtTick, WantsBox, NamesLeft, AskForBox, NameAfter, PromptStep
  <1>6. CASE Prompt!Answer
    BY <1>1, <1>6
    DEF Prompt!Answer, Prompt!CreateOk, Prompt!CreateRefused, Prompt!CreateTimedOut,
        Prompt!Answered, Prompt!Appear, CreateOk, CreateRefused, Answered, Appear,
        PromptStep
  <1>7. CASE Prompt!Restart
    BY <1>1, <1>7 DEF Prompt!Restart, NewProcess, PromptStep
  <1>. QED
    BY <1>1, <1>2, <1>3, <1>4, <1>5, <1>6, <1>7 DEF Prompt!Next, PromptStep, World

(* So it is in the prompt setting of the checked instances, of any size.   *)
THEOREM SpawnsOneWhenPrompt == MCSpec => []SpawnsWhenPrompt
  <1>. DEFINE Inv == Types /\ (setting = "prompt" => PromptInv)
  <1>1. MCInit => Inv
    BY InitTypes, InitPrompt DEF MCInit
  <1>2. Inv /\ [MCNext]_<<vars, setting>> => Inv'
    <2>. SUFFICES ASSUME Inv, [MCNext]_<<vars, setting>> PROVE Inv'
      OBVIOUS
    <2>1. setting' = setting
      BY DEF MCNext
    <2>2. AnyStep \/ UNCHANGED vars
      BY PromptSteps, PromptIsAny, NextIsAny DEF MCNext
    <2>3. setting = "prompt" => PromptStep \/ UNCHANGED vars
      BY PromptSteps DEF MCNext
    <2>. QED
      BY <2>1, <2>2, <2>3, StepTypes, PromptKept
  <1>3. Inv => SpawnsWhenPrompt
    BY PromptFacts DEF SpawnsWhenPrompt
  <1>. HIDE DEF Inv
  <1>. QED
    BY <1>1, <1>2, <1>3, PTL DEF MCSpec
=============================================================================
