-------------------------- MODULE MCPickPlaceDemo --------------------------
(***************************************************************************)
(* Instances of PickPlaceDemo for TLC: two place nodes, and the node the   *)
(* arm inspects from is its home, as in the code.  Every behaviour runs in *)
(* one of two settings: "faulty", the faults the configuration allows, or  *)
(* "prompt", a gripper that answers in time and is empty at the start,     *)
(* any order of the place nodes, no drive home at the start, and one       *)
(* operator call less.                                                     *)
(***************************************************************************)
EXTENDS PickPlaceDemo

VARIABLE setting

MCPlaceNodes == <<"2", "3">>

Prompt == INSTANCE PickPlaceDemo
            WITH MayTimeOut <- FALSE, MayHoldAtStart <- FALSE,
                 RoundRobin <- FALSE, GoHomeOnStart <- FALSE,
                 MaxOps <- MaxOps - 1

MCInit == \/ Init /\ setting = "faulty"
          \/ Prompt!Init /\ setting = "prompt"

MCNext ==
  /\ IF setting = "prompt" THEN Prompt!Next ELSE Next
  /\ UNCHANGED setting

(* As Fairness, of the steps the setting allows.                           *)
MCFairness ==
  /\ OthersFair
  /\ WF_vars(IF setting = "prompt" THEN Prompt!Worker ELSE Worker)

MCSpec == MCInit /\ [][MCNext]_<<vars, setting>> /\ MCFairness

(* With a prompt gripper: what is counted is placed (CountedIsPlaced), a   *)
(* pick starts empty-handed (PickStartsEmpty), a restart that is through   *)
(* without an error has dropped everything (RestartDrops) ...              *)
CyclesWhenPrompt == setting = "prompt" => CountedIsPlaced /\ PickStartsEmpty
DropsWhenPrompt ==
  [][setting = "prompt" /\ pc = "rsHome" /\ pc' = "top" /\ ~error'
       => held = {}]_vars

(* ... a restart request is served, and no cycle hangs.                    *)
ServedWhenPrompt == setting = "prompt" => RestartServed
PlacedWhenPrompt == setting = "prompt" => EveryBoxIsPlaced
=============================================================================
