------------------------------ MODULE MCKeeper ------------------------------
(***************************************************************************)
(* The model-checking instance of Keeper: a piece of a round's lifecycle,  *)
(* and in each behaviour a bounded number of faults, of actions by other   *)
(* callers and of rounds that expire, each and together.                   *)
(***************************************************************************)
EXTENDS Keeper

CONSTANTS FaultSteps, ExternalSteps, DueSteps, AllSteps

VARIABLE left       \* how many more faults and calls of others there may be

mcVars == <<keeperVars, left>>

\* A rejected candidate and its replacement, two positions of the same state,
\* and of what follows only the allocation.
Redraw ==
  <<[required |-> "generate", call |-> "generate", proof |-> FALSE, needsOpen |-> FALSE],
    [required |-> "validity", call |-> "validity", proof |-> TRUE, needsOpen |-> FALSE],
    [required |-> "generate", call |-> "generate", proof |-> FALSE, needsOpen |-> FALSE],
    [required |-> "allocation", call |-> "allocation", proof |-> FALSE, needsOpen |-> TRUE]>>

\* What may still happen, and how much of it in one behaviour.
MCInit == KeeperInit /\ left = [fault |-> FaultSteps, external |-> ExternalSteps, due |-> DueSteps, all |-> AllSteps]

Spend(subject) ==
  /\ left[subject] > 0 /\ left["all"] > 0
  /\ left' = [left EXCEPT ![subject] = @ - 1, !["all"] = @ - 1]

MCNext ==
  \/ FaultStep /\ Spend("fault")
  \/ MineExternal /\ Spend("external")
  \/ MineDue /\ Spend("due")
  \/ (RunStep \/ MineEmpty \/ MineKeeper \/ Reappear \/ Age) /\ UNCHANGED left

MCSpec == MCInit /\ [][MCNext]_mcVars

MCLiveSpec == MCSpec /\ KeeperFairness
=============================================================================
