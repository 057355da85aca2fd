----------------------------- MODULE MCStrategy -----------------------------
(***************************************************************************)
(* Model-checking instances of Strategy: users, the guardian and the       *)
(* market act a bounded number of times.                                   *)
(***************************************************************************)
EXTENDS Strategy

CONSTANTS SaverSteps, PauseSteps, MarketSteps

VARIABLE left       \* subject -> how many more steps it may take

mcVars == <<strategyVars, left>>

MCInit ==
  /\ StrategyInit
  /\ left = [saver |-> SaverSteps, pause |-> PauseSteps, market |-> MarketSteps]

Spend(subject) == left[subject] > 0 /\ left' = [left EXCEPT ![subject] = @ - 1]

MCNext ==
  \/ SaverStep /\ Spend("saver")
  \/ PauseStep /\ Spend("pause")
  \/ MarketStep /\ Spend("market")
  \/ (EpochStep \/ YieldStep) /\ UNCHANGED left

MCSpec == MCInit /\ [][MCNext]_mcVars
=============================================================================
