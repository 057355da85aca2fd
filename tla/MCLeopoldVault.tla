--------------------------- MODULE MCLeopoldVault ---------------------------
(***************************************************************************)
(* Model-checking instances of LeopoldVault.  Each instance bounds how     *)
(* often users act on each subject (BalanceSteps, RegistrationSteps, ...); *)
(* the transactions that close and settle rounds are not bounded.          *)
(***************************************************************************)
EXTENDS LeopoldVault, TLC

CONSTANTS BalanceSteps, RegistrationSteps, PrizeSteps, WinningsSteps, PreferenceSteps,
          PayoutSteps

VARIABLE left       \* subject -> how many more steps users may take on it

mcVars == <<vars, left>>

MCInit ==
  /\ Init
  /\ left = [balance |-> BalanceSteps, registration |-> RegistrationSteps,
             prize |-> PrizeSteps, winnings |-> WinningsSteps,
             preference |-> PreferenceSteps, payout |-> PayoutSteps]

Spend(subject) == left[subject] > 0 /\ left' = [left EXCEPT ![subject] = @ - 1]

MCNext ==
  \/ BalanceStep /\ Spend("balance")
  \/ RegistrationStep /\ Spend("registration")
  \/ PrizeStep /\ Spend("prize")
  \/ WinningsStep /\ Spend("winnings")
  \/ PreferenceStep /\ Spend("preference")
  \/ EscrowPayout /\ Spend("payout")
  \/ (Tick \/ CloseRound \/ \E r \in RoundIds : SettlementStep(r)) /\ UNCHANGED left

MCSpec == MCInit /\ [][MCNext]_mcVars

\* LiveSpec with the users' steps bounded.
MCLiveSpec == MCSpec /\ Fairness

Symmetry == Permutations(Savers)
=============================================================================
