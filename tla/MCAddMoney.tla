----------------------------- MODULE MCAddMoney -----------------------------
(***************************************************************************)
(* Instances of AddMoney, with a bounded number of faults.                 *)
(***************************************************************************)
EXTENDS AddMoney

CONSTANTS MaxFaults, MaxSubmits

VARIABLES faults, submits

\* Enough USDC for one amount of each kind, and something to withdraw and to claim.
MCLedger ==
  [usdc |-> 2, allowance |-> 0, wrapped |-> 0, savings |-> 1, winnings |-> 1, requested |-> 0,
   credit |-> 1, auto |-> FALSE, refund |-> 1, reward |-> 1]

mcVars == <<vars, faults, submits>>

MCInit == Init /\ faults = 0 /\ submits = 0

MCNext ==
  \/ Fault /\ faults < MaxFaults /\ faults' = faults + 1 /\ UNCHANGED submits
  \/ UserStep /\ submits < MaxSubmits /\ submits' = submits + 1 /\ UNCHANGED faults
  \/ (PageStep \/ ChainStep) /\ UNCHANGED <<faults, submits>>

MCSpec == MCInit /\ [][MCNext]_mcVars
MCLiveSpec == MCSpec /\ Fairness
=============================================================================
