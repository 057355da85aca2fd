----------------------------- MODULE BondEscrow -----------------------------
(***************************************************************************)
(* LeopoldSettlementBondEscrow.sol: the native-asset escrow of one vault.  *)
(* A participant posts a fixed bond to join a round; the bond pays a fixed *)
(* reward per participant to whoever runs each of the two settlement       *)
(* passes, and what is left is refunded once the vault finalizes the       *)
(* round.                                                                  *)
(*                                                                         *)
(* An action is one call.  A payout is the last statement of its handler,  *)
(* after every assignment, so a call nested in it by the payee sees the    *)
(* state the handler leaves: it is a later step of this module.  A call    *)
(* that reverts (checked subtraction included) is a step that is not       *)
(* enabled.                                                                *)
(***************************************************************************)
EXTENDS Integers, FiniteSets, Sums

CONSTANTS
  Rounds,                        \* round identifiers
  Accounts,                      \* addresses: participants and progressors
  BOND_AMOUNT,
  REWARD_PER_PARTICIPANT_PASS,
  MAX_FORCED                     \* bound of the model on native asset forced in

\* The constructor's InvalidConfiguration check.
ASSUME EscrowConfiguration ==
  /\ IsFiniteSet(Rounds) /\ IsFiniteSet(Accounts)
  /\ BOND_AMOUNT \in Nat
  /\ REWARD_PER_PARTICIPANT_PASS \in Nat \ {0}
  /\ BOND_AMOUNT > REWARD_PER_PARTICIPANT_PASS * 2
  /\ MAX_FORCED \in Nat

REFUND_PER_COMPLETED_PARTICIPANT == BOND_AMOUNT - REWARD_PER_PARTICIPANT_PASS * 2

VARIABLES
  ledger,                        \* _rounds: the RoundLedger of each round
  isRegistered,                  \* round -> accounts that posted its bond
  refundClaimed,                 \* round -> accounts that took its refund
  settlementRewardCredit,        \* account -> rewards it may withdraw
  totalDeposited,
  totalUnresolvedLiability,
  totalRewardLiability,
  totalRefundLiability,
  totalRewardsWithdrawn,
  totalRefundsWithdrawn,
  nativeBalance                  \* address(this).balance

escrowVars == <<ledger, isRegistered, refundClaimed, settlementRewardCredit,
                totalDeposited, totalUnresolvedLiability, totalRewardLiability,
                totalRefundLiability, totalRewardsWithdrawn,
                totalRefundsWithdrawn, nativeBalance>>

RoundLedger == [registered : Nat, selectionProcessed : Nat, allocationProcessed : Nat,
                deposited : Nat, rewardsAccrued : Nat, refundsAccrued : Nat,
                refundPerParticipant : Nat, finalized : BOOLEAN]

EmptyLedger == [registered |-> 0, selectionProcessed |-> 0, allocationProcessed |-> 0,
                deposited |-> 0, rewardsAccrued |-> 0, refundsAccrued |-> 0,
                refundPerParticipant |-> 0, finalized |-> FALSE]

\* Every mapping and counter of a fresh contract is zero.
EscrowInit ==
  /\ ledger = [r \in Rounds |-> EmptyLedger]
  /\ isRegistered = [r \in Rounds |-> {}]
  /\ refundClaimed = [r \in Rounds |-> {}]
  /\ settlementRewardCredit = [a \in Accounts |-> 0]
  /\ totalDeposited = 0
  /\ totalUnresolvedLiability = 0
  /\ totalRewardLiability = 0
  /\ totalRefundLiability = 0
  /\ totalRewardsWithdrawn = 0
  /\ totalRefundsWithdrawn = 0
  /\ nativeBalance = 0

-----------------------------------------------------------------------------
(* The calls. *)

\* registerForRound: account a posts the bond of round r.  The vault's
\* acceptBondRegistration, called last, may still revert the whole call: who
\* composes this action conjoins the vault's side.
RegisterForRound(r, a) ==
  /\ a \notin isRegistered[r]
  /\ isRegistered' = [isRegistered EXCEPT ![r] = @ \cup {a}]
  /\ ledger' = [ledger EXCEPT ![r].registered = @ + 1,
                              ![r].deposited = @ + BOND_AMOUNT]
  /\ totalDeposited' = totalDeposited + BOND_AMOUNT
  /\ totalUnresolvedLiability' = totalUnresolvedLiability + BOND_AMOUNT
  /\ nativeBalance' = nativeBalance + BOND_AMOUNT
  /\ UNCHANGED <<refundClaimed, settlementRewardCredit, totalRewardLiability,
                 totalRefundLiability, totalRewardsWithdrawn, totalRefundsWithdrawn>>

\* What a pass has processed of round r.
Processed(r, pass) ==
  IF pass = 1 THEN ledger[r].selectionProcessed ELSE ledger[r].allocationProcessed

\* Mutant: creditProgress that leaves the reward in the unresolved liability.
CreditTwice(r, pass, n, progressor) ==
  LET reward == n * REWARD_PER_PARTICIPANT_PASS
  IN  /\ n # 0
      /\ ~ledger[r].finalized
      /\ Processed(r, pass) + n <= ledger[r].registered
      /\ ledger' = [ledger EXCEPT
                      ![r].selectionProcessed = IF pass = 1 THEN @ + n ELSE @,
                      ![r].allocationProcessed = IF pass = 2 THEN @ + n ELSE @,
                      ![r].rewardsAccrued = @ + reward]
      /\ totalRewardLiability' = totalRewardLiability + reward
      /\ settlementRewardCredit' = [settlementRewardCredit EXCEPT ![progressor] = @ + reward]
      /\ UNCHANGED <<isRegistered, refundClaimed, totalDeposited, totalUnresolvedLiability,
                     totalRefundLiability, totalRewardsWithdrawn, totalRefundsWithdrawn,
                     nativeBalance>>

\* creditProgress: the vault credits progressor with n participants of a pass.
CreditProgress(r, pass, n, progressor) ==
  LET reward == n * REWARD_PER_PARTICIPANT_PASS
  IN  /\ pass \in {1, 2}
      /\ n # 0
      /\ ~ledger[r].finalized
      /\ Processed(r, pass) + n <= ledger[r].registered
      /\ totalUnresolvedLiability >= reward
      /\ ledger' = [ledger EXCEPT
                      ![r].selectionProcessed = IF pass = 1 THEN @ + n ELSE @,
                      ![r].allocationProcessed = IF pass = 2 THEN @ + n ELSE @,
                      ![r].rewardsAccrued = @ + reward]
      /\ totalUnresolvedLiability' = totalUnresolvedLiability - reward
      /\ totalRewardLiability' = totalRewardLiability + reward
      /\ settlementRewardCredit' = [settlementRewardCredit EXCEPT ![progressor] = @ + reward]
      /\ UNCHANGED <<isRegistered, refundClaimed, totalDeposited, totalRefundLiability,
                     totalRewardsWithdrawn, totalRefundsWithdrawn, nativeBalance>>

\* The passes that finalizeRound must find complete, and only those.
PassesComplete(r, passes) ==
  LET L == ledger[r]
  IN  \/ /\ passes = 0
         /\ L.selectionProcessed = 0
         /\ L.allocationProcessed = 0
      \/ /\ passes = 1
         /\ L.registered # 0
         /\ L.selectionProcessed = L.registered
         /\ L.allocationProcessed = 0
      \/ /\ passes = 2
         /\ L.registered # 0
         /\ L.selectionProcessed = L.registered
         /\ L.allocationProcessed = L.registered

\* Mutant: a single pass costs a bond as much as both.
RefundAfterAnyPass(passes) ==
  IF passes = 0 THEN BOND_AMOUNT ELSE REFUND_PER_COMPLETED_PARTICIPANT

\* What one bond still holds after that many passes.
RefundAfter(passes) ==
  IF passes = 0 THEN BOND_AMOUNT
  ELSE IF passes = 1 THEN BOND_AMOUNT - REWARD_PER_PARTICIPANT_PASS
  ELSE REFUND_PER_COMPLETED_PARTICIPANT

\* finalizeRound: the vault turns what is left of the round's bonds into refunds.
FinalizeRound(r, passes) ==
  LET refunds == ledger[r].registered * RefundAfter(passes)
  IN  /\ ~ledger[r].finalized
      /\ PassesComplete(r, passes)
      /\ totalUnresolvedLiability >= refunds
      /\ ledger' = [ledger EXCEPT ![r].refundsAccrued = refunds,
                                  ![r].refundPerParticipant = RefundAfter(passes),
                                  ![r].finalized = TRUE]
      /\ totalUnresolvedLiability' = totalUnresolvedLiability - refunds
      /\ totalRefundLiability' = totalRefundLiability + refunds
      /\ UNCHANGED <<isRegistered, refundClaimed, settlementRewardCredit, totalDeposited,
                     totalRewardLiability, totalRewardsWithdrawn, totalRefundsWithdrawn,
                     nativeBalance>>

\* claimBondRefund: a registered account of a finalized round takes its refund once.
ClaimBondRefund(r, a) ==
  LET amount == ledger[r].refundPerParticipant
  IN  /\ ledger[r].finalized
      /\ a \in isRegistered[r]
      /\ a \notin refundClaimed[r]
      /\ totalRefundLiability >= amount
      /\ nativeBalance >= amount
      /\ refundClaimed' = [refundClaimed EXCEPT ![r] = @ \cup {a}]
      /\ totalRefundLiability' = totalRefundLiability - amount
      /\ totalRefundsWithdrawn' = totalRefundsWithdrawn + amount
      /\ nativeBalance' = nativeBalance - amount
      /\ UNCHANGED <<ledger, isRegistered, settlementRewardCredit, totalDeposited,
                     totalUnresolvedLiability, totalRewardLiability, totalRewardsWithdrawn>>

\* withdrawSettlementRewards: a progressor takes all it was credited with.
WithdrawSettlementRewards(a) ==
  LET amount == settlementRewardCredit[a]
  IN  /\ amount # 0
      /\ totalRewardLiability >= amount
      /\ nativeBalance >= amount
      /\ settlementRewardCredit' = [settlementRewardCredit EXCEPT ![a] = 0]
      /\ totalRewardLiability' = totalRewardLiability - amount
      /\ totalRewardsWithdrawn' = totalRewardsWithdrawn + amount
      /\ nativeBalance' = nativeBalance - amount
      /\ UNCHANGED <<ledger, isRegistered, refundClaimed, totalDeposited,
                     totalUnresolvedLiability, totalRefundLiability, totalRefundsWithdrawn>>

\* accountedLiability
AccountedLiability == totalUnresolvedLiability + totalRewardLiability + totalRefundLiability

\* receive and fallback revert, so only a self-destructing contract can send the
\* escrow native asset: no code of it runs (external).
ForceNative(amount) ==
  /\ nativeBalance + amount <= AccountedLiability + MAX_FORCED
  /\ nativeBalance' = nativeBalance + amount
  /\ UNCHANGED <<ledger, isRegistered, refundClaimed, settlementRewardCredit, totalDeposited,
                 totalUnresolvedLiability, totalRewardLiability, totalRefundLiability,
                 totalRewardsWithdrawn, totalRefundsWithdrawn>>

-----------------------------------------------------------------------------
(***************************************************************************)
(* The escrow under the weakest vault it is safe with: a vault that may    *)
(* make its three calls in any order and with any arguments, but never     *)
(* accepts a registration for a round it has already finalized (nothing in *)
(* registerForRound itself forbids one).  LeopoldVault is shown to be such *)
(* a vault by refinement.                                                  *)
(***************************************************************************)

\* registerForRound as the vault accepts it.
Register(r, a) == ~ledger[r].finalized /\ RegisterForRound(r, a)

Credit(r, pass, a) ==
  \E n \in 1..ledger[r].registered : CreditProgress(r, pass, n, a)

EscrowCall ==
  \/ \E r \in Rounds, a \in Accounts : \/ Register(r, a)
                                      \/ Credit(r, 1, a)
                                      \/ Credit(r, 2, a)
                                      \/ ClaimBondRefund(r, a)
  \/ \E r \in Rounds : \/ FinalizeRound(r, 0)
                       \/ FinalizeRound(r, 1)
                       \/ FinalizeRound(r, 2)
  \/ \E a \in Accounts : WithdrawSettlementRewards(a)

EscrowNext == EscrowCall \/ \E amount \in 1..MAX_FORCED : ForceNative(amount)

EscrowSpec == EscrowInit /\ [][EscrowNext]_escrowVars

-----------------------------------------------------------------------------
(* Properties. *)

\* Every field of the contract keeps its type: in particular no checked
\* subtraction of registerForRound, creditProgress or finalizeRound goes
\* below zero.
EscrowTypeOK ==
  /\ ledger \in [Rounds -> RoundLedger]
  /\ isRegistered \in [Rounds -> SUBSET Accounts]
  /\ refundClaimed \in [Rounds -> SUBSET Accounts]
  /\ settlementRewardCredit \in [Accounts -> Nat]
  /\ totalDeposited \in Nat
  /\ totalUnresolvedLiability \in Nat
  /\ totalRewardLiability \in Nat
  /\ totalRefundLiability \in Nat
  /\ totalRewardsWithdrawn \in Nat
  /\ totalRefundsWithdrawn \in Nat
  /\ nativeBalance \in Nat

\* Conservation: what was ever posted is owed (accountedLiability) or was
\* paid out, and the contract holds at least what it owes.  Native asset that is
\* forced into the contract enters none of its accounts.
EveryWeiAccounted ==
  /\ nativeBalance >= AccountedLiability
  /\ totalDeposited = AccountedLiability + totalRewardsWithdrawn + totalRefundsWithdrawn

\* What the bonds of a round with ledger L still hold before it is finalized.
Unresolved(L) == IF L.finalized THEN 0 ELSE L.deposited - L.rewardsAccrued

\* What the accounts that have not claimed from a finalized round can claim.
Unclaimed(L, unpaid) ==
  IF L.finalized THEN L.refundPerParticipant * Cardinality(unpaid) ELSE 0

\* The three global liabilities are the totals of the per-round and per-account
\* ledgers: one round can never be paid with the bonds of another.
LiabilitiesAreBacked ==
  /\ totalUnresolvedLiability = Sum([r \in Rounds |-> Unresolved(ledger[r])])
  /\ totalRewardLiability = Sum(settlementRewardCredit)
  /\ totalRefundLiability =
       Sum([r \in Rounds |-> Unclaimed(ledger[r], isRegistered[r] \ refundClaimed[r])])

\* A finalized round has split its deposits into rewards and refunds without
\* remainder, whichever of the three ways of finalizeRound it took.
RoundsResolveExactly ==
  \A r \in Rounds :
    ledger[r].finalized =>
      /\ ledger[r].deposited = ledger[r].rewardsAccrued + ledger[r].refundsAccrued
      /\ ledger[r].refundsAccrued =
           ledger[r].refundPerParticipant * Cardinality(isRegistered[r])

\* The guards of checked arithmetic and of the native transfer never stop a
\* call that the contract's own checks allow: an earned refund or reward can
\* be taken in any order, and a completed round can be finalized.
PayoutsNeverBlocked ==
  /\ \A r \in Rounds : \A a \in isRegistered[r] \ refundClaimed[r] :
       ledger[r].finalized =>
         /\ totalRefundLiability >= ledger[r].refundPerParticipant
         /\ nativeBalance >= ledger[r].refundPerParticipant
  /\ \A a \in Accounts :
       /\ totalRewardLiability >= settlementRewardCredit[a]
       /\ nativeBalance >= settlementRewardCredit[a]
  /\ \A r \in Rounds, passes \in 0..2 :
       ~ledger[r].finalized /\ PassesComplete(r, passes) =>
         totalUnresolvedLiability >= ledger[r].registered * RefundAfter(passes)
=============================================================================
