---------------------------- MODULE LeopoldVault ----------------------------
(***************************************************************************)
(* LeopoldVault.sol: savers' principal, time-weighted eligibility, rounds, *)
(* the private draw and its settlement, composed with the bond escrow      *)
(* (BondEscrow) that the vault creates and calls.                          *)
(*                                                                         *)
(* An action is one transaction.  Encrypted quantities are modelled by     *)
(* their cleartexts: an FHE operation is the operation, a select is an IF, *)
(* and a subtraction, which on ciphertexts wraps silently, is integer      *)
(* subtraction; VaultSolvent says that none ever goes below zero, so none  *)
(* wraps.  A public-decryption proof is authentic for the handle it was    *)
(* made for (FHE.checkSignatures, external).                               *)
(*                                                                         *)
(* The strategy's only trace here is the yield that harvestStrategyYield   *)
(* wraps into the vault.                                                   *)
(***************************************************************************)
EXTENDS BondEscrow, Sequences

CONSTANTS
  MAX_POOL_BASE_UNITS,
  ROUND_DURATION,
  FIRST_ROUND_OPENS_AT,
  RANDOM_DOMAIN,       \* 2^128: the number of values FHE.randEuint128 can take
  MAX_AGGREGATE_TWAB,
  MAX_CHUNK,           \* MAX_SELECTION_CHUNK = MAX_ALLOCATION_CHUNK
  Savers,              \* the addresses that save and take part in rounds
  Progressors,         \* the addresses that run the settlement passes
  Amounts,             \* amounts users and sponsors ask for
  DecryptionFaults,    \* TRUE: a reconciliation may be attested as failed
  MAX_TIME, MAX_ATTEMPTS, MAX_YIELD    \* bounds of the model

RoundIds == Rounds
MAX_ROUND == Cardinality(Rounds)

ASSUME VaultConfiguration ==
  /\ Rounds = 1..MAX_ROUND /\ 1 \in Rounds
  /\ MAX_POOL_BASE_UNITS \in Nat
  /\ ROUND_DURATION \in Nat \ {0}
  /\ FIRST_ROUND_OPENS_AT \in Nat \ {0}
  /\ MAX_AGGREGATE_TWAB \in Nat /\ RANDOM_DOMAIN \in Nat
  /\ MAX_AGGREGATE_TWAB <= RANDOM_DOMAIN
  /\ MAX_POOL_BASE_UNITS * ROUND_DURATION <= MAX_AGGREGATE_TWAB
  /\ MAX_CHUNK \in Nat \ {0}
  /\ Savers \subseteq Accounts /\ Progressors \subseteq Accounts
  /\ Amounts \subseteq Nat
  /\ DecryptionFaults \in BOOLEAN
  /\ {MAX_TIME, MAX_ATTEMPTS, MAX_YIELD} \subseteq Nat

VARIABLES
  now,                     \* block.timestamp
  activeRoundId,
  round,                   \* _rounds
  participants,            \* _roundParticipants
  eligibilityStart,        \* round -> account -> timestamp, 0 if not registered
  observations,            \* account -> balance checkpoints
  preferenceObservations,  \* account -> auto-save preference checkpoints
  principal,
  winnings,
  winnerPredicate,         \* round -> accounts whose encrypted predicate is true
  validityProofs,          \* round -> the published verdict on each candidate
  totalPrincipal,
  liquidPrincipal,
  liquidPrizeAssets,
  realizedSurplus,
  reservedPrize,
  winningsLiability,
  sponsoredPrize,          \* round -> encrypted sponsored amount
  publicSponsoredPrize,    \* round -> the same, public
  uncommittedYield,
  publicUncommittedYield,
  assetBalance             \* the vault's balance of the confidential asset

roundVars == <<activeRoundId, round, participants, eligibilityStart, winnerPredicate,
               validityProofs>>
saverVars == <<observations, principal, totalPrincipal, liquidPrincipal>>
prizeVars == <<liquidPrizeAssets, realizedSurplus, reservedPrize, winningsLiability, winnings,
               sponsoredPrize, publicSponsoredPrize, uncommittedYield,
               publicUncommittedYield>>
vaultVars == <<now, roundVars, saverVars, prizeVars, preferenceObservations, assetBalance>>
vars == <<vaultVars, escrowVars>>

\* RoundState, without the declared but never assigned values.
RoundState == {"UNINITIALIZED", "OPEN", "AGGREGATE_PENDING", "AGGREGATE_FINALIZED", "EMPTY",
               "CANDIDATE_VALIDITY_PENDING", "CANDIDATE_REJECTED", "TICKET_ACCEPTED",
               "WINNER_PROCESSING", "RECONCILIATION_PENDING", "RECONCILIATION_FAILED",
               "READY_TO_ALLOCATE", "ALLOCATION_PROCESSING", "WINNINGS_ALLOCATED", "SETTLED"}

Round == [opensAt : Nat, closesAt : Nat, state : RoundState,
          aggregateTwab : Nat, publicAggregateTwab : Nat, publicPrize : Nat,
          reservedPrize : Nat, candidate : Nat, acceptedTicket : Nat,
          participantCountSnapshot : Nat, selectionCursor : Nat, allocationCursor : Nat,
          selectionCumulative : Nat, encryptedWinnerCount : Nat,
          reconciliationValid : BOOLEAN,
          eligibleBalance : Nat, eligibleCumulative : Nat, eligibleTimestamp : Nat]

UninitializedRound ==
  [opensAt |-> 0, closesAt |-> 0, state |-> "UNINITIALIZED",
   aggregateTwab |-> 0, publicAggregateTwab |-> 0, publicPrize |-> 0,
   reservedPrize |-> 0, candidate |-> 0, acceptedTicket |-> 0,
   participantCountSnapshot |-> 0, selectionCursor |-> 0, allocationCursor |-> 0,
   selectionCumulative |-> 0, encryptedWinnerCount |-> 0, reconciliationValid |-> FALSE,
   eligibleBalance |-> 0, eligibleCumulative |-> 0, eligibleTimestamp |-> 0]

\* _initializeRound
InitializeRound(opensAt) ==
  [UninitializedRound EXCEPT !.opensAt = opensAt,
                             !.closesAt = opensAt + ROUND_DURATION,
                             !.state = "OPEN",
                             !.eligibleTimestamp = opensAt]

\* The constructor: every total zero, round 1 open.  The contract is deployed
\* no later than the opening of its first round.
Init ==
  /\ EscrowInit
  /\ now = FIRST_ROUND_OPENS_AT
  /\ activeRoundId = 1
  /\ round = [r \in RoundIds |-> IF r = 1 THEN InitializeRound(FIRST_ROUND_OPENS_AT)
                                 ELSE UninitializedRound]
  /\ participants = [r \in RoundIds |-> <<>>]
  /\ eligibilityStart = [r \in RoundIds |-> [a \in Accounts |-> 0]]
  /\ observations = [a \in Accounts |-> <<>>]
  /\ preferenceObservations = [a \in Accounts |-> <<>>]
  /\ principal = [a \in Accounts |-> 0]
  /\ winnings = [a \in Accounts |-> 0]
  /\ winnerPredicate = [r \in RoundIds |-> {}]
  /\ validityProofs = [r \in RoundIds |-> <<>>]
  /\ totalPrincipal = 0
  /\ liquidPrincipal = 0
  /\ liquidPrizeAssets = 0
  /\ realizedSurplus = 0
  /\ reservedPrize = 0
  /\ winningsLiability = 0
  /\ sponsoredPrize = [r \in RoundIds |-> 0]
  /\ publicSponsoredPrize = [r \in RoundIds |-> 0]
  /\ uncommittedYield = 0
  /\ publicUncommittedYield = 0
  /\ assetBalance = 0

-----------------------------------------------------------------------------
(* Time-weighted balances. *)

Last(s) == s[Len(s)]

\* _isActiveRoundOpen
IsActiveRoundOpen ==
  LET R == round[activeRoundId]
  IN  R.state = "OPEN" /\ now >= R.opensAt /\ now < R.closesAt

\* _accrueEligible
AccrueEligible(R, timestamp) ==
  [R EXCEPT !.eligibleCumulative = @ + R.eligibleBalance * (timestamp - R.eligibleTimestamp),
            !.eligibleTimestamp = timestamp]

\* The active round after an accrual to now and a change of its eligible balance.
Accrued(delta) ==
  LET R == AccrueEligible(round[activeRoundId], now)
  IN  [round EXCEPT ![activeRoundId] = [R EXCEPT !.eligibleBalance = @ + delta]]

\* _checkpointUser: obs with balance newBalance from timestamp on.
CheckpointUser(obs, newBalance, timestamp) ==
  IF obs = <<>>
  THEN <<[timestamp |-> timestamp, balance |-> newBalance, cumulative |-> 0]>>
  ELSE LET previous == Last(obs)
           elapsed == timestamp - previous.timestamp
       IN  IF elapsed = 0
           THEN [obs EXCEPT ![Len(obs)] = [previous EXCEPT !.balance = newBalance]]
           ELSE Append(obs, [timestamp |-> timestamp,
                             balance |-> newBalance,
                             cumulative |-> previous.cumulative + previous.balance * elapsed])

\* The last of obs at or before timestamp: what the binary search of
\* _cumulativeAt finds, as module CheckpointSearch shows for checkpoints in
\* strictly increasing order (CheckpointsOrdered).
LatestAt(obs, timestamp) ==
  CHOOSE i \in DOMAIN obs :
    /\ obs[i].timestamp <= timestamp
    /\ \A j \in DOMAIN obs : j > i => obs[j].timestamp > timestamp

\* _cumulativeAt
CumulativeAt(obs, timestamp) ==
  IF obs = <<>> THEN 0
  ELSE IF timestamp < obs[1].timestamp THEN 0
  ELSE LET o == obs[LatestAt(obs, timestamp)]
       IN  o.cumulative + o.balance * (timestamp - o.timestamp)

\* Mutant: _roundWeight up to the current block instead of closesAt.
RoundWeightToDate(r, a) ==
  CumulativeAt(observations[a], now) - CumulativeAt(observations[a], eligibilityStart[r][a])

\* _roundWeight, and what materializeMyRoundWeight shows an account.
RoundWeight(r, a) ==
  CumulativeAt(observations[a], round[r].closesAt)
    - CumulativeAt(observations[a], eligibilityStart[r][a])

\* Mutant: _preferenceAt that counts a preference set at the closing time.
PreferenceAtClose(prefs, timestamp) ==
  IF prefs = <<>> THEN FALSE
  ELSE IF timestamp < prefs[1].timestamp THEN FALSE
  ELSE prefs[LatestAt(prefs, timestamp)].autoSave

\* _preferenceAt: TRUE is AUTO_SAVE.  A preference counts for a round only if
\* it was set strictly before the round closed.
PreferenceAt(prefs, timestamp) ==
  IF prefs = <<>> THEN FALSE
  ELSE IF timestamp <= prefs[1].timestamp THEN FALSE
  ELSE prefs[LatestAt(prefs, timestamp - 1)].autoSave

-----------------------------------------------------------------------------
(* Savers and sponsors. *)

\* Mutant: acceptBondRegistration without the check of the active round.
RegisterParticipantAnyRound(r, a) ==
  /\ IsActiveRoundOpen
  /\ eligibilityStart[r][a] = 0
  /\ RegisterForRound(r, a)
  /\ eligibilityStart' = [eligibilityStart EXCEPT ![r][a] = now]
  /\ participants' = [participants EXCEPT ![r] = Append(@, a)]
  /\ round' = Accrued(principal[a])
  /\ UNCHANGED <<now, activeRoundId, winnerPredicate, validityProofs, saverVars, prizeVars,
                 preferenceObservations, assetBalance>>

\* registerForRound of the escrow with the vault's acceptBondRegistration.
RegisterParticipant(r, a) ==
  /\ r = activeRoundId
  /\ IsActiveRoundOpen
  /\ eligibilityStart[r][a] = 0
  /\ RegisterForRound(r, a)
  /\ eligibilityStart' = [eligibilityStart EXCEPT ![r][a] = now]
  /\ participants' = [participants EXCEPT ![r] = Append(@, a)]
  /\ round' = Accrued(principal[a])
  /\ UNCHANGED <<now, activeRoundId, winnerPredicate, validityProofs, saverVars, prizeVars,
                 preferenceObservations, assetBalance>>

\* Mutant: the eligible balance moves with unregistered accounts too.
EligibleForAll(a, delta) == Accrued(delta)

\* The eligible balance moves with the balance of an account registered in
\* the active round.
EligibleAfter(a, delta) ==
  IF eligibilityStart[activeRoundId][a] # 0 THEN Accrued(delta) ELSE round

\* onConfidentialTransferReceived: the callback of a transfer of amount to the
\* vault.  What it does not accept, the asset returns to the sender.
Deposit(a, amount) ==
  LET accepted == amount <= MAX_POOL_BASE_UNITS - totalPrincipal /\ amount > 0
      acceptedAmount == IF accepted THEN amount ELSE 0
      newUserBalance == principal[a] + acceptedAmount
  IN  /\ IsActiveRoundOpen
      /\ observations' = [observations EXCEPT ![a] = CheckpointUser(@, newUserBalance, now)]
      /\ principal' = [principal EXCEPT ![a] = newUserBalance]
      /\ totalPrincipal' = totalPrincipal + acceptedAmount
      /\ liquidPrincipal' = liquidPrincipal + acceptedAmount
      /\ round' = EligibleAfter(a, acceptedAmount)
      /\ assetBalance' = assetBalance + acceptedAmount
      /\ UNCHANGED <<now, activeRoundId, participants, eligibilityStart, winnerPredicate,
                     validityProofs, prizeVars, preferenceObservations, escrowVars>>

\* The asset moves nothing when the sender's balance is too small (external).
ConfidentialTransfer(amount) == IF amount <= assetBalance THEN amount ELSE 0

\* withdraw
Withdraw(a, requested) ==
  LET eligible == IF requested <= principal[a] /\ requested <= liquidPrincipal
                  THEN requested ELSE 0
      sent == ConfidentialTransfer(eligible)
      newUserBalance == principal[a] - sent
  IN  /\ IsActiveRoundOpen
      /\ observations' = [observations EXCEPT ![a] = CheckpointUser(@, newUserBalance, now)]
      /\ principal' = [principal EXCEPT ![a] = newUserBalance]
      /\ totalPrincipal' = totalPrincipal - sent
      /\ liquidPrincipal' = liquidPrincipal - sent
      /\ round' = EligibleAfter(a, -sent)
      /\ assetBalance' = assetBalance - sent
      /\ UNCHANGED <<now, activeRoundId, participants, eligibilityStart, winnerPredicate,
                     validityProofs, prizeVars, preferenceObservations, escrowVars>>

\* contributeSponsor, for the active or the next round.
ContributeSponsor(r, amount) ==
  /\ IsActiveRoundOpen
  /\ r \in {activeRoundId, activeRoundId + 1}
  /\ amount # 0
  /\ publicSponsoredPrize[r] + amount <= MAX_POOL_BASE_UNITS
  /\ sponsoredPrize' = [sponsoredPrize EXCEPT ![r] = @ + amount]
  /\ publicSponsoredPrize' = [publicSponsoredPrize EXCEPT ![r] = @ + amount]
  /\ liquidPrizeAssets' = liquidPrizeAssets + amount
  /\ assetBalance' = assetBalance + amount
  /\ UNCHANGED <<now, roundVars, saverVars, preferenceObservations, escrowVars, realizedSurplus,
                 reservedPrize, winningsLiability, winnings, uncommittedYield,
                 publicUncommittedYield>>

\* harvestStrategyYield, for whatever surplus the adapter realizes.
HarvestStrategyYield(harvested) ==
  /\ publicUncommittedYield + harvested <= MAX_YIELD
  /\ uncommittedYield' = uncommittedYield + harvested
  /\ realizedSurplus' = realizedSurplus + harvested
  /\ liquidPrizeAssets' = liquidPrizeAssets + harvested
  /\ publicUncommittedYield' = publicUncommittedYield + harvested
  /\ assetBalance' = assetBalance + harvested
  /\ UNCHANGED <<now, roundVars, saverVars, preferenceObservations, escrowVars, reservedPrize,
                 winningsLiability, winnings, sponsoredPrize, publicSponsoredPrize>>

\* Mutant: withdrawWinnings that books the request instead of what was sent.
WithdrawWinningsAsRequested(a, requested) ==
  LET eligible == IF requested <= winnings[a] /\ requested <= liquidPrizeAssets
                  THEN requested ELSE 0
      sent == ConfidentialTransfer(eligible)
  IN  /\ winnings' = [winnings EXCEPT ![a] = @ - requested]
      /\ winningsLiability' = winningsLiability - requested
      /\ liquidPrizeAssets' = liquidPrizeAssets - requested
      /\ assetBalance' = assetBalance - sent
      /\ UNCHANGED <<now, roundVars, saverVars, preferenceObservations, escrowVars,
                     realizedSurplus, reservedPrize, sponsoredPrize, publicSponsoredPrize,
                     uncommittedYield, publicUncommittedYield>>

\* withdrawWinnings
WithdrawWinnings(a, requested) ==
  LET eligible == IF requested <= winnings[a] /\ requested <= liquidPrizeAssets
                  THEN requested ELSE 0
      sent == ConfidentialTransfer(eligible)
  IN  /\ winnings' = [winnings EXCEPT ![a] = @ - sent]
      /\ winningsLiability' = winningsLiability - sent
      /\ liquidPrizeAssets' = liquidPrizeAssets - sent
      /\ assetBalance' = assetBalance - sent
      /\ UNCHANGED <<now, roundVars, saverVars, preferenceObservations, escrowVars,
                     realizedSurplus, reservedPrize, sponsoredPrize, publicSponsoredPrize,
                     uncommittedYield, publicUncommittedYield>>

\* setAutoSavePreference: one observation per timestamp, the last one wins.
SetAutoSavePreference(a, autoSave) ==
  LET prefs == preferenceObservations[a]
      entry == [timestamp |-> now, autoSave |-> autoSave]
      replaces == prefs # <<>> /\ Last(prefs).timestamp = now
  IN  /\ preferenceObservations' =
           [preferenceObservations EXCEPT
              ![a] = IF replaces THEN [@ EXCEPT ![Len(@)] = entry] ELSE Append(@, entry)]
      /\ UNCHANGED <<now, roundVars, saverVars, prizeVars, assetBalance, escrowVars>>

-----------------------------------------------------------------------------
(* Closing a round and drawing its ticket. *)

\* closeRound: anyone, at or after closesAt, however late.  The aggregate is
\* taken at closesAt and the next round opens there, not at now.
CloseRound ==
  LET r == activeRoundId
      R == AccrueEligible(round[r], round[r].closesAt)
      prize == sponsoredPrize[r] + uncommittedYield
  IN  /\ round[r].state = "OPEN"
      /\ now >= round[r].closesAt
      /\ r + 1 \in RoundIds
      /\ round' = [round EXCEPT
           ![r] = [R EXCEPT !.aggregateTwab = R.eligibleCumulative,
                            !.publicPrize = publicSponsoredPrize[r] + publicUncommittedYield,
                            !.reservedPrize = prize,
                            !.participantCountSnapshot = Len(participants[r]),
                            !.state = "AGGREGATE_PENDING"],
           ![r + 1] = InitializeRound(R.closesAt)]
      /\ reservedPrize' = reservedPrize + prize
      /\ realizedSurplus' = realizedSurplus - uncommittedYield
      /\ uncommittedYield' = 0
      /\ publicUncommittedYield' = 0
      /\ activeRoundId' = r + 1
      /\ UNCHANGED <<now, participants, eligibilityStart, winnerPredicate, validityProofs,
                     saverVars, preferenceObservations, assetBalance, escrowVars,
                     liquidPrizeAssets, winningsLiability, winnings, sponsoredPrize,
                     publicSponsoredPrize>>

\* A settlement step that changes only round r's record.
OnlyRound(r, R) ==
  /\ round' = [round EXCEPT ![r] = R]
  /\ UNCHANGED <<now, activeRoundId, participants, eligibilityStart, saverVars, prizeVars,
                 preferenceObservations, assetBalance>>

\* finalizeAggregate, with the authentic cleartext of the aggregate.
FinalizeAggregate(r) ==
  LET R == round[r]
  IN  /\ R.state = "AGGREGATE_PENDING"
      /\ R.aggregateTwab <= MAX_AGGREGATE_TWAB
      /\ OnlyRound(r, [R EXCEPT !.publicAggregateTwab = R.aggregateTwab,
                                !.state = IF R.aggregateTwab = 0 THEN "EMPTY"
                                          ELSE "AGGREGATE_FINALIZED"])
      /\ UNCHANGED <<winnerPredicate, validityProofs, escrowVars>>

\* The largest multiple of the aggregate that the random domain holds.
AcceptanceLimit(totalWeight) == (RANDOM_DOMAIN \div totalWeight) * totalWeight

\* Mutant: a draw from the first attempt's state only.
DrawAllowedOnce(R) ==
  /\ R.state = "AGGREGATE_FINALIZED"
  /\ R.publicAggregateTwab # 0
  /\ R.publicAggregateTwab <= MAX_AGGREGATE_TWAB

\* The checks of generateRandomCandidate.
DrawAllowed(R) ==
  /\ R.state \in {"AGGREGATE_FINALIZED", "CANDIDATE_REJECTED"}
  /\ R.publicAggregateTwab # 0
  /\ R.publicAggregateTwab <= MAX_AGGREGATE_TWAB

\* generateRandomCandidate drawing candidate c.  A candidate of a domain that
\* the aggregate does not divide is published with a verdict still to be
\* decrypted; the last attempt the model allows is not rejected.
GenerateRandomCandidate(r, c) ==
  LET R == round[r]
      limit == AcceptanceLimit(R.publicAggregateTwab)
      drawn == [R EXCEPT !.candidate = c]
  IN  /\ DrawAllowed(R)
      /\ c < limit \/ Len(validityProofs[r]) + 1 < MAX_ATTEMPTS
      /\ \/ /\ limit = RANDOM_DOMAIN
            /\ OnlyRound(r, [drawn EXCEPT !.acceptedTicket = c % R.publicAggregateTwab,
                                          !.state = "TICKET_ACCEPTED"])
            /\ UNCHANGED validityProofs
         \/ /\ limit # RANDOM_DOMAIN
            /\ OnlyRound(r, [drawn EXCEPT !.state = "CANDIDATE_VALIDITY_PENDING"])
            /\ validityProofs' = [validityProofs EXCEPT ![r] = Append(@, c < limit)]
      /\ UNCHANGED <<winnerPredicate, escrowVars>>

\* Mutant: finalizeCandidateValidity without the handle: any verdict will do.
FinalizeAnyVerdict(r, k) ==
  LET R == round[r]
  IN  /\ R.state = "CANDIDATE_VALIDITY_PENDING"
      /\ OnlyRound(r, IF validityProofs[r][k]
                      THEN [R EXCEPT !.acceptedTicket = R.candidate % R.publicAggregateTwab,
                                     !.state = "TICKET_ACCEPTED"]
                      ELSE [R EXCEPT !.state = "CANDIDATE_REJECTED"])
      /\ UNCHANGED <<winnerPredicate, validityProofs, escrowVars>>

\* finalizeCandidateValidity with the published verdict on the k-th candidate:
\* checkSignatures accepts it only for the handle of the current candidate.
FinalizeCandidateValidity(r, k) ==
  LET R == round[r]
  IN  /\ R.state = "CANDIDATE_VALIDITY_PENDING"
      /\ k = Len(validityProofs[r])
      /\ OnlyRound(r, IF validityProofs[r][k]
                      THEN [R EXCEPT !.acceptedTicket = R.candidate % R.publicAggregateTwab,
                                     !.state = "TICKET_ACCEPTED"]
                      ELSE [R EXCEPT !.state = "CANDIDATE_REJECTED"])
      /\ UNCHANGED <<winnerPredicate, validityProofs, escrowVars>>

-----------------------------------------------------------------------------
(* The two passes over the participants, and the end of a round. *)

\* The positions a pass processes from cursor on, at most n of them.
Slice(R, cursor, n) ==
  (cursor + 1)..(IF cursor + n > R.participantCountSnapshot
                 THEN R.participantCountSnapshot ELSE cursor + n)

\* processSelection: the next n participants get consecutive intervals of the
\* aggregate; the one whose interval holds the ticket is the winner.
ProcessSelection(r, n, progressor) ==
  LET R == round[r]
      slice == Slice(R, R.selectionCursor, n)
      weight == [i \in slice |-> RoundWeight(r, participants[r][i])]
      intervalStart(i) == R.selectionCumulative + Sum([j \in {j \in slice : j < i} |-> weight[j]])
      winners == {participants[r][i] : i \in {i \in slice :
                    /\ intervalStart(i) <= R.acceptedTicket
                    /\ R.acceptedTicket < intervalStart(i) + weight[i]
                    /\ weight[i] > 0}}
      cursor == R.selectionCursor + Cardinality(slice)
      cumulative == R.selectionCumulative + Sum(weight)
      winnerCount == R.encryptedWinnerCount + Cardinality(winners)
      done == cursor = R.participantCountSnapshot
  IN  /\ n \in 1..MAX_CHUNK
      /\ R.state \in {"TICKET_ACCEPTED", "WINNER_PROCESSING"}
      /\ CreditProgress(r, 1, Cardinality(slice), progressor)
      /\ winnerPredicate' = [winnerPredicate EXCEPT ![r] = @ \cup winners]
      /\ OnlyRound(r, [R EXCEPT !.selectionCursor = cursor,
                                !.selectionCumulative = cumulative,
                                !.encryptedWinnerCount = winnerCount,
                                !.reconciliationValid =
                                   done /\ cumulative = R.publicAggregateTwab
                                        /\ winnerCount = 1,
                                !.state = IF done THEN "RECONCILIATION_PENDING"
                                          ELSE "WINNER_PROCESSING"])
      /\ UNCHANGED validityProofs

\* finalizeSelectionReconciliation with the decrypted verdict, which is the
\* reconciliation unless DecryptionFaults lets it be attested as failed.
FinalizeSelectionReconciliation(r, valid) ==
  LET R == round[r]
  IN  /\ R.state = "RECONCILIATION_PENDING"
      /\ valid = R.reconciliationValid \/ (DecryptionFaults /\ ~valid)
      /\ OnlyRound(r, [R EXCEPT !.state = IF valid THEN "READY_TO_ALLOCATE"
                                          ELSE "RECONCILIATION_FAILED"])
      /\ UNCHANGED <<winnerPredicate, validityProofs, escrowVars>>

\* Mutant: the prize goes to the first participant of the slice.
AllocationToFirst(r, slice) ==
  [taker |-> {participants[r][i] : i \in {i \in slice : \A j \in slice : i <= j}},
   prize |-> round[r].reservedPrize, autoSaved |-> 0]

\* Mutant: an auto-save that does not look at the cap of the pool.
AllocationBeyondCap(r, slice) ==
  LET R == round[r]
      taker == {participants[r][i] : i \in slice} \cap winnerPredicate[r]
      prize == IF taker = {} THEN 0 ELSE R.reservedPrize
      wantsAutoSave == \E a \in taker : PreferenceAt(preferenceObservations[a], R.closesAt)
  IN  [taker |-> taker, prize |-> prize, autoSaved |-> IF wantsAutoSave THEN prize ELSE 0]

\* _allocateParticipant over a slice of round r: who takes the prize, and how
\* much of it becomes principal.  The first winner of the slice takes the
\* round's whole reserved prize (whoever comes after it finds a prize of 0),
\* as principal if it had chosen auto-save before the round closed and the
\* pool has room, otherwise as winnings.
Allocation(r, slice) ==
  LET R == round[r]
      isWinner(i) == participants[r][i] \in winnerPredicate[r]
      first == {i \in slice : isWinner(i) /\ \A j \in slice : isWinner(j) => i <= j}
      taker == {participants[r][i] : i \in first}
      prize == IF first = {} THEN 0 ELSE R.reservedPrize
      wantsAutoSave == \E a \in taker : PreferenceAt(preferenceObservations[a], R.closesAt)
      autoFits == prize <= MAX_POOL_BASE_UNITS - totalPrincipal
  IN  [taker |-> taker, prize |-> prize,
       autoSaved |-> IF wantsAutoSave /\ autoFits THEN prize ELSE 0]

\* Mutant: an auto-saved prize also becomes winnings.
KeptAsWell(allocation) == allocation.prize

\* The part of an allocated prize that becomes winnings.
Kept(allocation) == allocation.prize - allocation.autoSaved

\* processAllocation: the next n participants, all of them checkpointed alike.
ProcessAllocation(r, n, progressor) ==
  LET R == round[r]
      slice == Slice(R, R.allocationCursor, n)
      members == {participants[r][i] : i \in slice}
      A == Allocation(r, slice)
      newPrincipal ==
        [a \in Accounts |-> principal[a] + (IF a \in A.taker THEN A.autoSaved ELSE 0)]
      eligible == IF \E a \in A.taker : eligibilityStart[activeRoundId][a] # 0
                  THEN A.autoSaved ELSE 0
      cursor == R.allocationCursor + Cardinality(slice)
  IN  /\ n \in 1..MAX_CHUNK
      /\ IsActiveRoundOpen
      /\ R.state \in {"READY_TO_ALLOCATE", "ALLOCATION_PROCESSING"}
      /\ CreditProgress(r, 2, Cardinality(slice), progressor)
      /\ observations' = [a \in Accounts |->
                            IF a \in members
                            THEN CheckpointUser(observations[a], newPrincipal[a], now)
                            ELSE observations[a]]
      /\ principal' = newPrincipal
      /\ totalPrincipal' = totalPrincipal + A.autoSaved
      /\ liquidPrincipal' = liquidPrincipal + A.autoSaved
      /\ winnings' = [a \in Accounts |-> winnings[a] + (IF a \in A.taker THEN Kept(A) ELSE 0)]
      /\ winningsLiability' = winningsLiability + Kept(A)
      /\ liquidPrizeAssets' = liquidPrizeAssets - A.autoSaved
      /\ reservedPrize' = reservedPrize - A.prize
      /\ round' = [Accrued(eligible) EXCEPT
                     ![r].reservedPrize = @ - A.prize,
                     ![r].allocationCursor = cursor,
                     ![r].state = IF cursor = R.participantCountSnapshot
                                  THEN "WINNINGS_ALLOCATED" ELSE "ALLOCATION_PROCESSING"]
      /\ UNCHANGED <<now, activeRoundId, participants, eligibilityStart, winnerPredicate,
                     validityProofs, preferenceObservations, assetBalance, realizedSurplus,
                     sponsoredPrize, publicSponsoredPrize, uncommittedYield,
                     publicUncommittedYield>>

\* finalizeSettlement
FinalizeSettlement(r) ==
  /\ round[r].state = "WINNINGS_ALLOCATED"
  /\ FinalizeRound(r, 2)
  /\ OnlyRound(r, [round[r] EXCEPT !.state = "SETTLED"])
  /\ UNCHANGED <<winnerPredicate, validityProofs>>

\* _rollPrizeForward: round r's prize becomes sponsorship of the active round,
\* whether or not that one is still open for deposits.
RollPrizeForward(r) ==
  LET to == activeRoundId
      R == round[r]
  IN  /\ sponsoredPrize' = [sponsoredPrize EXCEPT ![to] = @ + R.reservedPrize]
      /\ reservedPrize' = reservedPrize - R.reservedPrize
      /\ publicSponsoredPrize' = [publicSponsoredPrize EXCEPT ![to] = @ + R.publicPrize]
      /\ round' = [round EXCEPT ![r].reservedPrize = 0, ![r].state = "SETTLED"]
      /\ UNCHANGED <<now, activeRoundId, participants, eligibilityStart, winnerPredicate,
                     validityProofs, saverVars, preferenceObservations, assetBalance,
                     liquidPrizeAssets, realizedSurplus, winningsLiability, winnings,
                     uncommittedYield, publicUncommittedYield>>

\* recoverFailedReconciliation
RecoverFailedReconciliation(r) ==
  /\ round[r].state = "RECONCILIATION_FAILED"
  /\ RollPrizeForward(r)
  /\ FinalizeRound(r, 1)

\* settleEmptyRound
SettleEmptyRound(r) ==
  /\ round[r].state = "EMPTY"
  /\ RollPrizeForward(r)
  /\ FinalizeRound(r, 0)

-----------------------------------------------------------------------------
(* The system. *)

\* Block time moves on.
Tick ==
  /\ now < MAX_TIME
  /\ now' = now + 1
  /\ UNCHANGED <<roundVars, saverVars, prizeVars, preferenceObservations, assetBalance,
                 escrowVars>>

\* A participant or progressor takes what the escrow owes it, or somebody
\* forces native asset into the escrow.
EscrowPayout ==
  /\ \/ \E a \in Accounts : \/ WithdrawSettlementRewards(a)
                            \/ \E r \in RoundIds : ClaimBondRefund(r, a)
     \/ \E amount \in 1..MAX_FORCED : ForceNative(amount)
  /\ UNCHANGED vaultVars

\* What users may do, by subject.
BalanceStep ==
  \E a \in Savers, amount \in Amounts : Deposit(a, amount) \/ Withdraw(a, amount)

RegistrationStep == \E r \in RoundIds, a \in Savers : RegisterParticipant(r, a)

PrizeStep ==
  \/ \E r \in RoundIds, amount \in Amounts : ContributeSponsor(r, amount)
  \/ \E harvested \in 1..MAX_YIELD : HarvestStrategyYield(harvested)

WinningsStep == \E a \in Savers, amount \in Amounts : WithdrawWinnings(a, amount)

PreferenceStep ==
  \E a \in Savers, autoSave \in BOOLEAN : SetAutoSavePreference(a, autoSave)

UserStep == \/ BalanceStep
            \/ RegistrationStep
            \/ PrizeStep
            \/ WinningsStep
            \/ PreferenceStep
            \/ EscrowPayout

\* What any caller, usually the keeper, can do for round r once it is closed.
SettlementStep(r) ==
  \/ FinalizeAggregate(r)
  \/ \E c \in 0..(RANDOM_DOMAIN - 1) : GenerateRandomCandidate(r, c)
  \/ \E k \in 1..Len(validityProofs[r]) : FinalizeCandidateValidity(r, k)
  \/ \E n \in 1..MAX_CHUNK, p \in Progressors : ProcessSelection(r, n, p)
  \/ \E valid \in BOOLEAN : FinalizeSelectionReconciliation(r, valid)
  \/ \E n \in 1..MAX_CHUNK, p \in Progressors : ProcessAllocation(r, n, p)
  \/ FinalizeSettlement(r)
  \/ RecoverFailedReconciliation(r)
  \/ SettleEmptyRound(r)

Next ==
  \/ Tick
  \/ CloseRound
  \/ UserStep
  \/ \E r \in RoundIds : SettlementStep(r)

Spec == Init /\ [][Next]_vars

\* The keeper is always running: it closes an expired round and takes each
\* settlement step that is due.  Nothing forces users to act.
Fairness ==
  /\ WF_vars(Tick)
  /\ WF_vars(CloseRound)
  /\ \A r \in RoundIds : WF_vars(SettlementStep(r))

LiveSpec == Spec /\ Fairness

-----------------------------------------------------------------------------
(* Properties. *)

Closed(r) == round[r].state \notin {"UNINITIALIZED", "OPEN"}

Members(r) == {participants[r][i] : i \in DOMAIN participants[r]}

\* _checkpointUser and setAutoSavePreference leave one checkpoint per timestamp,
\* in increasing order, also when an allocation, a deposit and a withdrawal of
\* one account fall into one block: what the binary searches rely on.
CheckpointsOrdered ==
  LET Increasing(s) ==
        \A i \in 2..Len(s) : s[i - 1].timestamp < s[i].timestamp
  IN  \A a \in Accounts : Increasing(observations[a]) /\ Increasing(preferenceObservations[a])

\* The weight account a has gathered in round r up to timestamp t.
WeightUpTo(r, a, t) ==
  CumulativeAt(observations[a], t) - CumulativeAt(observations[a], eligibilityStart[r][a])

\* The incremental aggregate (_accrueEligible) is the sum of the individual
\* time-weighted balances (_roundWeight): for the round being filled at every
\* moment, and for a closed round for ever, whatever is deposited, withdrawn,
\* auto-saved or registered in later rounds, and however late it was closed.  The
\* checkpoints behind both stay in order.
WeightsReconcile ==
  LET Agrees(r, t, aggregate) ==
        /\ \A a \in Members(r) : WeightUpTo(r, a, t) >= 0
        /\ aggregate = Sum([a \in Members(r) |-> WeightUpTo(r, a, t)])
      A == round[activeRoundId]
      t == IF now < A.closesAt THEN now ELSE A.closesAt
  IN  /\ CheckpointsOrdered
      /\ \A r \in RoundIds : Closed(r) => Agrees(r, round[r].closesAt, round[r].aggregateTwab)
      /\ now >= A.opensAt => Agrees(activeRoundId, t, AccrueEligible(A, t).eligibleCumulative)

\* The selection pass of every round finds exactly one winner, one with a
\* positive weight, and reconciles with the aggregate: the failure that
\* recoverFailedReconciliation provides for does not come from the vault's
\* own arithmetic.
SelectionReconciles ==
  \A r \in RoundIds :
    round[r].state \in {"RECONCILIATION_PENDING", "RECONCILIATION_FAILED", "READY_TO_ALLOCATE",
                        "ALLOCATION_PROCESSING", "WINNINGS_ALLOCATED"} =>
      /\ round[r].reconciliationValid
      /\ Cardinality(winnerPredicate[r]) = 1
      /\ \A a \in winnerPredicate[r] : a \in Members(r) /\ RoundWeight(r, a) > 0

\* Rejection sampling: a ticket comes from a candidate below the largest
\* multiple of the aggregate, so no ticket is likelier than another, and it
\* lies below the aggregate; and only a candidate that is not below it is
\* rejected.  The published verdict on an earlier candidate cannot be used to
\* throw a later one away.
TicketUnbiased ==
  \A r \in RoundIds :
    LET R == round[r]
    IN  /\ R.state \in {"TICKET_ACCEPTED", "WINNER_PROCESSING", "RECONCILIATION_PENDING",
                        "READY_TO_ALLOCATE", "ALLOCATION_PROCESSING", "WINNINGS_ALLOCATED"} =>
             /\ R.candidate < AcceptanceLimit(R.publicAggregateTwab)
             /\ R.acceptedTicket = R.candidate % R.publicAggregateTwab
        /\ R.state = "CANDIDATE_REJECTED" =>
             R.candidate >= AcceptanceLimit(R.publicAggregateTwab)

\* Principal: the total is the sum over savers, never above the cap, and each
\* saver's last checkpoint holds the balance the saver really has.
PrincipalAccounted ==
  /\ totalPrincipal = Sum(principal)
  /\ totalPrincipal <= MAX_POOL_BASE_UNITS
  /\ liquidPrincipal = totalPrincipal
  /\ \A a \in Accounts :
       principal[a] = IF observations[a] = <<>> THEN 0 ELSE Last(observations[a]).balance

\* Prizes: what the vault holds for prizes is exactly what is sponsored for
\* rounds not yet closed, harvested but uncommitted, reserved by closed rounds
\* or won and not withdrawn; each encrypted amount agrees with its public twin.
PrizesAccounted ==
  /\ liquidPrizeAssets =
       Sum([r \in {s \in RoundIds : s >= activeRoundId} |-> sponsoredPrize[r]])
         + realizedSurplus + reservedPrize + winningsLiability
  /\ reservedPrize = Sum([r \in RoundIds |-> round[r].reservedPrize])
  /\ winningsLiability = Sum(winnings)
  /\ realizedSurplus = uncommittedYield /\ uncommittedYield = publicUncommittedYield
  /\ \A r \in RoundIds : r >= activeRoundId => sponsoredPrize[r] = publicSponsoredPrize[r]
  /\ \A r \in RoundIds :
       round[r].allocationCursor = 0 /\ round[r].state # "SETTLED" =>
         round[r].reservedPrize = round[r].publicPrize
  /\ \A r \in RoundIds :
       round[r].state \in {"WINNINGS_ALLOCATED", "SETTLED"} => round[r].reservedPrize = 0

\* The vault's balance of the confidential asset covers principal and prizes
\* exactly, so the transfer inside a withdrawal never moves less than asked; and
\* no encrypted subtraction of withdraw, closeRound, processAllocation,
\* _rollPrizeForward or withdrawWinnings goes below zero, where a ciphertext
\* would wrap around unnoticed.
VaultSolvent ==
  /\ assetBalance = liquidPrincipal + liquidPrizeAssets
  /\ {principal, winnings} \subseteq [Accounts -> Nat]
  /\ round \in [RoundIds -> Round] /\ sponsoredPrize \in [RoundIds -> Nat]
  /\ {totalPrincipal, liquidPrincipal, liquidPrizeAssets, realizedSurplus, reservedPrize,
      winningsLiability, uncommittedYield} \subseteq Nat

\* Once a round's closing time has come, no step changes what its settlement
\* will read: the weights of its participants and their auto-save choice.
HistoryFrozen ==
  [][\A r \in RoundIds :
       (round[r].state # "UNINITIALIZED" /\ now >= round[r].closesAt) =>
         \A a \in Members(r) :
           /\ RoundWeight(r, a)' = RoundWeight(r, a)
           /\ PreferenceAt(preferenceObservations'[a], round[r].closesAt)
                = PreferenceAt(preferenceObservations[a], round[r].closesAt)]_vars

\* A prize goes to savers only from their round's allocation, and to the one
\* winner: no other step raises anyone's winnings.
WinningsOnlyFromAllocation ==
  [][\A a \in Accounts : winnings'[a] > winnings[a] =>
       \E r \in RoundIds :
         /\ a \in winnerPredicate[r]
         /\ round[r].reservedPrize = winnings'[a] - winnings[a]
         /\ round'[r].reservedPrize = 0]_vars

\* The escrow alone, as its own module specifies it: the vault's round ids are
\* its rounds, and its ledgers are the ones the composition carries.
Escrow == INSTANCE BondEscrow WITH Rounds <- RoundIds

\* The vault is a vault the escrow is safe with: every step of the composition
\* is a step of BondEscrow's own specification, or leaves the escrow alone.
EscrowRefined == Escrow!EscrowSpec

\* Every round that has begun to close is settled in the end, if the keeper
\* keeps going; so no participant's bond stays locked.
RoundsSettle ==
  \A r \in RoundIds : (Closed(r) ~> (round[r].state = "SETTLED" /\ ledger[r].finalized))
=============================================================================
