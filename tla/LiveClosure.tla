------------------------------ MODULE LiveClosure ------------------------------
(***************************************************************************)
(* scripts/leopold-live-closure.ts: one run of the whole product against   *)
(* the public chain.  The script deploys a disposable wrapper and vault,   *)
(* plays two savers A and B and both settlement operators through two      *)
(* rounds, checks what it reads and writes evidence of a pass.             *)
(*                                                                         *)
(* The contracts are public while it runs.  A stranger may register, close *)
(* a round and take any settlement step the script was about to take; time *)
(* passes between any two of its transactions.                             *)
(***************************************************************************)
EXTENDS Integers, FiniteSets

CONSTANTS
    RetryBudget,        \* candidates per round, 8 in the code
    MaxMeddles          \* steps of the stranger

ASSUME ClosureConfiguration == RetryBudget \in Nat \ {0} /\ MaxMeddles \in Nat

VARIABLES
    rounds,             \* the disposable vault's rounds, as roundInfo shows them
    active,             \* activeRoundId
    due,                \* the rounds whose closing time has passed
    credit,             \* settlementRewardCredit, in units of REWARD
    driver,             \* where the script is
    closureFiles,       \* which of the two files are written
    meddles

closureVars == <<rounds, active, due, credit, driver, closureFiles, meddles>>
contractVars == <<rounds, active, due, credit>>

-----------------------------------------------------------------------------
Parties == {"A", "B", "stranger"}
RoundIds == 1 .. 3
BOND == 5                   \* in units of REWARD
Chunk == 4                  \* participants per settlement call

Nobody == [p \in Parties |-> 0]
Unopened == [state |-> "UNINITIALIZED", members |-> {}, weighted |-> FALSE, selectedBy |-> Nobody,
             allocatedBy |-> Nobody, winner |-> "none", refunded |-> {}]
Opened == [Unopened EXCEPT !.state = "OPEN"]

Total(work) == work["A"] + work["B"] + work["stranger"]
State(r) == rounds[r].state
Count(r) == Cardinality(rounds[r].members)

(***************************************************************************)
(* The calls, as far as roundInfo and the bond escrow show their effects.  *)
(* Accepted is the calls' guard; a call that is not accepted reverts.      *)
(***************************************************************************)
Call(name, r, by) == [name |-> name, round |-> r, by |-> by]

IsOpen(r) == r = active /\ State(r) = "OPEN" /\ r \notin due

Accepted(call) ==
    LET r == call.round IN
    CASE call.name = "registerForRound" -> IsOpen(r) /\ call.by \notin rounds[r].members
      [] call.name = "closeRound" -> active \in due /\ active + 1 \in RoundIds
      [] call.name = "finalizeAggregate" -> State(r) = "AGGREGATE_PENDING"
      [] call.name = "settleEmptyRound" -> State(r) = "EMPTY"
      [] call.name = "generateRandomCandidate" -> State(r) \in {"AGGREGATE_FINALIZED", "CANDIDATE_REJECTED"}
      [] call.name = "finalizeCandidateValidity" -> State(r) = "CANDIDATE_VALIDITY_PENDING"
      [] call.name = "processSelection" -> State(r) \in {"TICKET_ACCEPTED", "WINNER_PROCESSING"}
      [] call.name = "finalizeSelectionReconciliation" -> State(r) = "RECONCILIATION_PENDING"
      [] call.name = "processAllocation" ->
            IsOpen(active) /\ State(r) \in {"READY_TO_ALLOCATE", "ALLOCATION_PROCESSING"}
      [] call.name = "finalizeSettlement" -> State(r) = "WINNINGS_ALLOCATED"

Becomes(r, states) == {[rounds[r] EXCEPT !.state = s] : s \in states}

(* What is left to do, up to a chunk: the script asks for four, a stranger *)
(* may ask for one.                                                        *)
Chunks(work, by, count) ==
    LET left == count - Total(work)
        whole == IF left < Chunk THEN left ELSE Chunk
    IN IF by = "stranger" THEN {1, whole} ELSE {whole}

Selected(r, by, n) ==
    LET worked == [rounds[r].selectedBy EXCEPT ![by] = @ + n]
    IN IF Total(worked) < Count(r)
       THEN {[rounds[r] EXCEPT !.selectedBy = worked, !.state = "WINNER_PROCESSING"]}
       ELSE {[rounds[r] EXCEPT !.selectedBy = worked, !.state = "RECONCILIATION_PENDING", !.winner = w] :
                 w \in rounds[r].members}

Allocated(r, by, n) ==
    LET worked == [rounds[r].allocatedBy EXCEPT ![by] = @ + n]
    IN {[rounds[r] EXCEPT !.allocatedBy = worked,
                          !.state = IF Total(worked) < Count(r) THEN "ALLOCATION_PROCESSING" ELSE "WINNINGS_ALLOCATED"]}

(* The round after the call.  closeRound takes no number: it closes the    *)
(* round that is active, whichever the caller had in mind.                 *)
After(call, n) ==
    LET r == call.round IN
    CASE call.name = "registerForRound" -> {[rounds[r] EXCEPT !.members = @ \cup {call.by}]}
      [] call.name = "closeRound" ->
            {[rounds[active] EXCEPT !.state = "AGGREGATE_PENDING", !.weighted = w] :
                 w \in IF rounds[active].members = {} THEN {FALSE} ELSE BOOLEAN}
      [] call.name = "finalizeAggregate" -> Becomes(r, {IF rounds[r].weighted THEN "AGGREGATE_FINALIZED" ELSE "EMPTY"})
      [] call.name \in {"settleEmptyRound", "finalizeSettlement"} -> Becomes(r, {"SETTLED"})
      [] call.name = "generateRandomCandidate" -> Becomes(r, {"CANDIDATE_VALIDITY_PENDING", "TICKET_ACCEPTED"})
      [] call.name = "finalizeCandidateValidity" -> Becomes(r, {"CANDIDATE_REJECTED", "TICKET_ACCEPTED"})
      [] call.name = "processSelection" -> Selected(r, call.by, n)
      [] call.name = "finalizeSelectionReconciliation" -> Becomes(r, {"READY_TO_ALLOCATE"})
      [] call.name = "processAllocation" -> Allocated(r, call.by, n)

Units(call) ==
    CASE call.name = "processSelection" -> Chunks(rounds[call.round].selectedBy, call.by, Count(call.round))
      [] call.name = "processAllocation" -> Chunks(rounds[call.round].allocatedBy, call.by, Count(call.round))
      [] OTHER -> {0}

Execute(call) ==
    LET target == IF call.name = "closeRound" THEN active ELSE call.round IN
    /\ Accepted(call)
    /\ \E n \in Units(call) :
           /\ \E after \in After(call, n) :
                  rounds' = IF call.name = "closeRound"
                            THEN [rounds EXCEPT ![target] = after, ![target + 1] = Opened]
                            ELSE [rounds EXCEPT ![target] = after]
           /\ credit' = [credit EXCEPT ![call.by] = @ + n]
    /\ active' = IF call.name = "closeRound" THEN active + 1 ELSE active
    /\ UNCHANGED due

-----------------------------------------------------------------------------
(***************************************************************************)
(* The script.                                                             *)
(***************************************************************************)
Start == [pc |-> "setup", round |-> 1, tries |-> 0]
Goes(pc) == [driver EXCEPT !.pc = pc]
Fails == driver' = [Start EXCEPT !.pc = "failed"]
Rest == UNCHANGED <<closureFiles, meddles>>

(* A transaction through the browser's provider: a receipt of success, or  *)
(* the script is over.                                                     *)
write(call, next) ==
    \/ Execute(call) /\ driver' = next /\ Rest
    \/ ~ Accepted(call) /\ Fails /\ UNCHANGED contractVars /\ Rest

(* A check of what was read.                                               *)
Check(ok, next) ==
    /\ IF ok THEN driver' = next ELSE Fails
    /\ UNCHANGED contractVars /\ Rest

At(pc) == driver.pc = pc

(* Wallets, funds and faucet; wrapper and vault, their links, the wraps    *)
(* and, once the round has opened, both deposits.                          *)
SetUp ==
    /\ At("setup")
    /\ \E ok \in BOOLEAN : Check(ok, Goes("registerA"))

RegisterA == At("registerA") /\ write(Call("registerForRound", 1, "A"), Goes("registerB"))
RegisterB == At("registerB") /\ write(Call("registerForRound", 1, "B"), Goes("sponsor"))

Sponsor ==
    /\ At("sponsor")
    /\ Check(IsOpen(1), [driver EXCEPT !.pc = "wait", !.round = 1])

(* settleRound(round): B moves the selection, A the allocation.            *)
waitUntil == At("wait") /\ driver.round \in due /\ Check(TRUE, Goes("close"))

CloseRound == At("close") /\ write(Call("closeRound", driver.round, "B"), Goes("aggregate"))

(* A public proof of zero leads to settleEmptyRound without a call of      *)
(* finalizeAggregate: the round is still AGGREGATE_PENDING, unless a       *)
(* stranger has finalized it.                                              *)
ProveAggregate ==
    /\ At("aggregate")
    /\ Check(State(driver.round) /= "OPEN", Goes(IF rounds[driver.round].weighted THEN "finalizeAggregate" ELSE "empty"))

AfterSettlement == IF driver.round = 1 THEN "results" ELSE "isolation"

SettleEmpty == At("empty") /\ write(Call("settleEmptyRound", driver.round, "B"), Goes(AfterSettlement))

FinalizeAggregate ==
    /\ At("finalizeAggregate")
    /\ write(Call("finalizeAggregate", driver.round, "B"), [Goes("generate") EXCEPT !.tries = 0])

Generate ==
    /\ At("generate")
    /\ write(Call("generateRandomCandidate", driver.round, "B"), Goes("generated"))

ReadGenerated ==
    /\ At("generated")
    /\ Check(State(driver.round) \in {"TICKET_ACCEPTED", "CANDIDATE_VALIDITY_PENDING"},
             Goes(IF State(driver.round) = "TICKET_ACCEPTED" THEN "ticket" ELSE "validity"))

FinalizeCandidate ==
    /\ At("validity")
    /\ write(Call("finalizeCandidateValidity", driver.round, "B"), [Goes("judged") EXCEPT !.tries = @ + 1])

ReadCandidate ==
    /\ At("judged")
    /\ Check(TRUE, Goes(IF State(driver.round) = "TICKET_ACCEPTED" \/ driver.tries = RetryBudget
                        THEN "ticket" ELSE "generate"))

ReadTicket == At("ticket") /\ Check(State(driver.round) = "TICKET_ACCEPTED", Goes("select"))

Select == At("select") /\ write(Call("processSelection", driver.round, "B"), Goes("selected"))

ReadSelection == At("selected") /\ Check(State(driver.round) = "RECONCILIATION_PENDING", Goes("reconcile"))

Reconcile ==
    /\ At("reconcile")
    /\ write(Call("finalizeSelectionReconciliation", driver.round, "B"), Goes("allocate"))

Allocate == At("allocate") /\ write(Call("processAllocation", driver.round, "A"), Goes("finalize"))

Finalize == At("finalize") /\ write(Call("finalizeSettlement", driver.round, "A"), Goes("ledger"))

ReadLedger ==
    /\ At("ledger")
    /\ Check(/\ Total(rounds[driver.round].selectedBy) = Count(driver.round)
             /\ Total(rounds[driver.round].allocatedBy) = Count(driver.round),
             Goes(AfterSettlement))

(* Back in main: one of the two has won, and only the owner can read it.   *)
CheckResults ==
    /\ At("results")
    /\ Check(rounds[1].winner \in {"A", "B"}, Goes("credits"))

RefundOf(r) == IF rounds[r].winner = "none" THEN BOND ELSE BOND - 2

AnyCredit == RefundOf(1) = BOND - 2

rewardCreditsMatch == RefundOf(1) = BOND - 2 /\ credit["A"] = 2 /\ credit["B"] = 2

CheckCredits == At("credits") /\ Check(rewardCreditsMatch, Goes("payouts"))

(* Both withdraw their rewards and their refunds, once.                    *)
Payouts ==
    /\ At("payouts")
    /\ IF credit["A"] > 0 /\ credit["B"] > 0 /\ {"A", "B"} \subseteq rounds[1].members \ rounds[1].refunded
       THEN /\ credit' = [credit EXCEPT !["A"] = 0, !["B"] = 0]
            /\ rounds' = [rounds EXCEPT ![1].refunded = @ \cup {"A", "B"}]
            /\ driver' = Goes("registerA2")
       ELSE Fails /\ UNCHANGED <<credit, rounds>>
    /\ UNCHANGED <<active, due>> /\ Rest

RegisterA2 == At("registerA2") /\ write(Call("registerForRound", 2, "A"), Goes("absence"))

CheckAbsence ==
    /\ At("absence")
    /\ Check("B" \notin rounds[2].members, [driver EXCEPT !.pc = "wait", !.round = 2])

CheckIsolation ==
    /\ At("isolation")
    /\ Check(/\ Count(2) = 1
             /\ Total(rounds[2].selectedBy) = 1
             /\ Total(rounds[2].allocatedBy) = 1,
             Goes("payout2"))

Payout2 ==
    /\ At("payout2")
    /\ IF credit["A"] > 0 /\ "A" \in rounds[2].members \ rounds[2].refunded
       THEN /\ credit' = [credit EXCEPT !["A"] = 0]
            /\ rounds' = [rounds EXCEPT ![2].refunded = @ \cup {"A"}]
            /\ driver' = Goes("unshield")
       ELSE Fails /\ UNCHANGED <<credit, rounds>>
    /\ UNCHANGED <<active, due>> /\ Rest

(* Withdrawals, the public request, its proof and its finalization; the    *)
(* balance has to move by exactly the amount.                              *)
Unshield ==
    /\ At("unshield")
    /\ \E exact \in BOOLEAN : Check(exact, Goes("evidence"))

WriteClosureEvidence ==
    /\ At("evidence")
    /\ closureFiles' = closureFiles \cup {"evidence"}
    /\ driver' = Goes("sidecar")
    /\ UNCHANGED <<contractVars, meddles>>

WriteClosureSidecar ==
    /\ At("sidecar")
    /\ closureFiles' = closureFiles \cup {"sidecar"}
    /\ driver' = Goes("passed")
    /\ UNCHANGED <<contractVars, meddles>>

DriverStep ==
    \/ SetUp \/ RegisterA \/ RegisterB \/ Sponsor
    \/ waitUntil \/ CloseRound \/ ProveAggregate \/ SettleEmpty \/ FinalizeAggregate
    \/ Generate \/ ReadGenerated \/ FinalizeCandidate \/ ReadCandidate \/ ReadTicket
    \/ Select \/ ReadSelection \/ Reconcile \/ Allocate \/ Finalize \/ ReadLedger
    \/ CheckResults \/ CheckCredits \/ Payouts \/ RegisterA2 \/ CheckAbsence
    \/ CheckIsolation \/ Payout2 \/ Unshield \/ WriteClosureEvidence \/ WriteClosureSidecar

-----------------------------------------------------------------------------
Playing == driver.pc \notin {"setup", "passed", "failed"}

Names == {"registerForRound", "closeRound", "finalizeAggregate", "settleEmptyRound",
          "generateRandomCandidate", "finalizeCandidateValidity", "processSelection",
          "finalizeSelectionReconciliation", "processAllocation", "finalizeSettlement"}

Meddle ==
    /\ Playing
    /\ meddles < MaxMeddles
    /\ \E name \in Names, r \in RoundIds :
           /\ name = "closeRound" => r = active
           /\ Execute(Call(name, r, "stranger"))
    /\ meddles' = meddles + 1
    /\ UNCHANGED <<driver, closureFiles>>

TimePasses ==
    /\ Playing
    /\ active \notin due
    /\ due' = due \cup {active}
    /\ UNCHANGED <<rounds, active, credit, driver, closureFiles, meddles>>

ClosureInit ==
    /\ rounds = [r \in RoundIds |-> IF r = 1 THEN Opened ELSE Unopened]
    /\ active = 1
    /\ due = {}
    /\ credit = Nobody
    /\ driver = Start
    /\ closureFiles = {}
    /\ meddles = 0

ClosureNext == DriverStep \/ Meddle \/ TimePasses

ClosureSpec == ClosureInit /\ [][ClosureNext]_closureVars

-----------------------------------------------------------------------------
(* What the evidence of a pass says is true, whatever strangers did while  *)
(* it was gathered: both rounds are settled, every participant went        *)
(* through both passes, in the first round A and B took part, one of them  *)
(* won and each of them did the settlement work the evidence credits them  *)
(* with; the second round had A alone.                                     *)
ClosureIsTrue ==
    closureFiles /= {} =>
        /\ \A r \in {1, 2} :
               /\ State(r) = "SETTLED"
               /\ Total(rounds[r].selectedBy) = Count(r) /\ Total(rounds[r].allocatedBy) = Count(r)
        /\ {"A", "B"} \subseteq rounds[1].members
        /\ rounds[1].winner \in {"A", "B"}
        /\ rounds[1].selectedBy["B"] = 2 /\ rounds[1].allocatedBy["A"] = 2
        /\ rounds[2].members = {"A"} /\ rounds[2].winner = "A"
=============================================================================
