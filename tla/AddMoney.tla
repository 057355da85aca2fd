------------------------------ MODULE AddMoney ------------------------------
(***************************************************************************)
(* The transaction flows of the V2 app in the browser                      *)
(* (frontend/components/final-ui/v2-functional-state.tsx and               *)
(* frontend/lib/leopold/v2-actions.ts): a flow is a sequence of writes,    *)
(* each one simulated, signed in the wallet and awaited.  The page keeps   *)
(* a list of public records in local storage; it can be reloaded between   *)
(* any two steps, RPC nodes may not answer, the user may refuse to sign,   *)
(* and a transaction may be mined long after the page stopped waiting.     *)
(*                                                                         *)
(* One account in one browser profile.  Amounts are small numbers; what a  *)
(* call does on chain is what these flows see of it.                       *)
(***************************************************************************)
EXTENDS Integers, Sequences, FiniteSets

CONSTANTS
  Kinds,                        \* which flows the user may start
  Amounts,                      \* amounts the user may type
  BOND_AMOUNT,                  \* of the escrow
  Draws,                        \* draws funded by Prize Savings: draws = 2n
  RECORDS,                      \* how many records local storage keeps: 20
  StartLedger,                  \* the account's balances at first
  MaxOps, MaxTx, MaxSearches    \* bounds: operations, writes, searches at once

\* The flows there are, and room for a number of records.
ASSUME FlowConfiguration ==
  /\ Kinds \subseteq {"add-money", "withdraw-savings", "withdraw-winnings", "prize-enable",
                      "prize-disable", "entry-top-up", "entry-withdraw", "claim-refund", "claim-reward"}
  /\ RECORDS \in Nat

VARIABLES
  ledger,       \* the account's balances on chain
  txs,          \* transactions of the account: a hash is an index
  store,        \* window.localStorage, newest record first
  ui,           \* action: what the page shows of the last operation
  recovery,     \* addMoneyRecovery: the operation to resume, or {}
  blocked,      \* addMoneyRecoveryBlocked
  flows,        \* calls of runAction that are under way
  searches,     \* calls of discoverAddMoneyRecovery that await the chain
  due,          \* the effect that searches has to run again
  ops           \* operations so far

pageVars == <<ui, recovery, blocked, flows, searches, due, ops>>
vars == <<ledger, txs, store, pageVars>>

-----------------------------------------------------------------------------
(* The chain.                                                              *)

Call(name, amount) == [call |-> name, amount |-> amount]

\* external: the guards of the contracts (a confidential transfer has none).
Executes(l, c) ==
  /\ c.call = "wrap" => l.usdc >= c.amount /\ l.allowance >= c.amount
  /\ c.call = "finalizeUnwrap" => l.requested > 0
  /\ c.call = "withdrawCredit" => l.credit >= c.amount
  /\ c.call = "claimRefund" => l.refund > 0
  /\ c.call = "claimReward" => l.reward > 0

\* external: what a confidential transfer moves.
Moves(available, amount) == IF available >= amount THEN amount ELSE 0

\* external: the balances after a call.
After(l, c) ==
  CASE c.call = "approve"        -> [l EXCEPT !.allowance = c.amount]
    [] c.call = "wrap"           -> [l EXCEPT !.usdc = @ - c.amount, !.allowance = @ - c.amount,
                                              !.wrapped = @ + c.amount]
    [] c.call = "save"           -> [l EXCEPT !.wrapped = @ - Moves(l.wrapped, c.amount),
                                              !.savings = @ + Moves(l.wrapped, c.amount)]
    [] c.call = "withdraw"       -> [l EXCEPT !.savings = @ - Moves(l.savings, c.amount),
                                              !.wrapped = @ + Moves(l.savings, c.amount)]
    [] c.call = "withdrawWinnings" -> [l EXCEPT !.winnings = @ - Moves(l.winnings, c.amount),
                                                !.wrapped = @ + Moves(l.winnings, c.amount)]
    [] c.call = "unwrap"         -> [l EXCEPT !.wrapped = @ - Moves(l.wrapped, c.amount),
                                              !.requested = Moves(l.wrapped, c.amount)]
    [] c.call = "finalizeUnwrap" -> [l EXCEPT !.usdc = @ + l.requested, !.requested = 0]
    [] c.call = "depositCredit"  -> [l EXCEPT !.credit = @ + c.amount]
    [] c.call = "withdrawCredit" -> [l EXCEPT !.credit = @ - c.amount]
    [] c.call = "autoOn"         -> [l EXCEPT !.auto = TRUE]
    [] c.call = "autoOff"        -> [l EXCEPT !.auto = FALSE]
    [] c.call = "claimRefund"    -> [l EXCEPT !.refund = 0]
    [] c.call = "claimReward"    -> [l EXCEPT !.reward = 0]

\* external: a block with the transaction.
Mine(h) ==
  /\ txs[h].status = "pending"
  /\ txs' = [txs EXCEPT ![h].status = IF Executes(ledger, txs[h].c) THEN "success" ELSE "reverted"]
  /\ ledger' = IF Executes(ledger, txs[h].c) THEN After(ledger, txs[h].c) ELSE ledger
  /\ UNCHANGED <<store, pageVars>>

Status(h) == txs[h].status

-----------------------------------------------------------------------------
(* Local storage.                                                          *)

\* The stage of Add Money that a write belongs to.
addMoneyStageForWrite(call) ==
  CASE call = "approve" -> "approval" [] call = "wrap" -> "wrap" [] call = "save" -> "save"
    [] OTHER -> "none"

\* id: 0 for the operation, i for its write i, -1 for its failure.
Record(f, id, stage, hash, ostage) ==
  [op |-> f.op, id |-> id, kind |-> f.kind, stage |-> stage, hash |-> hash, ostage |-> ostage]

\* The list without the record that r replaces.
Others(list, r) ==
  LET upTo[i \in 0 .. Len(list)] ==
        IF i = 0 THEN <<>>
        ELSE IF list[i].op = r.op /\ list[i].id = r.id THEN upTo[i - 1]
        ELSE Append(upTo[i - 1], list[i])
  IN upTo[Len(list)]

persistSafeTransaction(list, r) ==
  LET kept == <<r>> \o Others(list, r)
  IN SubSeq(kept, 1, IF Len(kept) < RECORDS THEN Len(kept) ELSE RECORDS)

\* The stage a record has while its hash is awaited.
confirmingStage(ostage) == IF ostage = "none" THEN "confirming" ELSE "stage-confirming"

isUnresolvedV2Transaction(r) == r.hash # 0 /\ r.stage = "confirming"

\* The newest of some places in the list.
Newest(places) == {i \in places : \A j \in places : i <= j}

UnresolvedPlaces == {i \in DOMAIN store : isUnresolvedV2Transaction(store[i])}
UnresolvedRecords == {store[i] : i \in UnresolvedPlaces}

\* findLatestV2AddMoneyCheckpoint: where the records of the operation written last are.
Checkpoint ==
  LET ofAddMoney == {i \in DOMAIN store : store[i].kind = "add-money"}
  IN {i \in ofAddMoney : \E j \in Newest(ofAddMoney) : store[i].op = store[j].op}

\* The newest record of a stage, one with a hash if there is one.
latestForStage(places, stage) ==
  LET ofStage == {i \in places : store[i].ostage = stage}
      hashed == {i \in ofStage : store[i].hash # 0}
  IN {store[i] : i \in Newest(IF hashed # {} THEN hashed ELSE ofStage)}

-----------------------------------------------------------------------------
(* runAction                                                               *)

Busy == ui.status \in {"running", "pending"}

Show(status, hashes) ==
  /\ ui' = [status |-> status, hashes |-> hashes]
  /\ due' = (due \/ status # ui.status)

NewFlow(kind, amount) ==
  [op |-> ops + 1, kind |-> kind, amount |-> amount, resume |-> "none", phase |-> "session",
   todo |-> <<>>, hash |-> 0, hashes |-> {}, writes |-> 0, confirmed |-> {}, last |-> "none"]

ResumedFlow(r) ==
  [NewFlow("add-money", r.amount) EXCEPT
     !.op = r.op, !.resume = r.stage, !.hashes = r.hashes, !.writes = Cardinality(r.hashes),
     !.confirmed = r.confirmed]

\* A dialog is submitted while an unresolved hash is stored: the page only waits for it.
SubmitRefused ==
  /\ ~Busy /\ ~blocked
  /\ UnresolvedRecords # {}
  /\ Show("pending", {store[i].hash : i \in Newest(UnresolvedPlaces)})
  /\ UNCHANGED <<ledger, txs, store, recovery, blocked, flows, searches, ops>>

\* submitDialog, runAmountAction: a flow begins, or Add Money is resumed.
Submit(kind, amount) ==
  /\ ~Busy /\ ~blocked
  /\ UnresolvedRecords = {}
  /\ IF kind = "add-money" /\ recovery # {}
     THEN /\ \E r \in recovery : r.amount = amount /\ flows' = flows \cup {ResumedFlow(r)}
                                 /\ Show("running", r.hashes)
          /\ UNCHANGED ops
     ELSE /\ ops < MaxOps
          /\ flows' = flows \cup {NewFlow(kind, amount)}
          /\ ops' = ops + 1
          /\ Show("running", {})
  /\ UNCHANGED <<ledger, txs, store, recovery, blocked, searches>>

Becomes(f, g) == flows' = (flows \ {f}) \cup {g}

\* The end of a flow that failed before a hash, or with the reverted hash h.
Fail(f, ostage, h) ==
  /\ store' = persistSafeTransaction(store, Record(f, -1, "failed", h, ostage))
  /\ flows' = flows \ {f}
  /\ blocked' = (blocked \/ (f.kind = "add-money" /\ f.confirmed # {} /\ "save" \notin f.confirmed))
  /\ Show("error", f.hashes)
  /\ UNCHANGED <<ledger, txs, recovery, searches, ops>>

\* requireConnectedFinancialSession throws: there is no record yet.
SessionRefused(f) ==
  /\ f.phase = "session"
  /\ flows' = flows \ {f}
  /\ blocked' = (blocked \/ f.confirmed # {})
  /\ Show("error", f.hashes)
  /\ UNCHANGED <<ledger, txs, store, recovery, searches, ops>>

Session(f) ==
  /\ f.phase = "session"
  /\ store' = IF f.resume = "none"
              THEN persistSafeTransaction(store, Record(f, 0, "wallet", 0, "none")) ELSE store
  /\ Becomes(f, [f EXCEPT !.phase = "read"])
  /\ UNCHANGED <<ledger, txs, ui, recovery, blocked, searches, due, ops>>

\* addV2Money: what is left to do for an amount, by the allowance read first.
addV2Money(l, amount) ==
  (IF l.allowance < amount THEN <<Call("approve", amount)>> ELSE <<>>)
    \o <<Call("wrap", amount), Call("save", amount)>>

\* resumeV2AddMoneySave, resumeV2AddMoneyAfterApproval.
resumeV2AddMoney(l, stage, amount) ==
  CASE stage = "save" -> <<Call("save", amount)>>
    [] stage = "wrap" -> addV2Money(l, amount)

\* withdrawV2Asset, unwrapToUsdc.
withdrawV2Asset(call, amount) ==
  <<Call(call, amount), Call("unwrap", amount), Call("finalizeUnwrap", amount)>>

enableV2PrizeSavings(l) ==
  IF l.auto THEN <<>>
  ELSE (IF l.credit < BOND_AMOUNT * Draws
        THEN <<Call("depositCredit", BOND_AMOUNT * Draws - l.credit)>> ELSE <<>>)
         \o <<Call("autoOn", 0)>>

\* The writes of a flow, from the state of the chain it reads first.
Plan(f) ==
  CASE f.kind = "add-money"         -> IF f.resume = "none" THEN addV2Money(ledger, f.amount)
                                       ELSE resumeV2AddMoney(ledger, f.resume, f.amount)
    [] f.kind = "withdraw-savings"  -> withdrawV2Asset("withdraw", f.amount)
    [] f.kind = "withdraw-winnings" -> withdrawV2Asset("withdrawWinnings", f.amount)
    [] f.kind = "prize-enable"      -> enableV2PrizeSavings(ledger)
    [] f.kind = "prize-disable"     -> IF ledger.auto THEN <<Call("autoOff", 0)>> ELSE <<>>
    [] f.kind = "entry-top-up"      -> <<Call("depositCredit", f.amount)>>
    [] f.kind = "entry-withdraw"    -> <<Call("withdrawCredit", f.amount)>>
    [] f.kind = "claim-refund"      -> <<Call("claimRefund", 0)>>
    [] f.kind = "claim-reward"      -> <<Call("claimReward", 0)>>

\* The reads of a flow find what it needs.
Ready(f) ==
  /\ (f.kind = "add-money" /\ (f.resume = "none" \/ (f.resume = "wrap" /\ ledger.allowance < f.amount)))
       => ledger.usdc >= f.amount
  /\ f.kind = "withdraw-savings"  => ledger.savings >= f.amount
  /\ f.kind = "withdraw-winnings" => ledger.winnings >= f.amount
  /\ f.kind = "entry-withdraw"    => ledger.credit >= f.amount
  /\ f.kind = "claim-refund"      => ledger.refund > 0
  /\ f.kind = "claim-reward"      => ledger.reward > 0

Reads(f) ==
  /\ f.phase = "read" /\ Ready(f)
  /\ Becomes(f, [f EXCEPT !.todo = Plan(f), !.phase = "simulate"])
  /\ UNCHANGED <<ledger, txs, store, ui, recovery, blocked, searches, due, ops>>

\* A read that fails, or that shows too little.
ReadsFail(f) == f.phase = "read" /\ Fail(f, "none", 0)

Simulates(f) ==
  /\ f.phase = "simulate" /\ f.todo # <<>>
  /\ Executes(ledger, Head(f.todo))
  /\ Becomes(f, [f EXCEPT !.phase = "sign"])
  /\ UNCHANGED <<ledger, txs, store, ui, recovery, blocked, searches, due, ops>>

\* The simulation reverts, no node answers it within three attempts, or the wallet does not sign.
WriteRefused(f) ==
  /\ f.phase \in {"simulate", "sign"} /\ f.todo # <<>>
  /\ LET stage == addMoneyStageForWrite(Head(f.todo).call)
     IN Fail(f, IF stage = "none" THEN f.last ELSE stage, 0)

\* The transaction is broadcast; known: the page got its hash.
Sent(f, known) ==
  Append(txs, [op |-> f.op, c |-> Head(f.todo), status |-> "pending", known |-> known])

\* writeV2: the wallet returns a hash, and onHash stores it.
Signs(f) ==
  /\ f.phase = "sign" /\ Len(txs) < MaxTx
  /\ LET h == Len(txs) + 1
         stage == addMoneyStageForWrite(Head(f.todo).call)
         g == [f EXCEPT !.phase = "wait", !.hash = h, !.hashes = @ \cup {h},
                        !.writes = @ + 1, !.last = stage]
     IN /\ txs' = Sent(f, TRUE)
        /\ store' = persistSafeTransaction(store, Record(f, g.writes, confirmingStage(stage), h, stage))
        /\ Becomes(f, g)
        /\ ui' = [ui EXCEPT !.hashes = g.hashes]
  /\ UNCHANGED <<ledger, recovery, blocked, searches, due, ops>>

\* What the flow reads back after a write.
Verified(f) ==
  LET c == Head(f.todo)
  IN /\ c.call = "approve" => ledger.allowance >= c.amount
     /\ c.call = "unwrap" => ledger.requested = c.amount
     /\ c.call = "autoOn" => ledger.auto
     /\ c.call = "autoOff" => ~ledger.auto
     /\ f.kind = "entry-top-up" => ledger.credit >= c.amount

\* Mutant: any receipt counts as success.
AnyReceipt(f) ==
  /\ f.phase = "wait" /\ Status(f.hash) # "pending"
  /\ store' = persistSafeTransaction(store, Record(f, f.writes, "complete", f.hash, f.last))
  /\ Becomes(f, [f EXCEPT !.phase = "verify", !.confirmed = @ \cup ({f.last} \ {"none"})])
  /\ UNCHANGED <<ledger, txs, ui, recovery, blocked, searches, due, ops>>

\* waitForTransactionReceipt returns a success, and onReceipt stores it.
Receives(f) ==
  /\ f.phase = "wait" /\ Status(f.hash) = "success"
  /\ store' = persistSafeTransaction(store, Record(f, f.writes, "complete", f.hash, f.last))
  /\ Becomes(f, [f EXCEPT !.phase = "verify", !.confirmed = @ \cup ({f.last} \ {"none"})])
  /\ UNCHANGED <<ledger, txs, ui, recovery, blocked, searches, due, ops>>

ReceivesRevert(f) == f.phase = "wait" /\ Status(f.hash) = "reverted" /\ Fail(f, f.last, f.hash)

\* Mutant: after an unanswered receipt read the flow goes on with its next write.
MovesOn(f) ==
  /\ f.phase = "wait"
  /\ Becomes(f, [f EXCEPT !.phase = "verify"])
  /\ UNCHANGED <<ledger, txs, store, ui, recovery, blocked, searches, due, ops>>

\* The receipt read fails: the hash stays pending, and so does the page.
ReceiptUnknown(f) ==
  /\ f.phase = "wait"
  /\ store' = persistSafeTransaction(store, Record(f, f.writes, confirmingStage(f.last), f.hash, f.last))
  /\ flows' = flows \ {f}
  /\ Show("pending", f.hashes)
  /\ UNCHANGED <<ledger, txs, recovery, blocked, searches, ops>>

\* The write is confirmed: on to the next one.
Verifies(f) ==
  /\ f.phase = "verify"
  /\ IF Verified(f)
     THEN /\ Becomes(f, [f EXCEPT !.todo = Tail(@), !.phase = "simulate"])
          /\ UNCHANGED <<ledger, txs, store, ui, recovery, blocked, searches, due, ops>>
     ELSE Fail(f, f.last, 0)

\* The read after a write fails.
VerifyFails(f) == f.phase = "verify" /\ Fail(f, f.last, 0)

\* The operation returns: the last hash is complete, and nothing is left to resume.
Finishes(f) ==
  /\ f.phase = "simulate" /\ f.todo = <<>>
  /\ store' = persistSafeTransaction(store,
                Record(f, IF f.hash = 0 THEN 0 ELSE f.writes, "complete", f.hash, f.last))
  /\ flows' = flows \ {f}
  /\ recovery' = IF f.kind = "add-money" THEN {} ELSE recovery
  /\ blocked' = (blocked /\ f.kind # "add-money")
  /\ Show("success", f.hashes)
  /\ UNCHANGED <<ledger, txs, searches, ops>>

-----------------------------------------------------------------------------
(* Timers, effects and reloads.                                            *)

\* reconcilePendingTransactions finds unresolved hashes on an idle page.
Announce ==
  /\ ui.status = "idle" /\ UnresolvedRecords # {}
  /\ Show("pending", {r.hash : r \in UnresolvedRecords})
  /\ UNCHANGED <<ledger, txs, store, recovery, blocked, flows, searches, ops>>

\* Mutant: a receipt that reports a revert is not taken for an answer.
ReconcileSuccess(r) ==
  /\ Status(r.hash) = "success"
  /\ store' = persistSafeTransaction(store, [r EXCEPT !.stage = "complete"])
  /\ IF ui.status = "pending" /\ r.hash \in ui.hashes
     THEN Show("success", ui.hashes) ELSE UNCHANGED <<ui, due>>
  /\ UNCHANGED <<ledger, txs, recovery, blocked, flows, searches, ops>>

\* reconcileV2Transaction: the stored hash has a receipt.
Reconcile(r) ==
  /\ Status(r.hash) # "pending"
  /\ store' = persistSafeTransaction(store,
                [r EXCEPT !.stage = IF Status(r.hash) = "success" THEN "complete" ELSE "failed"])
  /\ IF ui.status = "pending" /\ r.hash \in ui.hashes
     THEN Show(IF Status(r.hash) = "success" THEN "success" ELSE "error", ui.hashes)
     ELSE UNCHANGED <<ui, due>>
  /\ UNCHANGED <<ledger, txs, recovery, blocked, flows, searches, ops>>

ConfirmedHash(places, stage) ==
  {r.hash : r \in {x \in latestForStage(places, stage) : x.stage = "complete" /\ x.hash # 0}}

\* discoverAddMoneyRecovery, up to its await: what the records say can be resumed.
Search ==
  /\ due /\ ~Busy
  /\ due' = FALSE
  /\ LET records == Checkpoint
         approval == ConfirmedHash(records, "approval")
         wrap == ConfirmedHash(records, "wrap")
         open == {s \in {"approval", "wrap", "save"} :
                    \E r \in latestForStage(records, s) : isUnresolvedV2Transaction(r)}
         saved == \E r \in latestForStage(records, "save") : r.stage = "complete"
     IN /\ blocked' = (blocked /\ records # {})
        /\ searches' =
             IF saved \/ open # {} THEN searches
             ELSE searches \cup
                    {[op |-> store[i].op, stage |-> IF wrap # {} THEN "save" ELSE "wrap", hash |-> h,
                      hashes |-> approval \cup wrap,
                      confirmed |-> (IF approval # {} THEN {"approval"} ELSE {})
                                      \cup (IF wrap # {} THEN {"wrap"} ELSE {})] :
                      i \in Newest(records), h \in IF wrap # {} THEN wrap ELSE approval}
        /\ Cardinality(searches') <= MaxSearches
  /\ UNCHANGED <<ledger, txs, store, ui, recovery, flows, ops>>

\* recoverConfirmedV2Wrap, recoverConfirmedV2Approval: the amount comes from the transaction.
Found(s) ==
  /\ Status(s.hash) = "success"
  /\ searches' = searches \ {s}
  /\ recovery' = {[op |-> s.op, stage |-> s.stage, amount |-> txs[s.hash].c.amount,
                   hashes |-> s.hashes, confirmed |-> s.confirmed]}
  /\ blocked' = FALSE
  /\ Show("error", s.hashes)
  /\ UNCHANGED <<ledger, txs, store, flows, ops>>

\* The chain does not confirm it, or does not answer.
NotFound(s) ==
  /\ searches' = searches \ {s}
  /\ recovery' = {}
  /\ blocked' = TRUE
  /\ Show("error", s.hashes)
  /\ UNCHANGED <<ledger, txs, store, flows, ops>>

\* The page is loaded again; a flow may have been about to store a hash.
Reload ==
  /\ ui' = [status |-> "idle", hashes |-> {}]
  /\ due' = TRUE
  /\ recovery' = {} /\ blocked' = FALSE /\ flows' = {} /\ searches' = {}
  /\ \/ txs' = txs
     \/ \E f \in flows : f.phase = "sign" /\ Len(txs) < MaxTx /\ txs' = Sent(f, FALSE)
  /\ UNCHANGED <<ledger, store, ops>>

-----------------------------------------------------------------------------
Init ==
  /\ ledger = StartLedger
  /\ txs = <<>> /\ store = <<>>
  /\ ui = [status |-> "idle", hashes |-> {}]
  /\ recovery = {} /\ blocked = FALSE /\ flows = {} /\ searches = {}
  /\ due = TRUE
  /\ ops = 0

\* A flow goes on.
FlowStep(f) ==
  \/ Session(f) \/ Reads(f) \/ Simulates(f) \/ Signs(f)
  \/ Receives(f) \/ ReceivesRevert(f) \/ Verifies(f) \/ Finishes(f)

\* A node or the wallet does not answer, the user refuses, or the page is loaded again.
Fault ==
  \/ \E f \in flows : \/ SessionRefused(f) \/ ReadsFail(f) \/ WriteRefused(f)
                      \/ ReceiptUnknown(f) \/ VerifyFails(f)
  \/ \E s \in searches : NotFound(s)
  \/ Reload

UserStep == SubmitRefused \/ \E k \in Kinds, a \in Amounts : Submit(k, a)

PageStep ==
  \/ \E f \in flows : FlowStep(f)
  \/ Announce \/ \E r \in UnresolvedRecords : Reconcile(r)
  \/ Search \/ \E s \in searches : Found(s)

ChainStep == \E h \in DOMAIN txs : Mine(h)

Next == UserStep \/ PageStep \/ ChainStep \/ Fault

\* Blocks go on, and the timers of an open page fire.
Fairness ==
  /\ \A h \in 1..MaxTx : WF_vars(h \in DOMAIN txs /\ Mine(h))
  /\ \A h \in 1..MaxTx : SF_vars(\E r \in UnresolvedRecords : r.hash = h /\ Reconcile(r))

Spec == Init /\ [][Next]_vars
LiveSpec == Spec /\ Fairness

-----------------------------------------------------------------------------
(* Properties.                                                             *)

\* The history never says more than the chain: a complete write succeeded, a failed hash reverted.
RecordsAreTrue ==
  \A i \in DOMAIN store :
    LET r == store[i]
    IN r.hash # 0 => /\ r.stage = "complete" => Status(r.hash) = "success"
                     /\ r.stage = "failed" => Status(r.hash) = "reverted"

Predecessor == [save |-> {"wrap"}, unwrap |-> {"withdraw", "withdrawWinnings"},
                finalizeUnwrap |-> {"unwrap"}]

\* Money moves in order: whatever was reloaded, resumed or found again, a write that spends what
\* an earlier one of its operation made available is signed after that one succeeded, and for the
\* same amount.
StepsInOrder ==
  \A h \in DOMAIN txs :
    txs[h].c.call \in DOMAIN Predecessor =>
      \E g \in 1..(h - 1) : /\ txs[g].op = txs[h].op
                            /\ txs[g].c.call \in Predecessor[txs[h].c.call]
                            /\ txs[g].c.amount = txs[h].c.amount
                            /\ Status(g) = "success"

\* A stored hash that the page tracks is resolved in the end, also after a reload.
PendingIsResolved ==
  \A h \in 1..MaxTx :
    (\E r \in UnresolvedRecords : r.hash = h) ~> ~(\E r \in UnresolvedRecords : r.hash = h)

\* v2-actions.test.ts: "does not duplicate save while the save hash is pending".  A hash the page
\* was given is the submission: its write is not signed again while it is pending.
NoDuplicateWhilePending ==
  \A g, h \in DOMAIN txs :
    (g # h /\ txs[g].op = txs[h].op /\ txs[g].c.call = txs[h].c.call /\ txs[g].known /\ txs[h].known)
      => ~(Status(g) = "pending" /\ Status(h) = "pending")
=============================================================================
