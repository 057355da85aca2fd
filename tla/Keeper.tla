------------------------------- MODULE Keeper -------------------------------
(***************************************************************************)
(* The lifecycle keeper (keeper/src): a process that reads the chain,      *)
(* plans one action of a round's lifecycle, journals and broadcasts a      *)
(* transaction for it, and reconciles every attempt with the chain before  *)
(* it plans the next one.  Other callers advance the same rounds, blocks   *)
(* are reorganised, broadcasts fail half way and the process can die       *)
(* between any two of its steps; only the journal survives.                *)
(*                                                                         *)
(* A round's lifecycle is a path of positions through the round states.    *)
(* What the planner and the contract distinguish about the action of a     *)
(* position is in Lifecycle:                                               *)
(*   required  : isActionRequired is the same for equal values (the state  *)
(*               of the round, and the cursor where there is one),         *)
(*   call      : the function of the vault,                                *)
(*   proof     : the call carries a proof for this position's own handle,  *)
(*   needsOpen : the vault wants the active round open (allocation).       *)
(***************************************************************************)
EXTENDS Integers, Sequences, FiniteSets

CONSTANTS
  Lifecycle,
  CONFIRMATIONS,                \* KEEPER_CONFIRMATIONS
  MaxAttempts, MaxRound         \* bounds of the model

ASSUME KeeperConfiguration ==
  /\ Lifecycle \in Seq([required : STRING, call : STRING, proof : BOOLEAN, needsOpen : BOOLEAN])
  /\ CONFIRMATIONS \in Nat \ {0}
  /\ MaxAttempts \in Nat /\ MaxRound \in Nat

VARIABLES
  final,        \* the chain up to its last block with CONFIRMATIONS confirmations
  recent,       \* the blocks after it, which a reorganisation may drop
  mempool,      \* transactions that the keeper's RPC nodes know as pending
  unseen,       \* transactions that only other nodes know
  journal,      \* the journal's attempts, oldest first (durable)
  aged,         \* attempts submitted at least receiptWaitMs ago
  signed,       \* how many transactions were signed: a transaction's hash
  pc,           \* where the process is
  work          \* its local variables

chainVars == <<final, recent, mempool, unseen>>
journalVars == <<journal, aged>>
processVars == <<signed, pc, work>>
keeperVars == <<chainVars, journalVars, processVars>>

\* What a snapshot shows of the vault.
ChainState == [pos : 1..(Len(Lifecycle) + 1), active : Nat, due : BOOLEAN]

Action == [kind : {"close-round"}, n : Nat]
            \cup [kind : {"settle"}, n : 1..Len(Lifecycle)]

Transaction == [hash : Nat, action : Action, nonce : Nat]
Receipt == [tx : Transaction, ok : BOOLEAN]
Block == [state : ChainState, receipts : SUBSET Receipt]

JournalStatus == {"prepared", "submitted", "confirmed", "reconciled", "obsolete", "reorged",
                  "reverted", "unknown"}

\* An attempt in the journal, with the statuses of its history.
Attempt == [tx : Transaction, status : JournalStatus, history : SUBSET JournalStatus]

unresolvedStatuses == {"prepared", "submitted", "confirmed", "unknown", "reverted"}

NoWork == [entry |-> 0, waiting |-> FALSE, receipt |-> "none", required |-> FALSE,
           action |-> {}, tx |-> {}, sent |-> FALSE]

KeeperInit ==
  /\ final = [state |-> [pos |-> 1, active |-> 1, due |-> FALSE], receipts |-> {}]
  /\ recent = <<>>
  /\ mempool = {}
  /\ unseen = {}
  /\ journal = <<>>
  /\ aged = {}
  /\ signed = 0
  /\ pc = "idle"
  /\ work = NoWork

-----------------------------------------------------------------------------
(* The chain (external). *)

HeadBlock == IF recent = <<>> THEN final ELSE recent[Len(recent)]

Shallow == UNION {recent[k].receipts : k \in 1..Len(recent)}

Mined == final.receipts \cup Shallow

\* Is the action still to be done, as isActionRequired reads it from a state?
IsActionRequired(action, state) ==
  IF action.kind = "close-round"
  THEN state.active = action.n /\ state.due
  ELSE /\ state.pos <= Len(Lifecycle)
       /\ Lifecycle[state.pos].required = Lifecycle[action.n].required
       /\ Lifecycle[action.n].needsOpen => ~state.due

\* Would the vault execute the call in this state?  It checks the round's state
\* and, where there is one, the proof; closeRound closes whichever round is active.
Executes(action, state) ==
  IF action.kind = "close-round"
  THEN state.due
  ELSE /\ state.pos <= Len(Lifecycle)
       /\ Lifecycle[state.pos].call = Lifecycle[action.n].call
       /\ Lifecycle[action.n].proof => state.pos = action.n
       /\ Lifecycle[action.n].needsOpen => ~state.due

After(action, state) ==
  IF action.kind = "close-round"
  THEN [state EXCEPT !.active = @ + 1, !.due = FALSE]
  ELSE [state EXCEPT !.pos = @ + 1]

\* planNextAction: due closures come first.
PlanNextAction(state) ==
  IF state.due THEN {[kind |-> "close-round", n |-> state.active]}
  ELSE {[kind |-> "settle", n |-> p] : p \in {state.pos} \cap 1..Len(Lifecycle)}

\* A new block; the oldest recent one may become final by it.
Extend(state, receipts) ==
  LET blocks == Append(recent, [state |-> state, receipts |-> receipts])
  IN  IF Len(blocks) < CONFIRMATIONS
      THEN recent' = blocks /\ UNCHANGED final
      ELSE /\ recent' = Tail(blocks)
           /\ final' = [state |-> blocks[1].state,
                        receipts |-> final.receipts \cup blocks[1].receipts]

MineEmpty ==
  /\ Extend(HeadBlock.state, {})
  /\ UNCHANGED <<mempool, unseen, journalVars, processVars>>

\* The active round's closing time passes.
MineDue ==
  /\ ~HeadBlock.state.due /\ HeadBlock.state.active < MaxRound
  /\ Extend([HeadBlock.state EXCEPT !.due = TRUE], {})
  /\ UNCHANGED <<mempool, unseen, journalVars, processVars>>

\* Another caller makes a call that the vault executes.
MineExternal ==
  /\ \E action \in [kind : {"close-round"}, n : {HeadBlock.state.active}]
                   \cup [kind : {"settle"}, n : {HeadBlock.state.pos}] :
       /\ Executes(action, HeadBlock.state)
       /\ Extend(After(action, HeadBlock.state), {})
  /\ UNCHANGED <<mempool, unseen, journalVars, processVars>>

\* A transaction of the keeper in its turn; what has its nonce is void then.
MineKeeper ==
  /\ \E tx \in mempool \cup unseen :
       LET ok == Executes(tx.action, HeadBlock.state)
           others == {t \in mempool \cup unseen : t.nonce # tx.nonce}
       IN  /\ tx.nonce = Cardinality(Mined)
           /\ Extend(IF ok THEN After(tx.action, HeadBlock.state) ELSE HeadBlock.state,
                     {[tx |-> tx, ok |-> ok]})
           /\ mempool' = mempool \cap others
           /\ unseen' = unseen \cap others
  /\ UNCHANGED <<journalVars, processVars>>

\* The last block is replaced by another branch.
Reorg ==
  /\ recent # <<>>
  /\ recent' = SubSeq(recent, 1, Len(recent) - 1)
  /\ LET dropped == {r.tx : r \in recent[Len(recent)].receipts}
     IN  \/ mempool' = mempool \cup dropped /\ UNCHANGED unseen
         \/ unseen' = unseen \cup dropped /\ UNCHANGED mempool
  /\ UNCHANGED <<final, journalVars, processVars>>

\* The keeper's nodes lose sight of a pending transaction, or see it again.
Evict ==
  /\ \E tx \in mempool : mempool' = mempool \ {tx} /\ unseen' = unseen \cup {tx}
  /\ UNCHANGED <<final, recent, journalVars, processVars>>

Reappear ==
  /\ \E tx \in unseen : mempool' = mempool \cup {tx} /\ unseen' = unseen \ {tx}
  /\ UNCHANGED <<final, recent, journalVars, processVars>>

\* receiptWaitMs passes after an attempt that still waits for its outcome.
Age ==
  /\ \E k \in 1..Len(journal) :
       /\ journal[k].status \in {"prepared", "submitted", "confirmed"}
       /\ journal[k].tx.hash \notin aged
       /\ aged' = aged \cup {journal[k].tx.hash}
  /\ UNCHANGED <<chainVars, journal, processVars>>

-----------------------------------------------------------------------------
(* The process: runOnce, cut where it waits for the chain or the journal.  *)

Unresolved == {k \in 1..Len(journal) : journal[k].status \in unresolvedStatuses}

\* updateEntry and put: a status is added to the history, never replaced in it.
Put(k, status) ==
  journal' = [journal EXCEPT ![k].status = status, ![k].history = @ \cup {status}]

\* reconcileOutstanding: the first unresolved attempt, if there is one.
ReconcileOutstanding ==
  /\ pc \in {"idle", "outstanding"}
  /\ IF Unresolved # {}
     THEN /\ pc' = "receipt"
          /\ work' = [NoWork EXCEPT !.entry = CHOOSE k \in Unresolved :
                                               \A j \in Unresolved : k <= j]
     ELSE pc' = "plan" /\ work' = NoWork
  /\ UNCHANGED <<chainVars, journalVars, signed>>

\* Mutant: a receipt counts as confirmed one block early.
ReceiptViewEarly(tx) ==
  CASE [tx |-> tx, ok |-> TRUE] \in Mined -> "success"
    [] [tx |-> tx, ok |-> FALSE] \in Mined -> "failure"
    [] OTHER -> "none"

\* getReceipt: none, not deep enough yet, or the transaction's result.
ReceiptView(tx) ==
  CASE tx \in {r.tx : r \in Shallow} -> "shallow"
    [] [tx |-> tx, ok |-> TRUE] \in final.receipts -> "success"
    [] [tx |-> tx, ok |-> FALSE] \in final.receipts -> "failure"
    [] OTHER -> "none"

ReadReceipt ==
  /\ pc = "receipt"
  /\ work' = [work EXCEPT !.receipt = ReceiptView(journal[work.entry].tx)]
  /\ pc' = "snapshot"
  /\ UNCHANGED <<chainVars, journalVars, signed>>

\* readSnapshot: the chain may have moved since the receipt was read.
ReadSnapshot ==
  /\ pc = "snapshot"
  /\ work' = [work EXCEPT !.required =
                 IsActionRequired(journal[work.entry].tx.action, HeadBlock.state)]
  /\ pc' = "conclude"
  /\ UNCHANGED <<chainVars, journalVars, signed>>

\* Mutant: an attempt that was never seen on chain is waited for without end.
VerdictWaits(status, receipt, required, known, old) ==
  IF status \in {"unknown", "reverted"} THEN IF required THEN status ELSE "obsolete"
  ELSE IF receipt = "shallow" THEN "confirmed"
  ELSE IF receipt = "success" THEN IF required THEN "unknown" ELSE "reconciled"
  ELSE IF receipt = "failure" THEN IF required THEN "reverted" ELSE "obsolete"
  ELSE IF known THEN "submitted"
  ELSE IF status \in {"prepared", "submitted"} THEN status
  ELSE IF ~required THEN "obsolete"
  ELSE "reorged"

\* The status that reconcileEntry gives an attempt.
Verdict(status, receipt, required, known, old) ==
  IF status \in {"unknown", "reverted"} THEN IF required THEN status ELSE "obsolete"
  ELSE IF receipt = "shallow" THEN "confirmed"
  ELSE IF receipt = "success" THEN IF required THEN "unknown" ELSE "reconciled"
  ELSE IF receipt = "failure" THEN IF required THEN "reverted" ELSE "obsolete"
  ELSE IF known THEN "submitted"
  ELSE IF status \in {"prepared", "submitted"} /\ ~old THEN status
  ELSE IF ~required THEN "obsolete"
  ELSE IF status = "confirmed" THEN "reorged"
  ELSE "unknown"

\* The end of reconcileEntry.  An attempt that stays unresolved ends the run,
\* except that waitAndReconcile looks again until its deadline.  The age of a
\* resolved attempt is never read again.
Conclude ==
  LET attempt == journal[work.entry]
      known == attempt.tx \in mempool \cup {r.tx : r \in Mined}
      old == attempt.tx.hash \in aged
      status == Verdict(attempt.status, work.receipt, work.required, known, old)
  IN  /\ pc = "conclude"
      /\ Put(work.entry, status)
      /\ aged' = IF status \in unresolvedStatuses THEN aged ELSE aged \ {attempt.tx.hash}
      /\ \/ /\ work.waiting /\ status \in {"submitted", "confirmed"}
            /\ pc' = "receipt" /\ work' = [work EXCEPT !.receipt = "none", !.required = FALSE]
         \/ /\ work.waiting /\ (status \notin {"submitted", "confirmed"} \/ old)
            /\ pc' = "idle" /\ work' = NoWork
         \/ /\ ~work.waiting
            /\ pc' = IF status \in unresolvedStatuses THEN "idle" ELSE "outstanding"
            /\ work' = NoWork
      /\ UNCHANGED <<chainVars, signed>>

\* planNextAction on a fresh snapshot; an unresolved attempt of the same action
\* blocks it.
Plan ==
  /\ pc = "plan"
  /\ LET actions == {a \in PlanNextAction(HeadBlock.state) :
                       \A k \in Unresolved : journal[k].tx.action # a}
     IN  IF actions = {} THEN pc' = "idle" /\ work' = NoWork
         ELSE pc' = "simulate" /\ work' = [NoWork EXCEPT !.action = actions]
  /\ UNCHANGED <<chainVars, journalVars, signed>>

\* encodeAction and simulate: a call that would revert now ends the run.
Simulate ==
  /\ pc = "simulate"
  /\ IF \A a \in work.action : Executes(a, HeadBlock.state)
     THEN pc' = "sign" /\ UNCHANGED work
     ELSE pc' = "idle" /\ work' = NoWork
  /\ UNCHANGED <<chainVars, journalVars, signed>>

\* The account's nonce over mined and pending transactions.
PendingNonce ==
  LET used == {t.nonce : t \in mempool}
      count == Cardinality(Mined)
  IN  CHOOSE n \in count..(count + Cardinality(mempool)) :
        n \notin used /\ \A m \in count..(n - 1) : m \in used

Sign ==
  /\ pc = "sign" /\ signed < MaxAttempts
  /\ signed' = signed + 1
  /\ work' = [NoWork EXCEPT !.tx = {[hash |-> signed', action |-> a, nonce |-> PendingNonce] :
                                     a \in work.action}]
  /\ pc' = "persist"
  /\ UNCHANGED <<chainVars, journalVars>>

\* Mutant: the attempt is journalled only after the broadcast.
PersistLater ==
  /\ pc = "persist"
  /\ pc' = "broadcast"
  /\ UNCHANGED <<chainVars, journalVars, signed, work>>

\* journalEntryForPrepared and put, before the broadcast.
Persist ==
  /\ pc = "persist"
  /\ \E tx \in work.tx :
       journal' = Append(journal, [tx |-> tx, status |-> "prepared", history |-> {"prepared"}])
  /\ pc' = "broadcast"
  /\ UNCHANGED <<chainVars, aged, signed, work>>

\* broadcast that succeeds; a nonce that was used meanwhile is refused.
Broadcast ==
  /\ pc = "broadcast"
  /\ \A tx \in work.tx : tx.nonce >= Cardinality(Mined)
  /\ mempool' = mempool \cup work.tx
  /\ work' = [work EXCEPT !.sent = TRUE]
  /\ pc' = "record"
  /\ UNCHANGED <<final, recent, unseen, journalVars, signed>>

\* broadcast that throws, whether or not a node took the transaction.
BroadcastThrows ==
  /\ pc = "broadcast"
  /\ \/ UNCHANGED <<mempool, unseen>>
     \/ mempool' = mempool \cup work.tx /\ UNCHANGED unseen
     \/ unseen' = unseen \cup work.tx /\ UNCHANGED mempool
  /\ pc' = "record"
  /\ UNCHANGED <<final, recent, journalVars, signed, work>>

\* A refused broadcast is no fault of the network.
BroadcastRefused ==
  /\ pc = "broadcast"
  /\ \E tx \in work.tx : tx.nonce < Cardinality(Mined)
  /\ pc' = "record"
  /\ UNCHANGED <<chainVars, journalVars, signed, work>>

\* put of the outcome; after a success waitAndReconcile begins.
Record ==
  /\ pc = "record"
  /\ Put(Len(journal), IF work.sent THEN "submitted" ELSE "unknown")
  /\ IF work.sent
     THEN pc' = "receipt" /\ work' = [NoWork EXCEPT !.entry = Len(journal), !.waiting = TRUE]
     ELSE pc' = "idle" /\ work' = NoWork
  /\ UNCHANGED <<chainVars, aged, signed>>

\* The process dies; its lock stays until an operator removes it.
Crash ==
  /\ pc # "down"
  /\ pc' = "down"
  /\ work' = NoWork
  /\ UNCHANGED <<chainVars, journalVars, signed>>

Restart ==
  /\ pc = "down"
  /\ pc' = "idle"
  /\ UNCHANGED <<chainVars, journalVars, signed, work>>

\* A read, a proof or a check of the balance throws: the poll is given up.
PollFails ==
  /\ pc \in {"outstanding", "receipt", "snapshot", "conclude", "plan", "simulate", "sign", "persist"}
  /\ pc' = "idle"
  /\ work' = NoWork
  /\ UNCHANGED <<chainVars, journalVars, signed>>

-----------------------------------------------------------------------------
RunStep ==
  \/ ReconcileOutstanding
  \/ ReadReceipt
  \/ ReadSnapshot
  \/ Conclude
  \/ Plan
  \/ Simulate
  \/ Sign
  \/ Persist
  \/ Broadcast
  \/ BroadcastRefused
  \/ Record
  \/ Restart

FaultStep ==
  \/ Crash
  \/ PollFails
  \/ BroadcastThrows
  \/ Evict
  \/ Reorg

ChainStep == MineEmpty \/ MineDue \/ MineExternal \/ MineKeeper \/ Reappear \/ Age

KeeperNext == RunStep \/ FaultStep \/ ChainStep

KeeperSpec == KeeperInit /\ [][KeeperNext]_keeperVars

\* The service manager keeps the process polling, blocks are produced, pending
\* transactions that can be mined are, and time passes.
KeeperFairness ==
  /\ WF_keeperVars(RunStep)
  /\ WF_keeperVars(MineEmpty)
  /\ WF_keeperVars(MineKeeper)
  /\ WF_keeperVars(Age)

-----------------------------------------------------------------------------
(* Properties. *)

\* "Persists one permissionless lifecycle action, broadcasts once, and reconciles
\* its hash": whatever the network has of the keeper is in its journal, wherever
\* the process died, and at most one attempt of the journal still waits for its
\* outcome, whatever was restarted, polled in vain or replayed.
BroadcastIsJournalled ==
  /\ final \in Block /\ journal \in Seq(Attempt)
  /\ \A tx \in mempool \cup unseen \cup {r.tx : r \in Mined} :
       \E k \in 1..Len(journal) : journal[k].tx = tx
  /\ Cardinality({k \in 1..Len(journal) :
                    journal[k].status \notin {"reconciled", "obsolete", "reorged"}}) <= 1

\* What the journal calls reconciled has been executed and stays executed, as
\* long as no reorganisation is as deep as CONFIRMATIONS.
ReconciledIsFinal ==
  \A k \in 1..Len(journal) :
    journal[k].status = "reconciled" => [tx |-> journal[k].tx, ok |-> TRUE] \in final.receipts

Finished == HeadBlock.state.pos > Len(Lifecycle)

NeedsReview == \E k \in 1..Len(journal) : journal[k].status \in {"unknown", "reverted"}

\* The keeper never waits in silence: the round is settled, or some attempt is
\* flagged for an operator's review.
KeeperAdvances == []<>(Finished \/ NeedsReview)
=============================================================================
