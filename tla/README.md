# Leopold: a TLA+ model of the prize-savings protocol and what is built around it

Leopold is a confidential, no-loss prize-savings protocol. Savers deposit a confidential token
into a vault, post a bond to take part in a round, and the round's prize (sponsored money and
yield) goes to one of them, drawn with a probability proportional to the time-weighted balance.
Amounts are encrypted (FHE); what has to become public is decrypted with a proof. A keeper
process makes the permissionless calls that close and settle rounds, a web page moves the savers'
money, and a set of scripts deploys, measures and certifies all of it.

The project models the contracts that hold money, the keeper, the two stateful parts of the page,
and the scripts whose verdict somebody relies on. Paths are relative to the repository.

## 1. Inventory

| Component | State | Operations | Why it is hard |
|---|---|---|---|
| `contracts/LeopoldVault.sol`: savings and rounds | principal, checkpoints, eligibility, rounds, prize buckets | deposit callback, withdraw, sponsor, preference, register, close | rounds overlap; a close may come late; several changes in one block; ciphertexts wrap silently |
| same: draw and settlement | candidate, ticket, cursors, winner predicate | aggregate, candidate, validity, selection, reconciliation, allocation, finalization, recovery | two chunked passes by anyone, in several rounds at once; stale proofs; a failed reconciliation |
| `contracts/LeopoldSettlementBondEscrow.sol` | ledgers per round, credits, global liabilities | register, credit, finalize, claim, withdraw | one pot for many rounds; checked arithmetic that could lock a payout |
| `LeopoldVault.sol`: strategy epochs | buckets of principal, active epoch | open, request, finalize, harvest, pause, unwind, cancel | two-step proofs, expiry, unwinding while an epoch is pending |
| `contracts/LeopoldCompoundAdapter.sol` and Comet | principal basis, expected position, pause | deploy, withdraw, harvest, exit | the market moves between calls |
| `contracts/LeopoldVaultRegistry.sol` | official vaults, active flags | constructor, set active | it is the last of a sequence of deployments that can fail anywhere |
| `keeper/src/engine.ts`, `journal.ts`, `planner.ts`, gateway | durable journal of attempts | reconcile, plan, simulate, sign, persist, broadcast, wait | crashes, lost broadcasts, reorganisations, other callers, timeouts |
| page: `v2-functional-state.tsx`, `v2-actions.ts`, `transactions.ts` | running flow, records in local storage | submit, write, await, store, reconcile, search for an unfinished flow, resume | reloads, refused signatures, silent nodes, late receipts |
| page: `wallet-identity-provider.tsx`, `auth-provider.tsx`, `lib/auth` | session control, refs, health, marker in storage | connect, restore, switch, disconnect, probe, sign in and out | answers of the wallet that arrive after the attempt is over |
| `scripts/sg4-hcu-authority*.ts` | binding record, live call log | generate, validate, verify lineage, read limits, judge | a record can be wrong in one place; an endpoint in any answer |
| `tasks/sg1.ts`, `tasks/sg2.ts`, `sg2-launcher.cjs` | operator's nonce, repository, capability | preflight, deploy, probe, prepare, verify | several processes of one operator; a repository that changes while a task waits |
| `scripts/sg5-launcher.cjs` | process groups, private directory | start, wait, clean up, on a signal too | reused process ids, two activities in one process |
| `deploy-leopold-official.ts`, smoke test, freeze, validators | contracts, manifest, evidence, documents | fresh, existing and P-01 runs, smoke test, freeze, validate | failure half-way, modes that combine, files about an earlier suite |
| `leopold-live-closure.ts` | a driver over two public rounds | register, settle, pay out, record | strangers use the same contracts |
| `sg4-protocol.ts`, `SG4FheBenchmarkHarness.sol` | registered tables, state of the harness | build, validate, set up, sample, repeat | the same facts three times; state carried between samples |

Interactions: the escrow's `registerForRound` calls the vault's `acceptBondRegistration`; the
vault calls `creditProgress` and `finalizeRound` of the escrow; the asset calls the vault back on
a transfer; the vault calls the wrapper (`unwrap`, `finalizeUnwrap`) and the adapter, the adapter
calls Comet; keeper, page and live closure read the vault and call it like anybody else; the
financial flows of the page run only in an authorized wallet session; deployment creates the
vaults (they create escrow and adapter), then the registry.

What makes each part correct: weights add up to the aggregate and the draw is unbiased; every
amount is in exactly one bucket and the vault holds the sum; a bond is refunded or paid out,
exactly once; principal is conserved on its way through the strategy and only surplus becomes a
prize; the keeper never has a transaction in the network that its journal does not know, never
two unresolved ones, and never waits in silence; the page's history never says more than the
chain; a closed session stays closed; what a script certifies is true, whatever happened while it
ran. The hazards behind these, each at its line, are in `PROJECT.json`.

## 2. Modules

| Module | Models |
|---|---|
| `BondEscrow` | the escrow, under the weakest vault it is safe with |
| `LeopoldVault` (extends `BondEscrow`) | savings, rounds, draw, settlement, composed with the escrow |
| `CheckpointSearch` | the loops of `_cumulativeAt` and `_preferenceAt`, step by step |
| `Strategy` | strategy epochs, adapter, market |
| `Keeper` | `runOnce`, journal, planner, the chain as the gateway shows it |
| `AddMoney` | the nine flows of the page that sign something, their records, recovery and tracking |
| `WalletSession` | wallet session, account state, health probes, session marker |
| `SourceMaterial` | what the HCU gate extracts from the price schedule, the contract source and the build |
| `BindingRecord` (extends it) | generation and validation of a binding record |
| `HcuAuthority` (extends it) | lineage, plan of live calls, the reading link by link, verdict |
| `DebugSelector` | the selector language of `debug` as the launcher re-implements it, command classification |
| `StageGates` (extends it) | SG-1 and SG-2 tasks of several processes, launcher and capability, chain, the contracts `FHECounter` and `SG2PublicDecrypt` |
| `BrowserLauncher` | process groups of the SG-5 launcher, signals, cleanup |
| `Deployment` | registry, official deployment in its modes, smoke test, freeze, validators |
| `LiveClosure` | the live closure's driver over vault and escrow, with a stranger |
| `BenchmarkTables` | the registered benchmark: rules, closed tables and their comparison |
| `BenchmarkPlan` (extends it) | the plan executed on the harness |
| `Sums` | the sum of a function over a finite set, as a cardinality |
| `MCLeopoldVault`, `MCStrategy`, `MCKeeper`, `MCAddMoney`, `MCHcuAuthority` | finite instances |
| `MCTools`, `MCOperations` | several parts that share no state, one to a behaviour |
| `VaultProofs` | theorems about `Sum`, the escrow, and the vault: the shape of its state, draw, money, refinement, weights and selection |
| `ToolProofs` | theorems about `CheckpointSearch`, `BrowserLauncher`, `Deployment` and `LiveClosure` |
| `GateProofs`, `AuthorityProofs` | theorems about `StageGates` with `DebugSelector`, and about `HcuAuthority` with the records it validates |
| `StrategyProofs`, `KeeperProofs`, `AddMoneyProofs`, `SessionProofs` | theorems about `Strategy`, `Keeper`, `AddMoney`, `WalletSession` |

Variables and actions have the names of the storage variables and functions they stand for. In a
contract one action is one transaction; a call that reverts is a step that is not enabled. In the
keeper, the page and the scripts an action is the code between two points where the process waits:
everything it read before may be stale after.

Abstractions:

- *Ciphertexts* are cleartexts: an FHE select is an IF, a subtraction is integer subtraction. On
  ciphertexts it wraps without an error; `VaultSolvent`, and in `Strategy` a theorem, say that no
  bucket goes below zero, so it never does. Access rights (`FHE.allow...`) are not modelled.
- *Decryption proofs* are authentic for the handle they were made for. Earlier proofs stay around
  (`validityProofs`) and may be offered again.
- *The confidential asset* is external: a transfer of more than the balance moves nothing. The
  vault is taken for the only caller that finalizes the vault's own unwrap request.
- *Randomness*: any value of a domain that is a small number instead of 2^128.
- *Reentrancy*: payouts are the last statement of their handlers, and handlers with token calls are
  `nonReentrant`, so a nested call is a later step.
- *Position of a round* in `Keeper`: the path of a round is a sequence of positions (`Lifecycle`)
  with what planner and contract distinguish: required state, function, whether it carries a proof
  for its own handle, whether it needs the active round open.
- *The strategy in `LeopoldVault`* is the yield that arrives; *savers in `Strategy`* are totals.
- *Contracts in `AddMoney` and `LiveClosure`* do what those callers see of them. `LiveClosure` has
  its own small vault (states, members, passes, winner) because its subject is the driver.
- *Documents, digests, answers* in the HCU gate: a document is a sequence of lines already told
  apart, a digest is its content, an answer is what the record says ("bound"), well formed and
  different ("other"), bad, or missing.
- *Addresses* in `Deployment` and `StageGates` are the nonces that create them.
- *The repository* in `StageGates` is HEAD, the tree of every commit and whether the worktree is
  clean; each question to git is a step, since git is a process of its own and the repository is not
  locked. *A synchronous block* of `BrowserLauncher` is one step.
- *The benchmark plan* leaves out the sequence number of a run, operation lists and hashes.

`BondEscrow` is an abstract specification: what the escrow does under a vault that calls it in
any order but never accepts a registration for a finalized round (the escrow does not check
that itself). `LeopoldVault` is shown to implement it through `Escrow == INSTANCE BondEscrow`
(`EscrowRefined`, a theorem as well): what is proved of the escrow for any number of rounds holds
in a vault.
`LatestAt` in `LeopoldVault` is the specification that `CheckpointSearch` implements, and the
closed tables and the oracle of `BenchmarkTables` are the reference for the harness.

## 3. Runs

| Run | Instance | What it shows |
|---|---|---|
| `vault_rounds` | 2 savers, 3 rounds of 2 ticks, 3 balance changes, domain 4 | weights, draw and order of checkpoints over overlapping rounds; domain 4 with aggregates 1 to 4 has accepted, rejected and proof-free candidates |
| `vault_prizes` | pool of 3, sponsor, yield, preference and withdrawal once each | prize buckets, solvency, auto-saved prizes at the cap, a preference set at the closing second |
| `vault_escrow` | failed reconciliations, a rejection, payouts, 1 wei forced in | conservation, exact resolution, refinement of `BondEscrow`, every closed round is settled and its bonds released |
| `strategy` | pool of 6 with half of it liquid, amounts 1 and 3, 3 epochs, 2 pauses, 2 market events | conservation through epochs, unwinds and a moving market |
| `keeper` | a rejected candidate, its replacement and an allocation, 2 rounds, 2 confirmations; 2 of: a fault, another caller, the expiry of the active round | journal before network, one unresolved attempt, reconciled is final, the keeper settles or flags |
| `add_money` | all nine flows, 2 operations, 4 transactions, 2 faults | records say what the chain did; steps in order and for the same amount; tracked hashes are resolved |
| `session` | 2 epochs, 2 pending calls, 1 wallet event, 1 change by the user outside | the ref that opens actions and the rendered state agree; closed stays closed; a probe counts in its own session; connecting ends |
| `authority` | the reviewed record, each of its parts altered, other documents with the record a reviewer would make of them, all repository states, up to 2 wrong answers | PASS is earned, only identified contracts are asked, an honest run is not a FAIL, an accepted record is derived from the reviewed documents |
| `tools` | all ordered histories of up to 5 checkpoints and 7 queries; 3 process ids, 2 births, 1 signal; the whole registered plan with 1 repeated window; 2 rounds with 3 steps of a stranger | search correct; only own processes are signalled and the launcher ends; samples are the registered ones; the closure's evidence is true |
| `operations` | 2 gate processes, 1 disturbance, 2 trees, 4 nonces; 2 deployment runs, 1 smoke test, 1 change, 2 vaults | what the check of the repository guarantees of a broadcast; evidence is true; live tasks are authorized; one suite is published; an accepted release is sound |
| `add_money_retry` | 1 operation | violation, see 6 |
| `browser_cleanup` | the launcher alone | violation, see 6 |

Bounds. Time, yield, attempts, epochs, faults and users' steps are bounded by named constants
(`MAX_TIME`, `MAX_ATTEMPTS`, `MAX_EPOCHS`, `BalanceSteps`, `FaultSteps`, `MaxOps`, `MaxCalls`,
`MaxOther`, `MaxBirths`, `MaxMeddles`, `MaxDisturbances`, `MaxRuns`, ...); calls that close and
settle rounds are not. Three rounds are enough for one that settles while another is open and a
third can still be opened; two participants with chunks of one or two make a pass that is
interrupted; two savers are the least for a sum and a wrong winner. Two confirmations are the least
for a receipt that exists and is not final, and two rounds the least in which the active one can
expire and be closed by the keeper before the allocation that wants it open. A pool of six with half
of it liquid has room for withdrawals that leave a deficit, which a replenishment has to bring back,
and for a loss above the rounding tolerance. With two trees, a commit that is checked out or made has the
tree of HEAD's past or another one; an edit may be discarded or committed, so that one disturbance
moves the worktree, HEAD or both. One operation that is interrupted and one that starts
after it make the page's flows meet their own leftovers. Two wrong answers let one be noted without
stopping and a second follow. Two gate processes suffice for every race over a nonce or a contract;
two deployment runs for a run over the remains of another; one reused process id with one signal for
the cleanup's races. Two vaults instead of four keep order and duplicates. Savers are
interchangeable (symmetry) in the safety runs of the vault. Deadlock is not checked because the
instances end: time, attempts and steps run out, scripts are over.

`MCTools` and `MCOperations` choose one part at the start; the others keep their initial values.
The parts share no state, so this is the union of their behaviours and not their product.

Fairness. `vault_escrow`: time passes, and an expired round is closed and a due settlement call is
made if it stays possible; the calls are permissionless and the keeper polls for them. A candidate
is rejected fewer than `MAX_ATTEMPTS` times (in the code a rejection has a probability below
2^-53). `keeper`: the process is polled and restarted (`cli.ts` loops, a service manager restarts it
once an operator has removed the lock), blocks are produced, a transaction that can be mined is, and
time passes. `add_money`: a pending transaction is mined, and the timer of an open page gets to each
tracked hash again and again (strong, since reloads and running flows interrupt it). `session`:
the timeout of a connect request fires. `tools`: main, cleanup and the signal handler of the
launcher each go on if they can. Nothing is assumed of users, wallets, other callers or faults.

## 4. Proofs

TLAPS checks all theorems for every value of the constants that the named assumptions allow: any
number of rounds, accounts, attempts and sessions, any history, any amounts and times, any bounds.
The assumptions are what the constructors and configurations enforce: `EscrowConfiguration`,
`VaultConfiguration` (rounds are numbered from 1, the pool's cap times the duration fits the
aggregate, which fits the random domain), `SearchConfiguration`, `StrategyConfiguration`,
`KeeperConfiguration`, `DeploymentConfiguration`, `ClosureConfiguration` (counts and bounds are
natural numbers, not all zero), `GateConfiguration` (processes are numbered from 1, patterns
are strings and not empty, which the launcher's filter sees to), `FlowConfiguration` (the flows are
among the nine there are), `AuthorityConfiguration` (the verifier's inputs: a repository git can
describe, a record with one of the two deployment models for each contract, whose documents are lists of
lines and of declarations of the kinds the extractors tell apart; a pinned build was compiled from
the pinned source, no caller is named like another question, and no operation or price type has the
empty name). The session and the launcher need
none. Each inductive invariant was checked by TLC before it was proved, `DeploymentInv` up to a depth of
25 steps and the others on the whole of the run's instance.

**Sums** (in `VaultProofs`). `Sum(f)` is the number of units of `f`, so that facts about finite
cardinality carry over without an induction: `SumUpdate` and `SumMove` say how it moves with one
entry, `SumAdd` and `SumRestrict` how sums of mappings combine, `SumReindex` that it does not depend
on how the entries are numbered. Where an induction over numbers is needed, the proofs take the
least counterexample instead (`LeastNatural`, from the library's well-founded order).

**Escrow** (`VaultProofs`). The inductive invariant `EscrowInv` adds `AllLedgersShaped` to
conservation and backing: each ledger's deposits are its registrations times the bond, its rewards
are the processed participants times the reward, and a claim needs finalization. It is needed because
`finalizeRound` subtracts `registered * refund` from a global counter, and only the shape of the
ledger says that this is exactly what the round still holds. From it follow `EveryWeiAccounted`,
`RoundsResolveExactly`, the backing of the liabilities, and that checked arithmetic never blocks a
payout (`PayoutsNeverBlocked`).

**Vault** (`VaultProofs`). Four layers, each inductive relative to those before it:

1. `VaultShape`: types; checkpoints are in the order of time and each cumulative
   follows from the one before; rounds before the active one are closed, later ones untouched;
   exactly the participants of a round have an eligibility start, each account once; the eligible
   balance of the active round is the sum of its participants' principal.
2. `TicketInv` and `FinalizedIsSettled`. The first adds
   to `TicketUnbiased` that the last published verdict is the one on the current candidate, however
   often older ones are offered again. The second says that a round finalized in the escrow is settled in the vault;
   with it every step of the vault is one of `BondEscrow` or leaves it alone
   (`VaultImplementsEscrow`), and what is proved of the escrow holds in the vault.
3. `MoneyInv` = `PrizesInv` (what a round has reserved in each of its states, and that an
   allocation pass that still holds the prize has not gone past the winner) and `TotalsInv` (the
   totals are sums over accounts and rounds). `PrizesAccounted`, `VaultSolvent` and
   `PrincipalAccounted` need both, since an allocation moves a prize from one sum to another.
   `WinningsOnlyFromAllocation` follows step by step.
4. `WeightInv`: the aggregate of the active round, accrued to the present or to its
   close, is the sum of what each participant's history gives up to that moment; that of a closed
   round is the sum of `RoundWeight`. `WeightsReconcile` is its second half. `HistoryFrozen` holds
   because a history only grows at times after the close. `SelectionInv`: after any chunk the
   cumulative weight is that of the scanned prefix, and the predicate marks a position exactly if its
   interval of prefix sums holds the ticket; the intervals cover the aggregate without overlap,
   so that a pass that is over has exactly one winner (`SelectionReconciles`).

**Search** (`ToolProofs`). The loop invariant: everything up to `low` counts, nothing from `high` on
does. It gives `SearchCorrect`, and that the interval shrinks at every iteration (`IntervalShrinks`),
so that the loop ends.

**Launcher** (`ToolProofs`). `OnlyOwnProcessesStruck` rests on what identifies a process. `LauncherInv`
says that start times are given out once, that a leader known by its identifier and start time is
not somebody else's process while it lives, and that the cleanup works on groups there are. The
operating system gives an identifier that still names a group to nobody, so that a process of
somebody else in a group would have to be its leader, and its start time gives it away
(`ActiveIsOwn`): only then is the group found active and signalled.

**Strategy** (`StrategyProofs`). The inductive invariant `StrategyInv`: types, conservation, basis, the
pending burn, holdings, and that a request that is not pending has no amount. Neither conservation
nor the types are inductive alone: that `deployedPrincipal - amount` stays above zero needs
`BasisInStep`, that a burn is complete needs `HoldingsBacked`, and that a cancelled epoch returns
what it burned needs `BurnRecoverable`. The action properties `OnlySurplusIsPrize` and `LossIsReal`
follow step by step.

**Keeper** (`KeeperProofs`). `BroadcastIsJournalled` and `ReconciledIsFinal` are not inductive: what the
process holds between two of its steps decides what it may write. `WorkInv` says this place by place:
from planning to persisting the journal has no unresolved attempt, from persisting to
recording the transaction in hand is the last attempt's, and while it reconciles the entry in hand
is the one unresolved attempt and a success it has read is final. `NetworkInv` says the same of
mempool and blocks. That a transaction is signed with a nonce at all needs a free one, which exists
because the pending transactions are too few to use a range longer than their number (a pigeonhole). `JournalIsARecord` says
that no step alters an attempt that is resolved, or forgets a status.

**Session** (`SessionProofs`). An answer of the wallet may open a session only while its attempt's
number is both the epoch and the active attempt of the refs. `AttemptInv` says what that means for
the state that is rendered: it is connecting under that number, or a network switch of an earlier
session has opened it meanwhile. `ClosedInv` strengthens `EndedStaysEnded` (nothing is left that
could open the session: no marker, no switch, no attempt), and `RequireInv` says that a check before
an action finds its session open if the epoch is still its own: without it, the check could open a
closed session as one on the wrong network.

**Page flows** (`AddMoneyProofs`). Neither `RecordsAreTrue` nor `StepsInOrder` is inductive: a write is
signed, and a record completed, on the word of what the page has in hand. `FlowInv` says where that
word comes from. `TxsInv`, with `StepsInOrder`: the transactions stand in the order of signing, each after what it
spends.
`StoreInv`: a record names a write of its own operation and stage, and what it says of it is true.
`PageInv`: by the phase of the flow, the hash in hand is awaited or has succeeded, what is left to do
is a rest of the flow's own steps (`InSteps`), and the next write has its predecessor (`Backed`); what a
recovery has found, and a dialog may resume, rests on a wrap of that operation and amount that
succeeded (`SearchOK`, `RecoveryOK`). All of it is kept by any chain that only adds transactions and
decides each once (`TxsGo`), so balances, amounts and what contracts do with them stay arbitrary. The
filter of `persistSafeTransaction` is a recursive function whose result is found by least
counterexample (`OthersAreThere`), and the records of a checkpoint are of one operation
(`CheckpointIsOne`), without which an amount could be taken from another one.

**Deployment** (`ToolProofs`). `PublishedIsOneSuite` is about a file and the chain, and what joins them is
a run that may fail anywhere. `DeploymentInv` has one part for each: `ChainInv` (every contract is at
an address already taken), `RunInv` (by its place, what a run has deployed, checked and
written: `RunDeploys`, `RunChecks`, `RunWrites`), `ManifestInv` (a published manifest names one suite,
and no superseded vault if it claims the redeployment), `FilesInv` (the redeployment's evidence
states the runtimes that are at its vaults, and the smoke file names a registry that was tested) and
`TestInv` (a smoke test about to write has tested its registry). Contracts change only in the
registry's marks of activity, so a suite once true stays one (`SuitesKept`). `ReleaseIsSound` follows
from what the validators compare: they read only files, and every file they accept together is tied
to the same registry.

**Live closure** (`ToolProofs`). The script learns of the chain by reading it and by its own
transactions, while strangers register, close, settle and claim. `VaultInv` says how far each round
has come in each of its states; `Knows` what the script knows at each of its places, and that no
step of a stranger undoes it; `CreditsAre` that until they are paid the credits of A and B are their work on
the first round: so the script's check of the credits proves who did the work, which no reading of the round
shows.

**Stage gates** (`GateProofs`). `GateInv`: nonces are mined in order and the address of a nonce to come has
no code; a transaction that succeeded has left its mark in its contract (`Left`) and nothing later
takes it away; a gate's transaction is in the pool or the blocks once, so that a status
read by hash is its own; and `ProcessOK` says what a task has in hand where it is: its
signature, that it was sent under the names of commit and tree it holds, that it succeeded.
`BroadcastsAreClean` has an invariant of its own, `ReadingInv`: for a task between two questions to git it
says what an answer already in hand still means (`Reading`), namely that the commit read is HEAD
as long as HEAD has not moved since, that the tree is that commit's unless HEAD moved between the
two questions, and that the worktree is as the status found it if nothing has changed. What others do to
the repository keeps it, since commits are only added and every change is counted (`RepositoryGrows`). The evidence of a probe needs one thing
more: a counter that was read as 1 after this task's increment was first written by it (`Written`).
`LiveIsAuthorized` rests on `MatcherIsCorrect`: `debugPatternMatches`, a loop with one
place to go back to, decides what a pattern denotes. Its loop invariant `MatchInv` says that after a star the
pattern stands or falls with the places from `starMatch` on, of which the first is under trial, and that giving
up on it when a later star is met loses nothing; the loop ends because `Progress` grows with every
iteration. That a loop written as a recursive function is its own unrolling (`IterateSteps`) is proved
from finite unrollings and least counterexamples.

**HCU authority gate** (`AuthorityProofs`). `HcuInv` follows a run from its start to its verdict. `StartInv`
and `LineageInv`: a run past its lineage is in a commit that was reviewed, with the reviewed tools and a
record that the validation accepts. `PlaceInv` says for each place of the reading how much of the plan is
`Issued`: the cursor is there, and the next question is the one this place asks. For that the plan
has to be laid out (`PlanLayout`): the limits and callers it asks for are the registered ones
without the unavailable ones, a filter (`Filtered`) whose result is found by least counterexample.
`LogInv`: the log is the plan up to the cursor, each question put to the address its role was resolved to.
`RolesInv` and `IdentityInv`: a role has an address only after the link that resolves it, the record's unless a
mismatch was noted, and a contract whose code was not the record's is never read on. `NotedInv`: any
answer other than the bound one is among the failures or blockers, or stands in the readings and callers
that the conclusion turns into failures. With no failure and no blocker at the end, every answer was the bound one.
`WordNoted` adds that a packed word with another cap, depth or total than the pinned ones was noted, although
the chain goes on from it.
That both contracts are then built from the pinned sources is a fact about records
(`PassIsValidated`, `PinnedDocuments`): the validation compares the digest of every document with its pin.

`AcceptedRecordsAreDerived` compares two readings of a price schedule of any length: what
`extractPriceSchedule` finds with its places in an operation, a group and a type, and what the braces say
(`Depth`, `Enclosing`, `StatedPrices`). The extraction is a recursive function over the lines, and
`ReadUpToIs` says it is its own unrolling, by least counterexample again. `Moved` lists what a line does to an
extraction without a failure, and `Placed` is the invariant over the lines: the operation, group and
type it is in are the innermost blocks at depths 1, 2 and 3, and the prices found are the ones
stated so far. A document with an operation left open, or one that a failure was noted of, is not accepted
(`ScheduleIsStated`). `Balanced` has to say that a schedule is opened at the top of the file: a
`const ... = {` between two operations, which no object literal can have, opens a block and is skipped
by the extraction. The other documents follow from what the validation compares
(`CarriedDocuments`, `ReviewedDocuments`, `SourceIsClaimed`, `DeniedCapIsNowhere`).

`HonestRunsPass` is the converse of `PassIsEarned`. `HonestInv` says, of a run in which every answer so far
was the bound one, what has been found at each place: nothing was noted, each link of the contracts the run
has passed stands in the result (`ContractsFound`), each limit matches or is settled by its artifact, and
no caller is exempt. It has one lemma per place, and rests on three facts. The plan of a verified
record is usable and each of its questions has one place (`PlanIsUsable`, `PlanPlaces`); a log that is
the whole plan reads the slot of each proxy once (`SlotsRead`), which is what the verifier counts at
the end; and the result such a run assembles is one its own validation accepts (`HonestResultIsValid`),
since otherwise the verifier would throw. An endpoint that stops answering leaves a blocker behind
and a log shorter than the plan (`HonestBreak`).

A proof corrected the model once: in `BondEscrow` the vault's call of `finalizeRound` stood under a
choice of an account, although it has none, so that the refinement failed with no accounts; it is
now a call of its own. A proof corrected a property once: `HonestRunPasses` left out an absent cap with
an available getter, but any absent cap that is not declared not applicable ends the same way (section 6).

Proved though no run lists them: `EscrowTypeOK`, the backing of the liabilities,
`PayoutsNeverBlocked`, `HoldingsBacked`, `LossIsReal`, `BasisInStep`, `IntervalShrinks`,
`RecordKept`.

Only model-checked:

- all liveness (`RoundsSettle`, `KeeperAdvances`, `PendingIsResolved`, `ConnectingEnds`,
  `LauncherEnds`), which the prover does not support, as it does not support `ENABLED`;
- `BenchmarkPlan`, whose `SamplesAreAsRegistered` is a computation over fixed tables with folds, which
  TLC carries out in full.

## 5. Not modelled

- Keeper: gas policy, balance limits, configuration, manifest, probe (a failing check is a poll
  that fails), agreement between RPC endpoints, the circular scan and the two auto-entry actions
  (their contracts are not in the repository), the files below the journal, several vaults at once.
- Page: balances that are shown, the flows of its first version, e-mail onboarding, rendering.
- HCU gate: the offline preflight; normalisation of bytecode is an identity that holds or does not;
  the form of a section is one bit.
- Scripts: wording and layout of what they write, hashes as anything but contents, the browser
  probe's own flows (`frontend/lib/sg5`), the benchmark's continuation sequence, spikes, mocks and
  the TypeScript oracles.
- Strategy epochs have no liveness property: nothing in the repository drives them.
- Widths: amounts stay below the pool's cap and aggregates below 2^128 by the constants that
  `VaultConfiguration` relates, so no run depends on a width.

## 6. Where code and intention disagree

Shown by a run:

- `add_money_retry`. `onHash` stores a running write under a stage that `isUnresolvedV2Transaction`
  does not know, so after a reload the page offers the same write again while the first is pending;
  `frontend/tests/v2-actions.test.ts:325` says it does not.
- `browser_cleanup`. A signal during the health wait of `sg5-launcher.cjs` starts a cleanup over a
  copy of the groups; main goes on and starts another group, and the private directory is removed
  under it. The launcher demands of its protocol that this cannot happen (line 274). The live mode
  is at present refused before it gets there.

Observed while modelling:

- Keeper (`engine.ts:133-137`): unknown attempts are "never retried", but one whose action is not
  required at the moment is marked obsolete and its action is attempted again later.
- Adapter (`LeopoldCompoundAdapter.sol:120`): `LEOPOLD_PRE_FRONTEND_CLOSURE.md:117` says the
  emergency exit checks Comet's base token and scale; it does not (and a working exit in a
  reconfigured market may well be wanted).
- Session (`wallet-identity-provider.tsx:461`): a network switch that is under way when the session
  ends may still bring it back; `EndedStaysEnded` excepts it. See `LEOPOLD_FINAL_UI_HANDOFF.md:43`.
- Page: `controller.ts:143` reads state 14 as settled; in the vault 14 is `ALLOCATION_PROCESSING`.
- HCU gate. A mandatory limit whose getter is ABSENT is accepted by the record's validation and then
  always fails with `HCU_GETTER_STORAGE_MISMATCH`. An absent block cap with an available getter,
  or with a getter declared absent but proven from the artifact, can only be BLOCKED (the latter as
  `LIMIT_ARTIFACT_PROOF_INCOMPLETE`). A record of two direct contracts is accepted, and the validation of its
  result then throws (`sg4-hcu-authority.ts:10238` against `sg4-hcu-authority-protocol.ts:4037`). Some
  BLOCKED results are refused by the tool's own validator. The generator does not check the branch;
  the verifier does.
  `HonestRunPasses` leaves these cases out by name.
- Stage gates: "no asynchronous or external operation may occur between the final clean result and
  raw broadcast" (`sg2.ts:896-898`) is true of the task itself; another process may still change the
  repository between two of the git calls, and after the last one until the bytes have left.
  `BroadcastFromCleanCommit` says what holds all the same: HEAD is the named commit if it has not moved
  since it was read again, the worktree is clean if nothing has changed since the status, and the
  tree is the named commit's unless HEAD moved between the two questions both times they were put. The
  evidence of the SG-5 live mode names a commit that is not checked again after the run.
- Deployment: a dry run of the existing mode reports `PREFLIGHT_PASS` having checked nothing;
  `VALIDATE_EXISTING=1` in a fresh run deploys a suite and publishes nothing; after a crash between
  manifest and evidence a fresh run is refused; a smoke test that fails after its deposit makes later
  ones fail; the validators compare the size of the runtime code with the frozen one, not its hash,
  which is why `ReleaseIsSound` speaks of sizes.
- Live closure: the branch for an empty round settles it without finalizing the aggregate, which
  reverts unless a stranger did; the participant count in the evidence is a literal; `closeRound`
  takes no round, so that a late driver can close the next one.

## 7. Plan

1. Keeper: several vaults and the auto-entry actions; the journal's files and its lock.
2. Vault and strategy in one module, with an abstract vault (a pool and its liabilities) as
   the specification that both implement.
