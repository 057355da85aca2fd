------------------------------ MODULE StageGates ------------------------------
(***************************************************************************)
(* The live stage gates SG-1 (tasks/sg1.ts, run by Hardhat) and SG-2       *)
(* (tasks/sg2.ts, run by scripts/sg2-launcher.cjs only).  A gate's task is *)
(* one process: it opens a live context (clean repository, key, chain),    *)
(* prepares one exact transaction, signs it, sends it, polls for its       *)
(* receipt, reads the chain back and prints its evidence.  The two         *)
(* processes of an instance share the operator's account, the repository   *)
(* and the chain, and anything can happen at every await and between two   *)
(* calls of git.                                                           *)
(*                                                                         *)
(* A transaction is its content: two processes that sign the same request  *)
(* with the same nonce produce the same bytes and the same hash.           *)
(***************************************************************************)
EXTENDS Integers, Sequences, FiniteSets, DebugSelector

CONSTANTS
    Procs,              \* the processes an operator starts, numbered in that order
    Forbidden,          \* the debug namespaces that must stay silent
    Selectors,          \* values of the DEBUG variable
    Trees,              \* the trees a commit may have
    Balances,           \* the operator's balance at the start
    MaxPolls,           \* RECEIPT_POLL_ATTEMPTS, at least 1
    MaxDisturbances,    \* edits and checkouts of the repository, changes of the chain behind
                        \* the RPC address and transactions of other tools, together
    MaxGateNonce            \* nonces, and so addresses, an instance uses

ASSUME GateConfiguration ==
    /\ Procs \subseteq Nat \ {0} /\ MaxPolls \in Nat \ {0} /\ MaxGateNonce \in Nat /\ MaxGateNonce >= 4
    /\ Trees \subseteq Nat /\ {1, 2} \subseteq Trees
    /\ Forbidden \subseteq Seq(STRING)
    /\ Selectors \subseteq Seq(Seq(STRING) \ {<<>>})      \* no pattern is empty: filter in the launcher

VARIABLES repo, rpc, txs, contracts, proc, evidence, broadcasts, opening, disturbances

gateVars == <<repo, rpc, txs, contracts, proc, evidence, broadcasts, opening, disturbances>>

-----------------------------------------------------------------------------
Sg1Tasks == {"sg1:preflight", "sg1:deploy", "sg1:probe"}
Sg2Tasks == {"sg2:preflight", "sg2:deploy", "sg2:prepare", "sg2:verify"}
Targeted == {"sg1:probe", "sg2:prepare", "sg2:verify"}
Deployments == {"sg1:deploy", "sg2:deploy"}
Preflights == {"sg1:preflight", "sg2:preflight"}

GateAddresses == 0 .. MaxGateNonce          \* the address of the contract a nonce creates
NoTarget == -1
Known == 0 .. 3                     \* the addresses an operator may name
Anybody == 0                        \* in place of a process
OtherTool == -1
SG2_EXPECTED_VALUE == 42
OtherValue == 7

NoCode == [kind |-> "none", operator |-> "none", first |-> <<>>, count |-> 0,
               cipher |-> 0, verified |-> 0]

FreshContract(kind, operator) == [NoCode EXCEPT !.kind = kind, !.operator = operator]

(* What a task calls: deployments carry no randomness, an encrypted input  *)
(* is fresh for every process, a public decryption is the same for all.    *)
TaskCall(p, task) ==
    CASE task \in {"sg1:deploy", "sg1:preflight"} -> [name |-> "deployCounter", value |-> 0, by |-> Anybody]
      [] task \in {"sg2:deploy", "sg2:preflight"} -> [name |-> "deployProbe", value |-> 0, by |-> Anybody]
      [] task = "sg1:probe" -> [name |-> "increment", value |-> 1, by |-> p]
      [] task = "sg2:prepare" -> [name |-> "initialize", value |-> SG2_EXPECTED_VALUE, by |-> p]
      [] task = "sg2:verify" -> [name |-> "verify", value |-> SG2_EXPECTED_VALUE, by |-> Anybody]

Transaction(nonce, call, target) == [nonce |-> nonce, call |-> call, target |-> target]

(* Does the chain accept the call on this contract, and what does it       *)
(* leave behind?                                                           *)
Reverts(call, contract) ==
    CASE call.name \in {"deployCounter", "deployProbe"} -> FALSE
      [] call.name = "increment" -> contract.kind /= "counter"
      [] call.name = "initialize" ->
            \/ contract.kind /= "probe"
            \/ contract.operator /= "operator"
            \/ contract.cipher /= 0
      [] call.name = "verify" ->
            \/ contract.kind /= "probe"
            \/ contract.operator /= "operator"
            \/ contract.cipher /= call.value
            \/ contract.verified /= 0

Effect(id, contract) ==
    CASE id.call.name = "deployCounter" -> FreshContract("counter", "operator")
      [] id.call.name = "deployProbe" -> FreshContract("probe", "operator")
      [] id.call.name = "increment" ->
            [contract EXCEPT !.count = @ + id.call.value,
                             !.first = IF contract.count = 0 THEN <<id>> ELSE @]
      [] id.call.name = "initialize" -> [contract EXCEPT !.cipher = id.call.value, !.first = <<id>>]
      [] id.call.name = "verify" -> [contract EXCEPT !.verified = id.call.value]

Place(id) == IF id.target = NoTarget THEN id.nonce ELSE id.target

StatusOf(id) == IF \E t \in txs : t.id = id THEN (CHOOSE t \in txs : t.id = id).status ELSE "unknown"

FirstNonce == 3                     \* three contracts exist before
Mined == {t \in txs : t.status \in {"success", "reverted"}}
Pooled == {t \in txs : t.status = "pooled"}
PendingNonce == FirstNonce + Cardinality(Mined) + Cardinality(Pooled)

(* Gas is bought at one wei: a transaction costs its limit at most.        *)
GasUsed == 10
Balance == opening - GasUsed * Cardinality(Mined)

-----------------------------------------------------------------------------
(* The state of a process.  A capability is the launcher's; SG-1 has none. *)
(* commit and tree are the identity it has read, current is HEAD as it     *)
(* reads it again.  Three fields only record when git was asked: seen, how *)
(* often HEAD had moved at the last question for it; sampled, the version  *)
(* of the repository at the last clean status; torn, in which of the two   *)
(* readings HEAD moved between the commit and its tree.                    *)
NoCapability == [action |-> "none", consumed |-> FALSE, revoked |-> FALSE]

Idle == [pc |-> "idle", task |-> "none", address |-> NoTarget, selector |-> <<>>,
         commit |-> 0, tree |-> 0, current |-> 0, seen |-> 0, sampled |-> 0, torn |-> {},
         nonce |-> 0, cost |-> 0, id |-> <<>>, polls |-> 0,
         capability |-> NoCapability]

Startable(p) == proc[p].pc = "idle" /\ \A q \in Procs : q < p => proc[q].pc /= "idle"

Gate(p) == IF proc[p].task \in Sg1Tasks THEN "sg1" ELSE "sg2"
AtPoint(p, pc) == proc[p].pc = pc
Contract(p) == IF rpc = "sepolia" /\ proc[p].address \in GateAddresses
               THEN contracts[proc[p].address] ELSE NoCode

(* The process is over: revoke() in the launcher's finally takes the       *)
(* capability with it, and nothing of the task is left.                    *)
Ended(pc) == [Idle EXCEPT !.pc = pc]

(* One step of a task: the checks pass and it goes on, or it throws.       *)
Step(p, ok, next) ==
    proc' = [proc EXCEPT ![p] = IF ok THEN next ELSE Ended("failed")]

GoTo(p, pc) == [proc[p] EXCEPT !.pc = pc]

World == <<repo, rpc, txs, contracts, evidence, broadcasts, opening, disturbances>>

Emit(p, event, id) ==
    /\ evidence' = evidence \cup
           {[event |-> event, address |-> proc[p].address, id |-> id, commit |-> proc[p].commit,
             tree |-> proc[p].tree, by |-> p]}
    /\ proc' = [proc EXCEPT ![p] = Ended("passed")]

-----------------------------------------------------------------------------
(***************************************************************************)
(* Starting a task.                                                        *)
(***************************************************************************)
(* hardhat sg1:...                                                         *)
Sg1Start(p, task, address) ==
    /\ task \in Sg1Tasks
    /\ (task \in Targeted) = (address \in GateAddresses)
    /\ proc' = [proc EXCEPT ![p] = [Idle EXCEPT !.pc = "context", !.task = task, !.address = address]]
    /\ UNCHANGED World

(* hardhat sg2:... : hardhat.config.ts refuses every direct SG-2 task      *)
(* before it reads a variable, whatever the options around it.             *)
directTaskRefused(line, verbose) ==
    classifyHardhatCommand(line, verbose).selectedTask \in Sg2Tasks

Sg2Direct(p, task, line, verbose) ==
    /\ task \in Sg2Tasks
    /\ task \in {line[i] : i \in DOMAIN line}
    /\ directTaskRefused(line, verbose)
    /\ proc' = [proc EXCEPT ![p] = Ended("failed")]
    /\ UNCHANGED World

(* The launcher's checks before it loads anything: no verbose mode, no     *)
(* forbidden namespace, the exact arguments of the action.                 *)
requireSafePreBootstrapEnvironment(selector, verbose) ==
    /\ ~ verbose
    /\ ~ forbiddenDebugEnabled(selector, Forbidden)

validateLaunchRequest(task, address, selector, verbose) ==
    /\ requireSafePreBootstrapEnvironment(selector, verbose)
    /\ task \in Sg2Tasks
    /\ IF task \in Targeted THEN address \in GateAddresses ELSE address = NoTarget

createLauncherSession(task) == [action |-> task, consumed |-> FALSE, revoked |-> FALSE]

Sg2Start(p, task, address, selector, verbose) ==
    /\ LET launched == [Idle EXCEPT !.task = task, !.address = address, !.selector = selector]
       IN proc' = [proc EXCEPT ![p] =
              IF validateLaunchRequest(task, address, selector, verbose)
              THEN [launched EXCEPT !.pc = "hardhat", !.capability = createLauncherSession(task)]
              ELSE Ended("failed")]
    /\ UNCHANGED World

(* Hardhat loads its configuration inside the launcher: the authorised     *)
(* action must still be there, and the selector safe.                      *)
LoadHardhat(p) ==
    /\ proc[p].capability.action \in Sg2Tasks
    /\ ~ proc[p].capability.revoked
    /\ ~ forbiddenDebugEnabled(proc[p].selector, Forbidden)

(* dispatchSg2 consumes the capability before it touches anything live.    *)
consumeDispatchCapability(capability, action) ==
    /\ ~ capability.revoked
    /\ ~ capability.consumed
    /\ capability.action = action

Sg2Dispatch(p) ==
    /\ AtPoint(p, "hardhat")
    /\ Step(p, LoadHardhat(p) /\ consumeDispatchCapability(proc[p].capability, proc[p].task),
            [GoTo(p, "context") EXCEPT !.capability.consumed = TRUE])
    /\ UNCHANGED World

-----------------------------------------------------------------------------
(***************************************************************************)
(* The live context: the network, a clean committed repository whose       *)
(* identity is kept, the build's metadata and the key; then the chain      *)
(* behind the provider and the one signer.  Every question to git is a     *)
(* process of its own, and the repository may change between two.          *)
(***************************************************************************)
HeadTree == repo.trees[repo.commit]

Torn(p, reading) == IF repo.moves = proc[p].seen THEN proc[p].torn ELSE proc[p].torn \cup {reading}

OpenContext(p, quiet) ==
    /\ AtPoint(p, "context")
    /\ Step(p, quiet /\ ~ repo.dirty, [GoTo(p, "commit") EXCEPT !.selector = <<>>])
    /\ UNCHANGED World

ReadCommit(p) ==
    /\ AtPoint(p, "commit")
    /\ Step(p, TRUE, [GoTo(p, "tree") EXCEPT !.commit = repo.commit, !.seen = repo.moves])
    /\ UNCHANGED World

ReadTree(p) ==
    /\ AtPoint(p, "tree")
    /\ Step(p, TRUE, [GoTo(p, "chain") EXCEPT !.tree = HeadTree, !.torn = Torn(p, "opening"), !.seen = 0])
    /\ UNCHANGED World

requireCleanRepository(p) == ReadCommit(p) \/ ReadTree(p)

readSepoliaChainId == rpc = "sepolia"

ConfirmChain(p) ==
    /\ AtPoint(p, "chain")
    /\ Step(p, readSepoliaChainId,
            GoTo(p, IF proc[p].task \in Targeted THEN "target" ELSE "nonce"))
    /\ UNCHANGED World

(***************************************************************************)
(* One exact transaction: nonce (of the pending block), fees and estimate, *)
(* funding, the chain again, signature, identity of the repository, send.  *)
(***************************************************************************)
BASIS_POINTS == 10000
GAS_BUFFER_BASIS_POINTS == 2000
MAX_GAS_BUFFER == 500000

bufferedGasLimit(estimatedGas) ==
    LET proportional == (estimatedGas * GAS_BUFFER_BASIS_POINTS + BASIS_POINTS - 1) \div BASIS_POINTS
    IN estimatedGas + (IF proportional < MAX_GAS_BUFFER THEN proportional ELSE MAX_GAS_BUFFER)

ReadNonce(p) ==
    /\ AtPoint(p, "nonce")
    /\ Step(p, TRUE, [GoTo(p, "estimate") EXCEPT
                        !.nonce = IF rpc = "sepolia" THEN PendingNonce ELSE 0])
    /\ UNCHANGED World

(* The node estimates by executing the call on the state it has.           *)
Estimate(p) ==
    /\ AtPoint(p, "estimate")
    /\ \E estimatedGas \in {0, GasUsed} :
           Step(p, estimatedGas > 0 /\ ~ Reverts(TaskCall(p, proc[p].task), Contract(p)),
                [GoTo(p, "fund") EXCEPT !.cost = bufferedGasLimit(estimatedGas)])
    /\ UNCHANGED World

FundingMultiplier(task) ==
    CASE task = "sg1:preflight" -> 3
      [] task = "sg2:preflight" -> 4
      [] OTHER -> 1

requireSufficientFunding(p) == Balance >= proc[p].cost * FundingMultiplier(proc[p].task)

Fund(p) ==
    /\ AtPoint(p, "fund")
    /\ proc[p].task \notin Preflights
    /\ Step(p, requireSufficientFunding(p), GoTo(p, "rechain"))
    /\ UNCHANGED World

PassPreflight(p) ==
    /\ AtPoint(p, "fund")
    /\ proc[p].task \in Preflights
    /\ requireSufficientFunding(p)
    /\ Emit(p, proc[p].task, <<>>)
    /\ UNCHANGED <<repo, rpc, txs, contracts, broadcasts, opening, disturbances>>

FailPreflight(p) ==
    /\ AtPoint(p, "fund")
    /\ proc[p].task \in Preflights
    /\ ~ requireSufficientFunding(p)
    /\ Step(p, FALSE, proc[p])
    /\ UNCHANGED World

Rechain(p) ==
    /\ AtPoint(p, "rechain")
    /\ Step(p, readSepoliaChainId,
            GoTo(p, IF proc[p].task \in Targeted THEN "restate" ELSE "sign"))
    /\ UNCHANGED World

(* The signature is over the exact request; the signed bytes are parsed    *)
(* and compared with it field by field, and hashed.                        *)
signExactTransaction(p) ==
    Transaction(proc[p].nonce, TaskCall(p, proc[p].task),
                IF proc[p].task \in Targeted THEN proc[p].address ELSE NoTarget)

Sign(p) ==
    /\ AtPoint(p, "sign")
    /\ Step(p, TRUE, [GoTo(p, "head") EXCEPT !.id = <<signExactTransaction(p)>>])
    /\ UNCHANGED World

(* Mutant: only cleanliness is looked at again.                            *)
SkipIdentity(p) == TRUE

IdentityUnchanged(p) == proc[p].current = proc[p].commit /\ HeadTree = proc[p].tree

(* Commit and tree first, cleanliness last, and then at once the send:     *)
(* nothing of the task comes between, but the repository is not locked.    *)
RereadCommit(p) ==
    /\ AtPoint(p, "head")
    /\ Step(p, TRUE, [GoTo(p, "headtree") EXCEPT !.current = repo.commit, !.seen = repo.moves])
    /\ UNCHANGED World

CompareIdentity(p) ==
    /\ AtPoint(p, "headtree")
    /\ Step(p, IdentityUnchanged(p), [GoTo(p, "status") EXCEPT !.torn = Torn(p, "check"), !.current = 0])
    /\ UNCHANGED World

SampleStatus(p) ==
    /\ AtPoint(p, "status")
    /\ Step(p, ~ repo.dirty, [GoTo(p, "broadcast") EXCEPT !.sampled = repo.version])
    /\ UNCHANGED World

requireRepositoryIdentityUnchanged(p) == RereadCommit(p) \/ CompareIdentity(p) \/ SampleStatus(p)

(* What a node may do with the bytes: know them already, refuse them,      *)
(* take them, or take them in the place of another transaction of the same *)
(* nonce.  pool is the pool afterwards, answer what the caller hears.      *)
NodeTakes(id) ==
    LET rivals == {t \in Pooled : t.id.nonce = id.nonce}
        fresh == [id |-> id, status |-> "pooled"]
    IN IF rpc /= "sepolia" \/ Balance < GasUsed THEN {[pool |-> txs, answer |-> "error"]}
       ELSE IF StatusOf(id) /= "unknown"
       THEN {[pool |-> txs, answer |-> "error"], [pool |-> txs, answer |-> "hash"]}
       ELSE IF id.nonce < FirstNonce + Cardinality(Mined) THEN {[pool |-> txs, answer |-> "error"]}
       ELSE {[pool |-> txs, answer |-> "error"]} \cup
            {[pool |-> {IF t \in rivals THEN [t EXCEPT !.status = "dropped"] ELSE t : t \in txs} \cup {fresh},
              answer |-> a] : a \in {"hash", "error", "other"}}

(* An answer that never comes, or names another hash, fails the task: the  *)
(* transaction may be on its way all the same.                             *)
broadcastSignedTransaction(p, result) ==
    Step(p, result.answer = "hash",
         [GoTo(p, "poll") EXCEPT !.polls = 0, !.seen = 0, !.sampled = 0, !.torn = {}])

Broadcast(p) ==
    /\ AtPoint(p, "broadcast")
    /\ \E result \in NodeTakes(proc[p].id[1]) :
           /\ txs' = result.pool
           /\ broadcastSignedTransaction(p, result)
    /\ broadcasts' = broadcasts \cup
           {[id |-> proc[p].id[1], by |-> p, commit |-> proc[p].commit, tree |-> proc[p].tree,
             seen |-> proc[p].seen, sampled |-> proc[p].sampled, torn |-> proc[p].torn, repo |-> repo]}
    /\ UNCHANGED <<repo, rpc, contracts, evidence, opening, disturbances>>

(***************************************************************************)
(* The receipt: RECEIPT_POLL_ATTEMPTS questions, never the signer's wait.  *)
(***************************************************************************)
Receipt(p) ==
    LET id == proc[p].id[1] IN
    [status |-> IF StatusOf(id) = "success" THEN 1 ELSE 0,
     to |-> id.target,
     contractAddress |-> IF id.target = NoTarget THEN id.nonce ELSE NoTarget]

ReceiptKnown(p) == rpc = "sepolia" /\ StatusOf(proc[p].id[1]) \in {"success", "reverted"}

DeploymentReceiptAccepted(p, receipt) ==
    /\ receipt.status = 1
    /\ receipt.to = NoTarget
    /\ receipt.contractAddress = proc[p].nonce

(* Mutant: the status of the receipt is not looked at.                     *)
AcceptAnyReceipt(p, receipt) == receipt.to = proc[p].address /\ receipt.contractAddress = NoTarget

requireSuccessfulCallReceipt(p, receipt) ==
    /\ receipt.status = 1
    /\ receipt.to = proc[p].address
    /\ receipt.contractAddress = NoTarget

pollForTransactionReceipt(p) ==
    /\ AtPoint(p, "poll")
    /\ ~ ReceiptKnown(p)
    /\ Step(p, proc[p].polls + 1 < MaxPolls, [proc[p] EXCEPT !.polls = @ + 1])
    /\ UNCHANGED World

TakeDeploymentReceipt(p) ==
    /\ AtPoint(p, "poll")
    /\ proc[p].task \in Deployments
    /\ ReceiptKnown(p)
    /\ Step(p, DeploymentReceiptAccepted(p, Receipt(p)),
            [GoTo(p, "code") EXCEPT !.address = Receipt(p).contractAddress, !.polls = 0])
    /\ UNCHANGED World

TakeCallReceipt(p) ==
    /\ AtPoint(p, "poll")
    /\ proc[p].task \in Targeted
    /\ ReceiptKnown(p)
    /\ Step(p, requireSuccessfulCallReceipt(p, Receipt(p)), [GoTo(p, "code") EXCEPT !.polls = 0])
    /\ UNCHANGED World

requireDeployedCode(p) == Contract(p).kind /= "none"

ConfirmCode(p) ==
    /\ AtPoint(p, "code")
    /\ Step(p, requireDeployedCode(p), GoTo(p, "finalchain"))
    /\ UNCHANGED World

EmitDeployment(p) ==
    /\ AtPoint(p, "finalchain")
    /\ proc[p].task \in Deployments
    /\ readSepoliaChainId
    /\ Emit(p, proc[p].task, proc[p].id)
    /\ UNCHANGED <<repo, rpc, txs, contracts, broadcasts, opening, disturbances>>

FinalChain(p) ==
    /\ AtPoint(p, "finalchain")
    /\ proc[p].task \in Targeted \/ ~ readSepoliaChainId
    /\ Step(p, readSepoliaChainId, GoTo(p, "conclude"))
    /\ UNCHANGED World

-----------------------------------------------------------------------------
(***************************************************************************)
(* SG-1.  The counter must never have been written; afterwards the operator*)
(* decrypts the handle it reads.                                           *)
(***************************************************************************)
Sg1(p) == Gate(p) = "sg1"

Sg1OpenContext(p) == Sg1(p) /\ OpenContext(p, TRUE)
Sg1ConfirmChain(p) == Sg1(p) /\ ConfirmChain(p)

CounterIsFresh(p) == requireDeployedCode(p) /\ Contract(p).kind = "counter" /\ Contract(p).count = 0

Sg1CheckTarget(p) ==
    /\ Sg1(p) /\ AtPoint(p, "target")
    /\ Step(p, CounterIsFresh(p), GoTo(p, "input"))
    /\ UNCHANGED World

Sg1Encrypt(p) ==
    /\ Sg1(p) /\ AtPoint(p, "input")
    /\ \E handles \in {0, 1} : Step(p, handles = 1, GoTo(p, "nonce"))
    /\ UNCHANGED World

Sg1Prepare(p) == Sg1(p) /\ (ReadNonce(p) \/ Estimate(p))
Sg1Fund(p) == Sg1(p) /\ Fund(p)
Sg1Preflight(p) == Sg1(p) /\ (PassPreflight(p) \/ FailPreflight(p))

Sg1Recheck(p) ==
    /\ Sg1(p) /\ AtPoint(p, "restate")
    /\ Step(p, CounterIsFresh(p), GoTo(p, "sign"))
    /\ UNCHANGED World

Sg1Sign(p) == Sg1(p) /\ Sign(p)
Sg1Repository(p) == Sg1(p) /\ (requireCleanRepository(p) \/ requireRepositoryIdentityUnchanged(p))
Sg1Broadcast(p) == Sg1(p) /\ Broadcast(p)
Sg1Poll(p) == Sg1(p) /\ pollForTransactionReceipt(p)
Sg1Deploy(p) == Sg1(p) /\ (Rechain(p) \/ TakeDeploymentReceipt(p) \/ EmitDeployment(p))

Sg1ProbeReceipt(p) == Sg1(p) /\ (TakeCallReceipt(p) \/ ConfirmCode(p) \/ FinalChain(p))

Sg1EmitProbe(p) ==
    /\ Sg1(p) /\ AtPoint(p, "conclude")
    /\ Contract(p).count = 1
    /\ Emit(p, "sg1:probe", proc[p].id)
    /\ UNCHANGED <<repo, rpc, txs, contracts, broadcasts, opening, disturbances>>

Sg1FailProbe(p) ==
    /\ Sg1(p) /\ AtPoint(p, "conclude")
    /\ Contract(p).count /= 1
    /\ Step(p, FALSE, proc[p])
    /\ UNCHANGED World

Sg1Next(p) ==
    \/ Startable(p) /\ \E task \in Sg1Tasks, address \in Known \cup {NoTarget} : Sg1Start(p, task, address)
    \/ Sg1OpenContext(p) \/ Sg1ConfirmChain(p) \/ Sg1CheckTarget(p) \/ Sg1Encrypt(p)
    \/ Sg1Prepare(p) \/ Sg1Fund(p) \/ Sg1Preflight(p) \/ Sg1Recheck(p) \/ Sg1Sign(p)
    \/ Sg1Repository(p) \/ Sg1Broadcast(p) \/ Sg1Poll(p) \/ Sg1Deploy(p) \/ Sg1ProbeReceipt(p)
    \/ Sg1EmitProbe(p) \/ Sg1FailProbe(p)

-----------------------------------------------------------------------------
(***************************************************************************)
(* SG-2.  preparation wants a fresh probe contract of this operator,       *)
(* verification a prepared one, each read twice: before the transaction is *)
(* prepared and again before it is signed.                                 *)
(***************************************************************************)
Sg2(p) == Gate(p) = "sg2"

Sg2OpenContext(p) == Sg2(p) /\ OpenContext(p, ~ forbiddenDebugEnabled(proc[p].selector, Forbidden))
Sg2ConfirmChain(p) == Sg2(p) /\ ConfirmChain(p)

IsOwnProbe(p) == Contract(p).kind = "probe" /\ Contract(p).operator = "operator"

Sg2CheckTarget(p) ==
    /\ Sg2(p) /\ AtPoint(p, "target")
    /\ Step(p, /\ requireDeployedCode(p) /\ IsOwnProbe(p)
               /\ IF proc[p].task = "sg2:prepare" THEN Contract(p).cipher = 0 ELSE Contract(p).cipher /= 0
               /\ Contract(p).verified = 0,
            GoTo(p, "input"))
    /\ UNCHANGED World

(* One handle of 32 bytes and a proof that is not empty.                   *)
Sg2Encrypt(p) ==
    /\ AtPoint(p, "input") /\ proc[p].task = "sg2:prepare"
    /\ \E wellFormed \in BOOLEAN : Step(p, wellFormed, GoTo(p, "nonce"))
    /\ UNCHANGED World

(* The relayer decrypts what is stored, or answers nonsense.               *)
Sg2PublicDecrypt(p) ==
    /\ AtPoint(p, "input") /\ proc[p].task = "sg2:verify"
    /\ \E clear \in {Contract(p).cipher, 0} :
           Step(p, clear = SG2_EXPECTED_VALUE, GoTo(p, "nonce"))
    /\ UNCHANGED World

Sg2PrepareTransaction(p) == Sg2(p) /\ (ReadNonce(p) \/ Estimate(p))
Sg2Fund(p) == Sg2(p) /\ Fund(p)
runSg2Preflight(p) == Sg2(p) /\ (PassPreflight(p) \/ FailPreflight(p))

Sg2Recheck(p) ==
    /\ Sg2(p) /\ AtPoint(p, "restate")
    /\ Step(p, /\ Contract(p).kind = "probe"
               /\ IF proc[p].task = "sg2:prepare" THEN Contract(p).cipher = 0 ELSE Contract(p).verified = 0,
            GoTo(p, "sign"))
    /\ UNCHANGED World

Sg2Sign(p) == Sg2(p) /\ Sign(p)
Sg2Repository(p) == Sg2(p) /\ (requireCleanRepository(p) \/ requireRepositoryIdentityUnchanged(p))
Sg2Broadcast(p) == Sg2(p) /\ Broadcast(p)
Sg2Poll(p) == Sg2(p) /\ pollForTransactionReceipt(p)
runSg2Deploy(p) == Sg2(p) /\ (Rechain(p) \/ TakeDeploymentReceipt(p) \/ EmitDeployment(p))
Sg2CallReceipt(p) == Sg2(p) /\ (TakeCallReceipt(p) \/ ConfirmCode(p) \/ FinalChain(p))

IsPrepared(p) == Contract(p).kind = "probe" /\ Contract(p).cipher /= 0 /\ Contract(p).verified = 0
IsVerified(p) == Contract(p).kind = "probe" /\ Contract(p).verified = SG2_EXPECTED_VALUE

runSg2Prepare(p) ==
    /\ AtPoint(p, "conclude") /\ proc[p].task = "sg2:prepare"
    /\ IsPrepared(p)
    /\ Emit(p, "sg2:prepare", proc[p].id)
    /\ UNCHANGED <<repo, rpc, txs, contracts, broadcasts, opening, disturbances>>

runSg2Verify(p) ==
    /\ AtPoint(p, "conclude") /\ proc[p].task = "sg2:verify"
    /\ IsVerified(p)
    /\ Emit(p, "sg2:verify", proc[p].id)
    /\ UNCHANGED <<repo, rpc, txs, contracts, broadcasts, opening, disturbances>>

Sg2FailConclusion(p) ==
    /\ Sg2(p) /\ AtPoint(p, "conclude")
    /\ IF proc[p].task = "sg2:prepare" THEN ~ IsPrepared(p) ELSE ~ IsVerified(p)
    /\ Step(p, FALSE, proc[p])
    /\ UNCHANGED World

CommandLines == {<<"sg2:deploy">>, <<"--network", "sepolia", "sg2:deploy", "--verbose">>,
                 <<"compile", "sg2:deploy">>, <<"--network", "sg2:deploy">>, <<"--address", "sg2:deploy">>,
                 <<"sg2:deploy", "--address", "sg2:deploy">>, <<"sg2:deploy", "--network">>}

Sg2Next(p) ==
    \/ Startable(p) /\ \E task \in Sg2Tasks, line \in CommandLines, verbose \in BOOLEAN : Sg2Direct(p, task, line, verbose)
    \/ /\ Startable(p)
       /\ \E task \in Sg2Tasks, address \in Known \cup {NoTarget}, selector \in Selectors, verbose \in BOOLEAN :
             Sg2Start(p, task, address, selector, verbose)
    \/ Sg2Dispatch(p) \/ Sg2OpenContext(p) \/ Sg2ConfirmChain(p)
    \/ Sg2CheckTarget(p) \/ Sg2Encrypt(p) \/ Sg2PublicDecrypt(p) \/ Sg2PrepareTransaction(p)
    \/ Sg2Fund(p) \/ runSg2Preflight(p) \/ Sg2Recheck(p) \/ Sg2Sign(p)
    \/ Sg2Repository(p) \/ Sg2Broadcast(p)
    \/ Sg2Poll(p) \/ runSg2Deploy(p) \/ Sg2CallReceipt(p) \/ runSg2Prepare(p) \/ runSg2Verify(p)
    \/ Sg2FailConclusion(p)

-----------------------------------------------------------------------------
(***************************************************************************)
(* What goes wrong: a request of a provider, a signer or the relayer is    *)
(* rejected, git fails; somebody edits, commits or checks out; the RPC     *)
(* address answers for another chain; the operator uses the key elsewhere; *)
(* the pool forgets.                                                       *)
(***************************************************************************)
Awaiting == {"hardhat", "context", "commit", "tree", "chain", "target", "input", "nonce", "estimate",
             "fund", "rechain", "restate", "sign", "head", "headtree", "status", "poll", "code",
             "finalchain", "conclude"}

RequestFails(p) ==
    /\ proc[p].pc \in Awaiting
    /\ Step(p, FALSE, proc[p])
    /\ UNCHANGED World

(* What others do to the repository.  version counts every change, moves   *)
(* those of HEAD; trees has the tree of every commit there is.             *)
Edit ==
    /\ disturbances < MaxDisturbances
    /\ repo' = [repo EXCEPT !.dirty = TRUE, !.version = @ + 1]
    /\ disturbances' = disturbances + 1
    /\ UNCHANGED <<rpc, txs, contracts, proc, evidence, broadcasts, opening>>

Discard ==
    /\ repo.dirty
    /\ repo' = [repo EXCEPT !.dirty = FALSE, !.version = @ + 1]
    /\ UNCHANGED <<rpc, txs, contracts, proc, evidence, broadcasts, opening, disturbances>>

Commit(tree) ==
    /\ repo.dirty /\ tree /= HeadTree
    /\ repo' = [commit |-> Len(repo.trees) + 1, trees |-> Append(repo.trees, tree), dirty |-> FALSE,
                moves |-> repo.moves + 1, version |-> repo.version + 1]
    /\ UNCHANGED <<rpc, txs, contracts, proc, evidence, broadcasts, opening, disturbances>>

Checkout(commit) ==
    /\ disturbances < MaxDisturbances
    /\ commit /= repo.commit
    /\ repo' = [repo EXCEPT !.commit = commit, !.moves = @ + 1, !.version = @ + 1]
    /\ disturbances' = disturbances + 1
    /\ UNCHANGED <<rpc, txs, contracts, proc, evidence, broadcasts, opening>>

SwitchChain ==
    /\ disturbances < MaxDisturbances
    /\ rpc' = IF rpc = "sepolia" THEN "other" ELSE "sepolia"
    /\ disturbances' = disturbances + 1
    /\ UNCHANGED <<repo, txs, contracts, proc, evidence, broadcasts, opening>>

Elsewhere(name, value, target) ==
    /\ disturbances < MaxDisturbances
    /\ PendingNonce < MaxGateNonce
    /\ txs' = txs \cup {[id |-> Transaction(PendingNonce, [name |-> name, value |-> value, by |-> OtherTool], target),
                         status |-> "pooled"]}
    /\ disturbances' = disturbances + 1
    /\ UNCHANGED <<repo, rpc, contracts, proc, evidence, broadcasts, opening>>

Mine(t) ==
    /\ t.status = "pooled"
    /\ t.id.nonce = FirstNonce + Cardinality(Mined)
    /\ t.id.nonce <= MaxGateNonce
    /\ LET reverts == Reverts(t.id.call, IF t.id.target \in GateAddresses THEN contracts[t.id.target] ELSE NoCode)
       IN /\ txs' = (txs \ {t}) \cup {[t EXCEPT !.status = IF reverts THEN "reverted" ELSE "success"]}
          /\ contracts' = IF reverts THEN contracts
                          ELSE [contracts EXCEPT ![Place(t.id)] = Effect(t.id, @)]
    /\ UNCHANGED <<repo, rpc, proc, evidence, broadcasts, opening, disturbances>>

Forget(t) ==
    /\ t.status = "pooled"
    /\ txs' = (txs \ {t}) \cup {[t EXCEPT !.status = "dropped"]}
    /\ UNCHANGED <<repo, rpc, contracts, proc, evidence, broadcasts, opening, disturbances>>

-----------------------------------------------------------------------------
GateInit ==
    /\ repo = [commit |-> 2, trees |-> <<1, 2>>, dirty |-> FALSE, moves |-> 0, version |-> 0]
    /\ rpc = "sepolia"
    /\ txs = {}
    /\ contracts = [a \in GateAddresses |->
           CASE a = 0 -> FreshContract("counter", "operator")
             [] a = 1 -> FreshContract("probe", "operator")
             [] a = 2 -> FreshContract("probe", "somebody")
             [] OTHER -> NoCode]
    /\ proc = [p \in Procs |-> Idle]
    /\ evidence = {}
    /\ broadcasts = {}
    /\ opening \in Balances
    /\ disturbances = 0

GateEnvironment ==
    \/ Edit \/ Discard \/ SwitchChain
    \/ \E tree \in Trees : Commit(tree)
    \/ \E commit \in DOMAIN repo.trees : Checkout(commit)
    \/ \E target \in {0, 1} : Elsewhere(IF target = 0 THEN "increment" ELSE "initialize",
                                         IF target = 0 THEN 1 ELSE OtherValue, target)
    \/ \E t \in txs : Mine(t) \/ Forget(t)

GateStep(p) == Sg1Next(p) \/ Sg2Next(p) \/ RequestFails(p)

GateNext == GateEnvironment \/ \E p \in Procs : GateStep(p)

GateSpec == GateInit /\ [][GateNext]_gateVars

-----------------------------------------------------------------------------
(* The context is opened long before a transaction leaves the machine, the *)
(* repository is asked three times in a row before the send and locked at  *)
(* no time.  What the order of the questions (requireRepositoryIdentity-   *)
(* Unchanged, then at once eth_sendRawTransaction) guarantees all the same: *)
(* if HEAD has not moved since it was read again, the bytes leave from the *)
(* commit and tree their evidence names; if nothing has changed since the  *)
(* status, from a clean working tree; and the tree named is the tree of    *)
(* the commit named, unless HEAD moved between the two in both readings.   *)
BroadcastFromCleanCommit ==
    \A b \in broadcasts :
        /\ b.repo.moves = b.seen => b.repo.commit = b.commit /\ b.repo.trees[b.commit] = b.tree
        /\ b.repo.version = b.sampled => ~ b.repo.dirty
        /\ "opening" \notin b.torn \/ "check" \notin b.torn => b.repo.trees[b.commit] = b.tree

(* Evidence is true: whatever other processes and tools of the same        *)
(* operator do meanwhile, a printed deployment names a contract this very  *)
(* transaction created, a preparation one that holds this task's own       *)
(* ciphertext, a verification a contract that accepted the expected value, *)
(* a probe a counter that this task's increment was the first to write.    *)
GateEvidenceIsTrue ==
    \A e \in evidence \ {x \in evidence : x.event \in Preflights} :
        /\ StatusOf(e.id[1]) = "success"
        /\ \E b \in broadcasts : b.id = e.id[1] /\ b.by = e.by /\ b.commit = e.commit /\ b.tree = e.tree
        /\ LET c == contracts[e.address] IN
           CASE e.event = "sg1:deploy" -> c.kind = "counter" /\ e.address = e.id[1].nonce
             [] e.event = "sg2:deploy" -> c.kind = "probe" /\ e.address = e.id[1].nonce
             [] e.event = "sg1:probe" -> c.first = e.id
             [] e.event = "sg2:prepare" -> c.first = e.id /\ c.cipher = SG2_EXPECTED_VALUE
             [] e.event = "sg2:verify" -> c.cipher = SG2_EXPECTED_VALUE /\ c.verified = SG2_EXPECTED_VALUE

(* A live SG-2 task runs under a capability that was made for it, used     *)
(* once and not yet revoked; until its output is suppressed no selector    *)
(* that speaks for a forbidden namespace (by what patterns mean, not by    *)
(* how they are matched) has come past the launcher.                       *)
LiveIsAuthorized ==
    \A p \in Procs :
        /\ \A namespace \in Forbidden :
               proc[p].pc \notin {"idle", "failed", "passed"} => ~ Speaks(proc[p].selector, namespace)
        /\ proc[p].task \in Sg2Tasks /\ proc[p].pc /= "hardhat" =>
               proc[p].capability = [action |-> proc[p].task, consumed |-> TRUE, revoked |-> FALSE]
=============================================================================
