---------------------------- MODULE HcuAuthority ----------------------------
(***************************************************************************)
(* The live verification of the HCU authority                              *)
(* (scripts/sg4-hcu-authority.ts): a reviewed binding record, committed on *)
(* top of the implementation it names, says which contracts enforce the    *)
(* HCU limits.  The verifier replays the block the record is bound to over *)
(* a read-only endpoint, follows the chain executor -> authority ->        *)
(* implementation link by link, and says PASS, BLOCKED or FAIL.            *)
(*                                                                         *)
(* An answer of the endpoint is "bound" when it is what the record's       *)
(* evidence says, "other" when it is well formed and different, and "bad"  *)
(* when it is empty or malformed.  A request is what it asks and the       *)
(* address it asks it of.                                                  *)
(***************************************************************************)
EXTENDS BindingRecord

CONSTANTS
  Cases,        \* a repository, a binding record, installed tools, and if the record is to be generated
  Chains,       \* what the finalized block may hold when a record is generated
  PinnedBlockCap,  \* the block cap the live verification pins, the largest uint48
  MaxOther      \* bound on the answers of a run that are not what the record says

\* What git says of the commits a verifier may find itself on.
Parents == [A |-> <<"Z">>, B |-> <<"A">>, C |-> <<"B">>, M |-> <<"A", "X">>, D |-> <<"A">>]
Changed == [A |-> {}, B |-> {"binding"}, C |-> {"binding", "docs"}, M |-> {"binding"},
            D |-> {"binding", "implementation"}]

\* The questions that are put to the executor and to the authority once they are identified.
LimitFields == <<"transactionTotal", "transactionDepth", "blockOrBatchCap">>
ExecutorQuestions == {"EXECUTOR_VERSION", "AUTHORITY_GETTER"}
AuthorityQuestions ==
  {"HCU_STORAGE", "EXECUTOR_GETTER", "AUTHORITY_VERSION"} \cup ToSet(LimitFields) \cup ToSet(Callers)

\* A record is of one of the two deployment models of each contract and its documents are lists of
\* lines and of declarations, subjects are asked by names of their own, a pinned build was compiled
\* from the pinned source, and no operation and no price type has the empty name.
ASSUME AuthorityConfiguration ==
  /\ \A c \in Cases :
       /\ c.start \in {"generate", "prepare"}
       /\ DOMAIN c.repo = {"branch", "dirty", "head", "binding"}
       /\ c.repo.head \in DOMAIN Parents /\ c.repo.dirty \subseteq {"tracked", "index", "untracked"}
       /\ {"executor", "authority", "entries"} \subseteq DOMAIN c.record /\ Readable(c.record)
       /\ c.record.executor \in {Proxy, Direct} /\ c.record.authority \in {Proxy, Direct}
  /\ Callers \in Seq(STRING) \ {<<>>}
  /\ ToSet(Callers) \cap ({"CHAIN_ID", "PINNED_BLOCK", "CODE", "SLOT", "HCU_STORAGE", "EXECUTOR_GETTER",
                           "AUTHORITY_VERSION"} \cup ExecutorQuestions \cup ToSet(LimitFields)) = {}
  /\ MaterialSubjects \subseteq DOMAIN Pinned /\ None \notin DOMAIN Canonical /\ None \notin PriceTypes
  /\ \A role \in Roles : Pinned[BuildOf[role]].source = Pinned[SourceOf[role]]

VARIABLES
  repository, record, tools,  \* what the verifier is started with
  mode,         \* CANDIDATE or POST_COMMIT
  lineage,      \* the verdict on the repository; a binding exists when it is VERIFIED
  pc,           \* the question the verifier comes to next
  roles,        \* roleAddresses: the address of each role, once it is verified
  pinned,       \* the transport is bound to the pinned block
  cursor,       \* calls of the plan that were issued
  log,          \* requests that were answered
  violated,     \* the transport refused a request that was not the planned one
  failures, blockers,
  readings,     \* results of the limit getters read so far
  callers,      \* results of the caller applicability so far
  results,      \* the result's fields about the chain of contracts
  verdict       \* finalVerdict, or THROWS

runVars == <<roles, pinned, cursor, log, violated, failures, blockers, readings, callers, results>>
vars == <<repository, record, tools, mode, lineage, pc, runVars, verdict>>

Unless(condition, reason) == IF condition THEN {} ELSE {reason}

-----------------------------------------------------------------------------
(* The repository: A is the reviewed implementation, B the commit on top   *)
(* of it that adds the record.                                             *)

Drifted(commit) == "implementation" \in Changed[commit]

\* git ls-files --others; the record is committed unless the head is A.
untrackedPaths(g) ==
  (IF g.binding = "untracked" THEN {"binding"} ELSE {})
    \cup (IF "untracked" \in g.dirty THEN {"stray"} ELSE {})

worktreeClean(g) == g.dirty = {} /\ untrackedPaths(g) = {}

BranchBlockers(g, m) ==
  (IF g.branch # "main" THEN {"BRANCH_IS_NOT_MAIN"} ELSE {})
    \cup (IF m = "POST_COMMIT" /\ ~worktreeClean(g) THEN {"WORKTREE_IS_NOT_CLEAN"} ELSE {})
    \cup (IF m = "CANDIDATE" /\ "tracked" \in g.dirty THEN {"TRACKED_WORKTREE_IS_NOT_CLEAN"} ELSE {})
    \cup (IF "index" \in g.dirty THEN {"INDEX_IS_NOT_CLEAN"} ELSE {})

\* The record names A; B must be one ordinary commit on A that adds the record only.
LineageBroken(g, m) ==
  IF m = "CANDIDATE"
  THEN g.binding = "tracked" \/ untrackedPaths(g) # {"binding"} \/ g.head # "A"
  ELSE \/ Len(Parents[g.head]) # 1 \/ g.head = "A" \/ Parents[g.head][1] # "A"
       \/ Changed[g.head] # {"binding"} \/ Drifted(g.head)

\* Mutant: the record may sit on any commit.
LineageOfBranch(g, m, errors) ==
  [result |-> IF g.binding = "absent" \/ BranchBlockers(g, m) # {} THEN "UNRESOLVED" ELSE "VERIFIED",
   blockers |-> BranchBlockers(g, m)
                  \cup (IF g.binding = "absent" THEN {"PREPARATION_BINDING_RECORD_ABSENT"} ELSE {})]

checkPreparationLineage(g, m, errors) ==
  CASE g.binding = "absent" ->
         [result |-> "UNRESOLVED",
          blockers |-> BranchBlockers(g, m) \cup {"PREPARATION_BINDING_RECORD_ABSENT"}]
    [] g.binding # "absent" /\ errors # {} ->
         [result |-> "BROKEN", blockers |-> BranchBlockers(g, m) \cup {"BINDING_RECORD_INVALID"}]
    [] g.binding # "absent" /\ errors = {} /\ LineageBroken(g, m) ->
         [result |-> "BROKEN", blockers |-> BranchBlockers(g, m) \cup {"LINEAGE_BROKEN"}]
    [] OTHER -> [result |-> IF BranchBlockers(g, m) = {} THEN "VERIFIED" ELSE "UNRESOLVED",
                 blockers |-> BranchBlockers(g, m)]

-----------------------------------------------------------------------------
(* The plan, and the transport that enforces it.                           *)

Planned(what, role, bound) == [what |-> what, role |-> role, bound |-> bound]

OfProxy(model, slot, code, role, implementation) ==
  IF model = Proxy THEN <<Planned(slot, role, TRUE), Planned(code, implementation, TRUE)>> ELSE <<>>

\* The first i elements of a sequence without those that are not wanted.
Filtered(list, wanted) ==
  LET upTo[i \in 0..Len(list)] ==
        IF i = 0 THEN <<>>
        ELSE IF list[i] \in wanted THEN Append(upTo[i - 1], list[i]) ELSE upTo[i - 1]
  IN upTo

ReadLimits(r) == {f \in Limits : r.limits[f] = OnChain}
AskedCallers(r) == {s \in ToSet(Callers) : r.callers[s] = "AVAILABLE"}

generateLiveCallPlan(r) ==
  LET getters == Filtered(LimitFields, ReadLimits(r))[Len(LimitFields)]
      available == Filtered(Callers, AskedCallers(r))[Len(Callers)]
  IN <<Planned("CHAIN_ID", "NONE", FALSE), Planned("PINNED_BLOCK", "NONE", FALSE),
       Planned("CODE", "EXECUTOR", TRUE)>>
     \o OfProxy(r.executor, "SLOT", "CODE", "EXECUTOR", "EXECUTOR_IMPLEMENTATION")
     \o <<Planned("EXECUTOR_VERSION", "EXECUTOR", TRUE), Planned("AUTHORITY_GETTER", "EXECUTOR", TRUE),
          Planned("CODE", "AUTHORITY", TRUE)>>
     \o OfProxy(r.authority, "SLOT", "CODE", "AUTHORITY", "AUTHORITY_IMPLEMENTATION")
     \o <<Planned("HCU_STORAGE", "AUTHORITY", TRUE), Planned("EXECUTOR_GETTER", "AUTHORITY", TRUE),
          Planned("AUTHORITY_VERSION", "AUTHORITY", TRUE)>>
     \o [i \in DOMAIN getters |-> Planned(getters[i], "AUTHORITY", TRUE)]
     \o [i \in DOMAIN available |-> Planned(available[i], "AUTHORITY", TRUE)]

\* Each role is read as its deployment model says, and asked after it was identified.
PlanUsable(plan, r) ==
  LET position(what, role) == {i \in 1..Len(plan) : plan[i].what = what /\ plan[i].role = role}
      ofModel(model, role, implementation) ==
        LET slots == position("SLOT", role)
            codes == position("CODE", implementation)
        IN IF model = Proxy
           THEN \E i \in 1..Len(plan) : slots = {i} /\ codes = {i + 1}
           ELSE slots = {} /\ codes = {}
  IN /\ ofModel(r.executor, "EXECUTOR", "EXECUTOR_IMPLEMENTATION")
     /\ ofModel(r.authority, "AUTHORITY", "AUTHORITY_IMPLEMENTATION")
     /\ \A i \in position("CODE", "EXECUTOR") \cup position("CODE", "EXECUTOR_IMPLEMENTATION"),
           j \in position("EXECUTOR_VERSION", "EXECUTOR"), k \in position("AUTHORITY_GETTER", "EXECUTOR") :
          i < j /\ j < k

livePlan == generateLiveCallPlan(record)

\* resolvePlannedRequest and requestsAreIdentical: the next planned request is the issued one.
Enforced(what, to) ==
  /\ cursor < Len(livePlan)
  /\ LET planned == livePlan[cursor + 1]
     IN /\ planned.what = what
        /\ roles[planned.role] = to
        /\ planned.bound => pinned

\* What the endpoint may answer.  A slot may name its own contract; code may differ in nothing but
\* the values the normalisation removes.
Answers(what, to) ==
  CASE what = "SLOT" -> {"bound", "other", "self", "bad"}
    [] what = "CODE" /\ to = roles.AUTHORITY_IMPLEMENTATION -> {"bound", "equivalent", "other", "bad"}
    [] what \in ToSet(Callers) -> {"bound", "exempt", "other", "bad"}
    [] OTHER -> {"bound", "other", "bad"}

\* What a step notes, and the question it goes on to.
Continue(next, f, b) ==
  /\ failures' = failures \cup f
  /\ blockers' = blockers \cup b
  /\ pc' = next

\* A throw: the run is over, and what nothing explains yet is recorded as an abort.
Stop(f, b) ==
  Continue("conclude", f, b \cup IF failures \cup f \cup blockers \cup b = {}
                                 THEN {"LIVE_VERIFICATION_ABORTED"} ELSE {})

Resolve(role, address) == roles' = [roles EXCEPT ![role] = address]
Result(field, value) == results' = [results EXCEPT ![field] = value]

\* createGuardedTransport: the plan is enforced before the request, and the log written after it.
Guarded(what, to) ==
  /\ UNCHANGED <<repository, record, tools, mode, lineage, verdict>>
  /\ violated' = ~Enforced(what, to)
  /\ cursor' = IF Enforced(what, to) THEN cursor + 1 ELSE cursor

\* The endpoint may not answer at all: an HTTP error, a redirect, a timeout, a foreign answer.
Unanswered ==
  /\ Stop({}, {})
  /\ UNCHANGED <<log, roles, pinned, readings, callers, results>>

\* The planned request is answered with a.
Answered(what, to, a) ==
  /\ Enforced(what, to)
  /\ a = "bound" \/ Cardinality({i \in DOMAIN log : log[i].answer # "bound"}) < MaxOther
  /\ log' = Append(log, [what |-> what, to |-> to, answer |-> a])

-----------------------------------------------------------------------------
(* sg4-hcu-authority-binding-generator.ts: the state of the finalized      *)
(* block is put into a reviewed record of an earlier version, and the file *)
(* is written if the result is valid.                                      *)

\* The record with the state the chain has: only state, lineage and digests are new.
Fresh(legacy, chain) ==
  [legacy EXCEPT !.malformed = @ \ {"record", "integrity", "snapshot", "stateEvidence", "lineage"},
                 !.stale = @ \ {"record", "proxyRuntime", "implementationRuntime"},
                 !.snapshot = [hex |-> chain.number, decimal |-> chain.number],
                 !.state = [hash |-> chain.hash, version |-> chain.version, word |-> chain.word,
                            decoded |-> chain.word, getters |-> chain.getters]]

\* The work tree is a clean child of the original implementation, and has no record yet.
GenerationRefused(g, legacy, chain) ==
  Unless(Parents[g.head] = <<"Z">>, "HEAD is not a direct remediation child of original Commit A")
    \cup Unless(g.dirty = {} /\ g.binding = "absent", "worktree, index or untracked files are not clean")
    \cup Unless(chain.answered, "RPC returned a malformed answer")
    \cup Unless(chain.getters = chain.word, "getter/storage mismatch")
    \cup deriveExecutorFromSourceMaterial(legacy) \cup deriveAuthorityFromSourceMaterial(legacy)
    \cup validateAuthorityBindingRecord(Fresh(legacy, chain))

\* writeFileSync with wx: the candidate is untracked.
Generate ==
  /\ pc = "generate"
  /\ \E chain \in Chains :
       IF GenerationRefused(repository, record, chain) = {}
       THEN /\ record' = Fresh(record, chain)
            /\ repository' = [repository EXCEPT !.binding = "untracked"]
            /\ pc' = "prepare" /\ UNCHANGED verdict
       ELSE pc' = "done" /\ verdict' = "REFUSED" /\ UNCHANGED <<repository, record>>
  /\ UNCHANGED <<tools, mode, lineage, runVars>>

-----------------------------------------------------------------------------
(* The run, one question at a time.                                        *)

NoResults ==
  [executorProxy |-> "UNRESOLVED", executorImplementation |-> "UNRESOLVED",
   executorVersion |-> "UNRESOLVED", derivation |-> "UNRESOLVED",
   authorityCode |-> "UNRESOLVED", policy |-> "UNRESOLVED", codeIdentity |-> "UNRESOLVED",
   reciprocal |-> "UNRESOLVED", authorityVersion |-> "UNRESOLVED", coverage |-> "UNRESOLVED",
   plan |-> "UNRESOLVED"]

\* Step 0: the repository, the installed measuring tools, and the plan.  Without a binding there
\* is no plan, and without a plan nothing is asked.
Prepare ==
  /\ pc = "prepare"
  /\ \E checked \in {checkPreparationLineage(repository, mode, validateAuthorityBindingRecord(record))} :
       LET bindingResult == CASE checked.result = "VERIFIED" -> "VALID"
                              [] repository.binding = "absent" -> "ABSENT"
                              [] checked.result = "BROKEN" -> "INVALID"
                              [] OTHER -> "UNRESOLVED"
           usable == bindingResult = "VALID" /\ PlanUsable(livePlan, record)
           f == (IF checked.result = "BROKEN" THEN {"PREPARATION_LINEAGE_BROKEN"} ELSE {})
                  \cup Unless("drifted" \notin tools, "MEASUREMENT_TOOLCHAIN_ROOT_UNVERIFIED")
                  \cup Unless("stale" \notin tools, "STALE_AUTHORITY_CONSTANT_USED")
                  \cup Unless(bindingResult # "VALID" \/ usable, "LIVE_CALL_PLAN_UNUSABLE")
           b == checked.blockers
                  \cup Unless(checked.blockers = {}, "NETWORK_TRANSPORT_WITHHELD")
                  \cup Unless(bindingResult = "VALID", "AUTHORITY_BINDING_RECORD_NOT_VALID")
                  \cup Unless(usable, "LIVE_CALL_PLAN_NOT_INSTALLED")
       IN /\ lineage' = checked.result
          /\ IF usable THEN Continue("chain", f, b) ELSE Stop(f, b)
  /\ UNCHANGED <<repository, record, tools, mode, roles, pinned, cursor, log, violated, readings,
                 callers, results, verdict>>

\* An answer that is no number makes BigInt throw before anything is noted.
ChainIdentity ==
  /\ pc = "chain"
  /\ Guarded("CHAIN_ID", "none")
  /\ \/ Unanswered
     \/ \E a \in Answers("CHAIN_ID", "none") :
          /\ Answered("CHAIN_ID", "none", a)
          /\ \/ a = "bound" /\ Continue("block", {}, {})
             \/ a # "bound" /\ Stop({"CHAIN_ID_MISMATCH"}, {})
             \/ a = "bad" /\ Stop({}, {})
          /\ UNCHANGED <<roles, pinned, readings, callers, results>>

\* The finalized block of the record is replayed, never a newer one.
PinnedBlock ==
  /\ pc = "block"
  /\ Guarded("PINNED_BLOCK", "none")
  /\ \/ Unanswered
     \/ \E a \in Answers("PINNED_BLOCK", "none") :
          /\ Answered("PINNED_BLOCK", "none", a)
          /\ CASE a = "bound" -> Continue("executor", {}, {})
               [] a = "other" -> Stop({"BOUND_SNAPSHOT_HEADER_MISMATCH"}, {})
               [] a = "bad" -> Stop({}, {"BOUND_SNAPSHOT_BLOCK_NOT_AVAILABLE"})
          /\ pinned' = (a = "bound")
          /\ UNCHANGED <<roles, readings, callers, results>>

\* The executor's implementation must be the pinned reproduced build, byte for byte.
ExecutorIdentity(a, noted) ==
  LET resolved == "executor" \in PinnedBuilds(record)
      f == noted \cup Unless(a = "bound", "EXECUTOR_SNAPSHOT_IMPLEMENTATION_EVIDENCE_MISMATCH")
  IN CASE a = "bad" -> Stop(noted \cup {"EXECUTOR_IMPLEMENTATION_HAS_NO_CODE"}, {}) /\ UNCHANGED results
       [] a # "bad" /\ ~resolved ->
            Stop(f, {"EXECUTOR_IMPLEMENTATION_CODE_IDENTITY_UNRESOLVED"}) /\ UNCHANGED results
       [] a = "other" /\ resolved -> /\ Stop(f \cup {"EXECUTOR_NORMALIZED_CODE_IDENTITY_MISMATCH"}, {})
                                     /\ Result("executorImplementation", "MISMATCH")
       [] OTHER -> Continue("executorVersion", f, {}) /\ Result("executorImplementation", "VERIFIED")

\* The shell of a proxied executor, the whole of a direct one.
ExecutorShell ==
  /\ pc = "executor"
  /\ Guarded("CODE", "executor")
  /\ \/ Unanswered
     \/ \E a \in Answers("CODE", "executor") :
          LET noted == Unless(a = "bound", "EXECUTOR_SNAPSHOT_PROXY_EVIDENCE_MISMATCH")
          IN  /\ Answered("CODE", "executor", a)
              /\ CASE a = "bad" -> Stop({"EXECUTOR_HAS_NO_CODE"}, {}) /\ UNCHANGED <<roles, results>>
                   [] a # "bad" /\ record.executor = Direct ->
                        /\ Resolve("EXECUTOR_IMPLEMENTATION", "executor")
                        /\ ExecutorIdentity(a, noted)
                   [] a = "other" /\ record.executor = Proxy ->
                        /\ Stop(noted \cup {"EXECUTOR_PROXY_CODE_IDENTITY_MISMATCH"}, {})
                        /\ Result("executorProxy", "MISMATCH") /\ UNCHANGED roles
                   [] a = "bound" /\ record.executor = Proxy ->
                        /\ Continue("executorSlot", {}, {})
                        /\ Result("executorProxy", "VERIFIED") /\ UNCHANGED roles
              /\ UNCHANGED <<pinned, readings, callers>>

\* Only the reviewed implementation address is accepted.
ExecutorSlot ==
  /\ pc = "executorSlot"
  /\ Guarded("SLOT", "executor")
  /\ \/ Unanswered
     \/ \E a \in Answers("SLOT", "executor") :
          LET mismatch == {"EXECUTOR_SNAPSHOT_IMPLEMENTATION_SLOT_MISMATCH"}
          IN  /\ Answered("SLOT", "executor", a)
              /\ CASE a = "bound" -> /\ Continue("executorCode", {}, {})
                                     /\ Resolve("EXECUTOR_IMPLEMENTATION", "executorImplementation")
                   [] a = "bad" -> /\ Stop(mismatch, {"EXECUTOR_ERC1967_IMPLEMENTATION_SLOT_EMPTY_OR_MALFORMED"})
                                   /\ UNCHANGED roles
                   [] OTHER -> Stop(mismatch \cup {"EXECUTOR_IMPLEMENTATION_ADDRESS_MISMATCH"}, {}) /\ UNCHANGED roles
              /\ UNCHANGED <<pinned, readings, callers, results>>

ExecutorCode ==
  /\ pc = "executorCode"
  /\ Guarded("CODE", roles.EXECUTOR_IMPLEMENTATION)
  /\ \/ Unanswered
     \/ \E a \in Answers("CODE", roles.EXECUTOR_IMPLEMENTATION) :
          /\ Answered("CODE", roles.EXECUTOR_IMPLEMENTATION, a)
          /\ ExecutorIdentity(a, {}) /\ UNCHANGED <<roles, pinned, readings, callers>>

ExecutorVersion ==
  /\ pc = "executorVersion"
  /\ Guarded("EXECUTOR_VERSION", "executor")
  /\ \/ Unanswered
     \/ \E a \in Answers("EXECUTOR_VERSION", "executor") :
          /\ Answered("EXECUTOR_VERSION", "executor", a)
          /\ IF a = "bound"
             THEN Continue("authority", {}, {}) /\ Result("executorVersion", "MATCHES_BINDING_RECORD")
             ELSE /\ Stop({"EXECUTOR_SNAPSHOT_VERSION_MISMATCH", "EXECUTOR_VERSION_MISMATCH"},
                          Unless(a # "bad", "EXECUTOR_VERSION_NOT_RESOLVED"))
                  /\ Result("executorVersion", "MISMATCH")
          /\ UNCHANGED <<roles, pinned, readings, callers>>

\* The authority is whatever the verified executor names: another address than the record's is a
\* failure, and is followed all the same.
DeriveAuthority ==
  /\ pc = "authority"
  /\ Guarded("AUTHORITY_GETTER", "executor")
  /\ \/ Unanswered
     \/ \E a \in Answers("AUTHORITY_GETTER", "executor") :
          /\ Answered("AUTHORITY_GETTER", "executor", a)
          /\ IF a = "bad"
             THEN /\ Stop({}, {"AUTHORITY_ADDRESS_NOT_DERIVED_FROM_EXECUTOR"})
                  /\ UNCHANGED <<roles, results>>
             ELSE /\ Continue("authorityCode",
                              Unless(a = "bound", "EXECUTOR_SNAPSHOT_AUTHORITY_GETTER_MISMATCH"), {})
                  /\ Resolve("AUTHORITY", IF a = "bound" THEN "authority" ELSE "elsewhere")
                  /\ Result("derivation", "VERIFIED")
          /\ UNCHANGED <<pinned, readings, callers>>

\* classifyCodeIdentity after normalisation, for the address the chain resolved.  The chain stops
\* unless the code is the artifact's: everything below is asked of it.
AuthorityIdentity(a, noted, proxied) ==
  LET f == noted \cup Unless(a = "bound", "AUTHORITY_SNAPSHOT_IMPLEMENTATION_EVIDENCE_MISMATCH")
      both(value) == results' = [results EXCEPT !.codeIdentity = value,
                                                !.authorityCode = IF proxied THEN @ ELSE value,
                                                !.policy = IF proxied THEN @ ELSE "NOT_APPLICABLE"]
  IN CASE a = "bad" -> Stop(noted \cup {"AUTHORITY_IMPLEMENTATION_HAS_NO_CODE"}, {}) /\ UNCHANGED results
       [] a \in {"bound", "equivalent"} -> Continue("storage", f, {}) /\ both("VERIFIED")
       [] a = "other" -> /\ Stop(f \cup {"AUTHORITY_SNAPSHOT_NORMALIZED_RUNTIME_MISMATCH",
                                         "NORMALIZED_CODE_IDENTITY_MISMATCH"}, {})
                         /\ both("MISMATCH")

AuthorityCode ==
  /\ pc = "authorityCode"
  /\ Guarded("CODE", roles.AUTHORITY)
  /\ \/ Unanswered
     \/ \E a \in Answers("CODE", roles.AUTHORITY) :
          LET noted == Unless(a = "bound", "AUTHORITY_SNAPSHOT_PROXY_EVIDENCE_MISMATCH")
          IN  /\ Answered("CODE", roles.AUTHORITY, a)
              /\ CASE a = "bad" -> Stop({"AUTHORITY_HAS_NO_CODE"}, {}) /\ UNCHANGED <<roles, results>>
                   [] a # "bad" /\ record.authority = Direct ->
                        /\ Resolve("AUTHORITY_IMPLEMENTATION", roles.AUTHORITY)
                        /\ AuthorityIdentity(a, noted, FALSE)
                   [] a = "other" /\ record.authority = Proxy ->
                        /\ Stop(noted \cup {"AUTHORITY_PROXY_CODE_IDENTITY_MISMATCH"}, {})
                        /\ Result("authorityCode", "MISMATCH") /\ UNCHANGED roles
                   [] a = "bound" /\ record.authority = Proxy ->
                        /\ Continue("authoritySlot", {}, {})
                        /\ Result("authorityCode", "VERIFIED") /\ UNCHANGED roles
              /\ UNCHANGED <<pinned, readings, callers>>

\* A reviewed upgrade lets the address move, never the code.  A slot that names the proxy itself is
\* not asked for its code a second time.
AuthoritySlot ==
  /\ pc = "authoritySlot"
  /\ Guarded("SLOT", roles.AUTHORITY)
  /\ \/ Unanswered
     \/ \E a \in Answers("SLOT", roles.AUTHORITY) :
          LET mismatch == Unless(a = "bound", "AUTHORITY_SNAPSHOT_IMPLEMENTATION_SLOT_MISMATCH")
          IN  /\ Answered("SLOT", roles.AUTHORITY, a)
              /\ CASE a = "bad" ->
                        /\ Stop(mismatch, {"ERC1967_IMPLEMENTATION_SLOT_EMPTY_OR_MALFORMED"})
                        /\ UNCHANGED <<roles, results>>
                   [] a \in {"other", "self"} /\ record.policies.authority.kind = "EXACT" ->
                        /\ Stop(mismatch \cup {"AUTHORITY_IMPLEMENTATION_ADDRESS_MISMATCH"}, {})
                        /\ Result("policy", "MISMATCH") /\ UNCHANGED roles
                   [] a = "self" /\ record.policies.authority.kind = "UPGRADE" ->
                        /\ Resolve("AUTHORITY_IMPLEMENTATION", roles.AUTHORITY)
                        /\ AuthorityIdentity("other", mismatch, TRUE)
                   [] OTHER ->
                        /\ Continue("authorityImplementation", mismatch, {})
                        /\ Resolve("AUTHORITY_IMPLEMENTATION",
                                   IF a = "bound" THEN "authorityImplementation" ELSE "elsewhereImplementation")
                        /\ Result("policy", IF record.policies.authority.kind = "EXACT" THEN "EXACT_MATCH" ELSE "PERMITTED")
              /\ UNCHANGED <<pinned, readings, callers>>

AuthorityImplementation ==
  /\ pc = "authorityImplementation"
  /\ Guarded("CODE", roles.AUTHORITY_IMPLEMENTATION)
  /\ \/ Unanswered
     \/ \E a \in Answers("CODE", roles.AUTHORITY_IMPLEMENTATION) :
          /\ Answered("CODE", roles.AUTHORITY_IMPLEMENTATION, a)
          /\ AuthorityIdentity(a, {}, TRUE) /\ UNCHANGED <<roles, pinned, readings, callers>>

\* The storage word of the evidence holds the limits the verifier has written out.
WordPinned ==
  /\ \A f \in MandatoryLimits : record.state.word[f] = Ceilings[f]
  /\ record.state.word["blockOrBatchCap"] = PinnedBlockCap

\* A word that is the evidence's and not the pinned one is noted, and the chain goes on.
PackedStorage ==
  /\ pc = "storage"
  /\ Guarded("HCU_STORAGE", roles.AUTHORITY)
  /\ \/ Unanswered
     \/ \E a \in Answers("HCU_STORAGE", roles.AUTHORITY) :
          /\ Answered("HCU_STORAGE", roles.AUTHORITY, a)
          /\ CASE a = "bound" -> Continue("reciprocal", Unless(WordPinned, "HCU_PACKED_STORAGE_LIMIT_MISMATCH"), {})
               [] a = "other" -> Stop({"HCU_PACKED_STORAGE_EVIDENCE_MISMATCH"}, {})
               [] a = "bad" -> Stop({"HCU_PACKED_STORAGE_WORD_MALFORMED"}, {})
          /\ UNCHANGED <<roles, pinned, readings, callers, results>>

\* From here on a contradiction is noted, and the rest is still asked.
Reciprocal ==
  /\ pc = "reciprocal"
  /\ Guarded("EXECUTOR_GETTER", roles.AUTHORITY)
  /\ \/ Unanswered
     \/ \E a \in Answers("EXECUTOR_GETTER", roles.AUTHORITY) :
          /\ Answered("EXECUTOR_GETTER", roles.AUTHORITY, a)
          /\ Continue("authorityVersion",
                      Unless(a = "bound", "AUTHORITY_SNAPSHOT_RECIPROCAL_GETTER_MISMATCH")
                        \cup Unless(a # "other", "RECIPROCAL_LINKAGE_BROKEN"),
                      Unless(a # "bad", "RECIPROCAL_LINKAGE_NOT_RESOLVED"))
          /\ Result("reciprocal", [bound |-> "VERIFIED", other |-> "BROKEN", bad |-> "UNRESOLVED"][a])
          /\ UNCHANGED <<roles, pinned, readings, callers>>

AuthorityVersion ==
  /\ pc = "authorityVersion"
  /\ Guarded("AUTHORITY_VERSION", roles.AUTHORITY)
  /\ \/ Unanswered
     \/ \E a \in Answers("AUTHORITY_VERSION", roles.AUTHORITY) :
          /\ Answered("AUTHORITY_VERSION", roles.AUTHORITY, a)
          /\ Continue("limits",
                      IF a = "bound" THEN {}
                      ELSE {"AUTHORITY_SNAPSHOT_VERSION_MISMATCH", "AUTHORITY_VERSION_MISMATCH"},
                      Unless(a # "bad", "AUTHORITY_VERSION_NOT_RESOLVED"))
          /\ Result("authorityVersion", IF a = "bound" THEN "MATCHES_BINDING_RECORD" ELSE "MISMATCH")
          /\ UNCHANGED <<roles, pinned, readings, callers>>

-----------------------------------------------------------------------------
(* Limits, callers and the calculator.                                     *)

MatchesOnChain == "MATCHES_BINDING_RECORD_ON_CHAIN"
FromArtifact == "VERIFIED_FROM_CODE_IDENTIFIED_ARTIFACT_NO_GETTER"
PROMOTING_LIMIT_RESULTS == {MatchesOnChain, FromArtifact}

Mandatory(field) == field # "blockOrBatchCap"
HasExpectation(field) == Mandatory(field) \/ record.block = "PROVEN_PRESENT"

\* What the limits are expected to be is what the storage word of the evidence holds.
ExpectationsStored(capRead) ==
  /\ \A f \in MandatoryLimits : record.ceilings[f] = record.state.word[f]
  /\ capRead => record.cap = {record.state.word["blockOrBatchCap"]}

\* After the third reading the getters, the storage and the evidence must agree; a cap that was not
\* read is taken from the evidence.
ReadingDone(reading, f, b) ==
  LET all == Append(readings, reading)
      last == Len(all) = Len(LimitFields)
  IN /\ readings' = all
     /\ Continue(IF last THEN "callers" ELSE "limits",
                 f \cup Unless(last => /\ all[1] = MatchesOnChain /\ all[2] = MatchesOnChain
                                       /\ ExpectationsStored(reading = MatchesOnChain),
                               "HCU_GETTER_STORAGE_MISMATCH"), b)

\* What is known of a limit that has no getter.
UnreadLimit(field) ==
  /\ CASE record.limits[field] = NotApplicable /\ Mandatory(field) ->
            ReadingDone("UNRESOLVED", {"MANDATORY_LIMIT_DECLARED_NOT_APPLICABLE"}, {})
       [] record.limits[field] = NotApplicable /\ ~Mandatory(field) -> ReadingDone(NotApplicable, {}, {})
       [] record.limits[field] = Absent /\ HasExpectation(field) -> ReadingDone(FromArtifact, {}, {})
       [] record.limits[field] = Absent /\ ~HasExpectation(field) ->
            ReadingDone("UNRESOLVED", {}, {"LIMIT_ARTIFACT_PROOF_INCOMPLETE"})
  /\ UNCHANGED <<repository, record, tools, mode, lineage, roles, pinned, cursor, log, violated, callers,
                 results, verdict>>

readLimitGetter ==
  /\ pc = "limits"
  /\ LET field == LimitFields[Len(readings) + 1]
     IN IF record.limits[field] = OnChain
        THEN /\ Guarded(field, roles.AUTHORITY)
             /\ \/ Unanswered
                \/ \E a \in Answers(field, roles.AUTHORITY) :
                     /\ Answered(field, roles.AUTHORITY, a)
                     /\ CASE a = "bad" -> ReadingDone("MISMATCH", {"LIMIT_GETTER_MALFORMED_RESULT"}, {})
                          [] a # "bad" /\ ~HasExpectation(field) ->
                               ReadingDone("UNRESOLVED", {}, {"LIMIT_GETTER_EXPECTATION_MISSING"})
                          [] a = "bound" /\ HasExpectation(field) -> ReadingDone(MatchesOnChain, {}, {})
                          [] a = "other" /\ HasExpectation(field) ->
                               ReadingDone("MISMATCH", {"ON_CHAIN_LIMIT_MISMATCH"}, {})
                     /\ UNCHANGED <<roles, pinned, callers, results>>
        ELSE UnreadLimit(field)

\* The pricing comparison follows the last subject: the calculator must price every variant used.
CallerDone(result, f) ==
  LET last == Len(callers) + 1 = Len(Callers)
  IN /\ callers' = Append(callers, result)
     /\ Continue(IF last THEN "conclude" ELSE "callers",
                 f \cup Unless(last => pricingComparisonBlockers(record) = {}, "SG4_VARIANT_COMPATIBILITY"), {})
     /\ IF last THEN Result("coverage", IF pricingComparisonBlockers(record) = {} THEN "COMPLETE" ELSE "INCOMPLETE")
        ELSE UNCHANGED results

CallerApplicability ==
  /\ pc = "callers"
  /\ LET subject == Callers[Len(callers) + 1]
     IN IF record.callers[subject] = "AVAILABLE"
        THEN /\ Guarded(subject, roles.AUTHORITY)
             /\ \/ Unanswered
                \/ \E a \in Answers(subject, roles.AUTHORITY) :
                     /\ Answered(subject, roles.AUTHORITY, a)
                     /\ CASE a = "bound" -> CallerDone("NOT_EXEMPT", {})
                          [] a = "exempt" -> CallerDone("EXEMPT", {})
                          [] a = "other" -> CallerDone("UNKNOWN_EXEMPTION", {"CALLER_APPLICABILITY_UNEXPECTED_RESULT"})
                          [] a = "bad" -> CallerDone("MALFORMED", {"CALLER_APPLICABILITY_MALFORMED_RESULT"})
                     /\ UNCHANGED <<roles, pinned, readings>>
        ELSE /\ CallerDone("NOT_APPLICABLE_WITH_PROOF", {})
             /\ UNCHANGED <<repository, record, tools, mode, lineage, roles, pinned, cursor, log, violated,
                            readings, verdict>>

-----------------------------------------------------------------------------
(* The verdict, and the validation of the result it is stated in.          *)

\* The record's facts hold for the contract whose code was identified.
Bound == results.codeIdentity = "VERIFIED" /\ lineage = "VERIFIED" /\ record.status = "RESOLVED"

Reading(i) == IF i \in DOMAIN readings THEN readings[i] ELSE "UNRESOLVED"

blockOrBatchControl ==
  IF Bound /\ record.block \in {"PROVEN_PRESENT", "PROVEN_ABSENT"} THEN record.block ELSE "UNRESOLVED"

perTransactionControl(i) ==
  IF Bound /\ Reading(i) \in PROMOTING_LIMIT_RESULTS THEN "PROVEN_PRESENT" ELSE "LOCAL_EXPECTED"

callerExemption ==
  LET states == ToSet(callers)
  IN CASE states = {} -> "UNRESOLVED"
       [] states \cap {"UNKNOWN_EXEMPTION", "MALFORMED"} # {} -> "UNKNOWN_EXEMPTION"
       [] "EXEMPT" \in states /\ states \cap {"UNKNOWN_EXEMPTION", "MALFORMED"} = {} -> "EXEMPT"
       [] states = {"NOT_APPLICABLE_WITH_PROOF"} -> "NOT_APPLICABLE_WITH_PROOF"
       [] OTHER -> "NOT_EXEMPT"

\* Exact when every planned call was issued and answered.
planEnforcement ==
  CASE lineage # "VERIFIED" -> "NOT_APPLICABLE"
    [] lineage = "VERIFIED" /\ (violated \/ "LIVE_CALL_PLAN_UNUSABLE" \in failures) -> "VIOLATED"
    [] lineage = "VERIFIED" /\ ~violated /\ cursor = Len(livePlan) /\ Len(log) = Len(livePlan) ->
         "ENFORCED_EXACT"
    [] OTHER -> "UNRESOLVED"

LateFailures ==
  Unless(results.coverage # "INCOMPLETE", "SG4_COVERAGE_INCOMPLETE")
    \cup Unless(callerExemption # "UNKNOWN_EXEMPTION", "CALLER_EXEMPTION_UNKNOWN")
    \cup Unless(callerExemption # "EXEMPT", "RELEVANT_CALLER_IS_EXEMPT")
    \cup Unless(planEnforcement # "VIOLATED", "LIVE_CALL_PLAN_VIOLATED")

LateBlockers ==
  Unless(blockOrBatchControl # "UNRESOLVED", "BLOCK_OR_BATCH_CONTROL_UNRESOLVED")
    \cup (IF Bound THEN {} ELSE {"OPERATION_SCHEDULE_AUTHORITY_UNRESOLVED", "NETWORK_LIMIT_SEMANTICS_UNRESOLVED"})
    \cup Unless(lineage = "VERIFIED" /\ record.reverification = "REVERIFIED" /\ record.status = "RESOLVED",
                "IMMUTABLE_PROVENANCE_NOT_REVERIFIED")
    \cup Unless(results.coverage # "UNRESOLVED", "SG4_COVERAGE_UNRESOLVED")
    \cup Unless(perTransactionControl(1) = "PROVEN_PRESENT", "TRANSACTION_TOTAL_CONTROL_NOT_BOUND")
    \cup Unless(perTransactionControl(2) = "PROVEN_PRESENT", "TRANSACTION_DEPTH_CONTROL_NOT_BOUND")
    \cup Unless(pinned, "PINNED_BLOCK_NOT_FINALIZED")
    \cup Unless(callerExemption # "UNRESOLVED", "CALLER_EXEMPTION_UNRESOLVED")
    \cup Unless(lineage = "VERIFIED" /\ "authority" \in PinnedBuilds(record), "REPRODUCED_BUILD_UNRESOLVED")
    \cup Unless(planEnforcement # "UNRESOLVED", "LIVE_CALL_PLAN_NOT_EXHAUSTED")

\* validateAuthorityResult on a PASS, section by section.
ReviewedErrors ==
  Unless(lineage = "VERIFIED" /\ validateAuthorityBindingRecord(record) = {} /\ PinnedBuilds(record) = Roles,
         "PASS requires an independently valid reviewed binding")

ExecutorErrors ==
  Unless(results.executorImplementation = "VERIFIED", "PASS requires verified executor code identity")
    \cup Unless(IF record.executor = Proxy
                THEN results.executorProxy = "VERIFIED" /\ roles.EXECUTOR_IMPLEMENTATION = "executorImplementation"
                ELSE results.executorProxy = "UNRESOLVED" /\ roles.EXECUTOR_IMPLEMENTATION = "executor",
                "PASS requires the executor implementation address to equal the reviewed policy")
    \cup Unless(results.executorVersion = "MATCHES_BINDING_RECORD", "PASS requires the executor version")
    \cup Unless(results.derivation = "VERIFIED" /\ roles.AUTHORITY = "authority",
                "PASS requires the authority address derived from the executor")

AuthorityErrors ==
  Unless(results.codeIdentity = "VERIFIED" /\ results.authorityCode = "VERIFIED",
         "PASS requires verified authority code identity")
    \cup Unless(results.authorityVersion = "MATCHES_BINDING_RECORD", "PASS requires the authority version")
    \cup Unless(results.reciprocal = "VERIFIED", "reciprocal linkage must be VERIFIED")
    \cup Unless(results.policy = (CASE record.authority = Direct -> "NOT_APPLICABLE"
                                    [] record.authority = Proxy /\ record.policies.authority.kind = "EXACT" -> "EXACT_MATCH"
                                    [] OTHER -> "PERMITTED"),
                "PASS requires the authority implementation address to satisfy its reviewed policy")

ReadingErrors ==
  Unless({Reading(1), Reading(2)} \subseteq PROMOTING_LIMIT_RESULTS,
         "PASS requires the limits read on chain or proven from the artifact")
    \cup Unless(Reading(3) \in PROMOTING_LIMIT_RESULTS \cup {NotApplicable}, "PASS requires the block/batch reading")
    \cup Unless(Len(callers) = Len(Callers) /\ ToSet(callers) \cap {"UNRESOLVED", "MALFORMED"} = {},
                "PASS requires resolved caller applicability for every SG-4 subject")
    \cup Unless(callerExemption \notin {"UNKNOWN_EXEMPTION", "UNRESOLVED", "EXEMPT"},
                "PASS requires that no SG-4-relevant caller is exempt")

StateErrors ==
  Unless(pinned, "PASS requires a finalized pinned block")
    \cup Unless(tools = {}, "PASS requires the measurement toolchain root to have been verified")
    \cup Unless(results.coverage = "COMPLETE", "PASS requires complete SG-4 coverage")
    \cup Unless(Bound /\ record.reverification = "REVERIFIED", "PASS requires resolved immutable provenance")
    \cup Unless(perTransactionControl(1) = "PROVEN_PRESENT" /\ perTransactionControl(2) = "PROVEN_PRESENT",
                "PASS requires the per-transaction controls proven present")
    \cup Unless(blockOrBatchControl # "UNRESOLVED", "PASS requires the block/batch control to be resolved")

\* Mutant: every storage read is counted as the read of a slot.
SlotReadsByMethod ==
  LET reads == Cardinality({i \in DOMAIN log : log[i].what \in {"SLOT", "HCU_STORAGE"}})
      expected == Cardinality({role \in {"executor", "authority"} : record[role] = Proxy})
  IN Unless(reads = expected, "PASS requires exactly one ERC-1967 slot read for each proxied role")

\* Slot reads are counted, but whether any is expected is asked of the method all storage reads use.
SlotReadErrors ==
  LET slots == Cardinality({i \in DOMAIN log : log[i].what = "SLOT"})
      expected == Cardinality({role \in {"executor", "authority"} : record[role] = Proxy})
      storageRead == \E i \in DOMAIN log : log[i].what \in {"SLOT", "HCU_STORAGE"}
  IN Unless(slots = expected /\ (storageRead <=> expected > 0),
            "PASS requires exactly one ERC-1967 slot read for each proxied role and none for direct roles")

PlanErrors ==
  Unless(planEnforcement = "ENFORCED_EXACT" /\ livePlan # <<>> /\ Len(log) = Len(livePlan),
         "PASS requires the verifier to have enforced its generated live call plan exactly")

validateAuthorityResult ==
  ReviewedErrors \cup ExecutorErrors \cup AuthorityErrors \cup ReadingErrors \cup StateErrors
    \cup SlotReadErrors \cup PlanErrors

\* A computed PASS that the validation rejects is not emitted.
Conclude ==
  /\ pc = "conclude"
  /\ pc' = "done"
  /\ failures' = failures \cup LateFailures
  /\ blockers' = blockers \cup LateBlockers
  /\ results' = [results EXCEPT !.plan = planEnforcement]
  /\ verdict' = CASE failures' # {} -> "FAIL"
                  [] failures' = {} /\ blockers' # {} -> "BLOCKED"
                  [] OTHER -> IF validateAuthorityResult = {} THEN "PASS" ELSE "THROWS"
  /\ UNCHANGED <<repository, record, tools, mode, lineage, roles, pinned, cursor, log, violated, readings,
                 callers>>

-----------------------------------------------------------------------------

Init ==
  /\ \E c \in Cases : repository = c.repo /\ record = c.record /\ tools = c.tools /\ pc = c.start
  /\ mode \in {"CANDIDATE", "POST_COMMIT"}
  /\ lineage = "UNRESOLVED"
  /\ roles = [NONE |-> "none", EXECUTOR |-> "executor", EXECUTOR_IMPLEMENTATION |-> "unresolved",
              AUTHORITY |-> "unresolved", AUTHORITY_IMPLEMENTATION |-> "unresolved"]
  /\ pinned = FALSE
  /\ cursor = 0
  /\ log = <<>>
  /\ violated = FALSE
  /\ failures = {} /\ blockers = {}
  /\ readings = <<>> /\ callers = <<>>
  /\ results = NoResults
  /\ verdict = "NONE"

Next ==
  \/ Generate \/ Prepare \/ ChainIdentity \/ PinnedBlock
  \/ ExecutorShell \/ ExecutorSlot \/ ExecutorCode \/ ExecutorVersion
  \/ DeriveAuthority \/ AuthorityCode \/ AuthoritySlot \/ AuthorityImplementation
  \/ PackedStorage \/ Reciprocal \/ AuthorityVersion \/ readLimitGetter \/ CallerApplicability
  \/ Conclude

Spec == Init /\ [][Next]_vars

-----------------------------------------------------------------------------
(* Properties.                                                             *)

\* A record the verifier goes to the endpoint with, reviewed or generated, says what its documents
\* say when they are read without the extractors, and the documents are the reviewed ones.
AcceptedIsDerived ==
  pc = "chain" /\ record.status = "RESOLVED" => DerivedFromDocuments(record)

\* No question is put to a contract that was not identified: before the executor's or the authority's
\* getters and storage are read, its code was read and is the code of the reviewed build.
UnverifiedNeverAsked ==
  LET identified(i, role, model) ==
        \E j \in 1..(i - 1) :
          /\ log[j].what = "CODE" /\ log[j].answer \in {"bound", "equivalent"}
          /\ log[j].to = IF model = Direct THEN roles[role]
                         ELSE roles[IF role = "EXECUTOR" THEN "EXECUTOR_IMPLEMENTATION" ELSE "AUTHORITY_IMPLEMENTATION"]
  IN \A i \in DOMAIN log :
       /\ log[i].what \in ExecutorQuestions => identified(i, "EXECUTOR", record.executor)
       /\ log[i].what \in AuthorityQuestions => identified(i, "AUTHORITY", record.authority)

\* The questions the verifier comes to are those it planned from the record, whatever the endpoint
\* answers: the plan and the control flow are written twice, and never disagree.
PlanFollowed == ~violated

\* PASS is emitted only if the repository is the reviewed commit with the record and nothing else,
\* the measuring tools are the reviewed ones, every planned question was asked, in order, of the
\* address the record names, and answered as the record's evidence says, both contracts are built
\* from the pinned sources, every price in use is the calculator's, and the limits that are stored,
\* the cap of a block among them, are the pinned ones.
\* Until then no contract is asked that was not identified, nor anything that was not planned.
PassMeansVerified ==
  /\ UnverifiedNeverAsked
  /\ PlanFollowed
  /\ verdict = "PASS" =>
        /\ repository.branch = "main" /\ repository.dirty = {} /\ ~Drifted(repository.head)
        /\ IF mode = "CANDIDATE" THEN repository.head = "A" /\ repository.binding = "untracked" ELSE repository.head = "B"
        /\ validateAuthorityBindingRecord(record) = {} /\ record.status = "RESOLVED" /\ tools = {}
        /\ Len(log) = Len(livePlan)
        /\ \A i \in DOMAIN log : log[i].what = livePlan[i].what /\ log[i].answer = "bound"
        /\ "elsewhere" \notin {roles[r] : r \in DOMAIN roles}
        /\ \A s \in MaterialSubjects \ {"priceSchedule"} : record.entries[s].content = Pinned[s]
        /\ \A v \in Closure : \E p \in record.prices, c \in Installed :
             p.operation = v.operation /\ c.name = v.name /\ <<p.mode, p.type, p.cost>> = <<c.mode, c.type, c.cost>>
        /\ WordPinned

\* A run of a record whose word holds the pinned limits that met no contradiction is never a FAIL: it
\* passes if all was answered, and is blocked if the endpoint stopped answering.
HonestRunPasses ==
  (/\ pc = "done" /\ lineage = "VERIFIED" /\ tools = {}
   /\ WordPinned /\ ExpectationsStored(record.block = "PROVEN_PRESENT")
   /\ \A f \in MandatoryLimits : record.limits[f] = OnChain
   /\ Proxy \in {record.executor, record.authority}
   /\ record.block = "PROVEN_ABSENT" => record.limits["blockOrBatchCap"] = NotApplicable
   /\ record.status = "RESOLVED" /\ record.reverification = "REVERIFIED" /\ pricingComparisonBlockers(record) = {}
   /\ PinnedBuilds(record) = Roles
   /\ \A i \in DOMAIN log : log[i].answer = "bound")
  => verdict = IF Len(log) = Len(livePlan) THEN "PASS" ELSE "BLOCKED"
=============================================================================
