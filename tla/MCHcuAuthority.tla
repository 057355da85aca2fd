--------------------------- MODULE MCHcuAuthority ---------------------------
(***************************************************************************)
(* The instance of HcuAuthority: the reviewed documents, the records made  *)
(* from them, honest and altered in one part, and the repository states    *)
(* they are verified in.                                                   *)
(***************************************************************************)
EXTENDS HcuAuthority, TLC

MCCallers == <<"deployer", "vault">>
MCCanonical == [fheAdd |-> "FheAdd", fheRand |-> "FheRand"]
MCCeilings == [transactionTotal |-> 20, transactionDepth |-> 5]
MCClosure == {[name |-> "add", operation |-> "FheAdd", mode |-> "scalar", type |-> "Uint8", shape |-> "binary"],
              [name |-> "rand", operation |-> "FheRand", mode |-> "types", type |-> "Uint8", shape |-> "nullary"]}
MCInstalled == {[name |-> "add", mode |-> "scalar", type |-> "Uint8", cost |-> 2],
                [name |-> "rand", mode |-> "types", type |-> "Uint8", cost |-> 4],
                [name |-> "rand", mode |-> "types", type |-> "Uint64", cost |-> 9]}

-----------------------------------------------------------------------------
(* The reviewed documents.                                                 *)

L(kind, name, cost) == [k |-> kind, n |-> name, c |-> cost, b |-> None]
PriceLines ==
  <<L("root", None, 0),
    L("open", "fheAdd", 0), L("field", "supportScalar", 0), L("field", "numberInputs", 2),
      L("open", "scalar", 0), L("entry", "Uint8", 2), L("entry", "Uint64", 3), L("close", None, 0),
      L("open", "nBucketed", 0), [L("inline", "Uint8", 3) EXCEPT !.b = "n1"], L("open", "Uint64", 0),
        L("entry", "n1", 3), L("close", None, 0), L("close", None, 0), L("close", None, 0),
    L("open", "fheRand", 0), L("field", "supportScalar", 0), L("field", "numberInputs", 0),
      L("open", "types", 0), L("entry", "Uint8", 4), L("close", None, 0), L("close", None, 0),
    L("close", None, 0)>>

Function(name, running, ceiling, op, reverts, returns, prices) ==
  [k |-> "function", n |-> name, running |-> running,
   body |-> IF ceiling = None THEN <<>> ELSE <<[name |-> ceiling, op |-> op]>>,
   reverts |-> reverts, returns |-> returns, costs |-> prices # None, odd |-> FALSE, prices |-> prices]
Declared(kind, name) == [k |-> kind, n |-> name]

SourceLines ==
  <<Declared("error", "HCUTransactionLimitExceeded"), Declared("mapping", "whitelist"),
    Declared("field", "maxHCUPerTx"), Declared("field", "maxHCUDepthPerTx"), Declared("field", "globalHCUCapPerBlock"),
    Function("checkHCUForFheAdd", None, None, None, FALSE, None, "FheAdd"),
    Function("checkHCUForFheRand", None, None, None, FALSE, None, "FheRand"),
    Function("_updateTotal", "total", "maxHCUPerTx", ">", TRUE, None, None),
    Function("_updateDepth", "next", "maxHCUDepthPerTx", ">", TRUE, None, None),
    Function("_updateBlock", "next", "globalHCUCapPerBlock", ">", TRUE, None, None),
    Function("getMaxHCUPerTx", None, None, None, FALSE, "maxHCUPerTx", None),
    Function("getMaxHCUDepthPerTx", None, None, None, FALSE, "maxHCUDepthPerTx", None),
    Function("getGlobalHCUCapPerBlock", None, None, None, FALSE, "globalHCUCapPerBlock", None)>>

\* Another contract: constants for ceilings, and no cap for the block.
ConstantLines ==
  <<Declared("error", "HCUTransactionLimitExceeded"),
    [k |-> "constant", n |-> "MAX_TX", v |-> 20], [k |-> "constant", n |-> "MAX_DEPTH", v |-> 5],
    Function("_updateTotal", "total", "MAX_TX", ">", TRUE, None, None),
    Function("_updateDepth", "depth", "MAX_DEPTH", ">", TRUE, None, None)>>

ExecutorLines == <<Declared("opaque", "FHEVMExecutor")>>
Build(source, runtime) ==
  [facts |-> [f \in BuildFacts |-> "pinned"], source |-> source, runtime |-> runtime]

MCPinned ==
  [authoritySource |-> SourceLines, executorSource |-> ExecutorLines, priceSchedule |-> PriceLines,
   authorityBuild |-> Build(SourceLines, "HCULimit"), executorBuild |-> Build(ExecutorLines, "FHEVMExecutor"),
   calculator |-> <<Declared("opaque", "hcu")>>, costTable |-> <<Declared("opaque", "HCUByOperator")>>,
   configuration |-> <<Declared("opaque", "ZamaConfig")>>]
MCBlockScoped == {"globalHCUCapPerBlock", "getGlobalHCUCapPerBlock"}

-----------------------------------------------------------------------------
(* Records.                                                                *)

NameOf(operation) == IF operation = "FheAdd" THEN "add" ELSE "rand"
ShapeOf(operation) == IF operation = "FheAdd" THEN "binary" ELSE "nullary"
FieldOf == [transactionTotal |-> "maxHCUPerTx", transactionDepth |-> "maxHCUDepthPerTx",
            blockOrBatchCap |-> "globalHCUCapPerBlock"]
ConstantOf == [transactionTotal |-> "MAX_TX", transactionDepth |-> "MAX_DEPTH", blockOrBatchCap |-> "MAX_BLOCK"]
Word == [transactionTotal |-> 20, transactionDepth |-> 5, blockOrBatchCap |-> 40]

\* A reviewer's record of some documents: its claims are what the extractors say.
StorageProof(source, f) ==
  {[kind |-> "STORAGE_FIELD", name |-> FieldOf[f], value |-> Word[f], operator |-> ">",
    functions |-> {source[i].n : i \in e.reads}, getter |-> e.getter] : e \in storageFieldEvidence(source, FieldOf[f])}
ConstantProof(source, f) ==
  {[kind |-> "CONSTANT", name |-> ConstantOf[f], value |-> Word[f], operator |-> ">",
    functions |-> {source[i].n}, getter |-> None] : i \in {j \in enforcementFunctions(source) : Mentions(source[j], {ConstantOf[f]})}}
ProofOf(source, f) == StorageProof(source, f) \cup ConstantProof(source, f)
GetterOf(source, f) == LET proofs == StorageProof(source, f) IN IF proofs = {} THEN None ELSE (CHOOSE p \in proofs : TRUE).getter
LimitOf(source, f) == CASE GetterOf(source, f) # None -> OnChain
                        [] GetterOf(source, f) = None /\ f = "blockOrBatchCap" -> NotApplicable
                        [] OTHER -> Absent

RecordOf(documents) ==
  LET source == documents.authoritySource
      build == documents.authorityBuild
      block == "PROVEN_" \o deriveBlockOrBatchConclusion(enumeration(source))
      changed == {s \in {"priceSchedule", "authoritySource"} : documents[s] # MCPinned[s]}
      at(s) == IF s \in changed THEN "amended" ELSE "pinned"
      evidence(f) == {[name |-> p.name, value |-> p.value, operator |-> p.operator] : p \in ConstantProof(source, f)}
      parent == CHOOSE n \in UNION {UNION {p.functions : p \in ProofOf(source, f)} : f \in Limits} : TRUE
  IN [malformed |-> {}, stale |-> {}, snapshot |-> [hex |-> 7, decimal |-> 7],
      status |-> "RESOLVED", reviewed |-> TRUE, reverification |-> "REVERIFIED",
      entries |-> [s \in DOMAIN MCPinned |-> [at |-> at(s), content |-> documents[s], reverified |-> TRUE]],
      amendments |-> SetToSeq({[subject |-> s, supersedes |-> "pinned", at |-> at(s), content |-> documents[s],
                                reviewed |-> TRUE] : s \in changed}),
      material |-> [s \in MaterialSubjects |-> {documents[s]}],
      artifact |-> [id |-> "official", hash |-> build.runtime, compiler |-> build.facts["compiler"],
                    references |-> build.runtime],
      executor |-> Proxy, authority |-> Proxy,
      policies |-> [role \in Roles |-> [kind |-> "EXACT", address |-> role, conditions |-> {}, reviewed |-> TRUE]],
      hash |-> [executor |-> documents.executorBuild.runtime, authority |-> build.runtime],
      version |-> [executor |-> "reproduced", authority |-> "v"],
      refs |-> [artifact |-> at("authoritySource"), configuration |-> "pinned", schedule |-> at("priceSchedule")],
      prices |-> {[name |-> NameOf(v.operation), operation |-> v.operation, mode |-> v.mode, type |-> v.type,
                   shape |-> ShapeOf(v.operation), cost |-> v.cost] : v \in extractPriceSchedule(documents.priceSchedule).variants},
      semantics |-> derivedLimitSemantics(source), operator |-> ">", inclusive |-> TRUE, ceilings |-> MCCeilings,
      limits |-> [f \in Limits |-> LimitOf(source, f)],
      evidence |-> [f \in MandatoryLimits |-> evidence(f)],
      proof |-> [source |-> source, entries |-> [f \in Limits |-> ProofOf(source, f)]],
      enumeration |-> [source |-> source, complete |-> TRUE, completeness |-> parseCompleteness(source),
                       names |-> enumeration(source)],
      block |-> block, cap |-> IF block = "PROVEN_PRESENT" THEN {40} ELSE {},
      calls |-> MandatoryCalls, getters |-> [f \in Limits |-> GetterOf(source, f)],
      specs |-> [f \in Limits |-> [state |-> LimitOf(source, f), getter |-> GetterOf(source, f)]],
      callers |-> [s \in ToSet(MCCallers) |-> "AVAILABLE"],
      asked |-> [s \in ToSet(MCCallers) |-> s], queried |-> [s \in ToSet(MCCallers) |-> s],
      context |-> [s \in ToSet(MCCallers) |-> parent], absence |-> [s \in ToSet(MCCallers) |-> {}],
      facets |-> [artifact |-> "official", origins |-> {"AUTHORITATIVE_BINDING_RECORD"}],
      state |-> [hash |-> [executor |-> documents.executorBuild.runtime, authority |-> build.runtime],
                 version |-> [executor |-> "reproduced", authority |-> "v"],
                 word |-> Word, decoded |-> Word, getters |-> Word]]

Reviewed == RecordOf(MCPinned)

-----------------------------------------------------------------------------
(* One claim, document or review of a record changed.                      *)

NoPolicy == [kind |-> "NONE", address |-> None, conditions |-> {}, reviewed |-> TRUE]
Upgrade == [kind |-> "UPGRADE", address |-> None, conditions |-> {"NORMALIZED_RUNTIME_IDENTITY_UNCHANGED"}, reviewed |-> TRUE]

\* All the evidence agrees on a block cap that is not the pinned one.
LowerCap == [Word EXCEPT !["blockOrBatchCap"] = 39]
Lowered(r) == [r EXCEPT !.state.word = LowerCap, !.state.decoded = LowerCap, !.state.getters = LowerCap]

EditedForms(r) ==
  {[r EXCEPT !.malformed = {x}] :
     x \in {"record", "integrity", "snapshot", "stateEvidence", "sourceMaterial", "lineage", "authorityResolution",
            "provenance", "artifact", "executor", "authority", "operationSchedule", "limits", "enforcementProof",
            "authorityEnumeration", "blockOrBatch", "onChainInterface", "facets"}}
  \cup {[r EXCEPT !.stale = {x}] :
     x \in {"record", "proxyRuntime", "implementationRuntime", "normalizationManifest", "executorPolicy", "authorityPolicy",
            "compilerReferenceManifest", "pricingManifest", "enforcementProof", "authorityEnumeration"}}
  \cup {[r EXCEPT !.snapshot.hex = 8], [r EXCEPT !.reviewed = FALSE], [r EXCEPT !.reverification = "PENDING"],
        [r EXCEPT !.entries["calculator"].reverified = FALSE], [r EXCEPT !.status = "UNRESOLVED"],
        [r EXCEPT !.facets.artifact = "fixture"], [r EXCEPT !.facets.origins = {"LOCAL_INSTALLED_FIXTURE"}],
        [r EXCEPT !.state.version["authority"] = "w"], [r EXCEPT !.state.decoded["transactionTotal"] = 19],
        [r EXCEPT !.state.getters["transactionTotal"] = 19],
        [r EXCEPT !.state.word["transactionTotal"] = 19, !.state.decoded["transactionTotal"] = 19,
                  !.state.getters["transactionTotal"] = 19],
        Lowered(r), [Lowered(r) EXCEPT !.cap = {39}],
        [Lowered(r) EXCEPT !.cap = {39}, !.proof.entries["blockOrBatchCap"] = {[p EXCEPT !.value = 39] : p \in @}]}

OtherSource == Append(SourceLines, Declared("error", "Other"))
Amendment(s, content) == [subject |-> s, supersedes |-> "pinned", at |-> "amended", content |-> content, reviewed |-> TRUE]

EditedDocuments(r) ==
  {[r EXCEPT !.entries["executorSource"].at = "elsewhere"], [r EXCEPT !.entries["executorBuild"].at = "elsewhere"],
   [r EXCEPT !.entries["configuration"].content = ExecutorLines], [r EXCEPT !.entries["calculator"].content = ExecutorLines],
   [r EXCEPT !.entries["authoritySource"].content = OtherSource],
   [r EXCEPT !.entries["executorSource"].content = OtherSource], [r EXCEPT !.material["executorSource"] = {OtherSource}],
   [r EXCEPT !.material["authoritySource"] = {OtherSource}], [r EXCEPT !.material["authoritySource"] = {}],
   [r EXCEPT !.material["priceSchedule"] = {Tail(PriceLines)}], [r EXCEPT !.material["authorityBuild"] = {}],
   [r EXCEPT !.material["executorBuild"] = {Build(ExecutorLines, "HCULimit")}],
   [r EXCEPT !.entries["executorBuild"].content = Build(ExecutorLines, "HCULimit"), !.material["executorBuild"] = {Build(ExecutorLines, "HCULimit")}],
   [r EXCEPT !.entries["executorBuild"].content = Build(OtherSource, "FHEVMExecutor"), !.material["executorBuild"] = {Build(OtherSource, "FHEVMExecutor")}],
   [r EXCEPT !.amendments = Append(@, Amendment("authoritySource", OtherSource))],
   [r EXCEPT !.amendments = Append(@, Amendment("authorityBuild", OtherSource))],
   [r EXCEPT !.amendments = Append(@, Amendment("elsewhere", OtherSource))],
   [r EXCEPT !.amendments = Append(@, [Amendment("priceSchedule", PriceLines) EXCEPT !.at = "pinned"])],
   [r EXCEPT !.amendments = Append(@, [Amendment("configuration", ExecutorLines) EXCEPT !.reviewed = FALSE])],
   [r EXCEPT !.amendments = Append(@, [Amendment("configuration", ExecutorLines) EXCEPT !.supersedes = "other"])],
   [r EXCEPT !.amendments = Append(@, Amendment("configuration", ExecutorLines)), !.refs.configuration = "amended",
             !.entries["configuration"] = [at |-> "amended", content |-> ExecutorLines, reverified |-> TRUE]],
   [r EXCEPT !.refs.artifact = "elsewhere"], [r EXCEPT !.refs.schedule = "elsewhere"]}
  \cup {LET build == [Build(SourceLines, "HCULimit") EXCEPT !.facts[f] = x]
        IN [r EXCEPT !.entries["authorityBuild"].content = build, !.material["authorityBuild"] = {build}] :
          f \in {"compiler", "trailer", "opcode"}, x \in {"other", "absent"}}

EditedContracts(r) ==
  {[r EXCEPT !.artifact.id = "LOCAL_INSTALLED_FIXTURE"], [r EXCEPT !.artifact.hash = "other"],
   [r EXCEPT !.artifact.hash = "other", !.hash["authority"] = "other", !.state.hash["authority"] = "other"],
   [r EXCEPT !.artifact.compiler = "other"], [r EXCEPT !.artifact.references = "other"],
   [r EXCEPT !.hash["executor"] = "other", !.state.hash["executor"] = "other"], [r EXCEPT !.version["executor"] = "other"],
   [r EXCEPT !.executor = Direct], [r EXCEPT !.executor = Direct, !.policies["executor"] = NoPolicy],
   [r EXCEPT !.authority = Direct], [r EXCEPT !.authority = Direct, !.policies["authority"] = NoPolicy],
   [r EXCEPT !.policies["executor"] = Upgrade], [r EXCEPT !.policies["executor"] = NoPolicy],
   [r EXCEPT !.policies["authority"] = Upgrade], [r EXCEPT !.policies["authority"].conditions = Upgrade.conditions],
   [r EXCEPT !.policies["authority"].address = None], [r EXCEPT !.policies["authority"].address = "malformed"],
   [r EXCEPT !.policies["authority"] = [Upgrade EXCEPT !.conditions = {}]],
   [r EXCEPT !.policies["authority"].reviewed = FALSE]}

EditedClaims(r) ==
  {[r EXCEPT !.prices = (@ \ {p}) \cup {q}] : <<p, q>> \in
     UNION {{<<p, [p EXCEPT !.cost = 7]>>, <<p, [p EXCEPT !.cost = 99]>>, <<p, [p EXCEPT !.name = "mul"]>>, <<p, [p EXCEPT !.shape = "other"]>>,
             <<p, [p EXCEPT !.mode = "types"]>>, <<p, [p EXCEPT !.operation = "FheRand"]>>} : p \in r.prices}}
  \cup {[r EXCEPT !.prices = @ \ {p}] : p \in r.prices}
  \cup {[r EXCEPT !.prices = {}], [r EXCEPT !.prices = {[p EXCEPT !.name = IF @ = "add" THEN "rand" ELSE "add"] : p \in @}],
        [r EXCEPT !.semantics = "EXCLUSIVE", !.operator = ">=", !.inclusive = FALSE],
        [r EXCEPT !.semantics = "UNRESOLVED"], [r EXCEPT !.operator = ">="], [r EXCEPT !.ceilings["transactionTotal"] = 19],
        [r EXCEPT !.block = "PROVEN_ABSENT", !.cap = {}], [r EXCEPT !.block = "UNRESOLVED", !.cap = {}], [r EXCEPT !.cap = {41}],
        [r EXCEPT !.cap = {41}, !.proof.entries["blockOrBatchCap"] = {[p EXCEPT !.value = 41] : p \in @}],
        [r EXCEPT !.proof.entries["blockOrBatchCap"] = {}], [r EXCEPT !.proof.entries["transactionTotal"] = {}],
        [r EXCEPT !.proof.entries["transactionTotal"] = {[p EXCEPT !.operator = ">="] : p \in @}],
        [r EXCEPT !.proof.entries["transactionTotal"] = {[p EXCEPT !.functions = {}] : p \in @}],
        [r EXCEPT !.proof.entries["transactionTotal"] = {[p EXCEPT !.name = "maxHCUDepthPerTx"] : p \in @}],
        [r EXCEPT !.proof.entries["transactionTotal"] = {[p EXCEPT !.name = "MAX_TX", !.kind = "CONSTANT"] : p \in @}],
        [r EXCEPT !.proof.source = OtherSource], [r EXCEPT !.enumeration.source = OtherSource],
        [r EXCEPT !.enumeration.complete = FALSE], [r EXCEPT !.enumeration.completeness = "PARTIAL"],
        [r EXCEPT !.enumeration.names["storageStructFields"] = {"maxHCUPerTx", "maxHCUDepthPerTx"},
                  !.enumeration.names["callableFunctions"] = @ \ BlockScoped]}

EditedCalls(r) ==
  {[r EXCEPT !.calls = @ \ {"AUTHORITY_GETTER"}], [r EXCEPT !.getters["transactionTotal"] = None],
   [r EXCEPT !.getters["transactionTotal"] = "getMaxHCUDepthPerTx", !.specs["transactionTotal"].getter = "getMaxHCUDepthPerTx"],
   [r EXCEPT !.getters["transactionTotal"] = "getOther", !.specs["transactionTotal"].getter = "getOther"],
   [r EXCEPT !.specs["transactionTotal"].getter = "getOther"],
   [r EXCEPT !.limits["transactionTotal"] = Absent], [r EXCEPT !.limits["transactionDepth"] = NotApplicable],
   [r EXCEPT !.limits["blockOrBatchCap"] = NotApplicable, !.getters["blockOrBatchCap"] = None,
             !.specs["blockOrBatchCap"] = [state |-> NotApplicable, getter |-> None]],
   [r EXCEPT !.limits["transactionTotal"] = Absent, !.specs["transactionTotal"] = [state |-> Absent, getter |-> None],
             !.evidence["transactionTotal"] = {[name |-> "maxHCUPerTx", value |-> 20, operator |-> ">"]}],
   [r EXCEPT !.evidence["transactionTotal"] = {[name |-> "maxHCUPerTx", value |-> 20, operator |-> ">"]}],
   [r EXCEPT !.asked["vault"] = None], [r EXCEPT !.asked["vault"] = "deployer"],
   [r EXCEPT !.asked["vault"] = "deployer", !.queried["vault"] = "deployer"],
   [r EXCEPT !.context["vault"] = "elsewhere"], [r EXCEPT !.absence["vault"] = {"elsewhere"}],
   [r EXCEPT !.callers["vault"] = "ABSENT_WITH_PROOF"],
   [r EXCEPT !.callers["vault"] = "ABSENT_WITH_PROOF", !.queried["vault"] = None, !.asked["vault"] = None,
             !.absence["vault"] = {r.context["vault"]}]}

Edited(r) == EditedForms(r) \cup EditedDocuments(r) \cup EditedContracts(r) \cup EditedClaims(r) \cup EditedCalls(r)

-----------------------------------------------------------------------------
(* Other documents, with the record a reviewer would make of them.         *)

Without(lines, i) == SubSeq(lines, 1, i - 1) \o SubSeq(lines, i + 1, Len(lines))
With(lines, i, line) == SubSeq(lines, 1, i) \o <<line>> \o SubSeq(lines, i + 1, Len(lines))
EditedPrices ==
  {Without(PriceLines, i) : i \in DOMAIN PriceLines}
  \cup {With(PriceLines, i, line) : i \in DOMAIN PriceLines,
          line \in {L("entry", "Uint8", 1), L("open", "fheMul", 0), L("open", "nonScalar", 0), L("open", "Uint64", 0),
                    L("close", None, 0), L("other", None, 0), [L("inline", "Uint64", 1) EXCEPT !.b = None]}}
  \cup {[PriceLines EXCEPT ![i].n = n] : i \in DOMAIN PriceLines, n \in {"fheAdd", "Uint8", "Uint9", "types"}}
  \cup {[PriceLines EXCEPT ![i].c = 99] : i \in DOMAIN PriceLines}

OperatorAt(i, op) == [SourceLines EXCEPT ![i].body = <<[name |-> SourceLines[i].body[1].name, op |-> op]>>]
EditedSources ==
  {Without(SourceLines, i) : i \in DOMAIN SourceLines} \cup {ConstantLines}
  \cup {OperatorAt(i, op) : i \in {8, 9, 10}, op \in {">=", None}}
  \cup {[SourceLines EXCEPT ![i].reverts = FALSE] : i \in {8, 9, 10}}
  \cup {[SourceLines EXCEPT ![11].returns = "maxHCUDepthPerTx"], [SourceLines EXCEPT ![6].odd = TRUE],
        [SourceLines EXCEPT ![6].costs = FALSE], Append(SourceLines, Declared("modifier", "m")),
        Append(ConstantLines, Declared("error", "globalHCUCapPerBlock"))}

OfPrices(lines) == RecordOf([MCPinned EXCEPT !.priceSchedule = lines])
OfSource(lines) == RecordOf([MCPinned EXCEPT !.authoritySource = lines, !.authorityBuild = Build(lines, "HCULimit")])
Provable(lines) == UNION {UNION {p.functions : p \in ProofOf(lines, f)} : f \in Limits} # {}

-----------------------------------------------------------------------------

\* The commit with the record, and everything that may be wrong around it.
CleanB == [branch |-> "main", dirty |-> {}, head |-> "B", binding |-> "tracked"]
CleanA == [branch |-> "main", dirty |-> {}, head |-> "A", binding |-> "untracked"]
EmptyA == [CleanA EXCEPT !.binding = "absent"]
MCRepos ==
  [branch : {"main", "side"}, dirty : SUBSET {"tracked", "index", "untracked"},
   head : {"B", "C", "M", "D"}, binding : {"tracked"}]
  \cup [branch : {"main", "side"}, dirty : SUBSET {"tracked", "index", "untracked"},
        head : {"A"}, binding : {"absent", "untracked"}]

MCChains ==
  {[answered |-> answered, number |-> 9, hash |-> [executor |-> "FHEVMExecutor", authority |-> h],
    version |-> [executor |-> "reproduced", authority |-> v], word |-> w, getters |-> g] :
     answered \in BOOLEAN, h \in {"HCULimit", "other"}, v \in {"v", "w"}, w \in {Word, LowerCap}, g \in {Word, LowerCap}}

Case(g, r, t, start) == [repo |-> g, record |-> r, tools |-> t, start |-> start]

MCRecords ==
  {Reviewed} \cup Edited(Reviewed) \cup {OfPrices(lines) : lines \in EditedPrices}
  \cup {OfSource(lines) : lines \in {l \in EditedSources : Provable(l)}}

MCCases ==
  {Case(g, Reviewed, {}, "prepare") : g \in MCRepos}
  \cup {Case(g, Reviewed, {}, "generate") : g \in MCRepos}
  \cup {Case(EmptyA, r, {}, "generate") : r \in Edited(Reviewed)}
  \cup {Case(CleanB, r, {}, "prepare") : r \in MCRecords}
  \cup {Case(CleanA, Reviewed, t, "prepare") : t \in SUBSET {"drifted", "stale"}}
=============================================================================
