---------------------------- MODULE BindingRecord ----------------------------
(***************************************************************************)
(* validateAuthorityBindingRecord of sg4-hcu-authority.ts.  A binding      *)
(* record names the documents it rests on, carries them, and states what   *)
(* they say: prices, limits, the identity of two contracts.  The           *)
(* validation authenticates the documents, derives everything again and    *)
(* compares.                                                               *)
(*                                                                         *)
(* Of a section's form the record only keeps if the section has exactly    *)
(* its fields, well formed and with the committed constants (malformed),   *)
(* and of a digest if it recomputes (stale).                               *)
(***************************************************************************)
EXTENDS SourceMaterial

CONSTANTS
  Pinned,        \* IMMUTABLE_PROVENANCE: subject -> the reviewed document
  Callers,       \* SG4_APPLICABILITY_SUBJECTS
  Ceilings,      \* the transaction total and depth the protocol pins
  Closure,       \* SG4_PRICING_VARIANT_CLOSURE
  Installed      \* the costs of the installed calculator

Proxy == "ERC1967_PROXY"
Direct == "DIRECT"
OnChain == "AVAILABLE_AND_READ_ON_CHAIN"
Absent == "ABSENT_BUT_PROVEN_FROM_THE_ARTIFACT"
NotApplicable == "NOT_APPLICABLE_WITH_ARTIFACT_PROOF"

Roles == {"executor", "authority"}
BuildOf == [executor |-> "executorBuild", authority |-> "authorityBuild"]
SourceOf == [executor |-> "executorSource", authority |-> "authoritySource"]
BuildSubjects == {"executorBuild", "authorityBuild"}
MaterialSubjects == BuildSubjects \cup {"executorSource", "authoritySource", "priceSchedule"}

MandatoryLimits == {"transactionTotal", "transactionDepth"}
Limits == MandatoryLimits \cup {"blockOrBatchCap"}
MandatoryCalls == {"EXECUTOR_VERSION", "AUTHORITY_GETTER", "EXECUTOR_GETTER", "AUTHORITY_VERSION"}

Malformed(r, section) == When(section \in r.malformed, section)
Stale(r, digest) == When(digest \in r.stale, digest)
ClaimsResolved(r) == r.status = "RESOLVED"

-----------------------------------------------------------------------------
(* Where the documents come from.                                          *)

RecordErrors(r) == Malformed(r, "record") \cup Malformed(r, "integrity") \cup Stale(r, "record")

SnapshotErrors(r) ==
  Malformed(r, "snapshot") \cup When(r.snapshot.hex # r.snapshot.decimal, "block number representations disagree")

StateEvidenceErrors(r) == Malformed(r, "stateEvidence") \cup Stale(r, "proxyRuntime") \cup Stale(r, "implementationRuntime")

LineageErrors(r) == Malformed(r, "sourceMaterial") \cup Malformed(r, "lineage")

ResolutionErrors(r) ==
  Malformed(r, "authorityResolution")
    \cup When(ClaimsResolved(r) /\ ~r.reviewed, "claims RESOLVED without independent review")

Amended(r, s) == {i \in DOMAIN r.amendments : r.amendments[i].subject = s}

\* A reviewed amendment names what it supersedes, changes it, and is the only one for its subject.
AmendmentErrors(r) ==
  UNION {LET a == r.amendments[i]
         IN When(a.subject \in BuildSubjects, "may not amend a REPRODUCED_BUILD")
              \cup When(a.subject \notin DOMAIN Pinned, "names an unknown subject")
              \cup When(Cardinality(Amended(r, a.subject)) > 1, "more than one amendment")
              \cup When(a.supersedes # "pinned", "does not name the exact superseded tuple")
              \cup When(/\ a.subject \in DOMAIN Pinned \ (BuildSubjects \cup {"configuration"})
                        /\ a.at = "pinned" /\ a.content = Pinned[a.subject], "changes nothing")
              \cup When(~a.reviewed, "requires an explicit reviewer") : i \in DOMAIN r.amendments}

\* An entry is the pinned one, or what a reviewed amendment says.  What a build contains is compared
\* with the pinned build at the gate only, and the configuration's content is not pinned.
EntryErrors(r) ==
  Malformed(r, "provenance") \cup
  UNION {LET e == r.entries[s]
             amendments == Amended(r, s)
         IN IF s \in BuildSubjects \/ amendments = {}
            THEN When(e.at # "pinned", "does not match the prior-reviewed tuple")
                   \cup When(s \notin BuildSubjects \cup {"configuration"} /\ e.content # Pinned[s],
                             "contentSha256 does not match the prior-reviewed tuple")
            ELSE UNION {When(<<e.at, e.content>> # <<r.amendments[i].at, r.amendments[i].content>>,
                             "does not match its amendment") : i \in amendments} : s \in DOMAIN Pinned}

ReverificationErrors(r) ==
  When(ClaimsResolved(r) /\ r.reverification # "REVERIFIED", "claims RESOLVED while still PENDING")
    \cup When(ClaimsResolved(r) /\ \E s \in DOMAIN Pinned : ~r.entries[s].reverified, "entry is not reverified")

\* selectedProvenanceTuple
selectedProvenanceTuple(r, s) == r.entries[s]

\* authenticateSourceMaterial: the bytes are there, and are those of the selected tuple.
authenticateSourceMaterial(r, s) ==
  IF "sourceMaterial" \in r.malformed \/ r.material[s] = {} THEN {"SOURCE_MATERIAL_ABSENT"}
  ELSE When(r.material[s] # {selectedProvenanceTuple(r, s).content}, "SOURCE_MATERIAL_NOT_THE_SELECTED_SOURCE")

Authentic(r, s) == authenticateSourceMaterial(r, s) = {}
Document(r, s) == CHOOSE document \in r.material[s] : TRUE

\* The address a build is normalised for: the reviewed one, and none where only the chain knows it.
ReviewedImplementation(r, role) ==
  IF role = "executor" /\ r.executor = Direct THEN "executor" ELSE r.policies[role].address

DerivedBuild(r, role) ==
  extractArtifactBuild(Document(r, BuildOf[role]), ReviewedImplementation(r, role),
                       selectedProvenanceTuple(r, SourceOf[role]).content)

deriveAuthorityFromSourceMaterial(r) ==
  (UNION {authenticateSourceMaterial(r, s) : s \in MaterialSubjects})
    \cup (IF Authentic(r, "priceSchedule") THEN extractPriceSchedule(Document(r, "priceSchedule")).failures ELSE {})
    \cup (IF Authentic(r, "authoritySource")
          THEN residue(Document(r, "authoritySource")) \cup pricingRelevantResidue(Document(r, "authoritySource"))
          ELSE {})
    \cup (IF Authentic(r, "authorityBuild") THEN DerivedBuild(r, "authority").failures ELSE {})

deriveExecutorFromSourceMaterial(r) ==
  authenticateSourceMaterial(r, "executorSource") \cup authenticateSourceMaterial(r, "executorBuild")
    \cup (IF Authentic(r, "executorBuild") THEN DerivedBuild(r, "executor").failures ELSE {})

-----------------------------------------------------------------------------
(* The contracts.                                                          *)

ArtifactErrors(r) ==
  Malformed(r, "artifact") \cup Stale(r, "normalizationManifest")
    \cup When(r.artifact.id = "LOCAL_INSTALLED_FIXTURE", "may not be the local installed fixture")

\* An exact policy pins an address; a reviewed upgrade pins none, and demands unchanged code.
PolicyErrors(policy, kinds) ==
  When(policy.kind \notin kinds, "must be a declared policy kind")
    \cup When(~policy.reviewed, "requires an independent reviewer")
    \cup When(policy.kind = "EXACT" /\ (policy.conditions # {} \/ policy.address = None), "exact-address policy")
    \cup When(policy.kind = "UPGRADE" /\ (policy.address # None \/ "NORMALIZED_RUNTIME_IDENTITY_UNCHANGED" \notin policy.conditions),
              "code-identical upgrade policy")

ExecutorDeploymentErrors(r) ==
  Malformed(r, "executor") \cup Stale(r, "executorPolicy")
    \cup When(r.version.executor # "reproduced", "expectedVersion does not match the pinned reproduced executor source")
    \cup IF r.executor = Proxy THEN PolicyErrors(r.policies.executor, {"EXACT"})
         ELSE When(r.policies.executor.kind # "NONE", "a direct executor must record implementationAddressPolicy null")

AuthorityDeploymentErrors(r) ==
  Malformed(r, "authority") \cup Stale(r, "authorityPolicy")
    \cup (IF r.authority = Proxy THEN PolicyErrors(r.policies.authority, {"EXACT", "UPGRADE"})
          ELSE When(r.policies.authority.kind # "NONE", "a direct authority must record implementationAddressPolicy null"))
    \cup When(r.hash.authority # r.artifact.hash, "that is cross-version mixing")

\* The build the record describes is the one that was derived.  Without an address there is no
\* hash to compare.
ArtifactClaimErrors(r) ==
  IF ~Authentic(r, "authorityBuild") THEN {}
  ELSE LET build == DerivedBuild(r, "authority")
       IN When(build.hash # "UNRESOLVED" /\ r.artifact.hash # build.hash, "was not recomputed from the authenticated build")
            \cup When(r.artifact.compiler # build.compiler, "compilerVersion disagrees")
            \cup When(r.artifact.references # build.references, "reference manifest disagrees")

ExecutorClaimErrors(r) ==
  deriveExecutorFromSourceMaterial(r)
    \cup IF ~Authentic(r, "executorBuild") THEN {}
         ELSE When(r.hash.executor # DerivedBuild(r, "executor").hash, "executor implementation hash disagrees")
                \cup When(Document(r, "executorBuild").source # selectedProvenanceTuple(r, "executorSource").content,
                          "executor build did not compile the selected executor source")

\* Every reference is the selected tuple, never a name for it.
CrossLinkErrors(r) ==
  Stale(r, "compilerReferenceManifest")
    \cup When(r.refs.artifact # selectedProvenanceTuple(r, "authoritySource").at, "ARTIFACT_SOURCE")
    \cup When(r.refs.configuration # selectedProvenanceTuple(r, "configuration").at, "EXECUTOR_CONFIGURATION_SOURCE")
    \cup When(r.refs.schedule # selectedProvenanceTuple(r, "priceSchedule").at, "PRICE_SCHEDULE_SOURCE")
    \cup When(\E s \in {"calculator", "costTable"} : selectedProvenanceTuple(r, s).content # Pinned[s],
              "CALCULATOR_CONTENT")

-----------------------------------------------------------------------------
(* Prices.  A claimed price is [name, operation, mode, type, shape, cost]: *)
(* the calculator's and the contract's name of the operation, and what it  *)
(* takes and returns.                                                      *)

validatePricingManifest(prices) ==
  When(prices = {}, "entries must be a non-empty array")
    \cup When(\E p, q \in prices : p.name = q.name /\ p.operation # q.operation, "two different enforcement names")
    \cup When(\E p, q \in prices : p # q /\ p.name = q.name /\ p.mode = q.mode /\ p.type = q.type,
              "duplicates the variant")
    \cup When(\E p, q \in prices : p.operation = q.operation /\ p.name # q.name, "translation is not injective")
    \cup When(\E p \in prices : p.cost > MaxSafe, "cost must be a safe non-negative integer")

ScheduleErrors(r) ==
  Malformed(r, "operationSchedule") \cup Stale(r, "pricingManifest") \cup validatePricingManifest(r.prices)

\* validatePriceOperationFunctionCrossLinks: the contract prices each operation of the schedule.
validatePriceOperationFunctionCrossLinks(schedule, source) ==
  IF pricingOperationNames(source) = {} THEN {}
  ELSE derivePriceOperationIdentities(schedule.operations)
         \cup When(~({Canonical[o] : o \in ToSet(schedule.operations) \cap DOMAIN Canonical}
                       \subseteq pricingOperationNames(source)), "MISSING_HCU_OPERATION_FUNCTION")

Claimed(r) == {[operation |-> p.operation, mode |-> p.mode, type |-> p.type, cost |-> p.cost] : p \in r.prices}
Unpriced(prices) == {[operation |-> p.operation, mode |-> p.mode, type |-> p.type] : p \in prices}

\* Mutant: the costs are taken from the record.
PriceClaimsByName(r) ==
  IF ~Authentic(r, "priceSchedule") THEN {}
  ELSE When(Unpriced(Claimed(r)) # Unpriced(extractPriceSchedule(Document(r, "priceSchedule")).variants),
            "pricing manifest is incomplete")

\* The claim is the whole schedule, no more and no less, at its prices.
PriceClaimErrors(r) ==
  IF ~Authentic(r, "priceSchedule") THEN {}
  ELSE LET schedule == extractPriceSchedule(Document(r, "priceSchedule"))
       IN When(~(Unpriced(schedule.variants) \subseteq Unpriced(Claimed(r))), "pricing manifest is incomplete")
            \cup When(~(Unpriced(Claimed(r)) \subseteq Unpriced(schedule.variants)), "declares variants not priced")
            \cup When(Unpriced(Claimed(r)) = Unpriced(schedule.variants) /\ Claimed(r) # schedule.variants,
                      "cost disagrees with the extracted schedule")
            \cup IF Authentic(r, "authoritySource")
                 THEN validatePriceOperationFunctionCrossLinks(schedule, Document(r, "authoritySource")) ELSE {}

\* compareCalculatorAgainstPricingManifest and pricingComparisonBlockers: a variant that is used has
\* one price, in the record and in the calculator.  What is not used never blocks.
pricingComparisonBlockers(r) ==
  UNION {LET entries == {p \in r.prices : p.name = v.name /\ p.mode = v.mode /\ p.type = v.type}
             costs == {c \in Installed : c.name = v.name /\ c.mode = v.mode /\ c.type = v.type}
         IN When(entries = {}, "MISSING_AUTHORITATIVE_PRICE")
              \cup When(\E p \in entries : p.operation # v.operation, "TRANSLATION_MISMATCH")
              \cup When(\E p \in entries : p.shape # v.shape, "OPERAND_TYPE_MISMATCH")
              \cup When(entries # {} /\ costs = {}, "MISSING_CALCULATOR_PRICE")
              \cup When(\E p \in entries, c \in costs : p.cost # c.cost, "COST_MISMATCH") : v \in Closure}

-----------------------------------------------------------------------------
(* Limits.  A proof entry is [kind, name, value, operator, functions,      *)
(* getter]: the constant or the storage field that is the ceiling, and     *)
(* where it is enforced.                                                   *)

LimitErrors(r) ==
  Malformed(r, "limits")
    \cup When(ClaimsResolved(r) /\ r.semantics = "UNRESOLVED", "claims RESOLVED with UNRESOLVED limit semantics")
    \cup When(r.semantics = "INCLUSIVE" /\ (r.operator # ">" \/ ~r.inclusive), "contradicts the declared semantics")
    \cup When(r.semantics = "EXCLUSIVE" /\ (r.operator # ">=" \/ r.inclusive), "contradicts the declared semantics")
    \cup When(r.ceilings # Ceilings, "must equal the protocol-pinned limits")

\* The transaction's limits are read, or proven: never not applicable.
AvailabilityErrors(r) ==
  When(\E f \in MandatoryLimits : r.limits[f] \notin {OnChain, Absent}, "is mandatory")
    \cup When(r.limits["blockOrBatchCap"] \notin {OnChain, Absent, NotApplicable}, "must be a declared availability state")

\* Evidence stands for a getter that is absent, and is an entry of the proof.
EvidenceErrors(r) ==
  UNION {IF r.limits[f] # Absent THEN When(r.evidence[f] # {}, "only permitted for artifact-only proof")
         ELSE When(r.evidence[f] = {}, "required when the getter is absent")
                \cup UNION {When(e.value # Ceilings[f], "must equal the declared limit")
                              \cup When(e.operator # r.operator, "operator disagrees with the declared semantics")
                              \cup When(~\E p \in r.proof.entries[f] :
                                           /\ p.kind = "CONSTANT" /\ p.name = e.name
                                           /\ p.value = e.value /\ p.operator = e.operator,
                                        "disagrees with the enforcement proof manifest") : e \in r.evidence[f]}
         : f \in MandatoryLimits}

ProofErrors(r) ==
  Malformed(r, "enforcementProof") \cup Stale(r, "enforcementProof")
    \cup When(r.proof.source # selectedProvenanceTuple(r, "authoritySource").content, "ENFORCEMENT_PROOF_SOURCE")
    \cup When(\E f \in Limits : \E p \in r.proof.entries[f] : p.functions = {} \/ p.operator \notin {">", ">="},
              "requires enforcement reads")

EnumerationErrors(r) ==
  Malformed(r, "authorityEnumeration") \cup Stale(r, "authorityEnumeration")
    \cup When(~r.enumeration.complete, "must record a COMPLETE enumeration")
    \cup When(r.enumeration.complete /\ r.enumeration.completeness # "COMPLETE", "left no unaccounted residue")
    \cup When(r.enumeration.source # selectedProvenanceTuple(r, "authoritySource").content, "ENUMERATION_SOURCE")

\* Absence rests on the enumeration, presence on a proof; the value is stated for a present cap only.
BlockOrBatchErrors(r) ==
  LET conclusion == deriveBlockOrBatchConclusion(r.enumeration.names)
      proofs == r.proof.entries["blockOrBatchCap"]
  IN Malformed(r, "blockOrBatch")
       \cup When((r.block = "PROVEN_PRESENT") # (r.cap # {}), "value")
       \cup When(r.block = "PROVEN_ABSENT" /\ (~r.enumeration.complete \/ conclusion # "ABSENT"), "claims PROVEN_ABSENT")
       \cup When(r.block = "PROVEN_PRESENT" /\ (proofs = {} \/ conclusion = "ABSENT"), "claims PROVEN_PRESENT")
       \cup When(/\ r.block = "PROVEN_PRESENT"
                 /\ \E p \in proofs : {p.value} # r.cap \/ p.operator # r.operator, "disagrees with its proof")
       \cup When(ClaimsResolved(r) /\ r.block = "UNRESOLVED", "claims RESOLVED with an UNRESOLVED control")

\* The enumeration and the semantics are what the parser found, and so is the block's state.
SourceClaimErrors(r) ==
  IF ~Authentic(r, "authoritySource") THEN {}
  ELSE LET source == Document(r, "authoritySource")
           conclusion == blockOrBatchConclusion(source)
       IN When(r.enumeration.names # enumeration(source), "enumeration disagrees with the parsed source")
            \cup When(r.enumeration.completeness # parseCompleteness(source), "parseCompleteness disagrees")
            \cup When(derivedLimitSemantics(source) = "UNRESOLVED", "the parsed enforcement paths disagree")
            \cup When(r.semantics # derivedLimitSemantics(source), "limits.semantics disagrees")
            \cup When(Cardinality(enforcementOperators(source)) = 1 /\ enforcementOperators(source) # {r.operator},
                      "limits.enforcementOperator disagrees")
            \cup When(conclusion = "UNRESOLVED", "the authority source parse is partial")
            \cup When(\/ conclusion = "ABSENT" /\ r.block # "PROVEN_ABSENT"
                      \/ conclusion = "PRESENT" /\ r.block # "PROVEN_PRESENT", "disagrees with the parser conclusion")

\* The value a control's storage must hold.
ProvenValue(r, f) == IF f = "blockOrBatchCap" THEN r.cap ELSE {r.ceilings[f]}

ConstantProofErrors(r, source, p) ==
  When(~(p.functions \subseteq {source[i].n : i \in enforcementFunctions(source)}), "the parsed source does not enforce with")
    \cup When(~\E i \in DOMAIN source : source[i].k = "constant" /\ source[i].n = p.name /\ source[i].v = p.value,
              "value disagrees with the parsed source")

\* A field is proven by where it is declared, read and returned, and its getter is the one the
\* interface calls.
StorageProofErrors(r, source, f, p) ==
  LET found == storageFieldEvidence(source, p.name)
  IN When(found = {}, "absent from the authenticated storage-field evidence")
       \cup (UNION {When(p.getter # e.getter, "getter disagrees with the parsed source")
                       \cup When(p.functions # {source[i].n : i \in e.reads}, "enforcement reads disagree")
                       \cup When(\E i \in e.reads : OperatorOf(source, i) \notin {None, p.operator},
                                 "comparison operator disagrees") : e \in found})
       \cup When(r.specs[f].getter # p.getter, "getter specification disagrees")
       \cup When({p.value} # ProvenValue(r, f), "value disagrees with the binding proof value")

ProofClaimErrors(r) ==
  IF ~Authentic(r, "authoritySource") THEN {}
  ELSE LET source == Document(r, "authoritySource")
       IN UNION {UNION {IF p.kind = "CONSTANT" THEN ConstantProofErrors(r, source, p)
                        ELSE StorageProofErrors(r, source, f, p) : p \in r.proof.entries[f]} : f \in Limits}

-----------------------------------------------------------------------------
(* The calls the verification will make.                                   *)

InterfaceErrors(r) ==
  Malformed(r, "onChainInterface")
    \cup When(~(MandatoryCalls \subseteq r.calls), "missing the mandatory call")
    \cup When(\E f \in Limits : r.limits[f] = OnChain /\ r.getters[f] = None, "missing for the on-chain getter")
    \cup When(\E f, g \in Limits : f # g /\ r.getters[f] = r.getters[g] /\ r.getters[f] # None, "twice for one role")
    \cup When(\E s \in ToSet(Callers) : r.callers[s] = "AVAILABLE" /\ (r.asked[s] = None \/ r.asked[s] # r.queried[s]),
              "callerApplicability disagrees")

GetterSpecErrors(r) ==
  UNION {LET spec == r.specs[f]
         IN When(spec.state # r.limits[f], "state disagrees with limits.getterAvailability")
              \cup When(spec.state = OnChain /\ (spec.getter = None \/ spec.getter # r.getters[f]),
                        "disagrees with its interface manifest entry")
              \cup When(spec.state # OnChain /\ spec.getter # None, "must record null when not available") : f \in Limits}

\* applicabilityProofParentErrors: a proof belongs to a function of the enforcement proof.
applicabilityProofParentErrors(r, parent) ==
  When(parent \notin UNION {UNION {p.functions : p \in r.proof.entries[f]} : f \in Limits},
       "names an enforcement function the proof manifest does not contain")

CallerErrors(r) ==
  UNION {applicabilityProofParentErrors(r, r.context[s])
           \cup (UNION {applicabilityProofParentErrors(r, parent) : parent \in r.absence[s]})
           \cup IF r.callers[s] = "AVAILABLE"
                THEN When(r.queried[s] # s, "queries an address other than its subject")
                       \cup When(r.absence[s] # {}, "may not carry an absence proof when AVAILABLE")
                ELSE When(r.absence[s] = {}, "requires an artifact-bound absence proof")
                       \cup When(r.queried[s] # None, "must record null when not AVAILABLE") : s \in ToSet(Callers)}

FacetErrors(r) ==
  Malformed(r, "facets")
    \cup When(r.facets.artifact # r.artifact.id, "names a different artifact")
    \cup When(ClaimsResolved(r) /\ r.facets.origins \cap {"LOCAL_INSTALLED_FIXTURE", "UNRESOLVED"} # {},
              "claims RESOLVED while a facet still originates from a fixture")

\* The state that was captured is the state that is claimed.
EvidenceAgreementErrors(r) ==
  When(\E role \in Roles : r.state.hash[role] # r.hash[role], "evidence normalized runtime mismatch")
    \cup When(\E role \in Roles : r.state.version[role] # r.version[role], "evidence version mismatch")
    \cup When(r.state.decoded # r.state.word, "do not match the strict packed-word decoding")
    \cup When(\E f \in Limits : r.state.getters[f] # r.state.word[f], "HCU getter/storage mismatch")

validateAuthorityBindingRecord(r) ==
  RecordErrors(r) \cup SnapshotErrors(r) \cup StateEvidenceErrors(r) \cup LineageErrors(r) \cup ResolutionErrors(r)
    \cup AmendmentErrors(r) \cup EntryErrors(r) \cup ReverificationErrors(r)
    \cup ArtifactErrors(r) \cup ExecutorDeploymentErrors(r) \cup AuthorityDeploymentErrors(r) \cup ScheduleErrors(r)
    \cup deriveAuthorityFromSourceMaterial(r) \cup PriceClaimErrors(r) \cup SourceClaimErrors(r)
    \cup ProofClaimErrors(r) \cup ArtifactClaimErrors(r) \cup CrossLinkErrors(r) \cup ExecutorClaimErrors(r)
    \cup LimitErrors(r) \cup AvailabilityErrors(r) \cup EvidenceErrors(r) \cup ProofErrors(r)
    \cup EnumerationErrors(r) \cup BlockOrBatchErrors(r)
    \cup InterfaceErrors(r) \cup GetterSpecErrors(r) \cup CallerErrors(r) \cup FacetErrors(r)
    \cup EvidenceAgreementErrors(r)

\* The roles whose build is, byte for byte, the reproduced one.
PinnedBuilds(r) == {role \in Roles : r.entries[BuildOf[role]].content = Pinned[BuildOf[role]]}

-----------------------------------------------------------------------------
(* What an accepted record means.                                          *)

\* The documents are lists of lines and of declarations, which the extractors tell apart by kind.
Readable(r) ==
  LET schedule == r.entries["priceSchedule"].content
      source == r.entries["authoritySource"].content
  IN /\ Len(schedule) \in Nat /\ DOMAIN schedule = 1..Len(schedule)
     /\ \A i \in DOMAIN source : source[i].k \in DeclarationKinds

\* A record that claims RESOLVED and is accepted says what its documents say, read without the
\* extractors: its prices are those of the schedule's object literal, a cap it denies is named by no
\* declaration, its operator is the one of every check that reverts, a proven getter returns the very
\* field that is enforced, and the documents are the reviewed ones or a reviewed amendment's.
DerivedFromDocuments(r) ==
  LET schedule == r.entries["priceSchedule"].content
      source == r.entries["authoritySource"].content
  IN /\ \A s \in MaterialSubjects : r.material[s] = {r.entries[s].content}
     /\ \A s \in DOMAIN Pinned \ (BuildSubjects \cup {"configuration"}) :
          \/ r.entries[s].content = Pinned[s]
          \/ \E i \in DOMAIN r.amendments : /\ r.amendments[i].subject = s /\ r.amendments[i].reviewed
                                            /\ r.amendments[i].content = r.entries[s].content
     /\ Balanced(schedule) => Claimed(r) = StatedPrices(schedule)
     /\ r.block = "PROVEN_ABSENT" =>
          \A i \in DOMAIN source : source[i].k # "other" => source[i].n \notin BlockScoped
     /\ \A i \in enforcementFunctions(source) : OperatorOf(source, i) \in {r.operator, None}
     /\ \A f \in Limits : \A p \in r.proof.entries[f] :
          p.kind = "STORAGE_FIELD" => /\ r.specs[f].getter = p.getter
                                      /\ \E i \in Functions(source) : source[i].n = p.getter /\ source[i].returns = p.name
     /\ \A role \in Roles : Document(r, BuildOf[role]).source = r.entries[SourceOf[role]].content
=============================================================================
