--------------------------- MODULE SourceMaterial ---------------------------
(***************************************************************************)
(* What sg4-hcu-authority.ts derives from the documents that a binding     *)
(* record carries: the price schedule of the upstream project, the source  *)
(* of the contract that enforces the limits, and the build of a contract.  *)
(*                                                                         *)
(* A document is a sequence of lines or of declarations, already told      *)
(* apart by the regular expressions of the code; a digest of a document is *)
(* the document.                                                           *)
(***************************************************************************)
EXTENDS Integers, FiniteSets, Sequences, SequencesExt

CONSTANTS
  Canonical,       \* operation of the price schedule -> the name the contract has for it
  PriceTypes,      \* PRICE_TYPE_NAMES
  Buckets,         \* PRICE_BUCKET_NAMES
  MaxSafe,         \* Number.MAX_SAFE_INTEGER
  BlockScoped      \* the names BLOCK_OR_BATCH_SURFACE_PATTERN matches

None == ""

-----------------------------------------------------------------------------
(* extractPriceSchedule.  A line is [k, n, c, b]: "open" (n: {), "entry"   *)
(* (n: c), "inline" (n: { b: c }), "field" (supportScalar, numberInputs),  *)
(* "close", "root" (const ... = {) or "other".                             *)

Groups == {"scalar", "nonScalar", "types", "nBucketed"}
OperatorFields == {"supportScalar", "numberInputs"}

Start == [operation |-> None, group |-> None, nested |-> None, seen |-> {}, keys |-> {},
          buckets |-> {}, operations |-> <<>>, variants |-> {}, failures |-> {}]

\* The state with the failures that hold.
Failing(s, reasons) == [s EXCEPT !.failures = @ \cup reasons]

When(condition, reason) == IF condition THEN {reason} ELSE {}

Variant(s, mode, type, cost) ==
  [operation |-> IF s.operation \in DOMAIN Canonical THEN Canonical[s.operation] ELSE "UNRESOLVED",
   mode |-> mode, type |-> type, cost |-> cost]

\* Outside an operation only the opening of one is looked at.
ReadOutside(s, l) ==
  IF l.k # "open" THEN s
  ELSE Failing([s EXCEPT !.operation = l.n, !.seen = {}, !.keys = {}, !.buckets = {},
                         !.operations = Append(@, l.n)],
               When(l.n \notin DOMAIN Canonical, "UNKNOWN_SOURCE_OPERATION")
                 \cup When(l.n \in ToSet(s.operations), "DUPLICATE_OPERATION"))

\* finishOperation
Finished(s) ==
  Failing([s EXCEPT !.operation = None, !.group = None, !.nested = None],
          When(~(OperatorFields \subseteq s.seen), "MISSING_OPERATOR_FIELD"))

ReadOperation(s, l) ==
  CASE l.k = "field" \/ (l.k = "open" /\ l.n \in Groups) ->
         Failing([s EXCEPT !.seen = @ \cup {l.n}, !.group = IF l.k = "open" THEN l.n ELSE None],
                 When(l.n \in s.seen, "DUPLICATE_OPERATOR_FIELD")
                   \cup When(l.k = "field" /\ l.c > MaxSafe, "UNSAFE_NUMBER_INPUTS"))
    [] l.k = "close" -> Finished(s)
    [] OTHER -> Failing(s, {"UNRECOGNIZED_OPERATION_MEMBER"})

\* The costs by type of a group.
ReadGroup(s, l) ==
  CASE l.k = "close" -> [s EXCEPT !.group = None]
    [] l.k = "entry" /\ l.n \notin PriceTypes -> Failing(s, {"UNKNOWN_PRICE_TYPE"})
    [] l.k = "entry" /\ l.n \in PriceTypes /\ l.c > MaxSafe -> Failing(s, {"UNSAFE_COST"})
    [] l.k = "entry" /\ l.n \in PriceTypes /\ ~(l.c > MaxSafe) ->
         Failing([s EXCEPT !.keys = @ \cup {<<s.group, l.n>>},
                           !.variants = @ \cup {Variant(s, s.group, l.n, l.c)}],
                 When(<<s.group, l.n>> \in s.keys, "DUPLICATE_PRICE_TYPE"))
    [] OTHER -> Failing(s, {"UNRECOGNIZED_COST_LINE"})

\* One bucket of a type, on a line of its own or inline.
ReadBucket(s, type, bucket, cost) ==
  Failing([s EXCEPT !.buckets = @ \cup {<<type, bucket>>}],
          When(bucket \notin Buckets, "UNKNOWN_BUCKET_NAME") \cup When(cost > MaxSafe, "UNSAFE_COST")
            \cup When(<<type, bucket>> \in s.buckets, "DUPLICATE_BUCKET"))

ReadBuckets(s, l) ==
  LET typed == Failing([s EXCEPT !.keys = @ \cup {<<s.group, l.n>>}],
                       When(<<s.group, l.n>> \in s.keys, "DUPLICATE_PRICE_TYPE"))
  IN CASE l.k \in {"open", "inline"} /\ l.n \notin PriceTypes -> Failing(s, {"UNKNOWN_PRICE_TYPE"})
       [] l.k = "open" /\ l.n \in PriceTypes -> [typed EXCEPT !.nested = l.n]
       [] l.k = "inline" /\ l.n \in PriceTypes ->
            IF l.b = None THEN Failing(typed, {"EMPTY_BUCKET_MAP"}) ELSE ReadBucket(typed, l.n, l.b, l.c)
       [] l.k = "close" -> [s EXCEPT !.group = None]
       [] OTHER -> Failing(s, {"UNRECOGNIZED_NBUCKETED_LINE"})

ReadNested(s, l) ==
  CASE l.k = "entry" -> ReadBucket(s, s.nested, l.n, l.c)
    [] l.k = "close" -> [s EXCEPT !.nested = None]
    [] OTHER -> Failing(s, {"UNRECOGNIZED_BUCKET_MEMBER"})

ReadLine(s, l) ==
  CASE s.operation = None -> ReadOutside(s, l)
    [] s.operation # None /\ s.group = None -> ReadOperation(s, l)
    [] s.group # None /\ s.group # "nBucketed" -> ReadGroup(s, l)
    [] s.group = "nBucketed" /\ s.nested = None -> ReadBuckets(s, l)
    [] OTHER -> ReadNested(s, l)

\* derivePriceOperationIdentities: the operations are exactly the ones the contract prices.
derivePriceOperationIdentities(operations) ==
  When(~IsInjective(operations), "DUPLICATE_SOURCE_OPERATION")
    \cup When(~(ToSet(operations) \subseteq DOMAIN Canonical), "UNKNOWN_SOURCE_OPERATION")
    \cup When(Len(operations) # Cardinality(DOMAIN Canonical), "OPERATION_CARDINALITY")
    \cup When({Canonical[o] : o \in ToSet(operations) \cap DOMAIN Canonical} # Range(Canonical),
              "CANONICAL_OPERATION_CLOSURE_MISMATCH")

\* What has been read after each line.
ReadUpTo(document) ==
  LET after[i \in 0..Len(document)] ==
        IF i = 0 THEN Start ELSE ReadLine(after[i - 1], document[i])
  IN after

extractPriceSchedule(document) ==
  LET read == ReadUpTo(document)[Len(document)]
      end == IF read.operation = None THEN read
             ELSE Finished(Failing(read, {"UNTERMINATED_SCHEDULE_BLOCK"}))
  IN [operations |-> end.operations, variants |-> end.variants,
      failures |-> end.failures \cup When(end.variants = {}, "EMPTY_SCHEDULE")
                     \cup derivePriceOperationIdentities(end.operations)]

-----------------------------------------------------------------------------
(* parseAuthoritySource.  A declaration is a record with its kind k and    *)
(* its name n; a constant has its value v, a field of the storage struct   *)
(* its type t, a function what its body does: the running total it keeps,  *)
(* its lines that name a ceiling or compare something, whether it reverts, *)
(* what it returns, whether it sets a cost and has a line the parser does  *)
(* not know.                                                               *)

StorageCeilings == {"maxHCUPerTx", "maxHCUDepthPerTx", "globalHCUCapPerBlock"}

DeclarationKinds == {"constant", "function", "error", "mapping", "field", "modifier", "unclassified",
                     "unterminated", "other"}

\* Per document: the names of the declarations of a kind.
Named(document, kinds) == {document[i].n : i \in {j \in DOMAIN document : document[j].k \in kinds}}

Functions(document) == {i \in DOMAIN document : document[i].k = "function"}

\* What the function at i can compare with: constants count once they are declared.
DeclaredBefore(document, i) == Named(SubSeq(document, 1, i - 1), {"constant"})

Mentions(f, names) == \E j \in DOMAIN f.body : f.body[j].name \in names

\* A function enforces a ceiling by what its body does.
Enforces(document, i) ==
  LET f == document[i]
      constants == DeclaredBefore(document, i)
  IN /\ \/ f.running \in {"total", "next"} /\ Mentions(f, StorageCeilings)
        \/ f.running \in {"total", "depth"} /\ Mentions(f, constants)
     /\ f.reverts
     /\ \E j \in DOMAIN f.body : f.body[j].op # None

enforcementFunctions(document) == {i \in Functions(document) : Enforces(document, i)}

\* The comparison on the first line that names a ceiling.
OperatorOf(document, i) ==
  LET body == document[i].body
      named == {j \in DOMAIN body : body[j].name \in StorageCeilings \cup DeclaredBefore(document, i)}
  IN body[CHOOSE j \in named : \A k \in named : j <= k].op

enforcementOperators(document) ==
  {OperatorOf(document, i) : i \in enforcementFunctions(document)} \ {None}

derivedLimitSemantics(document) ==
  CASE enforcementOperators(document) = {">"} -> "INCLUSIVE"
    [] enforcementOperators(document) = {">="} -> "EXCLUSIVE"
    [] OTHER -> "UNRESOLVED"

\* The functions named checkHCUFor<operation>.
pricingOperationNames(document) == {document[i].prices : i \in Functions(document)} \ {None}

pricingRelevantResidue(document) ==
  LET priced == {i \in Functions(document) : document[i].prices # None}
  IN When(\E i \in priced : document[i].prices \notin Range(Canonical), "UNACCOUNTED_HCU_OPERATION_FUNCTION")
       \cup When(\E i \in priced : ~document[i].costs, "MISSING_HCU_COST_ASSIGNMENT")
       \cup When(\E i \in priced : document[i].odd, "UNRECOGNIZED_HCU_OPERATION_SYNTAX")
       \cup When(priced # {} /\ ~(Range(Canonical) \subseteq pricingOperationNames(document)),
                 "MISSING_HCU_OPERATION_FUNCTION")

residue(document) ==
  When(Named(document, {"modifier", "unclassified", "unterminated"}) # {}, "UNSUPPORTED_OR_UNCLASSIFIED")

parseCompleteness(document) ==
  IF residue(document) \cup pricingRelevantResidue(document) = {} THEN "COMPLETE" ELSE "PARTIAL"

Enumerated == [declarations |-> {"constant"}, callableFunctions |-> {"function"}, errors |-> {"error"},
               mappings |-> {"mapping"}, storageStructFields |-> {"field"}]

\* deriveBlockOrBatchConclusion
deriveBlockOrBatchConclusion(names) ==
  IF \E field \in DOMAIN Enumerated : names[field] \cap BlockScoped # {} THEN "PRESENT" ELSE "ABSENT"

enumeration(document) == [field \in DOMAIN Enumerated |-> Named(document, Enumerated[field])]

\* Absence is a conclusion about a complete enumeration only.
blockOrBatchConclusion(document) ==
  IF parseCompleteness(document) = "COMPLETE" THEN deriveBlockOrBatchConclusion(enumeration(document))
  ELSE "UNRESOLVED"

\* Where a storage field is enforced, and the one function that returns it.
FieldReads(document, field) ==
  {i \in enforcementFunctions(document) : Mentions(document[i], {field})}

FieldGetters(document, field) == {i \in Functions(document) : document[i].returns = field}

storageFieldEvidence(document, field) ==
  IF /\ field \in Named(document, {"field"})
     /\ FieldReads(document, field) # {}
     /\ Cardinality(FieldGetters(document, field)) = 1
  THEN {[reads |-> FieldReads(document, field),
         getter |-> document[CHOOSE i \in FieldGetters(document, field) : TRUE].n]}
  ELSE {}

-----------------------------------------------------------------------------
(* extractArtifactBuild.  A build is what it compiled (source), the        *)
(* runtime it produced and, for every other fact the extraction reads, if  *)
(* the fact is the pinned one, another one, or absent.                     *)

BuildFacts == {"format", "identity", "compiler", "settings", "contract", "links", "length", "immutables",
               "declaration", "opcode", "placeholder", "offsets", "trailer"}

\* Without these nothing more can be read.
Indispensable == {"format", "contract", "immutables", "trailer"}

extractArtifactBuild(build, implementationAddress, authenticatedSource) ==
  LET unreadable == {f \in Indispensable : build.facts[f] = "absent"}
      differs == {f \in BuildFacts : build.facts[f] # "pinned"}
  IN [failures |-> differs \cup When(unreadable = {} /\ build.source # authenticatedSource, "DIFFERENT_SOURCE")
                     \cup When(implementationAddress = "malformed", "IMPLEMENTATION_ADDRESS_MALFORMED"),
      compiler |-> IF unreadable = {} THEN build.facts["compiler"] ELSE "UNRESOLVED",
      references |-> IF unreadable = {} THEN build.runtime ELSE "UNRESOLVED",
      hash |-> IF unreadable # {} \/ implementationAddress \in {None, "malformed"} THEN "UNRESOLVED"
               ELSE build.runtime]

-----------------------------------------------------------------------------
(* A reference for the schedule: what an object literal means.             *)

\* How many blocks are open before line i.
Depth(document, i) ==
  LET before == 1..(i - 1)
  IN Cardinality({j \in before : document[j].k \in {"root", "open"}})
       - Cardinality({j \in before : document[j].k = "close"})

\* Every block is closed again; the schedule's object is opened at the top, the others inside it.
Balanced(document) ==
  /\ \A i \in DOMAIN document : Depth(document, i) >= 0
  /\ Depth(document, Len(document) + 1) = 0
  /\ \A i \in DOMAIN document : document[i].k = "open" => Depth(document, i) > 0
  /\ \A i \in DOMAIN document : document[i].k = "root" => Depth(document, i) = 0

\* The block that line i is in at depth d.
Enclosing(document, i, d) ==
  LET opens == {j \in 1..(i - 1) : document[j].k = "open" /\ Depth(document, j) = d}
  IN document[CHOOSE j \in opens : \A k \in opens : k <= j].n

\* The prices by operation, group and type that the document states.
StatedPrices(document) ==
  {[operation |-> Canonical[Enclosing(document, i, 1)], mode |-> Enclosing(document, i, 2),
    type |-> document[i].n, cost |-> document[i].c] :
     i \in {j \in DOMAIN document : document[j].k = "entry" /\ Depth(document, j) = 3}}
=============================================================================
