--------------------------- MODULE AuthorityProofs ---------------------------
(***************************************************************************)
(* Proofs about the HCU authority gate, for any list of callers, record    *)
(* and limits: the verifier asks what it planned, a PASS is earned, a      *)
(* record the validation accepts says what its documents say, and a run    *)
(* that meets no contradiction is not failed.                              *)
(***************************************************************************)
EXTENDS HcuAuthority, FiniteSetTheorems, NaturalsInduction, TLAPS

\* A property that some number has is had by a least one.
LEMMA LeastNumber ==
  ASSUME NEW T \in SUBSET Nat, T # {}
  PROVE  \E x \in T : \A y \in T : x <= y
<1> DEFINE R == {ss \in Nat \X Nat : ss[1] < ss[2]}
<1>1. IsWellFoundedOn(R, Nat)
  BY NatLessThanWellFounded DEF OpToRel
<1>2. PICK x \in T : \A y \in T : ~(<<y, x>> \in R)
  <2> HIDE DEF R
  <2> QED BY <1>1, WFMin, Zenon
<1>3. ASSUME NEW y \in T PROVE x <= y
  <2>1. <<y, x>> \notin R /\ y \in Nat /\ x \in Nat
    BY <1>2
  <2> QED BY <2>1
<1> QED BY <1>3

-----------------------------------------------------------------------------
(* The HCU authority gate. *)

\* The places at which the verifier has something to ask, in their order.
BeforeExecutor == {"chain", "block", "executor", "executorSlot", "executorCode"}
BeforeAuthority ==
  BeforeExecutor \cup {"executorVersion", "authority", "authorityCode", "authoritySlot", "authorityImplementation"}
Identifying == BeforeAuthority \cup {"storage", "reciprocal", "authorityVersion"}
Asking == Identifying \cup {"limits", "callers"}

RoleNames == {"NONE", "EXECUTOR", "EXECUTOR_IMPLEMENTATION", "AUTHORITY", "AUTHORITY_IMPLEMENTATION"}

\* The reads that a proxy adds to the plan.
Extra(model) == IF model = Proxy THEN 2 ELSE 0

\* The getters and subjects among the first n that are asked.
GettersUpTo(n) == Filtered(LimitFields, ReadLimits(record))[n]
SubjectsUpTo(n) == Filtered(Callers, AskedCallers(record))[n]

\* How much of the plan was issued when the verifier comes to a place.
Issued ==
  LET e == Extra(record.executor)
      b == Extra(record.executor) + Extra(record.authority)
  IN CASE pc = "chain" -> 0
       [] pc = "block" -> 1
       [] pc = "executor" -> 2
       [] pc = "executorSlot" -> 3
       [] pc = "executorCode" -> 4
       [] pc = "executorVersion" -> 3 + e
       [] pc = "authority" -> 4 + e
       [] pc = "authorityCode" -> 5 + e
       [] pc = "authoritySlot" -> 6 + e
       [] pc = "authorityImplementation" -> 7 + e
       [] pc = "storage" -> 6 + b
       [] pc = "reciprocal" -> 7 + b
       [] pc = "authorityVersion" -> 8 + b
       [] pc = "limits" -> 9 + b + Len(GettersUpTo(Len(readings)))
       [] pc = "callers" -> 9 + b + Len(GettersUpTo(Len(LimitFields))) + Len(SubjectsUpTo(Len(callers)))

\* What the verifier starts with, and that a verified lineage is a reviewed commit with a valid record.
StartInv ==
  /\ pc \in {"generate", "prepare", "conclude", "done"} \cup Asking
  /\ mode \in {"CANDIDATE", "POST_COMMIT"}
  /\ DOMAIN repository = {"branch", "dirty", "head", "binding"}
  /\ repository.head \in DOMAIN Parents /\ repository.dirty \subseteq {"tracked", "index", "untracked"}
  /\ {"executor", "authority", "entries"} \subseteq DOMAIN record /\ Readable(record)
  /\ record.executor \in {Proxy, Direct} /\ record.authority \in {Proxy, Direct}
  /\ pc \in {"generate", "prepare"} =>
       /\ lineage = "UNRESOLVED" /\ pinned = FALSE /\ cursor = 0 /\ log = <<>>
       /\ failures = {} /\ blockers = {} /\ readings = <<>> /\ callers = <<>> /\ results = NoResults
       /\ roles.EXECUTOR_IMPLEMENTATION = "unresolved" /\ roles.AUTHORITY = "unresolved"
       /\ roles.AUTHORITY_IMPLEMENTATION = "unresolved"
  /\ pc \in Asking => lineage = "VERIFIED"

\* The commit the record is verified in.
ReviewedCommit ==
  /\ repository.branch = "main" /\ repository.dirty = {} /\ ~Drifted(repository.head)
  /\ IF mode = "CANDIDATE" THEN repository.head = "A" /\ repository.binding = "untracked" ELSE repository.head = "B"

LineageInv == lineage = "VERIFIED" => ReviewedCommit /\ validateAuthorityBindingRecord(record) = {}

\* What may be asked, of whom, and answered.
Questions == {"CHAIN_ID", "PINNED_BLOCK", "CODE", "SLOT"} \cup ExecutorQuestions \cup AuthorityQuestions
Addresses == {"none", "unresolved", "executor", "executorImplementation", "authority", "elsewhere",
              "authorityImplementation", "elsewhereImplementation"}
AnswerKinds == {"bound", "equivalent", "exempt", "self", "other", "bad"}
Request == [what : Questions, to : Addresses, answer : AnswerKinds]
CallerResults == {"NOT_EXEMPT", "EXEMPT", "UNKNOWN_EXEMPTION", "MALFORMED", "NOT_APPLICABLE_WITH_PROOF"}
LimitResults == {"MISMATCH", "UNRESOLVED", MatchesOnChain, FromArtifact, NotApplicable}

\* The addresses of the roles, by how far the chain of contracts has been followed.
RolesInv ==
  /\ roles \in [RoleNames -> Addresses]
  /\ roles.NONE = "none" /\ roles.EXECUTOR = "executor"
  /\ roles.EXECUTOR_IMPLEMENTATION # "elsewhere"
  /\ roles.AUTHORITY_IMPLEMENTATION = "elsewhere" => roles.AUTHORITY = "elsewhere"
  /\ pc \in BeforeExecutor \cup {"executorVersion", "authority", "authorityCode", "authoritySlot"} =>
       roles.AUTHORITY_IMPLEMENTATION = "unresolved"
  /\ pc = "executorCode" => roles.EXECUTOR_IMPLEMENTATION = "executorImplementation"
  /\ pc \in {"authorityCode", "authoritySlot", "authorityImplementation"} => roles.AUTHORITY \in {"authority", "elsewhere"}
  /\ pc = "authorityImplementation" =>
       roles.AUTHORITY_IMPLEMENTATION \in {"authorityImplementation", "elsewhereImplementation"}

\* What was asked is a beginning of the plan.
LogInv ==
  /\ ~violated
  /\ log \in Seq(Request)
  /\ readings \in Seq(LimitResults) /\ callers \in Seq(CallerResults)
  /\ Len(log) <= Len(livePlan)
  /\ \A i \in DOMAIN log : log[i].what = livePlan[i].what

\* The verifier is where the plan is, and has read what it says it has.
PlaceInv ==
  /\ pc \in Asking => cursor = Len(log) /\ cursor = Issued
  /\ pc \in Asking \ {"chain", "block"} => pinned
  /\ pc \in {"executorSlot", "executorCode"} => record.executor = Proxy
  /\ pc \in {"authoritySlot", "authorityImplementation"} => record.authority = Proxy
  /\ pc \in Identifying => readings = <<>>
  /\ pc \in Identifying \cup {"limits"} => callers = <<>>
  /\ pc = "limits" => Len(readings) < Len(LimitFields)
  /\ pc = "callers" => Len(readings) = Len(LimitFields) /\ Len(callers) < Len(Callers)

NoneAsked(questions) == \A i \in DOMAIN log : log[i].what \notin questions

\* The code of a role has been read and is that of the reviewed build.
IdentifiedAs(role) ==
  \E j \in DOMAIN log : /\ log[j].what = "CODE" /\ log[j].answer \in {"bound", "equivalent"}
                        /\ log[j].to = roles[role]

IdentityPlace ==
  /\ pc \in BeforeExecutor => NoneAsked(ExecutorQuestions)
  /\ pc \in BeforeAuthority => NoneAsked(AuthorityQuestions)
  /\ pc \in Asking \ BeforeExecutor =>
       /\ IdentifiedAs("EXECUTOR_IMPLEMENTATION")
       /\ record.executor = Direct => roles.EXECUTOR_IMPLEMENTATION = "executor"
  /\ pc \in Asking \ BeforeAuthority =>
       /\ IdentifiedAs("AUTHORITY_IMPLEMENTATION")
       /\ record.authority = Direct => roles.AUTHORITY_IMPLEMENTATION = roles.AUTHORITY

IdentityInv == UnverifiedNeverAsked /\ IdentityPlace

\* Whatever was not as the record says has been noted.
NotedInv ==
  /\ failures = {} /\ blockers = {} /\ "EXEMPT" \notin ToSet(callers) =>
       \A i \in DOMAIN log : log[i].answer = "bound"
  /\ failures = {} /\ Len(readings) >= Len(LimitFields) =>
       \A f \in MandatoryLimits : record.ceilings[f] = record.state.word[f]
  /\ DOMAIN results = DOMAIN NoResults
  /\ results.coverage = "COMPLETE" => pricingComparisonBlockers(record) = {}

\* Once the storage word was accepted, a word that is not the pinned one has been noted.
WordNoted ==
  failures = {} /\ (pc = "reciprocal" \/ results.reciprocal # "UNRESOLVED") => WordPinned

VerdictInv ==
  /\ verdict # "NONE" => pc = "done"
  /\ PassMeansVerified

HcuInv == StartInv /\ LineageInv /\ RolesInv /\ LogInv /\ PlaceInv /\ IdentityInv /\ NotedInv /\ VerdictInv

-----------------------------------------------------------------------------
(* The price schedule. *)

\* g are the states of the extraction after the first k lines.
ReadTo(document, g, k) ==
  /\ g = [i \in 0 .. k |-> g[i]] /\ g[0] = Start
  /\ \A i \in 1 .. k : g[i] = ReadLine(g[i - 1], document[i])

LEMMA ReadToExists ==
  ASSUME NEW document, NEW n \in Nat
  PROVE  \E g : ReadTo(document, g, n)
<1> DEFINE Bad == {k \in Nat : ~ \E g : ReadTo(document, g, k)}
<1> SUFFICES Bad = {} OBVIOUS
<1> SUFFICES ASSUME Bad # {} PROVE FALSE OBVIOUS
<1>1. PICK k \in Bad : \A y \in Bad : k <= y BY LeastNumber
<1>2. CASE k = 0
  <2>1. PICK h : h = [i \in 0 .. 0 |-> Start] OBVIOUS
  <2>2. ReadTo(document, h, 0) BY <2>1 DEF ReadTo
  <2> QED BY <1>1, <1>2, <2>2
<1>3. CASE k # 0
  <2>1. k \in Nat /\ k - 1 \in Nat /\ k - 1 \notin Bad BY <1>1, <1>3
  <2>2. PICK g : ReadTo(document, g, k - 1) BY <2>1
  <2>3. PICK h : h = [i \in 0 .. k |-> IF i = k THEN ReadLine(g[k - 1], document[k]) ELSE g[i]] OBVIOUS
  <2>4. h[0] = Start BY <1>3, <2>1, <2>2, <2>3 DEF ReadTo
  <2>5. ASSUME NEW i \in 1 .. k PROVE h[i] = ReadLine(h[i - 1], document[i])
    <3>1. h[i - 1] = g[i - 1] BY <2>1, <2>3
    <3>2. CASE i = k BY <3>1, <3>2, <2>3
    <3>3. CASE i # k
      <4>1. i \in 1 .. k - 1 BY <3>3, <2>1
      <4>2. h[i] = g[i] BY <3>3, <2>3
      <4> QED BY <4>1, <4>2, <3>1, <2>2 DEF ReadTo
    <3> QED BY <3>2, <3>3
  <2>6. h = [i \in 0 .. k |-> h[i]] BY <2>3
  <2>7. ReadTo(document, h, k) BY <2>4, <2>5, <2>6 DEF ReadTo
  <2> QED BY <2>7, <1>1
<1> QED BY <1>2, <1>3

\* The recursive function is what its equation says.
LEMMA ReadUpToIs ==
  ASSUME NEW document, Len(document) \in Nat
  PROVE  ReadTo(document, ReadUpTo(document), Len(document))
<1> DEFINE body(g) == [i \in 0 .. Len(document) |->
                         IF i = 0 THEN Start ELSE ReadLine(g[i - 1], document[i])]
           after == CHOOSE f : f = body(f)
<1>1. PICK n \in Nat : n = Len(document) OBVIOUS
<1>2. PICK g : ReadTo(document, g, n) BY ReadToExists
<1>3. g = body(g)
  <2>1. ASSUME NEW i \in 0 .. n PROVE g[i] = IF i = 0 THEN Start ELSE ReadLine(g[i - 1], document[i])
    <3>1. CASE i = 0 BY <1>2, <3>1 DEF ReadTo
    <3>2. CASE i # 0
      <4>1. i \in 1 .. n BY <3>2
      <4>2. g[i] = ReadLine(g[i - 1], document[i]) BY <1>2, <4>1 DEF ReadTo
      <4> QED BY <3>2, <4>2
    <3> QED BY <3>1, <3>2
  <2>2. g = [i \in 0 .. n |-> g[i]] BY <1>2 DEF ReadTo
  <2> QED BY <2>1, <2>2, <1>1
<1>4. after = body(after)
  <2>1. \E f : f = body(f) BY <1>3
  <2> QED BY <2>1
<1>5. ReadUpTo(document) = after BY DEF ReadUpTo
<1> HIDE DEF after
<1>6. after = [i \in 0 .. n |-> after[i]] BY <1>1, <1>4
<1>7. after[0] = Start BY <1>1, <1>4
<1>8. \A i \in 1 .. n : after[i] = ReadLine(after[i - 1], document[i]) BY <1>1, <1>4
<1> QED BY <1>1, <1>5, <1>6, <1>7, <1>8 DEF ReadTo

\* What the state of the extraction is made of.
Shaped(s) ==
  s = [operation |-> s.operation, group |-> s.group, nested |-> s.nested, seen |-> s.seen, keys |-> s.keys,
       buckets |-> s.buckets, operations |-> s.operations, variants |-> s.variants, failures |-> s.failures]

\* Where the extraction is, and what it has found.
Found(s) == <<s.operation, s.group, s.nested, s.variants>>

LEMMA FailingIs ==
  ASSUME NEW s, NEW reasons, Shaped(s)
  PROVE  /\ Shaped(Failing(s, reasons)) /\ Found(Failing(s, reasons)) = Found(s)
         /\ Failing(s, reasons).failures = s.failures \cup reasons
<1>1. PICK t : t = [s EXCEPT !.failures = s.failures \cup reasons] OBVIOUS
<1>2. Failing(s, reasons) = t BY <1>1 DEF Failing
<1>3. /\ t.operation = s.operation /\ t.group = s.group /\ t.nested = s.nested /\ t.seen = s.seen /\ t.keys = s.keys
      /\ t.buckets = s.buckets /\ t.operations = s.operations /\ t.variants = s.variants
      /\ t.failures = s.failures \cup reasons
  BY <1>1 DEF Shaped
<1>4. Shaped(t) BY <1>1, <1>3 DEF Shaped
<1> QED BY <1>2, <1>3, <1>4 DEF Found

\* What one line does to an extraction that goes on without a failure.
Moved(s, l, t) ==
  LET o == s.operation
      g == s.group
      n == s.nested
      v == s.variants
  IN \/ o = None /\ l.k # "open" /\ Found(t) = Found(s)
     \/ o = None /\ l.k = "open" /\ l.n \in DOMAIN Canonical /\ Found(t) = <<l.n, g, n, v>>
     \/ o # None /\ g = None /\ l.k = "field" /\ Found(t) = Found(s)
     \/ o # None /\ g = None /\ l.k = "open" /\ l.n \in Groups /\ Found(t) = <<o, l.n, n, v>>
     \/ o # None /\ g = None /\ l.k = "close" /\ Found(t) = <<None, None, None, v>>
     \/ o # None /\ g \notin {None, "nBucketed"} /\ l.k = "close" /\ Found(t) = <<o, None, n, v>>
     \/ /\ o # None /\ g \notin {None, "nBucketed"} /\ l.k = "entry"
        /\ Found(t) = <<o, g, n, v \cup {Variant(s, g, l.n, l.c)}>>
     \/ o # None /\ g = "nBucketed" /\ n = None /\ l.k = "open" /\ l.n \in PriceTypes /\ Found(t) = <<o, g, l.n, v>>
     \/ o # None /\ g = "nBucketed" /\ n = None /\ l.k = "inline" /\ Found(t) = Found(s)
     \/ o # None /\ g = "nBucketed" /\ n = None /\ l.k = "close" /\ Found(t) = <<o, None, n, v>>
     \/ o # None /\ g = "nBucketed" /\ n # None /\ l.k = "entry" /\ Found(t) = Found(s)
     \/ o # None /\ g = "nBucketed" /\ n # None /\ l.k = "close" /\ Found(t) = <<o, g, None, v>>

LEMMA NoneIsNot ==
  /\ None \notin Groups /\ "nBucketed" # None
BY DEF None, Groups

LEMMA WhenIs ==
  ASSUME NEW condition, NEW reason, When(condition, reason) = {}
  PROVE  ~condition
BY DEF When

\* A line outside the operations.
LEMMA OutsideMoves ==
  ASSUME NEW s, NEW l, Shaped(s)
  PROVE  /\ Shaped(ReadOutside(s, l)) /\ s.failures \subseteq ReadOutside(s, l).failures
         /\ ReadOutside(s, l).failures = {} =>
              \/ l.k # "open" /\ Found(ReadOutside(s, l)) = Found(s)
              \/ /\ l.k = "open" /\ l.n \in DOMAIN Canonical
                 /\ Found(ReadOutside(s, l)) = <<l.n, s.group, s.nested, s.variants>>
<1>1. CASE l.k # "open" BY <1>1 DEF ReadOutside
<1>2. CASE l.k = "open"
  <2>1. PICK opened : opened = [s EXCEPT !.operation = l.n, !.seen = {}, !.keys = {}, !.buckets = {},
                                          !.operations = Append(s.operations, l.n)]
    OBVIOUS
  <2>2. PICK reasons : reasons = When(l.n \notin DOMAIN Canonical, "UNKNOWN_SOURCE_OPERATION")
                                   \cup When(l.n \in ToSet(s.operations), "DUPLICATE_OPERATION")
    OBVIOUS
  <2>3. ReadOutside(s, l) = Failing(opened, reasons) BY <1>2, <2>1, <2>2 DEF ReadOutside
  <2>4. /\ opened.operation = l.n /\ opened.group = s.group /\ opened.nested = s.nested
        /\ opened.variants = s.variants /\ opened.failures = s.failures
    BY <2>1 DEF Shaped
  <2>5. Shaped(opened) BY <2>1 DEF Shaped
  <2>6. /\ Shaped(Failing(opened, reasons)) /\ Found(Failing(opened, reasons)) = Found(opened)
        /\ Failing(opened, reasons).failures = s.failures \cup reasons
    BY <2>4, <2>5, FailingIs
  <2>7. ReadOutside(s, l).failures = {} => l.n \in DOMAIN Canonical
    <3> SUFFICES ASSUME reasons = {} PROVE l.n \in DOMAIN Canonical BY <2>3, <2>6
    <3>1. When(l.n \notin DOMAIN Canonical, "UNKNOWN_SOURCE_OPERATION") = {} BY <2>2
    <3> QED BY <3>1 DEF When
  <2> QED BY <1>2, <2>3, <2>4, <2>6, <2>7 DEF Found
<1> QED BY <1>1, <1>2

\* A line of an operation.
LEMMA OperationMoves ==
  ASSUME NEW s, NEW l, Shaped(s)
  PROVE  /\ Shaped(ReadOperation(s, l)) /\ s.failures \subseteq ReadOperation(s, l).failures
         /\ ReadOperation(s, l).failures = {} =>
              \/ l.k = "field" /\ Found(ReadOperation(s, l)) = <<s.operation, None, s.nested, s.variants>>
              \/ /\ l.k = "open" /\ l.n \in Groups
                 /\ Found(ReadOperation(s, l)) = <<s.operation, l.n, s.nested, s.variants>>
              \/ l.k = "close" /\ Found(ReadOperation(s, l)) = <<None, None, None, s.variants>>
<1>1. CASE l.k = "field" \/ (l.k = "open" /\ l.n \in Groups)
  <2>1. PICK group : group = IF l.k = "open" THEN l.n ELSE None OBVIOUS
  <2>2. PICK moved : moved = [s EXCEPT !.seen = s.seen \cup {l.n}, !.group = group] OBVIOUS
  <2>3. PICK reasons : reasons = When(l.n \in s.seen, "DUPLICATE_OPERATOR_FIELD")
                                   \cup When(l.k = "field" /\ l.c > MaxSafe, "UNSAFE_NUMBER_INPUTS")
    OBVIOUS
  <2>4. ReadOperation(s, l) = Failing(moved, reasons)
    <3>1. l.k # "close" BY <1>1
    <3> QED BY <1>1, <2>1, <2>2, <2>3, <3>1 DEF ReadOperation
  <2>5. /\ moved.operation = s.operation /\ moved.group = group /\ moved.nested = s.nested
        /\ moved.variants = s.variants /\ moved.failures = s.failures
    BY <2>2 DEF Shaped
  <2>6. Shaped(moved) BY <2>2 DEF Shaped
  <2>7. /\ Shaped(Failing(moved, reasons)) /\ Found(Failing(moved, reasons)) = Found(moved)
        /\ Failing(moved, reasons).failures = s.failures \cup reasons
    BY <2>5, <2>6, FailingIs
  <2>8. group = IF l.k = "open" THEN l.n ELSE None BY <2>1
  <2> QED BY <1>1, <2>4, <2>5, <2>7, <2>8 DEF Found
<1>2. CASE l.k = "close"
  <2>1. PICK moved : moved = [s EXCEPT !.operation = None, !.group = None, !.nested = None] OBVIOUS
  <2>2. PICK reasons : reasons = When(~(OperatorFields \subseteq s.seen), "MISSING_OPERATOR_FIELD") OBVIOUS
  <2>3. ReadOperation(s, l) = Failing(moved, reasons) BY <1>2, <2>1, <2>2 DEF ReadOperation, Finished
  <2>5. /\ moved.operation = None /\ moved.group = None /\ moved.nested = None
        /\ moved.variants = s.variants /\ moved.failures = s.failures
    BY <2>1 DEF Shaped
  <2>6. Shaped(moved) BY <2>1 DEF Shaped
  <2>7. /\ Shaped(Failing(moved, reasons)) /\ Found(Failing(moved, reasons)) = Found(moved)
        /\ Failing(moved, reasons).failures = s.failures \cup reasons
    BY <2>5, <2>6, FailingIs
  <2> QED BY <1>2, <2>3, <2>5, <2>7 DEF Found
<1>3. CASE l.k # "close" /\ ~(l.k = "field" \/ (l.k = "open" /\ l.n \in Groups))
  <2>1. ReadOperation(s, l) = Failing(s, {"UNRECOGNIZED_OPERATION_MEMBER"}) BY <1>3 DEF ReadOperation
  <2> QED BY <2>1, FailingIs
<1> QED BY <1>1, <1>2, <1>3

\* A line of a group of costs by type.
LEMMA GroupMoves ==
  ASSUME NEW s, NEW l, Shaped(s)
  PROVE  /\ Shaped(ReadGroup(s, l)) /\ s.failures \subseteq ReadGroup(s, l).failures
         /\ ReadGroup(s, l).failures = {} =>
              \/ l.k = "close" /\ Found(ReadGroup(s, l)) = <<s.operation, None, s.nested, s.variants>>
              \/ /\ l.k = "entry"
                 /\ Found(ReadGroup(s, l)) =
                      <<s.operation, s.group, s.nested, s.variants \cup {Variant(s, s.group, l.n, l.c)}>>
<1>1. CASE l.k = "close"
  <2>1. PICK moved : moved = [s EXCEPT !.group = None] OBVIOUS
  <2>2. ReadGroup(s, l) = moved BY <1>1, <2>1 DEF ReadGroup
  <2>3. /\ moved.operation = s.operation /\ moved.group = None /\ moved.nested = s.nested
        /\ moved.variants = s.variants /\ moved.failures = s.failures
    BY <2>1 DEF Shaped
  <2>4. Shaped(moved) BY <2>1 DEF Shaped
  <2> QED BY <1>1, <2>2, <2>3, <2>4 DEF Found
<1>2. CASE l.k = "entry" /\ l.n \notin PriceTypes
  <2>1. ReadGroup(s, l) = Failing(s, {"UNKNOWN_PRICE_TYPE"}) BY <1>2 DEF ReadGroup
  <2> QED BY <2>1, FailingIs
<1>3. CASE l.k = "entry" /\ l.n \in PriceTypes /\ l.c > MaxSafe
  <2>1. ReadGroup(s, l) = Failing(s, {"UNSAFE_COST"}) BY <1>3 DEF ReadGroup
  <2> QED BY <2>1, FailingIs
<1>4. CASE l.k = "entry" /\ l.n \in PriceTypes /\ ~(l.c > MaxSafe)
  <2>1. PICK moved : moved = [s EXCEPT !.keys = s.keys \cup {<<s.group, l.n>>},
                                       !.variants = s.variants \cup {Variant(s, s.group, l.n, l.c)}]
    OBVIOUS
  <2>2. PICK reasons : reasons = When(<<s.group, l.n>> \in s.keys, "DUPLICATE_PRICE_TYPE") OBVIOUS
  <2>3. ReadGroup(s, l) = Failing(moved, reasons) BY <1>4, <2>1, <2>2 DEF ReadGroup
  <2>4. PICK variants : variants = s.variants \cup {Variant(s, s.group, l.n, l.c)} OBVIOUS
  <2>5. /\ moved.operation = s.operation /\ moved.group = s.group /\ moved.nested = s.nested
        /\ moved.variants = variants /\ moved.failures = s.failures
    BY <2>1, <2>4 DEF Shaped
  <2>6. Shaped(moved) BY <2>1 DEF Shaped
  <2>7. /\ Shaped(Failing(moved, reasons)) /\ Found(Failing(moved, reasons)) = Found(moved)
        /\ Failing(moved, reasons).failures = s.failures \cup reasons
    BY <2>5, <2>6, FailingIs
  <2> QED BY <1>4, <2>3, <2>4, <2>5, <2>7 DEF Found
<1>5. CASE l.k \notin {"close", "entry"}
  <2>1. ReadGroup(s, l) = Failing(s, {"UNRECOGNIZED_COST_LINE"}) BY <1>5 DEF ReadGroup
  <2> QED BY <2>1, FailingIs
<1> QED BY <1>1, <1>2, <1>3, <1>4, <1>5

\* One bucket changes neither the place nor the prices.
LEMMA BucketMoves ==
  ASSUME NEW s, NEW type, NEW bucket, NEW cost, Shaped(s)
  PROVE  /\ Shaped(ReadBucket(s, type, bucket, cost)) /\ s.failures \subseteq ReadBucket(s, type, bucket, cost).failures
         /\ Found(ReadBucket(s, type, bucket, cost)) = Found(s)
<1>1. PICK moved : moved = [s EXCEPT !.buckets = s.buckets \cup {<<type, bucket>>}] OBVIOUS
<1>2. PICK reasons : reasons = When(bucket \notin Buckets, "UNKNOWN_BUCKET_NAME") \cup When(cost > MaxSafe, "UNSAFE_COST")
                                 \cup When(<<type, bucket>> \in s.buckets, "DUPLICATE_BUCKET")
  OBVIOUS
<1>3. ReadBucket(s, type, bucket, cost) = Failing(moved, reasons) BY <1>1, <1>2 DEF ReadBucket
<1>4. Shaped(moved) /\ Found(moved) = Found(s) /\ moved.failures = s.failures BY <1>1 DEF Shaped, Found
<1> QED BY <1>3, <1>4, FailingIs

\* A line of the group of buckets.
LEMMA BucketsMove ==
  ASSUME NEW s, NEW l, Shaped(s)
  PROVE  /\ Shaped(ReadBuckets(s, l)) /\ s.failures \subseteq ReadBuckets(s, l).failures
         /\ ReadBuckets(s, l).failures = {} =>
              \/ l.k = "close" /\ Found(ReadBuckets(s, l)) = <<s.operation, None, s.nested, s.variants>>
              \/ /\ l.k = "open" /\ l.n \in PriceTypes
                 /\ Found(ReadBuckets(s, l)) = <<s.operation, s.group, l.n, s.variants>>
              \/ l.k = "inline" /\ Found(ReadBuckets(s, l)) = Found(s)
<1>1. PICK keyed : keyed = [s EXCEPT !.keys = s.keys \cup {<<s.group, l.n>>}] OBVIOUS
<1>2. PICK reasons : reasons = When(<<s.group, l.n>> \in s.keys, "DUPLICATE_PRICE_TYPE") OBVIOUS
<1>3. PICK typed : typed = Failing(keyed, reasons) OBVIOUS
<1>4. Shaped(keyed) /\ Found(keyed) = Found(s) /\ keyed.failures = s.failures BY <1>1 DEF Shaped, Found
<1>5. Shaped(typed) /\ Found(typed) = Found(s) /\ typed.failures = s.failures \cup reasons
  BY <1>3, <1>4, FailingIs
<1>6. ReadBuckets(s, l) =
        CASE l.k \in {"open", "inline"} /\ l.n \notin PriceTypes -> Failing(s, {"UNKNOWN_PRICE_TYPE"})
          [] l.k = "open" /\ l.n \in PriceTypes -> [typed EXCEPT !.nested = l.n]
          [] l.k = "inline" /\ l.n \in PriceTypes ->
               IF l.b = None THEN Failing(typed, {"EMPTY_BUCKET_MAP"}) ELSE ReadBucket(typed, l.n, l.b, l.c)
          [] l.k = "close" -> [s EXCEPT !.group = None]
          [] OTHER -> Failing(s, {"UNRECOGNIZED_NBUCKETED_LINE"})
  BY <1>1, <1>2, <1>3 DEF ReadBuckets
<1>7. CASE l.k \in {"open", "inline"} /\ l.n \notin PriceTypes
  <2>1. ReadBuckets(s, l) = Failing(s, {"UNKNOWN_PRICE_TYPE"}) BY <1>6, <1>7
  <2> QED BY <2>1, FailingIs
<1>8. CASE l.k = "open" /\ l.n \in PriceTypes
  <2>1. PICK moved : moved = [typed EXCEPT !.nested = l.n] OBVIOUS
  <2>2. ReadBuckets(s, l) = moved BY <1>6, <1>8, <2>1
  <2>3. /\ moved.operation = typed.operation /\ moved.group = typed.group /\ moved.nested = l.n
        /\ moved.variants = typed.variants /\ moved.failures = typed.failures
    BY <2>1, <1>5 DEF Shaped
  <2>4. Shaped(moved) BY <2>1, <1>5 DEF Shaped
  <2> QED BY <1>5, <1>8, <2>2, <2>3, <2>4 DEF Found
<1>9. CASE l.k = "inline" /\ l.n \in PriceTypes
  <2>1. CASE l.b = None
    <3>1. ReadBuckets(s, l) = Failing(typed, {"EMPTY_BUCKET_MAP"}) BY <1>6, <1>9, <2>1
    <3> QED BY <1>5, <3>1, FailingIs
  <2>2. CASE l.b # None
    <3>1. ReadBuckets(s, l) = ReadBucket(typed, l.n, l.b, l.c) BY <1>6, <1>9, <2>2
    <3>2. /\ Shaped(ReadBuckets(s, l)) /\ typed.failures \subseteq ReadBuckets(s, l).failures
          /\ Found(ReadBuckets(s, l)) = Found(typed)
      BY <1>5, <3>1, BucketMoves
    <3> QED BY <1>5, <1>9, <3>2
  <2> QED BY <2>1, <2>2
<1>10. CASE l.k = "close"
  <2>1. PICK moved : moved = [s EXCEPT !.group = None] OBVIOUS
  <2>2. ReadBuckets(s, l) = moved BY <1>6, <1>10, <2>1
  <2>3. /\ moved.operation = s.operation /\ moved.group = None /\ moved.nested = s.nested
        /\ moved.variants = s.variants /\ moved.failures = s.failures
    BY <2>1 DEF Shaped
  <2>4. Shaped(moved) BY <2>1 DEF Shaped
  <2> QED BY <1>10, <2>2, <2>3, <2>4 DEF Found
<1>11. CASE l.k \notin {"open", "inline", "close"}
  <2>1. ReadBuckets(s, l) = Failing(s, {"UNRECOGNIZED_NBUCKETED_LINE"}) BY <1>6, <1>11
  <2> QED BY <2>1, FailingIs
<1> QED BY <1>7, <1>8, <1>9, <1>10, <1>11

\* A line of the buckets of one type.
LEMMA NestedMoves ==
  ASSUME NEW s, NEW l, Shaped(s)
  PROVE  /\ Shaped(ReadNested(s, l)) /\ s.failures \subseteq ReadNested(s, l).failures
         /\ ReadNested(s, l).failures = {} =>
              \/ l.k = "close" /\ Found(ReadNested(s, l)) = <<s.operation, s.group, None, s.variants>>
              \/ l.k = "entry" /\ Found(ReadNested(s, l)) = Found(s)
<1>1. CASE l.k = "entry"
  <2>1. ReadNested(s, l) = ReadBucket(s, s.nested, l.n, l.c) BY <1>1 DEF ReadNested
  <2> QED BY <1>1, <2>1, BucketMoves
<1>2. CASE l.k = "close"
  <2>1. PICK moved : moved = [s EXCEPT !.nested = None] OBVIOUS
  <2>2. ReadNested(s, l) = moved BY <1>2, <2>1 DEF ReadNested
  <2>3. /\ moved.operation = s.operation /\ moved.group = s.group /\ moved.nested = None
        /\ moved.variants = s.variants /\ moved.failures = s.failures
    BY <2>1 DEF Shaped
  <2>4. Shaped(moved) BY <2>1 DEF Shaped
  <2> QED BY <1>2, <2>2, <2>3, <2>4 DEF Found
<1>3. CASE l.k \notin {"entry", "close"}
  <2>1. ReadNested(s, l) = Failing(s, {"UNRECOGNIZED_BUCKET_MEMBER"}) BY <1>3 DEF ReadNested
  <2> QED BY <2>1, FailingIs
<1> QED BY <1>1, <1>2, <1>3

\* Whatever a line is, no failure is forgotten.
LEMMA LineKeeps ==
  ASSUME NEW s, NEW l, Shaped(s)
  PROVE  Shaped(ReadLine(s, l)) /\ s.failures \subseteq ReadLine(s, l).failures
<1>1. \/ ReadLine(s, l) = ReadOutside(s, l)
      \/ ReadLine(s, l) = ReadOperation(s, l)
      \/ ReadLine(s, l) = ReadGroup(s, l)
      \/ ReadLine(s, l) = ReadBuckets(s, l)
      \/ ReadLine(s, l) = ReadNested(s, l)
  BY DEF ReadLine
<1> QED BY <1>1, OutsideMoves, OperationMoves, GroupMoves, BucketsMove, NestedMoves

\* What a line does to an extraction that goes on without a failure.
LEMMA LineMoves ==
  ASSUME NEW s, NEW l, Shaped(s), s.operation = None => s.group = None /\ s.nested = None,
         s.nested # None => s.group = "nBucketed", ReadLine(s, l).failures = {}
  PROVE  Moved(s, l, ReadLine(s, l))
<1>0. "nBucketed" # None BY NoneIsNot
<1>1. CASE s.operation = None
  <2>1. ReadLine(s, l) = ReadOutside(s, l) BY <1>0, <1>1 DEF ReadLine
  <2> QED BY <1>1, <2>1, OutsideMoves DEF Moved
<1>2. CASE s.operation # None /\ s.group = None
  <2>1. ReadLine(s, l) = ReadOperation(s, l) BY <1>0, <1>2 DEF ReadLine
  <2>2. Found(s) = <<s.operation, None, s.nested, s.variants>> BY <1>2 DEF Found
  <2> QED BY <1>0, <1>2, <2>1, <2>2, OperationMoves DEF Moved
<1>3. CASE s.operation # None /\ s.group # None /\ s.group # "nBucketed"
  <2>1. ReadLine(s, l) = ReadGroup(s, l) BY <1>0, <1>3 DEF ReadLine
  <2> QED BY <1>3, <2>1, GroupMoves DEF Moved
<1>4. CASE s.operation # None /\ s.group = "nBucketed" /\ s.nested = None
  <2>1. ReadLine(s, l) = ReadBuckets(s, l) BY <1>0, <1>4 DEF ReadLine
  <2> QED BY <1>0, <1>4, <2>1, BucketsMove DEF Moved
<1>5. CASE s.operation # None /\ s.group = "nBucketed" /\ s.nested # None
  <2>1. ReadLine(s, l) = ReadNested(s, l) BY <1>0, <1>5 DEF ReadLine
  <2> QED BY <1>0, <1>5, <2>1, NestedMoves DEF Moved
<1> QED BY <1>1, <1>2, <1>3, <1>4, <1>5

\* The lines of some kinds before a line.
Earlier(document, kinds, n) == {j \in 1 .. (n - 1) : document[j].k \in kinds}

\* How many there are.
LEMMA CountSteps ==
  ASSUME NEW document, NEW kinds, NEW i \in Nat \ {0}
  PROVE  /\ Cardinality(Earlier(document, kinds, i)) \in Nat
         /\ Cardinality(Earlier(document, kinds, i + 1)) =
              Cardinality(Earlier(document, kinds, i)) + (IF document[i].k \in kinds THEN 1 ELSE 0)
<1> DEFINE before(n) == Earlier(document, kinds, n)
<1>1. PICK lines : lines = before(i) OBVIOUS
<1>2. IsFiniteSet(lines) /\ i \notin lines
  <2>1. lines \subseteq 1 .. (i - 1) BY <1>1 DEF Earlier
  <2>2. IsFiniteSet(1 .. (i - 1)) BY FS_Interval
  <2>3. IsFiniteSet(lines) BY <2>1, <2>2, FS_Subset
  <2>4. i \notin 1 .. (i - 1) OBVIOUS
  <2> QED BY <2>1, <2>3, <2>4
<1>3. Cardinality(lines) \in Nat BY <1>2, FS_CardinalityType
<1>4. before(i + 1) = IF document[i].k \in kinds THEN lines \cup {i} ELSE lines BY <1>1 DEF Earlier
<1>5. Cardinality(lines \cup {i}) = Cardinality(lines) + 1 BY <1>2, FS_AddElement
<1>6. Cardinality(before(i + 1)) = Cardinality(lines) + (IF document[i].k \in kinds THEN 1 ELSE 0)
  <2> HIDE DEF before
  <2>1. CASE document[i].k \in kinds BY <1>4, <1>5, <2>1
  <2>2. CASE document[i].k \notin kinds BY <1>3, <1>4, <2>2
  <2> QED BY <2>1, <2>2
<1> QED BY <1>1, <1>3, <1>6

\* How a line changes how many blocks are open.
LEMMA DepthSteps ==
  ASSUME NEW document, NEW i \in Nat \ {0}
  PROVE  /\ Depth(document, i) \in Int
         /\ Depth(document, i + 1) = Depth(document, i) + (IF document[i].k \in {"root", "open"} THEN 1 ELSE 0)
                                       - (IF document[i].k = "close" THEN 1 ELSE 0)
<1> DEFINE opened(n) == Earlier(document, {"root", "open"}, n)
           closed(n) == Earlier(document, {"close"}, n)
           closes(n) == {j \in 1 .. (n - 1) : document[j].k = "close"}
<1>1. /\ Cardinality(opened(i)) \in Nat
      /\ Cardinality(opened(i + 1)) = Cardinality(opened(i)) + (IF document[i].k \in {"root", "open"} THEN 1 ELSE 0)
  BY CountSteps
<1>2. /\ Cardinality(closed(i)) \in Nat
      /\ Cardinality(closed(i + 1)) = Cardinality(closed(i)) + (IF document[i].k \in {"close"} THEN 1 ELSE 0)
  BY CountSteps
<1>3. closes(i) = closed(i) /\ closes(i + 1) = closed(i + 1) BY DEF Earlier
<1>4. /\ Depth(document, i) = Cardinality(opened(i)) - Cardinality(closes(i))
      /\ Depth(document, i + 1) = Cardinality(opened(i + 1)) - Cardinality(closes(i + 1))
  BY DEF Depth, Earlier
<1> HIDE DEF opened, closed, closes
<1>5. document[i].k \in {"close"} <=> document[i].k = "close" OBVIOUS
<1> QED BY <1>1, <1>2, <1>3, <1>4, <1>5

LEMMA DepthStarts ==
  ASSUME NEW document
  PROVE  Depth(document, 1) = 0
<1>1. {j \in 1 .. (1 - 1) : document[j].k \in {"root", "open"}} = {} OBVIOUS
<1>2. {j \in 1 .. (1 - 1) : document[j].k = "close"} = {} OBVIOUS
<1>3. Cardinality({}) = 0 BY FS_EmptySet
<1> QED BY <1>1, <1>2, <1>3 DEF Depth

\* A block is enclosing from the line that opens it to the next that opens one at its depth.
LEMMA EnclosingSteps ==
  ASSUME NEW document, NEW i \in Nat \ {0}, NEW d
  PROVE  Enclosing(document, i + 1, d) =
           IF document[i].k = "open" /\ Depth(document, i) = d THEN document[i].n ELSE Enclosing(document, i, d)
<1> DEFINE opens(n) == {j \in 1 .. (n - 1) : document[j].k = "open" /\ Depth(document, j) = d}
           last(T) == CHOOSE j \in T : \A k \in T : k <= j
<1>1. Enclosing(document, i, d) = document[last(opens(i))].n BY DEF Enclosing
<1>2. Enclosing(document, i + 1, d) = document[last(opens(i + 1))].n BY DEF Enclosing
<1>3. CASE document[i].k = "open" /\ Depth(document, i) = d
  <2>1. PICK T : T = opens(i + 1) OBVIOUS
  <2>2. i \in T /\ T \subseteq 1 .. i BY <1>3, <2>1
  <2>3. \A k \in T : k <= i BY <2>2
  <2>4. PICK m : m = last(T) OBVIOUS
  <2>5. m \in T /\ \A k \in T : k <= m BY <2>2, <2>3, <2>4
  <2>6. i <= m /\ m \in 1 .. i BY <2>2, <2>5
  <2>7. last(T) = i BY <2>4, <2>6
  <2> QED BY <1>2, <1>3, <2>1, <2>7
<1>4. CASE ~(document[i].k = "open" /\ Depth(document, i) = d)
  <2>1. opens(i + 1) = opens(i) BY <1>4
  <2> QED BY <1>1, <1>2, <1>4, <2>1
<1> QED BY <1>3, <1>4

\* The price that a line states, and those that the first lines state.
Stated(document, j) ==
  [operation |-> Canonical[Enclosing(document, j, 1)], mode |-> Enclosing(document, j, 2),
   type |-> document[j].n, cost |-> document[j].c]

StatedUpTo(document, i) ==
  {Stated(document, j) : j \in {k \in 1 .. i : document[k].k = "entry" /\ Depth(document, k) = 3}}

LEMMA StatedSteps ==
  ASSUME NEW document, NEW i \in Nat \ {0}
  PROVE  StatedUpTo(document, i) =
           StatedUpTo(document, i - 1)
             \cup IF document[i].k = "entry" /\ Depth(document, i) = 3 THEN {Stated(document, i)} ELSE {}
<1> DEFINE lines(n) == {k \in 1 .. n : document[k].k = "entry" /\ Depth(document, k) = 3}
<1>1. lines(i) = lines(i - 1) \cup IF document[i].k = "entry" /\ Depth(document, i) = 3 THEN {i} ELSE {} OBVIOUS
<1>2. StatedUpTo(document, i) = {Stated(document, j) : j \in lines(i)} BY DEF StatedUpTo
<1>3. StatedUpTo(document, i - 1) = {Stated(document, j) : j \in lines(i - 1)} BY DEF StatedUpTo
<1> HIDE DEF lines
<1>4. CASE document[i].k = "entry" /\ Depth(document, i) = 3
  <2>1. lines(i) = lines(i - 1) \cup {i} BY <1>1, <1>4
  <2> QED BY <1>2, <1>3, <1>4, <2>1
<1>5. CASE ~(document[i].k = "entry" /\ Depth(document, i) = 3)
  <2>1. lines(i) = lines(i - 1) BY <1>1, <1>5
  <2> QED BY <1>2, <1>3, <1>5, <2>1
<1> QED BY <1>4, <1>5

\* The extraction is where the braces say, and has found the prices stated so far.
Placed(document, i, s) ==
  LET d == Depth(document, i + 1)
  IN /\ s.operation = None => d \in {0, 1} /\ s.group = None /\ s.nested = None
     /\ s.operation # None => s.operation \in DOMAIN Canonical /\ s.operation = Enclosing(document, i + 1, 1)
     /\ s.operation # None /\ s.group = None => d = 2 /\ s.nested = None
     /\ s.group # None => s.operation # None /\ s.group = Enclosing(document, i + 1, 2)
     /\ s.group # None /\ s.nested = None => d = 3
     /\ s.nested # None => s.group = "nBucketed" /\ d = 4
     /\ s.variants = StatedUpTo(document, i)

LEMMA LinePlaced ==
  ASSUME NEW document, Len(document) \in Nat, DOMAIN document = 1 .. Len(document), Balanced(document),
         None \notin DOMAIN Canonical, None \notin PriceTypes,
         NEW i \in 1 .. Len(document), NEW s, NEW t, Placed(document, i - 1, s), Moved(s, document[i], t)
  PROVE  Placed(document, i, t)
<1>1. PICK l : l = document[i] OBVIOUS
<1>2. PICK d : d = Depth(document, i) OBVIOUS
<1>3. PICK e : e = Depth(document, i + 1) OBVIOUS
<1>4. i \in Nat \ {0} /\ i - 1 + 1 = i OBVIOUS
<1>5. d \in Int /\ e = d + (IF l.k \in {"root", "open"} THEN 1 ELSE 0) - (IF l.k = "close" THEN 1 ELSE 0)
  BY <1>1, <1>2, <1>3, <1>4, DepthSteps
<1>6. d >= 0 /\ (l.k = "open" => d > 0) /\ (l.k = "root" => d = 0)
  <2>1. i \in DOMAIN document OBVIOUS
  <2>2. \A j \in DOMAIN document : Depth(document, j) >= 0 BY DEF Balanced
  <2>3. \A j \in DOMAIN document : document[j].k = "open" => Depth(document, j) > 0 BY DEF Balanced
  <2>4. \A j \in DOMAIN document : document[j].k = "root" => Depth(document, j) = 0 BY DEF Balanced
  <2>5. Depth(document, i) >= 0 BY <2>1, <2>2
  <2>6. document[i].k = "open" => Depth(document, i) > 0 BY <2>1, <2>3
  <2>7. document[i].k = "root" => Depth(document, i) = 0 BY <2>1, <2>4
  <2> QED BY <1>1, <1>2, <2>5, <2>6, <2>7
<1>7. e >= 0
  <2>1. CASE i = Len(document) BY <1>3, <2>1 DEF Balanced
  <2>2. CASE i # Len(document)
    <3>1. PICK n \in Nat : n = Len(document) OBVIOUS
    <3>2. i \in 1 .. n /\ i # n BY <2>2, <3>1
    <3>3. i + 1 \in 1 .. n BY <3>2
    <3>4. i + 1 \in DOMAIN document BY <3>1, <3>3
    <3> QED BY <1>3, <3>4 DEF Balanced
  <2> QED BY <2>1, <2>2
<1>8. PICK o : o = Enclosing(document, i, 1) OBVIOUS
<1>9. PICK g : g = Enclosing(document, i, 2) OBVIOUS
<1>10. PICK p : p = Enclosing(document, i + 1, 1) OBVIOUS
<1>11. PICK h : h = Enclosing(document, i + 1, 2) OBVIOUS
<1>12. /\ p = IF l.k = "open" /\ d = 1 THEN l.n ELSE o
       /\ h = IF l.k = "open" /\ d = 2 THEN l.n ELSE g
  BY <1>1, <1>2, <1>4, <1>8, <1>9, <1>10, <1>11, EnclosingSteps
<1>13. PICK w : w = StatedUpTo(document, i - 1) OBVIOUS
<1>14. PICK x : x = StatedUpTo(document, i) OBVIOUS
<1>15. PICK price : price = Stated(document, i) OBVIOUS
<1>16. x = w \cup IF l.k = "entry" /\ d = 3 THEN {price} ELSE {}
  BY <1>1, <1>2, <1>4, <1>13, <1>14, <1>15, StatedSteps
<1>17. /\ s.operation = None => d \in {0, 1} /\ s.group = None /\ s.nested = None
       /\ s.operation # None => s.operation \in DOMAIN Canonical /\ s.operation = o
       /\ s.operation # None /\ s.group = None => d = 2 /\ s.nested = None
       /\ s.group # None => s.operation # None /\ s.group = g
       /\ s.group # None /\ s.nested = None => d = 3
       /\ s.nested # None => s.group = "nBucketed" /\ d = 4
       /\ s.variants = w
  BY <1>2, <1>4, <1>8, <1>9, <1>13 DEF Placed
<1> SUFFICES /\ t.operation = None => e \in {0, 1} /\ t.group = None /\ t.nested = None
             /\ t.operation # None => t.operation \in DOMAIN Canonical /\ t.operation = p
             /\ t.operation # None /\ t.group = None => e = 2 /\ t.nested = None
             /\ t.group # None => t.operation # None /\ t.group = h
             /\ t.group # None /\ t.nested = None => e = 3
             /\ t.nested # None => t.group = "nBucketed" /\ e = 4
             /\ t.variants = x
  BY <1>3, <1>10, <1>11, <1>14 DEF Placed
<1>18. None \notin Groups /\ "nBucketed" # None BY NoneIsNot
<1>19. CASE s.operation = None
  <2>1. d \in {0, 1} /\ s.group = None /\ s.nested = None /\ s.variants = w BY <1>17, <1>19
  <2>2. \/ l.k # "open" /\ Found(t) = <<None, None, None, w>>
        \/ l.k = "open" /\ l.n \in DOMAIN Canonical /\ Found(t) = <<l.n, None, None, w>>
    BY <1>1, <1>18, <1>19, <2>1 DEF Moved, Found
  <2>3. x = w BY <1>16, <2>1
  <2>4. CASE l.k # "open"
    <3>1. t.operation = None /\ t.group = None /\ t.nested = None /\ t.variants = w BY <2>2, <2>4 DEF Found
    <3>2. e \in {0, 1}
      <4>1. d = 1 => l.k # "root" BY <1>6
      <4> QED BY <1>5, <1>7, <2>1, <2>4, <4>1
    <3> QED BY <2>3, <3>1, <3>2
  <2>5. CASE l.k = "open"
    <3>1. t.operation = l.n /\ t.group = None /\ t.nested = None /\ t.variants = w /\ l.n \in DOMAIN Canonical
      BY <2>2, <2>5 DEF Found
    <3>2. d = 1 BY <1>6, <2>1, <2>5
    <3>3. p = l.n /\ e = 2 BY <1>5, <1>12, <2>5, <3>2
    <3> QED BY <2>3, <3>1, <3>3
  <2> QED BY <2>4, <2>5
<1>20. CASE s.operation # None /\ s.group = None
  <2>1. d = 2 /\ s.nested = None /\ s.variants = w /\ s.operation = o /\ o \in DOMAIN Canonical BY <1>17, <1>20
  <2>2. \/ l.k = "field" /\ Found(t) = <<o, None, None, w>>
        \/ l.k = "open" /\ l.n \in Groups /\ Found(t) = <<o, l.n, None, w>>
        \/ l.k = "close" /\ Found(t) = <<None, None, None, w>>
    BY <1>1, <1>18, <1>20, <2>1 DEF Moved, Found
  <2>3. x = w /\ p = o BY <1>12, <1>16, <2>1
  <2>4. CASE l.k = "field"
    <3>1. Found(t) = <<o, None, None, w>> BY <2>2, <2>4
    <3>2. t.operation = o /\ t.group = None /\ t.nested = None /\ t.variants = w BY <3>1 DEF Found
    <3>3. e = 2 BY <1>5, <2>1, <2>4
    <3> QED BY <1>20, <2>1, <2>3, <3>2, <3>3
  <2>5. CASE l.k = "open"
    <3>1. Found(t) = <<o, l.n, None, w>> /\ l.n \in Groups BY <2>2, <2>5
    <3>2. t.operation = o /\ t.group = l.n /\ t.nested = None /\ t.variants = w BY <3>1 DEF Found
    <3>3. e = 3 /\ h = l.n BY <1>5, <1>12, <2>1, <2>5
    <3> QED BY <1>18, <1>20, <2>1, <2>3, <3>1, <3>2, <3>3
  <2>6. CASE l.k = "close"
    <3>1. Found(t) = <<None, None, None, w>> BY <2>2, <2>6
    <3>2. t.operation = None /\ t.group = None /\ t.nested = None /\ t.variants = w BY <3>1 DEF Found
    <3>3. e = 1 BY <1>5, <2>1, <2>6
    <3> QED BY <2>3, <3>2, <3>3
  <2> QED BY <2>2, <2>4, <2>5, <2>6
<1>21. CASE s.operation # None /\ s.group \notin {None, "nBucketed"}
  <2>1. d = 3 /\ s.nested = None /\ s.variants = w /\ s.operation = o /\ o \in DOMAIN Canonical /\ s.group = g
    BY <1>17, <1>21
  <2>2. \/ l.k = "close" /\ Found(t) = <<o, None, None, w>>
        \/ l.k = "entry" /\ Found(t) = <<o, g, None, w \cup {Variant(s, g, l.n, l.c)}>>
    BY <1>1, <1>21, <2>1 DEF Moved, Found
  <2>3. p = o /\ h = g BY <1>12, <2>1
  <2>4. CASE l.k = "close"
    <3>1. Found(t) = <<o, None, None, w>> BY <2>2, <2>4
    <3>2. t.operation = o /\ t.group = None /\ t.nested = None /\ t.variants = w BY <3>1 DEF Found
    <3>3. e = 2 /\ x = w BY <1>5, <1>16, <2>1, <2>4
    <3> QED BY <1>21, <2>1, <2>3, <3>2, <3>3
  <2>5. CASE l.k = "entry"
    <3>1. Found(t) = <<o, g, None, w \cup {Variant(s, g, l.n, l.c)}>> BY <2>2, <2>5
    <3>2. Variant(s, g, l.n, l.c) = price
      <4>1. Variant(s, g, l.n, l.c) = [operation |-> Canonical[o], mode |-> g, type |-> l.n, cost |-> l.c]
        BY <2>1 DEF Variant
      <4> QED BY <1>1, <1>8, <1>9, <1>15, <4>1 DEF Stated
    <3>3. t.operation = o /\ t.group = g /\ t.nested = None /\ t.variants = w \cup {price} BY <3>1, <3>2 DEF Found
    <3>4. e = 3 /\ x = w \cup {price} BY <1>5, <1>16, <2>1, <2>5
    <3> QED BY <1>21, <2>1, <2>3, <3>3, <3>4
  <2> QED BY <2>2, <2>4, <2>5
<1>22. CASE s.operation # None /\ s.group = "nBucketed" /\ s.nested = None
  <2>1. d = 3 /\ s.variants = w /\ s.operation = o /\ o \in DOMAIN Canonical /\ g = "nBucketed" BY <1>17, <1>18, <1>22
  <2>2. \/ l.k = "open" /\ l.n \in PriceTypes /\ Found(t) = <<o, g, l.n, w>>
        \/ l.k = "inline" /\ Found(t) = <<o, g, None, w>>
        \/ l.k = "close" /\ Found(t) = <<o, None, None, w>>
    BY <1>1, <1>18, <1>22, <2>1 DEF Moved, Found
  <2>3. p = o /\ h = g /\ x = w
    <3>1. l.k # "entry" BY <2>2
    <3> QED BY <1>12, <1>16, <2>1, <3>1
  <2>4. CASE l.k = "open"
    <3>1. Found(t) = <<o, g, l.n, w>> /\ l.n \in PriceTypes BY <2>2, <2>4
    <3>2. t.operation = o /\ t.group = g /\ t.nested = l.n /\ t.variants = w BY <3>1 DEF Found
    <3>3. e = 4 BY <1>5, <2>1, <2>4
    <3> QED BY <1>18, <1>22, <2>1, <2>3, <3>1, <3>2, <3>3
  <2>5. CASE l.k = "inline"
    <3>1. Found(t) = <<o, g, None, w>> BY <2>2, <2>5
    <3>2. t.operation = o /\ t.group = g /\ t.nested = None /\ t.variants = w BY <3>1 DEF Found
    <3>3. e = 3 BY <1>5, <2>1, <2>5
    <3> QED BY <1>18, <1>22, <2>1, <2>3, <3>2, <3>3
  <2>6. CASE l.k = "close"
    <3>1. Found(t) = <<o, None, None, w>> BY <2>2, <2>6
    <3>2. t.operation = o /\ t.group = None /\ t.nested = None /\ t.variants = w BY <3>1 DEF Found
    <3>3. e = 2 BY <1>5, <2>1, <2>6
    <3> QED BY <1>22, <2>1, <2>3, <3>2, <3>3
  <2> QED BY <2>2, <2>4, <2>5, <2>6
<1>23. CASE s.operation # None /\ s.group = "nBucketed" /\ s.nested # None
  <2>1. d = 4 /\ s.variants = w /\ s.operation = o /\ o \in DOMAIN Canonical /\ g = "nBucketed" BY <1>17, <1>18, <1>23
  <2>2. \/ l.k = "entry" /\ Found(t) = <<o, g, s.nested, w>>
        \/ l.k = "close" /\ Found(t) = <<o, g, None, w>>
    BY <1>1, <1>18, <1>23, <2>1 DEF Moved, Found
  <2>3. p = o /\ h = g /\ x = w BY <1>12, <1>16, <2>1
  <2>4. CASE l.k = "entry"
    <3>1. Found(t) = <<o, g, s.nested, w>> BY <2>2, <2>4
    <3>2. t.operation = o /\ t.group = g /\ t.nested = s.nested /\ t.variants = w BY <3>1 DEF Found
    <3>3. e = 4 BY <1>5, <2>1, <2>4
    <3> QED BY <1>18, <1>23, <2>1, <2>3, <3>2, <3>3
  <2>5. CASE l.k = "close"
    <3>1. Found(t) = <<o, g, None, w>> BY <2>2, <2>5
    <3>2. t.operation = o /\ t.group = g /\ t.nested = None /\ t.variants = w BY <3>1 DEF Found
    <3>3. e = 3 BY <1>5, <2>1, <2>5
    <3> QED BY <1>18, <1>23, <2>1, <2>3, <3>2, <3>3
  <2> QED BY <2>2, <2>4, <2>5
<1> QED BY <1>17, <1>19, <1>20, <1>21, <1>22, <1>23

LEMMA StartPlaced ==
  ASSUME NEW document
  PROVE  Shaped(Start) /\ Start.failures = {} /\ Placed(document, 0, Start)
<1>1. Shaped(Start) BY DEF Shaped, Start
<1>2. /\ Start.operation = None /\ Start.group = None /\ Start.nested = None /\ Start.variants = {}
      /\ Start.failures = {}
  BY DEF Start
<1>3. Depth(document, 0 + 1) = 0 BY DepthStarts
<1>4. StatedUpTo(document, 0) = {} BY DEF StatedUpTo
<1> QED BY <1>1, <1>2, <1>3, <1>4 DEF Placed

\* The extraction has found what the document states, line by line.
LEMMA ReadingPlaced ==
  ASSUME NEW document, Len(document) \in Nat, DOMAIN document = 1 .. Len(document), Balanced(document),
         None \notin DOMAIN Canonical, None \notin PriceTypes
  PROVE  \A k \in 0 .. Len(document) :
           LET s == ReadUpTo(document)[k]
           IN Shaped(s) /\ (s.failures = {} => Placed(document, k, s))
<1>1. PICK n \in Nat : n = Len(document) OBVIOUS
<1>2. PICK g : g = ReadUpTo(document) OBVIOUS
<1>3. ReadTo(document, g, n) BY <1>1, <1>2, ReadUpToIs
<1> DEFINE Good(k) == Shaped(g[k]) /\ (g[k].failures = {} => Placed(document, k, g[k]))
           Bad == {k \in Nat : k <= n /\ ~Good(k)}
<1> SUFFICES Bad = {} BY <1>1, <1>2
<1> SUFFICES ASSUME Bad # {} PROVE FALSE OBVIOUS
<1>4. PICK k \in Bad : \A y \in Bad : k <= y BY LeastNumber
<1>5. CASE k = 0
  <2>1. g[0] = Start BY <1>3 DEF ReadTo
  <2> QED BY <1>4, <1>5, <2>1, StartPlaced
<1>6. CASE k # 0
  <2>1. k - 1 \in Nat /\ k - 1 \notin Bad /\ k \in 1 .. n BY <1>1, <1>4, <1>6
  <2>2. Shaped(g[k - 1]) /\ (g[k - 1].failures = {} => Placed(document, k - 1, g[k - 1])) BY <2>1
  <2>3. g[k] = ReadLine(g[k - 1], document[k]) BY <1>3, <2>1 DEF ReadTo
  <2>4. Shaped(g[k]) /\ g[k - 1].failures \subseteq g[k].failures BY <2>2, <2>3, LineKeeps
  <2>5. ASSUME g[k].failures = {} PROVE Placed(document, k, g[k])
    <3>1. Placed(document, k - 1, g[k - 1]) BY <2>2, <2>4, <2>5
    <3>2. /\ g[k - 1].operation = None => g[k - 1].group = None /\ g[k - 1].nested = None
          /\ g[k - 1].nested # None => g[k - 1].group = "nBucketed"
      BY <3>1 DEF Placed
    <3>3. ReadLine(g[k - 1], document[k]).failures = {} BY <2>3, <2>5
    <3>4. Moved(g[k - 1], document[k], ReadLine(g[k - 1], document[k])) BY <2>2, <3>2, <3>3, LineMoves
    <3>5. Moved(g[k - 1], document[k], g[k]) BY <2>3, <3>4
    <3>6. k \in 1 .. Len(document) BY <1>1, <2>1
    <3> QED BY <3>1, <3>5, <3>6, LinePlaced
  <2> QED BY <1>4, <2>4, <2>5
<1> QED BY <1>5, <1>6

\* The extractor of the price schedule finds exactly the prices its object literal states.
LEMMA ScheduleIsStated ==
  ASSUME NEW document, Len(document) \in Nat, DOMAIN document = 1 .. Len(document), Balanced(document),
         None \notin DOMAIN Canonical, None \notin PriceTypes, extractPriceSchedule(document).failures = {}
  PROVE  extractPriceSchedule(document).variants = StatedPrices(document)
<1>1. PICK n \in Nat : n = Len(document) OBVIOUS
<1>2. PICK read : read = ReadUpTo(document)[n] OBVIOUS
<1>3. Shaped(read) /\ (read.failures = {} => Placed(document, n, read)) BY <1>1, <1>2, ReadingPlaced
<1>4. PICK end : end = IF read.operation = None THEN read
                       ELSE Finished(Failing(read, {"UNTERMINATED_SCHEDULE_BLOCK"}))
  OBVIOUS
<1>5. end.failures = {} /\ extractPriceSchedule(document).variants = end.variants
  <2>1. PICK empty : empty = When(end.variants = {}, "EMPTY_SCHEDULE") OBVIOUS
  <2>2. PICK operations : operations = derivePriceOperationIdentities(end.operations) OBVIOUS
  <2>3. extractPriceSchedule(document) =
          [operations |-> end.operations, variants |-> end.variants, failures |-> end.failures \cup empty \cup operations]
    BY <1>1, <1>2, <1>4, <2>1, <2>2 DEF extractPriceSchedule
  <2> QED BY <2>3
<1>6. read.operation = None
  <2> SUFFICES ASSUME read.operation # None PROVE FALSE OBVIOUS
  <2>1. PICK failing : failing = Failing(read, {"UNTERMINATED_SCHEDULE_BLOCK"}) OBVIOUS
  <2>2. Shaped(failing) /\ "UNTERMINATED_SCHEDULE_BLOCK" \in failing.failures BY <1>3, <2>1, FailingIs
  <2>3. PICK moved : moved = [failing EXCEPT !.operation = None, !.group = None, !.nested = None] OBVIOUS
  <2>4. PICK reasons : reasons = When(~(OperatorFields \subseteq failing.seen), "MISSING_OPERATOR_FIELD") OBVIOUS
  <2>5. Finished(failing) = Failing(moved, reasons) BY <2>3, <2>4 DEF Finished
  <2>6. Shaped(moved) /\ moved.failures = failing.failures BY <2>2, <2>3 DEF Shaped
  <2>7. Failing(moved, reasons).failures = failing.failures \cup reasons BY <2>6, FailingIs
  <2>8. end = Failing(moved, reasons) BY <1>4, <2>1, <2>5
  <2> QED BY <1>5, <2>2, <2>7, <2>8
<1>7. end = read BY <1>4, <1>6
<1>8. read.variants = StatedUpTo(document, n) BY <1>3, <1>5, <1>7 DEF Placed
<1>9. StatedUpTo(document, n) = StatedPrices(document) BY <1>1 DEF StatedUpTo, StatedPrices, Stated
<1> QED BY <1>5, <1>7, <1>8, <1>9

-----------------------------------------------------------------------------
(* What an accepted record says. *)

\* What the extractors say of authentic documents of an accepted record.
LEMMA Derivations ==
  ASSUME NEW r, deriveAuthorityFromSourceMaterial(r) = {}
  PROVE  /\ Authentic(r, "priceSchedule") => extractPriceSchedule(Document(r, "priceSchedule")).failures = {}
         /\ Authentic(r, "authoritySource") => residue(Document(r, "authoritySource")) = {}
         /\ Authentic(r, "authorityBuild") => DerivedBuild(r, "authority").failures = {}
<1>1. PICK a : a = UNION {authenticateSourceMaterial(r, s) : s \in MaterialSubjects} OBVIOUS
<1>2. PICK b : b = extractPriceSchedule(Document(r, "priceSchedule")).failures OBVIOUS
<1>3. PICK c : c = residue(Document(r, "authoritySource")) OBVIOUS
<1>4. PICK e : e = pricingRelevantResidue(Document(r, "authoritySource")) OBVIOUS
<1>5. PICK d : d = DerivedBuild(r, "authority").failures OBVIOUS
<1>6. deriveAuthorityFromSourceMaterial(r) =
        a \cup (IF Authentic(r, "priceSchedule") THEN b ELSE {})
          \cup (IF Authentic(r, "authoritySource") THEN c \cup e ELSE {})
          \cup (IF Authentic(r, "authorityBuild") THEN d ELSE {})
  BY <1>1, <1>2, <1>3, <1>4, <1>5 DEF deriveAuthorityFromSourceMaterial
<1>7. /\ (IF Authentic(r, "priceSchedule") THEN b ELSE {}) = {}
      /\ (IF Authentic(r, "authoritySource") THEN c \cup e ELSE {}) = {}
      /\ (IF Authentic(r, "authorityBuild") THEN d ELSE {}) = {}
  BY <1>6
<1> QED BY <1>2, <1>3, <1>5, <1>7

\* The documents an accepted record carries are those it names, and its builds compiled its sources.
LEMMA CarriedDocuments ==
  ASSUME NEW r, validateAuthorityBindingRecord(r) = {}
  PROVE  /\ \A s \in MaterialSubjects : /\ Authentic(r, s) /\ r.material[s] = {r.entries[s].content}
                                        /\ Document(r, s) = r.entries[s].content
         /\ \A role \in Roles : Document(r, BuildOf[role]).source = r.entries[SourceOf[role]].content
<1>2. deriveAuthorityFromSourceMaterial(r) = {} /\ ExecutorClaimErrors(r) = {} BY DEF validateAuthorityBindingRecord
<1>3. \A s \in MaterialSubjects : authenticateSourceMaterial(r, s) = {} BY <1>2 DEF deriveAuthorityFromSourceMaterial
<1>4. ASSUME NEW s \in MaterialSubjects
      PROVE  Authentic(r, s) /\ r.material[s] = {r.entries[s].content} /\ Document(r, s) = r.entries[s].content
  <2>1. authenticateSourceMaterial(r, s) = {} BY <1>3
  <2>2. r.material[s] = {r.entries[s].content}
    BY <2>1 DEF authenticateSourceMaterial, When, selectedProvenanceTuple
  <2>3. Document(r, s) = r.entries[s].content BY <2>2 DEF Document
  <2> QED BY <2>1, <2>2, <2>3 DEF Authentic
<1>5. /\ "executorBuild" \in MaterialSubjects /\ "authorityBuild" \in MaterialSubjects
      /\ BuildOf["executor"] = "executorBuild" /\ BuildOf["authority"] = "authorityBuild"
      /\ SourceOf["executor"] = "executorSource" /\ SourceOf["authority"] = "authoritySource"
      /\ Roles = {"executor", "authority"}
  BY DEF MaterialSubjects, BuildSubjects, BuildOf, SourceOf, Roles
<1>8. Document(r, "executorBuild").source = r.entries["executorSource"].content
  <2>1. Authentic(r, "executorBuild") BY <1>4, <1>5
  <2>2. When(Document(r, "executorBuild").source # selectedProvenanceTuple(r, "executorSource").content,
             "executor build did not compile the selected executor source") = {}
    BY <1>2, <2>1 DEF ExecutorClaimErrors
  <2> QED BY <2>2 DEF When, selectedProvenanceTuple
<1>9. Document(r, "authorityBuild").source = r.entries["authoritySource"].content
  <2>1. Authentic(r, "authorityBuild") BY <1>4, <1>5
  <2>2. DerivedBuild(r, "authority").failures = {} BY <1>2, <2>1, Derivations
  <2>3. PICK build : build = Document(r, "authorityBuild") OBVIOUS
  <2>4. PICK address : address = ReviewedImplementation(r, "authority") OBVIOUS
  <2>5. PICK source : source = r.entries["authoritySource"].content OBVIOUS
  <2>6. extractArtifactBuild(build, address, source).failures = {}
    BY <1>5, <2>2, <2>3, <2>4, <2>5 DEF DerivedBuild, selectedProvenanceTuple
  <2>7. /\ {f \in BuildFacts : build.facts[f] # "pinned"} = {}
        /\ When({f \in Indispensable : build.facts[f] = "absent"} = {} /\ build.source # source, "DIFFERENT_SOURCE") = {}
    BY <2>6 DEF extractArtifactBuild
  <2>8. {f \in Indispensable : build.facts[f] = "absent"} = {}
    <3>1. Indispensable \subseteq BuildFacts BY DEF Indispensable, BuildFacts
    <3>2. \A f \in Indispensable : build.facts[f] = "pinned" BY <2>7, <3>1
    <3> QED BY <3>2
  <2>9. build.source = source BY <2>7, <2>8 DEF When
  <2> QED BY <2>3, <2>5, <2>9
<1> QED BY <1>4, <1>5, <1>8, <1>9

\* An entry that is not the pinned one is what a reviewed amendment says.
LEMMA ReviewedDocuments ==
  ASSUME NEW r, validateAuthorityBindingRecord(r) = {}, NEW s \in DOMAIN Pinned \ (BuildSubjects \cup {"configuration"})
  PROVE  \/ r.entries[s].content = Pinned[s]
         \/ \E i \in DOMAIN r.amendments : /\ r.amendments[i].subject = s /\ r.amendments[i].reviewed
                                           /\ r.amendments[i].content = r.entries[s].content
<1>1. EntryErrors(r) = {} /\ AmendmentErrors(r) = {} BY DEF validateAuthorityBindingRecord
<1> DEFINE found(u) ==
             LET e == r.entries[u]
                 amendments == Amended(r, u)
             IN IF u \in BuildSubjects \/ amendments = {}
                THEN When(e.at # "pinned", "does not match the prior-reviewed tuple")
                       \cup When(u \notin BuildSubjects \cup {"configuration"} /\ e.content # Pinned[u],
                                 "contentSha256 does not match the prior-reviewed tuple")
                ELSE UNION {When(<<e.at, e.content>> # <<r.amendments[i].at, r.amendments[i].content>>,
                                 "does not match its amendment") : i \in amendments}
<1>2. UNION {found(u) : u \in DOMAIN Pinned} = {} BY <1>1 DEF EntryErrors
<1>3. found(s) = {}
  <2> HIDE DEF found
  <2> QED BY <1>2
<1>4. CASE Amended(r, s) = {}
  <2>1. When(s \notin BuildSubjects \cup {"configuration"} /\ r.entries[s].content # Pinned[s],
             "contentSha256 does not match the prior-reviewed tuple") = {}
    BY <1>3, <1>4
  <2> QED BY <2>1 DEF When
<1>5. CASE Amended(r, s) # {}
  <2>1. PICK i \in Amended(r, s) : TRUE BY <1>5
  <2>2. UNION {When(<<r.entries[s].at, r.entries[s].content>> # <<r.amendments[j].at, r.amendments[j].content>>,
                    "does not match its amendment") : j \in Amended(r, s)} = {}
    BY <1>3, <1>5
  <2>3. When(<<r.entries[s].at, r.entries[s].content>> # <<r.amendments[i].at, r.amendments[i].content>>,
             "does not match its amendment") = {}
    BY <2>1, <2>2
  <2>4. r.entries[s].content = r.amendments[i].content BY <2>3 DEF When
  <2>5. i \in DOMAIN r.amendments /\ r.amendments[i].subject = s BY <2>1 DEF Amended
  <2>6. r.amendments[i].reviewed
    <3> DEFINE errors(j) ==
                 LET a == r.amendments[j]
                 IN When(a.subject \in BuildSubjects, "may not amend a REPRODUCED_BUILD")
                      \cup When(a.subject \notin DOMAIN Pinned, "names an unknown subject")
                      \cup When(Cardinality(Amended(r, a.subject)) > 1, "more than one amendment")
                      \cup When(a.supersedes # "pinned", "does not name the exact superseded tuple")
                      \cup When(/\ a.subject \in DOMAIN Pinned \ (BuildSubjects \cup {"configuration"})
                                /\ a.at = "pinned" /\ a.content = Pinned[a.subject], "changes nothing")
                      \cup When(~a.reviewed, "requires an explicit reviewer")
    <3>1. UNION {errors(j) : j \in DOMAIN r.amendments} = {} BY <1>1 DEF AmendmentErrors
    <3>2. errors(i) = {}
      <4> HIDE DEF errors
      <4> QED BY <2>5, <3>1
    <3>3. When(~r.amendments[i].reviewed, "requires an explicit reviewer") = {} BY <3>2
    <3> QED BY <3>3 DEF When
  <2> QED BY <2>4, <2>5, <2>6
<1> QED BY <1>4, <1>5

\* The prices of an accepted record are those its schedule states.
LEMMA PricesAreStated ==
  ASSUME NEW r, validateAuthorityBindingRecord(r) = {}, Readable(r), Balanced(r.entries["priceSchedule"].content),
         None \notin DOMAIN Canonical, None \notin PriceTypes
  PROVE  Claimed(r) = StatedPrices(r.entries["priceSchedule"].content)
<1>1. PICK document : document = r.entries["priceSchedule"].content OBVIOUS
<1>2. "priceSchedule" \in MaterialSubjects BY DEF MaterialSubjects
<1>3. Authentic(r, "priceSchedule") /\ Document(r, "priceSchedule") = document BY <1>1, <1>2, CarriedDocuments
<1>4. PICK schedule : schedule = extractPriceSchedule(document) OBVIOUS
<1>5. PriceClaimErrors(r) = {} /\ deriveAuthorityFromSourceMaterial(r) = {} BY DEF validateAuthorityBindingRecord
<1>6. schedule.failures = {} BY <1>3, <1>4, <1>5, Derivations
<1>7. PICK crossed : crossed = IF Authentic(r, "authoritySource")
                               THEN validatePriceOperationFunctionCrossLinks(schedule, Document(r, "authoritySource")) ELSE {}
  OBVIOUS
<1>8. PICK priced : priced = Unpriced(schedule.variants) OBVIOUS
<1>9. PICK claimed : claimed = Unpriced(Claimed(r)) OBVIOUS
<1>10. PICK claims : claims = Claimed(r) OBVIOUS
<1>11. PICK variants : variants = schedule.variants OBVIOUS
<1>12. When(~(priced \subseteq claimed), "pricing manifest is incomplete")
         \cup When(~(claimed \subseteq priced), "declares variants not priced")
         \cup When(claimed = priced /\ claims # variants, "cost disagrees with the extracted schedule")
         \cup crossed = {}
  <2>1. PriceClaimErrors(r) =
          When(~(priced \subseteq claimed), "pricing manifest is incomplete")
            \cup When(~(claimed \subseteq priced), "declares variants not priced")
            \cup When(claimed = priced /\ claims # variants, "cost disagrees with the extracted schedule")
            \cup crossed
    BY <1>3, <1>4, <1>7, <1>8, <1>9, <1>10, <1>11 DEF PriceClaimErrors
  <2> QED BY <1>5, <2>1
<1>13. claims = variants
  <2>1. /\ When(~(priced \subseteq claimed), "pricing manifest is incomplete") = {}
        /\ When(~(claimed \subseteq priced), "declares variants not priced") = {}
        /\ When(claimed = priced /\ claims # variants, "cost disagrees with the extracted schedule") = {}
    BY <1>12
  <2>2. claimed = priced BY <2>1 DEF When
  <2> QED BY <2>1, <2>2 DEF When
<1>14. variants = StatedPrices(document)
  <2>1. Len(document) \in Nat /\ DOMAIN document = 1 .. Len(document) BY <1>1 DEF Readable
  <2>2. extractPriceSchedule(document).failures = {} BY <1>4, <1>6
  <2>3. Balanced(document) BY <1>1
  <2> QED BY <1>4, <1>11, <2>1, <2>2, <2>3, ScheduleIsStated
<1> QED BY <1>1, <1>10, <1>13, <1>14

\* What an accepted record says of the source is what the parser found there.
LEMMA SourceIsClaimed ==
  ASSUME NEW r, validateAuthorityBindingRecord(r) = {}
  PROVE  LET source == r.entries["authoritySource"].content
         IN /\ r.enumeration.names = enumeration(source)
            /\ residue(source) = {}
            /\ enforcementOperators(source) \subseteq {r.operator}
            /\ \A f \in Limits : \A p \in r.proof.entries[f] :
                 p.kind # "CONSTANT" => StorageProofErrors(r, source, f, p) = {}
<1>1. PICK source : source = r.entries["authoritySource"].content OBVIOUS
<1>2. "authoritySource" \in MaterialSubjects BY DEF MaterialSubjects
<1>3. Authentic(r, "authoritySource") /\ Document(r, "authoritySource") = source BY <1>1, <1>2, CarriedDocuments
<1>4. /\ SourceClaimErrors(r) = {} /\ ProofClaimErrors(r) = {} /\ deriveAuthorityFromSourceMaterial(r) = {}
  BY DEF validateAuthorityBindingRecord
<1>5. residue(source) = {} BY <1>3, <1>4, Derivations
<1>6. PICK operators : operators = enforcementOperators(source) OBVIOUS
<1>7. PICK semantics : semantics = derivedLimitSemantics(source) OBVIOUS
<1>8. /\ When(r.enumeration.names # enumeration(source), "enumeration disagrees with the parsed source") = {}
      /\ When(semantics = "UNRESOLVED", "the parsed enforcement paths disagree") = {}
      /\ When(Cardinality(operators) = 1 /\ operators # {r.operator}, "limits.enforcementOperator disagrees") = {}
  <2>1. PICK conclusion : conclusion = blockOrBatchConclusion(source) OBVIOUS
  <2>2. PICK complete : complete = parseCompleteness(source) OBVIOUS
  <2>3. PICK names : names = enumeration(source) OBVIOUS
  <2>4. SourceClaimErrors(r) =
          When(r.enumeration.names # names, "enumeration disagrees with the parsed source")
            \cup When(r.enumeration.completeness # complete, "parseCompleteness disagrees")
            \cup When(semantics = "UNRESOLVED", "the parsed enforcement paths disagree")
            \cup When(r.semantics # semantics, "limits.semantics disagrees")
            \cup When(Cardinality(operators) = 1 /\ operators # {r.operator},
                      "limits.enforcementOperator disagrees")
            \cup When(conclusion = "UNRESOLVED", "the authority source parse is partial")
            \cup When(\/ conclusion = "ABSENT" /\ r.block # "PROVEN_ABSENT"
                      \/ conclusion = "PRESENT" /\ r.block # "PROVEN_PRESENT", "disagrees with the parser conclusion")
    BY <1>3, <1>6, <1>7, <2>1, <2>2, <2>3 DEF SourceClaimErrors
  <2> QED BY <1>4, <2>3, <2>4
<1>9. r.enumeration.names = enumeration(source) BY <1>8 DEF When
<1>10. operators = {r.operator}
  <2>1. semantics # "UNRESOLVED" BY <1>8 DEF When
  <2>2. operators = {">"} \/ operators = {">="} BY <1>6, <1>7, <2>1 DEF derivedLimitSemantics
  <2>3. Cardinality({">"}) = 1 /\ Cardinality({">="}) = 1 BY FS_Singleton
  <2>4. Cardinality(operators) = 1 BY <2>2, <2>3
  <2> QED BY <1>8, <2>4 DEF When
<1>11. ASSUME NEW f \in Limits, NEW p \in r.proof.entries[f], p.kind # "CONSTANT"
       PROVE  StorageProofErrors(r, source, f, p) = {}
  <2> DEFINE errors(g, q) == IF q.kind = "CONSTANT" THEN ConstantProofErrors(r, source, q)
                             ELSE StorageProofErrors(r, source, g, q)
  <2>1. UNION {UNION {errors(g, q) : q \in r.proof.entries[g]} : g \in Limits} = {} BY <1>3, <1>4 DEF ProofClaimErrors
  <2>2. errors(f, p) = {}
    <3> HIDE DEF errors
    <3> QED BY <2>1
  <2> QED BY <1>11, <2>2
<1> QED BY <1>1, <1>5, <1>6, <1>9, <1>10, <1>11

\* A storage field that is proven has a getter in the source.
LEMMA GetterReturnsField ==
  ASSUME NEW r, NEW source, NEW f, NEW p, StorageProofErrors(r, source, f, p) = {}
  PROVE  /\ r.specs[f].getter = p.getter
         /\ \E i \in Functions(source) : source[i].n = p.getter /\ source[i].returns = p.name
<1>1. PICK found : found = storageFieldEvidence(source, p.name) OBVIOUS
<1> DEFINE wrong(e) == When(p.getter # e.getter, "getter disagrees with the parsed source")
                         \cup When(p.functions # {source[i].n : i \in e.reads}, "enforcement reads disagree")
                         \cup When(\E i \in e.reads : OperatorOf(source, i) \notin {None, p.operator},
                                   "comparison operator disagrees")
<1>2. PICK disagreeing : disagreeing = UNION {wrong(e) : e \in found} OBVIOUS
<1>3. PICK value : value = When({p.value} # ProvenValue(r, f), "value disagrees with the binding proof value") OBVIOUS
<1>4. When(found = {}, "absent from the authenticated storage-field evidence")
        \cup disagreeing
        \cup When(r.specs[f].getter # p.getter, "getter specification disagrees")
        \cup value = {}
  <2>1. StorageProofErrors(r, source, f, p) =
          When(found = {}, "absent from the authenticated storage-field evidence")
            \cup disagreeing
            \cup When(r.specs[f].getter # p.getter, "getter specification disagrees")
            \cup value
    BY <1>1, <1>2, <1>3 DEF StorageProofErrors
  <2> QED BY <2>1
<1>5. /\ When(found = {}, "absent from the authenticated storage-field evidence") = {} /\ disagreeing = {}
      /\ When(r.specs[f].getter # p.getter, "getter specification disagrees") = {}
  BY <1>4
<1>6. found # {} /\ r.specs[f].getter = p.getter BY <1>5 DEF When
<1>7. PICK getters : getters = FieldGetters(source, p.name) OBVIOUS
<1>8. PICK seen : seen = [reads |-> FieldReads(source, p.name), getter |-> source[CHOOSE i \in getters : TRUE].n]
  OBVIOUS
<1>9. Cardinality(getters) = 1 /\ found = {seen}
  BY <1>1, <1>6, <1>7, <1>8 DEF storageFieldEvidence
<1>10. getters # {}
  <2>1. Cardinality({}) = 0 BY FS_EmptySet
  <2> QED BY <1>9, <2>1
<1>11. PICK i \in getters : i = CHOOSE j \in getters : TRUE BY <1>10
<1>12. seen.getter = source[i].n BY <1>8, <1>11
<1>13. wrong(seen) = {}
  <2> HIDE DEF wrong
  <2> QED BY <1>2, <1>5, <1>9
<1>14. p.getter = seen.getter
  <2>1. When(p.getter # seen.getter, "getter disagrees with the parsed source") = {} BY <1>13
  <2> QED BY <2>1 DEF When
<1>15. i \in Functions(source) /\ source[i].returns = p.name BY <1>7, <1>11 DEF FieldGetters
<1> QED BY <1>6, <1>12, <1>14, <1>15

\* A cap that is denied is named by no declaration of the source.
LEMMA DeniedCapIsNowhere ==
  ASSUME NEW r, validateAuthorityBindingRecord(r) = {}, Readable(r), r.block = "PROVEN_ABSENT",
         NEW i \in DOMAIN r.entries["authoritySource"].content,
         r.entries["authoritySource"].content[i].k # "other"
  PROVE  r.entries["authoritySource"].content[i].n \notin BlockScoped
<1>1. PICK source : source = r.entries["authoritySource"].content OBVIOUS
<1>2. r.enumeration.names = enumeration(source) /\ residue(source) = {} BY <1>1, SourceIsClaimed
<1>3. deriveBlockOrBatchConclusion(enumeration(source)) = "ABSENT"
  <2>1. BlockOrBatchErrors(r) = {} BY DEF validateAuthorityBindingRecord
  <2>2. PICK conclusion : conclusion = deriveBlockOrBatchConclusion(r.enumeration.names) OBVIOUS
  <2>3. When(r.block = "PROVEN_ABSENT" /\ (~r.enumeration.complete \/ conclusion # "ABSENT"), "claims PROVEN_ABSENT") = {}
    BY <2>1, <2>2 DEF BlockOrBatchErrors
  <2>4. conclusion = "ABSENT" BY <2>3 DEF When
  <2> QED BY <1>2, <2>2, <2>4
<1>4. \A field \in DOMAIN Enumerated : enumeration(source)[field] \cap BlockScoped = {}
  BY <1>3 DEF deriveBlockOrBatchConclusion
<1>5. \A field \in DOMAIN Enumerated : enumeration(source)[field] = Named(source, Enumerated[field]) BY DEF enumeration
<1>6. \A field \in DOMAIN Enumerated : Named(source, Enumerated[field]) \cap BlockScoped = {} BY <1>4, <1>5
<1>7. /\ Named(source, {"constant"}) \cap BlockScoped = {} /\ Named(source, {"function"}) \cap BlockScoped = {}
      /\ Named(source, {"error"}) \cap BlockScoped = {} /\ Named(source, {"mapping"}) \cap BlockScoped = {}
      /\ Named(source, {"field"}) \cap BlockScoped = {}
  <2>1. /\ DOMAIN Enumerated = {"declarations", "callableFunctions", "errors", "mappings", "storageStructFields"}
        /\ Enumerated["declarations"] = {"constant"} /\ Enumerated["callableFunctions"] = {"function"}
        /\ Enumerated["errors"] = {"error"} /\ Enumerated["mappings"] = {"mapping"}
        /\ Enumerated["storageStructFields"] = {"field"}
    BY DEF Enumerated
  <2> HIDE DEF Enumerated
  <2> QED BY <1>6, <2>1
<1>8. Named(source, {"modifier", "unclassified", "unterminated"}) = {} BY <1>2 DEF residue, When
<1>9. ASSUME NEW kinds, source[i].k \in kinds PROVE source[i].n \in Named(source, kinds)
  BY <1>1, <1>9 DEF Named
<1>10. source[i].k \notin {"modifier", "unclassified", "unterminated"} BY <1>8, <1>9
<1>11. source[i].k \in {"constant", "function", "error", "mapping", "field"}
  <2>1. source[i].k \in DeclarationKinds BY <1>1 DEF Readable
  <2> QED BY <1>1, <1>10, <2>1 DEF DeclarationKinds
<1> QED BY <1>1, <1>7, <1>9, <1>11

LEMMA AcceptedSaysWhatDocumentsSay ==
  ASSUME NEW r, validateAuthorityBindingRecord(r) = {}, Readable(r), None \notin DOMAIN Canonical, None \notin PriceTypes
  PROVE  DerivedFromDocuments(r)
<1>1. PICK source : source = r.entries["authoritySource"].content OBVIOUS
<1>2. \A s \in MaterialSubjects : r.material[s] = {r.entries[s].content} BY CarriedDocuments
<1>3. \A s \in DOMAIN Pinned \ (BuildSubjects \cup {"configuration"}) :
        \/ r.entries[s].content = Pinned[s]
        \/ \E i \in DOMAIN r.amendments : /\ r.amendments[i].subject = s /\ r.amendments[i].reviewed
                                          /\ r.amendments[i].content = r.entries[s].content
  BY ReviewedDocuments
<1>4. Balanced(r.entries["priceSchedule"].content) => Claimed(r) = StatedPrices(r.entries["priceSchedule"].content)
  BY PricesAreStated
<1>5. r.block = "PROVEN_ABSENT" => \A i \in DOMAIN source : source[i].k # "other" => source[i].n \notin BlockScoped
  BY <1>1, DeniedCapIsNowhere
<1>6. /\ enforcementOperators(source) \subseteq {r.operator}
      /\ \A f \in Limits : \A p \in r.proof.entries[f] :
           p.kind # "CONSTANT" => StorageProofErrors(r, source, f, p) = {}
  BY <1>1, SourceIsClaimed
<1>7. \A i \in enforcementFunctions(source) : OperatorOf(source, i) \in {r.operator, None}
  <2>1. TAKE i \in enforcementFunctions(source)
  <2>2. OperatorOf(source, i) = None \/ OperatorOf(source, i) \in enforcementOperators(source) BY DEF enforcementOperators
  <2> QED BY <1>6, <2>2
<1>8. \A f \in Limits : \A p \in r.proof.entries[f] :
        p.kind = "STORAGE_FIELD" => /\ r.specs[f].getter = p.getter
                                    /\ \E i \in Functions(source) : source[i].n = p.getter /\ source[i].returns = p.name
  <2>1. TAKE f \in Limits
  <2>2. TAKE p \in r.proof.entries[f]
  <2>3. HAVE p.kind = "STORAGE_FIELD"
  <2>4. StorageProofErrors(r, source, f, p) = {} BY <1>6, <2>3
  <2> QED BY <2>4, GetterReturnsField
<1>9. \A role \in Roles : Document(r, BuildOf[role]).source = r.entries[SourceOf[role]].content BY CarriedDocuments
<1> QED BY <1>1, <1>2, <1>3, <1>4, <1>5, <1>7, <1>8, <1>9 DEF DerivedFromDocuments

-----------------------------------------------------------------------------
(* The plan. *)

\* What is left of one element more of a list.
FilterNext(list, wanted, i, before) ==
  IF list[i] \in wanted THEN Append(before, list[i]) ELSE before

\* g are the filtered beginnings of the list up to place k.
FilteredTo(S, list, wanted, g, k) ==
  /\ g \in [0 .. k -> Seq(S)] /\ g[0] = <<>>
  /\ \A i \in 1 .. k : g[i] = FilterNext(list, wanted, i, g[i - 1])

LEMMA FilterNextType ==
  ASSUME NEW S, NEW list \in Seq(S), NEW wanted, NEW i \in 1 .. Len(list), NEW q \in Seq(S)
  PROVE  FilterNext(list, wanted, i, q) \in Seq(S)
<1>1. list[i] \in S OBVIOUS
<1>2. Append(q, list[i]) \in Seq(S) BY <1>1
<1> QED BY <1>2 DEF FilterNext

LEMMA FilteredToExists ==
  ASSUME NEW S, NEW list \in Seq(S), NEW wanted, NEW n \in Nat, n <= Len(list)
  PROVE  \E g : FilteredTo(S, list, wanted, g, n)
<1> DEFINE Bad == {k \in Nat : k <= n /\ ~ \E g : FilteredTo(S, list, wanted, g, k)}
<1> SUFFICES Bad = {}
  <2>1. n <= n OBVIOUS
  <2> QED BY <2>1
<1> SUFFICES ASSUME Bad # {} PROVE FALSE OBVIOUS
<1>1. PICK k \in Bad : \A y \in Bad : k <= y BY LeastNumber
<1>2. CASE k = 0
  <2>1. FilteredTo(S, list, wanted, [i \in 0 .. 0 |-> <<>>], 0) BY DEF FilteredTo
  <2> QED BY <1>1, <1>2, <2>1
<1>3. CASE k # 0
  <2>0. Len(list) \in Nat OBVIOUS
  <2>1. k \in Nat /\ k - 1 \in Nat /\ k - 1 \notin Bad /\ k <= n BY <1>1, <1>3
  <2>2. PICK g : FilteredTo(S, list, wanted, g, k - 1) BY <2>1
  <2>3. PICK h : h = [i \in 0 .. k |-> IF i = k THEN FilterNext(list, wanted, k, g[k - 1]) ELSE g[i]] OBVIOUS
  <2>4. g \in [0 .. k - 1 -> Seq(S)] BY <2>2 DEF FilteredTo
  <2>5. FilterNext(list, wanted, k, g[k - 1]) \in Seq(S)
    <3>1. k \in 1 .. Len(list) BY <2>0, <2>1, <1>3
    <3>2. g[k - 1] \in Seq(S) BY <2>1, <2>4
    <3> QED BY <3>1, <3>2, FilterNextType
  <2>6. h \in [0 .. k -> Seq(S)] BY <2>1, <2>3, <2>4, <2>5
  <2>7. h[0] = <<>> BY <1>3, <2>1, <2>2, <2>3 DEF FilteredTo
  <2>8. ASSUME NEW i \in 1 .. k PROVE h[i] = FilterNext(list, wanted, i, h[i - 1])
    <3>1. h[i - 1] = g[i - 1] BY <2>1, <2>3
    <3>2. CASE i = k BY <3>1, <3>2, <2>3
    <3>3. CASE i # k
      <4>1. i \in 1 .. k - 1 BY <3>3, <2>1
      <4>2. h[i] = g[i] BY <3>3, <2>3
      <4> QED BY <4>1, <4>2, <3>1, <2>2 DEF FilteredTo
    <3> QED BY <3>2, <3>3
  <2>9. FilteredTo(S, list, wanted, h, k) BY <2>6, <2>7, <2>8 DEF FilteredTo
  <2> QED BY <2>9, <1>1
<1> QED BY <1>2, <1>3

\* The recursive function is what its equation says.
LEMMA FilteredIs ==
  ASSUME NEW S, NEW list \in Seq(S), NEW wanted
  PROVE  FilteredTo(S, list, wanted, Filtered(list, wanted), Len(list))
<1> DEFINE body(g) == [i \in 0 .. Len(list) |->
                         IF i = 0 THEN <<>> ELSE FilterNext(list, wanted, i, g[i - 1])]
           upTo == CHOOSE f : f = body(f)
<1>1. PICK n \in Nat : n = Len(list) OBVIOUS
<1>0. n <= Len(list) BY <1>1
<1>2. PICK g : FilteredTo(S, list, wanted, g, n) BY <1>0, FilteredToExists
<1>3. g = body(g)
  <2>1. ASSUME NEW i \in 0 .. n PROVE g[i] = IF i = 0 THEN <<>> ELSE FilterNext(list, wanted, i, g[i - 1])
    BY <1>2 DEF FilteredTo
  <2>2. g \in [0 .. n -> Seq(S)] BY <1>2 DEF FilteredTo
  <2> QED BY <2>1, <2>2, <1>1
<1>4. upTo = body(upTo)
  <2>1. \E f : f = body(f) BY <1>3
  <2> QED BY <2>1
<1>5. Filtered(list, wanted) = upTo BY DEF Filtered, FilterNext
<1> HIDE DEF upTo
<1>6. DOMAIN upTo = 0 .. n /\ upTo = [i \in 0 .. n |-> upTo[i]] BY <1>1, <1>4
<1>7. upTo[0] = <<>> BY <1>1, <1>4
<1>8. \A i \in 1 .. n : upTo[i] = FilterNext(list, wanted, i, upTo[i - 1]) BY <1>1, <1>4
<1> DEFINE Bad == {k \in Nat : k <= n /\ upTo[k] \notin Seq(S)}
<1>9. Bad = {}
  <2> SUFFICES ASSUME Bad # {} PROVE FALSE OBVIOUS
  <2>1. PICK k \in Bad : \A y \in Bad : k <= y BY LeastNumber
  <2>2. k # 0
    <3>1. upTo[0] \in Seq(S) BY <1>7
    <3> QED BY <2>1, <3>1
  <2>3. k - 1 \in Nat /\ k - 1 \notin Bad /\ k \in 1 .. n BY <2>1, <2>2, <1>1
  <2>4. upTo[k - 1] \in Seq(S) BY <2>3
  <2>5. upTo[k] \in Seq(S) BY <2>3, <2>4, <1>1, <1>8, FilterNextType
  <2> QED BY <2>5, <2>1
<1>10. upTo \in [0 .. n -> Seq(S)] BY <1>6, <1>9
<1> QED BY <1>1, <1>5, <1>7, <1>8, <1>10 DEF FilteredTo

\* What is filtered from a beginning is a beginning of what is filtered from the whole, and the
\* wanted element that comes next is the next there.
LEMMA FilteredBegins ==
  ASSUME NEW S, NEW list \in Seq(S), NEW wanted, NEW i \in 0 .. Len(list)
  PROVE  LET F == Filtered(list, wanted)
             whole == F[Len(list)]
         IN /\ F[i] \in Seq(S) /\ whole \in Seq(S)
            /\ Len(F[i]) <= Len(whole)
            /\ \A j \in 1 .. Len(F[i]) : whole[j] = F[i][j]
<1> DEFINE F == Filtered(list, wanted)
           n == Len(list)
           Good(k) == /\ Len(F[i]) <= Len(F[k])
                      /\ \A j \in 1 .. Len(F[i]) : F[k][j] = F[i][j]
           Bad == {k \in Nat : i <= k /\ k <= n /\ ~Good(k)}
<1>1. FilteredTo(S, list, wanted, F, n) BY FilteredIs
<1>2. n \in Nat /\ i \in Nat OBVIOUS
<1> HIDE DEF F, n
<1>3. \A k \in 0 .. n : F[k] \in Seq(S) BY <1>1 DEF FilteredTo
<1>4. Bad = {}
  <2> SUFFICES ASSUME Bad # {} PROVE FALSE OBVIOUS
  <2>1. PICK k \in Bad : \A y \in Bad : k <= y
    <3> HIDE DEF Good
    <3>1. Bad \in SUBSET Nat OBVIOUS
    <3> QED BY <3>1, LeastNumber
  <2>2. k # i
    <3>1. Good(i)
      <4>1. F[i] \in Seq(S) BY <1>3 DEF n
      <4> QED BY <4>1
    <3> QED BY <2>1, <3>1
  <2>3. k \in 1 .. n /\ k - 1 \in Nat /\ k - 1 \in 0 .. n /\ i <= k - 1 /\ k - 1 <= n BY <2>1, <2>2, <1>2
  <2>4. Good(k - 1)
    <3> HIDE DEF Good
    <3> QED BY <2>1, <2>3
  <2>5. F[k] = FilterNext(list, wanted, k, F[k - 1]) BY <1>1, <2>3 DEF FilteredTo
  <2>6. F[k - 1] \in Seq(S) /\ F[i] \in Seq(S) BY <1>2, <1>3, <2>3 DEF n
  <2>7. Good(k)
    <3>1. CASE F[k] = F[k - 1] BY <3>1, <2>4
    <3>2. CASE F[k] = Append(F[k - 1], list[k]) BY <3>2, <2>4, <2>6
    <3> QED BY <3>1, <3>2, <2>5 DEF FilterNext
  <2> QED BY <2>1, <2>7
<1>5. Good(n)
  <2> HIDE DEF Good
  <2> QED BY <1>4, <1>2 DEF n
<1> QED BY <1>2, <1>3, <1>5 DEF F, n

LEMMA FilteredGoesOn ==
  ASSUME NEW S, NEW list \in Seq(S), NEW wanted, NEW i \in 0 .. Len(list), i < Len(list)
  PROVE  LET F == Filtered(list, wanted)
             whole == F[Len(list)]
         IN /\ i + 1 \in 1 .. Len(list) /\ i + 1 \in 0 .. Len(list)
            /\ F[i] \in Seq(S) /\ whole \in Seq(S)
            /\ list[i + 1] \in wanted => /\ Len(F[i + 1]) = Len(F[i]) + 1
                                         /\ Len(F[i]) < Len(whole)
                                         /\ whole[Len(F[i]) + 1] = list[i + 1]
            /\ list[i + 1] \notin wanted => F[i + 1] = F[i]
<1> DEFINE F == Filtered(list, wanted)
           n == Len(list)
<1>1. FilteredTo(S, list, wanted, F, n) BY FilteredIs
<1>2. n \in Nat /\ i + 1 \in 0 .. n /\ i + 1 \in 1 .. n OBVIOUS
<1>3. /\ F[i + 1] \in Seq(S) /\ F[n] \in Seq(S)
      /\ Len(F[i + 1]) <= Len(F[n])
      /\ \A j \in 1 .. Len(F[i + 1]) : F[n][j] = F[i + 1][j]
  BY <1>2, FilteredBegins
<1>4. F[i] \in Seq(S) BY FilteredBegins
<1>5. F[i + 1] = FilterNext(list, wanted, i + 1, F[i])
  <2> HIDE DEF F, n
  <2>1. (i + 1) - 1 = i OBVIOUS
  <2> QED BY <1>1, <1>2, <2>1 DEF FilteredTo
<1> HIDE DEF F
<1>6. CASE list[i + 1] \in wanted
  <2>1. F[i + 1] = Append(F[i], list[i + 1]) BY <1>5, <1>6 DEF FilterNext
  <2>2. Len(F[i + 1]) = Len(F[i]) + 1 /\ F[i + 1][Len(F[i]) + 1] = list[i + 1] BY <2>1, <1>4
  <2>3. Len(F[i]) \in Nat /\ Len(F[n]) \in Nat BY <1>3, <1>4
  <2>4. Len(F[i]) < Len(F[n]) /\ F[n][Len(F[i]) + 1] = list[i + 1] BY <2>2, <2>3, <1>3
  <2> QED BY <2>2, <2>4, <1>2, <1>3, <1>4, <1>6 DEF F
<1>7. CASE list[i + 1] \notin wanted
  <2>1. F[i + 1] = F[i] BY <1>5, <1>7 DEF FilterNext
  <2> QED BY <2>1, <1>2, <1>3, <1>4, <1>7 DEF F
<1> QED BY <1>6, <1>7
LEMMA Pair ==
  ASSUME NEW S, NEW x \in S, NEW y \in S
  PROVE  <<x, y>> \in Seq(S) /\ Len(<<x, y>>) = 2 /\ <<x, y>>[1] = x /\ <<x, y>>[2] = y
OBVIOUS

LEMMA Triple ==
  ASSUME NEW S, NEW x \in S, NEW y \in S, NEW z \in S
  PROVE  /\ <<x, y, z>> \in Seq(S) /\ Len(<<x, y, z>>) = 3
         /\ <<x, y, z>>[1] = x /\ <<x, y, z>>[2] = y /\ <<x, y, z>>[3] = z
OBVIOUS

LEMMA Listing ==
  ASSUME NEW S, NEW n \in Nat, NEW f \in [1 .. n -> S]
  PROVE  f \in Seq(S) /\ Len(f) = n
OBVIOUS

\* The calls of getters and subjects.
PlannedCalls(names) == [i \in DOMAIN names |-> Planned(names[i], "AUTHORITY", TRUE)]

LEMMA CallsListed ==
  ASSUME NEW T, NEW names \in Seq(T), NEW S, \A i \in 1 .. Len(names) : Planned(names[i], "AUTHORITY", TRUE) \in S
  PROVE  /\ PlannedCalls(names) \in Seq(S) /\ Len(names) \in Nat /\ Len(PlannedCalls(names)) = Len(names)
         /\ \A i \in 1 .. Len(names) : PlannedCalls(names)[i] = Planned(names[i], "AUTHORITY", TRUE)
<1>1. DOMAIN names = 1 .. Len(names) /\ Len(names) \in Nat OBVIOUS
<1>2. PlannedCalls(names) \in [1 .. Len(names) -> S] BY <1>1 DEF PlannedCalls
<1>3. PlannedCalls(names) \in Seq(S) /\ Len(PlannedCalls(names)) = Len(names) BY <1>1, <1>2, Listing
<1> QED BY <1>1, <1>3 DEF PlannedCalls

LEMMA ProxyCalls ==
  ASSUME NEW S, NEW x \in S, NEW y \in S, NEW model, NEW calls, calls = IF model = Proxy THEN <<x, y>> ELSE <<>>
  PROVE  /\ calls \in Seq(S) /\ Len(calls) = Extra(model) /\ Extra(model) \in {0, 2}
         /\ model = Proxy => calls[1] = x /\ calls[2] = y /\ Extra(model) = 2
<1>4. CASE model = Proxy
  <2>1. calls = <<x, y>> /\ Extra(model) = 2 BY <1>4 DEF Extra
  <2>2. calls \in Seq(S) /\ Len(calls) = 2 /\ calls[1] = x /\ calls[2] = y
    BY <2>1, Pair
  <2> QED BY <2>1, <2>2
<1>5. CASE model # Proxy
  <2>1. calls = <<>> /\ Extra(model) = 0 BY <1>5 DEF Extra
  <2>2. calls \in Seq(S) /\ Len(calls) = 0 BY <2>1
  <2> QED BY <1>5, <2>1, <2>2
<1> QED BY <1>4, <1>5

LEMMA LimitFieldNames ==
  /\ LimitFields \in Seq(Limits) /\ Len(LimitFields) = 3
  /\ LimitFields[1] = "transactionTotal" /\ LimitFields[2] = "transactionDepth" /\ LimitFields[3] = "blockOrBatchCap"
<1>1. "transactionTotal" \in Limits /\ "transactionDepth" \in Limits /\ "blockOrBatchCap" \in Limits
  BY DEF Limits, MandatoryLimits
<1> QED BY <1>1, Triple DEF LimitFields

LEMMA CallerNames == Callers \in Seq(ToSet(Callers)) /\ Len(Callers) \in Nat /\ Len(Callers) > 0
<1>1. PICK S : S = STRING OBVIOUS
<1>2. Callers \in Seq(S) /\ Callers # <<>> BY <1>1, AuthorityConfiguration
<1>3. Len(Callers) \in Nat /\ Len(Callers) > 0 BY <1>2
<1>4. Callers \in [1 .. Len(Callers) -> ToSet(Callers)] BY <1>2 DEF ToSet
<1> QED BY <1>3, <1>4, Listing

\* Where each call stands in the plan.
LEMMA PlanLayout ==
  LET e == Extra(record.executor)
      b == Extra(record.executor) + Extra(record.authority)
      G == GettersUpTo(Len(LimitFields))
      C == SubjectsUpTo(Len(Callers))
  IN /\ G \in Seq(Limits) /\ C \in Seq(ToSet(Callers))
     /\ Len(livePlan) = 9 + b + Len(G) + Len(C)
     /\ livePlan[1] = Planned("CHAIN_ID", "NONE", FALSE)
     /\ livePlan[2] = Planned("PINNED_BLOCK", "NONE", FALSE)
     /\ livePlan[3] = Planned("CODE", "EXECUTOR", TRUE)
     /\ record.executor = Proxy => /\ livePlan[4] = Planned("SLOT", "EXECUTOR", TRUE)
                                   /\ livePlan[5] = Planned("CODE", "EXECUTOR_IMPLEMENTATION", TRUE)
     /\ livePlan[4 + e] = Planned("EXECUTOR_VERSION", "EXECUTOR", TRUE)
     /\ livePlan[5 + e] = Planned("AUTHORITY_GETTER", "EXECUTOR", TRUE)
     /\ livePlan[6 + e] = Planned("CODE", "AUTHORITY", TRUE)
     /\ record.authority = Proxy => /\ livePlan[7 + e] = Planned("SLOT", "AUTHORITY", TRUE)
                                    /\ livePlan[8 + e] = Planned("CODE", "AUTHORITY_IMPLEMENTATION", TRUE)
     /\ livePlan[7 + b] = Planned("HCU_STORAGE", "AUTHORITY", TRUE)
     /\ livePlan[8 + b] = Planned("EXECUTOR_GETTER", "AUTHORITY", TRUE)
     /\ livePlan[9 + b] = Planned("AUTHORITY_VERSION", "AUTHORITY", TRUE)
     /\ \A i \in 1 .. Len(G) : livePlan[9 + b + i] = Planned(G[i], "AUTHORITY", TRUE)
     /\ \A i \in 1 .. Len(C) : livePlan[9 + b + Len(G) + i] = Planned(C[i], "AUTHORITY", TRUE)
<1> DEFINE e == Extra(record.executor)
           a == Extra(record.authority)
           G == GettersUpTo(Len(LimitFields))
           C == SubjectsUpTo(Len(Callers))
           A1 == <<Planned("CHAIN_ID", "NONE", FALSE), Planned("PINNED_BLOCK", "NONE", FALSE),
                   Planned("CODE", "EXECUTOR", TRUE)>>
           A2 == OfProxy(record.executor, "SLOT", "CODE", "EXECUTOR", "EXECUTOR_IMPLEMENTATION")
           A3 == <<Planned("EXECUTOR_VERSION", "EXECUTOR", TRUE), Planned("AUTHORITY_GETTER", "EXECUTOR", TRUE),
                   Planned("CODE", "AUTHORITY", TRUE)>>
           A4 == OfProxy(record.authority, "SLOT", "CODE", "AUTHORITY", "AUTHORITY_IMPLEMENTATION")
           A5 == <<Planned("HCU_STORAGE", "AUTHORITY", TRUE), Planned("EXECUTOR_GETTER", "AUTHORITY", TRUE),
                   Planned("AUTHORITY_VERSION", "AUTHORITY", TRUE)>>
           S == {Planned("CHAIN_ID", "NONE", FALSE), Planned("PINNED_BLOCK", "NONE", FALSE),
                 Planned("CODE", "EXECUTOR", TRUE), Planned("SLOT", "EXECUTOR", TRUE),
                 Planned("CODE", "EXECUTOR_IMPLEMENTATION", TRUE), Planned("EXECUTOR_VERSION", "EXECUTOR", TRUE),
                 Planned("AUTHORITY_GETTER", "EXECUTOR", TRUE), Planned("CODE", "AUTHORITY", TRUE),
                 Planned("SLOT", "AUTHORITY", TRUE), Planned("CODE", "AUTHORITY_IMPLEMENTATION", TRUE),
                 Planned("HCU_STORAGE", "AUTHORITY", TRUE), Planned("EXECUTOR_GETTER", "AUTHORITY", TRUE),
                 Planned("AUTHORITY_VERSION", "AUTHORITY", TRUE)}
                \cup {Planned(G[i], "AUTHORITY", TRUE) : i \in 1 .. Len(G)}
                \cup {Planned(C[i], "AUTHORITY", TRUE) : i \in 1 .. Len(C)}
<1>1. G \in Seq(Limits) /\ C \in Seq(ToSet(Callers))
  <2>1. Len(LimitFields) \in 0 .. Len(LimitFields) BY LimitFieldNames
  <2>2. Len(Callers) \in 0 .. Len(Callers) BY CallerNames
  <2> QED BY <2>1, <2>2, LimitFieldNames, CallerNames, FilteredBegins DEF GettersUpTo, SubjectsUpTo
<1>2. livePlan = ((((((A1 \o A2) \o A3) \o A4) \o A5) \o PlannedCalls(G)) \o PlannedCalls(C))
  BY DEF livePlan, generateLiveCallPlan, GettersUpTo, SubjectsUpTo, PlannedCalls
<1>3. /\ A1 \in Seq(S) /\ Len(A1) = 3
      /\ A1[1] = Planned("CHAIN_ID", "NONE", FALSE) /\ A1[2] = Planned("PINNED_BLOCK", "NONE", FALSE)
      /\ A1[3] = Planned("CODE", "EXECUTOR", TRUE)
  BY Triple
<1>4. /\ A2 \in Seq(S) /\ Len(A2) = e /\ e \in {0, 2}
      /\ record.executor = Proxy => /\ A2[1] = Planned("SLOT", "EXECUTOR", TRUE)
                                    /\ A2[2] = Planned("CODE", "EXECUTOR_IMPLEMENTATION", TRUE)
                                    /\ e = 2
  <2>1. PICK x \in S : x = Planned("SLOT", "EXECUTOR", TRUE) OBVIOUS
  <2>2. PICK y \in S : y = Planned("CODE", "EXECUTOR_IMPLEMENTATION", TRUE) OBVIOUS
  <2>3. A2 = IF record.executor = Proxy THEN <<x, y>> ELSE <<>> BY <2>1, <2>2 DEF OfProxy
  <2> HIDE DEF S, A2
  <2>4. /\ A2 \in Seq(S) /\ Len(A2) = Extra(record.executor) /\ Extra(record.executor) \in {0, 2}
        /\ record.executor = Proxy => A2[1] = x /\ A2[2] = y /\ Extra(record.executor) = 2
    BY <2>3, ProxyCalls
  <2> QED BY <2>1, <2>2, <2>4
<1>5. /\ A3 \in Seq(S) /\ Len(A3) = 3
      /\ A3[1] = Planned("EXECUTOR_VERSION", "EXECUTOR", TRUE) /\ A3[2] = Planned("AUTHORITY_GETTER", "EXECUTOR", TRUE)
      /\ A3[3] = Planned("CODE", "AUTHORITY", TRUE)
  BY Triple
<1>6. /\ A4 \in Seq(S) /\ Len(A4) = a /\ a \in {0, 2}
      /\ record.authority = Proxy => /\ A4[1] = Planned("SLOT", "AUTHORITY", TRUE)
                                     /\ A4[2] = Planned("CODE", "AUTHORITY_IMPLEMENTATION", TRUE)
                                     /\ a = 2
  <2>1. PICK x \in S : x = Planned("SLOT", "AUTHORITY", TRUE) OBVIOUS
  <2>2. PICK y \in S : y = Planned("CODE", "AUTHORITY_IMPLEMENTATION", TRUE) OBVIOUS
  <2>3. A4 = IF record.authority = Proxy THEN <<x, y>> ELSE <<>> BY <2>1, <2>2 DEF OfProxy
  <2> HIDE DEF S, A4
  <2>4. /\ A4 \in Seq(S) /\ Len(A4) = Extra(record.authority) /\ Extra(record.authority) \in {0, 2}
        /\ record.authority = Proxy => A4[1] = x /\ A4[2] = y /\ Extra(record.authority) = 2
    BY <2>3, ProxyCalls
  <2> QED BY <2>1, <2>2, <2>4
<1>7. /\ A5 \in Seq(S) /\ Len(A5) = 3
      /\ A5[1] = Planned("HCU_STORAGE", "AUTHORITY", TRUE) /\ A5[2] = Planned("EXECUTOR_GETTER", "AUTHORITY", TRUE)
      /\ A5[3] = Planned("AUTHORITY_VERSION", "AUTHORITY", TRUE)
  BY Triple
<1>8. PICK A6 : /\ A6 = PlannedCalls(G) /\ A6 \in Seq(S) /\ Len(A6) = Len(G) /\ Len(G) \in Nat
                /\ \A i \in 1 .. Len(G) : A6[i] = Planned(G[i], "AUTHORITY", TRUE)
  <2> HIDE DEF G, C
  <2>1. \A i \in 1 .. Len(G) : Planned(G[i], "AUTHORITY", TRUE) \in S OBVIOUS
  <2> HIDE DEF S
  <2> QED BY <2>1, <1>1, CallsListed
<1>9. PICK A7 : /\ A7 = PlannedCalls(C) /\ A7 \in Seq(S) /\ Len(A7) = Len(C) /\ Len(C) \in Nat
                /\ \A i \in 1 .. Len(C) : A7[i] = Planned(C[i], "AUTHORITY", TRUE)
  <2> HIDE DEF G, C
  <2>1. \A i \in 1 .. Len(C) : Planned(C[i], "AUTHORITY", TRUE) \in S OBVIOUS
  <2> HIDE DEF S
  <2> QED BY <2>1, <1>1, CallsListed
<1> HIDE DEF A1, A2, A3, A4, A5, G, C, e, a, S
<1>0. 3 \in Nat /\ e \in Nat /\ a \in Nat BY <1>4, <1>6
<1>10. PICK k2 \in Nat : k2 = 3 + e BY <1>4
<1>11. PICK k3 \in Nat : k3 = k2 + 3 BY <1>10
<1>12. PICK k4 \in Nat : k4 = k3 + a BY <1>6, <1>11
<1>13. PICK k5 \in Nat : k5 = k4 + 3 BY <1>12
<1>14. PICK k6 \in Nat : k6 = k5 + Len(G) BY <1>8, <1>13
<1>15. PICK P2 : /\ P2 = A1 \o A2 /\ P2 \in Seq(S) /\ Len(P2) = 3 + e
                 /\ \A i \in 1 .. 3 : P2[i] = A1[i]
                 /\ \A i \in 1 .. e : P2[3 + i] = A2[i]
  <2>1. A1 \in Seq(S) /\ A2 \in Seq(S) /\ Len(A1) = 3 /\ Len(A2) = e BY <1>3, <1>4
  <2>0. A1 \in Seq(S) /\ A2 \in Seq(S) BY <2>1
  <2>2. A1 \o A2 \in Seq(S) /\ Len(A1 \o A2) = Len(A1) + Len(A2) BY <2>0
  <2>3. ASSUME NEW i \in 1 .. Len(A1) PROVE (A1 \o A2)[i] = A1[i] BY <2>0
  <2>4. ASSUME NEW i \in 1 .. Len(A2) PROVE (A1 \o A2)[Len(A1) + i] = A2[i] BY <2>0
  <2>5. Len(A1 \o A2) = 3 + e BY <2>1, <2>2, Zenon
  <2>6. \A i \in 1 .. 3 : (A1 \o A2)[i] = A1[i] BY <2>1, <2>3, Zenon
  <2>7. \A i \in 1 .. e : (A1 \o A2)[3 + i] = A2[i] BY <2>1, <2>4, Zenon
  <2> QED BY <2>2, <2>5, <2>6, <2>7, Zenon
<1>16. PICK P3 : /\ P3 = P2 \o A3 /\ P3 \in Seq(S) /\ Len(P3) = k2 + 3
                 /\ \A i \in 1 .. k2 : P3[i] = P2[i]
                 /\ \A i \in 1 .. 3 : P3[k2 + i] = A3[i]
  <2>1. P2 \in Seq(S) /\ A3 \in Seq(S) /\ Len(P2) = k2 /\ Len(A3) = 3 BY <1>15, <1>10, <1>5
  <2>0. P2 \in Seq(S) /\ A3 \in Seq(S) BY <2>1
  <2>2. P2 \o A3 \in Seq(S) /\ Len(P2 \o A3) = Len(P2) + Len(A3) BY <2>0
  <2>3. ASSUME NEW i \in 1 .. Len(P2) PROVE (P2 \o A3)[i] = P2[i] BY <2>0
  <2>4. ASSUME NEW i \in 1 .. Len(A3) PROVE (P2 \o A3)[Len(P2) + i] = A3[i] BY <2>0
  <2> QED BY <2>1, <2>2, <2>3, <2>4, Zenon
<1>17. PICK P4 : /\ P4 = P3 \o A4 /\ P4 \in Seq(S) /\ Len(P4) = k3 + a
                 /\ \A i \in 1 .. k3 : P4[i] = P3[i]
                 /\ \A i \in 1 .. a : P4[k3 + i] = A4[i]
  <2>1. P3 \in Seq(S) /\ A4 \in Seq(S) /\ Len(P3) = k3 /\ Len(A4) = a BY <1>16, <1>11, <1>6
  <2>0. P3 \in Seq(S) /\ A4 \in Seq(S) BY <2>1
  <2>2. P3 \o A4 \in Seq(S) /\ Len(P3 \o A4) = Len(P3) + Len(A4) BY <2>0
  <2>3. ASSUME NEW i \in 1 .. Len(P3) PROVE (P3 \o A4)[i] = P3[i] BY <2>0
  <2>4. ASSUME NEW i \in 1 .. Len(A4) PROVE (P3 \o A4)[Len(P3) + i] = A4[i] BY <2>0
  <2> QED BY <2>1, <2>2, <2>3, <2>4, Zenon
<1>18. PICK P5 : /\ P5 = P4 \o A5 /\ P5 \in Seq(S) /\ Len(P5) = k4 + 3
                 /\ \A i \in 1 .. k4 : P5[i] = P4[i]
                 /\ \A i \in 1 .. 3 : P5[k4 + i] = A5[i]
  <2>1. P4 \in Seq(S) /\ A5 \in Seq(S) /\ Len(P4) = k4 /\ Len(A5) = 3 BY <1>17, <1>12, <1>7
  <2>0. P4 \in Seq(S) /\ A5 \in Seq(S) BY <2>1
  <2>2. P4 \o A5 \in Seq(S) /\ Len(P4 \o A5) = Len(P4) + Len(A5) BY <2>0
  <2>3. ASSUME NEW i \in 1 .. Len(P4) PROVE (P4 \o A5)[i] = P4[i] BY <2>0
  <2>4. ASSUME NEW i \in 1 .. Len(A5) PROVE (P4 \o A5)[Len(P4) + i] = A5[i] BY <2>0
  <2> QED BY <2>1, <2>2, <2>3, <2>4, Zenon
<1>19. PICK P6 : /\ P6 = P5 \o A6 /\ P6 \in Seq(S) /\ Len(P6) = k5 + Len(G)
                 /\ \A i \in 1 .. k5 : P6[i] = P5[i]
                 /\ \A i \in 1 .. Len(G) : P6[k5 + i] = A6[i]
  <2>1. P5 \in Seq(S) /\ A6 \in Seq(S) /\ Len(P5) = k5 /\ Len(A6) = Len(G) BY <1>18, <1>13, <1>8
  <2>0. P5 \in Seq(S) /\ A6 \in Seq(S) BY <2>1
  <2>2. P5 \o A6 \in Seq(S) /\ Len(P5 \o A6) = Len(P5) + Len(A6) BY <2>0
  <2>3. ASSUME NEW i \in 1 .. Len(P5) PROVE (P5 \o A6)[i] = P5[i] BY <2>0
  <2>4. ASSUME NEW i \in 1 .. Len(A6) PROVE (P5 \o A6)[Len(P5) + i] = A6[i] BY <2>0
  <2> QED BY <2>1, <2>2, <2>3, <2>4, Zenon
<1>20. PICK P7 : /\ P7 = P6 \o A7 /\ P7 \in Seq(S) /\ Len(P7) = k6 + Len(C)
                 /\ \A i \in 1 .. k6 : P7[i] = P6[i]
                 /\ \A i \in 1 .. Len(C) : P7[k6 + i] = A7[i]
  <2>1. P6 \in Seq(S) /\ A7 \in Seq(S) /\ Len(P6) = k6 /\ Len(A7) = Len(C) BY <1>19, <1>14, <1>9
  <2>0. P6 \in Seq(S) /\ A7 \in Seq(S) BY <2>1
  <2>2. P6 \o A7 \in Seq(S) /\ Len(P6 \o A7) = Len(P6) + Len(A7) BY <2>0
  <2>3. ASSUME NEW i \in 1 .. Len(P6) PROVE (P6 \o A7)[i] = P6[i] BY <2>0
  <2>4. ASSUME NEW i \in 1 .. Len(A7) PROVE (P6 \o A7)[Len(P6) + i] = A7[i] BY <2>0
  <2> QED BY <2>1, <2>2, <2>3, <2>4, Zenon
<1>21. livePlan = P7 BY <1>2, <1>8, <1>9, <1>15, <1>16, <1>17, <1>18, <1>19, <1>20
<1>22. \A i \in 1 .. k5 : P7[i] = P5[i] BY <1>8, <1>14, <1>19, <1>20
<1>23. \A i \in 1 .. k4 : P7[i] = P4[i]
  <2>1. \A i \in 1 .. k4 : P5[i] = P4[i] BY <1>18, Zenon
  <2> QED BY <1>12, <1>13, <1>22, <2>1
<1>24. \A i \in 1 .. k3 : P7[i] = P3[i] BY <1>6, <1>12, <1>17, <1>23
<1>25. \A i \in 1 .. k2 : P7[i] = P2[i]
  <2>1. \A i \in 1 .. k2 : P3[i] = P2[i] BY <1>16, Zenon
  <2> QED BY <1>10, <1>11, <1>24, <2>1
<1>26. P7[1] = A1[1] /\ P7[2] = A1[2] /\ P7[3] = A1[3] BY <1>4, <1>10, <1>15, <1>25
<1>27. record.executor = Proxy => P7[4] = A2[1] /\ P7[5] = A2[2] BY <1>4, <1>10, <1>15, <1>25
<1>28. P7[k2 + 1] = A3[1] /\ P7[k2 + 2] = A3[2] /\ P7[k2 + 3] = A3[3]
  <2>1. \A i \in 1 .. 3 : P3[k2 + i] = A3[i] BY <1>16, Zenon
  <2>2. 1 \in 1 .. 3 /\ 2 \in 1 .. 3 /\ 3 \in 1 .. 3 OBVIOUS
  <2>3. P3[k2 + 1] = A3[1] /\ P3[k2 + 2] = A3[2] /\ P3[k2 + 3] = A3[3] BY <2>1, <2>2, Zenon
  <2>4. k2 + 1 \in 1 .. k3 /\ k2 + 2 \in 1 .. k3 /\ k2 + 3 \in 1 .. k3 BY <1>11
  <2> QED BY <2>3, <2>4, <1>24, Zenon
<1>29. record.authority = Proxy => P7[k3 + 1] = A4[1] /\ P7[k3 + 2] = A4[2]
  <2> SUFFICES ASSUME record.authority = Proxy PROVE P7[k3 + 1] = A4[1] /\ P7[k3 + 2] = A4[2] OBVIOUS
  <2>1. a = 2 /\ 1 \in 1 .. a /\ 2 \in 1 .. a BY <1>6
  <2>2. P4[k3 + 1] = A4[1] /\ P4[k3 + 2] = A4[2] BY <1>17, <2>1, Zenon
  <2>3. k3 + 1 \in 1 .. k4 /\ k3 + 2 \in 1 .. k4 BY <1>12, <2>1
  <2> QED BY <1>23, <2>2, <2>3, Zenon
<1>30. P7[k4 + 1] = A5[1] /\ P7[k4 + 2] = A5[2] /\ P7[k4 + 3] = A5[3]
  <2>1. \A i \in 1 .. 3 : P5[k4 + i] = A5[i] BY <1>18, Zenon
  <2>2. 1 \in 1 .. 3 /\ 2 \in 1 .. 3 /\ 3 \in 1 .. 3 OBVIOUS
  <2>3. P5[k4 + 1] = A5[1] /\ P5[k4 + 2] = A5[2] /\ P5[k4 + 3] = A5[3] BY <2>1, <2>2, Zenon
  <2>4. k4 + 1 \in 1 .. k5 /\ k4 + 2 \in 1 .. k5 /\ k4 + 3 \in 1 .. k5 BY <1>13
  <2> QED BY <2>3, <2>4, <1>22, Zenon
<1>31. \A i \in 1 .. Len(G) : P7[k5 + i] = Planned(G[i], "AUTHORITY", TRUE)
  <2>1. \A i \in 1 .. k6 : P7[i] = P6[i] BY <1>20, Zenon
  <2>2. \A i \in 1 .. Len(G) : P6[k5 + i] = Planned(G[i], "AUTHORITY", TRUE) BY <1>8, <1>19, Zenon
  <2>3. \A i \in 1 .. Len(G) : k5 + i \in 1 .. k6 BY <1>8, <1>13, <1>14
  <2> QED BY <2>1, <2>2, <2>3, Zenon
<1>32. \A i \in 1 .. Len(C) : P7[k6 + i] = Planned(C[i], "AUTHORITY", TRUE) BY <1>9, <1>20
<1>33. /\ k2 + 1 = 4 + e /\ k2 + 2 = 5 + e /\ k2 + 3 = 6 + e /\ k3 + 1 = 7 + e /\ k3 + 2 = 8 + e
       /\ k4 + 1 = 7 + (e + a) /\ k4 + 2 = 8 + (e + a) /\ k4 + 3 = 9 + (e + a)
       /\ k5 = 9 + (e + a) /\ k6 = 9 + (e + a) + Len(G)
  BY <1>4, <1>6, <1>8, <1>10, <1>11, <1>12, <1>13, <1>14
<1>34. \A i \in 1 .. Len(G) : P7[9 + (e + a) + i] = Planned(G[i], "AUTHORITY", TRUE) BY <1>31, <1>33
<1>35. \A i \in 1 .. Len(C) : P7[9 + (e + a) + Len(G) + i] = Planned(C[i], "AUTHORITY", TRUE) BY <1>32, <1>33
<1>36. Len(P7) = 9 + (e + a) + Len(G) + Len(C) BY <1>20, <1>33
<1>37. /\ P7[4 + e] = A3[1] /\ P7[5 + e] = A3[2] /\ P7[6 + e] = A3[3]
       /\ P7[7 + (e + a)] = A5[1] /\ P7[8 + (e + a)] = A5[2] /\ P7[9 + (e + a)] = A5[3]
       /\ record.authority = Proxy => P7[7 + e] = A4[1] /\ P7[8 + e] = A4[2]
  BY <1>28, <1>29, <1>30, <1>33
<1> QED BY <1>1, <1>3, <1>4, <1>5, <1>6, <1>7, <1>21, <1>26, <1>27, <1>34, <1>35, <1>36, <1>37 DEF e, a, G, C

-----------------------------------------------------------------------------
(* Steps of the verifier. *)

\* One more request in the log.
LEMMA OneMore ==
  ASSUME NEW s, NEW S, NEW x, s \in Seq(S), x \in S
  PROVE  LET t == Append(s, x)
         IN /\ t \in Seq(S) /\ Len(t) = Len(s) + 1 /\ Len(s) \in Nat
            /\ DOMAIN t = DOMAIN s \cup {Len(s) + 1}
            /\ DOMAIN s = 1 .. Len(s)
            /\ \A i \in DOMAIN s : t[i] = s[i]
            /\ t[Len(s) + 1] = x
<1>1. Append(s, x) \in Seq(S) /\ Len(Append(s, x)) = Len(s) + 1 /\ Len(s) \in Nat /\ DOMAIN s = 1 .. Len(s) OBVIOUS
<1>2. DOMAIN Append(s, x) = 1 .. (Len(s) + 1) OBVIOUS
<1>3. ASSUME NEW i \in DOMAIN s PROVE Append(s, x)[i] = s[i] OBVIOUS
<1>4. Append(s, x)[Len(s) + 1] = x OBVIOUS
<1>5. 1 .. (Len(s) + 1) = (1 .. Len(s)) \cup {Len(s) + 1} BY <1>1
<1> QED BY <1>1, <1>2, <1>3, <1>4, <1>5, Zenon

LEMMA LogGrows ==
  ASSUME HcuInv, NEW what \in Questions, NEW to \in Addresses, NEW a \in AnswerKinds,
         Answered(what, to, a), pc \in Asking, record' = record
  PROVE  /\ log' \in Seq(Request) /\ Len(log') = Len(log) + 1 /\ Len(log') <= Len(livePlan')
         /\ Len(log) \in Nat
         /\ DOMAIN log' = DOMAIN log \cup {Len(log) + 1}
         /\ \A i \in DOMAIN log : log'[i] = log[i]
         /\ log'[Len(log) + 1].what = what /\ log'[Len(log) + 1].to = to /\ log'[Len(log) + 1].answer = a
         /\ \A i \in DOMAIN log' : log'[i].what = livePlan'[i].what
<1> DEFINE x == [what |-> what, to |-> to, answer |-> a]
<1>1. log \in Seq(Request) /\ Len(log) <= Len(livePlan) /\ \A i \in DOMAIN log : log[i].what = livePlan[i].what
  BY DEF HcuInv, LogInv
<1>2. x \in Request BY DEF Request
<1>3. log' = Append(log, x) /\ cursor < Len(livePlan) /\ livePlan[cursor + 1].what = what
  BY DEF Answered, Enforced
<1>4. cursor = Len(log) BY DEF HcuInv, PlaceInv
<1>5. livePlan' = livePlan BY DEF livePlan
<1>6. Len(livePlan) \in Nat
  <2>1. Len(livePlan) = 9 + (Extra(record.executor) + Extra(record.authority))
           + Len(GettersUpTo(Len(LimitFields))) + Len(SubjectsUpTo(Len(Callers)))
        /\ GettersUpTo(Len(LimitFields)) \in Seq(Limits) /\ SubjectsUpTo(Len(Callers)) \in Seq(ToSet(Callers))
    BY PlanLayout
  <2>2. Len(GettersUpTo(Len(LimitFields))) \in Nat /\ Len(SubjectsUpTo(Len(Callers))) \in Nat BY <2>1
  <2>3. Extra(record.executor) \in Nat /\ Extra(record.authority) \in Nat BY DEF Extra
  <2> QED BY <2>1, <2>2, <2>3
<1>7. /\ log' \in Seq(Request) /\ Len(log') = Len(log) + 1 /\ Len(log) \in Nat
      /\ DOMAIN log' = DOMAIN log \cup {Len(log) + 1}
      /\ \A i \in DOMAIN log : log'[i] = log[i]
      /\ log'[Len(log) + 1] = x
  <2> HIDE DEF x
  <2> QED BY <1>1, <1>2, <1>3, OneMore
<1>8. x.what = what /\ x.to = to /\ x.answer = a OBVIOUS
<1> HIDE DEF x
<1>9. Len(log') <= Len(livePlan') BY <1>3, <1>4, <1>5, <1>6, <1>7
<1>10. log'[Len(log) + 1].what = livePlan[Len(log) + 1].what BY <1>3, <1>4, <1>7, <1>8
<1>11. ASSUME NEW i \in DOMAIN log' PROVE log'[i].what = livePlan'[i].what
  <2>1. CASE i \in DOMAIN log BY <2>1, <1>1, <1>5, <1>7
  <2>2. CASE i = Len(log) + 1 BY <2>2, <1>5, <1>10
  <2> QED BY <2>1, <2>2, <1>7
<1> QED BY <1>7, <1>8, <1>9, <1>11

\* A role whose code has been read, at the address that the deployment model says.
IdentifiedRole(role, implementation, model) ==
  \E j \in DOMAIN log : /\ log[j].what = "CODE" /\ log[j].answer \in {"bound", "equivalent"}
                        /\ log[j].to = IF model = Direct THEN roles'[role] ELSE roles'[implementation]

LEMMA NeverAskedGrows ==
  ASSUME UnverifiedNeverAsked, log \in Seq(Request), record' = record, NEW what,
         DOMAIN log' = DOMAIN log \cup {Len(log) + 1},
         \A i \in DOMAIN log : log'[i] = log[i],
         log'[Len(log) + 1].what = what,
         what \in ExecutorQuestions => IdentifiedRole("EXECUTOR", "EXECUTOR_IMPLEMENTATION", record.executor),
         what \in AuthorityQuestions => IdentifiedRole("AUTHORITY", "AUTHORITY_IMPLEMENTATION", record.authority),
         \/ NoneAsked(ExecutorQuestions)
         \/ roles'.EXECUTOR = roles.EXECUTOR /\ roles'.EXECUTOR_IMPLEMENTATION = roles.EXECUTOR_IMPLEMENTATION,
         \/ NoneAsked(AuthorityQuestions)
         \/ roles'.AUTHORITY = roles.AUTHORITY /\ roles'.AUTHORITY_IMPLEMENTATION = roles.AUTHORITY_IMPLEMENTATION
  PROVE  UnverifiedNeverAsked'
<1> DEFINE CodeRead(l, n, address) == \E j \in 1 .. (n - 1) : /\ l[j].what = "CODE" /\ l[j].answer \in {"bound", "equivalent"}
                                                          /\ l[j].to = address
           Of(r, model, role, implementation) == IF model = Direct THEN r[role] ELSE r[implementation]
<1>1. DOMAIN log = 1 .. Len(log) /\ Len(log) \in Nat OBVIOUS
<1>2. \A i \in DOMAIN log :
        /\ log[i].what \in ExecutorQuestions => CodeRead(log, i, Of(roles, record.executor, "EXECUTOR", "EXECUTOR_IMPLEMENTATION"))
        /\ log[i].what \in AuthorityQuestions => CodeRead(log, i, Of(roles, record.authority, "AUTHORITY", "AUTHORITY_IMPLEMENTATION"))
  BY DEF UnverifiedNeverAsked
<1>3. SUFFICES ASSUME NEW i \in DOMAIN log'
      PROVE  /\ log'[i].what \in ExecutorQuestions =>
                  CodeRead(log', i, Of(roles', record.executor, "EXECUTOR", "EXECUTOR_IMPLEMENTATION"))
             /\ log'[i].what \in AuthorityQuestions =>
                  CodeRead(log', i, Of(roles', record.authority, "AUTHORITY", "AUTHORITY_IMPLEMENTATION"))
  BY DEF UnverifiedNeverAsked
<1>4. ASSUME NEW k \in DOMAIN log', NEW address, CodeRead(log, k, address) PROVE CodeRead(log', k, address)
  <2>1. PICK j \in 1 .. (k - 1) : /\ log[j].what = "CODE" /\ log[j].answer \in {"bound", "equivalent"}
                                  /\ log[j].to = address
    BY <1>4
  <2>2. j \in DOMAIN log BY <1>1
  <2>3. log'[j] = log[j] BY <2>2
  <2> QED BY <2>1, <2>3
<1>5. CASE i \in DOMAIN log
  <2>1. log'[i] = log[i] BY <1>5
  <2>2. ASSUME log'[i].what \in ExecutorQuestions
        PROVE  CodeRead(log', i, Of(roles', record.executor, "EXECUTOR", "EXECUTOR_IMPLEMENTATION"))
    <3>1. ~NoneAsked(ExecutorQuestions) BY <1>5, <2>1, <2>2 DEF NoneAsked
    <3>2. Of(roles', record.executor, "EXECUTOR", "EXECUTOR_IMPLEMENTATION")
            = Of(roles, record.executor, "EXECUTOR", "EXECUTOR_IMPLEMENTATION") BY <3>1
    <3>3. CodeRead(log, i, Of(roles, record.executor, "EXECUTOR", "EXECUTOR_IMPLEMENTATION"))
      <4> HIDE DEF CodeRead, Of
      <4> QED BY <1>2, <1>5, <2>1, <2>2
    <3> HIDE DEF CodeRead, Of
    <3> QED BY <1>4, <3>2, <3>3
  <2>3. ASSUME log'[i].what \in AuthorityQuestions
        PROVE  CodeRead(log', i, Of(roles', record.authority, "AUTHORITY", "AUTHORITY_IMPLEMENTATION"))
    <3>1. ~NoneAsked(AuthorityQuestions) BY <1>5, <2>1, <2>3 DEF NoneAsked
    <3>2. Of(roles', record.authority, "AUTHORITY", "AUTHORITY_IMPLEMENTATION")
            = Of(roles, record.authority, "AUTHORITY", "AUTHORITY_IMPLEMENTATION") BY <3>1
    <3>3. CodeRead(log, i, Of(roles, record.authority, "AUTHORITY", "AUTHORITY_IMPLEMENTATION"))
      <4> HIDE DEF CodeRead, Of
      <4> QED BY <1>2, <1>5, <2>1, <2>3
    <3> HIDE DEF CodeRead, Of
    <3> QED BY <1>4, <3>2, <3>3
  <2> HIDE DEF CodeRead, Of
  <2> QED BY <2>2, <2>3
<1>6. CASE i = Len(log) + 1
  <2>1. 1 .. (i - 1) = DOMAIN log BY <1>1, <1>6
  <2>2. ASSUME log'[i].what \in ExecutorQuestions
        PROVE  CodeRead(log', i, Of(roles', record.executor, "EXECUTOR", "EXECUTOR_IMPLEMENTATION"))
    <3>1. what \in ExecutorQuestions BY <1>6, <2>2
    <3>2. CodeRead(log, i, Of(roles', record.executor, "EXECUTOR", "EXECUTOR_IMPLEMENTATION"))
      BY <2>1, <3>1 DEF IdentifiedRole
    <3> HIDE DEF CodeRead, Of
    <3> QED BY <1>4, <3>2
  <2>3. ASSUME log'[i].what \in AuthorityQuestions
        PROVE  CodeRead(log', i, Of(roles', record.authority, "AUTHORITY", "AUTHORITY_IMPLEMENTATION"))
    <3>1. what \in AuthorityQuestions BY <1>6, <2>3
    <3>2. CodeRead(log, i, Of(roles', record.authority, "AUTHORITY", "AUTHORITY_IMPLEMENTATION"))
      BY <2>1, <3>1 DEF IdentifiedRole
    <3> HIDE DEF CodeRead, Of
    <3> QED BY <1>4, <3>2
  <2> HIDE DEF CodeRead, Of
  <2> QED BY <2>2, <2>3
<1> QED BY <1>5, <1>6

\* What an answered question leaves true, given where it leads.
LEMMA AnswerStep ==
  ASSUME HcuInv, NEW what \in Questions, NEW to \in Addresses, NEW a \in AnswerKinds,
         Guarded(what, to), Answered(what, to, a), pc \in Asking, pc' \in Asking \cup {"conclude"},
         UNCHANGED <<readings, callers>>,
         failures \subseteq failures', blockers \subseteq blockers',
         a # "bound" => failures' \cup blockers' # {},
         DOMAIN results' = DOMAIN results, results'.coverage = results.coverage,
         RolesInv', PlaceInv', IdentityPlace',
         what \in ExecutorQuestions => IdentifiedRole("EXECUTOR", "EXECUTOR_IMPLEMENTATION", record.executor),
         what \in AuthorityQuestions => IdentifiedRole("AUTHORITY", "AUTHORITY_IMPLEMENTATION", record.authority),
         \/ NoneAsked(ExecutorQuestions)
         \/ roles'.EXECUTOR = roles.EXECUTOR /\ roles'.EXECUTOR_IMPLEMENTATION = roles.EXECUTOR_IMPLEMENTATION,
         \/ NoneAsked(AuthorityQuestions)
         \/ roles'.AUTHORITY = roles.AUTHORITY /\ roles'.AUTHORITY_IMPLEMENTATION = roles.AUTHORITY_IMPLEMENTATION
  PROVE  HcuInv'
<1>1. UNCHANGED <<repository, record, tools, mode, lineage, verdict>> /\ Enforced(what, to) /\ ~violated'
  BY DEF Guarded, Answered
<1>2. /\ log' \in Seq(Request) /\ Len(log') <= Len(livePlan')
      /\ DOMAIN log' = DOMAIN log \cup {Len(log) + 1}
      /\ \A i \in DOMAIN log : log'[i] = log[i]
      /\ log'[Len(log) + 1].what = what /\ log'[Len(log) + 1].answer = a
      /\ \A i \in DOMAIN log' : log'[i].what = livePlan'[i].what
  BY <1>1, LogGrows
<1>3. UnverifiedNeverAsked'
  <2>1. UnverifiedNeverAsked /\ log \in Seq(Request) BY DEF HcuInv, LogInv, IdentityInv
  <2> QED BY <1>1, <1>2, <2>1, NeverAskedGrows
<1>4. StartInv'
  <2>1. StartInv BY DEF HcuInv
  <2>2. pc \in Asking => lineage = "VERIFIED" BY <2>1 DEF StartInv
  <2> QED BY <1>1, <2>1, <2>2 DEF StartInv, Asking, Identifying, BeforeAuthority, BeforeExecutor
<1>5. LineageInv' BY <1>1 DEF HcuInv, LineageInv, ReviewedCommit
<1>6. LogInv'
  <2>1. readings \in Seq(LimitResults) /\ callers \in Seq(CallerResults) BY DEF HcuInv, LogInv
  <2> QED BY <1>1, <1>2, <2>1 DEF LogInv
<1>7. IdentityInv' BY <1>3 DEF IdentityInv
<1>8. NotedInv'
  <2>1. NotedInv BY DEF HcuInv
  <2>2. ASSUME failures' = {}, blockers' = {}, "EXEMPT" \notin ToSet(callers'), NEW i \in DOMAIN log'
        PROVE  log'[i].answer = "bound"
    <3>1. a = "bound" /\ failures = {} /\ blockers = {} /\ ToSet(callers) = ToSet(callers') BY <2>2
    <3>2. CASE i \in DOMAIN log BY <1>2, <2>1, <2>2, <3>1, <3>2 DEF NotedInv
    <3>3. CASE i = Len(log) + 1 BY <1>2, <3>1, <3>3
    <3> QED BY <1>2, <3>2, <3>3
  <2>3. failures' = {} => failures = {} OBVIOUS
  <2> QED BY <1>1, <2>1, <2>2, <2>3 DEF NotedInv
<1>9. VerdictInv'
  <2>1. verdict = "NONE"
    <3>1. pc # "done" BY DEF Asking, Identifying, BeforeAuthority, BeforeExecutor
    <3> QED BY <3>1 DEF HcuInv, VerdictInv
  <2> QED BY <1>1, <1>3, <2>1 DEF VerdictInv, PassMeansVerified, PlanFollowed
<1> QED BY <1>4, <1>5, <1>6, <1>7, <1>8, <1>9 DEF HcuInv

\* A role keeps being identified.
LEMMA StillIdentified ==
  ASSUME HcuInv, roles' = roles
  PROVE  /\ pc \in Asking \ BeforeExecutor => IdentifiedRole("EXECUTOR", "EXECUTOR_IMPLEMENTATION", record.executor)
         /\ pc \in Asking \ BeforeAuthority => IdentifiedRole("AUTHORITY", "AUTHORITY_IMPLEMENTATION", record.authority)
<1>1. IdentityPlace BY DEF HcuInv, IdentityInv
<1>2. roles.EXECUTOR = "executor" BY DEF HcuInv, RolesInv
<1>3. ASSUME pc \in Asking \ BeforeExecutor
      PROVE  IdentifiedRole("EXECUTOR", "EXECUTOR_IMPLEMENTATION", record.executor)
  <2>1. /\ IdentifiedAs("EXECUTOR_IMPLEMENTATION")
        /\ record.executor = Direct => roles["EXECUTOR_IMPLEMENTATION"] = roles["EXECUTOR"]
    BY <1>1, <1>2, <1>3 DEF IdentityPlace
  <2> QED BY <2>1 DEF IdentifiedAs, IdentifiedRole
<1>4. ASSUME pc \in Asking \ BeforeAuthority
      PROVE  IdentifiedRole("AUTHORITY", "AUTHORITY_IMPLEMENTATION", record.authority)
  <2>1. /\ IdentifiedAs("AUTHORITY_IMPLEMENTATION")
        /\ record.authority = Direct => roles["AUTHORITY_IMPLEMENTATION"] = roles["AUTHORITY"]
    BY <1>1, <1>4 DEF IdentityPlace
  <2> QED BY <2>1 DEF IdentifiedAs, IdentifiedRole
<1> QED BY <1>3, <1>4

\* A throw leaves a reason.
LEMMA StopNotes ==
  ASSUME NEW f, NEW b, Stop(f, b)
  PROVE  /\ pc' = "conclude" /\ failures \subseteq failures' /\ blockers \subseteq blockers'
         /\ failures' \cup blockers' # {} /\ f \subseteq failures'
BY DEF Stop, Continue

\* The run ends on an answer.
LEMMA StopStep ==
  ASSUME HcuInv, NEW what \in Questions, NEW to \in Addresses, NEW a \in AnswerKinds,
         Guarded(what, to), Answered(what, to, a), pc \in Asking,
         NEW f, NEW b, Stop(f, b), UNCHANGED <<roles, readings, callers>>,
         DOMAIN results' = DOMAIN results, results'.coverage = results.coverage,
         what \in ExecutorQuestions => pc \notin BeforeExecutor,
         what \in AuthorityQuestions => pc \notin BeforeAuthority
  PROVE  HcuInv'
<1>1. /\ pc' = "conclude" /\ failures \subseteq failures' /\ blockers \subseteq blockers'
      /\ failures' \cup blockers' # {}
  BY StopNotes
<1>2. RolesInv' BY <1>1 DEF HcuInv, RolesInv, BeforeExecutor
<1>3. PlaceInv' BY <1>1 DEF PlaceInv, Asking, Identifying, BeforeAuthority, BeforeExecutor
<1>4. IdentityPlace' BY <1>1 DEF IdentityPlace, Asking, Identifying, BeforeAuthority, BeforeExecutor
<1> QED BY <1>1, <1>2, <1>3, <1>4, AnswerStep, StillIdentified

\* The run ends without an answer.
LEMMA UnansweredStep ==
  ASSUME HcuInv, NEW what, NEW to, Guarded(what, to), Enforced(what, to), Unanswered, pc \in Asking
  PROVE  HcuInv'
<1>1. /\ UNCHANGED <<repository, record, tools, mode, lineage, verdict, log, roles, pinned, readings, callers, results>>
      /\ ~violated' /\ Stop({}, {})
  BY DEF Guarded, Unanswered
<1>2. /\ pc' = "conclude" /\ failures \subseteq failures' /\ blockers \subseteq blockers'
      /\ failures' \cup blockers' # {}
  BY <1>1, StopNotes
<1>3. RolesInv' BY <1>1, <1>2 DEF HcuInv, RolesInv, BeforeExecutor
<1>4. PlaceInv' BY <1>2 DEF PlaceInv, Asking, Identifying, BeforeAuthority, BeforeExecutor
<1>5. UnverifiedNeverAsked' BY <1>1 DEF HcuInv, IdentityInv, UnverifiedNeverAsked
<1>6. IdentityInv'
  <2>1. IdentityPlace' BY <1>2 DEF IdentityPlace, Asking, Identifying, BeforeAuthority, BeforeExecutor
  <2> QED BY <1>5, <2>1 DEF IdentityInv
<1>7. StartInv'
  <2>1. StartInv BY DEF HcuInv
  <2> QED BY <1>1, <1>2, <2>1 DEF StartInv, Asking, Identifying, BeforeAuthority, BeforeExecutor
<1>8. LineageInv' BY <1>1 DEF HcuInv, LineageInv, ReviewedCommit
<1>9. LogInv'
  <2>1. livePlan' = livePlan BY <1>1 DEF livePlan
  <2> QED BY <1>1, <2>1 DEF HcuInv, LogInv
<1>10. NotedInv'
  <2>1. NotedInv /\ (failures' = {} => failures = {}) /\ ~(failures' = {} /\ blockers' = {}) BY <1>2 DEF HcuInv
  <2> QED BY <1>1, <2>1 DEF NotedInv
<1>11. VerdictInv'
  <2>1. verdict = "NONE"
    <3>1. pc # "done" BY DEF Asking, Identifying, BeforeAuthority, BeforeExecutor
    <3> QED BY <3>1 DEF HcuInv, VerdictInv
  <2> QED BY <1>1, <1>5, <2>1 DEF VerdictInv, PassMeansVerified, PlanFollowed
<1> QED BY <1>3, <1>4, <1>6, <1>7, <1>8, <1>9, <1>10, <1>11 DEF HcuInv

\* At each place the question is the planned one.
LEMMA PlannedHere ==
  ASSUME HcuInv
  PROVE  /\ pc = "chain" => Enforced("CHAIN_ID", "none")
         /\ pc = "block" => Enforced("PINNED_BLOCK", "none")
         /\ pc = "executor" => Enforced("CODE", "executor")
         /\ pc = "executorSlot" => Enforced("SLOT", "executor")
         /\ pc = "executorCode" => Enforced("CODE", roles.EXECUTOR_IMPLEMENTATION)
         /\ pc = "executorVersion" => Enforced("EXECUTOR_VERSION", "executor")
         /\ pc = "authority" => Enforced("AUTHORITY_GETTER", "executor")
         /\ pc = "authorityCode" => Enforced("CODE", roles.AUTHORITY)
         /\ pc = "authoritySlot" => Enforced("SLOT", roles.AUTHORITY)
         /\ pc = "authorityImplementation" => Enforced("CODE", roles.AUTHORITY_IMPLEMENTATION)
         /\ pc = "storage" => Enforced("HCU_STORAGE", roles.AUTHORITY)
         /\ pc = "reciprocal" => Enforced("EXECUTOR_GETTER", roles.AUTHORITY)
         /\ pc = "authorityVersion" => Enforced("AUTHORITY_VERSION", roles.AUTHORITY)
<1> DEFINE e == Extra(record.executor)
           d == Extra(record.authority)
           G == GettersUpTo(Len(LimitFields))
           C == SubjectsUpTo(Len(Callers))
<1>1. /\ e \in {0, 2} /\ d \in {0, 2}
      /\ record.executor = Proxy => e = 2
      /\ record.authority = Proxy => d = 2
  BY DEF Extra
<1>2. Len(livePlan) = 9 + (e + d) + Len(G) + Len(C) /\ G \in Seq(Limits) /\ C \in Seq(ToSet(Callers)) BY PlanLayout
<1>3. PICK g \in Nat : g = Len(G) BY <1>2
<1>4. PICK c \in Nat : c = Len(C) BY <1>2
<1>5. /\ livePlan[1] = Planned("CHAIN_ID", "NONE", FALSE)
      /\ livePlan[2] = Planned("PINNED_BLOCK", "NONE", FALSE)
      /\ livePlan[3] = Planned("CODE", "EXECUTOR", TRUE)
      /\ record.executor = Proxy => /\ livePlan[4] = Planned("SLOT", "EXECUTOR", TRUE)
                                    /\ livePlan[5] = Planned("CODE", "EXECUTOR_IMPLEMENTATION", TRUE)
      /\ livePlan[4 + e] = Planned("EXECUTOR_VERSION", "EXECUTOR", TRUE)
      /\ livePlan[5 + e] = Planned("AUTHORITY_GETTER", "EXECUTOR", TRUE)
      /\ livePlan[6 + e] = Planned("CODE", "AUTHORITY", TRUE)
      /\ record.authority = Proxy => /\ livePlan[7 + e] = Planned("SLOT", "AUTHORITY", TRUE)
                                     /\ livePlan[8 + e] = Planned("CODE", "AUTHORITY_IMPLEMENTATION", TRUE)
      /\ livePlan[7 + (e + d)] = Planned("HCU_STORAGE", "AUTHORITY", TRUE)
      /\ livePlan[8 + (e + d)] = Planned("EXECUTOR_GETTER", "AUTHORITY", TRUE)
      /\ livePlan[9 + (e + d)] = Planned("AUTHORITY_VERSION", "AUTHORITY", TRUE)
  BY PlanLayout
<1>6. Len(livePlan) = 9 + (e + d) + g + c BY <1>2, <1>3, <1>4
<1>7. roles.NONE = "none" /\ roles.EXECUTOR = "executor" BY DEF HcuInv, RolesInv
<1>8. /\ pc \in Asking => cursor = Issued
      /\ pc \in Asking \ {"chain", "block"} => pinned
      /\ pc \in {"executorSlot", "executorCode"} => record.executor = Proxy
      /\ pc \in {"authoritySlot", "authorityImplementation"} => record.authority = Proxy
  BY DEF HcuInv, PlaceInv
<1>9. /\ pc = "chain" => cursor = 0
      /\ pc = "block" => cursor = 1
      /\ pc = "executor" => cursor = 2 /\ pinned
      /\ pc = "executorSlot" => cursor = 3 /\ pinned /\ record.executor = Proxy
      /\ pc = "executorCode" => cursor = 4 /\ pinned /\ record.executor = Proxy
      /\ pc = "executorVersion" => cursor = 3 + e /\ pinned
      /\ pc = "authority" => cursor = 4 + e /\ pinned
      /\ pc = "authorityCode" => cursor = 5 + e /\ pinned
      /\ pc = "authoritySlot" => cursor = 6 + e /\ pinned /\ record.authority = Proxy
      /\ pc = "authorityImplementation" => cursor = 7 + e /\ pinned /\ record.authority = Proxy
      /\ pc = "storage" => cursor = 6 + (e + d) /\ pinned
      /\ pc = "reciprocal" => cursor = 7 + (e + d) /\ pinned
      /\ pc = "authorityVersion" => cursor = 8 + (e + d) /\ pinned
  BY <1>8 DEF Issued, Asking, Identifying, BeforeAuthority, BeforeExecutor
<1> HIDE DEF e, d, G, C
<1>10. pc = "chain" => Enforced("CHAIN_ID", roles["NONE"])
  <2> SUFFICES ASSUME pc = "chain" PROVE Enforced("CHAIN_ID", roles["NONE"]) OBVIOUS
  <2>1. cursor = 0 BY <1>9
  <2>2. cursor + 1 = 1 /\ cursor < 9 + (e + d) + g + c BY <1>1, <1>3, <1>4, <1>9, <2>1
  <2>3. livePlan[cursor + 1] = Planned("CHAIN_ID", "NONE", FALSE) BY <1>5, <1>9, <2>2, Zenon
  <2> QED BY <1>6, <1>9, <2>2, <2>3 DEF Enforced, Planned
<1>11. pc = "block" => Enforced("PINNED_BLOCK", roles["NONE"])
  <2> SUFFICES ASSUME pc = "block" PROVE Enforced("PINNED_BLOCK", roles["NONE"]) OBVIOUS
  <2>1. cursor = 1 BY <1>9
  <2>2. cursor + 1 = 2 /\ cursor < 9 + (e + d) + g + c BY <1>1, <1>3, <1>4, <1>9, <2>1
  <2>3. livePlan[cursor + 1] = Planned("PINNED_BLOCK", "NONE", FALSE) BY <1>5, <1>9, <2>2, Zenon
  <2> QED BY <1>6, <1>9, <2>2, <2>3 DEF Enforced, Planned
<1>12. pc = "executor" => Enforced("CODE", roles["EXECUTOR"])
  <2> SUFFICES ASSUME pc = "executor" PROVE Enforced("CODE", roles["EXECUTOR"]) OBVIOUS
  <2>1. cursor = 2 BY <1>9
  <2>2. cursor + 1 = 3 /\ cursor < 9 + (e + d) + g + c BY <1>1, <1>3, <1>4, <1>9, <2>1
  <2>3. livePlan[cursor + 1] = Planned("CODE", "EXECUTOR", TRUE) BY <1>5, <1>9, <2>2, Zenon
  <2> QED BY <1>6, <1>9, <2>2, <2>3 DEF Enforced, Planned
<1>13. pc = "executorSlot" => Enforced("SLOT", roles["EXECUTOR"])
  <2> SUFFICES ASSUME pc = "executorSlot" PROVE Enforced("SLOT", roles["EXECUTOR"]) OBVIOUS
  <2>1. cursor = 3 BY <1>9
  <2>2. cursor + 1 = 4 /\ cursor < 9 + (e + d) + g + c BY <1>1, <1>3, <1>4, <1>9, <2>1
  <2>3. livePlan[cursor + 1] = Planned("SLOT", "EXECUTOR", TRUE) BY <1>5, <1>9, <2>2, Zenon
  <2> QED BY <1>6, <1>9, <2>2, <2>3 DEF Enforced, Planned
<1>14. pc = "executorCode" => Enforced("CODE", roles["EXECUTOR_IMPLEMENTATION"])
  <2> SUFFICES ASSUME pc = "executorCode" PROVE Enforced("CODE", roles["EXECUTOR_IMPLEMENTATION"]) OBVIOUS
  <2>1. cursor = 4 BY <1>9
  <2>2. cursor + 1 = 5 /\ cursor < 9 + (e + d) + g + c BY <1>1, <1>3, <1>4, <1>9, <2>1
  <2>3. livePlan[cursor + 1] = Planned("CODE", "EXECUTOR_IMPLEMENTATION", TRUE) BY <1>5, <1>9, <2>2, Zenon
  <2> QED BY <1>6, <1>9, <2>2, <2>3 DEF Enforced, Planned
<1>15. pc = "executorVersion" => Enforced("EXECUTOR_VERSION", roles["EXECUTOR"])
  <2> SUFFICES ASSUME pc = "executorVersion" PROVE Enforced("EXECUTOR_VERSION", roles["EXECUTOR"]) OBVIOUS
  <2>1. cursor = 3 + e BY <1>9
  <2>2. cursor + 1 = 4 + e /\ cursor < 9 + (e + d) + g + c BY <1>1, <1>3, <1>4, <1>9, <2>1
  <2>3. livePlan[cursor + 1] = Planned("EXECUTOR_VERSION", "EXECUTOR", TRUE) BY <1>5, <1>9, <2>2, Zenon
  <2> QED BY <1>6, <1>9, <2>2, <2>3 DEF Enforced, Planned
<1>16. pc = "authority" => Enforced("AUTHORITY_GETTER", roles["EXECUTOR"])
  <2> SUFFICES ASSUME pc = "authority" PROVE Enforced("AUTHORITY_GETTER", roles["EXECUTOR"]) OBVIOUS
  <2>1. cursor = 4 + e BY <1>9
  <2>2. cursor + 1 = 5 + e /\ cursor < 9 + (e + d) + g + c BY <1>1, <1>3, <1>4, <1>9, <2>1
  <2>3. livePlan[cursor + 1] = Planned("AUTHORITY_GETTER", "EXECUTOR", TRUE) BY <1>5, <1>9, <2>2, Zenon
  <2> QED BY <1>6, <1>9, <2>2, <2>3 DEF Enforced, Planned
<1>17. pc = "authorityCode" => Enforced("CODE", roles["AUTHORITY"])
  <2> SUFFICES ASSUME pc = "authorityCode" PROVE Enforced("CODE", roles["AUTHORITY"]) OBVIOUS
  <2>1. cursor = 5 + e BY <1>9
  <2>2. cursor + 1 = 6 + e /\ cursor < 9 + (e + d) + g + c BY <1>1, <1>3, <1>4, <1>9, <2>1
  <2>3. livePlan[cursor + 1] = Planned("CODE", "AUTHORITY", TRUE) BY <1>5, <1>9, <2>2, Zenon
  <2> QED BY <1>6, <1>9, <2>2, <2>3 DEF Enforced, Planned
<1>18. pc = "authoritySlot" => Enforced("SLOT", roles["AUTHORITY"])
  <2> SUFFICES ASSUME pc = "authoritySlot" PROVE Enforced("SLOT", roles["AUTHORITY"]) OBVIOUS
  <2>1. cursor = 6 + e BY <1>9
  <2>2. cursor + 1 = 7 + e /\ cursor < 9 + (e + d) + g + c BY <1>1, <1>3, <1>4, <1>9, <2>1
  <2>3. livePlan[cursor + 1] = Planned("SLOT", "AUTHORITY", TRUE) BY <1>5, <1>9, <2>2, Zenon
  <2> QED BY <1>6, <1>9, <2>2, <2>3 DEF Enforced, Planned
<1>19. pc = "authorityImplementation" => Enforced("CODE", roles["AUTHORITY_IMPLEMENTATION"])
  <2> SUFFICES ASSUME pc = "authorityImplementation" PROVE Enforced("CODE", roles["AUTHORITY_IMPLEMENTATION"]) OBVIOUS
  <2>1. cursor = 7 + e BY <1>9
  <2>2. cursor + 1 = 8 + e /\ cursor < 9 + (e + d) + g + c BY <1>1, <1>3, <1>4, <1>9, <2>1
  <2>3. livePlan[cursor + 1] = Planned("CODE", "AUTHORITY_IMPLEMENTATION", TRUE) BY <1>5, <1>9, <2>2, Zenon
  <2> QED BY <1>6, <1>9, <2>2, <2>3 DEF Enforced, Planned
<1>20. pc = "storage" => Enforced("HCU_STORAGE", roles["AUTHORITY"])
  <2> SUFFICES ASSUME pc = "storage" PROVE Enforced("HCU_STORAGE", roles["AUTHORITY"]) OBVIOUS
  <2>1. cursor = 6 + (e + d) BY <1>9
  <2>2. cursor + 1 = 7 + (e + d) /\ cursor < 9 + (e + d) + g + c BY <1>1, <1>3, <1>4, <1>9, <2>1
  <2>3. livePlan[cursor + 1] = Planned("HCU_STORAGE", "AUTHORITY", TRUE) BY <1>5, <1>9, <2>2, Zenon
  <2> QED BY <1>6, <1>9, <2>2, <2>3 DEF Enforced, Planned
<1>21. pc = "reciprocal" => Enforced("EXECUTOR_GETTER", roles["AUTHORITY"])
  <2> SUFFICES ASSUME pc = "reciprocal" PROVE Enforced("EXECUTOR_GETTER", roles["AUTHORITY"]) OBVIOUS
  <2>1. cursor = 7 + (e + d) BY <1>9
  <2>2. cursor + 1 = 8 + (e + d) /\ cursor < 9 + (e + d) + g + c BY <1>1, <1>3, <1>4, <1>9, <2>1
  <2>3. livePlan[cursor + 1] = Planned("EXECUTOR_GETTER", "AUTHORITY", TRUE) BY <1>5, <1>9, <2>2, Zenon
  <2> QED BY <1>6, <1>9, <2>2, <2>3 DEF Enforced, Planned
<1>22. pc = "authorityVersion" => Enforced("AUTHORITY_VERSION", roles["AUTHORITY"])
  <2> SUFFICES ASSUME pc = "authorityVersion" PROVE Enforced("AUTHORITY_VERSION", roles["AUTHORITY"]) OBVIOUS
  <2>1. cursor = 8 + (e + d) BY <1>9
  <2>2. cursor + 1 = 9 + (e + d) /\ cursor < 9 + (e + d) + g + c BY <1>1, <1>3, <1>4, <1>9, <2>1
  <2>3. livePlan[cursor + 1] = Planned("AUTHORITY_VERSION", "AUTHORITY", TRUE) BY <1>5, <1>9, <2>2, Zenon
  <2> QED BY <1>6, <1>9, <2>2, <2>3 DEF Enforced, Planned
<1> QED BY <1>7, <1>10, <1>11, <1>12, <1>13, <1>14, <1>15, <1>16, <1>17, <1>18, <1>19, <1>20, <1>21, <1>22

\* What the endpoint may answer to each question.
PlainQuestions == {"CHAIN_ID", "PINNED_BLOCK", "HCU_STORAGE", "EXECUTOR_GETTER", "AUTHORITY_VERSION"}
                    \cup ExecutorQuestions \cup ToSet(LimitFields)

LEMMA LimitFieldSet == ToSet(LimitFields) = Limits
<1>1. LimitFields \in Seq(Limits) /\ Len(LimitFields) = 3 BY LimitFieldNames
<1>2. DOMAIN LimitFields = 1 .. 3 BY <1>1
<1>3. ToSet(LimitFields) = {LimitFields[i] : i \in 1 .. 3} BY <1>2 DEF ToSet
<1>4. {LimitFields[i] : i \in 1 .. 3} = {LimitFields[1], LimitFields[2], LimitFields[3]}
  <2>1. 1 .. 3 = {1, 2, 3} OBVIOUS
  <2> QED BY <2>1
<1> QED BY <1>3, <1>4, LimitFieldNames DEF Limits, MandatoryLimits

LEMMA AnswersAre ==
  ASSUME NEW to
  PROVE  /\ \A what \in PlainQuestions : Answers(what, to) = {"bound", "other", "bad"}
         /\ Answers("SLOT", to) = {"bound", "other", "self", "bad"}
         /\ to # roles.AUTHORITY_IMPLEMENTATION => Answers("CODE", to) = {"bound", "other", "bad"}
         /\ Answers("CODE", roles.AUTHORITY_IMPLEMENTATION) = {"bound", "equivalent", "other", "bad"}
         /\ \A what \in ToSet(Callers) : Answers(what, to) = {"bound", "exempt", "other", "bad"}
<1>1. PlainQuestions \cap (ToSet(Callers) \cup {"CODE", "SLOT"}) = {} /\ ToSet(Callers) \cap {"CODE", "SLOT"} = {}
  BY AuthorityConfiguration, LimitFieldSet DEF PlainQuestions, ExecutorQuestions, Limits, MandatoryLimits
<1>2. ASSUME NEW what \in PlainQuestions PROVE Answers(what, to) = {"bound", "other", "bad"}
  BY <1>1 DEF Answers
<1>3. ASSUME NEW what \in ToSet(Callers) PROVE Answers(what, to) = {"bound", "exempt", "other", "bad"}
  BY <1>1 DEF Answers
<1>4. Answers("SLOT", to) = {"bound", "other", "self", "bad"} BY <1>1 DEF Answers
<1>5. to # roles.AUTHORITY_IMPLEMENTATION => Answers("CODE", to) = {"bound", "other", "bad"} BY <1>1 DEF Answers
<1>6. Answers("CODE", roles.AUTHORITY_IMPLEMENTATION) = {"bound", "equivalent", "other", "bad"} BY <1>1 DEF Answers
<1> QED BY <1>2, <1>3, <1>4, <1>5, <1>6

\* What an answer adds to what has been asked and identified.
LEMMA Grown ==
  ASSUME HcuInv, NEW what \in Questions, NEW to \in Addresses, NEW a \in AnswerKinds,
         Guarded(what, to), Answered(what, to, a), pc \in Asking
  PROVE  /\ UNCHANGED <<repository, record, tools, mode, lineage, verdict>>
         /\ cursor' = cursor + 1 /\ cursor' = Len(log') /\ cursor \in Nat
         /\ NoneAsked(ExecutorQuestions) /\ what \notin ExecutorQuestions => NoneAsked(ExecutorQuestions)'
         /\ NoneAsked(AuthorityQuestions) /\ what \notin AuthorityQuestions => NoneAsked(AuthorityQuestions)'
         /\ IdentifiedAs("EXECUTOR_IMPLEMENTATION") /\ roles'.EXECUTOR_IMPLEMENTATION = roles.EXECUTOR_IMPLEMENTATION
              => IdentifiedAs("EXECUTOR_IMPLEMENTATION")'
         /\ IdentifiedAs("AUTHORITY_IMPLEMENTATION") /\ roles'.AUTHORITY_IMPLEMENTATION = roles.AUTHORITY_IMPLEMENTATION
              => IdentifiedAs("AUTHORITY_IMPLEMENTATION")'
         /\ what = "CODE" /\ a \in {"bound", "equivalent"} /\ to = roles'.EXECUTOR_IMPLEMENTATION
              => IdentifiedAs("EXECUTOR_IMPLEMENTATION")'
         /\ what = "CODE" /\ a \in {"bound", "equivalent"} /\ to = roles'.AUTHORITY_IMPLEMENTATION
              => IdentifiedAs("AUTHORITY_IMPLEMENTATION")'
<1>1. UNCHANGED <<repository, record, tools, mode, lineage, verdict>> /\ cursor' = cursor + 1 BY DEF Guarded, Answered
<1>2. /\ Len(log') = Len(log) + 1 /\ Len(log) \in Nat
      /\ DOMAIN log' = DOMAIN log \cup {Len(log) + 1}
      /\ \A i \in DOMAIN log : log'[i] = log[i]
      /\ log'[Len(log) + 1].what = what /\ log'[Len(log) + 1].to = to /\ log'[Len(log) + 1].answer = a
  BY <1>1, LogGrows
<1>3. cursor = Len(log) BY DEF HcuInv, PlaceInv
<1>4. ASSUME NEW Q, NoneAsked(Q), what \notin Q PROVE \A i \in DOMAIN log' : log'[i].what \notin Q
  BY <1>2, <1>4 DEF NoneAsked
<1>5. ASSUME NEW role, IdentifiedAs(role), roles'[role] = roles[role]
      PROVE  \E j \in DOMAIN log' : /\ log'[j].what = "CODE" /\ log'[j].answer \in {"bound", "equivalent"}
                                     /\ log'[j].to = roles'[role]
  <2>1. PICK j \in DOMAIN log : /\ log[j].what = "CODE" /\ log[j].answer \in {"bound", "equivalent"}
                                /\ log[j].to = roles[role]
    BY <1>5 DEF IdentifiedAs
  <2>2. j \in DOMAIN log' /\ log'[j] = log[j] BY <1>2
  <2> QED BY <1>5, <2>1, <2>2
<1>6. ASSUME NEW role, what = "CODE", a \in {"bound", "equivalent"}, to = roles'[role]
      PROVE  \E j \in DOMAIN log' : /\ log'[j].what = "CODE" /\ log'[j].answer \in {"bound", "equivalent"}
                                     /\ log'[j].to = roles'[role]
  <2>1. Len(log) + 1 \in DOMAIN log' BY <1>2
  <2> QED BY <1>2, <1>6, <2>1
<1>7. /\ NoneAsked(ExecutorQuestions) /\ what \notin ExecutorQuestions => NoneAsked(ExecutorQuestions)'
      /\ NoneAsked(AuthorityQuestions) /\ what \notin AuthorityQuestions => NoneAsked(AuthorityQuestions)'
  BY <1>4 DEF NoneAsked, ExecutorQuestions, AuthorityQuestions
<1>8. IdentifiedAs("EXECUTOR_IMPLEMENTATION") /\ roles'.EXECUTOR_IMPLEMENTATION = roles.EXECUTOR_IMPLEMENTATION
        => IdentifiedAs("EXECUTOR_IMPLEMENTATION")'
  BY <1>5 DEF IdentifiedAs
<1>9. IdentifiedAs("AUTHORITY_IMPLEMENTATION") /\ roles'.AUTHORITY_IMPLEMENTATION = roles.AUTHORITY_IMPLEMENTATION
        => IdentifiedAs("AUTHORITY_IMPLEMENTATION")'
  BY <1>5 DEF IdentifiedAs
<1>10. what = "CODE" /\ a \in {"bound", "equivalent"} /\ to = roles'.EXECUTOR_IMPLEMENTATION
        => IdentifiedAs("EXECUTOR_IMPLEMENTATION")'
  BY <1>6 DEF IdentifiedAs
<1>11. what = "CODE" /\ a \in {"bound", "equivalent"} /\ to = roles'.AUTHORITY_IMPLEMENTATION
        => IdentifiedAs("AUTHORITY_IMPLEMENTATION")'
  BY <1>6 DEF IdentifiedAs
<1> QED BY <1>1, <1>2, <1>3, <1>7, <1>8, <1>9, <1>10, <1>11

-----------------------------------------------------------------------------
(* The chain of contracts. *)

LEMMA ChainIdentityKeeps ==
  ASSUME HcuInv, ChainIdentity
  PROVE  HcuInv'
<1>1. /\ pc = "chain" /\ pc \in Asking /\ Guarded("CHAIN_ID", "none") /\ Enforced("CHAIN_ID", "none")
      /\ "CHAIN_ID" \in Questions /\ "none" \in Addresses /\ "CHAIN_ID" \notin ExecutorQuestions \cup AuthorityQuestions
  BY PlannedHere, LimitFieldSet, AuthorityConfiguration
  DEF ChainIdentity, Asking, Identifying, BeforeAuthority, BeforeExecutor, Questions, Addresses, ExecutorQuestions,
      AuthorityQuestions, Limits, MandatoryLimits
<1>2. CASE Unanswered BY <1>1, <1>2, UnansweredStep
<1>3. ASSUME NEW a \in Answers("CHAIN_ID", "none"), Answered("CHAIN_ID", "none", a),
             \/ a = "bound" /\ Continue("block", {}, {})
             \/ a # "bound" /\ Stop({"CHAIN_ID_MISMATCH"}, {})
             \/ a = "bad" /\ Stop({}, {}),
             UNCHANGED <<roles, pinned, readings, callers, results>>
      PROVE  HcuInv'
  <2>1. a \in AnswerKinds BY AnswersAre DEF PlainQuestions, AnswerKinds
  <2>2. CASE Stop({"CHAIN_ID_MISMATCH"}, {}) \/ Stop({}, {}) BY <1>1, <1>3, <2>1, <2>2, StopStep
  <2>3. CASE a = "bound" /\ Continue("block", {}, {})
    <3>1. pc' = "block" /\ failures \subseteq failures' /\ blockers \subseteq blockers' BY <2>3 DEF Continue
    <3>2. /\ record' = record /\ cursor' = cursor + 1 /\ cursor' = Len(log')
          /\ NoneAsked(ExecutorQuestions) => NoneAsked(ExecutorQuestions)'
          /\ NoneAsked(AuthorityQuestions) => NoneAsked(AuthorityQuestions)'
      BY <1>1, <1>3, <2>1, Grown
    <3>3. RolesInv' BY <1>1, <1>3, <3>1 DEF HcuInv, RolesInv, BeforeExecutor
    <3>4. PlaceInv' BY <1>1, <1>3, <3>1, <3>2 DEF HcuInv, PlaceInv, Issued, Asking, Identifying, BeforeAuthority, BeforeExecutor
    <3>5. IdentityPlace'
      BY <1>1, <3>1, <3>2 DEF HcuInv, IdentityInv, IdentityPlace, Asking, Identifying, BeforeAuthority, BeforeExecutor
    <3>6. pc' \in Asking BY <3>1 DEF Asking, Identifying, BeforeAuthority, BeforeExecutor
    <3> QED BY <1>1, <1>3, <2>1, <2>3, <3>1, <3>3, <3>4, <3>5, <3>6, AnswerStep
  <2> QED BY <1>3, <2>2, <2>3
<1> QED BY <1>2, <1>3 DEF ChainIdentity

LEMMA QuestionNames ==
  /\ {"CHAIN_ID", "PINNED_BLOCK", "CODE", "SLOT"} \subseteq Questions
  /\ ExecutorQuestions \subseteq Questions /\ AuthorityQuestions \subseteq Questions
  /\ {"CHAIN_ID", "PINNED_BLOCK", "CODE", "SLOT"} \cap (ExecutorQuestions \cup AuthorityQuestions) = {}
  /\ ExecutorQuestions \cap AuthorityQuestions = {}
  /\ {"EXECUTOR_VERSION", "AUTHORITY_GETTER"} \subseteq ExecutorQuestions
  /\ {"HCU_STORAGE", "EXECUTOR_GETTER", "AUTHORITY_VERSION"} \subseteq AuthorityQuestions
  /\ Limits \subseteq AuthorityQuestions /\ ToSet(Callers) \subseteq AuthorityQuestions
BY LimitFieldSet, AuthorityConfiguration
DEF Questions, ExecutorQuestions, AuthorityQuestions, Limits, MandatoryLimits

LEMMA RoleAddresses ==
  ASSUME HcuInv
  PROVE  /\ roles.NONE \in Addresses /\ roles.EXECUTOR \in Addresses /\ roles.EXECUTOR_IMPLEMENTATION \in Addresses
         /\ roles.AUTHORITY \in Addresses /\ roles.AUTHORITY_IMPLEMENTATION \in Addresses
         /\ "none" \in Addresses /\ "executor" \in Addresses
         /\ DOMAIN roles = RoleNames
         /\ roles.EXECUTOR = "executor"
BY DEF HcuInv, RolesInv, RoleNames, Addresses

LEMMA ResultKeeps ==
  ASSUME HcuInv, NEW field, field # "coverage", NEW value, Result(field, value)
  PROVE  DOMAIN results' = DOMAIN results /\ results'.coverage = results.coverage
<1>1. DOMAIN results = DOMAIN NoResults BY DEF HcuInv, NotedInv
<1>2. "coverage" \in DOMAIN results BY <1>1 DEF NoResults
<1> QED BY <1>2 DEF Result

\* The run ends on an answer that resolved a role.
LEMMA StopResolved ==
  ASSUME HcuInv, NEW what \in Questions, NEW to \in Addresses, NEW a \in AnswerKinds,
         Guarded(what, to), Answered(what, to, a), pc \in Asking,
         NEW f, NEW b, Stop(f, b), UNCHANGED <<readings, callers>>,
         DOMAIN results' = DOMAIN results, results'.coverage = results.coverage,
         what \notin ExecutorQuestions \cup AuthorityQuestions, RolesInv',
         \/ NoneAsked(ExecutorQuestions)
         \/ roles'.EXECUTOR = roles.EXECUTOR /\ roles'.EXECUTOR_IMPLEMENTATION = roles.EXECUTOR_IMPLEMENTATION,
         NoneAsked(AuthorityQuestions)
  PROVE  HcuInv'
<1>1. /\ pc' = "conclude" /\ failures \subseteq failures' /\ blockers \subseteq blockers'
      /\ failures' \cup blockers' # {}
  BY StopNotes
<1>3. PlaceInv' BY <1>1 DEF PlaceInv, Asking, Identifying, BeforeAuthority, BeforeExecutor
<1>4. IdentityPlace' BY <1>1 DEF IdentityPlace, Asking, Identifying, BeforeAuthority, BeforeExecutor
<1> QED BY <1>1, <1>3, <1>4, AnswerStep

LEMMA PinnedBlockKeeps ==
  ASSUME HcuInv, PinnedBlock
  PROVE  HcuInv'
<1>1. /\ pc = "block" /\ pc \in Asking /\ Guarded("PINNED_BLOCK", "none") /\ Enforced("PINNED_BLOCK", "none")
      /\ "PINNED_BLOCK" \in Questions /\ "none" \in Addresses
      /\ "PINNED_BLOCK" \notin ExecutorQuestions \cup AuthorityQuestions
  BY PlannedHere, QuestionNames, RoleAddresses DEF PinnedBlock, Asking, Identifying, BeforeAuthority, BeforeExecutor
<1>2. CASE Unanswered BY <1>1, <1>2, UnansweredStep
<1>3. ASSUME NEW a \in Answers("PINNED_BLOCK", "none"), Answered("PINNED_BLOCK", "none", a),
             CASE a = "bound" -> Continue("executor", {}, {})
               [] a = "other" -> Stop({"BOUND_SNAPSHOT_HEADER_MISMATCH"}, {})
               [] a = "bad" -> Stop({}, {"BOUND_SNAPSHOT_BLOCK_NOT_AVAILABLE"}),
             pinned' = (a = "bound"),
             UNCHANGED <<roles, readings, callers, results>>
      PROVE  HcuInv'
  <2>1. a \in {"bound", "other", "bad"} /\ a \in AnswerKinds BY AnswersAre DEF PlainQuestions, AnswerKinds
  <2>2. CASE a # "bound"
    <3>1. \E f, b : Stop(f, b) BY <1>3, <2>1, <2>2
    <3> QED BY <1>1, <1>3, <2>1, <3>1, StopStep
  <2>3. CASE a = "bound"
    <3>0. Continue("executor", {}, {}) /\ pinned' BY <1>3, <2>3
    <3>1. pc' = "executor" /\ failures \subseteq failures' /\ blockers \subseteq blockers' BY <3>0 DEF Continue
    <3>2. /\ record' = record /\ cursor' = cursor + 1 /\ cursor' = Len(log')
          /\ NoneAsked(ExecutorQuestions) => NoneAsked(ExecutorQuestions)'
          /\ NoneAsked(AuthorityQuestions) => NoneAsked(AuthorityQuestions)'
      BY <1>1, <1>3, <2>1, Grown
    <3>3. RolesInv' BY <1>1, <1>3, <3>1 DEF HcuInv, RolesInv, BeforeExecutor
    <3>4. PlaceInv' BY <1>1, <1>3, <3>0, <3>1, <3>2 DEF HcuInv, PlaceInv, Issued, Asking, Identifying, BeforeAuthority, BeforeExecutor
    <3>5. IdentityPlace'
      BY <1>1, <3>1, <3>2 DEF HcuInv, IdentityInv, IdentityPlace, Asking, Identifying, BeforeAuthority, BeforeExecutor
    <3>6. pc' \in Asking BY <3>1 DEF Asking, Identifying, BeforeAuthority, BeforeExecutor
    <3> QED BY <1>1, <1>3, <2>1, <2>3, <3>1, <3>3, <3>4, <3>5, <3>6, AnswerStep
  <2> QED BY <2>2, <2>3
<1> QED BY <1>2, <1>3 DEF PinnedBlock

\* The executor's implementation has been read.
LEMMA ExecutorIdentityKeeps ==
  ASSUME HcuInv, pc \in {"executor", "executorCode"}, NEW to \in Addresses, NEW a \in {"bound", "other", "bad"}, NEW noted,
         Guarded("CODE", to), Answered("CODE", to, a), ExecutorIdentity(a, noted),
         UNCHANGED <<pinned, readings, callers>>,
         roles' \in [RoleNames -> Addresses], roles'.EXECUTOR_IMPLEMENTATION = to, to # "elsewhere",
         roles'.NONE = roles.NONE, roles'.EXECUTOR = roles.EXECUTOR, roles'.AUTHORITY = roles.AUTHORITY,
         roles'.AUTHORITY_IMPLEMENTATION = roles.AUTHORITY_IMPLEMENTATION,
         record.executor = Direct => to = "executor",
         pc = "executor" => record.executor = Direct
  PROVE  HcuInv'
<1>1. pc \in Asking /\ "CODE" \in Questions /\ "CODE" \notin ExecutorQuestions \cup AuthorityQuestions /\ a \in AnswerKinds
  BY QuestionNames DEF Asking, Identifying, BeforeAuthority, BeforeExecutor, AnswerKinds
<1>2. NoneAsked(ExecutorQuestions) /\ NoneAsked(AuthorityQuestions)
  BY DEF HcuInv, IdentityInv, IdentityPlace, BeforeAuthority, BeforeExecutor
<1>3. CASE \E f, b : Stop(f, b)
  <2>1. PICK f, b : Stop(f, b) BY <1>3
  <2>2. pc' = "conclude" BY <2>1, StopNotes
  <2>3. RolesInv' BY <2>2 DEF HcuInv, RolesInv, BeforeExecutor
  <2>4. DOMAIN results' = DOMAIN results /\ results'.coverage = results.coverage
    <3>1. UNCHANGED results \/ \E value : Result("executorImplementation", value) BY DEF ExecutorIdentity
    <3> QED BY <3>1, ResultKeeps
  <2> QED BY <1>1, <1>2, <2>1, <2>3, <2>4, StopResolved
<1>4. CASE ~\E f, b : Stop(f, b)
  <2>1. /\ a = "bound" /\ Result("executorImplementation", "VERIFIED")
        /\ \E f : Continue("executorVersion", f, {})
    BY <1>4 DEF ExecutorIdentity
  <2>2. pc' = "executorVersion" /\ failures \subseteq failures' /\ blockers \subseteq blockers' BY <2>1 DEF Continue
  <2>3. DOMAIN results' = DOMAIN results /\ results'.coverage = results.coverage BY <2>1, ResultKeeps
  <2>4. /\ record' = record /\ cursor' = cursor + 1 /\ cursor' = Len(log')
        /\ NoneAsked(AuthorityQuestions)'
        /\ IdentifiedAs("EXECUTOR_IMPLEMENTATION")'
    BY <1>1, <1>2, <2>1, Grown
  <2>5. RolesInv' BY <2>2 DEF HcuInv, RolesInv, BeforeExecutor
  <2>6. PlaceInv'
    <3>1. Extra(record.executor) = IF pc = "executor" THEN 0 ELSE 2
      BY DEF Extra, HcuInv, PlaceInv, Proxy, Direct
    <3>2. Issued' = 3 + Extra(record.executor) /\ cursor = (IF pc = "executor" THEN 2 ELSE 4) /\ pinned
      BY <1>1, <2>2, <2>4 DEF Issued, HcuInv, PlaceInv, Asking, Identifying, BeforeAuthority, BeforeExecutor
    <3>3. readings = <<>> /\ callers = <<>> BY DEF HcuInv, PlaceInv, Identifying, BeforeAuthority, BeforeExecutor
    <3> QED BY <2>2, <2>4, <3>1, <3>2, <3>3 DEF PlaceInv, Asking, Identifying, BeforeAuthority, BeforeExecutor
  <2>7. IdentityPlace' BY <2>2, <2>4 DEF IdentityPlace, Asking, Identifying, BeforeAuthority, BeforeExecutor
  <2>8. pc' \in Asking BY <2>2 DEF Asking, Identifying, BeforeAuthority, BeforeExecutor
  <2> QED BY <1>1, <1>2, <2>1, <2>2, <2>3, <2>5, <2>6, <2>7, <2>8, AnswerStep
<1> QED BY <1>3, <1>4

LEMMA ExecutorShellKeeps ==
  ASSUME HcuInv, ExecutorShell
  PROVE  HcuInv'
<1>1. /\ pc = "executor" /\ pc \in Asking /\ Guarded("CODE", "executor") /\ Enforced("CODE", "executor")
      /\ "CODE" \in Questions /\ "executor" \in Addresses
      /\ "CODE" \notin ExecutorQuestions \cup AuthorityQuestions
  BY PlannedHere, QuestionNames, RoleAddresses DEF ExecutorShell, Asking, Identifying, BeforeAuthority, BeforeExecutor
<1>2. CASE Unanswered BY <1>1, <1>2, UnansweredStep
<1>3. ASSUME NEW a \in Answers("CODE", "executor"), NEW noted, Answered("CODE", "executor", a),
             CASE a = "bad" -> Stop({"EXECUTOR_HAS_NO_CODE"}, {}) /\ UNCHANGED <<roles, results>>
               [] a # "bad" /\ record.executor = Direct ->
                    /\ Resolve("EXECUTOR_IMPLEMENTATION", "executor")
                    /\ ExecutorIdentity(a, noted)
               [] a = "other" /\ record.executor = Proxy ->
                    /\ Stop(noted \cup {"EXECUTOR_PROXY_CODE_IDENTITY_MISMATCH"}, {})
                    /\ Result("executorProxy", "MISMATCH") /\ UNCHANGED roles
               [] a = "bound" /\ record.executor = Proxy ->
                    /\ Continue("executorSlot", {}, {})
                    /\ Result("executorProxy", "VERIFIED") /\ UNCHANGED roles,
             UNCHANGED <<pinned, readings, callers>>
      PROVE  HcuInv'
  <2>0. roles.AUTHORITY_IMPLEMENTATION = "unresolved" BY <1>1 DEF HcuInv, RolesInv, BeforeExecutor
  <2>1. a \in {"bound", "other", "bad"} /\ a \in AnswerKinds BY <2>0, AnswersAre DEF AnswerKinds
  <2>2. record.executor \in {Proxy, Direct} /\ Proxy # Direct BY DEF HcuInv, StartInv, Proxy, Direct
  <2>3. CASE a = "bad"
    <3>1. Stop({"EXECUTOR_HAS_NO_CODE"}, {}) /\ UNCHANGED <<roles, results>> BY <1>3, <2>3
    <3> QED BY <1>1, <1>3, <2>1, <3>1, StopStep
  <2>4. CASE a # "bad" /\ record.executor = Direct
    <3>1. Resolve("EXECUTOR_IMPLEMENTATION", "executor") /\ ExecutorIdentity(a, noted) BY <1>3, <2>2, <2>4
    <3>2. roles \in [RoleNames -> Addresses] BY DEF HcuInv, RolesInv
    <3>3. /\ roles' \in [RoleNames -> Addresses] /\ roles'.EXECUTOR_IMPLEMENTATION = "executor"
          /\ roles'.NONE = roles.NONE /\ roles'.EXECUTOR = roles.EXECUTOR /\ roles'.AUTHORITY = roles.AUTHORITY
          /\ roles'.AUTHORITY_IMPLEMENTATION = roles.AUTHORITY_IMPLEMENTATION
      BY <1>1, <3>1, <3>2 DEF Resolve, RoleNames
    <3> QED BY <1>1, <1>3, <2>1, <2>4, <3>1, <3>3, ExecutorIdentityKeeps
  <2>5. CASE a = "other" /\ record.executor = Proxy
    <3>1. Stop(noted \cup {"EXECUTOR_PROXY_CODE_IDENTITY_MISMATCH"}, {}) /\ Result("executorProxy", "MISMATCH") /\ UNCHANGED roles
      BY <1>3, <2>2, <2>5
    <3>2. DOMAIN results' = DOMAIN results /\ results'.coverage = results.coverage BY <3>1, ResultKeeps
    <3> QED BY <1>1, <1>3, <2>1, <3>1, <3>2, StopStep
  <2>6. CASE a = "bound" /\ record.executor = Proxy
    <3>0. Continue("executorSlot", {}, {}) /\ Result("executorProxy", "VERIFIED") /\ UNCHANGED roles BY <1>3, <2>2, <2>6
    <3>1. pc' = "executorSlot" /\ failures \subseteq failures' /\ blockers \subseteq blockers' BY <3>0 DEF Continue
    <3>2. /\ record' = record /\ cursor' = cursor + 1 /\ cursor' = Len(log')
          /\ NoneAsked(ExecutorQuestions) => NoneAsked(ExecutorQuestions)'
          /\ NoneAsked(AuthorityQuestions) => NoneAsked(AuthorityQuestions)'
      BY <1>1, <1>3, <2>1, Grown
    <3>3. RolesInv' BY <1>1, <3>0, <3>1 DEF HcuInv, RolesInv, BeforeExecutor
    <3>4. PlaceInv' BY <1>1, <1>3, <2>6, <3>1, <3>2 DEF HcuInv, PlaceInv, Issued, Asking, Identifying, BeforeAuthority, BeforeExecutor
    <3>5. IdentityPlace'
      BY <1>1, <3>1, <3>2 DEF HcuInv, IdentityInv, IdentityPlace, Asking, Identifying, BeforeAuthority, BeforeExecutor
    <3>6. pc' \in Asking BY <3>1 DEF Asking, Identifying, BeforeAuthority, BeforeExecutor
    <3>7. DOMAIN results' = DOMAIN results /\ results'.coverage = results.coverage BY <3>0, ResultKeeps
    <3> QED BY <1>1, <1>3, <2>1, <2>6, <3>0, <3>1, <3>3, <3>4, <3>5, <3>6, <3>7, AnswerStep
  <2> QED BY <2>1, <2>2, <2>3, <2>4, <2>5, <2>6
<1> QED BY <1>2, <1>3 DEF ExecutorShell

LEMMA ExecutorSlotKeeps ==
  ASSUME HcuInv, ExecutorSlot
  PROVE  HcuInv'
<1>1. /\ pc = "executorSlot" /\ pc \in Asking /\ Guarded("SLOT", "executor") /\ Enforced("SLOT", "executor")
      /\ "SLOT" \in Questions /\ "executor" \in Addresses
      /\ "SLOT" \notin ExecutorQuestions \cup AuthorityQuestions
  BY PlannedHere, QuestionNames, RoleAddresses DEF ExecutorSlot, Asking, Identifying, BeforeAuthority, BeforeExecutor
<1>2. CASE Unanswered BY <1>1, <1>2, UnansweredStep
<1>3. ASSUME NEW a \in Answers("SLOT", "executor"), Answered("SLOT", "executor", a),
             UNCHANGED <<pinned, readings, callers, results>>,
             \/ /\ a = "bound" /\ Continue("executorCode", {}, {})
                /\ Resolve("EXECUTOR_IMPLEMENTATION", "executorImplementation")
             \/ (\E f, b : Stop(f, b)) /\ UNCHANGED roles
      PROVE  HcuInv'
  <2>1. a \in AnswerKinds BY AnswersAre DEF AnswerKinds
  <2>2. CASE (\E f, b : Stop(f, b)) /\ UNCHANGED roles BY <1>1, <1>3, <2>1, <2>2, StopStep
  <2>3. CASE /\ a = "bound" /\ Continue("executorCode", {}, {})
             /\ Resolve("EXECUTOR_IMPLEMENTATION", "executorImplementation")
    <3>1. pc' = "executorCode" /\ failures \subseteq failures' /\ blockers \subseteq blockers' BY <2>3 DEF Continue
    <3>2. /\ record' = record /\ cursor' = cursor + 1 /\ cursor' = Len(log')
          /\ NoneAsked(ExecutorQuestions) => NoneAsked(ExecutorQuestions)'
          /\ NoneAsked(AuthorityQuestions) => NoneAsked(AuthorityQuestions)'
      BY <1>1, <1>3, <2>1, Grown
    <3>3. NoneAsked(ExecutorQuestions) /\ NoneAsked(AuthorityQuestions)
      BY <1>1 DEF HcuInv, IdentityInv, IdentityPlace, BeforeAuthority, BeforeExecutor
    <3>4. /\ roles' \in [RoleNames -> Addresses] /\ roles'.EXECUTOR_IMPLEMENTATION = "executorImplementation"
          /\ roles'.NONE = roles.NONE /\ roles'.EXECUTOR = roles.EXECUTOR /\ roles'.AUTHORITY = roles.AUTHORITY
          /\ roles'.AUTHORITY_IMPLEMENTATION = roles.AUTHORITY_IMPLEMENTATION
      BY <2>3 DEF HcuInv, RolesInv, Resolve, RoleNames, Addresses
    <3>5. RolesInv' BY <1>1, <3>1, <3>4 DEF HcuInv, RolesInv, BeforeExecutor
    <3>6. PlaceInv' BY <1>1, <1>3, <3>1, <3>2 DEF HcuInv, PlaceInv, Issued, Asking, Identifying, BeforeAuthority, BeforeExecutor
    <3>7. IdentityPlace' BY <3>1, <3>2, <3>3 DEF IdentityPlace, Asking, Identifying, BeforeAuthority, BeforeExecutor
    <3>8. pc' \in Asking BY <3>1 DEF Asking, Identifying, BeforeAuthority, BeforeExecutor
    <3> QED BY <1>1, <1>3, <2>1, <2>3, <3>1, <3>3, <3>5, <3>6, <3>7, <3>8, AnswerStep
  <2> QED BY <1>3, <2>2, <2>3
<1>4. ASSUME NEW a \in Answers("SLOT", "executor"), NEW mismatch,
             CASE a = "bound" -> /\ Continue("executorCode", {}, {})
                                 /\ Resolve("EXECUTOR_IMPLEMENTATION", "executorImplementation")
               [] a = "bad" -> /\ Stop(mismatch, {"EXECUTOR_ERC1967_IMPLEMENTATION_SLOT_EMPTY_OR_MALFORMED"})
                               /\ UNCHANGED roles
               [] OTHER -> Stop(mismatch \cup {"EXECUTOR_IMPLEMENTATION_ADDRESS_MISMATCH"}, {}) /\ UNCHANGED roles
      PROVE  \/ /\ a = "bound" /\ Continue("executorCode", {}, {})
                /\ Resolve("EXECUTOR_IMPLEMENTATION", "executorImplementation")
             \/ (\E f, b : Stop(f, b)) /\ UNCHANGED roles
  BY <1>4
<1> QED BY <1>2, <1>3, <1>4 DEF ExecutorSlot

LEMMA ExecutorCodeKeeps ==
  ASSUME HcuInv, ExecutorCode
  PROVE  HcuInv'
<1> DEFINE to == roles.EXECUTOR_IMPLEMENTATION
<1>1. /\ pc = "executorCode" /\ pc \in Asking /\ Guarded("CODE", to) /\ Enforced("CODE", to) /\ to \in Addresses
  BY PlannedHere, RoleAddresses DEF ExecutorCode, Asking, Identifying, BeforeAuthority, BeforeExecutor
<1>2. CASE Unanswered BY <1>1, <1>2, UnansweredStep
<1>3. ASSUME NEW a \in Answers("CODE", to), Answered("CODE", to, a), ExecutorIdentity(a, {}),
             UNCHANGED <<roles, pinned, readings, callers>>
      PROVE  HcuInv'
  <2>1. /\ roles.AUTHORITY_IMPLEMENTATION = "unresolved" /\ to = "executorImplementation" /\ record.executor = Proxy
        /\ roles' \in [RoleNames -> Addresses]
    BY <1>1, <1>3 DEF HcuInv, RolesInv, PlaceInv, BeforeExecutor
  <2>2. a \in {"bound", "other", "bad"} BY <2>1, AnswersAre
  <2>3. record.executor # Direct BY <2>1 DEF Proxy, Direct
  <2> QED BY <1>1, <1>3, <2>1, <2>2, <2>3, ExecutorIdentityKeeps
<1> QED BY <1>2, <1>3 DEF ExecutorCode

LEMMA ExecutorVersionKeeps ==
  ASSUME HcuInv, ExecutorVersion
  PROVE  HcuInv'
<1>1. /\ pc = "executorVersion" /\ pc \in Asking /\ Guarded("EXECUTOR_VERSION", "executor")
      /\ Enforced("EXECUTOR_VERSION", "executor")
      /\ "EXECUTOR_VERSION" \in Questions /\ "executor" \in Addresses
      /\ "EXECUTOR_VERSION" \notin AuthorityQuestions /\ pc \notin BeforeExecutor
  BY PlannedHere, QuestionNames, RoleAddresses DEF ExecutorVersion, Asking, Identifying, BeforeAuthority, BeforeExecutor
<1>2. CASE Unanswered BY <1>1, <1>2, UnansweredStep
<1>3. ASSUME NEW a \in Answers("EXECUTOR_VERSION", "executor"), Answered("EXECUTOR_VERSION", "executor", a),
             UNCHANGED <<roles, pinned, readings, callers>>, NEW value, Result("executorVersion", value),
             \/ a = "bound" /\ Continue("authority", {}, {})
             \/ \E f, b : Stop(f, b)
      PROVE  HcuInv'
  <2>1. a \in AnswerKinds
    <3>1. "EXECUTOR_VERSION" \in PlainQuestions BY DEF PlainQuestions, ExecutorQuestions
    <3> QED BY <1>3, <3>1, AnswersAre DEF AnswerKinds
  <2>2. DOMAIN results' = DOMAIN results /\ results'.coverage = results.coverage BY <1>3, ResultKeeps
  <2>3. CASE \E f, b : Stop(f, b) BY <1>1, <1>3, <2>1, <2>2, <2>3, StopStep
  <2>4. CASE a = "bound" /\ Continue("authority", {}, {})
    <3>1. pc' = "authority" /\ failures \subseteq failures' /\ blockers \subseteq blockers' BY <2>4 DEF Continue
    <3>2. /\ record' = record /\ cursor' = cursor + 1 /\ cursor' = Len(log')
          /\ NoneAsked(AuthorityQuestions) => NoneAsked(AuthorityQuestions)'
          /\ IdentifiedAs("EXECUTOR_IMPLEMENTATION") => IdentifiedAs("EXECUTOR_IMPLEMENTATION")'
      BY <1>1, <1>3, <2>1, Grown
    <3>3. RolesInv' BY <1>1, <1>3, <3>1 DEF HcuInv, RolesInv, BeforeExecutor
    <3>4. PlaceInv'
      <4>1. cursor = 3 + Extra(record.executor) /\ Issued' = 4 + Extra(record.executor)
        BY <1>1, <3>1, <3>2 DEF HcuInv, PlaceInv, Issued, Asking, Identifying, BeforeAuthority, BeforeExecutor
      <4>2. Extra(record.executor) \in Nat BY DEF Extra
      <4>3. cursor' = Issued' BY <3>2, <4>1, <4>2
      <4> QED BY <1>1, <1>3, <3>1, <3>2, <4>3 DEF HcuInv, PlaceInv, Asking, Identifying, BeforeAuthority, BeforeExecutor
    <3>5. IdentityPlace'
      BY <1>1, <1>3, <3>1, <3>2 DEF HcuInv, IdentityInv, IdentityPlace, Asking, Identifying, BeforeAuthority, BeforeExecutor
    <3>6. pc' \in Asking BY <3>1 DEF Asking, Identifying, BeforeAuthority, BeforeExecutor
    <3>7. IdentifiedRole("EXECUTOR", "EXECUTOR_IMPLEMENTATION", record.executor) BY <1>1, <1>3, StillIdentified
    <3> QED BY <1>1, <1>3, <2>1, <2>2, <2>4, <3>1, <3>3, <3>4, <3>5, <3>6, <3>7, AnswerStep
  <2> QED BY <1>3, <2>3, <2>4
<1> QED BY <1>2, <1>3 DEF ExecutorVersion

LEMMA DeriveAuthorityKeeps ==
  ASSUME HcuInv, DeriveAuthority
  PROVE  HcuInv'
<1>1. /\ pc = "authority" /\ pc \in Asking /\ Guarded("AUTHORITY_GETTER", "executor")
      /\ Enforced("AUTHORITY_GETTER", "executor")
      /\ "AUTHORITY_GETTER" \in Questions /\ "executor" \in Addresses
      /\ "AUTHORITY_GETTER" \notin AuthorityQuestions /\ pc \notin BeforeExecutor
  BY PlannedHere, QuestionNames, RoleAddresses DEF DeriveAuthority, Asking, Identifying, BeforeAuthority, BeforeExecutor
<1>2. CASE Unanswered BY <1>1, <1>2, UnansweredStep
<1>3. ASSUME NEW a \in Answers("AUTHORITY_GETTER", "executor"), Answered("AUTHORITY_GETTER", "executor", a),
             UNCHANGED <<pinned, readings, callers>>,
             IF a = "bad"
             THEN /\ Stop({}, {"AUTHORITY_ADDRESS_NOT_DERIVED_FROM_EXECUTOR"})
                  /\ UNCHANGED <<roles, results>>
             ELSE /\ Continue("authorityCode",
                              Unless(a = "bound", "EXECUTOR_SNAPSHOT_AUTHORITY_GETTER_MISMATCH"), {})
                  /\ Resolve("AUTHORITY", IF a = "bound" THEN "authority" ELSE "elsewhere")
                  /\ Result("derivation", "VERIFIED")
      PROVE  HcuInv'
  <2>1. a \in AnswerKinds
    <3>1. "AUTHORITY_GETTER" \in PlainQuestions BY DEF PlainQuestions, ExecutorQuestions
    <3> QED BY <1>3, <3>1, AnswersAre DEF AnswerKinds
  <2>2. CASE a = "bad"
    <3>1. Stop({}, {"AUTHORITY_ADDRESS_NOT_DERIVED_FROM_EXECUTOR"}) /\ UNCHANGED <<roles, results>> BY <1>3, <2>2
    <3> QED BY <1>1, <1>3, <2>1, <3>1, StopStep
  <2>3. CASE a # "bad"
    <3>0. /\ Continue("authorityCode", Unless(a = "bound", "EXECUTOR_SNAPSHOT_AUTHORITY_GETTER_MISMATCH"), {})
          /\ Resolve("AUTHORITY", IF a = "bound" THEN "authority" ELSE "elsewhere")
          /\ Result("derivation", "VERIFIED")
      BY <1>3, <2>3
    <3>1. /\ pc' = "authorityCode" /\ failures \subseteq failures' /\ blockers \subseteq blockers'
          /\ a # "bound" => failures' # {}
      BY <3>0 DEF Continue, Unless
    <3>2. DOMAIN results' = DOMAIN results /\ results'.coverage = results.coverage BY <3>0, ResultKeeps
    <3>3. /\ roles' \in [RoleNames -> Addresses] /\ roles'.EXECUTOR_IMPLEMENTATION = roles.EXECUTOR_IMPLEMENTATION
          /\ roles'.NONE = roles.NONE /\ roles'.EXECUTOR = roles.EXECUTOR
          /\ roles'.AUTHORITY \in {"authority", "elsewhere"}
          /\ roles'.AUTHORITY_IMPLEMENTATION = roles.AUTHORITY_IMPLEMENTATION
      BY <3>0 DEF HcuInv, RolesInv, Resolve, RoleNames, Addresses
    <3>4. /\ record' = record /\ cursor' = cursor + 1 /\ cursor' = Len(log')
          /\ NoneAsked(AuthorityQuestions) => NoneAsked(AuthorityQuestions)'
          /\ IdentifiedAs("EXECUTOR_IMPLEMENTATION") => IdentifiedAs("EXECUTOR_IMPLEMENTATION")'
      BY <1>1, <1>3, <2>1, <3>3, Grown
    <3>5. NoneAsked(AuthorityQuestions) BY <1>1 DEF HcuInv, IdentityInv, IdentityPlace, BeforeAuthority
    <3>6. RolesInv' BY <1>1, <3>1, <3>3 DEF HcuInv, RolesInv, BeforeExecutor
    <3>7. PlaceInv'
      <4>1. cursor = 4 + Extra(record.executor) /\ Issued' = 5 + Extra(record.executor)
        BY <1>1, <3>1, <3>4 DEF HcuInv, PlaceInv, Issued, Asking, Identifying, BeforeAuthority, BeforeExecutor
      <4>2. Extra(record.executor) \in Nat BY DEF Extra
      <4>3. cursor' = Issued' BY <3>4, <4>1, <4>2
      <4> QED BY <1>1, <1>3, <3>1, <3>4, <4>3 DEF HcuInv, PlaceInv, Asking, Identifying, BeforeAuthority, BeforeExecutor
    <3>8. IdentityPlace'
      BY <1>1, <3>1, <3>3, <3>4 DEF HcuInv, IdentityInv, IdentityPlace, Asking, Identifying, BeforeAuthority, BeforeExecutor
    <3>9. pc' \in Asking BY <3>1 DEF Asking, Identifying, BeforeAuthority, BeforeExecutor
    <3>10. IdentifiedRole("EXECUTOR", "EXECUTOR_IMPLEMENTATION", record.executor)
      <4>1. /\ IdentifiedAs("EXECUTOR_IMPLEMENTATION")
            /\ record.executor = Direct => roles["EXECUTOR_IMPLEMENTATION"] = roles["EXECUTOR"]
        BY <1>1, RoleAddresses DEF HcuInv, IdentityInv, IdentityPlace, Asking, Identifying, BeforeAuthority, BeforeExecutor
      <4> QED BY <3>3, <4>1 DEF IdentifiedAs, IdentifiedRole
    <3> QED BY <1>1, <1>3, <2>1, <3>1, <3>2, <3>3, <3>5, <3>6, <3>7, <3>8, <3>9, <3>10, AnswerStep
  <2> QED BY <2>2, <2>3
<1> QED BY <1>2, <1>3 DEF DeriveAuthority

\* Whatever the identification of the authority notes, it is no result about prices.
LEMMA IdentityResults ==
  ASSUME HcuInv, NEW a, NEW noted, NEW proxied, AuthorityIdentity(a, noted, proxied),
         a \in {"bound", "equivalent", "other", "bad"}
  PROVE  DOMAIN results' = DOMAIN results /\ results'.coverage = results.coverage
<1>1. DOMAIN results = DOMAIN NoResults BY DEF HcuInv, NotedInv
<1>2. "coverage" \in DOMAIN results BY <1>1 DEF NoResults
<1> QED BY <1>2 DEF AuthorityIdentity

LEMMA IdentityOutcome ==
  ASSUME NEW a \in {"bound", "equivalent", "other", "bad"}, NEW noted, NEW proxied, AuthorityIdentity(a, noted, proxied)
  PROVE  \/ a \in {"other", "bad"} /\ \E f, b : Stop(f, b)
         \/ /\ a \in {"bound", "equivalent"} /\ pc' = "storage"
            /\ failures \subseteq failures' /\ blockers \subseteq blockers'
            /\ a # "bound" => failures' # {}
<1>1. CASE a = "bad"
  <2>1. Stop(noted \cup {"AUTHORITY_IMPLEMENTATION_HAS_NO_CODE"}, {}) BY <1>1 DEF AuthorityIdentity
  <2> QED BY <1>1, <2>1
<1>2. CASE a = "other"
  <2>1. Stop((noted \cup Unless(a = "bound", "AUTHORITY_SNAPSHOT_IMPLEMENTATION_EVIDENCE_MISMATCH"))
               \cup {"AUTHORITY_SNAPSHOT_NORMALIZED_RUNTIME_MISMATCH", "NORMALIZED_CODE_IDENTITY_MISMATCH"}, {})
    BY <1>2 DEF AuthorityIdentity
  <2> QED BY <1>2, <2>1
<1>3. CASE a \in {"bound", "equivalent"}
  <2>1. Continue("storage", noted \cup Unless(a = "bound", "AUTHORITY_SNAPSHOT_IMPLEMENTATION_EVIDENCE_MISMATCH"), {})
    BY <1>3 DEF AuthorityIdentity
  <2> QED BY <1>3, <2>1 DEF Continue, Unless
<1> QED BY <1>1, <1>2, <1>3

\* The authority's implementation has been read.
LEMMA AuthorityIdentityKeeps ==
  ASSUME HcuInv, pc \in {"authorityCode", "authorityImplementation"}, NEW to \in Addresses,
         NEW a \in {"bound", "equivalent", "other", "bad"}, NEW noted, NEW proxied,
         Guarded("CODE", to), Answered("CODE", to, a), AuthorityIdentity(a, noted, proxied),
         UNCHANGED <<pinned, readings, callers>>,
         roles' \in [RoleNames -> Addresses], roles'.AUTHORITY_IMPLEMENTATION = to,
         roles'.NONE = roles.NONE, roles'.EXECUTOR = roles.EXECUTOR, roles'.AUTHORITY = roles.AUTHORITY,
         roles'.EXECUTOR_IMPLEMENTATION = roles.EXECUTOR_IMPLEMENTATION,
         to = "elsewhere" => roles.AUTHORITY = "elsewhere",
         record.authority = Direct => to = roles.AUTHORITY,
         pc = "authorityCode" => record.authority = Direct
  PROVE  HcuInv'
<1>1. /\ pc \in Asking /\ "CODE" \in Questions /\ "CODE" \notin ExecutorQuestions \cup AuthorityQuestions
      /\ a \in AnswerKinds /\ pc \in BeforeAuthority /\ pc \notin BeforeExecutor
  BY QuestionNames DEF Asking, Identifying, BeforeAuthority, BeforeExecutor, AnswerKinds
<1>2. NoneAsked(AuthorityQuestions) BY <1>1 DEF HcuInv, IdentityInv, IdentityPlace
<1>3. DOMAIN results' = DOMAIN results /\ results'.coverage = results.coverage BY IdentityResults
<1>4. CASE \E f, b : Stop(f, b)
  <2>1. PICK f, b : Stop(f, b) BY <1>4
  <2>2. pc' = "conclude" BY <2>1, StopNotes
  <2>3. RolesInv' BY <2>2 DEF HcuInv, RolesInv, BeforeExecutor
  <2> QED BY <1>1, <1>2, <1>3, <2>1, <2>3, StopResolved
<1>5. CASE /\ a \in {"bound", "equivalent"} /\ pc' = "storage"
           /\ failures \subseteq failures' /\ blockers \subseteq blockers'
           /\ a # "bound" => failures' # {}
  <2>4. /\ record' = record /\ cursor' = cursor + 1 /\ cursor' = Len(log')
        /\ IdentifiedAs("EXECUTOR_IMPLEMENTATION") => IdentifiedAs("EXECUTOR_IMPLEMENTATION")'
        /\ IdentifiedAs("AUTHORITY_IMPLEMENTATION")'
    BY <1>1, <1>5, Grown
  <2>5. RolesInv' BY <1>5 DEF HcuInv, RolesInv, BeforeExecutor
  <2>6. PlaceInv'
    <3>1. Extra(record.authority) = IF pc = "authorityCode" THEN 0 ELSE 2
      BY DEF Extra, HcuInv, PlaceInv, Proxy, Direct
    <3>2. /\ Issued' = 6 + (Extra(record.executor) + Extra(record.authority)) /\ pinned
          /\ cursor = (IF pc = "authorityCode" THEN 5 ELSE 7) + Extra(record.executor)
      BY <1>1, <1>5, <2>4 DEF Issued, HcuInv, PlaceInv, Asking, Identifying, BeforeAuthority, BeforeExecutor
    <3>3. readings = <<>> /\ callers = <<>> BY DEF HcuInv, PlaceInv, Asking, Identifying, BeforeAuthority, BeforeExecutor
    <3>4. Extra(record.executor) \in Nat BY DEF Extra
    <3>5. cursor' = Issued' BY <2>4, <3>1, <3>2, <3>4
    <3> QED BY <1>5, <2>4, <3>2, <3>3, <3>5 DEF PlaceInv, Asking, Identifying, BeforeAuthority, BeforeExecutor
  <2>7. IdentityPlace'
    <3>1. /\ IdentifiedAs("EXECUTOR_IMPLEMENTATION")
          /\ record.executor = Direct => roles.EXECUTOR_IMPLEMENTATION = "executor"
      BY <1>1 DEF HcuInv, IdentityInv, IdentityPlace
    <3> QED BY <1>5, <2>4, <3>1 DEF IdentityPlace, Asking, Identifying, BeforeAuthority, BeforeExecutor
  <2>8. pc' \in Asking BY <1>5 DEF Asking, Identifying, BeforeAuthority, BeforeExecutor
  <2> QED BY <1>1, <1>2, <1>3, <1>5, <2>5, <2>6, <2>7, <2>8, AnswerStep
<1> QED BY <1>4, <1>5, IdentityOutcome

LEMMA AuthorityCodeKeeps ==
  ASSUME HcuInv, AuthorityCode
  PROVE  HcuInv'
<1> DEFINE to == roles.AUTHORITY
<1>1. /\ pc = "authorityCode" /\ pc \in Asking /\ Guarded("CODE", to) /\ Enforced("CODE", to)
      /\ "CODE" \in Questions /\ to \in Addresses
      /\ "CODE" \notin ExecutorQuestions \cup AuthorityQuestions
  BY PlannedHere, QuestionNames, RoleAddresses DEF AuthorityCode, Asking, Identifying, BeforeAuthority, BeforeExecutor
<1>2. CASE Unanswered BY <1>1, <1>2, UnansweredStep
<1>3. ASSUME NEW a \in Answers("CODE", to), NEW noted, Answered("CODE", to, a),
             CASE a = "bad" -> Stop({"AUTHORITY_HAS_NO_CODE"}, {}) /\ UNCHANGED <<roles, results>>
               [] a # "bad" /\ record.authority = Direct ->
                    /\ Resolve("AUTHORITY_IMPLEMENTATION", to)
                    /\ AuthorityIdentity(a, noted, FALSE)
               [] a = "other" /\ record.authority = Proxy ->
                    /\ Stop(noted \cup {"AUTHORITY_PROXY_CODE_IDENTITY_MISMATCH"}, {})
                    /\ Result("authorityCode", "MISMATCH") /\ UNCHANGED roles
               [] a = "bound" /\ record.authority = Proxy ->
                    /\ Continue("authoritySlot", {}, {})
                    /\ Result("authorityCode", "VERIFIED") /\ UNCHANGED roles,
             UNCHANGED <<pinned, readings, callers>>
      PROVE  HcuInv'
  <2>0. roles.AUTHORITY_IMPLEMENTATION = "unresolved" /\ to \in {"authority", "elsewhere"}
    BY <1>1 DEF HcuInv, RolesInv, BeforeExecutor
  <2>1. a \in {"bound", "other", "bad"} /\ a \in AnswerKinds
    <3>1. to # roles.AUTHORITY_IMPLEMENTATION BY <2>0
    <3>2. Answers("CODE", to) = {"bound", "other", "bad"} BY <3>1, AnswersAre
    <3> QED BY <3>2 DEF AnswerKinds
  <2>2. record.authority \in {Proxy, Direct} /\ Proxy # Direct BY DEF HcuInv, StartInv, Proxy, Direct
  <2>3. CASE a = "bad"
    <3>1. Stop({"AUTHORITY_HAS_NO_CODE"}, {}) /\ UNCHANGED <<roles, results>> BY <1>3, <2>3
    <3> QED BY <1>1, <1>3, <2>1, <3>1, StopStep
  <2>4. CASE a # "bad" /\ record.authority = Direct
    <3>1. Resolve("AUTHORITY_IMPLEMENTATION", to) /\ AuthorityIdentity(a, noted, FALSE) BY <1>3, <2>2, <2>4
    <3>2. roles \in [RoleNames -> Addresses] BY DEF HcuInv, RolesInv
    <3>3. /\ roles' \in [RoleNames -> Addresses] /\ roles'.AUTHORITY_IMPLEMENTATION = to
          /\ roles'.NONE = roles.NONE /\ roles'.EXECUTOR = roles.EXECUTOR /\ roles'.AUTHORITY = roles.AUTHORITY
          /\ roles'.EXECUTOR_IMPLEMENTATION = roles.EXECUTOR_IMPLEMENTATION
      BY <1>1, <3>1, <3>2 DEF Resolve, RoleNames
    <3> QED BY <1>1, <1>3, <2>1, <2>4, <3>1, <3>3, AuthorityIdentityKeeps
  <2>5. CASE a = "other" /\ record.authority = Proxy
    <3>1. Stop(noted \cup {"AUTHORITY_PROXY_CODE_IDENTITY_MISMATCH"}, {}) /\ Result("authorityCode", "MISMATCH") /\ UNCHANGED roles
      BY <1>3, <2>2, <2>5
    <3>2. DOMAIN results' = DOMAIN results /\ results'.coverage = results.coverage BY <3>1, ResultKeeps
    <3> QED BY <1>1, <1>3, <2>1, <3>1, <3>2, StopStep
  <2>6. CASE a = "bound" /\ record.authority = Proxy
    <3>0. Continue("authoritySlot", {}, {}) /\ Result("authorityCode", "VERIFIED") /\ UNCHANGED roles BY <1>3, <2>2, <2>6
    <3>1. pc' = "authoritySlot" /\ failures \subseteq failures' /\ blockers \subseteq blockers' BY <3>0 DEF Continue
    <3>2. /\ record' = record /\ cursor' = cursor + 1 /\ cursor' = Len(log')
          /\ NoneAsked(AuthorityQuestions) => NoneAsked(AuthorityQuestions)'
          /\ IdentifiedAs("EXECUTOR_IMPLEMENTATION") => IdentifiedAs("EXECUTOR_IMPLEMENTATION")'
      BY <1>1, <1>3, <2>1, <3>0, Grown
    <3>3. RolesInv' BY <1>1, <3>0, <3>1 DEF HcuInv, RolesInv, BeforeExecutor
    <3>4. PlaceInv'
      <4>1. cursor = 5 + Extra(record.executor) /\ Issued' = 6 + Extra(record.executor)
        BY <1>1, <3>1, <3>2 DEF HcuInv, PlaceInv, Issued, Asking, Identifying, BeforeAuthority, BeforeExecutor
      <4>2. Extra(record.executor) \in Nat BY DEF Extra
      <4>3. cursor' = Issued' BY <3>2, <4>1, <4>2
      <4> QED BY <1>1, <1>3, <2>6, <3>1, <3>2, <4>3 DEF HcuInv, PlaceInv, Asking, Identifying, BeforeAuthority, BeforeExecutor
    <3>5. IdentityPlace'
      BY <1>1, <3>0, <3>1, <3>2 DEF HcuInv, IdentityInv, IdentityPlace, Asking, Identifying, BeforeAuthority, BeforeExecutor
    <3>6. pc' \in Asking BY <3>1 DEF Asking, Identifying, BeforeAuthority, BeforeExecutor
    <3>7. DOMAIN results' = DOMAIN results /\ results'.coverage = results.coverage BY <3>0, ResultKeeps
    <3> QED BY <1>1, <1>3, <2>1, <2>6, <3>0, <3>1, <3>3, <3>4, <3>5, <3>6, <3>7, AnswerStep
  <2> QED BY <2>1, <2>2, <2>3, <2>4, <2>5, <2>6
<1> QED BY <1>2, <1>3 DEF AuthorityCode

LEMMA AuthoritySlotKeeps ==
  ASSUME HcuInv, AuthoritySlot
  PROVE  HcuInv'
<1> DEFINE to == roles.AUTHORITY
           kind == record.policies.authority.kind
           noted(a) == Unless(a = "bound", "AUTHORITY_SNAPSHOT_IMPLEMENTATION_SLOT_MISMATCH")
<1>1. /\ pc = "authoritySlot" /\ pc \in Asking /\ Guarded("SLOT", to) /\ Enforced("SLOT", to)
      /\ "SLOT" \in Questions /\ to \in Addresses
      /\ "SLOT" \notin ExecutorQuestions \cup AuthorityQuestions
  BY PlannedHere, QuestionNames, RoleAddresses DEF AuthoritySlot, Asking, Identifying, BeforeAuthority, BeforeExecutor
<1>2. CASE Unanswered BY <1>1, <1>2, UnansweredStep
<1>3. ASSUME NEW a \in Answers("SLOT", to), Answered("SLOT", to, a),
             CASE a = "bad" ->
                    /\ Stop(noted(a), {"ERC1967_IMPLEMENTATION_SLOT_EMPTY_OR_MALFORMED"})
                    /\ UNCHANGED <<roles, results>>
               [] a \in {"other", "self"} /\ kind = "EXACT" ->
                    /\ Stop(noted(a) \cup {"AUTHORITY_IMPLEMENTATION_ADDRESS_MISMATCH"}, {})
                    /\ Result("policy", "MISMATCH") /\ UNCHANGED roles
               [] a = "self" /\ kind = "UPGRADE" ->
                    /\ Resolve("AUTHORITY_IMPLEMENTATION", to)
                    /\ AuthorityIdentity("other", noted(a), TRUE)
               [] OTHER ->
                    /\ Continue("authorityImplementation", noted(a), {})
                    /\ Resolve("AUTHORITY_IMPLEMENTATION",
                               IF a = "bound" THEN "authorityImplementation" ELSE "elsewhereImplementation")
                    /\ Result("policy", IF kind = "EXACT" THEN "EXACT_MATCH" ELSE "PERMITTED"),
             UNCHANGED <<pinned, readings, callers>>
      PROVE  HcuInv'
  <2>1. a \in {"bound", "other", "self", "bad"} /\ a \in AnswerKinds BY AnswersAre DEF AnswerKinds
  <2>2. /\ NoneAsked(AuthorityQuestions) /\ IdentifiedAs("EXECUTOR_IMPLEMENTATION")
        /\ record.executor = Direct => roles.EXECUTOR_IMPLEMENTATION = "executor"
    BY <1>1 DEF HcuInv, IdentityInv, IdentityPlace, Asking, Identifying, BeforeAuthority, BeforeExecutor
  <2>3. CASE a = "bad"
    <3>1. Stop(noted(a), {"ERC1967_IMPLEMENTATION_SLOT_EMPTY_OR_MALFORMED"}) /\ UNCHANGED <<roles, results>> BY <1>3, <2>3
    <3> QED BY <1>1, <1>3, <2>1, <3>1, StopStep
  <2>4. CASE a \in {"other", "self"} /\ kind = "EXACT"
    <3>1. /\ Stop(noted(a) \cup {"AUTHORITY_IMPLEMENTATION_ADDRESS_MISMATCH"}, {})
          /\ Result("policy", "MISMATCH") /\ UNCHANGED roles
      BY <1>3, <2>4
    <3>2. DOMAIN results' = DOMAIN results /\ results'.coverage = results.coverage BY <3>1, ResultKeeps
    <3> QED BY <1>1, <1>3, <2>1, <3>1, <3>2, StopStep
  <2>5. CASE a = "self" /\ kind = "UPGRADE"
    <3>1. Resolve("AUTHORITY_IMPLEMENTATION", to) /\ AuthorityIdentity("other", noted(a), TRUE) BY <1>3, <2>5
    <3>2. PICK f, b : Stop(f, b) BY <3>1, IdentityOutcome
    <3>3. DOMAIN results' = DOMAIN results /\ results'.coverage = results.coverage BY <3>1, IdentityResults
    <3>4. /\ roles' \in [RoleNames -> Addresses] /\ roles'.AUTHORITY_IMPLEMENTATION = to
          /\ roles'.NONE = roles.NONE /\ roles'.EXECUTOR = roles.EXECUTOR /\ roles'.AUTHORITY = roles.AUTHORITY
          /\ roles'.EXECUTOR_IMPLEMENTATION = roles.EXECUTOR_IMPLEMENTATION
      BY <1>1, <3>1 DEF HcuInv, RolesInv, Resolve, RoleNames
    <3>5. pc' = "conclude" BY <3>2, StopNotes
    <3>6. RolesInv' BY <3>4, <3>5 DEF HcuInv, RolesInv, BeforeExecutor
    <3> QED BY <1>1, <1>3, <2>1, <2>2, <3>2, <3>3, <3>4, <3>6, StopResolved
  <2>6. CASE ~(a = "bad") /\ ~(a \in {"other", "self"} /\ kind = "EXACT") /\ ~(a = "self" /\ kind = "UPGRADE")
    <3>0. /\ Continue("authorityImplementation", noted(a), {})
          /\ Resolve("AUTHORITY_IMPLEMENTATION",
                     IF a = "bound" THEN "authorityImplementation" ELSE "elsewhereImplementation")
          /\ Result("policy", IF kind = "EXACT" THEN "EXACT_MATCH" ELSE "PERMITTED")
      BY <1>3, <2>6
    <3>1. /\ pc' = "authorityImplementation" /\ failures \subseteq failures' /\ blockers \subseteq blockers'
          /\ a # "bound" => failures' # {}
      BY <3>0 DEF Continue, Unless
    <3>2. DOMAIN results' = DOMAIN results /\ results'.coverage = results.coverage BY <3>0, ResultKeeps
    <3>3. /\ roles' \in [RoleNames -> Addresses] /\ roles'.EXECUTOR_IMPLEMENTATION = roles.EXECUTOR_IMPLEMENTATION
          /\ roles'.NONE = roles.NONE /\ roles'.EXECUTOR = roles.EXECUTOR /\ roles'.AUTHORITY = roles.AUTHORITY
          /\ roles'.AUTHORITY_IMPLEMENTATION \in {"authorityImplementation", "elsewhereImplementation"}
      BY <3>0 DEF HcuInv, RolesInv, Resolve, RoleNames, Addresses
    <3>4. /\ record' = record /\ cursor' = cursor + 1 /\ cursor' = Len(log')
          /\ NoneAsked(AuthorityQuestions)' /\ IdentifiedAs("EXECUTOR_IMPLEMENTATION")'
      BY <1>1, <1>3, <2>1, <2>2, <3>3, Grown
    <3>5. RolesInv' BY <1>1, <3>1, <3>3 DEF HcuInv, RolesInv, BeforeExecutor
    <3>6. PlaceInv'
      <4>1. cursor = 6 + Extra(record.executor) /\ Issued' = 7 + Extra(record.executor)
        BY <1>1, <3>1, <3>4 DEF HcuInv, PlaceInv, Issued, Asking, Identifying, BeforeAuthority, BeforeExecutor
      <4>2. Extra(record.executor) \in Nat BY DEF Extra
      <4>3. cursor' = Issued' BY <3>4, <4>1, <4>2
      <4> QED BY <1>1, <1>3, <3>1, <3>4, <4>3 DEF HcuInv, PlaceInv, Asking, Identifying, BeforeAuthority, BeforeExecutor
    <3>7. IdentityPlace' BY <2>2, <3>1, <3>3, <3>4 DEF IdentityPlace, Asking, Identifying, BeforeAuthority, BeforeExecutor
    <3>8. pc' \in Asking BY <3>1 DEF Asking, Identifying, BeforeAuthority, BeforeExecutor
    <3> QED BY <1>1, <1>3, <2>1, <2>2, <3>1, <3>2, <3>3, <3>5, <3>6, <3>7, <3>8, AnswerStep
  <2> QED BY <2>3, <2>4, <2>5, <2>6
<1> QED BY <1>2, <1>3 DEF AuthoritySlot

LEMMA AuthorityImplementationKeeps ==
  ASSUME HcuInv, AuthorityImplementation
  PROVE  HcuInv'
<1> DEFINE to == roles.AUTHORITY_IMPLEMENTATION
<1>1. /\ pc = "authorityImplementation" /\ pc \in Asking /\ Guarded("CODE", to) /\ Enforced("CODE", to) /\ to \in Addresses
  BY PlannedHere, RoleAddresses DEF AuthorityImplementation, Asking, Identifying, BeforeAuthority, BeforeExecutor
<1>2. CASE Unanswered BY <1>1, <1>2, UnansweredStep
<1>3. ASSUME NEW a \in Answers("CODE", to), Answered("CODE", to, a), AuthorityIdentity(a, {}, TRUE),
             UNCHANGED <<roles, pinned, readings, callers>>
      PROVE  HcuInv'
  <2>1. to \in {"authorityImplementation", "elsewhereImplementation"} /\ record.authority = Proxy
        /\ roles' \in [RoleNames -> Addresses]
    BY <1>1, <1>3 DEF HcuInv, RolesInv, PlaceInv
  <2>2. a \in {"bound", "equivalent", "other", "bad"} BY AnswersAre
  <2>3. record.authority # Direct BY <2>1 DEF Proxy, Direct
  <2> QED BY <1>1, <1>3, <2>1, <2>2, <2>3, AuthorityIdentityKeeps
<1> QED BY <1>2, <1>3 DEF AuthorityImplementation

-----------------------------------------------------------------------------
(* The identified authority. *)

\* The identified authority is asked.
LEMMA AuthorityPhase ==
  ASSUME HcuInv, pc \in Asking \ BeforeAuthority, NEW what \in AuthorityQuestions, NEW a \in AnswerKinds,
         Guarded(what, roles.AUTHORITY), Answered(what, roles.AUTHORITY, a), roles' = roles,
         pc' \in (Asking \ BeforeAuthority) \cup {"conclude"}
  PROVE  /\ UnverifiedNeverAsked' /\ IdentityPlace' /\ RolesInv'
         /\ log' \in Seq(Request) /\ Len(log') <= Len(livePlan')
         /\ \A i \in DOMAIN log' : log'[i].what = livePlan'[i].what
         /\ DOMAIN log' = DOMAIN log \cup {Len(log) + 1}
         /\ \A i \in DOMAIN log : log'[i] = log[i]
         /\ log'[Len(log) + 1].answer = a
         /\ UNCHANGED <<repository, record, tools, mode, lineage, verdict>> /\ ~violated'
         /\ cursor' = cursor + 1 /\ cursor' = Len(log') /\ cursor \in Nat
<1>1. /\ what \in Questions /\ what \notin ExecutorQuestions /\ roles.AUTHORITY \in Addresses
      /\ pc \in Asking /\ pc \notin BeforeExecutor /\ pc' \notin BeforeExecutor /\ pc' \notin BeforeAuthority
  BY QuestionNames, RoleAddresses DEF Asking, Identifying, BeforeAuthority, BeforeExecutor
<1>2. /\ UNCHANGED <<repository, record, tools, mode, lineage, verdict>>
      /\ cursor' = cursor + 1 /\ cursor' = Len(log') /\ cursor \in Nat
      /\ IdentifiedAs("EXECUTOR_IMPLEMENTATION") => IdentifiedAs("EXECUTOR_IMPLEMENTATION")'
      /\ IdentifiedAs("AUTHORITY_IMPLEMENTATION") => IdentifiedAs("AUTHORITY_IMPLEMENTATION")'
  BY <1>1, Grown
<1>3. /\ log' \in Seq(Request) /\ Len(log') <= Len(livePlan')
      /\ DOMAIN log' = DOMAIN log \cup {Len(log) + 1}
      /\ \A i \in DOMAIN log : log'[i] = log[i]
      /\ log'[Len(log) + 1].what = what /\ log'[Len(log) + 1].answer = a
      /\ \A i \in DOMAIN log' : log'[i].what = livePlan'[i].what
  BY <1>1, <1>2, LogGrows
<1>4. IdentifiedRole("AUTHORITY", "AUTHORITY_IMPLEMENTATION", record.authority) BY StillIdentified
<1>5. UnverifiedNeverAsked'
  <2>1. UnverifiedNeverAsked /\ log \in Seq(Request) BY DEF HcuInv, LogInv, IdentityInv
  <2> QED BY <1>1, <1>2, <1>3, <1>4, <2>1, NeverAskedGrows
<1>6. IdentityPlace'
  <2>1. /\ IdentifiedAs("EXECUTOR_IMPLEMENTATION")
        /\ record.executor = Direct => roles.EXECUTOR_IMPLEMENTATION = "executor"
        /\ IdentifiedAs("AUTHORITY_IMPLEMENTATION")
        /\ record.authority = Direct => roles.AUTHORITY_IMPLEMENTATION = roles.AUTHORITY
    BY <1>1 DEF HcuInv, IdentityInv, IdentityPlace
  <2> QED BY <1>1, <1>2, <2>1 DEF IdentityPlace
<1>7. RolesInv'
  <2>1. pc' \notin BeforeExecutor \cup {"executorVersion", "authority", "authorityCode", "authoritySlot", "authorityImplementation"}
    BY <1>1 DEF BeforeAuthority
  <2> QED BY <2>1 DEF HcuInv, RolesInv, BeforeExecutor
<1>8. ~violated' BY DEF Guarded, Answered
<1> QED BY <1>2, <1>3, <1>5, <1>6, <1>7, <1>8

\* Of a step between two questions nothing else remains to be shown.
LEMMA Assembled ==
  ASSUME HcuInv, pc \in Asking, pc' \in Asking \cup {"conclude"},
         UNCHANGED <<repository, record, tools, mode, lineage, verdict>>,
         LogInv', UnverifiedNeverAsked', RolesInv', PlaceInv', IdentityPlace', NotedInv'
  PROVE  HcuInv'
<1>1. StartInv'
  <2>1. StartInv BY DEF HcuInv
  <2>2. lineage = "VERIFIED" BY <2>1 DEF StartInv
  <2> QED BY <2>1, <2>2 DEF StartInv, Asking, Identifying, BeforeAuthority, BeforeExecutor
<1>2. LineageInv' BY DEF HcuInv, LineageInv, ReviewedCommit
<1>3. VerdictInv'
  <2>1. verdict = "NONE"
    <3>1. pc # "done" BY DEF Asking, Identifying, BeforeAuthority, BeforeExecutor
    <3> QED BY <3>1 DEF HcuInv, VerdictInv
  <2>2. ~violated' BY DEF LogInv
  <2> QED BY <2>1, <2>2 DEF VerdictInv, PassMeansVerified, PlanFollowed
<1> QED BY <1>1, <1>2, <1>3 DEF HcuInv, IdentityInv

LEMMA PackedStorageKeeps ==
  ASSUME HcuInv, PackedStorage
  PROVE  HcuInv'
<1> DEFINE to == roles.AUTHORITY
<1>1. /\ pc = "storage" /\ pc \in Asking /\ pc \notin BeforeAuthority /\ Guarded("HCU_STORAGE", to) /\ Enforced("HCU_STORAGE", to)
      /\ "HCU_STORAGE" \in Questions /\ to \in Addresses
      /\ "HCU_STORAGE" \in AuthorityQuestions /\ "HCU_STORAGE" \notin ExecutorQuestions
  BY PlannedHere, QuestionNames, RoleAddresses DEF PackedStorage, Asking, Identifying, BeforeAuthority, BeforeExecutor
<1>2. CASE Unanswered BY <1>1, <1>2, UnansweredStep
<1>3. ASSUME NEW a \in Answers("HCU_STORAGE", to), Answered("HCU_STORAGE", to, a),
             CASE a = "bound" -> Continue("reciprocal", Unless(WordPinned, "HCU_PACKED_STORAGE_LIMIT_MISMATCH"), {})
               [] a = "other" -> Stop({"HCU_PACKED_STORAGE_EVIDENCE_MISMATCH"}, {})
               [] a = "bad" -> Stop({"HCU_PACKED_STORAGE_WORD_MALFORMED"}, {}),
             UNCHANGED <<roles, pinned, readings, callers, results>>
      PROVE  HcuInv'
  <2>1. a \in {"bound", "other", "bad"} /\ a \in AnswerKinds BY AnswersAre DEF PlainQuestions, AnswerKinds
  <2>2. CASE a # "bound"
    <3>1. \E f, b : Stop(f, b) BY <1>3, <2>1, <2>2
    <3> QED BY <1>1, <1>3, <2>1, <3>1, StopStep
  <2>3. CASE a = "bound"
    <3>0. Continue("reciprocal", Unless(WordPinned, "HCU_PACKED_STORAGE_LIMIT_MISMATCH"), {}) BY <1>3, <2>3
    <3>1. pc' = "reciprocal" /\ failures \subseteq failures' /\ blockers \subseteq blockers' BY <3>0 DEF Continue
    <3>2. pc' \in Asking /\ pc' \notin BeforeAuthority BY <3>1 DEF Asking, Identifying, BeforeAuthority, BeforeExecutor
    <3>3. RolesInv' /\ IdentityPlace' /\ record' = record /\ cursor' = cursor + 1 /\ cursor' = Len(log')
      BY <1>1, <1>3, <2>1, <3>2, AuthorityPhase
    <3>4. PlaceInv'
      <4>1. cursor = 6 + (Extra(record.executor) + Extra(record.authority)) /\ Issued' = 7 + (Extra(record.executor) + Extra(record.authority))
        BY <1>1, <3>1, <3>3 DEF HcuInv, PlaceInv, Issued, Asking, Identifying, BeforeAuthority, BeforeExecutor
      <4>2. Extra(record.executor) \in Nat /\ Extra(record.authority) \in Nat BY DEF Extra
      <4>3. cursor' = Issued' BY <3>3, <4>1, <4>2
      <4> QED BY <1>1, <1>3, <3>1, <3>3, <4>3 DEF HcuInv, PlaceInv, Asking, Identifying, BeforeAuthority, BeforeExecutor
    <3>5. IdentifiedRole("AUTHORITY", "AUTHORITY_IMPLEMENTATION", record.authority) BY <1>1, <1>3, StillIdentified
    <3> QED BY <1>1, <1>3, <2>1, <3>1, <3>2, <3>3, <3>4, <3>5, <2>3, AnswerStep
  <2> QED BY <2>2, <2>3
<1> QED BY <1>2, <1>3 DEF PackedStorage

LEMMA ReciprocalKeeps ==
  ASSUME HcuInv, Reciprocal
  PROVE  HcuInv'
<1> DEFINE to == roles.AUTHORITY
<1>1. /\ pc = "reciprocal" /\ pc \in Asking /\ pc \notin BeforeAuthority /\ Guarded("EXECUTOR_GETTER", to) /\ Enforced("EXECUTOR_GETTER", to)
      /\ "EXECUTOR_GETTER" \in Questions /\ to \in Addresses
      /\ "EXECUTOR_GETTER" \in AuthorityQuestions /\ "EXECUTOR_GETTER" \notin ExecutorQuestions
  BY PlannedHere, QuestionNames, RoleAddresses DEF Reciprocal, Asking, Identifying, BeforeAuthority, BeforeExecutor
<1>2. CASE Unanswered BY <1>1, <1>2, UnansweredStep
<1>3. ASSUME NEW a \in Answers("EXECUTOR_GETTER", to), Answered("EXECUTOR_GETTER", to, a),
             Continue("authorityVersion",
                      Unless(a = "bound", "AUTHORITY_SNAPSHOT_RECIPROCAL_GETTER_MISMATCH")
                        \cup Unless(a # "other", "RECIPROCAL_LINKAGE_BROKEN"),
                      Unless(a # "bad", "RECIPROCAL_LINKAGE_NOT_RESOLVED")),
             NEW value, Result("reciprocal", value),
             UNCHANGED <<roles, pinned, readings, callers>>
      PROVE  HcuInv'
  <2>1. a \in AnswerKinds BY AnswersAre DEF PlainQuestions, AnswerKinds
  <2>2. DOMAIN results' = DOMAIN results /\ results'.coverage = results.coverage BY <1>3, ResultKeeps
  <2> QED
    <3>1. /\ pc' = "authorityVersion" /\ failures \subseteq failures' /\ blockers \subseteq blockers'
          /\ a # "bound" => failures' # {}
      BY <1>3 DEF Continue, Unless
    <3>2. pc' \in Asking /\ pc' \notin BeforeAuthority BY <3>1 DEF Asking, Identifying, BeforeAuthority, BeforeExecutor
    <3>3. RolesInv' /\ IdentityPlace' /\ record' = record /\ cursor' = cursor + 1 /\ cursor' = Len(log')
      BY <1>1, <1>3, <2>1, <3>2, AuthorityPhase
    <3>4. PlaceInv'
      <4>1. cursor = 7 + (Extra(record.executor) + Extra(record.authority)) /\ Issued' = 8 + (Extra(record.executor) + Extra(record.authority))
        BY <1>1, <3>1, <3>3 DEF HcuInv, PlaceInv, Issued, Asking, Identifying, BeforeAuthority, BeforeExecutor
      <4>2. Extra(record.executor) \in Nat /\ Extra(record.authority) \in Nat BY DEF Extra
      <4>3. cursor' = Issued' BY <3>3, <4>1, <4>2
      <4> QED BY <1>1, <1>3, <3>1, <3>3, <4>3 DEF HcuInv, PlaceInv, Asking, Identifying, BeforeAuthority, BeforeExecutor
    <3>5. IdentifiedRole("AUTHORITY", "AUTHORITY_IMPLEMENTATION", record.authority) BY <1>1, <1>3, StillIdentified
    <3> QED BY <1>1, <1>3, <2>1, <3>1, <3>2, <3>3, <3>4, <3>5, <2>2, AnswerStep
<1> QED BY <1>2, <1>3 DEF Reciprocal

LEMMA AuthorityVersionKeeps ==
  ASSUME HcuInv, AuthorityVersion
  PROVE  HcuInv'
<1> DEFINE to == roles.AUTHORITY
<1>1. /\ pc = "authorityVersion" /\ pc \in Asking /\ pc \notin BeforeAuthority /\ Guarded("AUTHORITY_VERSION", to) /\ Enforced("AUTHORITY_VERSION", to)
      /\ "AUTHORITY_VERSION" \in Questions /\ to \in Addresses
      /\ "AUTHORITY_VERSION" \in AuthorityQuestions /\ "AUTHORITY_VERSION" \notin ExecutorQuestions
  BY PlannedHere, QuestionNames, RoleAddresses DEF AuthorityVersion, Asking, Identifying, BeforeAuthority, BeforeExecutor
<1>2. CASE Unanswered BY <1>1, <1>2, UnansweredStep
<1>3. ASSUME NEW a \in Answers("AUTHORITY_VERSION", to), Answered("AUTHORITY_VERSION", to, a),
             Continue("limits",
                      IF a = "bound" THEN {}
                      ELSE {"AUTHORITY_SNAPSHOT_VERSION_MISMATCH", "AUTHORITY_VERSION_MISMATCH"},
                      Unless(a # "bad", "AUTHORITY_VERSION_NOT_RESOLVED")),
             NEW value, Result("authorityVersion", value),
             UNCHANGED <<roles, pinned, readings, callers>>
      PROVE  HcuInv'
  <2>1. a \in AnswerKinds BY AnswersAre DEF PlainQuestions, AnswerKinds
  <2>2. DOMAIN results' = DOMAIN results /\ results'.coverage = results.coverage BY <1>3, ResultKeeps
  <2> QED
    <3>1. /\ pc' = "limits" /\ failures \subseteq failures' /\ blockers \subseteq blockers'
          /\ a # "bound" => failures' # {}
      BY <1>3 DEF Continue
    <3>2. pc' \in Asking /\ pc' \notin BeforeAuthority BY <3>1 DEF Asking, Identifying, BeforeAuthority, BeforeExecutor
    <3>3. RolesInv' /\ IdentityPlace' /\ record' = record /\ cursor' = cursor + 1 /\ cursor' = Len(log')
      BY <1>1, <1>3, <2>1, <3>2, AuthorityPhase
    <3>4. PlaceInv'
      <4>0. readings' = <<>> /\ Len(GettersUpTo(0)) = 0
        <5>1. FilteredTo(Limits, LimitFields, ReadLimits(record), Filtered(LimitFields, ReadLimits(record)), Len(LimitFields))
          BY LimitFieldNames, FilteredIs
        <5>2. GettersUpTo(0) = <<>> BY <5>1 DEF FilteredTo, GettersUpTo
        <5> QED BY <1>1, <1>3, <5>2 DEF HcuInv, PlaceInv, Identifying
      <4>4. Len(readings') = 0 BY <4>0
      <4>5. GettersUpTo(Len(readings))' = GettersUpTo(0) BY <3>3, <4>4 DEF GettersUpTo
      <4>1. cursor = 8 + (Extra(record.executor) + Extra(record.authority)) /\ Issued' = 9 + (Extra(record.executor) + Extra(record.authority)) + 0
        BY <1>1, <3>1, <3>3, <4>0, <4>5 DEF HcuInv, PlaceInv, Issued, Asking, Identifying, BeforeAuthority, BeforeExecutor
      <4>2. Extra(record.executor) \in Nat /\ Extra(record.authority) \in Nat BY DEF Extra
      <4>3. cursor' = Issued' BY <3>3, <4>1, <4>2
      <4> QED BY <1>1, <1>3, <3>1, <3>3, <4>3, <4>4, LimitFieldNames DEF HcuInv, PlaceInv, Asking, Identifying, BeforeAuthority, BeforeExecutor
    <3>5. IdentifiedRole("AUTHORITY", "AUTHORITY_IMPLEMENTATION", record.authority) BY <1>1, <1>3, StillIdentified
    <3> QED BY <1>1, <1>3, <2>1, <3>1, <3>2, <3>3, <3>4, <3>5, <2>2, AnswerStep
<1> QED BY <1>2, <1>3 DEF AuthorityVersion

-----------------------------------------------------------------------------
(* Limits and callers. *)

\* The first getters and subjects.
LEMMA NoneListed == GettersUpTo(0) = <<>> /\ SubjectsUpTo(0) = <<>>
<1>1. FilteredTo(Limits, LimitFields, ReadLimits(record), Filtered(LimitFields, ReadLimits(record)), Len(LimitFields))
  BY LimitFieldNames, FilteredIs
<1>2. FilteredTo(ToSet(Callers), Callers, AskedCallers(record), Filtered(Callers, AskedCallers(record)), Len(Callers))
  BY CallerNames, FilteredIs
<1> QED BY <1>1, <1>2 DEF FilteredTo, GettersUpTo, SubjectsUpTo

\* The verifier has come to element n + 1 of a list whose wanted elements stand in the plan from start on.
ComesTo(S, list, wanted, n, N, F, start) ==
  /\ list \in Seq(S) /\ n \in Nat /\ N \in Nat /\ N = Len(list) /\ n < N
  /\ F = Filtered(list, wanted) /\ start \in Nat /\ cursor = start + Len(F[n])
  /\ Len(livePlan) \in Nat /\ start + Len(F[N]) <= Len(livePlan) /\ pinned
  /\ \A i \in 1 .. Len(F[N]) : livePlan[start + i] = Planned(F[N][i], "AUTHORITY", TRUE)

\* Of a list that is asked, the next element is the next call of the plan.
LEMMA NextCall ==
  ASSUME NEW S, NEW list, NEW wanted, NEW n, NEW N, NEW F, NEW start, ComesTo(S, list, wanted, n, N, F, start)
  PROVE  /\ list[n + 1] \in S
         /\ Len(F[n]) \in Nat /\ Len(F[n + 1]) \in Nat
         /\ list[n + 1] \in wanted => Enforced(list[n + 1], roles.AUTHORITY) /\ Len(F[n + 1]) = Len(F[n]) + 1
         /\ list[n + 1] \notin wanted => Len(F[n + 1]) = Len(F[n])
<1>0. /\ list \in Seq(S) /\ n \in Nat /\ N \in Nat /\ N = Len(list) /\ n < N
      /\ F = Filtered(list, wanted) /\ start \in Nat /\ cursor = start + Len(F[n])
      /\ Len(livePlan) \in Nat /\ start + Len(F[N]) <= Len(livePlan) /\ pinned
      /\ \A i \in 1 .. Len(F[N]) : livePlan[start + i] = Planned(F[N][i], "AUTHORITY", TRUE)
  BY DEF ComesTo
<1>1. n \in 0 .. N /\ n + 1 \in 1 .. N BY <1>0
<1>2. n \in 0 .. Len(list) /\ n < Len(list) /\ n + 1 \in 1 .. Len(list) BY <1>0, <1>1, Zenon
<1>3. list[n + 1] \in S BY <1>0, <1>2
<1>4. F = Filtered(list, wanted) BY <1>0
<1>5. /\ F[n] \in Seq(S) /\ F[N] \in Seq(S)
      /\ list[n + 1] \in wanted => /\ Len(F[n + 1]) = Len(F[n]) + 1
                                   /\ Len(F[n]) < Len(F[N])
                                   /\ F[N][Len(F[n]) + 1] = list[n + 1]
      /\ list[n + 1] \notin wanted => F[n + 1] = F[n]
  <2>1. /\ Filtered(list, wanted)[n] \in Seq(S) /\ Filtered(list, wanted)[Len(list)] \in Seq(S)
        /\ list[n + 1] \in wanted =>
             /\ Len(Filtered(list, wanted)[n + 1]) = Len(Filtered(list, wanted)[n]) + 1
             /\ Len(Filtered(list, wanted)[n]) < Len(Filtered(list, wanted)[Len(list)])
             /\ Filtered(list, wanted)[Len(list)][Len(Filtered(list, wanted)[n]) + 1] = list[n + 1]
        /\ list[n + 1] \notin wanted => Filtered(list, wanted)[n + 1] = Filtered(list, wanted)[n]
    <3>1. list \in Seq(S) BY <1>0, Zenon
    <3>2. PICK i \in Nat : i = n BY <1>2
    <3>3. i \in 0 .. Len(list) /\ i < Len(list) BY <1>2, <3>2, Zenon
    <3> QED BY <3>1, <3>2, <3>3, FilteredGoesOn
  <2> QED BY <1>0, <1>4, <2>1, Zenon
<1>6. PICK k \in Nat : k = Len(F[n])
  <2>1. F[n] \in Seq(S) BY <1>5
  <2>2. Len(F[n]) \in Nat BY <2>1
  <2> QED BY <2>2, Zenon
<1>7. PICK m \in Nat : m = Len(F[N])
  <2>1. F[N] \in Seq(S) BY <1>5
  <2>2. Len(F[N]) \in Nat BY <2>1
  <2> QED BY <2>2, Zenon
<1>8. PICK p \in Nat : p = Len(livePlan) BY <1>0
<1>9. cursor = start + k /\ start + m <= p /\ start \in Nat BY <1>0, <1>4, <1>6, <1>7, <1>8, Zenon
<1>10. ASSUME list[n + 1] \in wanted PROVE Enforced(list[n + 1], roles.AUTHORITY) /\ Len(F[n + 1]) = k + 1
  <2>1. k < m /\ Len(F[n + 1]) = k + 1 /\ F[N][k + 1] = list[n + 1] BY <1>5, <1>6, <1>7, <1>10, Zenon
  <2>2. k + 1 \in 1 .. m /\ cursor < p /\ cursor + 1 = start + (k + 1) BY <1>9, <2>1
  <2>3. \A i \in 1 .. m : livePlan[start + i] = Planned(F[N][i], "AUTHORITY", TRUE) BY <1>0, <1>7, Zenon
  <2>4. livePlan[start + (k + 1)] = Planned(F[N][k + 1], "AUTHORITY", TRUE) BY <2>2, <2>3, Zenon
  <2>5. livePlan[cursor + 1] = Planned(list[n + 1], "AUTHORITY", TRUE) BY <2>1, <2>2, <2>4, Zenon
  <2>6. cursor < Len(livePlan) BY <1>8, <2>2, Zenon
  <2>7. Planned(list[n + 1], "AUTHORITY", TRUE).what = list[n + 1]
        /\ Planned(list[n + 1], "AUTHORITY", TRUE).role = "AUTHORITY"
    BY DEF Planned
  <2>8. Enforced(list[n + 1], roles.AUTHORITY) BY <1>0, <2>5, <2>6, <2>7 DEF Enforced
  <2> QED BY <2>1, <2>8
<1>11. list[n + 1] \notin wanted => Len(F[n + 1]) = k BY <1>5, <1>6, Zenon
<1>12. Len(F[n + 1]) \in Nat
  <2>1. k + 1 \in Nat OBVIOUS
  <2> QED BY <2>1, <1>10, <1>11, Zenon
<1> QED BY <1>3, <1>4, <1>6, <1>10, <1>11, <1>12, Zenon

\* How long the plan is.
LEMMA PlanLengths ==
  /\ Extra(record.executor) + Extra(record.authority) \in Nat
  /\ Len(GettersUpTo(3)) \in Nat /\ Len(SubjectsUpTo(Len(Callers))) \in Nat
  /\ Len(livePlan) = 9 + (Extra(record.executor) + Extra(record.authority))
                       + Len(GettersUpTo(3)) + Len(SubjectsUpTo(Len(Callers)))
  /\ Len(livePlan) \in Nat
<1>1. Extra(record.executor) \in Nat /\ Extra(record.authority) \in Nat BY DEF Extra
<1>2. PICK b \in Nat : b = Extra(record.executor) + Extra(record.authority) BY <1>1
<1>3. GettersUpTo(3) \in Seq(Limits) /\ SubjectsUpTo(Len(Callers)) \in Seq(ToSet(Callers))
  BY PlanLayout, LimitFieldNames, Zenon
<1>4. PICK g \in Nat : g = Len(GettersUpTo(3)) BY <1>3
<1>5. PICK c \in Nat : c = Len(SubjectsUpTo(Len(Callers))) BY <1>3
<1>6. Len(livePlan) = 9 + b + g + c BY <1>2, <1>4, <1>5, PlanLayout, LimitFieldNames, Zenon
<1>7. 9 + b + g + c \in Nat OBVIOUS
<1> QED BY <1>2, <1>4, <1>5, <1>6, <1>7, Zenon

\* The limit the verifier comes to is the next getter of the plan, or none.
LEMMA NextGetter ==
  ASSUME HcuInv, pc = "limits", NEW n, n = Len(readings), NEW field, field = LimitFields[n + 1]
  PROVE  /\ n \in Nat /\ n < 3 /\ field \in Limits
         /\ cursor = 9 + (Extra(record.executor) + Extra(record.authority)) + Len(GettersUpTo(n))
         /\ Len(GettersUpTo(n)) \in Nat /\ Len(GettersUpTo(n + 1)) \in Nat
         /\ record.limits[field] = OnChain => /\ Enforced(field, roles.AUTHORITY)
                                              /\ Len(GettersUpTo(n + 1)) = Len(GettersUpTo(n)) + 1
         /\ record.limits[field] # OnChain => Len(GettersUpTo(n + 1)) = Len(GettersUpTo(n))
<1> DEFINE asked == ReadLimits(record)
           got == Filtered(LimitFields, asked)
<1>1. n \in Nat /\ n < 3
  <2>1. readings \in Seq(LimitResults) /\ Len(readings) < 3 BY LimitFieldNames DEF HcuInv, LogInv, PlaceInv
  <2>2. Len(readings) \in Nat BY <2>1
  <2> QED BY <2>1, <2>2, Zenon
<1>2. PICK b \in Nat : b = Extra(record.executor) + Extra(record.authority) BY PlanLengths
<1>3. cursor = 9 + b + Len(GettersUpTo(n)) /\ pinned
  BY <1>2 DEF HcuInv, PlaceInv, Issued, Asking, Identifying
<1>4. GettersUpTo(n) = got[n] /\ GettersUpTo(n + 1) = got[n + 1] /\ GettersUpTo(3) = got[3] BY DEF GettersUpTo
<1>5. \A i \in 1 .. Len(got[3]) : livePlan[9 + b + i] = Planned(got[3][i], "AUTHORITY", TRUE)
  <2>1. \A i \in 1 .. Len(GettersUpTo(3)) : livePlan[9 + b + i] = Planned(GettersUpTo(3)[i], "AUTHORITY", TRUE)
    BY <1>2, PlanLayout, LimitFieldNames, Zenon
  <2> QED BY <1>4, <2>1, Zenon
<1>6. Len(livePlan) \in Nat /\ 9 + b + Len(got[3]) <= Len(livePlan)
  <2>1. PICK g \in Nat : g = Len(GettersUpTo(3)) BY PlanLengths
  <2>2. PICK c \in Nat : c = Len(SubjectsUpTo(Len(Callers))) BY PlanLengths
  <2>3. Len(livePlan) = 9 + b + g + c BY <1>2, <2>1, <2>2, PlanLengths, Zenon
  <2>4. PICK p : p = Len(livePlan) OBVIOUS
  <2>5. p \in Nat /\ 9 + b + g <= p
    <3>1. p = 9 + b + g + c BY <2>3, <2>4, Zenon
    <3> QED BY <3>1
  <2> QED BY <1>4, <2>1, <2>4, <2>5, Zenon
<1>7. PICK from \in Nat : from = 9 + b OBVIOUS
<1>8. /\ LimitFields[n + 1] \in Limits
      /\ Len(got[n]) \in Nat /\ Len(got[n + 1]) \in Nat
      /\ LimitFields[n + 1] \in asked => /\ Enforced(LimitFields[n + 1], roles.AUTHORITY)
                                          /\ Len(got[n + 1]) = Len(got[n]) + 1
      /\ LimitFields[n + 1] \notin asked => Len(got[n + 1]) = Len(got[n])
  <2>1. /\ LimitFields \in Seq(Limits) /\ 3 \in Nat /\ 3 = Len(LimitFields) /\ n < 3
        /\ cursor = from + Len(got[n]) /\ Len(livePlan) \in Nat /\ from + Len(got[3]) <= Len(livePlan) /\ pinned
        /\ \A i \in 1 .. Len(got[3]) : livePlan[from + i] = Planned(got[3][i], "AUTHORITY", TRUE)
    <3> HIDE DEF got
    <3>1. LimitFields \in Seq(Limits) /\ 3 = Len(LimitFields) BY LimitFieldNames
    <3>2. 3 \in Nat OBVIOUS
    <3> QED BY <1>1, <1>3, <1>4, <1>5, <1>6, <1>7, <3>1, <3>2, Zenon
  <2>2. PICK N : N = 3 OBVIOUS
  <2>3. PICK all : all = LimitFields OBVIOUS
  <2>4. PICK G : G = got OBVIOUS
  <2>5. PICK W : W = asked OBVIOUS
  <2>6. /\ all \in Seq(Limits) /\ N \in Nat /\ N = Len(all) /\ n < N /\ G = Filtered(all, W)
        /\ cursor = from + Len(G[n]) /\ Len(livePlan) \in Nat
        /\ from + Len(G[N]) <= Len(livePlan) /\ pinned
        /\ \A i \in 1 .. Len(G[N]) : livePlan[from + i] = Planned(G[N][i], "AUTHORITY", TRUE)
    <3>1. G = Filtered(all, W) BY <2>3, <2>4, <2>5, Zenon
    <3> HIDE DEF got
    <3> QED BY <2>1, <2>2, <2>3, <2>4, <3>1, Zenon
  <2> HIDE DEF got, asked
  <2>7. /\ all[n + 1] \in Limits
        /\ Len(G[n]) \in Nat /\ Len(G[n + 1]) \in Nat
        /\ all[n + 1] \in W => Enforced(all[n + 1], roles.AUTHORITY) /\ Len(G[n + 1]) = Len(G[n]) + 1
        /\ all[n + 1] \notin W => Len(G[n + 1]) = Len(G[n])
    <3>1. ComesTo(Limits, all, W, n, N, G, from) BY <1>1, <2>6, Zenon DEF ComesTo
    <3>2. all[n + 1] \in Limits BY <3>1, NextCall, Zenon
    <3>3. Len(G[n]) \in Nat BY <3>1, NextCall, Zenon
    <3>6. Len(G[n + 1]) \in Nat BY <3>1, NextCall, Zenon
    <3>4. all[n + 1] \in W => Enforced(all[n + 1], roles.AUTHORITY) BY <3>1, NextCall, Zenon
    <3>5. all[n + 1] \in W => Len(G[n + 1]) = Len(G[n]) + 1 BY <3>1, NextCall
    <3>7. all[n + 1] \notin W => Len(G[n + 1]) = Len(G[n]) BY <3>1, NextCall
    <3> QED BY <3>2, <3>3, <3>4, <3>5, <3>6, <3>7, Zenon
  <2> QED BY <2>3, <2>4, <2>5, <2>7, Zenon
<1>9. field \in asked <=> record.limits[field] = OnChain BY <1>8 DEF ReadLimits
<1> HIDE DEF got, asked
<1> QED BY <1>1, <1>2, <1>3, <1>4, <1>8, <1>9, Zenon

LEMMA ReadingNotes ==
  ASSUME HcuInv, pc = "limits", record' = record, NEW reading \in LimitResults, NEW f, NEW b, ReadingDone(reading, f, b)
  PROVE  /\ readings' \in Seq(LimitResults) /\ Len(readings') = Len(readings) + 1 /\ Len(readings) \in Nat
         /\ pc' = IF Len(readings) + 1 = 3 THEN "callers" ELSE "limits"
         /\ failures \cup f \subseteq failures' /\ blockers \cup b \subseteq blockers'
         /\ failures' = {} /\ Len(readings') = 3 => \A g \in MandatoryLimits : record.ceilings[g] = record.state.word[g]
<1>1. readings \in Seq(LimitResults) BY DEF HcuInv, LogInv
<1>2. readings' = Append(readings, reading) BY DEF ReadingDone
<1>3. readings' \in Seq(LimitResults) /\ Len(readings') = Len(readings) + 1 /\ Len(readings) \in Nat
  BY <1>1, <1>2
<1>4. PICK last \in BOOLEAN : last = (Len(readings') = 3) OBVIOUS
<1>5. PICK stored \in BOOLEAN : stored = ExpectationsStored(reading = MatchesOnChain) BY DEF ExpectationsStored
<1>6. PICK read : read = (readings'[1] = MatchesOnChain /\ readings'[2] = MatchesOnChain) OBVIOUS
<1>7. Continue(IF last THEN "callers" ELSE "limits",
               f \cup Unless(last => read /\ stored, "HCU_GETTER_STORAGE_MISMATCH"), b)
  <2>1. Continue(IF Len(readings') = Len(LimitFields) THEN "callers" ELSE "limits",
                 f \cup Unless(Len(readings') = Len(LimitFields) =>
                                 /\ readings'[1] = MatchesOnChain /\ readings'[2] = MatchesOnChain
                                 /\ ExpectationsStored(reading = MatchesOnChain),
                               "HCU_GETTER_STORAGE_MISMATCH"), b)
    BY <1>2 DEF ReadingDone
  <2> QED BY <1>4, <1>5, <1>6, <2>1, LimitFieldNames DEF Unless
<1>8. /\ pc' = IF last THEN "callers" ELSE "limits"
      /\ failures \cup f \subseteq failures' /\ blockers \cup b \subseteq blockers'
      /\ failures' = {} /\ last => stored
  BY <1>7 DEF Continue, Unless
<1>9. stored => \A g \in MandatoryLimits : record.ceilings[g] = record.state.word[g] BY <1>5 DEF ExpectationsStored
<1> QED BY <1>3, <1>4, <1>8, <1>9

\* After a reading the verifier is where the plan is.
LEMMA AfterReading ==
  ASSUME HcuInv, pc = "limits", UNCHANGED <<record, pinned, callers>>, NEW n, n = Len(readings), Len(readings') = n + 1,
         pc' = IF n + 1 = 3 THEN "callers" ELSE "limits", cursor' = Len(log'),
         cursor' = 9 + (Extra(record.executor) + Extra(record.authority)) + Len(GettersUpTo(n + 1))
  PROVE  PlaceInv'
<1>1. n \in Nat /\ n < 3 /\ n + 1 \in Nat /\ Len(GettersUpTo(n + 1)) \in Nat
  <2>1. n \in Nat /\ n < 3 /\ Len(GettersUpTo(n + 1)) \in Nat BY NextGetter
  <2> QED BY <2>1
<1>2. PICK m : m = n + 1 OBVIOUS
<1>3. PICK b \in Nat : b = Extra(record.executor) + Extra(record.authority) BY PlanLengths
<1>4. pinned' /\ callers' = <<>> BY DEF HcuInv, PlaceInv, Asking, Identifying
<1>5. cursor' = 9 + b + Len(GettersUpTo(m)) /\ Len(GettersUpTo(m)) \in Nat BY <1>1, <1>2, <1>3, Zenon
<1>6. GettersUpTo(Len(readings))' = GettersUpTo(m) /\ m \in Nat BY <1>1, <1>2 DEF GettersUpTo
<1>7. CASE m # 3
  <2>1. pc' = "limits" BY <1>2, <1>7
  <2>2. Issued' = 9 + b + Len(GettersUpTo(m)) BY <1>3, <1>6, <2>1 DEF Issued
  <2>3. Len(readings') < Len(LimitFields)
    <3>1. Len(readings') = m /\ m < 3 BY <1>1, <1>2, <1>7
    <3> QED BY <3>1, LimitFieldNames
  <2> QED BY <1>4, <1>5, <2>1, <2>2, <2>3 DEF PlaceInv, Identifying, BeforeAuthority, BeforeExecutor
<1>8. CASE m = 3
  <2>1. pc' = "callers" BY <1>2, <1>8
  <2>2. Len(callers') = 0 BY <1>4
  <2>3. Len(SubjectsUpTo(Len(callers))') = 0
    <3>1. SubjectsUpTo(Len(callers))' = SubjectsUpTo(0) BY <2>2 DEF SubjectsUpTo
    <3>2. SubjectsUpTo(0) = <<>> BY NoneListed
    <3>3. Len(SubjectsUpTo(0)) = 0 BY <3>2
    <3> QED BY <3>1, <3>3, Zenon
  <2>4. GettersUpTo(Len(LimitFields))' = GettersUpTo(m) BY <1>8, LimitFieldNames DEF GettersUpTo
  <2>5. PICK k \in Nat : k = Len(GettersUpTo(m)) BY <1>5
  <2>6. Issued' = 9 + b + k + 0 BY <1>3, <2>1, <2>3, <2>4, <2>5 DEF Issued
  <2>7. cursor' = Issued' BY <1>5, <2>5, <2>6
  <2>8. Len(readings') = Len(LimitFields) BY <1>2, <1>8, LimitFieldNames
  <2>9. Len(callers') < Len(Callers) BY <2>2, CallerNames
  <2> QED BY <1>4, <2>1, <2>7, <2>8, <2>9 DEF PlaceInv, Identifying, BeforeAuthority, BeforeExecutor
<1> QED BY <1>7, <1>8

\* What an answer that is not the record's leaves behind is noted.
LEMMA NotedGrows ==
  ASSUME HcuInv, NEW a, DOMAIN log' = DOMAIN log \cup {Len(log) + 1}, \A i \in DOMAIN log : log'[i] = log[i],
         log'[Len(log) + 1].answer = a,
         failures \subseteq failures', blockers \subseteq blockers',
         "EXEMPT" \in ToSet(callers) => "EXEMPT" \in ToSet(callers'),
         failures' = {} /\ blockers' = {} /\ "EXEMPT" \notin ToSet(callers') => a = "bound"
  PROVE  failures' = {} /\ blockers' = {} /\ "EXEMPT" \notin ToSet(callers') =>
           \A i \in DOMAIN log' : log'[i].answer = "bound"
<1>1. SUFFICES ASSUME failures' = {}, blockers' = {}, "EXEMPT" \notin ToSet(callers'), NEW i \in DOMAIN log'
      PROVE  log'[i].answer = "bound"
  OBVIOUS
<1>2. failures = {} /\ blockers = {} /\ "EXEMPT" \notin ToSet(callers) BY <1>1
<1>3. CASE i \in DOMAIN log BY <1>2, <1>3 DEF HcuInv, NotedInv
<1>4. CASE i = Len(log) + 1 BY <1>1, <1>4
<1> QED BY <1>1, <1>3, <1>4

\* What an accepted record satisfies, of all that is validated.
LEMMA ValidRecord ==
  ASSUME NEW r, validateAuthorityBindingRecord(r) = {}
  PROVE  /\ deriveAuthorityFromSourceMaterial(r) = {} /\ ExecutorClaimErrors(r) = {}
         /\ r.ceilings = Ceilings
         /\ \A f \in MandatoryLimits : r.limits[f] \in {OnChain, Absent}
         /\ r.limits["blockOrBatchCap"] \in {OnChain, Absent, NotApplicable}
<1>1. /\ deriveAuthorityFromSourceMaterial(r) = {} /\ ExecutorClaimErrors(r) = {}
      /\ LimitErrors(r) = {} /\ AvailabilityErrors(r) = {}
  BY DEF validateAuthorityBindingRecord
<1>2. When(r.ceilings # Ceilings, "must equal the protocol-pinned limits") = {} BY <1>1 DEF LimitErrors
<1>3. /\ When(\E f \in MandatoryLimits : r.limits[f] \notin {OnChain, Absent}, "is mandatory") = {}
      /\ When(r.limits["blockOrBatchCap"] \notin {OnChain, Absent, NotApplicable}, "must be a declared availability state") = {}
  BY <1>1 DEF AvailabilityErrors
<1> QED BY <1>1, <1>2, <1>3 DEF When

LEMMA readLimitGetterKeeps ==
  ASSUME HcuInv, readLimitGetter
  PROVE  HcuInv'
<1> DEFINE to == roles.AUTHORITY
<1>1. PICK n : n = Len(readings) OBVIOUS
<1>2. PICK field : field = LimitFields[n + 1] OBVIOUS
<1>3. pc = "limits" /\ pc \in Asking /\ pc \notin BeforeAuthority
  BY DEF readLimitGetter, Asking, Identifying, BeforeAuthority, BeforeExecutor
<1>4. /\ n \in Nat /\ n < 3 /\ field \in Limits
      /\ cursor = 9 + (Extra(record.executor) + Extra(record.authority)) + Len(GettersUpTo(n))
      /\ Len(GettersUpTo(n)) \in Nat /\ Len(GettersUpTo(n + 1)) \in Nat
      /\ record.limits[field] = OnChain => /\ Enforced(field, to)
                                           /\ Len(GettersUpTo(n + 1)) = Len(GettersUpTo(n)) + 1
      /\ record.limits[field] # OnChain => Len(GettersUpTo(n + 1)) = Len(GettersUpTo(n))
  BY <1>1, <1>2, <1>3, NextGetter
<1>5. PICK b \in Nat : b = Extra(record.executor) + Extra(record.authority) BY PlanLengths
<1>6. ASSUME NEW reading \in LimitResults, NEW f, NEW bb, ReadingDone(reading, f, bb),
             UNCHANGED <<repository, record, tools, mode, lineage, verdict, pinned, callers, results>>,
             RolesInv', IdentityPlace', UnverifiedNeverAsked', ~violated', log' \in Seq(Request),
             Len(log') <= Len(livePlan'), \A i \in DOMAIN log' : log'[i].what = livePlan'[i].what,
             cursor' = Len(log'),
             cursor' = 9 + (Extra(record.executor) + Extra(record.authority)) + Len(GettersUpTo(n + 1)),
             failures' = {} /\ blockers' = {} /\ "EXEMPT" \notin ToSet(callers') =>
               \A i \in DOMAIN log' : log'[i].answer = "bound"
      PROVE  HcuInv'
  <2>1. /\ readings' \in Seq(LimitResults) /\ Len(readings') = n + 1
        /\ pc' = IF n + 1 = 3 THEN "callers" ELSE "limits"
        /\ failures' = {} /\ Len(readings') = 3 => \A g \in MandatoryLimits : record.ceilings[g] = record.state.word[g]
    BY <1>1, <1>3, <1>6, ReadingNotes
  <2>2. PlaceInv' BY <1>1, <1>3, <1>6, <2>1, AfterReading
  <2>3. LogInv' BY <1>6, <2>1 DEF HcuInv, LogInv
  <2>4. NotedInv'
    <3>1. /\ DOMAIN results = DOMAIN NoResults
          /\ results.coverage = "COMPLETE" => pricingComparisonBlockers(record) = {}
      BY DEF HcuInv, NotedInv
    <3>2. failures' = {} /\ Len(readings') >= Len(LimitFields) =>
            \A g \in MandatoryLimits : record'.ceilings[g] = record'.state.word[g]
      <4>1. Len(readings') >= Len(LimitFields) => Len(readings') = 3
        <5>1. n + 1 <= 3 /\ n + 1 \in Nat BY <1>4
        <5> QED BY <2>1, <5>1, LimitFieldNames
      <4> QED BY <1>6, <2>1, <4>1
    <3> QED BY <1>6, <3>1, <3>2 DEF NotedInv
  <2>5. pc' \in Asking BY <2>1 DEF Asking
  <2> QED BY <1>3, <1>6, <2>2, <2>3, <2>4, <2>5, Assembled
<1>7. CASE record.limits[field] = OnChain
  <2>1. Guarded(field, to) BY <1>1, <1>2, <1>7 DEF readLimitGetter
  <2>2. CASE Unanswered BY <1>3, <1>4, <1>7, <2>1, <2>2, UnansweredStep
  <2>3. ASSUME NEW a \in Answers(field, to), Answered(field, to, a),
               CASE a = "bad" -> ReadingDone("MISMATCH", {"LIMIT_GETTER_MALFORMED_RESULT"}, {})
                 [] a # "bad" /\ ~HasExpectation(field) ->
                      ReadingDone("UNRESOLVED", {}, {"LIMIT_GETTER_EXPECTATION_MISSING"})
                 [] a = "bound" /\ HasExpectation(field) -> ReadingDone(MatchesOnChain, {}, {})
                 [] a = "other" /\ HasExpectation(field) ->
                      ReadingDone("MISMATCH", {"ON_CHAIN_LIMIT_MISMATCH"}, {}),
               UNCHANGED <<roles, pinned, callers, results>>
        PROVE  HcuInv'
    <3>1. a \in {"bound", "other", "bad"} /\ a \in AnswerKinds /\ field \in AuthorityQuestions
      BY <1>4, AnswersAre, LimitFieldSet, QuestionNames DEF PlainQuestions, AnswerKinds
    <3>2. PICK reading, f, bb : reading \in LimitResults /\ ReadingDone(reading, f, bb) /\ (a # "bound" => f \cup bb # {})
      <4>1. "MISMATCH" \in LimitResults /\ "UNRESOLVED" \in LimitResults /\ MatchesOnChain \in LimitResults
        BY DEF LimitResults
      <4>2. CASE a = "bad" BY <2>3, <4>1, <4>2
      <4>3. CASE a # "bad" /\ ~HasExpectation(field) BY <2>3, <4>1, <4>3
      <4>4. CASE a = "bound" /\ HasExpectation(field) BY <2>3, <4>1, <4>4
      <4>5. CASE a = "other" /\ HasExpectation(field) BY <2>3, <4>1, <4>5
      <4> QED BY <3>1, <4>2, <4>3, <4>4, <4>5
    <3>3. record' = record BY <2>1 DEF Guarded
    <3>4. /\ pc' = IF n + 1 = 3 THEN "callers" ELSE "limits"
          /\ failures \cup f \subseteq failures' /\ blockers \cup bb \subseteq blockers'
      BY <1>1, <1>3, <3>2, <3>3, ReadingNotes
    <3>5. pc' \in Asking \ BeforeAuthority BY <3>4 DEF Asking, Identifying, BeforeAuthority, BeforeExecutor
    <3>6. /\ UnverifiedNeverAsked' /\ IdentityPlace' /\ RolesInv'
          /\ log' \in Seq(Request) /\ Len(log') <= Len(livePlan')
          /\ \A i \in DOMAIN log' : log'[i].what = livePlan'[i].what
          /\ DOMAIN log' = DOMAIN log \cup {Len(log) + 1}
          /\ \A i \in DOMAIN log : log'[i] = log[i]
          /\ log'[Len(log) + 1].answer = a
          /\ UNCHANGED <<repository, record, tools, mode, lineage, verdict>> /\ ~violated'
          /\ cursor' = cursor + 1 /\ cursor' = Len(log') /\ cursor \in Nat
      BY <1>3, <2>1, <2>3, <3>1, <3>5, AuthorityPhase
    <3>7. failures' = {} /\ blockers' = {} /\ "EXEMPT" \notin ToSet(callers') =>
            \A i \in DOMAIN log' : log'[i].answer = "bound"
      <4>1. failures \subseteq failures' /\ blockers \subseteq blockers' /\ ToSet(callers') = ToSet(callers)
            /\ (failures' = {} /\ blockers' = {} => a = "bound")
        BY <2>3, <3>2, <3>4
      <4> QED BY <3>6, <4>1, NotedGrows
    <3>8. cursor' = 9 + (Extra(record.executor) + Extra(record.authority)) + Len(GettersUpTo(n + 1))
      <4>1. PICK k \in Nat : k = Len(GettersUpTo(n)) BY <1>4
      <4>2. cursor = 9 + b + k /\ Len(GettersUpTo(n + 1)) = k + 1 BY <1>4, <1>5, <1>7, <4>1, Zenon
      <4>3. cursor' = 9 + b + (k + 1) BY <3>6, <4>2
      <4> QED BY <1>5, <4>2, <4>3, Zenon
    <3> HIDE DEF to
    <3> QED BY <1>6, <2>3, <3>2, <3>6, <3>7, <3>8
  <2> QED BY <1>1, <1>2, <1>7, <2>2, <2>3 DEF readLimitGetter
<1>8. CASE record.limits[field] # OnChain
  <2>1. UnreadLimit(field) BY <1>1, <1>2, <1>8 DEF readLimitGetter
  <2>2. PICK reading, f, bb : reading \in LimitResults /\ ReadingDone(reading, f, bb)
    <3>1. "UNRESOLVED" \in LimitResults /\ NotApplicable \in LimitResults /\ FromArtifact \in LimitResults
      BY DEF LimitResults
    <3>2. record.limits[field] = Absent \/ (record.limits[field] = NotApplicable /\ ~Mandatory(field))
      <4>1. lineage = "VERIFIED" BY <1>3 DEF HcuInv, StartInv
      <4>2. validateAuthorityBindingRecord(record) = {} BY <4>1 DEF HcuInv, LineageInv
      <4>3. /\ \A f \in MandatoryLimits : record.limits[f] \in {OnChain, Absent}
            /\ record.limits["blockOrBatchCap"] \in {OnChain, Absent, NotApplicable}
        BY <4>2, ValidRecord
      <4>4. field \in MandatoryLimits \/ field = "blockOrBatchCap" BY <1>4 DEF Limits
      <4> QED BY <1>8, <4>3, <4>4 DEF Mandatory, MandatoryLimits
    <3>3. record.limits[field] = Absent => record.limits[field] # NotApplicable BY DEF Absent, NotApplicable
    <3>4. CASE record.limits[field] = Absent /\ HasExpectation(field)
      <4>1. ReadingDone(FromArtifact, {}, {}) BY <2>1, <3>3, <3>4 DEF UnreadLimit
      <4> QED BY <3>1, <4>1
    <3>5. CASE record.limits[field] = Absent /\ ~HasExpectation(field)
      <4>1. ReadingDone("UNRESOLVED", {}, {"LIMIT_ARTIFACT_PROOF_INCOMPLETE"}) BY <2>1, <3>3, <3>5 DEF UnreadLimit
      <4> QED BY <3>1, <4>1
    <3>6. CASE record.limits[field] = NotApplicable /\ ~Mandatory(field)
      <4>1. ReadingDone(NotApplicable, {}, {}) BY <2>1, <3>3, <3>6 DEF UnreadLimit
      <4> QED BY <3>1, <4>1
    <3> QED BY <3>2, <3>4, <3>5, <3>6
  <2>3. UNCHANGED <<repository, record, tools, mode, lineage, roles, pinned, cursor, log, violated, callers, results, verdict>>
    BY <2>1 DEF UnreadLimit
  <2>4. /\ pc' = IF n + 1 = 3 THEN "callers" ELSE "limits"
        /\ failures \cup f \subseteq failures' /\ blockers \cup bb \subseteq blockers'
    BY <1>1, <1>3, <2>2, <2>3, ReadingNotes
  <2>5. pc' \in Asking \ BeforeAuthority BY <2>4 DEF Asking, Identifying, BeforeAuthority, BeforeExecutor
  <2>6. RolesInv' BY <2>3, <2>5 DEF HcuInv, RolesInv, BeforeAuthority, BeforeExecutor
  <2>7. IdentityPlace'
    BY <1>3, <2>3, <2>5 DEF HcuInv, IdentityInv, IdentityPlace, IdentifiedAs, Asking, Identifying, BeforeAuthority, BeforeExecutor
  <2>8. UnverifiedNeverAsked' BY <2>3 DEF HcuInv, IdentityInv, UnverifiedNeverAsked
  <2>9. /\ ~violated' /\ log' \in Seq(Request) /\ Len(log') <= Len(livePlan')
        /\ \A i \in DOMAIN log' : log'[i].what = livePlan'[i].what
    <3>1. livePlan' = livePlan BY <2>3 DEF livePlan
    <3> QED BY <2>3, <3>1 DEF HcuInv, LogInv
  <2>10. cursor' = Len(log')
         /\ cursor' = 9 + (Extra(record.executor) + Extra(record.authority)) + Len(GettersUpTo(n + 1))
    <3>1. cursor = Len(log) BY <1>3 DEF HcuInv, PlaceInv
    <3> QED BY <1>4, <1>8, <2>3, <3>1, Zenon
  <2>11. failures' = {} /\ blockers' = {} /\ "EXEMPT" \notin ToSet(callers') =>
            \A i \in DOMAIN log' : log'[i].answer = "bound"
    BY <2>3, <2>4 DEF HcuInv, NotedInv
  <2> QED BY <1>6, <2>2, <2>3, <2>6, <2>7, <2>8, <2>9, <2>10, <2>11
<1> QED BY <1>7, <1>8

\* The subject the verifier comes to is the next call of the plan, or none.
LEMMA NextSubject ==
  ASSUME HcuInv, pc = "callers", NEW n, n = Len(callers), NEW subject, subject = Callers[n + 1]
  PROVE  /\ n \in Nat /\ n < Len(Callers) /\ subject \in ToSet(Callers)
         /\ cursor = 9 + (Extra(record.executor) + Extra(record.authority)) + Len(GettersUpTo(3)) + Len(SubjectsUpTo(n))
         /\ Len(SubjectsUpTo(n)) \in Nat /\ Len(SubjectsUpTo(n + 1)) \in Nat
         /\ record.callers[subject] = "AVAILABLE" => /\ Enforced(subject, roles.AUTHORITY)
                                                     /\ Len(SubjectsUpTo(n + 1)) = Len(SubjectsUpTo(n)) + 1
         /\ record.callers[subject] # "AVAILABLE" => Len(SubjectsUpTo(n + 1)) = Len(SubjectsUpTo(n))
<1> DEFINE asked == AskedCallers(record)
           got == Filtered(Callers, asked)
<1>1. n \in Nat /\ n < Len(Callers)
  <2>1. callers \in Seq(CallerResults) /\ Len(callers) < Len(Callers) BY DEF HcuInv, LogInv, PlaceInv
  <2>2. Len(callers) \in Nat BY <2>1
  <2> QED BY <2>1, <2>2, Zenon
<1>2. PICK b \in Nat : b = Extra(record.executor) + Extra(record.authority) BY PlanLengths
<1>3. PICK g \in Nat : g = Len(GettersUpTo(3)) BY PlanLengths
<1>4. PICK m \in Nat : m = Len(Callers) BY CallerNames
<1>5. cursor = 9 + b + g + Len(SubjectsUpTo(n)) /\ pinned
  BY <1>2, <1>3, LimitFieldNames DEF HcuInv, PlaceInv, Issued, Asking, Identifying
<1>6. SubjectsUpTo(n) = got[n] /\ SubjectsUpTo(n + 1) = got[n + 1] /\ SubjectsUpTo(m) = got[m] BY DEF SubjectsUpTo
<1>7. \A i \in 1 .. Len(got[m]) : livePlan[9 + b + g + i] = Planned(got[m][i], "AUTHORITY", TRUE)
  BY <1>2, <1>3, <1>4, <1>6, PlanLayout, LimitFieldNames, Zenon
<1>8. Len(livePlan) \in Nat /\ 9 + b + g + Len(got[m]) <= Len(livePlan)
  <2>1. PICK c \in Nat : c = Len(SubjectsUpTo(m)) BY <1>4, PlanLengths
  <2>2. Len(livePlan) = 9 + b + g + c BY <1>2, <1>3, <1>4, <2>1, PlanLengths, Zenon
  <2>3. PICK p : p = Len(livePlan) OBVIOUS
  <2>4. p \in Nat /\ 9 + b + g + c <= p
    <3>1. p = 9 + b + g + c BY <2>2, <2>3, Zenon
    <3> QED BY <3>1
  <2> QED BY <1>6, <2>1, <2>3, <2>4, Zenon
<1>9. PICK from \in Nat : from = 9 + b + g OBVIOUS
<1>10. /\ Callers[n + 1] \in ToSet(Callers)
       /\ Len(got[n]) \in Nat /\ Len(got[n + 1]) \in Nat
       /\ Callers[n + 1] \in asked => Enforced(Callers[n + 1], roles.AUTHORITY) /\ Len(got[n + 1]) = Len(got[n]) + 1
       /\ Callers[n + 1] \notin asked => Len(got[n + 1]) = Len(got[n])
  <2>1. PICK all : all = Callers OBVIOUS
  <2>2. PICK G : G = got OBVIOUS
  <2>3. PICK W : W = asked OBVIOUS
  <2>4. PICK S : S = ToSet(Callers) OBVIOUS
  <2>5. G = Filtered(all, W) BY <2>1, <2>2, <2>3, Zenon
  <2> HIDE DEF got, asked
  <2>6. /\ all \in Seq(S) /\ m \in Nat /\ m = Len(all) /\ n < m
        /\ cursor = from + Len(G[n]) /\ Len(livePlan) \in Nat
        /\ from + Len(G[m]) <= Len(livePlan) /\ pinned
        /\ \A i \in 1 .. Len(G[m]) : livePlan[from + i] = Planned(G[m][i], "AUTHORITY", TRUE)
    <3>1. Callers \in Seq(ToSet(Callers)) BY CallerNames
    <3> QED BY <1>1, <1>4, <1>5, <1>6, <1>7, <1>8, <1>9, <2>1, <2>2, <2>4, <3>1, Zenon
  <2>7. ComesTo(S, all, W, n, m, G, from) BY <1>1, <2>5, <2>6, Zenon DEF ComesTo
  <2>8. all[n + 1] \in S /\ Len(G[n]) \in Nat /\ Len(G[n + 1]) \in Nat BY <2>7, NextCall, Zenon
  <2>9. all[n + 1] \in W => Enforced(all[n + 1], roles.AUTHORITY) BY <2>7, NextCall, Zenon
  <2>10. all[n + 1] \in W => Len(G[n + 1]) = Len(G[n]) + 1 BY <2>7, NextCall
  <2>11. all[n + 1] \notin W => Len(G[n + 1]) = Len(G[n]) BY <2>7, NextCall
  <2> QED BY <2>1, <2>2, <2>3, <2>4, <2>8, <2>9, <2>10, <2>11, Zenon
<1>11. subject \in asked <=> record.callers[subject] = "AVAILABLE" BY <1>10 DEF AskedCallers
<1> HIDE DEF got, asked
<1> QED BY <1>1, <1>2, <1>3, <1>5, <1>6, <1>10, <1>11, Zenon

LEMMA CallerNotes ==
  ASSUME HcuInv, pc = "callers", record' = record, NEW result \in CallerResults, NEW f, CallerDone(result, f)
  PROVE  /\ callers' \in Seq(CallerResults) /\ Len(callers') = Len(callers) + 1
         /\ result \in ToSet(callers') /\ ToSet(callers) \subseteq ToSet(callers')
         /\ pc' = IF Len(callers) + 1 = Len(Callers) THEN "conclude" ELSE "callers"
         /\ failures \cup f \subseteq failures' /\ blockers \subseteq blockers'
         /\ DOMAIN results' = DOMAIN NoResults
         /\ results'.coverage = "COMPLETE" => pricingComparisonBlockers(record) = {}
<1>1. callers \in Seq(CallerResults) BY DEF HcuInv, LogInv
<1>2. callers' = Append(callers, result) BY DEF CallerDone
<1>3. /\ callers' \in Seq(CallerResults) /\ Len(callers') = Len(callers) + 1 /\ Len(callers) \in Nat
      /\ DOMAIN callers' = DOMAIN callers \cup {Len(callers) + 1}
      /\ \A i \in DOMAIN callers : callers'[i] = callers[i]
      /\ callers'[Len(callers) + 1] = result
  BY <1>1, <1>2, OneMore
<1>4. result \in ToSet(callers') /\ ToSet(callers) \subseteq ToSet(callers') BY <1>3 DEF ToSet
<1>5. PICK last \in BOOLEAN : last = (Len(callers) + 1 = Len(Callers)) OBVIOUS
<1>6. PICK priced \in BOOLEAN : priced = (pricingComparisonBlockers(record) = {}) OBVIOUS
<1>7. /\ Continue(IF last THEN "conclude" ELSE "callers", f \cup Unless(last => priced, "SG4_VARIANT_COMPATIBILITY"), {})
      /\ IF last THEN Result("coverage", IF priced THEN "COMPLETE" ELSE "INCOMPLETE") ELSE UNCHANGED results
  BY <1>5, <1>6 DEF CallerDone, Unless
<1>8. /\ DOMAIN results = DOMAIN NoResults /\ "coverage" \in DOMAIN results
      /\ results.coverage = "COMPLETE" => priced
  BY <1>6 DEF HcuInv, NotedInv, NoResults
<1>9. DOMAIN results' = DOMAIN NoResults /\ (results'.coverage = "COMPLETE" => priced) BY <1>7, <1>8 DEF Result
<1>10. /\ pc' = IF last THEN "conclude" ELSE "callers"
       /\ failures \cup f \subseteq failures' /\ blockers \subseteq blockers'
  BY <1>7 DEF Continue
<1> QED BY <1>3, <1>4, <1>5, <1>6, <1>9, <1>10, Zenon

\* After a subject the verifier is where the plan is, or done with it.
LEMMA AfterSubject ==
  ASSUME HcuInv, pc = "callers", UNCHANGED <<record, pinned, readings>>, NEW n, n = Len(callers), Len(callers') = n + 1,
         pc' = IF n + 1 = Len(Callers) THEN "conclude" ELSE "callers", cursor' = Len(log'),
         cursor' = 9 + (Extra(record.executor) + Extra(record.authority)) + Len(GettersUpTo(3)) + Len(SubjectsUpTo(n + 1))
  PROVE  PlaceInv'
<1>1. n \in Nat /\ n < Len(Callers)
  <2>1. n \in Nat /\ n < Len(Callers) BY NextSubject
  <2> QED BY <2>1
<1>2. pinned' /\ Len(readings') = Len(LimitFields) BY DEF HcuInv, PlaceInv, Asking, Identifying
<1>3. CASE n + 1 = Len(Callers)
  <2>1. pc' = "conclude" BY <1>3
  <2> QED BY <2>1 DEF PlaceInv, Asking, Identifying, BeforeAuthority, BeforeExecutor
<1>4. CASE n + 1 # Len(Callers)
  <2>1. pc' = "callers" BY <1>4
  <2>2. PICK m : m = n + 1 OBVIOUS
  <2>3. SubjectsUpTo(Len(callers))' = SubjectsUpTo(m) /\ GettersUpTo(Len(LimitFields))' = GettersUpTo(3)
    BY <2>2, LimitFieldNames DEF SubjectsUpTo, GettersUpTo
  <2>4. Issued' = 9 + (Extra(record.executor) + Extra(record.authority)) + Len(GettersUpTo(3)) + Len(SubjectsUpTo(m))
    BY <2>1, <2>3 DEF Issued
  <2>5. cursor' = Issued' BY <2>2, <2>4, Zenon
  <2>6. Len(callers') < Len(Callers) BY <1>1, <1>4, CallerNames
  <2> QED BY <1>2, <2>1, <2>5, <2>6 DEF PlaceInv, Identifying, BeforeAuthority, BeforeExecutor
<1> QED BY <1>3, <1>4

LEMMA CallerApplicabilityKeeps ==
  ASSUME HcuInv, CallerApplicability
  PROVE  HcuInv'
<1> DEFINE to == roles.AUTHORITY
<1>1. PICK n : n = Len(callers) OBVIOUS
<1>2. PICK subject : subject = Callers[n + 1] OBVIOUS
<1>3. pc = "callers" /\ pc \in Asking /\ pc \notin BeforeAuthority
  BY DEF CallerApplicability, Asking, Identifying, BeforeAuthority, BeforeExecutor
<1>4. /\ n \in Nat /\ n < Len(Callers) /\ subject \in ToSet(Callers)
      /\ cursor = 9 + (Extra(record.executor) + Extra(record.authority)) + Len(GettersUpTo(3)) + Len(SubjectsUpTo(n))
      /\ Len(SubjectsUpTo(n)) \in Nat /\ Len(SubjectsUpTo(n + 1)) \in Nat
      /\ record.callers[subject] = "AVAILABLE" => /\ Enforced(subject, to)
                                                  /\ Len(SubjectsUpTo(n + 1)) = Len(SubjectsUpTo(n)) + 1
      /\ record.callers[subject] # "AVAILABLE" => Len(SubjectsUpTo(n + 1)) = Len(SubjectsUpTo(n))
  BY <1>1, <1>2, <1>3, NextSubject
<1>5. PICK b \in Nat : b = Extra(record.executor) + Extra(record.authority) BY PlanLengths
<1>6. PICK g \in Nat : g = Len(GettersUpTo(3)) BY PlanLengths
<1>7. ASSUME NEW result \in CallerResults, NEW f, CallerDone(result, f),
             UNCHANGED <<repository, record, tools, mode, lineage, verdict, pinned, readings>>,
             RolesInv', IdentityPlace', UnverifiedNeverAsked', ~violated', log' \in Seq(Request),
             Len(log') <= Len(livePlan'), \A i \in DOMAIN log' : log'[i].what = livePlan'[i].what,
             cursor' = Len(log'),
             cursor' = 9 + (Extra(record.executor) + Extra(record.authority)) + Len(GettersUpTo(3)) + Len(SubjectsUpTo(n + 1)),
             failures' = {} /\ blockers' = {} /\ "EXEMPT" \notin ToSet(callers') =>
               \A i \in DOMAIN log' : log'[i].answer = "bound"
      PROVE  HcuInv'
  <2>1. /\ callers' \in Seq(CallerResults) /\ Len(callers') = n + 1
        /\ pc' = IF n + 1 = Len(Callers) THEN "conclude" ELSE "callers"
        /\ failures \subseteq failures'
        /\ DOMAIN results' = DOMAIN NoResults
        /\ results'.coverage = "COMPLETE" => pricingComparisonBlockers(record) = {}
    BY <1>1, <1>3, <1>7, CallerNotes
  <2>2. PlaceInv' BY <1>1, <1>3, <1>7, <2>1, AfterSubject
  <2>3. LogInv' BY <1>7, <2>1 DEF HcuInv, LogInv
  <2>4. NotedInv'
    <3>1. failures = {} /\ Len(readings) >= Len(LimitFields) => \A h \in MandatoryLimits : record.ceilings[h] = record.state.word[h]
      BY DEF HcuInv, NotedInv
    <3>2. failures' = {} => failures = {} BY <2>1
    <3> QED BY <1>7, <2>1, <3>1, <3>2 DEF NotedInv
  <2>5. pc' \in Asking \cup {"conclude"} BY <2>1 DEF Asking
  <2> QED BY <1>3, <1>7, <2>2, <2>3, <2>4, <2>5, Assembled
<1>8. CASE record.callers[subject] = "AVAILABLE"
  <2>1. Guarded(subject, to) BY <1>1, <1>2, <1>8 DEF CallerApplicability
  <2>2. CASE Unanswered BY <1>3, <1>4, <1>8, <2>1, <2>2, UnansweredStep
  <2>3. ASSUME NEW a \in Answers(subject, to), Answered(subject, to, a),
               CASE a = "bound" -> CallerDone("NOT_EXEMPT", {})
                 [] a = "exempt" -> CallerDone("EXEMPT", {})
                 [] a = "other" -> CallerDone("UNKNOWN_EXEMPTION", {"CALLER_APPLICABILITY_UNEXPECTED_RESULT"})
                 [] a = "bad" -> CallerDone("MALFORMED", {"CALLER_APPLICABILITY_MALFORMED_RESULT"}),
               UNCHANGED <<roles, pinned, readings>>
        PROVE  HcuInv'
    <3>1. a \in {"bound", "exempt", "other", "bad"} /\ a \in AnswerKinds /\ subject \in AuthorityQuestions
      BY <1>4, AnswersAre, QuestionNames DEF AnswerKinds
    <3>2. PICK result, f : result \in CallerResults /\ CallerDone(result, f) /\ (a # "bound" => f # {} \/ result = "EXEMPT")
      BY <2>3, <3>1 DEF CallerResults
    <3>3. record' = record BY <2>1 DEF Guarded
    <3>4. /\ pc' = IF n + 1 = Len(Callers) THEN "conclude" ELSE "callers"
          /\ failures \cup f \subseteq failures' /\ blockers \subseteq blockers'
          /\ result \in ToSet(callers') /\ ToSet(callers) \subseteq ToSet(callers')
      BY <1>1, <1>3, <3>2, <3>3, CallerNotes
    <3>5. pc' \in (Asking \ BeforeAuthority) \cup {"conclude"} BY <3>4 DEF Asking, Identifying, BeforeAuthority, BeforeExecutor
    <3>6. /\ UnverifiedNeverAsked' /\ IdentityPlace' /\ RolesInv'
          /\ log' \in Seq(Request) /\ Len(log') <= Len(livePlan')
          /\ \A i \in DOMAIN log' : log'[i].what = livePlan'[i].what
          /\ DOMAIN log' = DOMAIN log \cup {Len(log) + 1}
          /\ \A i \in DOMAIN log : log'[i] = log[i]
          /\ log'[Len(log) + 1].answer = a
          /\ UNCHANGED <<repository, record, tools, mode, lineage, verdict>> /\ ~violated'
          /\ cursor' = cursor + 1 /\ cursor' = Len(log') /\ cursor \in Nat
      BY <1>3, <2>1, <2>3, <3>1, <3>5, AuthorityPhase
    <3>7. failures' = {} /\ blockers' = {} /\ "EXEMPT" \notin ToSet(callers') =>
            \A i \in DOMAIN log' : log'[i].answer = "bound"
      <4>1. /\ failures \subseteq failures' /\ blockers \subseteq blockers'
            /\ "EXEMPT" \in ToSet(callers) => "EXEMPT" \in ToSet(callers')
            /\ failures' = {} /\ blockers' = {} /\ "EXEMPT" \notin ToSet(callers') => a = "bound"
        BY <3>2, <3>4
      <4> QED BY <3>6, <4>1, NotedGrows
    <3>8. cursor' = 9 + (Extra(record.executor) + Extra(record.authority)) + Len(GettersUpTo(3)) + Len(SubjectsUpTo(n + 1))
      <4>1. PICK k \in Nat : k = Len(SubjectsUpTo(n)) BY <1>4
      <4>2. cursor = 9 + b + g + k /\ Len(SubjectsUpTo(n + 1)) = k + 1 BY <1>4, <1>5, <1>6, <1>8, <4>1, Zenon
      <4>3. cursor' = 9 + b + g + (k + 1) BY <3>6, <4>2
      <4> QED BY <1>5, <1>6, <4>2, <4>3, Zenon
    <3> HIDE DEF to
    <3> QED BY <1>7, <2>3, <3>2, <3>6, <3>7, <3>8
  <2> QED BY <1>1, <1>2, <1>8, <2>2, <2>3 DEF CallerApplicability
<1>9. CASE record.callers[subject] # "AVAILABLE"
  <2>1. /\ CallerDone("NOT_APPLICABLE_WITH_PROOF", {})
        /\ UNCHANGED <<repository, record, tools, mode, lineage, roles, pinned, cursor, log, violated, readings, verdict>>
    BY <1>1, <1>2, <1>9 DEF CallerApplicability
  <2>2. "NOT_APPLICABLE_WITH_PROOF" \in CallerResults BY DEF CallerResults
  <2>4. /\ pc' = IF n + 1 = Len(Callers) THEN "conclude" ELSE "callers"
        /\ failures \subseteq failures' /\ blockers \subseteq blockers' /\ ToSet(callers) \subseteq ToSet(callers')
    BY <1>1, <1>3, <2>1, <2>2, CallerNotes
  <2>5. pc' \in (Asking \ BeforeAuthority) \cup {"conclude"} BY <2>4 DEF Asking, Identifying, BeforeAuthority, BeforeExecutor
  <2>6. RolesInv' BY <2>1, <2>5 DEF HcuInv, RolesInv, BeforeAuthority, BeforeExecutor
  <2>7. IdentityPlace'
    BY <1>3, <2>1, <2>5 DEF HcuInv, IdentityInv, IdentityPlace, IdentifiedAs, Asking, Identifying, BeforeAuthority, BeforeExecutor
  <2>8. UnverifiedNeverAsked' BY <2>1 DEF HcuInv, IdentityInv, UnverifiedNeverAsked
  <2>9. /\ ~violated' /\ log' \in Seq(Request) /\ Len(log') <= Len(livePlan')
        /\ \A i \in DOMAIN log' : log'[i].what = livePlan'[i].what
    <3>1. livePlan' = livePlan BY <2>1 DEF livePlan
    <3> QED BY <2>1, <3>1 DEF HcuInv, LogInv
  <2>10. cursor' = Len(log')
         /\ cursor' = 9 + (Extra(record.executor) + Extra(record.authority)) + Len(GettersUpTo(3)) + Len(SubjectsUpTo(n + 1))
    <3>1. cursor = Len(log) BY <1>3 DEF HcuInv, PlaceInv
    <3> QED BY <1>4, <1>9, <2>1, <3>1, Zenon
  <2>11. failures' = {} /\ blockers' = {} /\ "EXEMPT" \notin ToSet(callers') =>
            \A i \in DOMAIN log' : log'[i].answer = "bound"
    BY <2>1, <2>4 DEF HcuInv, NotedInv
  <2> QED BY <1>7, <2>1, <2>2, <2>6, <2>7, <2>8, <2>9, <2>10, <2>11
<1> QED BY <1>8, <1>9

-----------------------------------------------------------------------------
(* The beginning and the end of a run. *)

\* Before anything was asked.
LEMMA NothingAsked ==
  ASSUME log = <<>>
  PROVE  UnverifiedNeverAsked /\ NoneAsked(ExecutorQuestions) /\ NoneAsked(AuthorityQuestions)
         /\ Len(log) = 0 /\ log \in Seq(Request)
<1>1. DOMAIN log = {} /\ Len(log) = 0 /\ log \in Seq(Request) OBVIOUS
<1> QED BY <1>1 DEF UnverifiedNeverAsked, NoneAsked

LEMMA HcuInit ==
  ASSUME Init
  PROVE  HcuInv
<1>1. PICK c \in Cases : repository = c.repo /\ record = c.record /\ tools = c.tools /\ pc = c.start BY DEF Init
<1>2. /\ pc \in {"generate", "prepare"}
      /\ DOMAIN repository = {"branch", "dirty", "head", "binding"}
      /\ repository.head \in DOMAIN Parents /\ repository.dirty \subseteq {"tracked", "index", "untracked"}
      /\ {"executor", "authority", "entries"} \subseteq DOMAIN record /\ Readable(record)
      /\ record.executor \in {Proxy, Direct} /\ record.authority \in {Proxy, Direct}
  BY <1>1, AuthorityConfiguration
<1>3. pc \notin Asking BY <1>2 DEF Asking, Identifying, BeforeAuthority, BeforeExecutor
<1>4. /\ mode \in {"CANDIDATE", "POST_COMMIT"} /\ lineage = "UNRESOLVED" /\ pinned = FALSE /\ cursor = 0 /\ log = <<>>
      /\ violated = FALSE /\ failures = {} /\ blockers = {} /\ readings = <<>> /\ callers = <<>> /\ results = NoResults
      /\ verdict = "NONE"
  BY DEF Init
<1>5. results.coverage = "UNRESOLVED" BY <1>4 DEF NoResults
<1>6. /\ UnverifiedNeverAsked /\ Len(log) = 0 /\ log \in Seq(Request) BY <1>4, NothingAsked
<1>7. /\ roles.NONE = "none" /\ roles.EXECUTOR = "executor" /\ roles.EXECUTOR_IMPLEMENTATION = "unresolved"
      /\ roles.AUTHORITY = "unresolved" /\ roles.AUTHORITY_IMPLEMENTATION = "unresolved"
      /\ roles \in [RoleNames -> Addresses]
  BY DEF Init, RoleNames, Addresses
<1>8. StartInv BY <1>2, <1>3, <1>4, <1>5, <1>7 DEF StartInv
<1>9. LineageInv BY <1>4 DEF LineageInv
<1>10. RolesInv BY <1>2, <1>7 DEF RolesInv, BeforeExecutor
<1>11. LogInv
  <2>1. readings \in Seq(LimitResults) /\ callers \in Seq(CallerResults) BY <1>4
  <2>2. Len(log) <= Len(livePlan) BY <1>6, PlanLengths
  <2>3. \A i \in DOMAIN log : log[i].what = livePlan[i].what BY <1>4
  <2> QED BY <1>4, <1>6, <2>1, <2>2, <2>3 DEF LogInv
<1>12. PlaceInv BY <1>2, <1>3 DEF PlaceInv, Asking, Identifying, BeforeAuthority, BeforeExecutor
<1>13. IdentityInv BY <1>2, <1>3, <1>6 DEF IdentityInv, IdentityPlace, Asking, Identifying, BeforeAuthority, BeforeExecutor
<1>14. NotedInv
  <2>1. DOMAIN log = {} BY <1>4
  <2>2. ~(Len(readings) >= Len(LimitFields)) BY <1>4, LimitFieldNames
  <2> QED BY <1>4, <1>5, <2>1, <2>2 DEF NotedInv
<1>15. VerdictInv BY <1>4, <1>6 DEF VerdictInv, PassMeansVerified, PlanFollowed
<1> QED BY <1>8, <1>9, <1>10, <1>11, <1>12, <1>13, <1>14, <1>15 DEF HcuInv

LEMMA HcuStutters ==
  ASSUME HcuInv, UNCHANGED vars
  PROVE  HcuInv'
<1>1. UNCHANGED <<repository, record, tools, mode, lineage, pc, roles, pinned, cursor, log, violated, failures, blockers,
                  readings, callers, results, verdict>>
  BY DEF vars, runVars
<1>2. livePlan' = livePlan BY <1>1 DEF livePlan
<1>3. Issued' = Issued BY <1>1 DEF Issued, GettersUpTo, SubjectsUpTo
<1>4. StartInv' BY <1>1 DEF HcuInv, StartInv
<1>5. LineageInv' BY <1>1 DEF HcuInv, LineageInv, ReviewedCommit
<1>6. RolesInv' BY <1>1 DEF HcuInv, RolesInv
<1>7. LogInv' BY <1>1, <1>2 DEF HcuInv, LogInv
<1>8. PlaceInv' BY <1>1, <1>3 DEF HcuInv, PlaceInv
<1>9. UnverifiedNeverAsked' BY <1>1 DEF HcuInv, IdentityInv, UnverifiedNeverAsked
<1>10. IdentityPlace' BY <1>1 DEF HcuInv, IdentityInv, IdentityPlace, NoneAsked, IdentifiedAs
<1>11. NotedInv' BY <1>1 DEF HcuInv, NotedInv
<1>12. VerdictInv'
  <2>1. /\ verdict # "NONE" => pc = "done"
        /\ PlanFollowed
        /\ verdict = "PASS" =>
             /\ repository.branch = "main" /\ repository.dirty = {} /\ ~Drifted(repository.head)
             /\ IF mode = "CANDIDATE" THEN repository.head = "A" /\ repository.binding = "untracked" ELSE repository.head = "B"
             /\ validateAuthorityBindingRecord(record) = {} /\ record.status = "RESOLVED" /\ tools = {}
             /\ Len(log) = Len(livePlan)
             /\ \A i \in DOMAIN log : log[i].what = livePlan[i].what /\ log[i].answer = "bound"
             /\ "elsewhere" \notin {roles[r] : r \in DOMAIN roles}
             /\ \A s \in MaterialSubjects \ {"priceSchedule"} : record.entries[s].content = Pinned[s]
             /\ \A v \in Closure : \E p \in record.prices, c \in Installed :
                  p.operation = v.operation /\ c.name = v.name /\ <<p.mode, p.type, p.cost>> = <<c.mode, c.type, c.cost>>
             /\ WordPinned
    BY DEF HcuInv, VerdictInv, PassMeansVerified
  <2>2. WordPinned' <=> WordPinned BY <1>1 DEF WordPinned
  <2> QED BY <1>1, <1>2, <1>9, <2>1, <2>2 DEF VerdictInv, PassMeansVerified, PlanFollowed
<1> QED BY <1>4, <1>5, <1>6, <1>7, <1>8, <1>9, <1>10, <1>11, <1>12 DEF HcuInv, IdentityInv

LEMMA GenerateKeeps ==
  ASSUME HcuInv, Generate
  PROVE  HcuInv'
<1>1. /\ pc = "generate" /\ UNCHANGED <<tools, mode, lineage, runVars>>
      /\ \/ /\ \E chain \in Chains : record' = Fresh(record, chain)
            /\ repository' = [repository EXCEPT !.binding = "untracked"]
            /\ pc' = "prepare" /\ verdict' = verdict
         \/ pc' = "done" /\ verdict' = "REFUSED" /\ UNCHANGED <<repository, record>>
  BY DEF Generate
<1>2. UNCHANGED <<mode, lineage, roles, pinned, cursor, log, violated, failures, blockers, readings, callers, results>>
  BY <1>1 DEF runVars
<1>3. /\ lineage = "UNRESOLVED" /\ pinned = FALSE /\ cursor = 0 /\ log = <<>>
      /\ failures = {} /\ blockers = {} /\ readings = <<>> /\ callers = <<>> /\ results.coverage = "UNRESOLVED"
      /\ roles.EXECUTOR_IMPLEMENTATION = "unresolved" /\ roles.AUTHORITY = "unresolved"
      /\ roles.AUTHORITY_IMPLEMENTATION = "unresolved"
  BY <1>1 DEF HcuInv, StartInv, NoResults
<1>4. verdict = "NONE" BY <1>1 DEF HcuInv, VerdictInv
<1>5. /\ {"executor", "authority", "entries"} \subseteq DOMAIN record' /\ record'.executor \in {Proxy, Direct}
      /\ Readable(record') /\ record'.authority \in {Proxy, Direct}
      /\ DOMAIN repository' = {"branch", "dirty", "head", "binding"}
      /\ repository'.head \in DOMAIN Parents /\ repository'.dirty \subseteq {"tracked", "index", "untracked"}
  <2>1. /\ {"executor", "authority", "entries"} \subseteq DOMAIN record /\ record.executor \in {Proxy, Direct}
        /\ Readable(record) /\ record.authority \in {Proxy, Direct}
        /\ DOMAIN repository = {"branch", "dirty", "head", "binding"}
        /\ repository.head \in DOMAIN Parents /\ repository.dirty \subseteq {"tracked", "index", "untracked"}
    BY DEF HcuInv, StartInv
  <2>2. CASE UNCHANGED <<repository, record>> BY <2>1, <2>2
  <2>4. ASSUME NEW chain \in Chains, record' = Fresh(record, chain), repository' = [repository EXCEPT !.binding = "untracked"]
        PROVE  /\ {"executor", "authority", "entries"} \subseteq DOMAIN record' /\ record'.executor = record.executor
               /\ record'.entries = record.entries
               /\ record'.authority = record.authority /\ DOMAIN repository' = DOMAIN repository
               /\ repository'.head = repository.head /\ repository'.dirty = repository.dirty
    BY <2>1, <2>4 DEF Fresh
  <2>5. record'.entries = record.entries => Readable(record') BY <2>1 DEF Readable
  <2> QED BY <1>1, <2>1, <2>2, <2>4, <2>5
<1>6. pc' \in {"prepare", "done"} /\ pc' \notin Asking BY <1>1 DEF Asking, Identifying, BeforeAuthority, BeforeExecutor
<1>7. log' = <<>> BY <1>2, <1>3
<1>8. Len(log') = 0 /\ DOMAIN log' = {} /\ log' \in Seq(Request) BY <1>7
<1>9. UnverifiedNeverAsked' BY <1>8 DEF UnverifiedNeverAsked
<1>10. StartInv' BY <1>1, <1>2, <1>3, <1>5, <1>6 DEF HcuInv, StartInv
<1>11. LineageInv' BY <1>2, <1>3 DEF LineageInv
<1>12. RolesInv' BY <1>2, <1>3, <1>6 DEF HcuInv, RolesInv, BeforeExecutor
<1>13. LogInv'
  <2>1. Len(livePlan') \in Nat
    <3>1. (Len(livePlan) \in Nat)' BY PlanLengths, PTL
    <3> QED BY <3>1
  <2>2. Len(log') <= Len(livePlan') BY <1>8, <2>1
  <2> QED BY <1>2, <1>8, <2>2 DEF HcuInv, LogInv
<1>14. PlaceInv' BY <1>6 DEF PlaceInv, Asking, Identifying, BeforeAuthority, BeforeExecutor
<1>15. IdentityInv' BY <1>6, <1>9 DEF IdentityInv, IdentityPlace, Asking, Identifying, BeforeAuthority, BeforeExecutor
<1>16. NotedInv'
  <2>1. ~(Len(readings') >= Len(LimitFields)) BY <1>2, <1>3, LimitFieldNames
  <2>2. DOMAIN results = DOMAIN NoResults BY DEF HcuInv, NotedInv
  <2> QED BY <1>2, <1>3, <1>8, <2>1, <2>2 DEF NotedInv
<1>17. VerdictInv'
  <2>1. ~violated' BY <1>2 DEF HcuInv, LogInv
  <2>2. verdict' # "PASS" /\ (verdict' # "NONE" => pc' = "done") BY <1>1, <1>4
  <2> QED BY <1>9, <2>1, <2>2 DEF VerdictInv, PassMeansVerified, PlanFollowed
<1> QED BY <1>10, <1>11, <1>12, <1>13, <1>14, <1>15, <1>16, <1>17 DEF HcuInv

\* A verified lineage is the reviewed commit, with a valid record.
LEMMA LineageVerified ==
  ASSUME NEW g, NEW m \in {"CANDIDATE", "POST_COMMIT"}, NEW errors,
         g.head \in DOMAIN Parents, g.dirty \subseteq {"tracked", "index", "untracked"},
         checkPreparationLineage(g, m, errors).result = "VERIFIED"
  PROVE  /\ errors = {} /\ g.branch = "main" /\ g.dirty = {} /\ ~Drifted(g.head)
         /\ IF m = "CANDIDATE" THEN g.head = "A" /\ g.binding = "untracked" ELSE g.head = "B"
<1>1. g.binding # "absent" /\ errors = {} /\ ~LineageBroken(g, m) /\ BranchBlockers(g, m) = {}
  <2>1. CASE g.binding = "absent" BY <2>1 DEF checkPreparationLineage
  <2>2. CASE g.binding # "absent" /\ errors # {} BY <2>2 DEF checkPreparationLineage
  <2>3. CASE g.binding # "absent" /\ errors = {} /\ LineageBroken(g, m) BY <2>3 DEF checkPreparationLineage
  <2>4. CASE g.binding # "absent" /\ errors = {} /\ ~LineageBroken(g, m) BY <2>4 DEF checkPreparationLineage
  <2> QED BY <2>1, <2>2, <2>3, <2>4
<1>2. /\ g.branch = "main" /\ "index" \notin g.dirty
      /\ m = "POST_COMMIT" => worktreeClean(g)
      /\ m = "CANDIDATE" => "tracked" \notin g.dirty
  BY <1>1 DEF BranchBlockers
<1>3. CASE m = "CANDIDATE"
  <2>1. untrackedPaths(g) = {"binding"} /\ g.head = "A" BY <1>1, <1>3 DEF LineageBroken
  <2>2. g.binding = "untracked" /\ "untracked" \notin g.dirty BY <2>1 DEF untrackedPaths
  <2>3. ~Drifted(g.head) BY <2>1 DEF Drifted, Changed
  <2> QED BY <1>1, <1>2, <1>3, <2>1, <2>2, <2>3
<1>4. CASE m = "POST_COMMIT"
  <2>1. /\ Len(Parents[g.head]) = 1 /\ g.head # "A" /\ Parents[g.head][1] = "A" /\ Changed[g.head] = {"binding"}
        /\ ~Drifted(g.head)
    BY <1>1, <1>4 DEF LineageBroken
  <2>2. g.head \in {"A", "B", "C", "M", "D"} BY DEF Parents
  <2>3. g.head # "C" /\ g.head # "D" BY <2>1 DEF Changed
  <2>4. g.head # "M" BY <2>1 DEF Parents
  <2>5. g.head = "B" BY <2>1, <2>2, <2>3, <2>4
  <2>6. g.dirty = {} BY <1>2, <1>4 DEF worktreeClean
  <2> QED BY <1>1, <1>2, <1>4, <2>1, <2>5, <2>6
<1> QED BY <1>3, <1>4

LEMMA PrepareKeeps ==
  ASSUME HcuInv, Prepare
  PROVE  HcuInv'
<1> DEFINE errors == validateAuthorityBindingRecord(record)
           checked == checkPreparationLineage(repository, mode, errors)
<1>1. /\ pc = "prepare"
      /\ UNCHANGED <<repository, record, tools, mode, roles, pinned, cursor, log, violated, readings, callers, results, verdict>>
  BY DEF Prepare
<1>2. /\ lineage' = checked.result
      /\ \/ pc' = "conclude"
         \/ pc' = "chain" /\ checked.result = "VERIFIED"
  <2>1. PICK c : c = checked OBVIOUS
  <2>2. PICK u : u = PlanUsable(livePlan, record) OBVIOUS
  <2> DEFINE bindingResult == CASE c.result = "VERIFIED" -> "VALID"
                                [] repository.binding = "absent" -> "ABSENT"
                                [] c.result = "BROKEN" -> "INVALID"
                                [] OTHER -> "UNRESOLVED"
             usable == bindingResult = "VALID" /\ u
  <2>3. lineage' = c.result /\ \E f, b : IF usable THEN Continue("chain", f, b) ELSE Stop(f, b)
    <3> HIDE DEF checked
    <3> QED BY <2>1, <2>2 DEF Prepare, checked
  <2>4. usable => c.result = "VERIFIED" OBVIOUS
  <2> HIDE DEF usable
  <2>5. CASE usable
    <3>1. pc' = "chain" BY <2>3, <2>5 DEF Continue
    <3> QED BY <2>1, <2>3, <2>4, <2>5, <3>1
  <2>6. CASE ~usable
    <3>1. pc' = "conclude" BY <2>3, <2>6 DEF Stop, Continue
    <3> QED BY <2>1, <2>3, <3>1
  <2> QED BY <2>5, <2>6
<1>3. /\ pinned = FALSE /\ cursor = 0 /\ log = <<>> /\ readings = <<>> /\ callers = <<>> /\ results.coverage = "UNRESOLVED"
      /\ roles.EXECUTOR_IMPLEMENTATION = "unresolved" /\ roles.AUTHORITY = "unresolved"
      /\ roles.AUTHORITY_IMPLEMENTATION = "unresolved"
  BY <1>1 DEF HcuInv, StartInv, NoResults
<1>4. LineageInv'
  <2>1. SUFFICES ASSUME checked.result = "VERIFIED" PROVE ReviewedCommit /\ errors = {}
    BY <1>1, <1>2 DEF LineageInv, ReviewedCommit
  <2>2. mode \in {"CANDIDATE", "POST_COMMIT"} /\ repository.head \in DOMAIN Parents
        /\ repository.dirty \subseteq {"tracked", "index", "untracked"}
    BY DEF HcuInv, StartInv
  <2> HIDE DEF errors
  <2> QED BY <2>1, <2>2, LineageVerified DEF ReviewedCommit
<1> HIDE DEF checked
<1>5. StartInv'
  <2>1. StartInv BY DEF HcuInv
  <2> QED BY <1>1, <1>2, <2>1 DEF StartInv, Asking, Identifying, BeforeAuthority, BeforeExecutor
<1>6. RolesInv' BY <1>1, <1>2, <1>3 DEF HcuInv, RolesInv, BeforeExecutor
<1>7. LogInv'
  <2>1. livePlan' = livePlan BY <1>1 DEF livePlan
  <2> QED BY <1>1, <2>1 DEF HcuInv, LogInv
<1>8. Len(log') = 0 /\ DOMAIN log' = {} BY <1>1, <1>3
<1>9. PlaceInv'
  <2>1. pc' = "chain" => Issued' = 0 BY DEF Issued
  <2> QED BY <1>1, <1>2, <1>3, <1>8, <2>1 DEF PlaceInv, Asking, Identifying, BeforeAuthority, BeforeExecutor
<1>10. IdentityInv'
  <2>1. UnverifiedNeverAsked' BY <1>8 DEF UnverifiedNeverAsked
  <2>2. IdentityPlace' BY <1>2, <1>8 DEF IdentityPlace, NoneAsked, Asking, Identifying, BeforeAuthority, BeforeExecutor
  <2> QED BY <2>1, <2>2 DEF IdentityInv
<1>11. NotedInv'
  <2>1. ~(Len(readings') >= Len(LimitFields)) BY <1>1, <1>3, LimitFieldNames
  <2>2. DOMAIN results = DOMAIN NoResults BY DEF HcuInv, NotedInv
  <2> QED BY <1>1, <1>3, <1>8, <2>1, <2>2 DEF NotedInv
<1>12. VerdictInv'
  <2>1. ~violated' /\ verdict' = "NONE" BY <1>1 DEF HcuInv, LogInv, VerdictInv
  <2> QED BY <1>10, <2>1 DEF VerdictInv, PassMeansVerified, PlanFollowed, IdentityInv
<1> QED BY <1>4, <1>5, <1>6, <1>7, <1>9, <1>10, <1>11, <1>12 DEF HcuInv

\* Both builds are the pinned ones, and each was compiled from the source the record names: the
\* sources are the pinned ones too.
LEMMA PinnedDocuments ==
  ASSUME NEW r, validateAuthorityBindingRecord(r) = {}, PinnedBuilds(r) = Roles
  PROVE  \A s \in MaterialSubjects \ {"priceSchedule"} : r.entries[s].content = Pinned[s]
<1>1. ASSUME NEW role \in Roles
      PROVE  /\ r.entries[BuildOf[role]].content = Pinned[BuildOf[role]]
             /\ r.entries[SourceOf[role]].content = Pinned[SourceOf[role]]
  <2>1. r.entries[BuildOf[role]].content = Pinned[BuildOf[role]] BY DEF PinnedBuilds
  <2>2. Pinned[BuildOf[role]].source = Pinned[SourceOf[role]] BY AuthorityConfiguration
  <2>3. BuildOf[role] \in MaterialSubjects BY DEF Roles, BuildOf, MaterialSubjects, BuildSubjects
  <2>4. Document(r, BuildOf[role]) = r.entries[BuildOf[role]].content BY <2>3, CarriedDocuments
  <2>5. Document(r, BuildOf[role]).source = r.entries[SourceOf[role]].content BY CarriedDocuments
  <2> QED BY <2>1, <2>2, <2>4, <2>5
<1>2. /\ BuildOf["executor"] = "executorBuild" /\ BuildOf["authority"] = "authorityBuild"
      /\ SourceOf["executor"] = "executorSource" /\ SourceOf["authority"] = "authoritySource"
      /\ "executor" \in Roles /\ "authority" \in Roles
  BY DEF BuildOf, SourceOf, Roles
<1>3. /\ r.entries["executorBuild"].content = Pinned["executorBuild"]
      /\ r.entries["authorityBuild"].content = Pinned["authorityBuild"]
      /\ r.entries["executorSource"].content = Pinned["executorSource"]
      /\ r.entries["authoritySource"].content = Pinned["authoritySource"]
  BY <1>1, <1>2
<1> QED BY <1>3 DEF MaterialSubjects, BuildSubjects

\* Without a blocker of the comparison every variant in use has its price, in the record and in the
\* calculator.
LEMMA PricedAlike ==
  ASSUME NEW r, pricingComparisonBlockers(r) = {}
  PROVE  \A v \in Closure : \E p \in r.prices, c \in Installed :
           p.operation = v.operation /\ c.name = v.name /\ <<p.mode, p.type, p.cost>> = <<c.mode, c.type, c.cost>>
<1> DEFINE entries(v) == {p \in r.prices : p.name = v.name /\ p.mode = v.mode /\ p.type = v.type}
           costs(v) == {c \in Installed : c.name = v.name /\ c.mode = v.mode /\ c.type = v.type}
           found(v) == When(entries(v) = {}, "MISSING_AUTHORITATIVE_PRICE")
                         \cup When(\E p \in entries(v) : p.operation # v.operation, "TRANSLATION_MISMATCH")
                         \cup When(\E p \in entries(v) : p.shape # v.shape, "OPERAND_TYPE_MISMATCH")
                         \cup When(entries(v) # {} /\ costs(v) = {}, "MISSING_CALCULATOR_PRICE")
                         \cup When(\E p \in entries(v), c \in costs(v) : p.cost # c.cost, "COST_MISMATCH")
<1>1. UNION {found(v) : v \in Closure} = {} BY DEF pricingComparisonBlockers
<1>2. TAKE v \in Closure
<1>3. found(v) = {}
  <2> HIDE DEF found
  <2> QED BY <1>1
<1>4. /\ entries(v) # {} /\ costs(v) # {}
      /\ \A p \in entries(v) : p.operation = v.operation
      /\ \A p \in entries(v), c \in costs(v) : p.cost = c.cost
  <2> HIDE DEF entries, costs
  <2>1. When(entries(v) = {}, "MISSING_AUTHORITATIVE_PRICE") = {} BY <1>3
  <2>2. When(\E p \in entries(v) : p.operation # v.operation, "TRANSLATION_MISMATCH") = {} BY <1>3
  <2>3. When(entries(v) # {} /\ costs(v) = {}, "MISSING_CALCULATOR_PRICE") = {} BY <1>3
  <2>4. When(\E p \in entries(v), c \in costs(v) : p.cost # c.cost, "COST_MISMATCH") = {} BY <1>3
  <2>5. ASSUME NEW condition, NEW reason, When(condition, reason) = {} PROVE ~condition BY <2>5 DEF When
  <2>6. entries(v) # {} BY <2>1, <2>5
  <2> QED BY <2>2, <2>3, <2>4, <2>6 DEF When
<1>5. PICK p \in entries(v), c \in costs(v) : TRUE BY <1>4
<1>6. p \in r.prices /\ c \in Installed /\ p.mode = c.mode /\ p.type = c.type /\ c.name = v.name BY <1>5
<1>7. p.operation = v.operation /\ p.cost = c.cost
  <2> HIDE DEF entries, costs
  <2> QED BY <1>4, <1>5
<1> QED BY <1>6, <1>7

\* What a computed PASS is validated against.
LEMMA PassIsValidated ==
  ASSUME validateAuthorityResult = {}
  PROVE  /\ lineage = "VERIFIED" /\ validateAuthorityBindingRecord(record) = {} /\ PinnedBuilds(record) = Roles
         /\ roles.AUTHORITY = "authority"
         /\ 3 \in DOMAIN readings /\ "EXEMPT" \notin ToSet(callers)
         /\ tools = {} /\ results.coverage = "COMPLETE" /\ record.status = "RESOLVED"
         /\ Len(log) = Len(livePlan) /\ results.reciprocal = "VERIFIED"
<1>0. ASSUME NEW condition, NEW reason, Unless(condition, reason) = {} PROVE condition BY <1>0 DEF Unless
<1>1. /\ ReviewedErrors = {} /\ ExecutorErrors = {} /\ ReadingErrors = {} /\ StateErrors = {} /\ PlanErrors = {}
      /\ AuthorityErrors = {}
  BY DEF validateAuthorityResult
<1>2. lineage = "VERIFIED" /\ validateAuthorityBindingRecord(record) = {} /\ PinnedBuilds(record) = Roles
  BY <1>1 DEF ReviewedErrors, Unless
<1>3. roles.AUTHORITY = "authority"
  <2>1. Unless(results.derivation = "VERIFIED" /\ roles.AUTHORITY = "authority",
               "PASS requires the authority address derived from the executor") = {}
    BY <1>1 DEF ExecutorErrors
  <2> QED BY <2>1 DEF Unless
<1>4. Reading(3) \in PROMOTING_LIMIT_RESULTS \cup {NotApplicable} /\ callerExemption \notin {"UNKNOWN_EXEMPTION", "UNRESOLVED", "EXEMPT"}
  <2>1. /\ Unless(Reading(3) \in PROMOTING_LIMIT_RESULTS \cup {NotApplicable}, "PASS requires the block/batch reading") = {}
        /\ Unless(callerExemption \notin {"UNKNOWN_EXEMPTION", "UNRESOLVED", "EXEMPT"},
                  "PASS requires that no SG-4-relevant caller is exempt") = {}
    BY <1>1 DEF ReadingErrors
  <2> QED BY <2>1 DEF Unless
<1>5. 3 \in DOMAIN readings
  <2>1. "UNRESOLVED" \notin PROMOTING_LIMIT_RESULTS \cup {NotApplicable}
    BY DEF PROMOTING_LIMIT_RESULTS, MatchesOnChain, FromArtifact, NotApplicable
  <2>2. Reading(3) # "UNRESOLVED" BY <1>4, <2>1
  <2> QED BY <2>2 DEF Reading
<1>6. "EXEMPT" \notin ToSet(callers)
  <2> SUFFICES ASSUME "EXEMPT" \in ToSet(callers) PROVE callerExemption \in {"UNKNOWN_EXEMPTION", "EXEMPT"} BY <1>4
  <2>1. PICK states : states = ToSet(callers) OBVIOUS
  <2>2. callerExemption = CASE states = {} -> "UNRESOLVED"
                            [] states \cap {"UNKNOWN_EXEMPTION", "MALFORMED"} # {} -> "UNKNOWN_EXEMPTION"
                            [] "EXEMPT" \in states /\ states \cap {"UNKNOWN_EXEMPTION", "MALFORMED"} = {} -> "EXEMPT"
                            [] states = {"NOT_APPLICABLE_WITH_PROOF"} -> "NOT_APPLICABLE_WITH_PROOF"
                            [] OTHER -> "NOT_EXEMPT"
    BY <2>1 DEF callerExemption
  <2>3. "EXEMPT" \in states BY <2>1
  <2>4. CASE states \cap {"UNKNOWN_EXEMPTION", "MALFORMED"} = {}
    <3>1. states # {} /\ states # {"NOT_APPLICABLE_WITH_PROOF"} BY <2>3
    <3> QED BY <2>2, <2>3, <2>4, <3>1
  <2>5. CASE states \cap {"UNKNOWN_EXEMPTION", "MALFORMED"} # {}
    <3>1. states # {} /\ states # {"NOT_APPLICABLE_WITH_PROOF"} BY <2>3
    <3> QED BY <2>2, <2>3, <2>5, <3>1
  <2> QED BY <2>4, <2>5
<1>7. tools = {} /\ results.coverage = "COMPLETE" /\ Bound
  <2>1. /\ Unless(tools = {}, "PASS requires the measurement toolchain root to have been verified") = {}
        /\ Unless(results.coverage = "COMPLETE", "PASS requires complete SG-4 coverage") = {}
        /\ Unless(Bound /\ record.reverification = "REVERIFIED", "PASS requires resolved immutable provenance") = {}
    BY <1>1 DEF StateErrors
  <2>2. Bound /\ record.reverification = "REVERIFIED" BY <2>1 DEF Unless, Bound
  <2> QED BY <2>1, <2>2 DEF Unless
<1>9. results.reciprocal = "VERIFIED"
  <2>1. Unless(results.reciprocal = "VERIFIED", "reciprocal linkage must be VERIFIED") = {} BY <1>1 DEF AuthorityErrors
  <2> QED BY <2>1 DEF Unless
<1>8. Len(log) = Len(livePlan)
  <2>1. PICK n : n = Len(log) OBVIOUS
  <2>2. PICK m : m = Len(livePlan) OBVIOUS
  <2>3. Unless(planEnforcement = "ENFORCED_EXACT" /\ livePlan # <<>> /\ n = m,
               "PASS requires the verifier to have enforced its generated live call plan exactly") = {}
    BY <1>1, <2>1, <2>2 DEF PlanErrors
  <2>4. n = m BY <2>3 DEF Unless
  <2> QED BY <2>1, <2>2, <2>4
<1> QED BY <1>2, <1>3, <1>5, <1>6, <1>7, <1>8, <1>9 DEF Bound

\* What an accepted word was noted to be stays noted.
LEMMA WordKept ==
  ASSUME WordNoted, record' = record, failures \subseteq failures', pc' # "reciprocal",
         results'.reciprocal = results.reciprocal
  PROVE  WordNoted'
BY DEF WordNoted, WordPinned

LEMMA ContinueNotes ==
  ASSUME NEW next, NEW f, NEW b, Continue(next, f, b)
  PROVE  pc' = next /\ failures \subseteq failures'
BY DEF Continue

LEMMA OtherResult ==
  ASSUME HcuInv, NEW field, NEW value, field # "reciprocal", Result(field, value)
  PROVE  results'.reciprocal = results.reciprocal
<1>1. "reciprocal" \in DOMAIN results BY DEF HcuInv, NotedInv, NoResults
<1> QED BY <1>1 DEF Result

LEMMA CodeAnswers ==
  ASSUME NEW to
  PROVE  Answers("CODE", to) \subseteq {"bound", "equivalent", "other", "bad"}
BY AnswersAre

\* What the identification of a contract leaves as it was.
LEMMA ExecutorIdentityNotes ==
  ASSUME HcuInv, NEW a \in {"bound", "equivalent", "other", "bad"}, NEW noted, ExecutorIdentity(a, noted)
  PROVE  failures \subseteq failures' /\ pc' # "reciprocal" /\ results'.reciprocal = results.reciprocal
<1>1. PICK resolved \in BOOLEAN : resolved <=> "executor" \in PinnedBuilds(record) OBVIOUS
<1>2. PICK f : f = noted \cup Unless(a = "bound", "EXECUTOR_SNAPSHOT_IMPLEMENTATION_EVIDENCE_MISMATCH") OBVIOUS
<1>3. CASE a = "bad"
  <2>1. Stop(noted \cup {"EXECUTOR_IMPLEMENTATION_HAS_NO_CODE"}, {}) /\ UNCHANGED results BY <1>3 DEF ExecutorIdentity
  <2> QED BY <2>1, StopNotes
<1>4. CASE a # "bad" /\ ~resolved
  <2>1. Stop(f, {"EXECUTOR_IMPLEMENTATION_CODE_IDENTITY_UNRESOLVED"}) /\ UNCHANGED results
    BY <1>1, <1>2, <1>4 DEF ExecutorIdentity
  <2> QED BY <2>1, StopNotes
<1>5. CASE a = "other" /\ resolved
  <2>1. Stop(f \cup {"EXECUTOR_NORMALIZED_CODE_IDENTITY_MISMATCH"}, {}) /\ Result("executorImplementation", "MISMATCH")
    BY <1>1, <1>2, <1>5 DEF ExecutorIdentity
  <2> QED BY <2>1, StopNotes, OtherResult
<1>6. CASE a \in {"bound", "equivalent"} /\ resolved
  <2>1. Continue("executorVersion", f, {}) /\ Result("executorImplementation", "VERIFIED")
    BY <1>1, <1>2, <1>6 DEF ExecutorIdentity
  <2> QED BY <2>1, ContinueNotes, OtherResult
<1> QED BY <1>3, <1>4, <1>5, <1>6

LEMMA AuthorityIdentityNotes ==
  ASSUME HcuInv, NEW a \in {"bound", "equivalent", "other", "bad"}, NEW noted, NEW proxied,
         AuthorityIdentity(a, noted, proxied)
  PROVE  failures \subseteq failures' /\ pc' # "reciprocal" /\ results'.reciprocal = results.reciprocal
<1>1. "reciprocal" \in DOMAIN results BY DEF HcuInv, NotedInv, NoResults
<1>2. PICK f : f = noted \cup Unless(a = "bound", "AUTHORITY_SNAPSHOT_IMPLEMENTATION_EVIDENCE_MISMATCH") OBVIOUS
<1>3. (\E g, b : Stop(g, b)) \/ Continue("storage", f, {}) BY <1>2 DEF AuthorityIdentity
<1>4. failures \subseteq failures' /\ pc' # "reciprocal" BY <1>3, StopNotes, ContinueNotes
<1>5. results'.reciprocal = results.reciprocal BY <1>1 DEF AuthorityIdentity
<1> QED BY <1>4, <1>5

\* A limit that is read, or known without reading, leaves the verifier among the limits or past them.
LEMMA LimitNotes ==
  ASSUME HcuInv, readLimitGetter
  PROVE  record' = record /\ results' = results /\ failures \subseteq failures' /\ pc' # "reciprocal"
<1> DEFINE to == roles.AUTHORITY
<1>1. PICK n : n = Len(readings) OBVIOUS
<1>2. PICK field : field = LimitFields[n + 1] OBVIOUS
<1>3. pc = "limits" BY DEF readLimitGetter
<1>4. field \in Limits BY <1>1, <1>2, <1>3, NextGetter
<1>5. ASSUME \E reading, f, b : ReadingDone(reading, f, b)
      PROVE  failures \subseteq failures' /\ pc' # "reciprocal"
  <2>1. PICK reading, f, b : ReadingDone(reading, f, b) BY <1>5
  <2>2. PICK next, g : next \in {"callers", "limits"} /\ Continue(next, g, b) BY <2>1 DEF ReadingDone
  <2> QED BY <2>2, ContinueNotes
<1>6. CASE record.limits[field] = OnChain
  <2>1. record' = record BY <1>1, <1>2, <1>6 DEF readLimitGetter, Guarded
  <2>2. ASSUME NEW a \in Answers(field, to),
               CASE a = "bad" -> ReadingDone("MISMATCH", {"LIMIT_GETTER_MALFORMED_RESULT"}, {})
                 [] a # "bad" /\ ~HasExpectation(field) ->
                      ReadingDone("UNRESOLVED", {}, {"LIMIT_GETTER_EXPECTATION_MISSING"})
                 [] a = "bound" /\ HasExpectation(field) -> ReadingDone(MatchesOnChain, {}, {})
                 [] a = "other" /\ HasExpectation(field) ->
                      ReadingDone("MISMATCH", {"ON_CHAIN_LIMIT_MISMATCH"}, {})
        PROVE  \E reading, f, b : ReadingDone(reading, f, b)
    <3>1. a \in {"bound", "other", "bad"} BY <1>4, AnswersAre, LimitFieldSet DEF PlainQuestions
    <3>2. CASE a = "bad" BY <2>2, <3>2
    <3>3. CASE a # "bad" /\ ~HasExpectation(field) BY <2>2, <3>3
    <3>4. CASE a = "bound" /\ HasExpectation(field) BY <2>2, <3>4
    <3>5. CASE a = "other" /\ HasExpectation(field) BY <2>2, <3>5
    <3> QED BY <3>1, <3>2, <3>3, <3>4, <3>5
  <2>3. CASE Unanswered BY <2>1, <2>3, StopNotes DEF Unanswered
  <2>4. CASE ~Unanswered
    <3>1. results' = results /\ \E reading, f, b : ReadingDone(reading, f, b)
      BY <1>1, <1>2, <1>6, <2>2, <2>4 DEF readLimitGetter
    <3> QED BY <1>5, <2>1, <3>1
  <2> QED BY <2>3, <2>4
<1>7. CASE record.limits[field] # OnChain
  <2>1. UnreadLimit(field) BY <1>1, <1>2, <1>7 DEF readLimitGetter
  <2>2. record.limits[field] \in {Absent, NotApplicable}
    <3>1. lineage = "VERIFIED" BY <1>3 DEF HcuInv, StartInv, Asking
    <3>2. validateAuthorityBindingRecord(record) = {} BY <3>1 DEF HcuInv, LineageInv
    <3>3. /\ \A f \in MandatoryLimits : record.limits[f] \in {OnChain, Absent}
          /\ record.limits["blockOrBatchCap"] \in {OnChain, Absent, NotApplicable}
      BY <3>2, ValidRecord
    <3> QED BY <1>4, <1>7, <3>3 DEF Limits
  <2>3. Absent # NotApplicable BY DEF Absent, NotApplicable
  <2>4. \E reading, f, b : ReadingDone(reading, f, b)
    <3>1. CASE record.limits[field] = NotApplicable /\ Mandatory(field) BY <2>1, <3>1 DEF UnreadLimit
    <3>2. CASE record.limits[field] = NotApplicable /\ ~Mandatory(field) BY <2>1, <3>2 DEF UnreadLimit
    <3>3. CASE record.limits[field] = Absent /\ HasExpectation(field) BY <2>1, <2>3, <3>3 DEF UnreadLimit
    <3>4. CASE record.limits[field] = Absent /\ ~HasExpectation(field) BY <2>1, <2>3, <3>4 DEF UnreadLimit
    <3> QED BY <2>2, <3>1, <3>2, <3>3, <3>4
  <2>5. record' = record /\ results' = results BY <2>1 DEF UnreadLimit
  <2> QED BY <1>5, <2>4, <2>5
<1> QED BY <1>6, <1>7

LEMMA SubjectNotes ==
  ASSUME HcuInv, CallerApplicability
  PROVE  /\ record' = record /\ results'.reciprocal = results.reciprocal
         /\ failures \subseteq failures' /\ pc' # "reciprocal"
<1> DEFINE to == roles.AUTHORITY
<1>1. PICK n : n = Len(callers) OBVIOUS
<1>2. PICK subject : subject = Callers[n + 1] OBVIOUS
<1>3. pc = "callers" BY DEF CallerApplicability
<1>4. subject \in ToSet(Callers) BY <1>1, <1>2, <1>3, NextSubject
<1>5. ASSUME \E result, f : CallerDone(result, f)
      PROVE  failures \subseteq failures' /\ pc' # "reciprocal" /\ results'.reciprocal = results.reciprocal
  <2>1. PICK result, f : CallerDone(result, f) BY <1>5
  <2>2. PICK next, g : next \in {"conclude", "callers"} /\ Continue(next, g, {}) BY <2>1 DEF CallerDone
  <2>3. UNCHANGED results \/ \E value : Result("coverage", value) BY <2>1 DEF CallerDone
  <2> QED BY <2>2, <2>3, ContinueNotes, OtherResult
<1>6. CASE record.callers[subject] = "AVAILABLE"
  <2>1. record' = record BY <1>1, <1>2, <1>6 DEF CallerApplicability, Guarded
  <2>2. ASSUME NEW a \in Answers(subject, to),
               CASE a = "bound" -> CallerDone("NOT_EXEMPT", {})
                 [] a = "exempt" -> CallerDone("EXEMPT", {})
                 [] a = "other" -> CallerDone("UNKNOWN_EXEMPTION", {"CALLER_APPLICABILITY_UNEXPECTED_RESULT"})
                 [] a = "bad" -> CallerDone("MALFORMED", {"CALLER_APPLICABILITY_MALFORMED_RESULT"})
        PROVE  \E result, f : CallerDone(result, f)
    <3>1. a \in {"bound", "exempt", "other", "bad"} BY <1>4, AnswersAre
    <3> QED BY <2>2, <3>1
  <2>3. CASE Unanswered BY <2>1, <2>3, StopNotes DEF Unanswered
  <2>4. CASE ~Unanswered
    <3>1. \E result, f : CallerDone(result, f) BY <1>1, <1>2, <1>6, <2>2, <2>4 DEF CallerApplicability
    <3> QED BY <1>5, <2>1, <3>1
  <2> QED BY <2>3, <2>4
<1>7. CASE record.callers[subject] # "AVAILABLE"
  <2>1. record' = record /\ CallerDone("NOT_APPLICABLE_WITH_PROOF", {})
    BY <1>1, <1>2, <1>7 DEF CallerApplicability
  <2> QED BY <1>5, <2>1
<1> QED BY <1>6, <1>7

LEMMA WordNotedKeeps ==
  ASSUME HcuInv, WordNoted, Next
  PROVE  WordNoted'
<1>1. "reciprocal" \in DOMAIN results BY DEF HcuInv, NotedInv, NoResults
<1>2. CASE Generate
  <2>1. pc' # "reciprocal" /\ results' = NoResults
    BY <1>2 DEF Generate, HcuInv, StartInv, runVars
  <2> QED BY <2>1 DEF WordNoted, NoResults
<1>3. CASE Prepare
  <2>1. record' = record /\ results' = results BY <1>3 DEF Prepare
  <2>2. failures \subseteq failures' /\ pc' # "reciprocal" BY <1>3, StopNotes, ContinueNotes DEF Prepare
  <2> QED BY <2>1, <2>2, WordKept
<1>4. CASE PackedStorage
  <2>1. record' = record /\ pc = "storage" BY <1>4 DEF PackedStorage, Guarded
  <2> DEFINE Gone == pc' = "conclude"
             Noted == pc' = "reciprocal" /\ failures' = failures \cup Unless(WordPinned, "HCU_PACKED_STORAGE_LIMIT_MISMATCH")
  <2>2. results' = results /\ failures \subseteq failures' /\ (Gone \/ Noted)
    <3>1. CASE Unanswered BY <3>1, StopNotes DEF Unanswered
    <3>2. ASSUME NEW a,
                 CASE a = "bound" -> Continue("reciprocal", Unless(WordPinned, "HCU_PACKED_STORAGE_LIMIT_MISMATCH"), {})
                   [] a = "other" -> Stop({"HCU_PACKED_STORAGE_EVIDENCE_MISMATCH"}, {})
                   [] a = "bad" -> Stop({"HCU_PACKED_STORAGE_WORD_MALFORMED"}, {}),
                 a \in {"bound", "other", "bad"}, UNCHANGED results
          PROVE  results' = results /\ failures \subseteq failures' /\ (Gone \/ Noted)
      <4>1. CASE a = "bound"
        <5>1. Continue("reciprocal", Unless(WordPinned, "HCU_PACKED_STORAGE_LIMIT_MISMATCH"), {}) BY <3>2, <4>1
        <5> QED BY <3>2, <5>1 DEF Continue
      <4>2. CASE a # "bound"
        <5>1. \E f, b : Stop(f, b) BY <3>2, <4>2
        <5> QED BY <3>2, <5>1, StopNotes
      <4> QED BY <4>1, <4>2
    <3>3. Answers("HCU_STORAGE", roles.AUTHORITY) = {"bound", "other", "bad"} BY AnswersAre DEF PlainQuestions
    <3> HIDE DEF Gone, Noted
    <3> QED BY <1>4, <3>1, <3>2, <3>3, Zenon DEF PackedStorage
  <2>3. CASE Gone BY <2>1, <2>2, <2>3, WordKept
  <2>4. CASE Noted
    <3>1. failures' = {} => WordPinned BY <2>4 DEF Unless
    <3> QED BY <2>1, <3>1 DEF WordNoted, WordPinned
  <2> QED BY <2>2, <2>3, <2>4
<1>5. CASE Reciprocal
  <2>1. record' = record /\ pc = "reciprocal" BY <1>5 DEF Reciprocal, Guarded
  <2>2. failures \subseteq failures' BY <1>5, StopNotes, ContinueNotes DEF Reciprocal, Unanswered
  <2> QED BY <2>1, <2>2 DEF WordNoted, WordPinned
<1>6. CASE ChainIdentity
  <2>1. record' = record BY <1>6 DEF ChainIdentity, Guarded
  <2>2. failures \subseteq failures' /\ pc' # "reciprocal"
    BY <1>6, StopNotes, ContinueNotes DEF ChainIdentity, Unanswered
  <2>3. results'.reciprocal = results.reciprocal BY <1>1, <1>6, OtherResult DEF ChainIdentity, Unanswered
  <2> QED BY <2>1, <2>2, <2>3, WordKept
<1>7. CASE PinnedBlock
  <2>1. record' = record BY <1>7 DEF PinnedBlock, Guarded
  <2>2. CASE Unanswered BY <2>1, <2>2, StopNotes, WordKept DEF Unanswered
  <2>3. ASSUME NEW a \in Answers("PINNED_BLOCK", "none"),
               CASE a = "bound" -> Continue("executor", {}, {})
                 [] a = "other" -> Stop({"BOUND_SNAPSHOT_HEADER_MISMATCH"}, {})
                 [] a = "bad" -> Stop({}, {"BOUND_SNAPSHOT_BLOCK_NOT_AVAILABLE"}),
               UNCHANGED results
        PROVE  WordNoted'
    <3>1. a \in {"bound", "other", "bad"} BY AnswersAre DEF PlainQuestions
    <3>2. Continue("executor", {}, {}) \/ \E f, b : Stop(f, b) BY <2>3, <3>1
    <3> QED BY <2>1, <2>3, <3>2, StopNotes, ContinueNotes, WordKept
  <2> QED BY <1>7, <2>2, <2>3 DEF PinnedBlock
<1>8. CASE ExecutorShell
  <2>1. record' = record BY <1>8 DEF ExecutorShell, Guarded
  <2>2. CASE Unanswered BY <2>1, <2>2, StopNotes, WordKept DEF Unanswered
  <2>3. ASSUME NEW a \in Answers("CODE", "executor"), NEW noted,
               CASE a = "bad" -> Stop({"EXECUTOR_HAS_NO_CODE"}, {}) /\ UNCHANGED <<roles, results>>
                 [] a # "bad" /\ record.executor = Direct ->
                      /\ Resolve("EXECUTOR_IMPLEMENTATION", "executor")
                      /\ ExecutorIdentity(a, noted)
                 [] a = "other" /\ record.executor = Proxy ->
                      /\ Stop(noted \cup {"EXECUTOR_PROXY_CODE_IDENTITY_MISMATCH"}, {})
                      /\ Result("executorProxy", "MISMATCH") /\ UNCHANGED roles
                 [] a = "bound" /\ record.executor = Proxy ->
                      /\ Continue("executorSlot", {}, {})
                      /\ Result("executorProxy", "VERIFIED") /\ UNCHANGED roles
        PROVE  failures \subseteq failures' /\ pc' # "reciprocal" /\ results'.reciprocal = results.reciprocal
    <3>1. a \in {"bound", "other", "bad"}
      <4>1. "executor" # roles.AUTHORITY_IMPLEMENTATION
        BY <1>8 DEF ExecutorShell, HcuInv, RolesInv, BeforeExecutor
      <4> QED BY <2>3, <4>1, AnswersAre
    <3>2. record.executor \in {Proxy, Direct} /\ Proxy # Direct BY DEF HcuInv, StartInv, Proxy, Direct
    <3>3. CASE ExecutorIdentity(a, noted) BY <3>1, <3>3, ExecutorIdentityNotes
    <3>4. CASE a = "bad"
      <4>1. (\E f, b : Stop(f, b)) /\ UNCHANGED results BY <2>3, <3>4
      <4> QED BY <4>1, StopNotes
    <3>5. CASE a # "bad" /\ record.executor = Direct BY <2>3, <3>2, <3>3, <3>5
    <3>6. CASE a = "other" /\ record.executor = Proxy
      <4>1. (\E f, b : Stop(f, b)) /\ Result("executorProxy", "MISMATCH") BY <2>3, <3>2, <3>6
      <4> QED BY <4>1, StopNotes, OtherResult
    <3>7. CASE a = "bound" /\ record.executor = Proxy
      <4>1. Continue("executorSlot", {}, {}) /\ Result("executorProxy", "VERIFIED") BY <2>3, <3>2, <3>7
      <4> QED BY <4>1, ContinueNotes, OtherResult
    <3> QED BY <3>1, <3>2, <3>4, <3>5, <3>6, <3>7
  <2>4. ~Unanswered => failures \subseteq failures' /\ pc' # "reciprocal" /\ results'.reciprocal = results.reciprocal
    BY <1>8, <2>3, Zenon DEF ExecutorShell
  <2> QED BY <2>1, <2>2, <2>4, WordKept
<1>9. CASE ExecutorSlot
  <2>1. record' = record BY <1>9 DEF ExecutorSlot, Guarded
  <2>2. failures \subseteq failures' /\ pc' # "reciprocal"
    BY <1>9, StopNotes, ContinueNotes DEF ExecutorSlot, Unanswered
  <2>3. results'.reciprocal = results.reciprocal BY <1>1, <1>9, OtherResult DEF ExecutorSlot, Unanswered
  <2> QED BY <2>1, <2>2, <2>3, WordKept
<1>10. CASE ExecutorCode
  <2>1. record' = record BY <1>10 DEF ExecutorCode, Guarded
  <2>2. CASE Unanswered BY <2>1, <2>2, StopNotes, WordKept DEF Unanswered
  <2>3. ASSUME NEW a \in Answers("CODE", roles.EXECUTOR_IMPLEMENTATION), ExecutorIdentity(a, {}) PROVE WordNoted'
    BY <2>1, <2>3, CodeAnswers, ExecutorIdentityNotes, WordKept
  <2> QED BY <1>10, <2>2, <2>3 DEF ExecutorCode
<1>11. CASE ExecutorVersion
  <2>1. record' = record BY <1>11 DEF ExecutorVersion, Guarded
  <2>2. failures \subseteq failures' /\ pc' # "reciprocal"
    BY <1>11, StopNotes, ContinueNotes DEF ExecutorVersion, Unanswered
  <2>3. results'.reciprocal = results.reciprocal BY <1>1, <1>11, OtherResult DEF ExecutorVersion, Unanswered
  <2> QED BY <2>1, <2>2, <2>3, WordKept
<1>12. CASE DeriveAuthority
  <2>1. record' = record BY <1>12 DEF DeriveAuthority, Guarded
  <2>2. failures \subseteq failures' /\ pc' # "reciprocal"
    BY <1>12, StopNotes, ContinueNotes DEF DeriveAuthority, Unanswered
  <2>3. results'.reciprocal = results.reciprocal BY <1>1, <1>12, OtherResult DEF DeriveAuthority, Unanswered
  <2> QED BY <2>1, <2>2, <2>3, WordKept
<1>13. CASE AuthorityCode
  <2>1. record' = record BY <1>13 DEF AuthorityCode, Guarded
  <2>2. CASE Unanswered BY <2>1, <2>2, StopNotes, WordKept DEF Unanswered
  <2>3. ASSUME NEW a \in Answers("CODE", roles.AUTHORITY), NEW noted,
               CASE a = "bad" -> Stop({"AUTHORITY_HAS_NO_CODE"}, {}) /\ UNCHANGED <<roles, results>>
                 [] a # "bad" /\ record.authority = Direct ->
                      /\ Resolve("AUTHORITY_IMPLEMENTATION", roles.AUTHORITY)
                      /\ AuthorityIdentity(a, noted, FALSE)
                 [] a = "other" /\ record.authority = Proxy ->
                      /\ Stop(noted \cup {"AUTHORITY_PROXY_CODE_IDENTITY_MISMATCH"}, {})
                      /\ Result("authorityCode", "MISMATCH") /\ UNCHANGED roles
                 [] a = "bound" /\ record.authority = Proxy ->
                      /\ Continue("authoritySlot", {}, {})
                      /\ Result("authorityCode", "VERIFIED") /\ UNCHANGED roles
        PROVE  failures \subseteq failures' /\ pc' # "reciprocal" /\ results'.reciprocal = results.reciprocal
    <3>1. a \in {"bound", "other", "bad"}
      <4>1. roles.AUTHORITY # roles.AUTHORITY_IMPLEMENTATION
        BY <1>13 DEF AuthorityCode, HcuInv, RolesInv, BeforeExecutor
      <4> QED BY <2>3, <4>1, AnswersAre
    <3>2. record.authority \in {Proxy, Direct} /\ Proxy # Direct BY DEF HcuInv, StartInv, Proxy, Direct
    <3>3. CASE AuthorityIdentity(a, noted, FALSE) BY <3>1, <3>3, AuthorityIdentityNotes
    <3>4. CASE a = "bad"
      <4>1. (\E f, b : Stop(f, b)) /\ UNCHANGED results BY <2>3, <3>4
      <4> QED BY <4>1, StopNotes
    <3>5. CASE a # "bad" /\ record.authority = Direct BY <2>3, <3>2, <3>3, <3>5
    <3>6. CASE a = "other" /\ record.authority = Proxy
      <4>1. (\E f, b : Stop(f, b)) /\ Result("authorityCode", "MISMATCH") BY <2>3, <3>2, <3>6
      <4> QED BY <4>1, StopNotes, OtherResult
    <3>7. CASE a = "bound" /\ record.authority = Proxy
      <4>1. Continue("authoritySlot", {}, {}) /\ Result("authorityCode", "VERIFIED") BY <2>3, <3>2, <3>7
      <4> QED BY <4>1, ContinueNotes, OtherResult
    <3> QED BY <3>1, <3>2, <3>4, <3>5, <3>6, <3>7
  <2>4. ~Unanswered => failures \subseteq failures' /\ pc' # "reciprocal" /\ results'.reciprocal = results.reciprocal
    BY <1>13, <2>3, Zenon DEF AuthorityCode
  <2> QED BY <2>1, <2>2, <2>4, WordKept
<1>14. CASE AuthoritySlot
  <2>1. record' = record BY <1>14 DEF AuthoritySlot, Guarded
  <2>2. CASE Unanswered BY <2>1, <2>2, StopNotes, WordKept DEF Unanswered
  <2>3. ASSUME \/ \E f, b : Stop(f, b)
               \/ \E f, b : Continue("authorityImplementation", f, b),
               UNCHANGED results \/ \E value : Result("policy", value)
        PROVE  WordNoted'
    BY <2>1, <2>3, StopNotes, ContinueNotes, OtherResult, WordKept
  <2>4. ASSUME NEW a, NEW mismatch,
               CASE a = "bad" ->
                      /\ Stop(mismatch, {"ERC1967_IMPLEMENTATION_SLOT_EMPTY_OR_MALFORMED"})
                      /\ UNCHANGED <<roles, results>>
                 [] a \in {"other", "self"} /\ record.policies.authority.kind = "EXACT" ->
                      /\ Stop(mismatch \cup {"AUTHORITY_IMPLEMENTATION_ADDRESS_MISMATCH"}, {})
                      /\ Result("policy", "MISMATCH") /\ UNCHANGED roles
                 [] a = "self" /\ record.policies.authority.kind = "UPGRADE" ->
                      /\ Resolve("AUTHORITY_IMPLEMENTATION", roles.AUTHORITY)
                      /\ AuthorityIdentity("other", mismatch, TRUE)
                 [] OTHER ->
                      /\ Continue("authorityImplementation", mismatch, {})
                      /\ Resolve("AUTHORITY_IMPLEMENTATION",
                                 IF a = "bound" THEN "authorityImplementation" ELSE "elsewhereImplementation")
                      /\ Result("policy", IF record.policies.authority.kind = "EXACT" THEN "EXACT_MATCH" ELSE "PERMITTED")
        PROVE  WordNoted'
    <3>1. CASE a = "bad"
      <4>1. (\E f, b : Stop(f, b)) /\ UNCHANGED results BY <2>4, <3>1
      <4> QED BY <2>3, <4>1
    <3>2. CASE a \in {"other", "self"} /\ record.policies.authority.kind = "EXACT"
      <4>1. (\E f, b : Stop(f, b)) /\ \E value : Result("policy", value) BY <2>4, <3>2
      <4> QED BY <2>3, <4>1
    <3>3. CASE a = "self" /\ record.policies.authority.kind = "UPGRADE"
      <4>1. AuthorityIdentity("other", mismatch, TRUE) BY <2>4, <3>3
      <4>2. failures \subseteq failures' /\ pc' # "reciprocal" /\ results'.reciprocal = results.reciprocal
        BY <4>1, AuthorityIdentityNotes
      <4> QED BY <2>1, <4>2, WordKept
    <3>4. CASE /\ a # "bad" /\ ~(a \in {"other", "self"} /\ record.policies.authority.kind = "EXACT")
               /\ ~(a = "self" /\ record.policies.authority.kind = "UPGRADE")
      <4>1. (\E f, b : Continue("authorityImplementation", f, b)) /\ \E value : Result("policy", value) BY <2>4, <3>4
      <4> QED BY <2>3, <4>1
    <3> QED BY <3>1, <3>2, <3>3, <3>4
  <2> QED BY <1>14, <2>2, <2>4, Zenon DEF AuthoritySlot
<1>15. CASE AuthorityImplementation
  <2>1. record' = record BY <1>15 DEF AuthorityImplementation, Guarded
  <2>2. CASE Unanswered BY <2>1, <2>2, StopNotes, WordKept DEF Unanswered
  <2>3. ASSUME NEW a \in Answers("CODE", roles.AUTHORITY_IMPLEMENTATION), AuthorityIdentity(a, {}, TRUE) PROVE WordNoted'
    BY <2>1, <2>3, CodeAnswers, AuthorityIdentityNotes, WordKept
  <2> QED BY <1>15, <2>2, <2>3 DEF AuthorityImplementation
<1>16. CASE AuthorityVersion
  <2>1. record' = record BY <1>16 DEF AuthorityVersion, Guarded
  <2>2. failures \subseteq failures' /\ pc' # "reciprocal"
    BY <1>16, StopNotes, ContinueNotes DEF AuthorityVersion, Unanswered
  <2>3. results'.reciprocal = results.reciprocal BY <1>1, <1>16, OtherResult DEF AuthorityVersion, Unanswered
  <2> QED BY <2>1, <2>2, <2>3, WordKept
<1>17. CASE readLimitGetter BY <1>17, LimitNotes, WordKept
<1>18. CASE CallerApplicability BY <1>18, SubjectNotes, WordKept
<1>19. CASE Conclude
  <2>1. record' = record BY <1>19 DEF Conclude, Guarded
  <2>2. failures \subseteq failures' /\ pc' # "reciprocal"
    BY <1>19, StopNotes, ContinueNotes DEF Conclude, Unanswered
  <2>3. results'.reciprocal = results.reciprocal BY <1>1, <1>19, OtherResult DEF Conclude, Unanswered
  <2> QED BY <2>1, <2>2, <2>3, WordKept
<1> QED BY <1>2, <1>3, <1>4, <1>5, <1>6, <1>7, <1>8, <1>9, <1>10, <1>11, <1>12, <1>13, <1>14, <1>15, <1>16, <1>17, <1>18, <1>19 DEF Next

LEMMA ConcludeKeeps ==
  ASSUME HcuInv, WordNoted, Conclude
  PROVE  HcuInv'
<1>1. /\ pc = "conclude" /\ pc' = "done" /\ failures \subseteq failures' /\ blockers \subseteq blockers'
      /\ results' = [results EXCEPT !.plan = planEnforcement]
      /\ UNCHANGED <<repository, record, tools, mode, lineage, roles, pinned, cursor, log, violated, readings, callers>>
  BY DEF Conclude
<1>2. verdict' = "PASS" => failures = {} /\ blockers = {} /\ validateAuthorityResult = {}
  <2>1. PICK valid \in BOOLEAN : valid <=> validateAuthorityResult = {} OBVIOUS
  <2>2. verdict' = CASE failures' # {} -> "FAIL"
                     [] failures' = {} /\ blockers' # {} -> "BLOCKED"
                     [] OTHER -> IF validateAuthorityResult = {} THEN "PASS" ELSE "THROWS"
    BY Zenon DEF Conclude
  <2>3. ASSUME verdict' = "PASS" PROVE failures' = {} /\ blockers' = {} /\ validateAuthorityResult = {}
    <3>1. CASE failures' # {}
      <4>1. verdict' = "FAIL" BY <2>2, <3>1
      <4> QED BY <2>3, <4>1
    <3>2. CASE failures' = {} /\ blockers' # {}
      <4>1. verdict' = "BLOCKED" BY <2>2, <3>2
      <4> QED BY <2>3, <4>1
    <3>3. CASE failures' = {} /\ blockers' = {}
      <4>1. verdict' = IF validateAuthorityResult = {} THEN "PASS" ELSE "THROWS" BY <2>2, <3>3
      <4>2. validateAuthorityResult = {} BY <2>3, <4>1
      <4> QED BY <3>3, <4>2
    <3> QED BY <3>1, <3>2, <3>3
  <2> QED BY <1>1, <2>3
<1>3. livePlan' = livePlan BY <1>1 DEF livePlan
<1>4. pc' \notin Asking \cup {"generate", "prepare"}
  BY <1>1 DEF Asking, Identifying, BeforeAuthority, BeforeExecutor
<1>5. StartInv' BY <1>1, <1>4 DEF HcuInv, StartInv
<1>6. LineageInv' BY <1>1 DEF HcuInv, LineageInv, ReviewedCommit
<1>7. RolesInv' BY <1>1 DEF HcuInv, RolesInv, BeforeExecutor
<1>8. LogInv' BY <1>1, <1>3 DEF HcuInv, LogInv
<1>9. PlaceInv' BY <1>1 DEF PlaceInv, Asking, Identifying, BeforeAuthority, BeforeExecutor
<1>10. UnverifiedNeverAsked' BY <1>1 DEF HcuInv, IdentityInv, UnverifiedNeverAsked
<1>11. IdentityPlace' BY <1>1 DEF IdentityPlace, Asking, Identifying, BeforeAuthority, BeforeExecutor
<1>12. NotedInv'
  <2>1. DOMAIN results' = DOMAIN results /\ results'.coverage = results.coverage
    <3>1. DOMAIN results = DOMAIN NoResults BY DEF HcuInv, NotedInv
    <3>2. "coverage" \in DOMAIN results BY <3>1 DEF NoResults
    <3> QED BY <1>1, <3>2
  <2>2. /\ failures' = {} => failures = {}
        /\ blockers' = {} => blockers = {}
    BY <1>1
  <2> QED BY <1>1, <2>1, <2>2 DEF HcuInv, NotedInv
<1>13. ASSUME verdict' = "PASS"
       PROVE  /\ repository.branch = "main" /\ repository.dirty = {} /\ ~Drifted(repository.head)
              /\ IF mode = "CANDIDATE" THEN repository.head = "A" /\ repository.binding = "untracked"
                 ELSE repository.head = "B"
              /\ validateAuthorityBindingRecord(record) = {} /\ record.status = "RESOLVED" /\ tools = {}
              /\ Len(log) = Len(livePlan)
              /\ \A i \in DOMAIN log : log[i].what = livePlan[i].what /\ log[i].answer = "bound"
              /\ "elsewhere" \notin {roles[r] : r \in DOMAIN roles}
              /\ \A s \in MaterialSubjects \ {"priceSchedule"} : record.entries[s].content = Pinned[s]
              /\ \A v \in Closure : \E p \in record.prices, c \in Installed :
                   p.operation = v.operation /\ c.name = v.name /\ <<p.mode, p.type, p.cost>> = <<c.mode, c.type, c.cost>>
              /\ WordPinned
  <2>1. /\ lineage = "VERIFIED" /\ validateAuthorityBindingRecord(record) = {} /\ PinnedBuilds(record) = Roles
        /\ roles.AUTHORITY = "authority"
        /\ 3 \in DOMAIN readings /\ "EXEMPT" \notin ToSet(callers)
        /\ tools = {} /\ results.coverage = "COMPLETE" /\ record.status = "RESOLVED"
        /\ Len(log) = Len(livePlan) /\ results.reciprocal = "VERIFIED"
    BY <1>2, <1>13, PassIsValidated
  <2>2. ReviewedCommit BY <2>1 DEF HcuInv, LineageInv
  <2>3. failures = {} /\ blockers = {} BY <1>2, <1>13
  <2>4. \A i \in DOMAIN log : log[i].answer = "bound" BY <2>1, <2>3 DEF HcuInv, NotedInv
  <2>5. \A i \in DOMAIN log : log[i].what = livePlan[i].what BY DEF HcuInv, LogInv
  <2>6. "elsewhere" \notin {roles[r] : r \in DOMAIN roles}
    <3>1. /\ DOMAIN roles = RoleNames
          /\ roles.NONE = "none" /\ roles.EXECUTOR = "executor"
          /\ roles.EXECUTOR_IMPLEMENTATION # "elsewhere"
          /\ roles.AUTHORITY_IMPLEMENTATION = "elsewhere" => roles.AUTHORITY = "elsewhere"
      BY DEF HcuInv, RolesInv
    <3> QED BY <2>1, <3>1 DEF RoleNames
  <2>7. \A s \in MaterialSubjects \ {"priceSchedule"} : record.entries[s].content = Pinned[s]
    BY <2>1, PinnedDocuments
  <2>8. pricingComparisonBlockers(record) = {} BY <2>1 DEF HcuInv, NotedInv
  <2>9. \A v \in Closure : \E p \in record.prices, c \in Installed :
          p.operation = v.operation /\ c.name = v.name /\ <<p.mode, p.type, p.cost>> = <<c.mode, c.type, c.cost>>
    BY <2>8, PricedAlike
  <2>10. WordPinned BY <2>1, <2>3 DEF WordNoted
  <2>11. /\ repository.branch = "main" /\ repository.dirty = {} /\ ~Drifted(repository.head)
         /\ IF mode = "CANDIDATE" THEN repository.head = "A" /\ repository.binding = "untracked"
            ELSE repository.head = "B"
    BY <2>2 DEF ReviewedCommit
  <2> QED BY <2>1, <2>4, <2>5, <2>6, <2>7, <2>9, <2>10, <2>11
<1>14. VerdictInv'
  <2>1. PlanFollowed' BY <1>1 DEF HcuInv, LogInv, PlanFollowed
  <2>2. PassMeansVerified'
    <3>1. WordPinned' <=> WordPinned BY <1>1 DEF WordPinned
    <3> QED BY <1>1, <1>3, <1>10, <1>13, <2>1, <3>1 DEF PassMeansVerified
  <2> QED BY <1>1, <2>2 DEF VerdictInv
<1> QED BY <1>5, <1>6, <1>7, <1>8, <1>9, <1>10, <1>11, <1>12, <1>14 DEF HcuInv, IdentityInv

\* The run of the HCU authority gate keeps what its parts promise each other: the questions come in
\* the order of the plan, the contracts are identified before they are asked, and whatever is not as
\* the record says is noted (scripts/sg4-hcu-authority.ts).
THEOREM HcuInvariant == Spec => [](HcuInv /\ WordNoted)
<1>1. Init => HcuInv /\ WordNoted
  <2>1. Init => WordNoted BY AuthorityConfiguration DEF Init, WordNoted, NoResults
  <2> QED BY <2>1, HcuInit
<1>2. HcuInv /\ WordNoted /\ [Next]_vars => HcuInv' /\ WordNoted'
  <2> SUFFICES ASSUME HcuInv, WordNoted, [Next]_vars PROVE HcuInv' /\ WordNoted' OBVIOUS
  <2>0. WordNoted'
    <3>1. CASE UNCHANGED vars BY <3>1 DEF vars, runVars, WordNoted, WordPinned
    <3> QED BY <3>1, WordNotedKeeps
  <2> SUFFICES HcuInv' BY <2>0
  <2>1. CASE Generate BY <2>1, GenerateKeeps
  <2>2. CASE Prepare BY <2>2, PrepareKeeps
  <2>3. CASE ChainIdentity BY <2>3, ChainIdentityKeeps
  <2>4. CASE PinnedBlock BY <2>4, PinnedBlockKeeps
  <2>5. CASE ExecutorShell BY <2>5, ExecutorShellKeeps
  <2>6. CASE ExecutorSlot BY <2>6, ExecutorSlotKeeps
  <2>7. CASE ExecutorCode BY <2>7, ExecutorCodeKeeps
  <2>8. CASE ExecutorVersion BY <2>8, ExecutorVersionKeeps
  <2>9. CASE DeriveAuthority BY <2>9, DeriveAuthorityKeeps
  <2>10. CASE AuthorityCode BY <2>10, AuthorityCodeKeeps
  <2>11. CASE AuthoritySlot BY <2>11, AuthoritySlotKeeps
  <2>12. CASE AuthorityImplementation BY <2>12, AuthorityImplementationKeeps
  <2>13. CASE PackedStorage BY <2>13, PackedStorageKeeps
  <2>14. CASE Reciprocal BY <2>14, ReciprocalKeeps
  <2>15. CASE AuthorityVersion BY <2>15, AuthorityVersionKeeps
  <2>16. CASE readLimitGetter BY <2>16, readLimitGetterKeeps
  <2>17. CASE CallerApplicability BY <2>17, CallerApplicabilityKeeps
  <2>18. CASE Conclude BY <2>18, ConcludeKeeps
  <2>19. CASE UNCHANGED vars BY <2>19, HcuStutters
  <2> QED
    BY <2>1, <2>2, <2>3, <2>4, <2>5, <2>6, <2>7, <2>8, <2>9, <2>10, <2>11, <2>12, <2>13, <2>14, <2>15, <2>16,
       <2>17, <2>18, <2>19 DEF Next
<1> QED BY <1>1, <1>2, PTL DEF Spec

\* PASS is emitted only in the reviewed commit, with the reviewed tools, after every planned question
\* was asked in order of the address the record names and answered as its evidence says, when both
\* contracts are built from the pinned sources; and no contract is asked that was not identified
\* (scripts/sg4-hcu-authority.ts).
THEOREM PassIsEarned == Spec => []PassMeansVerified
<1>1. HcuInv => PassMeansVerified BY DEF HcuInv, VerdictInv
<1> QED BY <1>1, HcuInvariant, PTL

\* A record that the validation accepts, and a chain is asked about, says what its documents say, read
\* without the extractors (scripts/sg4-hcu-authority.ts).
THEOREM AcceptedRecordsAreDerived == Spec => []AcceptedIsDerived
<1>1. HcuInv => AcceptedIsDerived
  <2> SUFFICES ASSUME HcuInv, pc = "chain" PROVE DerivedFromDocuments(record) BY DEF AcceptedIsDerived
  <2>1. pc \in Asking BY DEF Asking, Identifying, BeforeAuthority, BeforeExecutor
  <2>2. lineage = "VERIFIED" /\ Readable(record) BY <2>1 DEF HcuInv, StartInv
  <2>3. validateAuthorityBindingRecord(record) = {} BY <2>2 DEF HcuInv, LineageInv
  <2>4. None \notin DOMAIN Canonical /\ None \notin PriceTypes BY AuthorityConfiguration
  <2> QED BY <2>2, <2>3, <2>4, AcceptedSaysWhatDocumentsSay
<1> QED BY <1>1, HcuInvariant, PTL
-----------------------------------------------------------------------------
(* A run without a contradiction. *)

\* A verified record that says what the chain can say, and tools that are the reviewed ones.
HonestCase ==
  /\ lineage = "VERIFIED" /\ tools = {} /\ WordPinned /\ ExpectationsStored(record.block = "PROVEN_PRESENT")
  /\ \A f \in MandatoryLimits : record.limits[f] = OnChain
  /\ Proxy \in {record.executor, record.authority}
  /\ record.block = "PROVEN_ABSENT" => record.limits["blockOrBatchCap"] = NotApplicable
  /\ record.status = "RESOLVED" /\ record.reverification = "REVERIFIED" /\ pricingComparisonBlockers(record) = {}
  /\ PinnedBuilds(record) = Roles

AllBound == \A i \in DOMAIN log : log[i].answer = "bound"
NothingNoted == failures = {} /\ blockers = {}

\* What is known of the contracts once a place is passed.
ExecutorFound ==
  /\ results.executorImplementation = "VERIFIED"
  /\ results.executorProxy = IF record.executor = Proxy THEN "VERIFIED" ELSE "UNRESOLVED"
  /\ roles.EXECUTOR_IMPLEMENTATION = IF record.executor = Proxy THEN "executorImplementation" ELSE "executor"
VersionFound == results.executorVersion = "MATCHES_BINDING_RECORD"
AuthorityDerived == results.derivation = "VERIFIED" /\ roles.AUTHORITY = "authority"
PolicyMet ==
  results.policy = IF record.authority = Proxy
                   THEN IF record.policies.authority.kind = "EXACT" THEN "EXACT_MATCH" ELSE "PERMITTED"
                   ELSE "NOT_APPLICABLE"
AuthorityFound == results.codeIdentity = "VERIFIED" /\ results.authorityCode = "VERIFIED" /\ PolicyMet
Linked == results.reciprocal = "VERIFIED"
AuthorityVersionFound == results.authorityVersion = "MATCHES_BINDING_RECORD"

\* The contracts, as far as the verifier has come.
ContractsFound ==
  /\ pc \in {"chain", "block", "executor"} => results.executorProxy = "UNRESOLVED"
  /\ pc \in {"executorSlot", "executorCode"} => results.executorProxy = "VERIFIED"
  /\ pc \in Asking \ BeforeExecutor => ExecutorFound
  /\ pc \in Asking \ (BeforeExecutor \cup {"executorVersion"}) => VersionFound
  /\ pc \in Asking \ (BeforeExecutor \cup {"executorVersion", "authority"}) => AuthorityDerived
  /\ pc \in {"authoritySlot", "authorityImplementation"} => results.authorityCode = "VERIFIED"
  /\ pc = "authorityImplementation" => PolicyMet
  /\ pc \in Asking \ BeforeAuthority => AuthorityFound
  /\ pc \in {"authorityVersion", "limits", "callers"} => Linked
  /\ pc \in {"limits", "callers"} => AuthorityVersionFound

\* The limits and the callers found so far.
LimitsFound ==
  \A i \in DOMAIN readings : IF i < 3 THEN readings[i] = MatchesOnChain
                             ELSE readings[i] \in PROMOTING_LIMIT_RESULTS \cup {NotApplicable}
CallersFound == ToSet(callers) \subseteq {"NOT_EXEMPT", "NOT_APPLICABLE_WITH_PROOF"}

\* Everything was asked, and answered as the record's evidence says.
AllFound ==
  /\ cursor = Len(livePlan) /\ pinned /\ ExecutorFound /\ VersionFound /\ AuthorityDerived /\ AuthorityFound /\ Linked
  /\ AuthorityVersionFound /\ Len(readings) = 3 /\ Len(callers) = Len(Callers) /\ results.coverage = "COMPLETE"

HonestInv ==
  HonestCase /\ AllBound =>
    /\ LimitsFound /\ CallersFound
    /\ pc \in Asking => NothingNoted /\ ContractsFound /\ results.coverage = "UNRESOLVED"
    /\ pc = "conclude" =>
         /\ failures = {} /\ results.coverage # "INCOMPLETE"
         /\ IF Len(log) = Len(livePlan) THEN blockers = {} /\ AllFound ELSE blockers # {}
    /\ pc = "done" => verdict = IF Len(log) = Len(livePlan) THEN "PASS" ELSE "BLOCKED"

\* Everything that is known while an honest run asks.
HonestSoFar ==
  HonestCase /\ NothingNoted /\ ContractsFound /\ LimitsFound /\ CallersFound /\ results.coverage = "UNRESOLVED"

\* The state of the cap is resolved in an accepted record.
LEMMA BlockResolved ==
  ASSUME NEW r, validateAuthorityBindingRecord(r) = {}
  PROVE  r.block \in {"PROVEN_PRESENT", "PROVEN_ABSENT"}
<1>1. PICK source : source = r.entries["authoritySource"].content OBVIOUS
<1>2. "authoritySource" \in MaterialSubjects BY DEF MaterialSubjects
<1>3. Authentic(r, "authoritySource") /\ Document(r, "authoritySource") = source BY <1>1, <1>2, CarriedDocuments
<1>4. SourceClaimErrors(r) = {} BY DEF validateAuthorityBindingRecord
<1>5. PICK conclusion : conclusion = blockOrBatchConclusion(source) OBVIOUS
<1>6. /\ When(conclusion = "UNRESOLVED", "the authority source parse is partial") = {}
      /\ When(\/ conclusion = "ABSENT" /\ r.block # "PROVEN_ABSENT"
              \/ conclusion = "PRESENT" /\ r.block # "PROVEN_PRESENT", "disagrees with the parser conclusion") = {}
  <2>1. PICK operators : operators = enforcementOperators(source) OBVIOUS
  <2>2. PICK complete : complete = parseCompleteness(source) OBVIOUS
  <2>3. PICK names : names = enumeration(source) OBVIOUS
  <2>4. PICK semantics : semantics = derivedLimitSemantics(source) OBVIOUS
  <2>5. SourceClaimErrors(r) =
          When(r.enumeration.names # names, "enumeration disagrees with the parsed source")
            \cup When(r.enumeration.completeness # complete, "parseCompleteness disagrees")
            \cup When(semantics = "UNRESOLVED", "the parsed enforcement paths disagree")
            \cup When(r.semantics # semantics, "limits.semantics disagrees")
            \cup When(Cardinality(operators) = 1 /\ operators # {r.operator},
                      "limits.enforcementOperator disagrees")
            \cup When(conclusion = "UNRESOLVED", "the authority source parse is partial")
            \cup When(\/ conclusion = "ABSENT" /\ r.block # "PROVEN_ABSENT"
                      \/ conclusion = "PRESENT" /\ r.block # "PROVEN_PRESENT", "disagrees with the parser conclusion")
    BY <1>3, <1>5, <2>1, <2>2, <2>3, <2>4 DEF SourceClaimErrors
  <2> QED BY <1>4, <2>5
<1>7. conclusion \in {"PRESENT", "ABSENT", "UNRESOLVED"}
  BY <1>5 DEF blockOrBatchConclusion, deriveBlockOrBatchConclusion
<1> QED BY <1>6, <1>7 DEF When

\* Each call stands at its own place in the plan.
LEMMA PlanPlaces ==
  ASSUME record.executor \in {Proxy, Direct}, record.authority \in {Proxy, Direct}, NEW i \in 1 .. Len(livePlan)
  PROVE  LET e == Extra(record.executor)
         IN /\ livePlan[i].what = "SLOT" /\ livePlan[i].role = "EXECUTOR" <=> record.executor = Proxy /\ i = 4
            /\ livePlan[i].what = "CODE" /\ livePlan[i].role = "EXECUTOR_IMPLEMENTATION"
                 <=> record.executor = Proxy /\ i = 5
            /\ livePlan[i].what = "SLOT" /\ livePlan[i].role = "AUTHORITY" <=> record.authority = Proxy /\ i = 7 + e
            /\ livePlan[i].what = "CODE" /\ livePlan[i].role = "AUTHORITY_IMPLEMENTATION"
                 <=> record.authority = Proxy /\ i = 8 + e
            /\ livePlan[i].what = "CODE" /\ livePlan[i].role = "EXECUTOR" => i = 3
            /\ livePlan[i].what = "EXECUTOR_VERSION" /\ livePlan[i].role = "EXECUTOR" => i = 4 + e
            /\ livePlan[i].what = "AUTHORITY_GETTER" /\ livePlan[i].role = "EXECUTOR" => i = 5 + e
            /\ livePlan[i].what = "SLOT" => livePlan[i].role \in {"EXECUTOR", "AUTHORITY"}
<1> DEFINE G == GettersUpTo(Len(LimitFields))
           C == SubjectsUpTo(Len(Callers))
<1>1. PICK e : e = Extra(record.executor) OBVIOUS
<1>2. PICK d : d = Extra(record.authority) OBVIOUS
<1>3. /\ e = IF record.executor = Proxy THEN 2 ELSE 0
      /\ d = IF record.authority = Proxy THEN 2 ELSE 0
  BY <1>1, <1>2 DEF Extra
<1>4. PICK b \in Nat : b = e + d BY <1>3
<1>5. G \in Seq(Limits) /\ C \in Seq(ToSet(Callers)) BY PlanLayout, Zenon
<1>6. PICK g \in Nat : g = Len(G) BY <1>5
<1>7. PICK c \in Nat : c = Len(C) BY <1>5
<1>8. Len(livePlan) = 9 + b + g + c BY <1>1, <1>2, <1>4, <1>6, <1>7, PlanLayout, Zenon
<1>9. /\ livePlan[1] = Planned("CHAIN_ID", "NONE", FALSE)
      /\ livePlan[2] = Planned("PINNED_BLOCK", "NONE", FALSE)
      /\ livePlan[3] = Planned("CODE", "EXECUTOR", TRUE)
      /\ record.executor = Proxy => /\ livePlan[4] = Planned("SLOT", "EXECUTOR", TRUE)
                                    /\ livePlan[5] = Planned("CODE", "EXECUTOR_IMPLEMENTATION", TRUE)
      /\ livePlan[4 + e] = Planned("EXECUTOR_VERSION", "EXECUTOR", TRUE)
      /\ livePlan[5 + e] = Planned("AUTHORITY_GETTER", "EXECUTOR", TRUE)
      /\ livePlan[6 + e] = Planned("CODE", "AUTHORITY", TRUE)
      /\ record.authority = Proxy => /\ livePlan[7 + e] = Planned("SLOT", "AUTHORITY", TRUE)
                                     /\ livePlan[8 + e] = Planned("CODE", "AUTHORITY_IMPLEMENTATION", TRUE)
      /\ livePlan[7 + b] = Planned("HCU_STORAGE", "AUTHORITY", TRUE)
      /\ livePlan[8 + b] = Planned("EXECUTOR_GETTER", "AUTHORITY", TRUE)
      /\ livePlan[9 + b] = Planned("AUTHORITY_VERSION", "AUTHORITY", TRUE)
  BY <1>1, <1>2, <1>4, PlanLayout, Zenon
<1>10. CASE i > 9 + b
  <2>1. livePlan[i].role = "AUTHORITY" /\ livePlan[i].what \in Limits \cup ToSet(Callers)
    <3>1. CASE i <= 9 + b + g
      <4>1. PICK k \in 1 .. g : i = 9 + b + k BY <1>10, <3>1
      <4>2. livePlan[i] = Planned(G[k], "AUTHORITY", TRUE) BY <1>1, <1>2, <1>4, <1>6, <4>1, PlanLayout, Zenon
      <4>3. G[k] \in Limits BY <1>5, <1>6, <4>1
      <4> HIDE DEF G
      <4> QED BY <4>2, <4>3 DEF Planned
    <3>2. CASE i > 9 + b + g
      <4>1. PICK k \in 1 .. c : i = 9 + b + g + k BY <1>8, <3>2
      <4>2. livePlan[i] = Planned(C[k], "AUTHORITY", TRUE) BY <1>1, <1>2, <1>4, <1>6, <1>7, <4>1, PlanLayout, Zenon
      <4>3. C[k] \in ToSet(Callers) BY <1>5, <1>7, <4>1
      <4> HIDE DEF C
      <4> QED BY <4>2, <4>3 DEF Planned
    <3> QED BY <3>1, <3>2
  <2>2. "CODE" \notin Limits \cup ToSet(Callers) /\ "SLOT" \notin Limits \cup ToSet(Callers)
    BY AuthorityConfiguration DEF Limits, MandatoryLimits
  <2>3. livePlan[i].what # "CODE" /\ livePlan[i].what # "SLOT" /\ livePlan[i].role = "AUTHORITY" BY <2>1, <2>2
  <2>4. i # 4 /\ i # 5 /\ (record.authority = Proxy => i # 7 + e /\ i # 8 + e) BY <1>3, <1>4, <1>10
  <2> QED BY <1>1, <2>3, <2>4
<1>11. CASE i <= 9 + b
  <2> HIDE DEF G, C
  <2>1. CASE e = 0 /\ d = 0
    <3>1. b = 0 /\ i \in 1 .. 9 BY <1>4, <1>11, <2>1
    <3> QED BY <1>1, <1>3, <1>9, <2>1, <3>1 DEF Planned
  <2>2. CASE e = 2 /\ d = 0
    <3>1. b = 2 /\ i \in 1 .. 11 BY <1>4, <1>11, <2>2
    <3> QED BY <1>1, <1>3, <1>9, <2>2, <3>1 DEF Planned
  <2>3. CASE e = 0 /\ d = 2
    <3>1. b = 2 /\ i \in 1 .. 11 BY <1>4, <1>11, <2>3
    <3> QED BY <1>1, <1>3, <1>9, <2>3, <3>1 DEF Planned
  <2>4. CASE e = 2 /\ d = 2
    <3>1. b = 4 /\ i \in 1 .. 13 BY <1>4, <1>11, <2>4
    <3> QED BY <1>1, <1>3, <1>9, <2>4, <3>1 DEF Planned
  <2> QED BY <1>3, <2>1, <2>2, <2>3, <2>4
<1> QED BY <1>4, <1>8, <1>10, <1>11

LEMMA PlanIsUsable ==
  ASSUME record.executor \in {Proxy, Direct}, record.authority \in {Proxy, Direct}
  PROVE  PlanUsable(livePlan, record)
<1> DEFINE position(what, role) == {i \in 1 .. Len(livePlan) : livePlan[i].what = what /\ livePlan[i].role = role}
<1>1. PICK e : e = Extra(record.executor) OBVIOUS
<1>2. e = IF record.executor = Proxy THEN 2 ELSE 0 BY <1>1 DEF Extra
<1>3. PICK p \in Nat : p = Len(livePlan) BY PlanLengths
<1>4. p >= 9 + e /\ (record.authority = Proxy => p >= 11 + e)
  <2>1. PICK d : d = Extra(record.authority) OBVIOUS
  <2>2. d = IF record.authority = Proxy THEN 2 ELSE 0 BY <2>1 DEF Extra
  <2>3. PICK g \in Nat : g = Len(GettersUpTo(3)) BY PlanLengths
  <2>4. PICK c \in Nat : c = Len(SubjectsUpTo(Len(Callers))) BY PlanLengths
  <2>5. p = 9 + (e + d) + g + c BY <1>1, <1>3, <2>1, <2>3, <2>4, PlanLengths, Zenon
  <2> QED BY <1>2, <2>2, <2>5
<1>5. \A i \in 1 .. p :
         /\ livePlan[i].what = "SLOT" /\ livePlan[i].role = "EXECUTOR" <=> record.executor = Proxy /\ i = 4
         /\ livePlan[i].what = "CODE" /\ livePlan[i].role = "EXECUTOR_IMPLEMENTATION"
              <=> record.executor = Proxy /\ i = 5
         /\ livePlan[i].what = "SLOT" /\ livePlan[i].role = "AUTHORITY" <=> record.authority = Proxy /\ i = 7 + e
         /\ livePlan[i].what = "CODE" /\ livePlan[i].role = "AUTHORITY_IMPLEMENTATION"
              <=> record.authority = Proxy /\ i = 8 + e
         /\ livePlan[i].what = "CODE" /\ livePlan[i].role = "EXECUTOR" => i = 3
         /\ livePlan[i].what = "EXECUTOR_VERSION" /\ livePlan[i].role = "EXECUTOR" => i = 4 + e
         /\ livePlan[i].what = "AUTHORITY_GETTER" /\ livePlan[i].role = "EXECUTOR" => i = 5 + e
  BY <1>1, <1>3, PlanPlaces
<1>6. /\ position("SLOT", "EXECUTOR") = IF record.executor = Proxy THEN {4} ELSE {}
      /\ position("CODE", "EXECUTOR_IMPLEMENTATION") = IF record.executor = Proxy THEN {5} ELSE {}
      /\ position("SLOT", "AUTHORITY") = IF record.authority = Proxy THEN {7 + e} ELSE {}
      /\ position("CODE", "AUTHORITY_IMPLEMENTATION") = IF record.authority = Proxy THEN {8 + e} ELSE {}
  <2>1. position("SLOT", "EXECUTOR") = IF record.executor = Proxy THEN {4} ELSE {} BY <1>2, <1>3, <1>4, <1>5
  <2>2. position("CODE", "EXECUTOR_IMPLEMENTATION") = IF record.executor = Proxy THEN {5} ELSE {} BY <1>2, <1>3, <1>4, <1>5
  <2>3. position("SLOT", "AUTHORITY") = IF record.authority = Proxy THEN {7 + e} ELSE {} BY <1>2, <1>3, <1>4, <1>5
  <2>4. position("CODE", "AUTHORITY_IMPLEMENTATION") = IF record.authority = Proxy THEN {8 + e} ELSE {}
    BY <1>2, <1>3, <1>4, <1>5
  <2> QED BY <2>1, <2>2, <2>3, <2>4
<1>7. /\ position("CODE", "EXECUTOR") \subseteq {3}
      /\ position("EXECUTOR_VERSION", "EXECUTOR") \subseteq {4 + e} /\ position("AUTHORITY_GETTER", "EXECUTOR") \subseteq {5 + e}
  BY <1>3, <1>5
<1> DEFINE ofModel(model, role, implementation) ==
             IF model = Proxy
             THEN \E i \in 1 .. Len(livePlan) : position("SLOT", role) = {i} /\ position("CODE", implementation) = {i + 1}
             ELSE position("SLOT", role) = {} /\ position("CODE", implementation) = {}
<1>8. ofModel(record.executor, "EXECUTOR", "EXECUTOR_IMPLEMENTATION")
  <2> HIDE DEF position
  <2>1. 4 \in 1 .. Len(livePlan) /\ 4 + 1 = 5 BY <1>2, <1>3, <1>4
  <2> QED BY <1>6, <2>1
<1>9. ofModel(record.authority, "AUTHORITY", "AUTHORITY_IMPLEMENTATION")
  <2> HIDE DEF position
  <2>1. record.authority = Proxy => 7 + e \in 1 .. Len(livePlan) /\ (7 + e) + 1 = 8 + e BY <1>2, <1>3, <1>4
  <2> QED BY <1>6, <2>1
<1>10. \A i \in position("CODE", "EXECUTOR") \cup position("CODE", "EXECUTOR_IMPLEMENTATION"),
          j \in position("EXECUTOR_VERSION", "EXECUTOR"), k \in position("AUTHORITY_GETTER", "EXECUTOR") :
         i < j /\ j < k
  <2>1. position("CODE", "EXECUTOR_IMPLEMENTATION") = IF record.executor = Proxy THEN {5} ELSE {} BY <1>6
  <2> HIDE DEF position
  <2> QED BY <1>2, <1>7, <2>1
<1> HIDE DEF position
<1> QED BY <1>8, <1>9, <1>10 DEF PlanUsable, position

LEMMA OneElement ==
  ASSUME NEW x
  PROVE  IsFiniteSet({x}) /\ Cardinality({x}) = 1
BY FS_Singleton, Zenon

LEMMA TwoElements ==
  ASSUME NEW x, NEW y, x # y
  PROVE  Cardinality({x, y}) = 2
<1>1. PICK S : S = {x} OBVIOUS
<1>2. IsFiniteSet(S) /\ Cardinality(S) = 1 BY <1>1, OneElement
<1>3. y \notin S BY <1>1
<1>4. Cardinality(S \cup {y}) = Cardinality(S) + 1 BY <1>2, <1>3, FS_AddElement
<1>5. S \cup {y} = {x, y} BY <1>1
<1> QED BY <1>2, <1>4, <1>5

\* A log that is the whole plan reads each slot once.
LEMMA SlotsRead ==
  ASSUME HcuInv, Len(log) = Len(livePlan), Proxy \in {record.executor, record.authority}
  PROVE  SlotReadErrors = {}
<1>1. PICK e : e = Extra(record.executor) OBVIOUS
<1>2. PICK d : d = Extra(record.authority) OBVIOUS
<1>3. /\ e = IF record.executor = Proxy THEN 2 ELSE 0
      /\ d = IF record.authority = Proxy THEN 2 ELSE 0
  BY <1>1, <1>2 DEF Extra
<1>4. PICK p \in Nat : p = Len(livePlan) BY PlanLengths
<1>5. p >= 9 + (e + d)
  <2>3. PICK g \in Nat : g = Len(GettersUpTo(3)) BY PlanLengths
  <2>4. PICK c \in Nat : c = Len(SubjectsUpTo(Len(Callers))) BY PlanLengths
  <2>5. p = 9 + (e + d) + g + c BY <1>1, <1>2, <1>4, <2>3, <2>4, PlanLengths, Zenon
  <2> QED BY <1>3, <2>5
<1>6. DOMAIN log = 1 .. p /\ \A i \in DOMAIN log : log[i].what = livePlan[i].what
  <2>1. log \in Seq(Request) BY DEF HcuInv, LogInv
  <2>2. DOMAIN log = 1 .. Len(log) BY <2>1
  <2> QED BY <1>4, <2>2 DEF HcuInv, LogInv
<1>7. record.executor \in {Proxy, Direct} /\ record.authority \in {Proxy, Direct} BY DEF HcuInv, StartInv
<1>8. \A i \in 1 .. p : livePlan[i].what = "SLOT"
                          <=> (record.executor = Proxy /\ i = 4) \/ (record.authority = Proxy /\ i = 7 + e)
  <2> SUFFICES ASSUME NEW i \in 1 .. p
               PROVE  livePlan[i].what = "SLOT"
                        <=> (record.executor = Proxy /\ i = 4) \/ (record.authority = Proxy /\ i = 7 + e)
    OBVIOUS
  <2>1. /\ livePlan[i].what = "SLOT" /\ livePlan[i].role = "EXECUTOR" <=> record.executor = Proxy /\ i = 4
        /\ livePlan[i].what = "SLOT" /\ livePlan[i].role = "AUTHORITY" <=> record.authority = Proxy /\ i = 7 + e
        /\ livePlan[i].what = "SLOT" => livePlan[i].role \in {"EXECUTOR", "AUTHORITY"}
    BY <1>1, <1>4, <1>7, PlanPlaces
  <2> QED BY <2>1
<1>9. PICK slots : slots = {i \in DOMAIN log : log[i].what = "SLOT"} OBVIOUS
<1>10. PICK proxied : proxied = {role \in {"executor", "authority"} : record[role] = Proxy} OBVIOUS
<1>11. Cardinality(slots) = Cardinality(proxied) /\ Cardinality(proxied) > 0
  <2>0. \A i : i \in slots <=> i \in 1 .. p /\ ((record.executor = Proxy /\ i = 4) \/ (record.authority = Proxy /\ i = 7 + e))
    BY <1>6, <1>8, <1>9
  <2>1. CASE record.executor = Proxy /\ record.authority = Proxy
    <3>1. slots = {4, 9} /\ proxied = {"executor", "authority"} BY <1>3, <1>5, <1>10, <2>0, <2>1
    <3>2. Cardinality({4, 9}) = 2
      <4>1. 4 # 9 OBVIOUS
      <4> QED BY <4>1, TwoElements, Zenon
    <3>3. Cardinality({"executor", "authority"}) = 2 BY TwoElements
    <3> QED BY <3>1, <3>2, <3>3
  <2>2. CASE record.executor = Proxy /\ record.authority # Proxy
    <3>1. slots = {4} /\ proxied = {"executor"} BY <1>3, <1>5, <1>10, <2>0, <2>2
    <3>2. Cardinality({4}) = 1 /\ Cardinality({"executor"}) = 1 BY OneElement
    <3> QED BY <3>1, <3>2
  <2>3. CASE record.executor # Proxy /\ record.authority = Proxy
    <3>1. slots = {7} /\ proxied = {"authority"} BY <1>3, <1>5, <1>10, <2>0, <2>3
    <3>2. Cardinality({7}) = 1 /\ Cardinality({"authority"}) = 1 BY OneElement
    <3> QED BY <3>1, <3>2
  <2> QED BY <2>1, <2>2, <2>3
<1>12. \E i \in DOMAIN log : log[i].what \in {"SLOT", "HCU_STORAGE"}
  <2>1. livePlan[7 + (e + d)] = Planned("HCU_STORAGE", "AUTHORITY", TRUE) BY <1>1, <1>2, PlanLayout, Zenon
  <2>2. 7 + (e + d) \in 1 .. p BY <1>3, <1>5
  <2>3. log[7 + (e + d)].what = "HCU_STORAGE" BY <1>6, <2>1, <2>2 DEF Planned
  <2> QED BY <1>6, <2>2, <2>3
<1>13. PICK n : n = Cardinality(slots) OBVIOUS
<1>14. PICK m : m = Cardinality(proxied) OBVIOUS
<1>15. SlotReadErrors = Unless(n = m /\ ((\E i \in DOMAIN log : log[i].what \in {"SLOT", "HCU_STORAGE"}) <=> m > 0),
                               "PASS requires exactly one ERC-1967 slot read for each proxied role and none for direct roles")
  BY <1>9, <1>10, <1>13, <1>14, Zenon DEF SlotReadErrors
<1> QED BY <1>11, <1>12, <1>13, <1>14, <1>15 DEF Unless

-----------------------------------------------------------------------------
(* The steps of an honest run. *)

LEMMA CaseKept ==
  ASSUME UNCHANGED <<record, tools, lineage>>
  PROVE  HonestCase' <=> HonestCase
BY DEF HonestCase, WordPinned, ExpectationsStored

\* A field of the result is set, and no other.
LEMMA ResultIs ==
  ASSUME HcuInv, NEW field \in DOMAIN NoResults, NEW value, Result(field, value)
  PROVE  results'[field] = value /\ \A other \in DOMAIN NoResults \ {field} : results'[other] = results[other]
<1>1. DOMAIN results = DOMAIN NoResults BY DEF HcuInv, NotedInv
<1> QED BY <1>1 DEF Result

\* Before an answer that is the record's, the run was honest.
LEMMA BoundAnswer ==
  ASSUME HcuInv, HonestInv, pc \in Asking, HonestCase', AllBound',
         NEW what, NEW to, NEW a, Guarded(what, to), Answered(what, to, a)
  PROVE  a = "bound" /\ HonestSoFar /\ UNCHANGED <<repository, record, tools, mode, lineage, verdict>>
<1>1. UNCHANGED <<repository, record, tools, mode, lineage, verdict>> BY DEF Guarded
<1>2. HonestCase BY <1>1, CaseKept
<1> DEFINE x == [what |-> what, to |-> to, answer |-> a]
<1>3. log \in Seq(Request) /\ log' = Append(log, x) BY DEF Answered, HcuInv, LogInv
<1>4. PICK S : S = Request \cup {x} OBVIOUS
<1>5. log \in Seq(S) /\ x \in S
  <2>1. Request \subseteq S BY <1>4
  <2>2. DOMAIN log = 1 .. Len(log) /\ \A i \in 1 .. Len(log) : log[i] \in Request BY <1>3
  <2>3. log \in [1 .. Len(log) -> S] /\ Len(log) \in Nat BY <1>3, <2>1, <2>2
  <2>4. log \in Seq(S) BY <2>3
  <2> HIDE DEF x
  <2> QED BY <1>4, <2>4
<1>6. /\ DOMAIN log' = DOMAIN log \cup {Len(log) + 1} /\ \A i \in DOMAIN log : log'[i] = log[i]
      /\ log'[Len(log) + 1] = x
  <2> HIDE DEF x
  <2> QED BY <1>3, <1>5, OneMore
<1>7. x.answer = a OBVIOUS
<1> HIDE DEF x
<1>8. a = "bound" BY <1>6, <1>7 DEF AllBound
<1>9. AllBound BY <1>6 DEF AllBound
<1> QED BY <1>1, <1>2, <1>8, <1>9 DEF HonestInv, HonestSoFar

\* The endpoint stops answering: the run is blocked before the end of the plan.
LEMMA HonestBreak ==
  ASSUME HcuInv, HonestInv, pc \in Asking, NEW what, NEW to, Guarded(what, to), Enforced(what, to), Unanswered
  PROVE  HonestInv'
<1> SUFFICES ASSUME HonestCase', AllBound' PROVE HonestInv' BY DEF HonestInv
<1>1. /\ UNCHANGED <<repository, record, tools, mode, lineage, verdict, log, roles, pinned, readings, callers, results>>
      /\ Stop({}, {})
  BY DEF Guarded, Unanswered
<1>2. HonestCase /\ AllBound BY <1>1, CaseKept DEF AllBound
<1>3. NothingNoted /\ LimitsFound /\ CallersFound /\ results.coverage = "UNRESOLVED" BY <1>2 DEF HonestInv
<1>4. pc' = "conclude" /\ failures' = {} /\ blockers' = {"LIVE_VERIFICATION_ABORTED"}
  BY <1>1, <1>3 DEF NothingNoted, Stop, Continue
<1>5. cursor < Len(livePlan) /\ cursor = Len(log) BY DEF Enforced, HcuInv, PlaceInv
<1>6. PICK n : n = Len(log) OBVIOUS
<1>7. PICK p \in Nat : p = Len(livePlan) BY PlanLengths
<1>8. n < p /\ n \in Nat
  <2>1. log \in Seq(Request) BY DEF HcuInv, LogInv
  <2>2. n \in Nat BY <1>6, <2>1
  <2> QED BY <1>5, <1>6, <1>7, <2>2
<1>9. Len(log') = n /\ Len(livePlan') = p BY <1>1, <1>6, <1>7 DEF livePlan
<1>10. Len(log') # Len(livePlan') BY <1>8, <1>9
<1>11. LimitsFound' /\ CallersFound' BY <1>1, <1>3 DEF LimitsFound, CallersFound
<1>12. pc' \notin Asking /\ pc' # "done" BY <1>4 DEF Asking, Identifying, BeforeAuthority, BeforeExecutor
<1> QED BY <1>1, <1>3, <1>4, <1>10, <1>11, <1>12 DEF HonestInv

\* The run goes on to the next place.
LEMMA HonestGoesOn ==
  ASSUME HonestSoFar, pc' \in Asking, Continue(pc', {}, {}), UNCHANGED <<readings, callers>>,
         results'.coverage = results.coverage, ContractsFound'
  PROVE  HonestInv'
<1>1. NothingNoted' BY DEF HonestSoFar, NothingNoted, Continue
<1>2. LimitsFound' /\ CallersFound' BY DEF HonestSoFar, LimitsFound, CallersFound
<1>3. pc' # "conclude" /\ pc' # "done" BY DEF Asking, Identifying, BeforeAuthority, BeforeExecutor
<1> QED BY <1>1, <1>2, <1>3 DEF HonestInv, HonestSoFar

LEMMA HonestStutters ==
  ASSUME HonestInv, UNCHANGED vars
  PROVE  HonestInv'
<1>1. UNCHANGED <<repository, record, tools, mode, lineage, pc, roles, pinned, cursor, log, violated, failures, blockers,
                  readings, callers, results, verdict>>
  BY DEF vars, runVars
<1>2. (HonestCase' <=> HonestCase) /\ (AllBound' <=> AllBound) BY <1>1, CaseKept DEF AllBound
<1>3. livePlan' = livePlan BY <1>1 DEF livePlan
<1>4. (ContractsFound' <=> ContractsFound) /\ (LimitsFound' <=> LimitsFound) /\ (CallersFound' <=> CallersFound)
  BY <1>1 DEF ContractsFound, LimitsFound, CallersFound, ExecutorFound, VersionFound, AuthorityDerived, PolicyMet,
              AuthorityFound, Linked, AuthorityVersionFound
<1>5. (NothingNoted' <=> NothingNoted) /\ (AllFound' <=> AllFound)
  BY <1>1, <1>3 DEF NothingNoted, AllFound, ExecutorFound, VersionFound, AuthorityDerived, PolicyMet, AuthorityFound,
                    Linked, AuthorityVersionFound
<1> QED BY <1>1, <1>2, <1>3, <1>4, <1>5 DEF HonestInv

\* Nothing is known of a repository before it is checked.
LEMMA HonestStart ==
  ASSUME lineage' # "VERIFIED"
  PROVE  HonestInv'
BY DEF HonestInv, HonestCase

LEMMA LineageClear ==
  ASSUME NEW g, NEW m, NEW errors, checkPreparationLineage(g, m, errors).result = "VERIFIED"
  PROVE  checkPreparationLineage(g, m, errors).blockers = {} /\ g.binding # "absent"
<1>1. CASE g.binding = "absent" BY <1>1 DEF checkPreparationLineage
<1>2. CASE g.binding # "absent" /\ errors # {} BY <1>2 DEF checkPreparationLineage
<1>3. CASE g.binding # "absent" /\ errors = {} /\ LineageBroken(g, m) BY <1>3 DEF checkPreparationLineage
<1>4. CASE g.binding # "absent" /\ errors = {} /\ ~LineageBroken(g, m) BY <1>4 DEF checkPreparationLineage
<1> QED BY <1>1, <1>2, <1>3, <1>4

LEMMA PrepareHonest ==
  ASSUME HcuInv, Prepare
  PROVE  HonestInv'
<1> DEFINE checked == checkPreparationLineage(repository, mode, validateAuthorityBindingRecord(record))
<1>1. /\ pc = "prepare" /\ lineage' = checked.result
      /\ UNCHANGED <<repository, record, tools, mode, roles, pinned, cursor, log, violated, readings, callers, results, verdict>>
  BY DEF Prepare
<1> SUFFICES ASSUME HonestCase', AllBound' PROVE HonestInv' BY DEF HonestInv
<1>2. lineage' = "VERIFIED" /\ tools = {} BY <1>1 DEF HonestCase
<1>3. /\ failures = {} /\ blockers = {} /\ readings = <<>> /\ callers = <<>>
      /\ results.coverage = "UNRESOLVED" /\ results.executorProxy = "UNRESOLVED"
  BY <1>1 DEF HcuInv, StartInv, NoResults
<1>4. PlanUsable(livePlan, record)
  <2>1. record.executor \in {Proxy, Direct} /\ record.authority \in {Proxy, Direct} BY DEF HcuInv, StartInv
  <2> QED BY <2>1, PlanIsUsable
<1>5. Continue("chain", {}, {})
  <2>1. PICK c : c = checked OBVIOUS
  <2>2. PICK u : u = PlanUsable(livePlan, record) OBVIOUS
  <2>3. c.result = "VERIFIED" /\ c.blockers = {} /\ repository.binding # "absent" BY <1>1, <1>2, <2>1, LineageClear
  <2> DEFINE bindingResult == CASE c.result = "VERIFIED" -> "VALID"
                                [] repository.binding = "absent" -> "ABSENT"
                                [] c.result = "BROKEN" -> "INVALID"
                                [] OTHER -> "UNRESOLVED"
             usable == bindingResult = "VALID" /\ u
             f == (IF c.result = "BROKEN" THEN {"PREPARATION_LINEAGE_BROKEN"} ELSE {})
                    \cup Unless("drifted" \notin tools, "MEASUREMENT_TOOLCHAIN_ROOT_UNVERIFIED")
                    \cup Unless("stale" \notin tools, "STALE_AUTHORITY_CONSTANT_USED")
                    \cup Unless(bindingResult # "VALID" \/ usable, "LIVE_CALL_PLAN_UNUSABLE")
             b == c.blockers
                    \cup Unless(c.blockers = {}, "NETWORK_TRANSPORT_WITHHELD")
                    \cup Unless(bindingResult = "VALID", "AUTHORITY_BINDING_RECORD_NOT_VALID")
                    \cup Unless(usable, "LIVE_CALL_PLAN_NOT_INSTALLED")
  <2>4. IF usable THEN Continue("chain", f, b) ELSE Stop(f, b)
    <3> HIDE DEF checked
    <3> QED BY <2>1, <2>2 DEF Prepare, checked
  <2>5. bindingResult = "VALID" BY <2>3
  <2>6. usable BY <1>4, <2>2, <2>5
  <2> HIDE DEF bindingResult, usable
  <2>7. f = {} /\ b = {} BY <1>2, <2>3, <2>5, <2>6 DEF Unless
  <2> QED BY <2>4, <2>6, <2>7
<1>6. pc' = "chain" /\ NothingNoted' BY <1>3, <1>5 DEF Continue, NothingNoted
<1>7. ContractsFound' BY <1>1, <1>3, <1>6 DEF ContractsFound, Asking, Identifying, BeforeAuthority, BeforeExecutor
<1>8. LimitsFound' /\ CallersFound' BY <1>1, <1>3 DEF LimitsFound, CallersFound, ToSet
<1> QED BY <1>1, <1>3, <1>6, <1>7, <1>8 DEF HonestInv

\* An answer after which the run goes on.
LEMMA HonestStep ==
  ASSUME HcuInv, HonestInv, pc \in Asking, NEW what, NEW to, NEW a, Guarded(what, to), Answered(what, to, a),
         a = "bound" /\ HonestSoFar /\ record' = record =>
           /\ pc' \in Asking /\ Continue(pc', {}, {}) /\ UNCHANGED <<readings, callers>>
           /\ results'.coverage = results.coverage /\ ContractsFound'
  PROVE  HonestInv'
<1> SUFFICES ASSUME HonestCase', AllBound' PROVE HonestInv' BY DEF HonestInv
<1>1. a = "bound" /\ HonestSoFar /\ record' = record BY BoundAnswer
<1> QED BY <1>1, HonestGoesOn

LEMMA ResultNames ==
  DOMAIN NoResults = {"executorProxy", "executorImplementation", "executorVersion", "derivation", "authorityCode", "policy",
                      "codeIdentity", "reciprocal", "authorityVersion", "coverage", "plan"}
BY DEF NoResults

LEMMA ChainIdentityHonest ==
  ASSUME HcuInv, HonestInv, ChainIdentity
  PROVE  HonestInv'
<1>1. pc = "chain" /\ pc \in Asking /\ Guarded("CHAIN_ID", "none") /\ Enforced("CHAIN_ID", "none")
  BY PlannedHere DEF ChainIdentity, Asking, Identifying, BeforeAuthority, BeforeExecutor
<1>2. CASE Unanswered BY <1>1, <1>2, HonestBreak
<1>3. ASSUME NEW a, Answered("CHAIN_ID", "none", a), a = "bound" => Continue("block", {}, {}),
             UNCHANGED <<roles, pinned, readings, callers, results>>
      PROVE  HonestInv'
  <2>1. ASSUME a = "bound", HonestSoFar
        PROVE  pc' = "block" /\ pc' \in Asking /\ Continue(pc', {}, {}) /\ ContractsFound'
    <3>1. pc' = "block" /\ Continue(pc', {}, {}) BY <1>3, <2>1 DEF Continue
    <3>2. results'.executorProxy = "UNRESOLVED" BY <1>1, <1>3, <2>1 DEF HonestSoFar, ContractsFound
    <3> QED BY <3>1, <3>2 DEF ContractsFound, Asking, Identifying, BeforeAuthority, BeforeExecutor
  <2> QED BY <1>1, <1>3, <2>1, HonestStep
<1>4. \/ Unanswered
      \/ \E a : /\ Answered("CHAIN_ID", "none", a)
                /\ a = "bound" => Continue("block", {}, {})
                /\ UNCHANGED <<roles, pinned, readings, callers, results>>
  BY DEF ChainIdentity
<1> QED BY <1>2, <1>3, <1>4

LEMMA PinnedBlockHonest ==
  ASSUME HcuInv, HonestInv, PinnedBlock
  PROVE  HonestInv'
<1>1. pc = "block" /\ pc \in Asking /\ Guarded("PINNED_BLOCK", "none") /\ Enforced("PINNED_BLOCK", "none")
  BY PlannedHere DEF PinnedBlock, Asking, Identifying, BeforeAuthority, BeforeExecutor
<1>2. CASE Unanswered BY <1>1, <1>2, HonestBreak
<1>3. ASSUME NEW a, Answered("PINNED_BLOCK", "none", a), a = "bound" => Continue("executor", {}, {}),
             UNCHANGED <<roles, readings, callers, results>>
      PROVE  HonestInv'
  <2>1. ASSUME a = "bound", HonestSoFar
        PROVE  pc' \in Asking /\ Continue(pc', {}, {}) /\ ContractsFound'
    <3>1. pc' = "executor" /\ Continue(pc', {}, {}) BY <1>3, <2>1 DEF Continue
    <3>2. results'.executorProxy = "UNRESOLVED" BY <1>1, <1>3, <2>1 DEF HonestSoFar, ContractsFound
    <3> QED BY <3>1, <3>2 DEF ContractsFound, Asking, Identifying, BeforeAuthority, BeforeExecutor
  <2> QED BY <1>1, <1>3, <2>1, HonestStep
<1>4. \/ Unanswered
      \/ \E a : /\ Answered("PINNED_BLOCK", "none", a)
                /\ a = "bound" => Continue("executor", {}, {})
                /\ UNCHANGED <<roles, readings, callers, results>>
  <2>1. ASSUME NEW a,
               CASE a = "bound" -> Continue("executor", {}, {})
                 [] a = "other" -> Stop({"BOUND_SNAPSHOT_HEADER_MISMATCH"}, {})
                 [] a = "bad" -> Stop({}, {"BOUND_SNAPSHOT_BLOCK_NOT_AVAILABLE"})
        PROVE  a = "bound" => Continue("executor", {}, {})
    BY <2>1
  <2> QED BY <2>1 DEF PinnedBlock
<1> QED BY <1>2, <1>3, <1>4

\* The executor's implementation answered as the record says.
LEMMA ExecutorIdentified ==
  ASSUME HcuInv, (pc = "executor" /\ record.executor = Direct) \/ pc = "executorCode", HonestSoFar, record' = record,
         "executor" \in PinnedBuilds(record), ExecutorIdentity("bound", {}),
         roles'.EXECUTOR_IMPLEMENTATION = IF pc = "executor" THEN "executor" ELSE "executorImplementation"
  PROVE  pc' \in Asking /\ Continue(pc', {}, {}) /\ results'.coverage = results.coverage /\ ContractsFound'
<1>1. Continue("executorVersion", {} \cup Unless("bound" = "bound", "EXECUTOR_SNAPSHOT_IMPLEMENTATION_EVIDENCE_MISMATCH"), {})
      /\ Result("executorImplementation", "VERIFIED")
  BY DEF ExecutorIdentity
<1>2. pc' = "executorVersion" /\ Continue(pc', {}, {}) BY <1>1 DEF Continue, Unless
<1>3. /\ results'.executorImplementation = "VERIFIED" /\ results'.coverage = results.coverage
      /\ results'.executorProxy = results.executorProxy
  BY <1>1, ResultIs, ResultNames
<1>4. results.executorProxy = IF pc = "executor" THEN "UNRESOLVED" ELSE "VERIFIED"
  BY DEF HonestSoFar, ContractsFound
<1>5. (record.executor = Proxy) <=> pc = "executorCode"
  BY DEF HcuInv, PlaceInv, Proxy, Direct
<1>6. ExecutorFound' BY <1>3, <1>4, <1>5 DEF ExecutorFound
<1> QED BY <1>2, <1>3, <1>6 DEF ContractsFound, Asking, Identifying, BeforeAuthority, BeforeExecutor

LEMMA ExecutorShellHonest ==
  ASSUME HcuInv, HonestInv, ExecutorShell
  PROVE  HonestInv'
<1>1. pc = "executor" /\ pc \in Asking /\ Guarded("CODE", "executor") /\ Enforced("CODE", "executor")
  BY PlannedHere DEF ExecutorShell, Asking, Identifying, BeforeAuthority, BeforeExecutor
<1>2. CASE Unanswered BY <1>1, <1>2, HonestBreak
<1>3. ASSUME NEW a, NEW noted, Answered("CODE", "executor", a), a = "bound" => noted = {},
             CASE a = "bad" -> Stop({"EXECUTOR_HAS_NO_CODE"}, {}) /\ UNCHANGED <<roles, results>>
               [] a # "bad" /\ record.executor = Direct ->
                    /\ Resolve("EXECUTOR_IMPLEMENTATION", "executor")
                    /\ ExecutorIdentity(a, noted)
               [] a = "other" /\ record.executor = Proxy ->
                    /\ Stop(noted \cup {"EXECUTOR_PROXY_CODE_IDENTITY_MISMATCH"}, {})
                    /\ Result("executorProxy", "MISMATCH") /\ UNCHANGED roles
               [] a = "bound" /\ record.executor = Proxy ->
                    /\ Continue("executorSlot", {}, {})
                    /\ Result("executorProxy", "VERIFIED") /\ UNCHANGED roles,
             UNCHANGED <<pinned, readings, callers>>
      PROVE  HonestInv'
  <2>1. ASSUME a = "bound", HonestSoFar, record' = record
        PROVE  /\ pc' \in Asking /\ Continue(pc', {}, {}) /\ results'.coverage = results.coverage
               /\ ContractsFound'
    <3>1. CASE record.executor = Direct
      <4>1. Resolve("EXECUTOR_IMPLEMENTATION", "executor") /\ ExecutorIdentity("bound", {})
        BY <1>3, <2>1, <3>1 DEF Proxy, Direct
      <4>2. roles'.EXECUTOR_IMPLEMENTATION = "executor" BY <4>1, RoleAddresses DEF Resolve, RoleNames
      <4>3. "executor" \in PinnedBuilds(record) BY <2>1 DEF HonestSoFar, HonestCase, Roles
      <4> QED BY <1>1, <2>1, <3>1, <4>1, <4>2, <4>3, ExecutorIdentified
    <3>2. CASE record.executor = Proxy
      <4>1. Continue("executorSlot", {}, {}) /\ Result("executorProxy", "VERIFIED")
        BY <1>3, <2>1, <3>2 DEF Proxy, Direct
      <4>2. pc' = "executorSlot" /\ Continue(pc', {}, {}) BY <4>1 DEF Continue
      <4>3. results'.executorProxy = "VERIFIED" /\ results'.coverage = results.coverage
        BY <4>1, ResultIs, ResultNames
      <4> QED BY <4>2, <4>3 DEF ContractsFound, Asking, Identifying, BeforeAuthority, BeforeExecutor
    <3> QED BY <3>1, <3>2 DEF HcuInv, StartInv
  <2> QED BY <1>1, <1>3, <2>1, HonestStep
<1>4. \/ Unanswered
      \/ \E a, noted :
           /\ Answered("CODE", "executor", a) /\ (a = "bound" => noted = {})
           /\ CASE a = "bad" -> Stop({"EXECUTOR_HAS_NO_CODE"}, {}) /\ UNCHANGED <<roles, results>>
                [] a # "bad" /\ record.executor = Direct ->
                     /\ Resolve("EXECUTOR_IMPLEMENTATION", "executor")
                     /\ ExecutorIdentity(a, noted)
                [] a = "other" /\ record.executor = Proxy ->
                     /\ Stop(noted \cup {"EXECUTOR_PROXY_CODE_IDENTITY_MISMATCH"}, {})
                     /\ Result("executorProxy", "MISMATCH") /\ UNCHANGED roles
                [] a = "bound" /\ record.executor = Proxy ->
                     /\ Continue("executorSlot", {}, {})
                     /\ Result("executorProxy", "VERIFIED") /\ UNCHANGED roles
           /\ UNCHANGED <<pinned, readings, callers>>
  <2>1. \A a : a = "bound" => Unless(a = "bound", "EXECUTOR_SNAPSHOT_PROXY_EVIDENCE_MISMATCH") = {} BY DEF Unless
  <2> QED BY <1>1, <2>1, Zenon DEF ExecutorShell
<1> QED BY <1>2, <1>3, <1>4

LEMMA ExecutorSlotHonest ==
  ASSUME HcuInv, HonestInv, ExecutorSlot
  PROVE  HonestInv'
<1>1. pc = "executorSlot" /\ pc \in Asking /\ Guarded("SLOT", "executor") /\ Enforced("SLOT", "executor")
  BY PlannedHere DEF ExecutorSlot, Asking, Identifying, BeforeAuthority, BeforeExecutor
<1>2. CASE Unanswered BY <1>1, <1>2, HonestBreak
<1>3. ASSUME NEW a, Answered("SLOT", "executor", a), a = "bound" => Continue("executorCode", {}, {}),
             UNCHANGED <<pinned, readings, callers, results>>
      PROVE  HonestInv'
  <2>1. ASSUME a = "bound", HonestSoFar
        PROVE  pc' \in Asking /\ Continue(pc', {}, {}) /\ ContractsFound'
    <3>1. pc' = "executorCode" /\ Continue(pc', {}, {}) BY <1>3, <2>1 DEF Continue
    <3>2. results'.executorProxy = "VERIFIED" BY <1>1, <1>3, <2>1 DEF HonestSoFar, ContractsFound
    <3> QED BY <3>1, <3>2 DEF ContractsFound, Asking, Identifying, BeforeAuthority, BeforeExecutor
  <2> QED BY <1>1, <1>3, <2>1, HonestStep
<1>4. \/ Unanswered
      \/ \E a : /\ Answered("SLOT", "executor", a)
                /\ a = "bound" => Continue("executorCode", {}, {})
                /\ UNCHANGED <<pinned, readings, callers, results>>
  <2>1. ASSUME NEW a, NEW mismatch,
               CASE a = "bound" -> /\ Continue("executorCode", {}, {})
                                   /\ Resolve("EXECUTOR_IMPLEMENTATION", "executorImplementation")
                 [] a = "bad" -> /\ Stop(mismatch, {"EXECUTOR_ERC1967_IMPLEMENTATION_SLOT_EMPTY_OR_MALFORMED"})
                                 /\ UNCHANGED roles
                 [] OTHER -> Stop(mismatch \cup {"EXECUTOR_IMPLEMENTATION_ADDRESS_MISMATCH"}, {}) /\ UNCHANGED roles
        PROVE  a = "bound" => Continue("executorCode", {}, {})
    BY <2>1
  <2> QED BY <2>1 DEF ExecutorSlot
<1> QED BY <1>2, <1>3, <1>4

LEMMA ExecutorCodeHonest ==
  ASSUME HcuInv, HonestInv, ExecutorCode
  PROVE  HonestInv'
<1> DEFINE to == roles.EXECUTOR_IMPLEMENTATION
<1>1. pc = "executorCode" /\ pc \in Asking /\ Guarded("CODE", to) /\ Enforced("CODE", to)
  BY PlannedHere DEF ExecutorCode, Asking, Identifying, BeforeAuthority, BeforeExecutor
<1>2. CASE Unanswered BY <1>1, <1>2, HonestBreak
<1>3. ASSUME NEW a, Answered("CODE", to, a), ExecutorIdentity(a, {}), UNCHANGED <<roles, pinned, readings, callers>>
      PROVE  HonestInv'
  <2>1. ASSUME a = "bound", HonestSoFar, record' = record
        PROVE  pc' \in Asking /\ Continue(pc', {}, {}) /\ results'.coverage = results.coverage /\ ContractsFound'
    <3>1. "executor" \in PinnedBuilds(record) BY <2>1 DEF HonestSoFar, HonestCase, Roles
    <3>2. roles'.EXECUTOR_IMPLEMENTATION = "executorImplementation" BY <1>1, <1>3 DEF HcuInv, RolesInv
    <3> QED BY <1>1, <1>3, <2>1, <3>1, <3>2, ExecutorIdentified
  <2> HIDE DEF to
  <2> QED BY <1>1, <1>3, <2>1, HonestStep
<1> QED BY <1>2, <1>3 DEF ExecutorCode

LEMMA ExecutorVersionHonest ==
  ASSUME HcuInv, HonestInv, ExecutorVersion
  PROVE  HonestInv'
<1>1. pc = "executorVersion" /\ pc \in Asking /\ Guarded("EXECUTOR_VERSION", "executor") /\ Enforced("EXECUTOR_VERSION", "executor")
  BY PlannedHere DEF ExecutorVersion, Asking, Identifying, BeforeAuthority, BeforeExecutor
<1>2. CASE Unanswered BY <1>1, <1>2, HonestBreak
<1>3. ASSUME NEW a, Answered("EXECUTOR_VERSION", "executor", a),
             a = "bound" => Continue("authority", {}, {}) /\ Result("executorVersion", "MATCHES_BINDING_RECORD"),
             UNCHANGED <<roles, pinned, readings, callers>>
      PROVE  HonestInv'
  <2>1. ASSUME a = "bound", HonestSoFar, record' = record
        PROVE  pc' \in Asking /\ Continue(pc', {}, {}) /\ results'.coverage = results.coverage /\ ContractsFound'
    <3>1. pc' = "authority" /\ Continue(pc', {}, {}) BY <1>3, <2>1 DEF Continue
    <3>2. /\ results'.executorVersion = "MATCHES_BINDING_RECORD" /\ results'.coverage = results.coverage
          /\ results'.executorProxy = results.executorProxy
          /\ results'.executorImplementation = results.executorImplementation
      BY <1>3, <2>1, ResultIs, ResultNames
    <3>3. ExecutorFound
      BY <1>1, <2>1 DEF HonestSoFar, ContractsFound, Asking, Identifying, BeforeAuthority, BeforeExecutor
    <3>4. ExecutorFound' /\ VersionFound' BY <1>3, <2>1, <3>2, <3>3 DEF ExecutorFound, VersionFound
    <3> QED BY <3>1, <3>2, <3>4 DEF ContractsFound, Asking, Identifying, BeforeAuthority, BeforeExecutor
  <2> QED BY <1>1, <1>3, <2>1, HonestStep
<1>4. \/ Unanswered
      \/ \E a : /\ Answered("EXECUTOR_VERSION", "executor", a)
                /\ a = "bound" => Continue("authority", {}, {}) /\ Result("executorVersion", "MATCHES_BINDING_RECORD")
                /\ UNCHANGED <<roles, pinned, readings, callers>>
  BY DEF ExecutorVersion
<1> QED BY <1>2, <1>3, <1>4

LEMMA DeriveAuthorityHonest ==
  ASSUME HcuInv, HonestInv, DeriveAuthority
  PROVE  HonestInv'
<1>1. pc = "authority" /\ pc \in Asking /\ Guarded("AUTHORITY_GETTER", "executor") /\ Enforced("AUTHORITY_GETTER", "executor")
  BY PlannedHere DEF DeriveAuthority, Asking, Identifying, BeforeAuthority, BeforeExecutor
<1>2. CASE Unanswered BY <1>1, <1>2, HonestBreak
<1>3. ASSUME NEW a, Answered("AUTHORITY_GETTER", "executor", a),
             a = "bound" => /\ Continue("authorityCode", {}, {}) /\ Resolve("AUTHORITY", "authority")
                            /\ Result("derivation", "VERIFIED"),
             UNCHANGED <<pinned, readings, callers>>
      PROVE  HonestInv'
  <2>1. ASSUME a = "bound", HonestSoFar, record' = record
        PROVE  pc' \in Asking /\ Continue(pc', {}, {}) /\ results'.coverage = results.coverage /\ ContractsFound'
    <3>1. pc' = "authorityCode" /\ Continue(pc', {}, {}) BY <1>3, <2>1 DEF Continue
    <3>2. /\ results'.derivation = "VERIFIED" /\ results'.coverage = results.coverage
          /\ results'.executorProxy = results.executorProxy /\ results'.executorVersion = results.executorVersion
          /\ results'.executorImplementation = results.executorImplementation
      BY <1>3, <2>1, ResultIs, ResultNames
    <3>3. ExecutorFound /\ VersionFound
      BY <1>1, <2>1 DEF HonestSoFar, ContractsFound, Asking, Identifying, BeforeAuthority, BeforeExecutor
    <3>4. roles'.AUTHORITY = "authority" /\ roles'.EXECUTOR_IMPLEMENTATION = roles.EXECUTOR_IMPLEMENTATION
      BY <1>3, <2>1, RoleAddresses DEF Resolve, RoleNames
    <3>5. ExecutorFound' /\ VersionFound' /\ AuthorityDerived'
      BY <2>1, <3>2, <3>3, <3>4 DEF ExecutorFound, VersionFound, AuthorityDerived
    <3> QED BY <3>1, <3>2, <3>5 DEF ContractsFound, Asking, Identifying, BeforeAuthority, BeforeExecutor
  <2> QED BY <1>1, <1>3, <2>1, HonestStep
<1>4. \/ Unanswered
      \/ \E a : /\ Answered("AUTHORITY_GETTER", "executor", a)
                /\ a = "bound" => /\ Continue("authorityCode", {}, {}) /\ Resolve("AUTHORITY", "authority")
                                  /\ Result("derivation", "VERIFIED")
                /\ UNCHANGED <<pinned, readings, callers>>
  <2>1. Unless("bound" = "bound", "EXECUTOR_SNAPSHOT_AUTHORITY_GETTER_MISMATCH") = {} BY DEF Unless
  <2> QED BY <2>1 DEF DeriveAuthority
<1> QED BY <1>2, <1>3, <1>4

\* What is known of the executor stays known when only the authority is read.
LEMMA DerivedKept ==
  ASSUME record' = record, roles'.EXECUTOR_IMPLEMENTATION = roles.EXECUTOR_IMPLEMENTATION,
         roles'.AUTHORITY = roles.AUTHORITY, results'.executorProxy = results.executorProxy,
         results'.executorImplementation = results.executorImplementation,
         results'.executorVersion = results.executorVersion, results'.derivation = results.derivation,
         ExecutorFound, VersionFound, AuthorityDerived
  PROVE  ExecutorFound' /\ VersionFound' /\ AuthorityDerived'
BY DEF ExecutorFound, VersionFound, AuthorityDerived

\* The authority's implementation answered as the record says.
LEMMA AuthorityIdentified ==
  ASSUME HcuInv, NEW proxied \in BOOLEAN, AuthorityIdentity("bound", {}, proxied), record' = record,
         roles'.EXECUTOR_IMPLEMENTATION = roles.EXECUTOR_IMPLEMENTATION, roles'.AUTHORITY = roles.AUTHORITY,
         ExecutorFound, VersionFound, AuthorityDerived,
         IF proxied THEN results.authorityCode = "VERIFIED" /\ PolicyMet ELSE record.authority = Direct
  PROVE  pc' \in Asking /\ Continue(pc', {}, {}) /\ results'.coverage = results.coverage /\ ContractsFound'
<1>1. /\ Continue("storage", {} \cup Unless("bound" = "bound", "AUTHORITY_SNAPSHOT_IMPLEMENTATION_EVIDENCE_MISMATCH"), {})
      /\ results' = [results EXCEPT !.codeIdentity = "VERIFIED",
                                    !.authorityCode = IF proxied THEN @ ELSE "VERIFIED",
                                    !.policy = IF proxied THEN @ ELSE "NOT_APPLICABLE"]
  BY DEF AuthorityIdentity
<1>2. pc' = "storage" /\ Continue(pc', {}, {}) BY <1>1 DEF Continue, Unless
<1>3. DOMAIN results = DOMAIN NoResults BY DEF HcuInv, NotedInv
<1>4. /\ results'.codeIdentity = "VERIFIED"
      /\ results'.authorityCode = IF proxied THEN results.authorityCode ELSE "VERIFIED"
      /\ results'.policy = IF proxied THEN results.policy ELSE "NOT_APPLICABLE"
      /\ results'.executorProxy = results.executorProxy
      /\ results'.executorImplementation = results.executorImplementation
      /\ results'.executorVersion = results.executorVersion /\ results'.derivation = results.derivation
      /\ results'.coverage = results.coverage
  BY <1>1, <1>3, ResultNames
<1>5. ExecutorFound' /\ VersionFound' /\ AuthorityDerived' BY <1>4, DerivedKept
<1>6. AuthorityFound' BY <1>4 DEF AuthorityFound, PolicyMet, Proxy, Direct
<1> QED BY <1>2, <1>4, <1>5, <1>6 DEF ContractsFound, Asking, Identifying, BeforeAuthority, BeforeExecutor

\* What is known when the authority is read.
LEMMA AuthorityPlaces ==
  ASSUME HonestSoFar, pc \in {"authorityCode", "authoritySlot", "authorityImplementation"}
  PROVE  /\ ExecutorFound /\ VersionFound /\ AuthorityDerived
         /\ pc # "authorityCode" => results.authorityCode = "VERIFIED"
         /\ pc = "authorityImplementation" => PolicyMet
BY DEF HonestSoFar, ContractsFound, Asking, Identifying, BeforeAuthority, BeforeExecutor

LEMMA AuthorityCodeHonest ==
  ASSUME HcuInv, HonestInv, AuthorityCode
  PROVE  HonestInv'
<1> DEFINE to == roles.AUTHORITY
<1>1. pc = "authorityCode" /\ pc \in Asking /\ Guarded("CODE", to) /\ Enforced("CODE", to)
  BY PlannedHere DEF AuthorityCode, Asking, Identifying, BeforeAuthority, BeforeExecutor
<1>2. CASE Unanswered BY <1>1, <1>2, HonestBreak
<1>3. ASSUME NEW a, NEW noted, Answered("CODE", to, a), a = "bound" => noted = {},
             CASE a = "bad" -> Stop({"AUTHORITY_HAS_NO_CODE"}, {}) /\ UNCHANGED <<roles, results>>
               [] a # "bad" /\ record.authority = Direct ->
                    /\ Resolve("AUTHORITY_IMPLEMENTATION", to)
                    /\ AuthorityIdentity(a, noted, FALSE)
               [] a = "other" /\ record.authority = Proxy ->
                    /\ Stop(noted \cup {"AUTHORITY_PROXY_CODE_IDENTITY_MISMATCH"}, {})
                    /\ Result("authorityCode", "MISMATCH") /\ UNCHANGED roles
               [] a = "bound" /\ record.authority = Proxy ->
                    /\ Continue("authoritySlot", {}, {})
                    /\ Result("authorityCode", "VERIFIED") /\ UNCHANGED roles,
             UNCHANGED <<pinned, readings, callers>>
      PROVE  HonestInv'
  <2>1. ASSUME a = "bound", HonestSoFar, record' = record
        PROVE  pc' \in Asking /\ Continue(pc', {}, {}) /\ results'.coverage = results.coverage /\ ContractsFound'
    <3>0. ExecutorFound /\ VersionFound /\ AuthorityDerived BY <1>1, <2>1, AuthorityPlaces
    <3>1. CASE record.authority = Direct
      <4>1. Resolve("AUTHORITY_IMPLEMENTATION", to) /\ AuthorityIdentity("bound", {}, FALSE)
        BY <1>3, <2>1, <3>1 DEF Proxy, Direct
      <4>2. roles'.AUTHORITY = roles.AUTHORITY /\ roles'.EXECUTOR_IMPLEMENTATION = roles.EXECUTOR_IMPLEMENTATION
        BY <4>1, RoleAddresses DEF Resolve, RoleNames
      <4> QED BY <2>1, <3>0, <3>1, <4>1, <4>2, AuthorityIdentified
    <3>2. CASE record.authority = Proxy
      <4>1. Continue("authoritySlot", {}, {}) /\ Result("authorityCode", "VERIFIED") /\ UNCHANGED roles
        BY <1>3, <2>1, <3>2 DEF Proxy, Direct
      <4>2. pc' = "authoritySlot" /\ Continue(pc', {}, {}) BY <4>1 DEF Continue
      <4>3. /\ results'.authorityCode = "VERIFIED" /\ results'.coverage = results.coverage
            /\ results'.executorProxy = results.executorProxy
            /\ results'.executorImplementation = results.executorImplementation
            /\ results'.executorVersion = results.executorVersion /\ results'.derivation = results.derivation
        BY <4>1, ResultIs, ResultNames
      <4>4. ExecutorFound' /\ VersionFound' /\ AuthorityDerived' BY <2>1, <3>0, <4>1, <4>3, DerivedKept
      <4> QED BY <4>2, <4>3, <4>4 DEF ContractsFound, Asking, Identifying, BeforeAuthority, BeforeExecutor
    <3> QED BY <3>1, <3>2 DEF HcuInv, StartInv
  <2> HIDE DEF to
  <2> QED BY <1>1, <1>3, <2>1, HonestStep
<1>4. \/ Unanswered
      \/ \E a, noted :
           /\ Answered("CODE", to, a) /\ (a = "bound" => noted = {})
           /\ CASE a = "bad" -> Stop({"AUTHORITY_HAS_NO_CODE"}, {}) /\ UNCHANGED <<roles, results>>
                [] a # "bad" /\ record.authority = Direct ->
                     /\ Resolve("AUTHORITY_IMPLEMENTATION", to)
                     /\ AuthorityIdentity(a, noted, FALSE)
                [] a = "other" /\ record.authority = Proxy ->
                     /\ Stop(noted \cup {"AUTHORITY_PROXY_CODE_IDENTITY_MISMATCH"}, {})
                     /\ Result("authorityCode", "MISMATCH") /\ UNCHANGED roles
                [] a = "bound" /\ record.authority = Proxy ->
                     /\ Continue("authoritySlot", {}, {})
                     /\ Result("authorityCode", "VERIFIED") /\ UNCHANGED roles
           /\ UNCHANGED <<pinned, readings, callers>>
  <2>1. \A a : a = "bound" => Unless(a = "bound", "AUTHORITY_SNAPSHOT_PROXY_EVIDENCE_MISMATCH") = {} BY DEF Unless
  <2> QED BY <1>1, <2>1, Zenon DEF AuthorityCode
<1> QED BY <1>2, <1>3, <1>4

LEMMA AuthoritySlotHonest ==
  ASSUME HcuInv, HonestInv, AuthoritySlot
  PROVE  HonestInv'
<1> DEFINE to == roles.AUTHORITY
           policy == IF record.policies.authority.kind = "EXACT" THEN "EXACT_MATCH" ELSE "PERMITTED"
<1>1. pc = "authoritySlot" /\ pc \in Asking /\ Guarded("SLOT", to) /\ Enforced("SLOT", to)
  BY PlannedHere DEF AuthoritySlot, Asking, Identifying, BeforeAuthority, BeforeExecutor
<1>2. CASE Unanswered BY <1>1, <1>2, HonestBreak
<1>3. ASSUME NEW a, Answered("SLOT", to, a),
             a = "bound" => /\ Continue("authorityImplementation", {}, {})
                            /\ Resolve("AUTHORITY_IMPLEMENTATION", "authorityImplementation")
                            /\ Result("policy", policy),
             UNCHANGED <<pinned, readings, callers>>
      PROVE  HonestInv'
  <2>1. ASSUME a = "bound", HonestSoFar, record' = record
        PROVE  pc' \in Asking /\ Continue(pc', {}, {}) /\ results'.coverage = results.coverage /\ ContractsFound'
    <3>0. ExecutorFound /\ VersionFound /\ AuthorityDerived /\ results.authorityCode = "VERIFIED"
      BY <1>1, <2>1, AuthorityPlaces
    <3>1. pc' = "authorityImplementation" /\ Continue(pc', {}, {}) BY <1>3, <2>1 DEF Continue
    <3>2. /\ results'.policy = policy /\ results'.coverage = results.coverage
          /\ results'.authorityCode = results.authorityCode
          /\ results'.executorProxy = results.executorProxy
          /\ results'.executorImplementation = results.executorImplementation
          /\ results'.executorVersion = results.executorVersion /\ results'.derivation = results.derivation
      <4> HIDE DEF policy
      <4> QED BY <1>3, <2>1, ResultIs, ResultNames
    <3>3. roles'.AUTHORITY = roles.AUTHORITY /\ roles'.EXECUTOR_IMPLEMENTATION = roles.EXECUTOR_IMPLEMENTATION
      BY <1>3, <2>1, RoleAddresses DEF Resolve, RoleNames
    <3>4. ExecutorFound' /\ VersionFound' /\ AuthorityDerived' BY <2>1, <3>0, <3>2, <3>3, DerivedKept
    <3>5. record.authority = Proxy BY <1>1 DEF HcuInv, PlaceInv
    <3>6. PolicyMet' BY <2>1, <3>2, <3>5 DEF PolicyMet
    <3> QED BY <3>0, <3>1, <3>2, <3>4, <3>6 DEF ContractsFound, Asking, Identifying, BeforeAuthority, BeforeExecutor
  <2> HIDE DEF to
  <2> QED BY <1>1, <1>3, <2>1, HonestStep
<1>4. \/ Unanswered
      \/ \E a : /\ Answered("SLOT", to, a)
                /\ a = "bound" => /\ Continue("authorityImplementation", {}, {})
                                  /\ Resolve("AUTHORITY_IMPLEMENTATION", "authorityImplementation")
                                  /\ Result("policy", policy)
                /\ UNCHANGED <<pinned, readings, callers>>
  <2>1. ASSUME NEW a, NEW mismatch, a = "bound" => mismatch = {},
               CASE a = "bad" ->
                        /\ Stop(mismatch, {"ERC1967_IMPLEMENTATION_SLOT_EMPTY_OR_MALFORMED"})
                        /\ UNCHANGED <<roles, results>>
                   [] a \in {"other", "self"} /\ record.policies.authority.kind = "EXACT" ->
                        /\ Stop(mismatch \cup {"AUTHORITY_IMPLEMENTATION_ADDRESS_MISMATCH"}, {})
                        /\ Result("policy", "MISMATCH") /\ UNCHANGED roles
                   [] a = "self" /\ record.policies.authority.kind = "UPGRADE" ->
                        /\ Resolve("AUTHORITY_IMPLEMENTATION", roles.AUTHORITY)
                        /\ AuthorityIdentity("other", mismatch, TRUE)
                   [] OTHER ->
                        /\ Continue("authorityImplementation", mismatch, {})
                        /\ Resolve("AUTHORITY_IMPLEMENTATION",
                                   IF a = "bound" THEN "authorityImplementation" ELSE "elsewhereImplementation")
                        /\ Result("policy", policy)
        PROVE  a = "bound" => /\ Continue("authorityImplementation", {}, {})
                              /\ Resolve("AUTHORITY_IMPLEMENTATION", "authorityImplementation")
                              /\ Result("policy", policy)
    <3> HIDE DEF policy
    <3> QED BY <2>1
  <2>2. \A a : a = "bound" => Unless(a = "bound", "AUTHORITY_SNAPSHOT_IMPLEMENTATION_SLOT_MISMATCH") = {} BY DEF Unless
  <2> QED BY <1>1, <2>1, <2>2, Zenon DEF AuthoritySlot
<1> QED BY <1>2, <1>3, <1>4

LEMMA AuthorityImplementationHonest ==
  ASSUME HcuInv, HonestInv, AuthorityImplementation
  PROVE  HonestInv'
<1> DEFINE to == roles.AUTHORITY_IMPLEMENTATION
<1>1. pc = "authorityImplementation" /\ pc \in Asking /\ Guarded("CODE", to) /\ Enforced("CODE", to)
  BY PlannedHere DEF AuthorityImplementation, Asking, Identifying, BeforeAuthority, BeforeExecutor
<1>2. CASE Unanswered BY <1>1, <1>2, HonestBreak
<1>3. ASSUME NEW a, Answered("CODE", to, a), AuthorityIdentity(a, {}, TRUE),
             UNCHANGED <<roles, pinned, readings, callers>>
      PROVE  HonestInv'
  <2>1. ASSUME a = "bound", HonestSoFar, record' = record
        PROVE  pc' \in Asking /\ Continue(pc', {}, {}) /\ results'.coverage = results.coverage /\ ContractsFound'
    <3>1. ExecutorFound /\ VersionFound /\ AuthorityDerived /\ results.authorityCode = "VERIFIED" /\ PolicyMet
      BY <1>1, <2>1, AuthorityPlaces
    <3> QED BY <1>3, <2>1, <3>1, AuthorityIdentified
  <2> HIDE DEF to
  <2> QED BY <1>1, <1>3, <2>1, HonestStep
<1> QED BY <1>2, <1>3 DEF AuthorityImplementation

\* What is known when both contracts are identified.
IdentifiedFound == ExecutorFound /\ VersionFound /\ AuthorityDerived /\ AuthorityFound

LEMMA IdentifiedPlaces ==
  ASSUME HonestSoFar, pc \in Asking \ BeforeAuthority
  PROVE  /\ IdentifiedFound
         /\ pc \in {"authorityVersion", "limits", "callers"} => Linked
         /\ pc \in {"limits", "callers"} => AuthorityVersionFound
BY DEF HonestSoFar, ContractsFound, IdentifiedFound, Asking, Identifying, BeforeAuthority, BeforeExecutor

LEMMA IdentifiedKept ==
  ASSUME HcuInv, IdentifiedFound, UNCHANGED <<record, roles>>,
         \/ UNCHANGED results
         \/ \E field \in {"reciprocal", "authorityVersion", "coverage", "plan"} : \E value : Result(field, value)
  PROVE  /\ IdentifiedFound'
         /\ (UNCHANGED results \/ \E field \in {"authorityVersion", "coverage", "plan"} : \E value : Result(field, value))
              => (Linked => Linked')
         /\ (UNCHANGED results \/ \E field \in {"coverage", "plan"} : \E value : Result(field, value))
              => (AuthorityVersionFound => AuthorityVersionFound')
<1>1. DOMAIN results = DOMAIN NoResults BY DEF HcuInv, NotedInv
<1>2. /\ results'.executorProxy = results.executorProxy
      /\ results'.executorImplementation = results.executorImplementation
      /\ results'.executorVersion = results.executorVersion /\ results'.derivation = results.derivation
      /\ results'.codeIdentity = results.codeIdentity /\ results'.authorityCode = results.authorityCode
      /\ results'.policy = results.policy
  BY <1>1, ResultNames DEF Result
<1>3. (UNCHANGED results \/ \E field \in {"authorityVersion", "coverage", "plan"} : \E value : Result(field, value))
        => results'.reciprocal = results.reciprocal
  BY <1>1, ResultNames DEF Result
<1>4. (UNCHANGED results \/ \E field \in {"coverage", "plan"} : \E value : Result(field, value))
        => results'.authorityVersion = results.authorityVersion
  BY <1>1, ResultNames DEF Result
<1>5. IdentifiedFound'
  BY <1>2 DEF IdentifiedFound, ExecutorFound, VersionFound, AuthorityDerived, AuthorityFound, PolicyMet
<1> QED BY <1>3, <1>4, <1>5 DEF Linked, AuthorityVersionFound

LEMMA ContractsKept ==
  ASSUME IdentifiedFound', pc' \in Asking \ BeforeAuthority,
         pc' \in {"authorityVersion", "limits", "callers"} => Linked',
         pc' \in {"limits", "callers"} => AuthorityVersionFound'
  PROVE  ContractsFound'
BY DEF ContractsFound, IdentifiedFound, Asking, Identifying, BeforeAuthority, BeforeExecutor

LEMMA PackedStorageHonest ==
  ASSUME HcuInv, HonestInv, PackedStorage
  PROVE  HonestInv'
<1> DEFINE to == roles.AUTHORITY
<1>1. pc = "storage" /\ pc \in Asking \ BeforeAuthority /\ Guarded("HCU_STORAGE", to) /\ Enforced("HCU_STORAGE", to)
  BY PlannedHere DEF PackedStorage, Asking, Identifying, BeforeAuthority, BeforeExecutor
<1>2. CASE Unanswered BY <1>1, <1>2, HonestBreak
<1>3. ASSUME NEW a, Answered("HCU_STORAGE", to, a), a = "bound" => Continue("reciprocal", Unless(WordPinned, "HCU_PACKED_STORAGE_LIMIT_MISMATCH"), {}),
             UNCHANGED <<roles, pinned, readings, callers, results>>
      PROVE  HonestInv'
  <2>1. ASSUME a = "bound", HonestSoFar, record' = record
        PROVE  pc' \in Asking /\ Continue(pc', {}, {}) /\ ContractsFound'
    <3>0. Unless(WordPinned, "HCU_PACKED_STORAGE_LIMIT_MISMATCH") = {} BY <2>1 DEF HonestSoFar, HonestCase, Unless
    <3>1. pc' = "reciprocal" /\ Continue(pc', {}, {}) BY <1>3, <2>1, <3>0 DEF Continue
    <3>2. pc' \in Asking \ BeforeAuthority BY <3>1 DEF Asking, Identifying, BeforeAuthority, BeforeExecutor
    <3>3. IdentifiedFound' BY <1>1, <1>3, <2>1, IdentifiedPlaces, IdentifiedKept
    <3> QED BY <3>1, <3>2, <3>3, ContractsKept
  <2> HIDE DEF to
  <2> QED BY <1>1, <1>3, <2>1, HonestStep
<1>4. \/ Unanswered
      \/ \E a : /\ Answered("HCU_STORAGE", to, a)
                /\ a = "bound" => Continue("reciprocal", Unless(WordPinned, "HCU_PACKED_STORAGE_LIMIT_MISMATCH"), {})
                /\ UNCHANGED <<roles, pinned, readings, callers, results>>
  <2>1. ASSUME NEW a, CASE a = "bound" -> Continue("reciprocal", Unless(WordPinned, "HCU_PACKED_STORAGE_LIMIT_MISMATCH"), {})
                        [] a = "other" -> Stop({"HCU_PACKED_STORAGE_EVIDENCE_MISMATCH"}, {})
                        [] a = "bad" -> Stop({"HCU_PACKED_STORAGE_WORD_MALFORMED"}, {})
        PROVE  a = "bound" => Continue("reciprocal", Unless(WordPinned, "HCU_PACKED_STORAGE_LIMIT_MISMATCH"), {})
    BY <2>1
  <2> QED BY <2>1 DEF PackedStorage
<1> QED BY <1>2, <1>3, <1>4

LEMMA ReciprocalHonest ==
  ASSUME HcuInv, HonestInv, Reciprocal
  PROVE  HonestInv'
<1> DEFINE to == roles.AUTHORITY
<1>1. pc = "reciprocal" /\ pc \in Asking \ BeforeAuthority /\ Guarded("EXECUTOR_GETTER", to) /\ Enforced("EXECUTOR_GETTER", to)
  BY PlannedHere DEF Reciprocal, Asking, Identifying, BeforeAuthority, BeforeExecutor
<1>2. CASE Unanswered BY <1>1, <1>2, HonestBreak
<1>3. ASSUME NEW a, Answered("EXECUTOR_GETTER", to, a),
             a = "bound" => Continue("authorityVersion", {}, {}) /\ Result("reciprocal", "VERIFIED"),
             UNCHANGED <<roles, pinned, readings, callers>>
      PROVE  HonestInv'
  <2>1. ASSUME a = "bound", HonestSoFar, record' = record
        PROVE  pc' \in Asking /\ Continue(pc', {}, {}) /\ results'.coverage = results.coverage /\ ContractsFound'
    <3>1. pc' = "authorityVersion" /\ Continue(pc', {}, {}) BY <1>3, <2>1 DEF Continue
    <3>2. pc' \in Asking \ BeforeAuthority BY <3>1 DEF Asking, Identifying, BeforeAuthority, BeforeExecutor
    <3>3. IdentifiedFound' BY <1>1, <1>3, <2>1, IdentifiedPlaces, IdentifiedKept
    <3>4. results'.reciprocal = "VERIFIED" /\ results'.coverage = results.coverage
      BY <1>3, <2>1, ResultIs, ResultNames
    <3> QED BY <3>1, <3>2, <3>3, <3>4, ContractsKept DEF Linked
  <2> HIDE DEF to
  <2> QED BY <1>1, <1>3, <2>1, HonestStep
<1>4. \/ Unanswered
      \/ \E a : /\ Answered("EXECUTOR_GETTER", to, a)
                /\ a = "bound" => Continue("authorityVersion", {}, {}) /\ Result("reciprocal", "VERIFIED")
                /\ UNCHANGED <<roles, pinned, readings, callers>>
  <2>1. /\ Unless("bound" = "bound", "AUTHORITY_SNAPSHOT_RECIPROCAL_GETTER_MISMATCH")
             \cup Unless("bound" # "other", "RECIPROCAL_LINKAGE_BROKEN") = {}
        /\ Unless("bound" # "bad", "RECIPROCAL_LINKAGE_NOT_RESOLVED") = {}
        /\ [bound |-> "VERIFIED", other |-> "BROKEN", bad |-> "UNRESOLVED"]["bound"] = "VERIFIED"
    BY DEF Unless
  <2>2. ASSUME NEW a,
               Continue("authorityVersion",
                        Unless(a = "bound", "AUTHORITY_SNAPSHOT_RECIPROCAL_GETTER_MISMATCH")
                          \cup Unless(a # "other", "RECIPROCAL_LINKAGE_BROKEN"),
                        Unless(a # "bad", "RECIPROCAL_LINKAGE_NOT_RESOLVED")),
               Result("reciprocal", [bound |-> "VERIFIED", other |-> "BROKEN", bad |-> "UNRESOLVED"][a])
        PROVE  a = "bound" => Continue("authorityVersion", {}, {}) /\ Result("reciprocal", "VERIFIED")
    BY <2>1, <2>2
  <2> QED BY <1>1, <2>2, Zenon DEF Reciprocal
<1> QED BY <1>2, <1>3, <1>4

LEMMA AuthorityVersionHonest ==
  ASSUME HcuInv, HonestInv, AuthorityVersion
  PROVE  HonestInv'
<1> DEFINE to == roles.AUTHORITY
<1>1. /\ pc = "authorityVersion" /\ pc \in Asking \ BeforeAuthority
      /\ Guarded("AUTHORITY_VERSION", to) /\ Enforced("AUTHORITY_VERSION", to)
  BY PlannedHere DEF AuthorityVersion, Asking, Identifying, BeforeAuthority, BeforeExecutor
<1>2. CASE Unanswered BY <1>1, <1>2, HonestBreak
<1>3. ASSUME NEW a, Answered("AUTHORITY_VERSION", to, a),
             a = "bound" => Continue("limits", {}, {}) /\ Result("authorityVersion", "MATCHES_BINDING_RECORD"),
             UNCHANGED <<roles, pinned, readings, callers>>
      PROVE  HonestInv'
  <2>1. ASSUME a = "bound", HonestSoFar, record' = record
        PROVE  pc' \in Asking /\ Continue(pc', {}, {}) /\ results'.coverage = results.coverage /\ ContractsFound'
    <3>1. pc' = "limits" /\ Continue(pc', {}, {}) BY <1>3, <2>1 DEF Continue
    <3>2. pc' \in Asking \ BeforeAuthority BY <3>1 DEF Asking, Identifying, BeforeAuthority, BeforeExecutor
    <3>3. IdentifiedFound' /\ Linked' BY <1>1, <1>3, <2>1, IdentifiedPlaces, IdentifiedKept
    <3>4. results'.authorityVersion = "MATCHES_BINDING_RECORD" /\ results'.coverage = results.coverage
      BY <1>3, <2>1, ResultIs, ResultNames
    <3> QED BY <3>1, <3>2, <3>3, <3>4, ContractsKept DEF AuthorityVersionFound
  <2> HIDE DEF to
  <2> QED BY <1>1, <1>3, <2>1, HonestStep
<1>4. \/ Unanswered
      \/ \E a : /\ Answered("AUTHORITY_VERSION", to, a)
                /\ a = "bound" => Continue("limits", {}, {}) /\ Result("authorityVersion", "MATCHES_BINDING_RECORD")
                /\ UNCHANGED <<roles, pinned, readings, callers>>
  <2>1. Unless("bound" # "bad", "AUTHORITY_VERSION_NOT_RESOLVED") = {} BY DEF Unless
  <2> QED BY <2>1 DEF AuthorityVersion
<1> QED BY <1>2, <1>3, <1>4

\* A limit read as the record says.
LEMMA LimitRead ==
  ASSUME HcuInv, HonestSoFar, pc = "limits", UNCHANGED <<record, tools, lineage, roles, callers, results>>,
         NEW n, n = Len(readings), NEW reading, ReadingDone(reading, {}, {}),
         IF n < 2 THEN reading = MatchesOnChain ELSE reading \in PROMOTING_LIMIT_RESULTS \cup {NotApplicable},
         n = 2 /\ reading = MatchesOnChain => record.block = "PROVEN_PRESENT"
  PROVE  HonestInv'
<1>1. n \in Nat /\ n < 3
  <2>1. readings \in Seq(LimitResults) /\ Len(readings) < 3 BY LimitFieldNames DEF HcuInv, LogInv, PlaceInv
  <2>2. Len(readings) \in Nat BY <2>1
  <2> QED BY <2>1, <2>2
<1>2. PICK S : S = LimitResults \cup {reading} OBVIOUS
<1>3. readings \in Seq(S) /\ reading \in S
  <2>1. readings \in Seq(LimitResults) /\ LimitResults \subseteq S /\ reading \in S BY <1>2 DEF HcuInv, LogInv
  <2>2. DOMAIN readings = 1 .. Len(readings) /\ \A i \in 1 .. Len(readings) : readings[i] \in LimitResults BY <2>1
  <2>3. readings \in [1 .. Len(readings) -> S] /\ Len(readings) \in Nat BY <2>1, <2>2
  <2>4. readings \in Seq(S) BY <2>3
  <2> QED BY <2>1, <2>4
<1>4. readings' = Append(readings, reading) BY DEF ReadingDone
<1>5. /\ Len(readings') = n + 1 /\ DOMAIN readings = 1 .. n /\ DOMAIN readings' = 1 .. n \cup {n + 1}
      /\ \A i \in 1 .. n : readings'[i] = readings[i]
      /\ readings'[n + 1] = reading
  BY <1>3, <1>4, OneMore
<1>6. \A i \in 1 .. n : IF i < 3 THEN readings[i] = MatchesOnChain
                        ELSE readings[i] \in PROMOTING_LIMIT_RESULTS \cup {NotApplicable}
  BY <1>5 DEF HonestSoFar, LimitsFound
<1>7. LimitsFound'
  <2> SUFFICES ASSUME NEW i \in DOMAIN readings'
               PROVE  IF i < 3 THEN readings'[i] = MatchesOnChain
                      ELSE readings'[i] \in PROMOTING_LIMIT_RESULTS \cup {NotApplicable}
    BY DEF LimitsFound
  <2>1. CASE i \in 1 .. n BY <1>5, <1>6, <2>1
  <2>2. CASE i = n + 1
    <3>1. n < 2 <=> i < 3 BY <1>1, <2>2
    <3> QED BY <1>5, <2>2, <3>1
  <2> QED BY <1>5, <2>1, <2>2
<1>8. PICK last \in BOOLEAN : last = (Len(readings') = 3) OBVIOUS
<1>9. PICK stored \in BOOLEAN : stored = ExpectationsStored(reading = MatchesOnChain) BY DEF ExpectationsStored
<1>10. PICK read : read = (readings'[1] = MatchesOnChain /\ readings'[2] = MatchesOnChain) OBVIOUS
<1>11. Continue(IF last THEN "callers" ELSE "limits",
                {} \cup Unless(last => read /\ stored, "HCU_GETTER_STORAGE_MISMATCH"), {})
  <2>1. Continue(IF Len(readings') = Len(LimitFields) THEN "callers" ELSE "limits",
                 {} \cup Unless(Len(readings') = Len(LimitFields) =>
                                 /\ readings'[1] = MatchesOnChain /\ readings'[2] = MatchesOnChain
                                 /\ ExpectationsStored(reading = MatchesOnChain),
                               "HCU_GETTER_STORAGE_MISMATCH"), {})
    BY <1>4 DEF ReadingDone
  <2> QED BY <1>8, <1>9, <1>10, <2>1, LimitFieldNames DEF Unless
<1>12. last => read /\ stored
  <2> SUFFICES ASSUME last PROVE read /\ stored OBVIOUS
  <2>1. n = 2
    <3>1. PICK k : k = Len(readings') OBVIOUS
    <3>2. k = n + 1 /\ k = 3 BY <1>5, <1>8, <3>1
    <3> QED BY <1>1, <3>2
  <2>2. readings'[1] = MatchesOnChain /\ readings'[2] = MatchesOnChain
    <3>1. 1 \in 1 .. n /\ 2 \in 1 .. n BY <2>1
    <3> QED BY <1>5, <1>6, <3>1
  <2>3. ExpectationsStored(record.block = "PROVEN_PRESENT") BY DEF HonestSoFar, HonestCase
  <2>4. stored BY <1>9, <2>1, <2>3 DEF ExpectationsStored
  <2> QED BY <1>10, <2>2, <2>4
<1>13. Unless(last => read /\ stored, "HCU_GETTER_STORAGE_MISMATCH") = {} BY <1>12 DEF Unless
<1>14. NothingNoted' /\ pc' \in {"limits", "callers"} BY <1>11, <1>13 DEF Continue, NothingNoted, HonestSoFar
<1>15. pc \in Asking \ BeforeAuthority /\ pc' \in Asking \ BeforeAuthority /\ pc' # "conclude" /\ pc' # "done"
  BY <1>14 DEF Asking, Identifying, BeforeAuthority, BeforeExecutor
<1>16. IdentifiedFound /\ Linked /\ AuthorityVersionFound BY <1>15, IdentifiedPlaces
<1>17. ContractsFound' BY <1>15, <1>16, IdentifiedKept, ContractsKept
<1>18. CallersFound' /\ results'.coverage = "UNRESOLVED" BY DEF HonestSoFar, CallersFound
<1> QED BY <1>7, <1>14, <1>15, <1>17, <1>18 DEF HonestInv

\* A cap that is read, or stands in the artifact, is there.
LEMMA CapIsThere ==
  ASSUME HcuInv, HonestSoFar
  PROVE  record.limits["blockOrBatchCap"] # NotApplicable => record.block = "PROVEN_PRESENT"
<1>1. validateAuthorityBindingRecord(record) = {} BY DEF HcuInv, LineageInv, HonestSoFar, HonestCase
<1>2. record.block \in {"PROVEN_PRESENT", "PROVEN_ABSENT"} BY <1>1, BlockResolved
<1> QED BY <1>2 DEF HonestSoFar, HonestCase

LEMMA readLimitGetterHonest ==
  ASSUME HcuInv, HonestInv, readLimitGetter
  PROVE  HonestInv'
<1> DEFINE to == roles.AUTHORITY
<1>1. PICK n : n = Len(readings) OBVIOUS
<1>2. PICK field : field = LimitFields[n + 1] OBVIOUS
<1>3. pc = "limits" /\ pc \in Asking BY DEF readLimitGetter, Asking, Identifying, BeforeAuthority, BeforeExecutor
<1>4. n \in Nat /\ n < 3 /\ field \in Limits /\ (record.limits[field] = OnChain => Enforced(field, to))
  BY <1>1, <1>2, <1>3, NextGetter
<1>5. field = IF n = 0 THEN "transactionTotal" ELSE IF n = 1 THEN "transactionDepth" ELSE "blockOrBatchCap"
  <2>1. n = 0 \/ n = 1 \/ n = 2 BY <1>4
  <2> QED BY <1>2, <2>1, LimitFieldNames
<1>6. Mandatory(field) <=> n < 2 BY <1>4, <1>5 DEF Mandatory
<1>7. CASE record.limits[field] = OnChain
  <2>1. Guarded(field, to) BY <1>1, <1>2, <1>7 DEF readLimitGetter
  <2>2. CASE Unanswered BY <1>3, <1>4, <1>7, <2>1, <2>2, HonestBreak
  <2>3. ASSUME NEW a, Answered(field, to, a),
               CASE a = "bad" -> ReadingDone("MISMATCH", {"LIMIT_GETTER_MALFORMED_RESULT"}, {})
                 [] a # "bad" /\ ~HasExpectation(field) ->
                      ReadingDone("UNRESOLVED", {}, {"LIMIT_GETTER_EXPECTATION_MISSING"})
                 [] a = "bound" /\ HasExpectation(field) -> ReadingDone(MatchesOnChain, {}, {})
                 [] a = "other" /\ HasExpectation(field) ->
                      ReadingDone("MISMATCH", {"ON_CHAIN_LIMIT_MISMATCH"}, {}),
               UNCHANGED <<roles, pinned, callers, results>>
        PROVE  HonestInv'
    <3> SUFFICES ASSUME HonestCase', AllBound' PROVE HonestInv' BY DEF HonestInv
    <3>1. a = "bound" /\ HonestSoFar /\ UNCHANGED <<repository, record, tools, mode, lineage, verdict>>
      <4> HIDE DEF to
      <4> QED BY <1>3, <2>1, <2>3, BoundAnswer
    <3>2. n = 2 => record.block = "PROVEN_PRESENT"
      <4>1. n = 2 => field = "blockOrBatchCap" BY <1>5
      <4>2. OnChain # NotApplicable BY DEF OnChain, NotApplicable
      <4> QED BY <1>7, <3>1, <4>1, <4>2, CapIsThere
    <3>3. HasExpectation(field)
      <4>1. n < 2 \/ n = 2 BY <1>4
      <4> QED BY <1>6, <3>2, <4>1 DEF HasExpectation
    <3>4. ReadingDone(MatchesOnChain, {}, {}) BY <2>3, <3>1, <3>3
    <3>5. MatchesOnChain \in PROMOTING_LIMIT_RESULTS BY DEF PROMOTING_LIMIT_RESULTS
    <3> QED BY <1>1, <1>3, <2>3, <3>1, <3>2, <3>4, <3>5, LimitRead
  <2> QED BY <1>1, <1>2, <1>7, <2>2, <2>3 DEF readLimitGetter
<1>8. CASE record.limits[field] # OnChain
  <2> SUFFICES ASSUME HonestCase', AllBound' PROVE HonestInv' BY DEF HonestInv
  <2>1. UnreadLimit(field) BY <1>1, <1>2, <1>8 DEF readLimitGetter
  <2>2. UNCHANGED <<repository, record, tools, mode, lineage, roles, log, callers, results, verdict>>
    BY <2>1 DEF UnreadLimit
  <2>3. HonestSoFar
    <3>1. HonestCase /\ AllBound BY <2>2, CaseKept DEF AllBound
    <3> QED BY <1>3, <3>1 DEF HonestInv, HonestSoFar
  <2>4. n = 2 /\ field = "blockOrBatchCap" /\ ~Mandatory(field)
    <3>1. \A f \in MandatoryLimits : record.limits[f] = OnChain BY <2>3 DEF HonestSoFar, HonestCase
    <3>2. n # 0 /\ n # 1 BY <1>5, <1>8, <3>1 DEF MandatoryLimits
    <3>3. n = 2 BY <1>4, <3>2
    <3> QED BY <1>5, <3>3 DEF Mandatory
  <2>5. record.limits[field] \in {Absent, NotApplicable}
    <3>1. validateAuthorityBindingRecord(record) = {} BY <2>3 DEF HcuInv, LineageInv, HonestSoFar, HonestCase
    <3>2. record.limits["blockOrBatchCap"] \in {OnChain, Absent, NotApplicable} BY <3>1, ValidRecord
    <3> QED BY <1>8, <2>4, <3>2
  <2>6. CASE record.limits[field] = NotApplicable
    <3>1. ReadingDone(NotApplicable, {}, {}) BY <2>1, <2>4, <2>6 DEF UnreadLimit, Absent, NotApplicable
    <3>2. NotApplicable # MatchesOnChain BY DEF NotApplicable, MatchesOnChain
    <3> QED BY <1>1, <1>3, <2>2, <2>3, <2>4, <3>1, <3>2, LimitRead
  <2>7. CASE record.limits[field] = Absent
    <3>1. HasExpectation(field)
      <4>1. Absent # NotApplicable BY DEF Absent, NotApplicable
      <4>2. record.block = "PROVEN_PRESENT" BY <2>3, <2>4, <2>7, <4>1, CapIsThere
      <4> QED BY <4>2 DEF HasExpectation
    <3>2. ReadingDone(FromArtifact, {}, {}) BY <2>1, <2>4, <2>7, <3>1 DEF UnreadLimit, Absent, NotApplicable
    <3>3. FromArtifact # MatchesOnChain /\ FromArtifact \in PROMOTING_LIMIT_RESULTS
      BY DEF FromArtifact, MatchesOnChain, PROMOTING_LIMIT_RESULTS
    <3> QED BY <1>1, <1>3, <2>2, <2>3, <2>4, <3>2, <3>3, LimitRead
  <2> QED BY <2>5, <2>6, <2>7
<1> QED BY <1>7, <1>8

\* A subject that is not exempt, or not asked.
LEMMA CallerRead ==
  ASSUME HcuInv, HonestSoFar, pc = "callers", UNCHANGED <<record, tools, lineage, roles, pinned, readings>>,
         NEW n, n = Len(callers), NEW result \in {"NOT_EXEMPT", "NOT_APPLICABLE_WITH_PROOF"}, CallerDone(result, {}),
         cursor' = Len(log'),
         cursor' = 9 + (Extra(record.executor) + Extra(record.authority)) + Len(GettersUpTo(3)) + Len(SubjectsUpTo(n + 1))
  PROVE  HonestInv'
<1>1. callers \in Seq(CallerResults) /\ result \in CallerResults BY DEF HcuInv, LogInv, CallerResults
<1>2. callers' = Append(callers, result) BY DEF CallerDone
<1>3. /\ Len(callers') = n + 1 /\ DOMAIN callers' = DOMAIN callers \cup {n + 1}
      /\ \A i \in DOMAIN callers : callers'[i] = callers[i]
      /\ callers'[n + 1] = result
  BY <1>1, <1>2, OneMore
<1>4. CallersFound'
  <2>1. \A i \in DOMAIN callers : callers[i] \in {"NOT_EXEMPT", "NOT_APPLICABLE_WITH_PROOF"}
    BY DEF HonestSoFar, CallersFound, ToSet
  <2>2. \A i \in DOMAIN callers' : callers'[i] \in {"NOT_EXEMPT", "NOT_APPLICABLE_WITH_PROOF"} BY <1>3, <2>1
  <2> QED BY <2>2 DEF CallersFound, ToSet
<1>5. LimitsFound' BY DEF HonestSoFar, LimitsFound
<1>6. PICK last \in BOOLEAN : last = (n + 1 = Len(Callers)) OBVIOUS
<1>7. pricingComparisonBlockers(record) = {} BY DEF HonestSoFar, HonestCase
<1>8. /\ Continue(IF last THEN "conclude" ELSE "callers", {}, {})
      /\ IF last THEN Result("coverage", "COMPLETE") ELSE UNCHANGED results
  <2>1. Unless(Len(callers) + 1 = Len(Callers) => pricingComparisonBlockers(record) = {}, "SG4_VARIANT_COMPATIBILITY") = {}
    BY <1>7 DEF Unless
  <2> QED BY <1>6, <1>7, <2>1 DEF CallerDone
<1>9. NothingNoted' /\ pc' = IF last THEN "conclude" ELSE "callers" BY <1>8 DEF Continue, NothingNoted, HonestSoFar
<1>10. pc \in Asking \ BeforeAuthority BY DEF Asking, Identifying, BeforeAuthority, BeforeExecutor
<1>11. IdentifiedFound /\ Linked /\ AuthorityVersionFound BY <1>10, IdentifiedPlaces
<1>12. UNCHANGED results \/ \E field \in {"coverage", "plan"} : \E value : Result(field, value) BY <1>8
<1>13. IdentifiedFound' /\ Linked' /\ AuthorityVersionFound' BY <1>11, <1>12, IdentifiedKept
<1>14. CASE ~last
  <2>1. pc' = "callers" /\ results' = results BY <1>8, <1>9, <1>14
  <2>2. pc' \in Asking \ BeforeAuthority /\ pc' # "conclude" /\ pc' # "done"
    BY <2>1 DEF Asking, Identifying, BeforeAuthority, BeforeExecutor
  <2>3. ContractsFound' BY <1>13, <2>2, ContractsKept
  <2>4. results'.coverage = "UNRESOLVED" BY <2>1 DEF HonestSoFar
  <2> QED BY <1>4, <1>5, <1>9, <2>2, <2>3, <2>4 DEF HonestInv
<1>15. CASE last
  <2>1. pc' = "conclude" /\ pc' \notin Asking /\ pc' # "done"
    BY <1>9, <1>15 DEF Asking, Identifying, BeforeAuthority, BeforeExecutor
  <2>2. results'.coverage = "COMPLETE" BY <1>8, <1>15, ResultIs, ResultNames
  <2>3. n + 1 = Len(Callers) BY <1>6, <1>15
  <2>4. livePlan' = livePlan BY DEF livePlan
  <2>5. cursor' = Len(livePlan)
    <3>1. cursor' = 9 + (Extra(record.executor) + Extra(record.authority)) + Len(GettersUpTo(3))
                      + Len(SubjectsUpTo(Len(Callers)))
      BY <2>3, Zenon
    <3> QED BY <3>1, PlanLengths, Zenon
  <2>6. cursor' = Len(livePlan') /\ Len(log') = Len(livePlan') BY <2>4, <2>5
  <2>7. pinned' /\ Len(readings') = 3 BY <1>10, LimitFieldNames DEF HcuInv, PlaceInv, BeforeAuthority, BeforeExecutor
  <2>8. Len(callers') = Len(Callers) BY <1>3, <2>3
  <2>9. AllFound' BY <1>13, <2>2, <2>6, <2>7, <2>8 DEF AllFound, IdentifiedFound
  <2> QED BY <1>4, <1>5, <1>9, <2>1, <2>2, <2>6, <2>9 DEF HonestInv, NothingNoted
<1> QED BY <1>14, <1>15

LEMMA CallerApplicabilityHonest ==
  ASSUME HcuInv, HonestInv, CallerApplicability
  PROVE  HonestInv'
<1> DEFINE to == roles.AUTHORITY
<1>1. PICK n : n = Len(callers) OBVIOUS
<1>2. PICK subject : subject = Callers[n + 1] OBVIOUS
<1>3. pc = "callers" /\ pc \in Asking BY DEF CallerApplicability, Asking, Identifying, BeforeAuthority, BeforeExecutor
<1>4. /\ n \in Nat /\ n < Len(Callers) /\ subject \in ToSet(Callers)
      /\ cursor = 9 + (Extra(record.executor) + Extra(record.authority)) + Len(GettersUpTo(3)) + Len(SubjectsUpTo(n))
      /\ Len(SubjectsUpTo(n)) \in Nat /\ Len(SubjectsUpTo(n + 1)) \in Nat
      /\ record.callers[subject] = "AVAILABLE" => /\ Enforced(subject, to)
                                                  /\ Len(SubjectsUpTo(n + 1)) = Len(SubjectsUpTo(n)) + 1
      /\ record.callers[subject] # "AVAILABLE" => Len(SubjectsUpTo(n + 1)) = Len(SubjectsUpTo(n))
  BY <1>1, <1>2, <1>3, NextSubject
<1>5. PICK b \in Nat : b = Extra(record.executor) + Extra(record.authority) BY PlanLengths
<1>6. PICK g \in Nat : g = Len(GettersUpTo(3)) BY PlanLengths
<1>7. CASE record.callers[subject] = "AVAILABLE"
  <2>1. Guarded(subject, to) BY <1>1, <1>2, <1>7 DEF CallerApplicability
  <2>2. CASE Unanswered BY <1>3, <1>4, <1>7, <2>1, <2>2, HonestBreak
  <2>3. ASSUME NEW a \in Answers(subject, to), Answered(subject, to, a),
               CASE a = "bound" -> CallerDone("NOT_EXEMPT", {})
                 [] a = "exempt" -> CallerDone("EXEMPT", {})
                 [] a = "other" -> CallerDone("UNKNOWN_EXEMPTION", {"CALLER_APPLICABILITY_UNEXPECTED_RESULT"})
                 [] a = "bad" -> CallerDone("MALFORMED", {"CALLER_APPLICABILITY_MALFORMED_RESULT"}),
               UNCHANGED <<roles, pinned, readings>>
        PROVE  HonestInv'
    <3> SUFFICES ASSUME HonestCase', AllBound' PROVE HonestInv' BY DEF HonestInv
    <3>1. a = "bound" /\ HonestSoFar /\ UNCHANGED <<repository, record, tools, mode, lineage, verdict>>
      <4> HIDE DEF to
      <4> QED BY <1>3, <2>1, <2>3, BoundAnswer
    <3>2. CallerDone("NOT_EXEMPT", {}) BY <2>3, <3>1
    <3>3. cursor' = cursor + 1 /\ cursor' = Len(log')
      <4>1. subject \in Questions /\ to \in Addresses /\ a \in AnswerKinds
        BY <1>4, <3>1, QuestionNames, RoleAddresses DEF AnswerKinds
      <4> HIDE DEF to
      <4> QED BY <1>3, <2>1, <2>3, <4>1, Grown
    <3>4. cursor' = 9 + (Extra(record.executor) + Extra(record.authority)) + Len(GettersUpTo(3)) + Len(SubjectsUpTo(n + 1))
      <4>1. PICK k \in Nat : k = Len(SubjectsUpTo(n)) BY <1>4
      <4>2. cursor = 9 + b + g + k /\ Len(SubjectsUpTo(n + 1)) = k + 1 BY <1>4, <1>5, <1>6, <1>7, <4>1, Zenon
      <4>3. cursor' = 9 + b + g + (k + 1) BY <3>3, <4>2
      <4> QED BY <1>5, <1>6, <4>2, <4>3, Zenon
    <3> QED BY <1>1, <1>3, <2>3, <3>1, <3>2, <3>3, <3>4, CallerRead
  <2> QED BY <1>1, <1>2, <1>7, <2>2, <2>3 DEF CallerApplicability
<1>8. CASE record.callers[subject] # "AVAILABLE"
  <2> SUFFICES ASSUME HonestCase', AllBound' PROVE HonestInv' BY DEF HonestInv
  <2>1. /\ CallerDone("NOT_APPLICABLE_WITH_PROOF", {})
        /\ UNCHANGED <<repository, record, tools, mode, lineage, roles, pinned, cursor, log, violated, readings, verdict>>
    BY <1>1, <1>2, <1>8 DEF CallerApplicability
  <2>2. HonestSoFar
    <3>1. HonestCase /\ AllBound BY <2>1, CaseKept DEF AllBound
    <3> QED BY <1>3, <3>1 DEF HonestInv, HonestSoFar
  <2>3. cursor' = Len(log')
        /\ cursor' = 9 + (Extra(record.executor) + Extra(record.authority)) + Len(GettersUpTo(3)) + Len(SubjectsUpTo(n + 1))
    <3>1. cursor = Len(log) BY <1>3 DEF HcuInv, PlaceInv
    <3> QED BY <1>4, <1>8, <2>1, <3>1, Zenon
  <2> QED BY <1>1, <1>3, <2>1, <2>2, <2>3, CallerRead
<1> QED BY <1>7, <1>8

-----------------------------------------------------------------------------
(* The end of an honest run. *)

LEMMA HonestCallers ==
  ASSUME CallersFound
  PROVE  /\ callerExemption \notin {"UNKNOWN_EXEMPTION", "EXEMPT"}
         /\ ToSet(callers) # {} => callerExemption # "UNRESOLVED"
<1>1. PICK states : states = ToSet(callers) OBVIOUS
<1>2. callerExemption = CASE states = {} -> "UNRESOLVED"
                          [] states \cap {"UNKNOWN_EXEMPTION", "MALFORMED"} # {} -> "UNKNOWN_EXEMPTION"
                          [] "EXEMPT" \in states /\ states \cap {"UNKNOWN_EXEMPTION", "MALFORMED"} = {} -> "EXEMPT"
                          [] states = {"NOT_APPLICABLE_WITH_PROOF"} -> "NOT_APPLICABLE_WITH_PROOF"
                          [] OTHER -> "NOT_EXEMPT"
  BY <1>1 DEF callerExemption
<1>3. states \subseteq {"NOT_EXEMPT", "NOT_APPLICABLE_WITH_PROOF"} BY <1>1 DEF CallersFound
<1>4. states \cap {"UNKNOWN_EXEMPTION", "MALFORMED"} = {} /\ "EXEMPT" \notin states BY <1>3
<1>5. CASE states = {}
  <2>1. states # {"NOT_APPLICABLE_WITH_PROOF"} BY <1>5
  <2>2. callerExemption = "UNRESOLVED" BY <1>2, <1>4, <1>5, <2>1
  <2> QED BY <1>1, <1>5, <2>2
<1>6. CASE states = {"NOT_APPLICABLE_WITH_PROOF"}
  <2>1. states # {} BY <1>6
  <2>2. callerExemption = "NOT_APPLICABLE_WITH_PROOF" BY <1>2, <1>4, <1>6, <2>1
  <2> QED BY <2>2
<1>7. CASE states # {} /\ states # {"NOT_APPLICABLE_WITH_PROOF"}
  <2>1. callerExemption = "NOT_EXEMPT" BY <1>2, <1>4, <1>7
  <2> QED BY <2>1
<1> QED BY <1>5, <1>6, <1>7

\* What a complete honest run has found.
LEMMA HonestFacts ==
  ASSUME HcuInv, HonestCase, LimitsFound, CallersFound, AllFound, failures = {}, Len(log) = Len(livePlan)
  PROVE  /\ Bound /\ blockOrBatchControl # "UNRESOLVED"
         /\ Reading(1) = MatchesOnChain /\ Reading(2) = MatchesOnChain
         /\ Reading(3) \in PROMOTING_LIMIT_RESULTS \cup {NotApplicable}
         /\ perTransactionControl(1) = "PROVEN_PRESENT" /\ perTransactionControl(2) = "PROVEN_PRESENT"
         /\ callerExemption \notin {"UNKNOWN_EXEMPTION", "UNRESOLVED", "EXEMPT"}
         /\ planEnforcement = "ENFORCED_EXACT" /\ livePlan # <<>>
         /\ validateAuthorityBindingRecord(record) = {}
<1>1. validateAuthorityBindingRecord(record) = {} BY DEF HcuInv, LineageInv, HonestCase
<1>2. Bound BY DEF Bound, HonestCase, AllFound, AuthorityFound
<1>3. blockOrBatchControl # "UNRESOLVED"
  <2>1. record.block \in {"PROVEN_PRESENT", "PROVEN_ABSENT"} BY <1>1, BlockResolved
  <2> QED BY <1>2, <2>1 DEF blockOrBatchControl
<1>4. DOMAIN readings = 1 .. 3
  <2>1. readings \in Seq(LimitResults) /\ Len(readings) = 3 BY DEF HcuInv, LogInv, AllFound
  <2> QED BY <2>1
<1>5. /\ Reading(1) = MatchesOnChain /\ Reading(2) = MatchesOnChain
      /\ Reading(3) \in PROMOTING_LIMIT_RESULTS \cup {NotApplicable}
  BY <1>4 DEF Reading, LimitsFound
<1>6. perTransactionControl(1) = "PROVEN_PRESENT" /\ perTransactionControl(2) = "PROVEN_PRESENT"
  BY <1>2, <1>5 DEF perTransactionControl, PROMOTING_LIMIT_RESULTS
<1>7. callerExemption \notin {"UNKNOWN_EXEMPTION", "UNRESOLVED", "EXEMPT"}
  <2>1. ToSet(callers) # {}
    <3>1. callers \in Seq(CallerResults) BY DEF HcuInv, LogInv
    <3>2. PICK c \in Nat : c = Len(Callers) /\ c > 0 BY CallerNames
    <3>3. Len(callers) = c BY <3>2 DEF AllFound
    <3>4. DOMAIN callers = 1 .. c BY <3>1, <3>3
    <3>5. 1 \in DOMAIN callers BY <3>2, <3>4
    <3> QED BY <3>5 DEF ToSet
  <2> QED BY <2>1, HonestCallers
<1>8. planEnforcement = "ENFORCED_EXACT"
  <2>1. PICK p : p = Len(livePlan) OBVIOUS
  <2>2. PICK l : l = Len(log) OBVIOUS
  <2>3. lineage = "VERIFIED" /\ ~(violated \/ "LIVE_CALL_PLAN_UNUSABLE" \in failures) /\ cursor = p /\ l = p
    BY <2>1, <2>2 DEF HonestCase, HcuInv, LogInv, AllFound
  <2>4. planEnforcement = CASE lineage # "VERIFIED" -> "NOT_APPLICABLE"
          [] lineage = "VERIFIED" /\ (violated \/ "LIVE_CALL_PLAN_UNUSABLE" \in failures) -> "VIOLATED"
          [] lineage = "VERIFIED" /\ ~violated /\ cursor = p /\ l = p -> "ENFORCED_EXACT"
          [] OTHER -> "UNRESOLVED"
    BY <2>1, <2>2 DEF planEnforcement
  <2> QED BY <2>3, <2>4
<1>9. livePlan # <<>>
  <2>1. PICK b \in Nat : b = Extra(record.executor) + Extra(record.authority) BY PlanLengths
  <2>2. PICK g \in Nat : g = Len(GettersUpTo(3)) BY PlanLengths
  <2>3. PICK c \in Nat : c = Len(SubjectsUpTo(Len(Callers))) BY PlanLengths
  <2>4. PICK p : p = Len(livePlan) OBVIOUS
  <2>5. p = 9 + b + g + c BY <2>1, <2>2, <2>3, <2>4, PlanLengths, Zenon
  <2>6. p # 0 BY <2>5
  <2>7. Len(<<>>) = 0 OBVIOUS
  <2> QED BY <2>4, <2>6, <2>7, Zenon
<1> QED BY <1>1, <1>2, <1>3, <1>5, <1>6, <1>7, <1>8, <1>9

\* The result of a complete honest run is valid.
LEMMA HonestResultIsValid ==
  ASSUME HcuInv, HonestCase, LimitsFound, CallersFound, AllFound, failures = {}, Len(log) = Len(livePlan)
  PROVE  validateAuthorityResult = {}
<1>1. ReviewedErrors = {} BY HonestFacts DEF ReviewedErrors, HonestCase, Unless
<1>2. ExecutorErrors = {}
  BY DEF ExecutorErrors, AllFound, ExecutorFound, VersionFound, AuthorityDerived, Unless
<1>3. AuthorityErrors = {}
  <2>1. record.authority \in {Proxy, Direct} /\ Proxy # Direct BY DEF HcuInv, StartInv, Proxy, Direct
  <2>2. PICK exact \in BOOLEAN : exact = (record.policies.authority.kind = "EXACT") OBVIOUS
  <2>3. results.policy = IF record.authority = Proxy THEN IF exact THEN "EXACT_MATCH" ELSE "PERMITTED" ELSE "NOT_APPLICABLE"
    BY <2>2 DEF AllFound, AuthorityFound, PolicyMet
  <2>4. results.policy = (CASE record.authority = Direct -> "NOT_APPLICABLE"
                            [] record.authority = Proxy /\ record.policies.authority.kind = "EXACT" -> "EXACT_MATCH"
                            [] OTHER -> "PERMITTED")
    BY <2>1, <2>2, <2>3
  <2> QED BY <2>4 DEF AuthorityErrors, AllFound, AuthorityFound, AuthorityVersionFound, Linked, Unless
<1>4. ReadingErrors = {}
  <2>1. {Reading(1), Reading(2)} \subseteq PROMOTING_LIMIT_RESULTS BY HonestFacts DEF PROMOTING_LIMIT_RESULTS
  <2>2. ToSet(callers) \cap {"UNRESOLVED", "MALFORMED"} = {} BY DEF CallersFound
  <2>3. Len(callers) = Len(Callers) BY DEF AllFound
  <2> QED BY <2>1, <2>2, <2>3, HonestFacts DEF ReadingErrors, Unless
<1>5. StateErrors = {} BY HonestFacts DEF StateErrors, AllFound, HonestCase, Unless
<1>6. SlotReadErrors = {}
  <2>1. Proxy \in {record.executor, record.authority} BY DEF HonestCase
  <2> QED BY <2>1, SlotsRead
<1>7. PlanErrors = {}
  <2>1. planEnforcement = "ENFORCED_EXACT" /\ livePlan # <<>> BY HonestFacts
  <2> QED BY <2>1 DEF PlanErrors, Unless
<1> QED BY <1>1, <1>2, <1>3, <1>4, <1>5, <1>6, <1>7 DEF validateAuthorityResult

LEMMA ConcludeHonest ==
  ASSUME HcuInv, HonestInv, Conclude
  PROVE  HonestInv'
<1>1. /\ pc = "conclude" /\ pc' = "done"
      /\ UNCHANGED <<repository, record, tools, mode, lineage, roles, pinned, cursor, log, violated, readings, callers>>
      /\ failures' = failures \cup LateFailures /\ blockers' = blockers \cup LateBlockers
  BY DEF Conclude
<1> SUFFICES ASSUME HonestCase', AllBound' PROVE HonestInv' BY DEF HonestInv
<1>2. HonestCase /\ AllBound BY <1>1, CaseKept DEF AllBound
<1>3. /\ failures = {} /\ results.coverage # "INCOMPLETE" /\ LimitsFound /\ CallersFound
      /\ IF Len(log) = Len(livePlan) THEN blockers = {} /\ AllFound ELSE blockers # {}
  BY <1>1, <1>2 DEF HonestInv
<1>4. verdict' = CASE failures' # {} -> "FAIL"
                   [] failures' = {} /\ blockers' # {} -> "BLOCKED"
                   [] OTHER -> IF validateAuthorityResult = {} THEN "PASS" ELSE "THROWS"
  BY Zenon DEF Conclude
<1>5. failures' = {}
  <2>1. callerExemption \notin {"UNKNOWN_EXEMPTION", "EXEMPT"} BY <1>3, HonestCallers
  <2>2. planEnforcement # "VIOLATED"
    <3>1. lineage = "VERIFIED" /\ ~(violated \/ "LIVE_CALL_PLAN_UNUSABLE" \in failures)
      BY <1>2, <1>3 DEF HonestCase, HcuInv, LogInv
    <3>2. PICK exact \in BOOLEAN : exact = (cursor = Len(livePlan) /\ Len(log) = Len(livePlan)) OBVIOUS
    <3>3. planEnforcement = CASE lineage # "VERIFIED" -> "NOT_APPLICABLE"
            [] lineage = "VERIFIED" /\ (violated \/ "LIVE_CALL_PLAN_UNUSABLE" \in failures) -> "VIOLATED"
            [] lineage = "VERIFIED" /\ ~violated /\ exact -> "ENFORCED_EXACT"
            [] OTHER -> "UNRESOLVED"
      BY <3>2 DEF planEnforcement
    <3> QED BY <3>1, <3>3
  <2>3. LateFailures = {} BY <1>3, <2>1, <2>2 DEF LateFailures, Unless
  <2> QED BY <1>1, <1>3, <2>3
<1>6. livePlan' = livePlan BY <1>1 DEF livePlan
<1>7. verdict' = IF Len(log) = Len(livePlan) THEN "PASS" ELSE "BLOCKED"
  <2>1. CASE Len(log) # Len(livePlan)
    <3>1. blockers' # {} BY <1>1, <1>3, <2>1
    <3>2. verdict' = "BLOCKED" BY <1>4, <1>5, <3>1
    <3> QED BY <2>1, <3>2
  <2>2. CASE Len(log) = Len(livePlan)
    <3>1. blockers = {} /\ AllFound BY <1>3, <2>2
    <3>2. /\ Bound /\ blockOrBatchControl # "UNRESOLVED"
          /\ perTransactionControl(1) = "PROVEN_PRESENT" /\ perTransactionControl(2) = "PROVEN_PRESENT"
          /\ callerExemption # "UNRESOLVED" /\ planEnforcement # "UNRESOLVED"
      BY <1>2, <1>3, <2>2, <3>1, HonestFacts
    <3>3. /\ lineage = "VERIFIED" /\ record.reverification = "REVERIFIED" /\ record.status = "RESOLVED"
          /\ "authority" \in PinnedBuilds(record)
      BY <1>2 DEF HonestCase, Roles
    <3>4. results.coverage # "UNRESOLVED" /\ pinned BY <3>1 DEF AllFound
    <3>5. LateBlockers = {} BY <3>2, <3>3, <3>4 DEF LateBlockers, Unless
    <3>6. blockers' = {} BY <1>1, <3>1, <3>5
    <3>7. validateAuthorityResult = {} BY <1>2, <1>3, <2>2, <3>1, HonestResultIsValid
    <3>8. PICK valid : valid = validateAuthorityResult OBVIOUS
    <3>9. verdict' = "PASS" BY <1>4, <1>5, <3>6, <3>7, <3>8
    <3> QED BY <2>2, <3>9
  <2> QED BY <2>1, <2>2
<1>8. LimitsFound' /\ CallersFound' BY <1>1, <1>3 DEF LimitsFound, CallersFound
<1>9. pc' \notin Asking /\ pc' # "conclude" BY <1>1 DEF Asking, Identifying, BeforeAuthority, BeforeExecutor
<1>10. verdict' = IF Len(log') = Len(livePlan') THEN "PASS" ELSE "BLOCKED" BY <1>1, <1>6, <1>7
<1> QED BY <1>8, <1>9, <1>10 DEF HonestInv

\* A run of the HCU authority gate that met no contradiction is never a FAIL: it is a PASS if every
\* planned question was answered, and BLOCKED if the endpoint stopped answering
\* (scripts/sg4-hcu-authority.ts).
THEOREM HonestRunsPass == Spec => []HonestRunPasses
<1>1. Init => HonestInv BY DEF Init, HonestInv, HonestCase
<1>2. HcuInv /\ HonestInv /\ [Next]_vars => HonestInv'
  <2> SUFFICES ASSUME HcuInv, HonestInv, [Next]_vars PROVE HonestInv' OBVIOUS
  <2>1. CASE Generate
    <3>1. lineage' # "VERIFIED" BY <2>1 DEF Generate, HcuInv, StartInv
    <3> QED BY <3>1, HonestStart
  <2>2. CASE Prepare BY <2>2, PrepareHonest
  <2>3. CASE ChainIdentity BY <2>3, ChainIdentityHonest
  <2>4. CASE PinnedBlock BY <2>4, PinnedBlockHonest
  <2>5. CASE ExecutorShell BY <2>5, ExecutorShellHonest
  <2>6. CASE ExecutorSlot BY <2>6, ExecutorSlotHonest
  <2>7. CASE ExecutorCode BY <2>7, ExecutorCodeHonest
  <2>8. CASE ExecutorVersion BY <2>8, ExecutorVersionHonest
  <2>9. CASE DeriveAuthority BY <2>9, DeriveAuthorityHonest
  <2>10. CASE AuthorityCode BY <2>10, AuthorityCodeHonest
  <2>11. CASE AuthoritySlot BY <2>11, AuthoritySlotHonest
  <2>12. CASE AuthorityImplementation BY <2>12, AuthorityImplementationHonest
  <2>13. CASE PackedStorage BY <2>13, PackedStorageHonest
  <2>14. CASE Reciprocal BY <2>14, ReciprocalHonest
  <2>15. CASE AuthorityVersion BY <2>15, AuthorityVersionHonest
  <2>16. CASE readLimitGetter BY <2>16, readLimitGetterHonest
  <2>17. CASE CallerApplicability BY <2>17, CallerApplicabilityHonest
  <2>18. CASE Conclude BY <2>18, ConcludeHonest
  <2>19. CASE UNCHANGED vars BY <2>19, HonestStutters
  <2> QED
    BY <2>1, <2>2, <2>3, <2>4, <2>5, <2>6, <2>7, <2>8, <2>9, <2>10, <2>11, <2>12, <2>13, <2>14, <2>15, <2>16,
       <2>17, <2>18, <2>19 DEF Next
<1>3. HonestInv => HonestRunPasses BY DEF HonestInv, HonestCase, AllBound, HonestRunPasses
<1> QED BY <1>1, <1>2, <1>3, HcuInvariant, PTL DEF Spec
=============================================================================
