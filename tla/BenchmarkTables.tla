---------------------------- MODULE BenchmarkTables ----------------------------
(***************************************************************************)
(* The preregistered SG-4 benchmark of scripts/sg4-protocol.ts: which      *)
(* circuits are run with which inputs, how often and from which state.     *)
(* The protocol says everything twice: it is built from rules and it is    *)
(* written out as closed tables, which its own validation compares.        *)
(*                                                                         *)
(* Weights and tickets are counted in units of CHUNK_WEIGHT.  A vector is  *)
(* the tuple of its name and, for a winner instance, its circuit.          *)
(***************************************************************************)
EXTENDS Integers, Sequences, FiniteSets, SequencesExt

-----------------------------------------------------------------------------
(***************************************************************************)
(* The builder's tables.                                                   *)
(***************************************************************************)
WINNER_SEMANTIC_IDS == <<"FIRST_MATCH", "MIDDLE_MATCH", "LAST_MATCH", "NO_MATCH_BEFORE_CHUNK_BOUNDARY",
                         "ALREADY_FOUND_BEFORE_CHUNK", "CONTINUATION_MATCH_IN_LATER_CHUNK">>
SINGLE_STEP_SEMANTICS == <<"FIRST_MATCH", "NO_MATCH_BEFORE_CHUNK_BOUNDARY",
                           "ALREADY_FOUND_BEFORE_CHUNK", "CONTINUATION_MATCH_IN_LATER_CHUNK">>
WINNER_SEMANTIC_CODE(semantic) == CHOOSE i \in 1 .. 6 : WINNER_SEMANTIC_IDS[i] = semantic

WINNER_CIRCUIT_SPECS ==
    <<[circuit |-> "WINNER_STEP_128", chunk |-> 1], [circuit |-> "WINNER_CHUNK_1", chunk |-> 1],
      [circuit |-> "WINNER_CHUNK_4", chunk |-> 4], [circuit |-> "WINNER_CHUNK_8", chunk |-> 8],
      [circuit |-> "WINNER_CHUNK_16", chunk |-> 16], [circuit |-> "WINNER_CHUNK_32", chunk |-> 32]>>

CLOSED_WINNER_APPLICABILITY(chunk) == IF chunk = 1 THEN SINGLE_STEP_SEMANTICS ELSE WINNER_SEMANTIC_IDS

winnerInstanceIds(code) ==
    LET spec == WINNER_CIRCUIT_SPECS[code]
        semantics == CLOSED_WINNER_APPLICABILITY(spec.chunk)
    IN [i \in DOMAIN semantics |-> <<semantics[i], spec.circuit>>]

circuit(id, class, vectors) == [id |-> id, class |-> class, vectors |-> vectors]

SINGLE == <<<<"FIXED">>>>
GENERAL_VECTOR_IDS == <<<<"T_MAX">>, <<"T_POWER_MINUS_ONE">>, <<"T_POWER_PLUS_ONE">>>>
AllValidFixed(id) == <<<<"ALL_VALID_FIXED_WINNER", id>>>>

BUILDER_CIRCUITS ==
    <<circuit("RNG_64", "primitive", SINGLE), circuit("RNG_128", "primitive", SINGLE),
      circuit("RNG_256", "primitive", SINGLE), circuit("TWAB_CAST_64_TO_128", "primitive", <<<<"BALANCE_MAX">>>>),
      circuit("TWAB_DELTA_128", "primitive", <<<<"BALANCE_MAX_ELAPSED_MAX">>>>),
      circuit("TWAB_ACCUMULATE_128", "primitive", <<<<"TWAB_ACCUMULATION_SAFE_MAX">>>>),
      circuit("AGGREGATE_ADD_128", "primitive", <<<<"AGGREGATE_SAFE_MAX">>>>),
      circuit("PREFIX_ADD_128", "primitive", <<<<"PREFIX_SAFE_MAX">>>>),
      circuit("DRAW_ZERO_TOTAL_NOOP", "primitive", <<<<"T_ZERO">>>>),
      circuit("DRAW_TOTAL_ONE", "primitive", <<<<"T_ONE">>>>),
      circuit("REJECTION_VALID_GENERAL_128", "primitive", GENERAL_VECTOR_IDS),
      circuit("TICKET_REMAINDER_GENERAL_128", "primitive", GENERAL_VECTOR_IDS),
      circuit("REJECTION_PIPELINE_GENERAL_128", "composite", GENERAL_VECTOR_IDS),
      circuit("REJECTION_PIPELINE_ALL_VALID_128", "composite", <<<<"T_DIVIDES_DOMAIN">>>>),
      circuit("WINNER_STEP_128", "primitive", winnerInstanceIds(1))>>
    \o [code \in 1 .. 5 |-> circuit(WINNER_CIRCUIT_SPECS[code + 1].circuit, "winner-chunk", winnerInstanceIds(code + 1))]
    \o <<circuit("PRIZE_OR_ZERO", "primitive", <<<<"WINNER_TRUE">>, <<"WINNER_FALSE">>>>),
         circuit("COMPOSITE_TWAB_UPDATE", "composite", <<<<"TWAB_ACCUMULATION_SAFE_MAX">>>>),
         circuit("COMPOSITE_DRAW_GENERAL", "composite", GENERAL_VECTOR_IDS),
         circuit("COMPOSITE_DRAW_ALL_VALID", "composite", <<<<"T_DIVIDES_DOMAIN">>>>),
         circuit("COMPOSITE_DRAW_AND_CHUNK_8", "composite", AllValidFixed("COMPOSITE_DRAW_AND_CHUNK_8")),
         circuit("COMPOSITE_DRAW_AND_CHUNK_32", "composite", AllValidFixed("COMPOSITE_DRAW_AND_CHUNK_32")),
         circuit("PUBLIC_DECRYPT_AGGREGATE_128", "public-decryption", <<<<"T_MAX">>>>),
         circuit("PUBLIC_DECRYPT_VALID_BOOL", "public-decryption", <<<<"VALID_TRUE">>>>)>>

(* Warm-ups and measured repetitions in the three windows.                 *)
Table(warmups, first, second, third) ==
    <<[warmups |-> warmups, measured |-> first], [warmups |-> 0, measured |-> second],
      [warmups |-> 0, measured |-> third]>>

BUILDER_ALLOCATIONS == [primitive |-> Table(2, 4, 3, 3), composite |-> Table(1, 3, 2, 2), public |-> Table(1, 2, 2, 1)]

allocationFor(entry) ==
    CASE entry.class = "public-decryption" -> BUILDER_ALLOCATIONS.public
      [] entry.class \in {"composite", "winner-chunk"} -> BUILDER_ALLOCATIONS.composite
      [] OTHER -> BUILDER_ALLOCATIONS.primitive

-----------------------------------------------------------------------------
(***************************************************************************)
(* Winner states, as the builder derives them.                             *)
(***************************************************************************)
Walk(ticket, prefix, hit, winner, at) ==
    [ticket |-> ticket, prefix |-> prefix, found |-> hit, winner |-> winner, cursor |-> at]

(* One participant after the other, all of weight one.                     *)
buildWinnerPostState(pre, size) ==
    FoldLeft(LAMBDA walk, offset :
                 LET prefix == walk.prefix + 1
                     first == ~ walk.found /\ walk.ticket < prefix
                 IN [walk EXCEPT !.prefix = prefix, !.found = @ \/ first,
                                 !.winner = IF first THEN pre.cursor + offset - 1 ELSE @,
                                 !.cursor = @ + 1],
             pre, [i \in 1 .. size |-> i])

RegisteredPreState(size, semantic) ==
    CASE semantic = "FIRST_MATCH" -> Walk(0, 0, FALSE, 0, 0)
      [] semantic = "MIDDLE_MATCH" -> Walk(size \div 2, 0, FALSE, 0, 0)
      [] semantic = "LAST_MATCH" -> Walk(size - 1, 0, FALSE, 0, 0)
      [] semantic = "NO_MATCH_BEFORE_CHUNK_BOUNDARY" -> Walk(size, 0, FALSE, 0, 0)
      [] semantic = "ALREADY_FOUND_BEFORE_CHUNK" -> Walk(0, size, TRUE, IF size > 2 THEN 2 ELSE 0, size)
      [] semantic = "CONTINUATION_MATCH_IN_LATER_CHUNK" -> Walk(size + size \div 2, size, FALSE, 0, size)

Instance(setup, size, pre, match) ==
    LET post == buildWinnerPostState(pre, size) IN
    [setup |-> setup, size |-> size, pre |-> pre, post |-> post, match |-> IF match THEN post.winner ELSE -1]

createWinnerInstance(code, semantic) ==
    LET size == WINNER_CIRCUIT_SPECS[code].chunk IN
    Instance(code * 10 + WINNER_SEMANTIC_CODE(semantic), size, RegisteredPreState(size, semantic),
             semantic \notin {"NO_MATCH_BEFORE_CHUNK_BOUNDARY", "ALREADY_FOUND_BEFORE_CHUNK"})

createCompositeWinnerInstance(code, size) == Instance(code * 10 + 1, size, Walk(0, 0, TRUE, 0, 0), FALSE)

BUILDER_WINNER_INSTANCES ==
    LET vectors == UNION {Range(winnerInstanceIds(code)) : code \in 1 .. 6}
        code(v) == CHOOSE c \in 1 .. 6 : WINNER_CIRCUIT_SPECS[c].circuit = v[2]
    IN [v \in vectors \cup {<<"ALL_VALID_FIXED_WINNER", "COMPOSITE_DRAW_AND_CHUNK_8">>,
                            <<"ALL_VALID_FIXED_WINNER", "COMPOSITE_DRAW_AND_CHUNK_32">>} |->
            CASE v[2] = "COMPOSITE_DRAW_AND_CHUNK_8" -> createCompositeWinnerInstance(7, 8)
              [] v[2] = "COMPOSITE_DRAW_AND_CHUNK_32" -> createCompositeWinnerInstance(8, 32)
              [] OTHER -> createWinnerInstance(code(v), v[1])]

requiresSetup(id) ==
    id \in {"PRIZE_OR_ZERO", "WINNER_STEP_128", "COMPOSITE_DRAW_AND_CHUNK_8", "COMPOSITE_DRAW_AND_CHUNK_32"}
           \cup {WINNER_CIRCUIT_SPECS[code].circuit : code \in 2 .. 6}

(* A record: the setup number stands for the definition it links to.       *)
Record(entry, vector, window, class, repetition, setupBefore, instances) ==
    [circuit |-> entry.id, vector |-> vector, window |-> window, class |-> class,
     repetition |-> repetition, setupBefore |-> setupBefore,
     setup |-> IF vector \in DOMAIN instances THEN instances[vector].setup
               ELSE IF entry.id = "PRIZE_OR_ZERO" THEN IF vector = <<"WINNER_TRUE">> THEN 7 ELSE 8
               ELSE 0]

Repeated(count, Make(_)) == [i \in 1 .. count |-> Make(i)]
Concatenate(seqs) == FlattenSeq(seqs)

buildRunPlan ==
    Concatenate([window \in 1 .. 3 |->
      Concatenate([c \in DOMAIN BUILDER_CIRCUITS |->
        LET entry == BUILDER_CIRCUITS[c]
            allocation == allocationFor(entry)[window]
        IN Concatenate([v \in DOMAIN entry.vectors |->
             LET make(class, i) == Record(entry, entry.vectors[v], window, class, i,
                                          requiresSetup(entry.id), BUILDER_WINNER_INSTANCES)
             IN Repeated(allocation.warmups, LAMBDA i : make("WARMUP", i))
                \o Repeated(allocation.measured, LAMBDA i : make("MEASURED", i))])])])

-----------------------------------------------------------------------------
(***************************************************************************)
(* The closed tables.  A row: setup number; ticket, prefix, found, winner, *)
(* cursor before the call; the same four after it; the match or -1.        *)
(***************************************************************************)
Row(semantic, setup, t, p, f, w, c, p2, f2, w2, c2, m) == <<semantic, setup, t, p, f, w, c, p2, f2, w2, c2, m>>

ExpectedStep128 ==
    {Row("FIRST_MATCH", 11, 0, 0, FALSE, 0, 0, 1, TRUE, 0, 1, 0),
     Row("NO_MATCH_BEFORE_CHUNK_BOUNDARY", 14, 1, 0, FALSE, 0, 0, 1, FALSE, 0, 1, -1),
     Row("ALREADY_FOUND_BEFORE_CHUNK", 15, 0, 1, TRUE, 0, 1, 2, TRUE, 0, 2, -1),
     Row("CONTINUATION_MATCH_IN_LATER_CHUNK", 16, 1, 1, FALSE, 0, 1, 2, TRUE, 1, 2, 1)}

ExpectedChunk1 ==
    {Row("FIRST_MATCH", 21, 0, 0, FALSE, 0, 0, 1, TRUE, 0, 1, 0),
     Row("NO_MATCH_BEFORE_CHUNK_BOUNDARY", 24, 1, 0, FALSE, 0, 0, 1, FALSE, 0, 1, -1),
     Row("ALREADY_FOUND_BEFORE_CHUNK", 25, 0, 1, TRUE, 0, 1, 2, TRUE, 0, 2, -1),
     Row("CONTINUATION_MATCH_IN_LATER_CHUNK", 26, 1, 1, FALSE, 0, 1, 2, TRUE, 1, 2, 1)}

ExpectedChunk4 ==
    {Row("FIRST_MATCH", 31, 0, 0, FALSE, 0, 0, 4, TRUE, 0, 4, 0),
     Row("MIDDLE_MATCH", 32, 2, 0, FALSE, 0, 0, 4, TRUE, 2, 4, 2),
     Row("LAST_MATCH", 33, 3, 0, FALSE, 0, 0, 4, TRUE, 3, 4, 3),
     Row("NO_MATCH_BEFORE_CHUNK_BOUNDARY", 34, 4, 0, FALSE, 0, 0, 4, FALSE, 0, 4, -1),
     Row("ALREADY_FOUND_BEFORE_CHUNK", 35, 0, 4, TRUE, 2, 4, 8, TRUE, 2, 8, -1),
     Row("CONTINUATION_MATCH_IN_LATER_CHUNK", 36, 6, 4, FALSE, 0, 4, 8, TRUE, 6, 8, 6)}

ExpectedChunk8 ==
    {Row("FIRST_MATCH", 41, 0, 0, FALSE, 0, 0, 8, TRUE, 0, 8, 0),
     Row("MIDDLE_MATCH", 42, 4, 0, FALSE, 0, 0, 8, TRUE, 4, 8, 4),
     Row("LAST_MATCH", 43, 7, 0, FALSE, 0, 0, 8, TRUE, 7, 8, 7),
     Row("NO_MATCH_BEFORE_CHUNK_BOUNDARY", 44, 8, 0, FALSE, 0, 0, 8, FALSE, 0, 8, -1),
     Row("ALREADY_FOUND_BEFORE_CHUNK", 45, 0, 8, TRUE, 2, 8, 16, TRUE, 2, 16, -1),
     Row("CONTINUATION_MATCH_IN_LATER_CHUNK", 46, 12, 8, FALSE, 0, 8, 16, TRUE, 12, 16, 12)}

ExpectedChunk16 ==
    {Row("FIRST_MATCH", 51, 0, 0, FALSE, 0, 0, 16, TRUE, 0, 16, 0),
     Row("MIDDLE_MATCH", 52, 8, 0, FALSE, 0, 0, 16, TRUE, 8, 16, 8),
     Row("LAST_MATCH", 53, 15, 0, FALSE, 0, 0, 16, TRUE, 15, 16, 15),
     Row("NO_MATCH_BEFORE_CHUNK_BOUNDARY", 54, 16, 0, FALSE, 0, 0, 16, FALSE, 0, 16, -1),
     Row("ALREADY_FOUND_BEFORE_CHUNK", 55, 0, 16, TRUE, 2, 16, 32, TRUE, 2, 32, -1),
     Row("CONTINUATION_MATCH_IN_LATER_CHUNK", 56, 24, 16, FALSE, 0, 16, 32, TRUE, 24, 32, 24)}

ExpectedChunk32 ==
    {Row("FIRST_MATCH", 61, 0, 0, FALSE, 0, 0, 32, TRUE, 0, 32, 0),
     Row("MIDDLE_MATCH", 62, 16, 0, FALSE, 0, 0, 32, TRUE, 16, 32, 16),
     Row("LAST_MATCH", 63, 31, 0, FALSE, 0, 0, 32, TRUE, 31, 32, 31),
     Row("NO_MATCH_BEFORE_CHUNK_BOUNDARY", 64, 32, 0, FALSE, 0, 0, 32, FALSE, 0, 32, -1),
     Row("ALREADY_FOUND_BEFORE_CHUNK", 65, 0, 32, TRUE, 2, 32, 64, TRUE, 2, 64, -1),
     Row("CONTINUATION_MATCH_IN_LATER_CHUNK", 66, 48, 32, FALSE, 0, 32, 64, TRUE, 48, 64, 48)}

ExpectedComposite8 == {Row("ALL_VALID_FIXED_WINNER", 71, 0, 0, TRUE, 0, 0, 8, TRUE, 0, 8, -1)}
ExpectedComposite32 == {Row("ALL_VALID_FIXED_WINNER", 81, 0, 0, TRUE, 0, 0, 32, TRUE, 0, 32, -1)}

ExpectedRows ==
    [WINNER_STEP_128 |-> ExpectedStep128, WINNER_CHUNK_1 |-> ExpectedChunk1, WINNER_CHUNK_4 |-> ExpectedChunk4,
     WINNER_CHUNK_8 |-> ExpectedChunk8, WINNER_CHUNK_16 |-> ExpectedChunk16, WINNER_CHUNK_32 |-> ExpectedChunk32,
     COMPOSITE_DRAW_AND_CHUNK_8 |-> ExpectedComposite8, COMPOSITE_DRAW_AND_CHUNK_32 |-> ExpectedComposite32]

ExpectedChunkSize ==
    [WINNER_STEP_128 |-> 1, WINNER_CHUNK_1 |-> 1, WINNER_CHUNK_4 |-> 4, WINNER_CHUNK_8 |-> 8, WINNER_CHUNK_16 |-> 16,
     WINNER_CHUNK_32 |-> 32, COMPOSITE_DRAW_AND_CHUNK_8 |-> 8, COMPOSITE_DRAW_AND_CHUNK_32 |-> 32]

EXPECTED_WINNER_INSTANCES ==
    LET Of(id) == {<<row[1], id>> : row \in ExpectedRows[id]}
        all == UNION {Of(id) : id \in DOMAIN ExpectedRows}
    IN [v \in all |->
           LET r == CHOOSE row \in ExpectedRows[v[2]] : row[1] = v[1] IN
           [setup |-> r[2], size |-> ExpectedChunkSize[v[2]], pre |-> Walk(r[3], r[4], r[5], r[6], r[7]),
            post |-> Walk(r[3], r[8], r[9], r[10], r[11]), match |-> r[12]]]

(* The pairs, by repetition category, in the order of the tables.          *)
For(id, names) == [i \in DOMAIN names |-> <<id, <<names[i]>>>>]
ForInstances(id, semantics) == [i \in DOMAIN semantics |-> <<id, <<semantics[i], id>>>>]

FourSemantics == <<"FIRST_MATCH", "NO_MATCH_BEFORE_CHUNK_BOUNDARY", "ALREADY_FOUND_BEFORE_CHUNK",
                   "CONTINUATION_MATCH_IN_LATER_CHUNK">>
SixSemantics == <<"FIRST_MATCH", "MIDDLE_MATCH", "LAST_MATCH", "NO_MATCH_BEFORE_CHUNK_BOUNDARY",
                  "ALREADY_FOUND_BEFORE_CHUNK", "CONTINUATION_MATCH_IN_LATER_CHUNK">>
ThreeTotals == <<"T_MAX", "T_POWER_MINUS_ONE", "T_POWER_PLUS_ONE">>

EXPECTED_PRIMITIVE_PAIRS ==
    For("RNG_64", <<"FIXED">>) \o For("RNG_128", <<"FIXED">>) \o For("RNG_256", <<"FIXED">>)
    \o For("TWAB_CAST_64_TO_128", <<"BALANCE_MAX">>) \o For("TWAB_DELTA_128", <<"BALANCE_MAX_ELAPSED_MAX">>)
    \o For("TWAB_ACCUMULATE_128", <<"TWAB_ACCUMULATION_SAFE_MAX">>)
    \o For("AGGREGATE_ADD_128", <<"AGGREGATE_SAFE_MAX">>) \o For("PREFIX_ADD_128", <<"PREFIX_SAFE_MAX">>)
    \o For("DRAW_ZERO_TOTAL_NOOP", <<"T_ZERO">>) \o For("DRAW_TOTAL_ONE", <<"T_ONE">>)
    \o For("REJECTION_VALID_GENERAL_128", ThreeTotals) \o For("TICKET_REMAINDER_GENERAL_128", ThreeTotals)
    \o ForInstances("WINNER_STEP_128", FourSemantics) \o For("PRIZE_OR_ZERO", <<"WINNER_TRUE", "WINNER_FALSE">>)

EXPECTED_COMPOSITE_CHUNK_PAIRS ==
    For("REJECTION_PIPELINE_GENERAL_128", ThreeTotals)
    \o For("REJECTION_PIPELINE_ALL_VALID_128", <<"T_DIVIDES_DOMAIN">>)
    \o ForInstances("WINNER_CHUNK_1", FourSemantics) \o ForInstances("WINNER_CHUNK_4", SixSemantics)
    \o ForInstances("WINNER_CHUNK_8", SixSemantics) \o ForInstances("WINNER_CHUNK_16", SixSemantics)
    \o ForInstances("WINNER_CHUNK_32", SixSemantics)
    \o For("COMPOSITE_TWAB_UPDATE", <<"TWAB_ACCUMULATION_SAFE_MAX">>) \o For("COMPOSITE_DRAW_GENERAL", ThreeTotals)
    \o For("COMPOSITE_DRAW_ALL_VALID", <<"T_DIVIDES_DOMAIN">>)
    \o ForInstances("COMPOSITE_DRAW_AND_CHUNK_8", <<"ALL_VALID_FIXED_WINNER">>)
    \o ForInstances("COMPOSITE_DRAW_AND_CHUNK_32", <<"ALL_VALID_FIXED_WINNER">>)

EXPECTED_PUBLIC_DECRYPTION_PAIRS ==
    For("PUBLIC_DECRYPT_AGGREGATE_128", <<"T_MAX">>) \o For("PUBLIC_DECRYPT_VALID_BOOL", <<"VALID_TRUE">>)

(* The order of the circuits and their repetition category.                *)
PrimitiveCircuits == {pair[1] : pair \in Range(EXPECTED_PRIMITIVE_PAIRS)}

EXPECTED_CIRCUITS ==
    LET Categorised(id) ==
            [id |-> id, category |-> CASE id \in PrimitiveCircuits -> "PRIMITIVE_OR_SINGLE_STEP"
                                       [] id \in {"PUBLIC_DECRYPT_AGGREGATE_128", "PUBLIC_DECRYPT_VALID_BOOL"} -> "PUBLIC_DECRYPTION"
                                       [] OTHER -> "COMPOSITE_OR_WINNER_CHUNK"]
        ids == <<"RNG_64", "RNG_128", "RNG_256", "TWAB_CAST_64_TO_128", "TWAB_DELTA_128", "TWAB_ACCUMULATE_128",
                 "AGGREGATE_ADD_128", "PREFIX_ADD_128", "DRAW_ZERO_TOTAL_NOOP", "DRAW_TOTAL_ONE",
                 "REJECTION_VALID_GENERAL_128", "TICKET_REMAINDER_GENERAL_128", "REJECTION_PIPELINE_GENERAL_128",
                 "REJECTION_PIPELINE_ALL_VALID_128", "WINNER_STEP_128", "WINNER_CHUNK_1", "WINNER_CHUNK_4",
                 "WINNER_CHUNK_8", "WINNER_CHUNK_16", "WINNER_CHUNK_32", "PRIZE_OR_ZERO", "COMPOSITE_TWAB_UPDATE",
                 "COMPOSITE_DRAW_GENERAL", "COMPOSITE_DRAW_ALL_VALID", "COMPOSITE_DRAW_AND_CHUNK_8",
                 "COMPOSITE_DRAW_AND_CHUNK_32", "PUBLIC_DECRYPT_AGGREGATE_128", "PUBLIC_DECRYPT_VALID_BOOL">>
    IN [i \in DOMAIN ids |-> Categorised(ids[i])]

EXPECTED_ALLOCATIONS ==
    [PRIMITIVE_OR_SINGLE_STEP |-> Table(2, 4, 3, 3), COMPOSITE_OR_WINNER_CHUNK |-> Table(1, 3, 2, 2),
     PUBLIC_DECRYPTION |-> Table(1, 2, 2, 1)]

PairTable ==
    [PRIMITIVE_OR_SINGLE_STEP |-> EXPECTED_PRIMITIVE_PAIRS, COMPOSITE_OR_WINNER_CHUNK |-> EXPECTED_COMPOSITE_CHUNK_PAIRS,
     PUBLIC_DECRYPTION |-> EXPECTED_PUBLIC_DECRYPTION_PAIRS]

expectedRunFields(entry, vector, window, class, repetition) ==
    Record(entry, vector, window, class, repetition,
           entry.id \in DOMAIN ExpectedRows \cup {"PRIZE_OR_ZERO"}, EXPECTED_WINNER_INSTANCES)

independentlyDeriveExpectedRunPlan ==
    Concatenate([window \in 1 .. 3 |->
      Concatenate([c \in DOMAIN EXPECTED_CIRCUITS |->
        LET entry == EXPECTED_CIRCUITS[c]
            allocation == EXPECTED_ALLOCATIONS[entry.category][window]
            pairs == SelectSeq(PairTable[entry.category], LAMBDA pair : pair[1] = entry.id)
        IN Concatenate([p \in DOMAIN pairs |->
             LET fields(class, i) == expectedRunFields(entry, pairs[p][2], window, class, i)
             IN Repeated(allocation.warmups, LAMBDA i : fields("WARMUP", i))
                \o Repeated(allocation.measured, LAMBDA i : fields("MEASURED", i))])])])

(* The oracle.  It refuses a slice that is empty, does not start at the    *)
(* cursor or leaves the registered universe.                               *)
Universe == 64

oracleAccepts(pre, indices, weights, chunk, start) ==
    /\ chunk > 0
    /\ Len(indices) = chunk /\ Len(weights) = chunk
    /\ pre.cursor = start /\ pre.cursor < Universe /\ pre.cursor + chunk <= Universe
    /\ \A i \in 1 .. chunk : indices[i] = pre.cursor + i - 1 /\ weights[i] > 0
    /\ FoldLeft(+, pre.prefix, weights) <= Universe

winnerStateTransition(pre, indices, weights) ==
    FoldLeft(LAMBDA walk, i :
                 LET prefix == walk.prefix + weights[i]
                     hit == ~ walk.found /\ walk.ticket < prefix
                 IN Walk(walk.ticket, prefix, walk.found \/ hit, IF hit THEN walk.cursor ELSE walk.winner, walk.cursor + 1),
             pre, [i \in DOMAIN indices |-> i])

OracleConfirms(instance) ==
    LET indices == [i \in 1 .. instance.size |-> instance.pre.cursor + i - 1]
        weights == [i \in 1 .. instance.size |-> 1]
    IN /\ oracleAccepts(instance.pre, indices, weights, instance.size, instance.pre.cursor)
       /\ winnerStateTransition(instance.pre, indices, weights) = instance.post

(* The validator: the instances are the closed ones and the oracle confirms*)
(* them, a setup leads to one pre-state, the plan is the one derived.      *)
InstancesMatch ==
    /\ BUILDER_WINNER_INSTANCES = EXPECTED_WINNER_INSTANCES
    /\ \A v \in DOMAIN EXPECTED_WINNER_INSTANCES : OracleConfirms(EXPECTED_WINNER_INSTANCES[v])

SetupsAreDistinct ==
    \A v, u \in DOMAIN BUILDER_WINNER_INSTANCES :
        BUILDER_WINNER_INSTANCES[v].setup = BUILDER_WINNER_INSTANCES[u].setup =>
            BUILDER_WINNER_INSTANCES[v].pre = BUILDER_WINNER_INSTANCES[u].pre

PlanMatches ==
    /\ buildRunPlan = independentlyDeriveExpectedRunPlan
    /\ Len(buildRunPlan) = 588
    /\ Cardinality(Range(buildRunPlan)) = 588

validateProtocol == InstancesMatch /\ SetupsAreDistinct /\ PlanMatches
=============================================================================
