----------------------------- MODULE BenchmarkPlan -----------------------------
(***************************************************************************)
(* The registered plan of BenchmarkTables, executed on the harness of      *)
(* contracts/benchmarks/SG4FheBenchmarkHarness.sol, which knows the        *)
(* registered states a third time.  An outage repeats a whole window on    *)
(* the harness as it is.                                                   *)
(***************************************************************************)
EXTENDS BenchmarkTables

CONSTANT MaxOutages         \* windows that are repeated

VARIABLES
    position,               \* the next record of the run plan
    settled,                \* its setup transaction has been made
    winnerState,            \* the harness's resumable winner state
    prizeVector,            \* the harness's prize vector
    sample,                 \* the last sample taken
    outages

benchmarkVars == <<position, settled, winnerState, prizeVector, sample, outages>>

-----------------------------------------------------------------------------
(***************************************************************************)
(* The harness.                                                            *)
(***************************************************************************)
NoWinnerState == [walk |-> Walk(0, 0, FALSE, 0, 0), size |-> 0, code |-> 0, initialized |-> FALSE, ready |-> FALSE]

registeredChunkSize(code) ==
    CASE code \in {1, 2} -> 1 [] code = 3 -> 4 [] code \in {4, 7} -> 8 [] code = 5 -> 16 [] code \in {6, 8} -> 32

registeredWinnerParameters(size, vectorId) ==
    CASE vectorId = 1 -> Walk(0, 0, FALSE, 0, 0)
      [] vectorId = 2 -> Walk(size \div 2, 0, FALSE, 0, 0)
      [] vectorId = 3 -> Walk(size - 1, 0, FALSE, 0, 0)
      [] vectorId = 4 -> Walk(size, 0, FALSE, 0, 0)
      [] vectorId = 5 -> Walk(0, size, TRUE, IF size > 2 THEN 2 ELSE 0, size)
      [] vectorId = 6 -> Walk(size + size \div 2, size, FALSE, 0, size)

setWinnerState(code, walk, ready) ==
    /\ walk.cursor + registeredChunkSize(code) <= Universe
    /\ winnerState' = [walk |-> walk, size |-> registeredChunkSize(code), code |-> code, initialized |-> TRUE, ready |-> ready]
    /\ UNCHANGED prizeVector

setupWinnerInstance(setup) ==
    /\ setup \div 10 \in 1 .. 6
    /\ setWinnerState(setup \div 10, registeredWinnerParameters(registeredChunkSize(setup \div 10), setup % 10), TRUE)

setupCompositeWinnerInstance(setup) ==
    /\ setup \in {71, 81}
    /\ setWinnerState(setup \div 10, Walk(0, 0, TRUE, 0, 0), FALSE)

setupPrizeVector(setup) ==
    /\ setup \in {7, 8}
    /\ prizeVector' = setup
    /\ UNCHANGED winnerState

(* Mutant: a ticket that equals the sum still wins.                        *)
TiesWin(walk, size) ==
    FoldLeft(LAMBDA w, i :
                 LET first == ~ w.found /\ w.ticket <= w.prefix + 1
                 IN Walk(w.ticket, w.prefix + 1, w.found \/ first, IF first THEN w.cursor ELSE w.winner, w.cursor + 1),
             walk, [i \in 1 .. size |-> i])

executeWinnerSteps(walk, size) ==
    FoldLeft(LAMBDA w, i :
                 LET first == ~ w.found /\ w.ticket < w.prefix + 1
                 IN Walk(w.ticket, w.prefix + 1, w.found \/ first, IF first THEN w.cursor ELSE w.winner, w.cursor + 1),
             walk, [i \in 1 .. size |-> i])

CodeOf(id) == CHOOSE code \in 1 .. 8 :
    id = <<"WINNER_STEP_128", "WINNER_CHUNK_1", "WINNER_CHUNK_4", "WINNER_CHUNK_8", "WINNER_CHUNK_16",
           "WINNER_CHUNK_32", "COMPOSITE_DRAW_AND_CHUNK_8", "COMPOSITE_DRAW_AND_CHUNK_32">>[code]

winnerChunk(code) ==
    /\ winnerState.initialized /\ winnerState.ready
    /\ winnerState.code = code /\ winnerState.size = registeredChunkSize(code)
    /\ winnerState.walk.cursor + winnerState.size <= Universe
    /\ winnerState' = [winnerState EXCEPT !.walk = executeWinnerSteps(@, winnerState.size)]

(* The composite draws a ticket of its own, any ticket.                    *)
compositeDrawAndChunk(code) ==
    /\ winnerState.initialized
    /\ winnerState.code = code /\ winnerState.size = registeredChunkSize(code)
    /\ \E ticket \in {0, 5, 40} :
           winnerState' = [winnerState EXCEPT
               !.walk = executeWinnerSteps([@ EXCEPT !.ticket = ticket, !.prefix = 0, !.cursor = 0], winnerState.size),
               !.ready = TRUE]

-----------------------------------------------------------------------------
(***************************************************************************)
(* Consuming the plan: every record in its order, its setup first.         *)
(***************************************************************************)
Plan == buildRunPlan
Current == Plan[position]

SetUpRun ==
    /\ position <= Len(Plan)
    /\ Current.setupBefore /\ ~ settled
    /\ \/ setupWinnerInstance(Current.setup)
       \/ setupCompositeWinnerInstance(Current.setup)
       \/ setupPrizeVector(Current.setup)
    /\ settled' = TRUE
    /\ UNCHANGED <<position, sample, outages>>

Sampled(walk, prize) == [position |-> position, walk |-> walk, prize |-> prize]

TakeSample ==
    /\ position <= Len(Plan)
    /\ Current.setupBefore => settled
    /\ \/ /\ Current.circuit \in DOMAIN ExpectedRows
          /\ CodeOf(Current.circuit) <= 6 /\ winnerChunk(CodeOf(Current.circuit))
       \/ /\ Current.circuit \in DOMAIN ExpectedRows
          /\ CodeOf(Current.circuit) >= 7 /\ compositeDrawAndChunk(CodeOf(Current.circuit))
       \/ /\ Current.circuit \notin DOMAIN ExpectedRows
          /\ Current.circuit = "PRIZE_OR_ZERO" => prizeVector /= 0
          /\ UNCHANGED winnerState
    /\ sample' = Sampled(winnerState'.walk, prizeVector)
    /\ position' = position + 1
    /\ settled' = FALSE
    /\ UNCHANGED <<prizeVector, outages>>

(* An outage invalidates the window, which is run again from its start on  *)
(* the harness as it is.                                                   *)
Outage ==
    /\ position <= Len(Plan)
    /\ outages < MaxOutages
    /\ position' = CHOOSE i \in DOMAIN Plan : /\ Plan[i].window = Current.window
                                            /\ (i = 1 \/ Plan[i - 1].window < Current.window)
    /\ settled' = FALSE
    /\ outages' = outages + 1
    /\ UNCHANGED <<winnerState, prizeVector, sample>>

NoSample == [position |-> 0, walk |-> Walk(0, 0, FALSE, 0, 0), prize |-> 0]

BenchmarkInit ==
    /\ position = 1 /\ settled = FALSE
    /\ winnerState = NoWinnerState /\ prizeVector = 0
    /\ sample = NoSample /\ outages = 0

BenchmarkNext == SetUpRun \/ TakeSample \/ Outage

BenchmarkSpec == BenchmarkInit /\ [][BenchmarkNext]_benchmarkVars

-----------------------------------------------------------------------------
SameWalk(left, registered) == [left EXCEPT !.ticket = 0] = [registered EXCEPT !.ticket = 0]

(* The protocol's own validation accepts the plan, and every sample is the *)
(* one that was registered, whatever ran before it and however often its   *)
(* window was repeated: the record taken is the one the closed tables      *)
(* derive for this place in the plan, and a winner sample leaves the       *)
(* harness in the post-state the closed table gives for it.                *)
SamplesAreAsRegistered ==
    /\ validateProtocol
    /\ sample.position /= 0 =>
           LET expected == independentlyDeriveExpectedRunPlan[sample.position] IN
           /\ Plan[sample.position] = expected
           /\ expected.vector \in DOMAIN EXPECTED_WINNER_INSTANCES =>
                  SameWalk(sample.walk, EXPECTED_WINNER_INSTANCES[expected.vector].post)
           /\ expected.circuit = "PRIZE_OR_ZERO" => sample.prize = expected.setup
=============================================================================
