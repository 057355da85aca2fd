--------------------------- MODULE CheckpointSearch ---------------------------
(***************************************************************************)
(* The binary search over an account's checkpoints, step by step: the loop *)
(* of _cumulativeAt, which looks for the last checkpoint at or before a    *)
(* timestamp, and the one of _preferenceAt, which looks for the last one   *)
(* strictly before it.  LeopoldVault uses their result.                    *)
(*                                                                         *)
(* Indices are those of the code: checkpoint i is observations[i + 1].     *)
(***************************************************************************)
EXTENDS Integers, Sequences

CONSTANTS
  Timestamps,           \* the times at which checkpoints were made
  Queries,              \* the times asked for
  MAX_OBSERVATIONS      \* bound of the model

ASSUME SearchConfiguration ==
  Timestamps \subseteq Nat /\ Queries \subseteq Nat /\ MAX_OBSERVATIONS \in Nat

VARIABLES
  observations,         \* the checkpoints' timestamps, in storage order
  timestamp,            \* the time asked for
  strict,               \* TRUE in _preferenceAt, FALSE in _cumulativeAt
  low, high,
  pc,                   \* "check", "loop" or "done"
  found                 \* whether a checkpoint was found, at index low

searchVars == <<observations, timestamp, strict, low, high, pc, found>>

\* _checkpointUser and setAutoSavePreference keep one checkpoint per timestamp.
Ordered(obs) == \A i, j \in 1..Len(obs) : i < j => obs[i] < obs[j]

Histories ==
  UNION {{obs \in [1..n -> Timestamps] : Ordered(obs)} : n \in 0..MAX_OBSERVATIONS}

SearchInit ==
  /\ observations \in Histories
  /\ timestamp \in Queries
  /\ strict \in BOOLEAN
  /\ low = 0 /\ high = 0
  /\ pc = "check"
  /\ found = FALSE

\* Mutant: both searches take a checkpoint at the very time asked for.
AtOrBefore(i) == observations[i + 1] <= timestamp

\* The loop's comparison of checkpoint i with the time asked for.
Before(i) ==
  IF strict THEN observations[i + 1] < timestamp ELSE observations[i + 1] <= timestamp

\* No checkpoint, or the first one is already too late.
ReturnNothing ==
  /\ pc = "check"
  /\ Len(observations) # 0 => ~Before(0)
  /\ pc' = "done"
  /\ UNCHANGED <<observations, timestamp, strict, low, high, found>>

EnterLoop ==
  /\ pc = "check"
  /\ Len(observations) # 0 /\ Before(0)
  /\ low' = 0
  /\ high' = Len(observations)
  /\ pc' = "loop"
  /\ UNCHANGED <<observations, timestamp, strict, found>>

Middle == low + (high - low) \div 2

Halve ==
  /\ pc = "loop"
  /\ low + 1 < high
  /\ IF Before(Middle) THEN low' = Middle /\ high' = high
                       ELSE low' = low /\ high' = Middle
  /\ UNCHANGED <<observations, timestamp, strict, pc, found>>

ExitLoop ==
  /\ pc = "loop"
  /\ low + 1 >= high
  /\ pc' = "done"
  /\ found' = TRUE
  /\ UNCHANGED <<observations, timestamp, strict, low, high>>

SearchNext == ReturnNothing \/ EnterLoop \/ Halve \/ ExitLoop

SearchSpec == SearchInit /\ [][SearchNext]_searchVars

-----------------------------------------------------------------------------
(* Properties. *)

\* Is checkpoint i one that counts at the time asked for?
Counts(i) ==
  \/ observations[i + 1] < timestamp
  \/ ~strict /\ observations[i + 1] = timestamp

\* The search of _cumulativeAt and _preferenceAt answers what LeopoldVault's
\* LatestAt says: the last checkpoint that counts, or none if none does.
SearchCorrect ==
  pc = "done" =>
    IF found
    THEN /\ low \in 0..(Len(observations) - 1)
         /\ Counts(low)
         /\ \A i \in 0..(Len(observations) - 1) : i > low => ~Counts(i)
    ELSE \A i \in 0..(Len(observations) - 1) : ~Counts(i)

\* The interval of the loop shrinks at every iteration and never becomes empty,
\* so the loop takes at most as many iterations as there are checkpoints and
\* never reads past the array.
IntervalShrinks ==
  [][pc = "loop" /\ pc' = "loop" =>
       /\ high' - low' < high - low
       /\ 0 <= low' /\ low' < high' /\ high' <= Len(observations)]_searchVars
=============================================================================
