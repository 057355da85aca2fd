---------------------------- MODULE DebugSelector ----------------------------
(***************************************************************************)
(* The selector language of the debug package as the SG-2 launcher and     *)
(* tasks/sg2.ts re-implement it, to refuse a run that would print what the *)
(* gate must keep quiet, and the classification of a Hardhat command line. *)
(* Characters, patterns and namespaces are short sequences over a small    *)
(* alphabet; a selector is the sequence of its patterns, as it is after    *)
(* the split at commas and blanks.                                         *)
(***************************************************************************)
EXTENDS Naturals, Sequences

Star == "*"
Minus == "-"

(* A loop: what a number of iterations of a step make of the state it      *)
(* starts in.                                                              *)
Iterate(start, step, iterations) ==
    LET after[k \in Nat] == IF k = 0 THEN start ELSE step[after[k - 1]]
    IN after[iterations]

(* The cursors of the iterative matcher and the place of the last star (0: *)
(* none yet), with the place in the namespace up to which it reaches.      *)
Cursors == [n : Nat, p : Nat, star : Nat, starMatch : Nat, failed : BOOLEAN]
AtStart == [n |-> 1, p |-> 1, star |-> 0, starMatch |-> 0, failed |-> FALSE]

(* One iteration.  A mismatch after a star gives that star one more        *)
(* character; a mismatch before any star fails.                            *)
MatchStep(namespace, pattern) ==
    [c \in Cursors |->
        IF c.failed \/ c.n > Len(namespace) THEN c
        ELSE IF c.p <= Len(pattern) /\ pattern[c.p] = Star
        THEN [c EXCEPT !.p = @ + 1, !.star = c.p, !.starMatch = c.n]
        ELSE IF c.p <= Len(pattern) /\ pattern[c.p] = namespace[c.n]
        THEN [c EXCEPT !.n = @ + 1, !.p = @ + 1]
        ELSE IF c.star /= 0
        THEN [c EXCEPT !.n = c.starMatch + 1, !.p = c.star + 1, !.starMatch = @ + 1]
        ELSE [c EXCEPT !.failed = TRUE]]

(* Mutant: the place of the star is forgotten, the cursor in the namespace *)
(* moves on from where the mismatch was found.                             *)
StepWithoutBacktracking(namespace, pattern) ==
    [c \in Cursors |->
        IF c.star /= 0 /\ c.n <= Len(namespace) /\ (c.p > Len(pattern) \/ pattern[c.p] \notin {Star, namespace[c.n]})
        THEN [c EXCEPT !.n = @ + 1, !.p = c.star + 1]
        ELSE MatchStep(namespace, pattern)[c]]

(* No place of the star is tried with a longer part of the pattern twice,  *)
(* so that this many iterations are enough.                                *)
Iterations(namespace, pattern) == (Len(namespace) + 2) * (Len(pattern) + 2)

Accepts(c, namespace, pattern) ==
    /\ ~ c.failed
    /\ c.n > Len(namespace)
    /\ \A i \in c.p .. Len(pattern) : pattern[i] = Star

MatchWithoutBacktracking(namespace, pattern) ==
    Accepts(Iterate(AtStart, StepWithoutBacktracking(namespace, pattern), Iterations(namespace, pattern)),
            namespace, pattern)

debugPatternMatches(namespace, pattern) ==
    Accepts(Iterate(AtStart, MatchStep(namespace, pattern), Iterations(namespace, pattern)),
            namespace, pattern)

Exclusions(selector) ==
    {Tail(selector[i]) : i \in {j \in DOMAIN selector : Head(selector[j]) = Minus}}

Inclusions(selector) ==
    {selector[i] : i \in {j \in DOMAIN selector : Head(selector[j]) /= Minus}}

(* An exclusion anywhere in the selector wins.                             *)
debugNamespaceEnabled(selector, namespace) ==
    /\ \A x \in Exclusions(selector) : ~ debugPatternMatches(namespace, x)
    /\ \E x \in Inclusions(selector) : debugPatternMatches(namespace, x)

forbiddenDebugEnabled(selector, forbidden) ==
    \E namespace \in forbidden : debugNamespaceEnabled(selector, namespace)

(***************************************************************************)
(* What a pattern means, independently of how it is searched for: each of  *)
(* its characters has a place in the namespace, one after the other, and a *)
(* star stands for any run of characters.                                  *)
(***************************************************************************)
Denotes(pattern, namespace) ==
    \E at \in [1 .. Len(pattern) + 1 -> 1 .. Len(namespace) + 1] :
        /\ at[1] = 1 /\ at[Len(pattern) + 1] = Len(namespace) + 1
        /\ \A i \in 1 .. Len(pattern) :
               IF pattern[i] = Star THEN at[i] <= at[i + 1]
               ELSE at[i + 1] = at[i] + 1 /\ pattern[i] = namespace[at[i]]

Speaks(selector, namespace) ==
    /\ \A x \in Exclusions(selector) : ~ Denotes(x, namespace)
    /\ \E x \in Inclusions(selector) : Denotes(x, namespace)

-----------------------------------------------------------------------------
(***************************************************************************)
(* Hardhat's command line: global flags, global options with a value,      *)
(* task names.  Anything that starts with two dashes and is not a global   *)
(* option belongs to the task, or makes Hardhat refuse the line when no    *)
(* task has been named yet.                                                *)
(***************************************************************************)
Flags == {"--verbose"}
ValueOptions == {"--network"}
OtherOptions == {"--address"}
Options == Flags \cup ValueOptions \cup OtherOptions

Read(index, selectedTask, verbose) == [index |-> index, selectedTask |-> selectedTask, verbose |-> verbose]

(* One argument of the line, or an option with its value.                  *)
ClassifyStep(line) ==
    [c \in [index : Nat, selectedTask : STRING, verbose : BOOLEAN] |->
        IF c.index > Len(line) THEN c
        ELSE IF line[c.index] \notin Options
        THEN Read(c.index + 1, IF c.selectedTask = "none" THEN line[c.index] ELSE c.selectedTask, c.verbose)
        ELSE IF line[c.index] \in OtherOptions /\ c.selectedTask /= "none"
        THEN [c EXCEPT !.index = @ + 1]
        ELSE IF line[c.index] \in Flags
        THEN Read(c.index + 1, c.selectedTask, TRUE)
        ELSE IF line[c.index] \in ValueOptions /\ c.index < Len(line)
        THEN [c EXCEPT !.index = @ + 2]
        ELSE Read(Len(line) + 1, "none", FALSE)]

classifyHardhatCommand(line, verboseEnvironment) ==
    Iterate(Read(1, "none", verboseEnvironment), ClassifyStep(line), Len(line))
=============================================================================
