---------------------------- MODULE BrowserLauncher ----------------------------
(***************************************************************************)
(* scripts/sg5-launcher.cjs: it starts a local frontend and a Playwright   *)
(* suite, each in a process group of its own, and cleans up after them:    *)
(* when the suite is over, when anything fails, and when a signal arrives. *)
(* The cleanup may signal only processes the launcher started, although    *)
(* processes fork, exit and ignore signals, identifiers are used again and *)
(* somebody else may listen on the port.                                   *)
(*                                                                         *)
(* A synchronous block of the launcher is one step: processes change       *)
(* between two such blocks, not between an inspection and the signal that  *)
(* follows it in the same block.                                           *)
(***************************************************************************)
EXTENDS Integers, Sequences, FiniteSets, SequencesExt

CONSTANTS
    Pids,               \* process identifiers
    MaxBirths,          \* processes that are ever started
    MaxAttempts,        \* polls for a ready frontend
    MaxSignals          \* signals the launcher receives

VARIABLES
    os,                 \* the process table
    births,             \* start times given out
    main,               \* where runBrowserMode is
    attempt,            \* its poll
    groups,             \* resources.groups
    directory,          \* the private run directory
    cleanup,            \* the one cleanup of the controller
    handling,           \* the event the lifecycle handlers are dispatching
    printed,            \* what the launcher reported
    signals,            \* signals received so far
    struck              \* processes a signal of the launcher has hit

launcherVars == <<os, births, main, attempt, groups, directory, cleanup, handling, printed, signals, struck>>

-----------------------------------------------------------------------------
(* A process: its start time, its process group (and session), whose it    *)
(* really is, whether cwd, executable and command line are those of the    *)
(* trusted entry point, whether it listens on the port, ignores SIGTERM,   *)
(* and is about to exit.                                                   *)
NoProcess == [start |-> 0, group |-> 0, owner |-> "none", entry |-> FALSE, listens |-> FALSE,
              stubborn |-> FALSE, dying |-> FALSE]

Alive(pid) == os[pid].start /= 0
Free == {pid \in Pids : ~ Alive(pid) /\ \A q \in Pids : os[q].group /= pid}
Identity(pid) == [pid |-> pid, start |-> os[pid].start]
Listeners == {pid \in Pids : os[pid].listens}

Ours == {"FRONTEND", "PLAYWRIGHT"}

Newborn(owner, group, entry, listens, stubborn) ==
    [start |-> births + 1, group |-> group, owner |-> owner, entry |-> entry, listens |-> listens,
     stubborn |-> stubborn, dying |-> FALSE]

(* A synchronous block runs to its end before anything else happens: the   *)
(* inspections and signals of the cleanup between two waits, and the start *)
(* of the suite right after the frontend was found ready.                  *)
Busy == main = "ready" \/ (cleanup.state = "inspect" /\ main /= "over")

NoCleanup == [state |-> "none", queue |-> <<>>, failures |-> 0]

-----------------------------------------------------------------------------
(***************************************************************************)
(* Recognising one's own processes.                                        *)
(***************************************************************************)
captureOwnedProcessGroup(pid, kind, start) ==
    [kind |-> kind, leader |-> [pid |-> pid, start |-> start], verified |-> {[pid |-> pid, start |-> start]}]

matchesLaunchIdentity(group, pid) == os[pid].group = group.leader.pid /\ os[pid].entry

LeaderAlive(group) == Identity(group.leader.pid) = group.leader

(* A listener is one's own if it is alone, in the group, and either seen   *)
(* before or a descendant of the leader, which still lives.                *)
verifySpawnedListenerOwnership(group) ==
    /\ Cardinality(Listeners) = 1
    /\ \A pid \in Listeners :
           /\ matchesLaunchIdentity(group, pid)
           /\ Identity(pid) \in group.verified \/ LeaderAlive(group)

Remember(group, pids) == [group EXCEPT !.verified = @ \cup {Identity(pid) : pid \in pids}]

Members(group) == {pid \in Pids : Alive(pid) /\ os[pid].group = group.leader.pid}

(* Mutant: an identifier that is in use again passes for the process that  *)
(* had it.                                                                 *)
ReuseUnnoticed(known) == FALSE

Reused(known) == Alive(known.pid) /\ os[known.pid].start /= known.start

(* The order of the questions is the code's: identifiers used again, known *)
(* members lost, strangers in the group, the port, nobody left.            *)
inspectOwnedProcessGroup(group) ==
    LET known == {m \in group.verified : Identity(m.pid) = m}
    IN IF \E m \in group.verified : Reused(m) THEN "PID_REUSE_DETECTED"
       ELSE IF \E m \in known : ~ matchesLaunchIdentity(group, m.pid) THEN "OWNERSHIP_LOST"
       ELSE IF \E pid \in Members(group) : ~ matchesLaunchIdentity(group, pid) THEN "AMBIGUOUS_PROCESS_GROUP"
       ELSE IF group.kind = "FRONTEND" /\ Cardinality(Listeners) > 1 THEN "AMBIGUOUS_PROCESS_GROUP"
       ELSE IF group.kind = "FRONTEND" /\ ~ (Listeners \subseteq Members(group)) THEN "OWNERSHIP_LOST"
       ELSE IF Members(group) = {} THEN "ALREADY_EXITED" ELSE "VERIFIED_ACTIVE"

(* process.kill(-group): every process of that group is hit.               *)
Signal(group, forcibly) ==
    /\ os' = [pid \in Pids |->
           IF pid \in Members(group) /\ (forcibly \/ ~ os[pid].stubborn)
           THEN [os[pid] EXCEPT !.dying = TRUE] ELSE os[pid]]
    /\ struck' = struck \cup {os[pid].owner : pid \in Members(group)}

-----------------------------------------------------------------------------
(***************************************************************************)
(* runBrowserMode.                                                         *)
(***************************************************************************)
(* The checks before anything is started, and the port, which has to be    *)
(* free: the launcher never ends what was there before.                    *)
assertPortAvailable ==
    /\ main = "start"
    /\ \E accepted \in BOOLEAN :
           main' = IF accepted /\ Listeners = {} THEN "spawn" ELSE "over"
    /\ printed' = IF main' = "over" THEN "refused" ELSE printed
    /\ UNCHANGED <<os, births, attempt, groups, directory, cleanup, handling, signals, struck>>

(* The directory, the frontend, its group and the handlers, in one block.  *)
(* A frontend that has exited before it could be recognised takes the      *)
(* directory with it.                                                      *)
SpawnFrontend ==
    /\ main = "spawn"
    /\ \E pid \in Free, stubborn \in BOOLEAN :
           /\ os' = [os EXCEPT ![pid] = Newborn("FRONTEND", pid, TRUE, FALSE, stubborn)]
           /\ groups' = <<captureOwnedProcessGroup(pid, "FRONTEND", births + 1)>>
    /\ births' = births + 1
    /\ main' = "wait"
    /\ directory' = "present"
    /\ UNCHANGED <<attempt, cleanup, handling, printed, signals, struck>>

FrontendNotCaptured ==
    /\ main = "spawn"
    /\ main' = "over"
    /\ directory' = "removed"
    /\ printed' = "refused"
    /\ UNCHANGED <<os, births, attempt, groups, cleanup, handling, signals, struck>>

(* main leaves its try: cleanup() starts the one cleanup or joins it.      *)
SnapshotReversed == Reverse([i \in DOMAIN groups |-> i])

StartCleanup == IF cleanup.state = "none"
                THEN [state |-> "inspect", queue |-> SnapshotReversed, failures |-> 0] ELSE cleanup

Finally(verdict) ==
    /\ main' = "finally"
    /\ printed' = verdict
    /\ cleanup' = StartCleanup

(* Mutant: the polls are not counted.                                      *)
PollForEver ==
    /\ main = "wait"
    /\ IF verifySpawnedListenerOwnership(groups[1])
       THEN main' = "health" /\ groups' = [groups EXCEPT ![1] = Remember(@, Listeners)]
       ELSE UNCHANGED <<main, groups>>
    /\ UNCHANGED <<os, births, attempt, directory, cleanup, handling, printed, signals, struck>>

(* One look at the port; with an owner that is verified, one question for  *)
(* its health.                                                             *)
waitForOwnedFrontend ==
    /\ main = "wait"
    /\ IF Listeners = {}
       THEN IF attempt + 1 < MaxAttempts
            THEN attempt' = attempt + 1 /\ UNCHANGED <<main, printed, cleanup, groups>>
            ELSE attempt' = attempt /\ Finally("failed") /\ UNCHANGED groups
       ELSE IF verifySpawnedListenerOwnership(groups[1])
       THEN /\ main' = "health"
            /\ groups' = [groups EXCEPT ![1] = Remember(@, Listeners)]
            /\ UNCHANGED <<attempt, printed, cleanup>>
       ELSE Finally("failed") /\ UNCHANGED <<attempt, groups>>
    /\ UNCHANGED <<os, births, directory, handling, signals, struck>>

(* The health answer: not yet, or ready; then the owner is verified again. *)
AnswerHealth ==
    /\ main = "health"
    /\ \E ok \in BOOLEAN :
         IF ok
         THEN IF verifySpawnedListenerOwnership(groups[1])
              THEN /\ main' = "ready"
                   /\ groups' = [groups EXCEPT ![1] = Remember(@, Listeners)]
                   /\ UNCHANGED <<attempt, printed, cleanup>>
              ELSE Finally("failed") /\ UNCHANGED <<attempt, groups>>
         ELSE IF attempt + 1 < MaxAttempts
         THEN main' = "wait" /\ attempt' = attempt + 1 /\ UNCHANGED <<groups, printed, cleanup>>
         ELSE Finally("failed") /\ UNCHANGED <<attempt, groups>>
    /\ UNCHANGED <<os, births, directory, handling, signals, struck>>

(* frontendFailure wins the race: the frontend's leader has exited.        *)
FrontendFailed ==
    /\ main \in {"wait", "health"}
    /\ ~ LeaderAlive(groups[1])
    /\ Finally("failed")
    /\ UNCHANGED <<os, births, attempt, groups, directory, handling, signals, struck>>

(* The browser is looked at again, and the suite started.                  *)
SpawnPlaywright ==
    /\ main = "ready"
    /\ \E pid \in Free, stubborn \in BOOLEAN :
           /\ os' = [os EXCEPT ![pid] = Newborn("PLAYWRIGHT", pid, TRUE, FALSE, stubborn)]
           /\ groups' = Append(groups, captureOwnedProcessGroup(pid, "PLAYWRIGHT", births + 1))
    /\ births' = births + 1
    /\ main' = "suite"
    /\ UNCHANGED <<attempt, directory, cleanup, handling, printed, signals, struck>>

(* The browser has changed, or the suite exited before it was recognised.  *)
PlaywrightNotStarted ==
    /\ main = "ready"
    /\ Finally("failed")
    /\ UNCHANGED <<os, births, attempt, groups, directory, handling, signals, struck>>

(* The suite exits, or fifteen minutes are over.                           *)
SuiteExits ==
    /\ main = "suite"
    /\ ~ LeaderAlive(groups[2])
    /\ \E passed \in BOOLEAN : Finally(IF passed THEN "passed" ELSE "failed")
    /\ UNCHANGED <<os, births, attempt, groups, directory, handling, signals, struck>>

SuiteTimesOut ==
    /\ main = "suite"
    /\ LeaderAlive(groups[2])
    /\ Finally("failed")
    /\ UNCHANGED <<os, births, attempt, groups, directory, handling, signals, struck>>

(* The cleanup main awaits has settled.                                    *)
MainReturns ==
    /\ main = "finally"
    /\ cleanup.state \in {"clean", "unresolved"}
    /\ main' = "over"
    /\ printed' = IF cleanup.state = "unresolved" THEN "unresolved" ELSE printed
    /\ UNCHANGED <<os, births, attempt, groups, directory, cleanup, handling, signals, struck>>

-----------------------------------------------------------------------------
(***************************************************************************)
(* The cleanup: the groups known when it starts, the last one first.       *)
(***************************************************************************)
CleaningGroup == groups[Head(cleanup.queue)]

NextGroup(result) ==
    LET failed == result \notin {"ALREADY_EXITED", "TERMINATED_GRACEFULLY", "TERMINATED_FORCIBLY"}
    IN cleanup' = [state |-> "inspect", queue |-> Tail(cleanup.queue),
                   failures |-> IF failed THEN 1 ELSE cleanup.failures]

RememberMembers ==
    groups' = [groups EXCEPT ![Head(cleanup.queue)] = Remember(@, Members(@))]

Cleaning(state) == cleanup.state = state /\ cleanup.queue /= <<>> /\ main /= "over"

(* terminateOwnedProcessGroup, up to its first signal.                     *)
Terminate ==
    /\ Cleaning("inspect")
    /\ LET seen == inspectOwnedProcessGroup(CleaningGroup) IN
       IF seen = "VERIFIED_ACTIVE"
       THEN /\ RememberMembers
            /\ Signal(CleaningGroup, FALSE)
            /\ cleanup' = [cleanup EXCEPT !.state = "terminated"]
       ELSE NextGroup(seen) /\ UNCHANGED <<os, groups, struck>>
    /\ UNCHANGED <<births, main, attempt, directory, handling, printed, signals>>

(* Three seconds after SIGTERM, or as soon as something has changed.       *)
AwaitTermination ==
    /\ Cleaning("terminated")
    /\ LET seen == inspectOwnedProcessGroup(CleaningGroup) IN
       IF seen = "VERIFIED_ACTIVE"
       THEN /\ RememberMembers
            /\ Signal(CleaningGroup, TRUE)
            /\ cleanup' = [cleanup EXCEPT !.state = "killed"]
       ELSE /\ NextGroup(IF seen = "ALREADY_EXITED" THEN "TERMINATED_GRACEFULLY" ELSE seen)
            /\ UNCHANGED <<os, groups, struck>>
    /\ UNCHANGED <<births, main, attempt, directory, handling, printed, signals>>

(* Two seconds after SIGKILL.                                              *)
AwaitKill ==
    /\ Cleaning("killed")
    /\ LET seen == inspectOwnedProcessGroup(CleaningGroup) IN
       NextGroup(CASE seen = "ALREADY_EXITED" -> "TERMINATED_FORCIBLY"
                   [] seen = "VERIFIED_ACTIVE" -> "AMBIGUOUS_PROCESS_GROUP"
                   [] OTHER -> seen)
    /\ UNCHANGED <<os, births, main, attempt, groups, directory, handling, printed, signals, struck>>

(* The directory goes only when every group is resolved; if it is not what *)
(* it was any more, it stays.                                              *)
removePrivateRunDirectory ==
    /\ cleanup.state = "inspect" /\ cleanup.queue = <<>> /\ main /= "over"
    /\ \E contained \in BOOLEAN :
         IF cleanup.failures = 0 /\ contained
         THEN directory' = "removed" /\ cleanup' = [cleanup EXCEPT !.state = "clean"]
         ELSE directory' = directory /\ cleanup' = [cleanup EXCEPT !.state = "unresolved"]
    /\ UNCHANGED <<os, births, main, attempt, groups, handling, printed, signals, struck>>

-----------------------------------------------------------------------------
(***************************************************************************)
(* The lifecycle handlers: the first event starts or joins the cleanup;    *)
(* when it has settled the launcher ends itself, whatever main is doing.   *)
(***************************************************************************)
HandlersInstalled == main \in {"wait", "health", "ready", "suite", "finally"}

ReceiveSignal ==
    /\ HandlersInstalled /\ ~ Busy
    /\ signals < MaxSignals
    /\ signals' = signals + 1
    /\ IF handling THEN UNCHANGED <<handling, cleanup>>
       ELSE handling' = TRUE /\ cleanup' = StartCleanup
    /\ UNCHANGED <<os, births, main, attempt, groups, directory, printed, struck>>

dispatch ==
    /\ handling
    /\ HandlersInstalled
    /\ cleanup.state \in {"clean", "unresolved"}
    /\ main' = "over"
    /\ printed' = "signalled"
    /\ UNCHANGED <<os, births, attempt, groups, directory, cleanup, handling, signals, struck>>

-----------------------------------------------------------------------------
(***************************************************************************)
(* The operating system.                                                   *)
(***************************************************************************)
(* The frontend forks a worker, which may run under another command line,  *)
(* and one of its processes starts to listen.                              *)
Fork(parent) ==
    /\ Alive(parent) /\ ~ os[parent].dying
    /\ os[parent].owner \in Ours
    /\ os[parent].group = parent
    /\ births < MaxBirths
    /\ \E pid \in Free, entry \in BOOLEAN, stubborn \in BOOLEAN :
           os' = [os EXCEPT ![pid] = Newborn(os[parent].owner, parent, entry, FALSE, stubborn)]
    /\ births' = births + 1
    /\ UNCHANGED <<main, attempt, groups, directory, cleanup, handling, printed, signals, struck>>

Listen(pid) ==
    /\ Alive(pid) /\ ~ os[pid].dying
    /\ os[pid].owner \in {"FRONTEND", "foreign"}
    /\ Listeners = {}
    /\ os' = [os EXCEPT ![pid].listens = TRUE]
    /\ UNCHANGED <<births, main, attempt, groups, directory, cleanup, handling, printed, signals, struck>>

Exit(pid) ==
    /\ Alive(pid)
    /\ os' = [os EXCEPT ![pid] = NoProcess]
    /\ UNCHANGED <<births, main, attempt, groups, directory, cleanup, handling, printed, signals, struck>>

(* Somebody starts a process of his own, maybe the same frontend by hand.  *)
Stranger ==
    /\ births < MaxBirths
    /\ \E pid \in Free, entry \in BOOLEAN :
           os' = [os EXCEPT ![pid] = Newborn("foreign", pid, entry, FALSE, FALSE)]
    /\ births' = births + 1
    /\ UNCHANGED <<main, attempt, groups, directory, cleanup, handling, printed, signals, struck>>

-----------------------------------------------------------------------------
LauncherInit ==
    /\ os = [pid \in Pids |-> NoProcess]
    /\ births = 0
    /\ main = "start"
    /\ attempt = 0
    /\ groups = <<>>
    /\ directory = "none"
    /\ cleanup = NoCleanup
    /\ handling = FALSE
    /\ printed = "nothing"
    /\ signals = 0
    /\ struck = {}

MainStep ==
    \/ SpawnPlaywright \/ PlaywrightNotStarted
    \/ /\ ~ Busy
       /\ \/ assertPortAvailable \/ SpawnFrontend \/ FrontendNotCaptured \/ waitForOwnedFrontend
          \/ AnswerHealth \/ FrontendFailed \/ SuiteExits \/ SuiteTimesOut \/ MainReturns

CleanupStep == Terminate \/ AwaitTermination \/ AwaitKill \/ removePrivateRunDirectory

OperatingSystem ==
    /\ ~ Busy /\ main /= "over"
    /\ \/ \E pid \in Pids : Fork(pid) \/ Listen(pid) \/ Exit(pid)
       \/ Stranger

LauncherNext == MainStep \/ CleanupStep \/ ReceiveSignal \/ dispatch \/ OperatingSystem

LauncherFairness == WF_launcherVars(MainStep) /\ WF_launcherVars(CleanupStep) /\ WF_launcherVars(dispatch)

LauncherSpec == LauncherInit /\ [][LauncherNext]_launcherVars /\ LauncherFairness

-----------------------------------------------------------------------------
(* No signal of the launcher hits a process it did not start, although the *)
(* identifiers it signals may meanwhile belong to somebody else, who may   *)
(* even run the same frontend.                                             *)
OnlyOwnProcessesStruck == "foreign" \notin struck

(* The private directory is removed only when every process the launcher   *)
(* started has gone.                                                       *)
DirectoryOutlivesProcesses ==
    directory = "removed" => \A pid \in Pids : os[pid].owner \notin Ours

(* Once it has started a frontend the launcher ends, whatever its          *)
(* processes do and whenever a signal arrives: no wait and no cleanup goes *)
(* on for ever.                                                            *)
LauncherEnds == main = "wait" ~> main = "over"
=============================================================================
