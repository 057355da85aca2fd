------------------------------- MODULE MCTools -------------------------------
(***************************************************************************)
(* Four parts that share no state, one to a behaviour: the vault's         *)
(* checkpoint search, the browser launcher, the registered benchmark on    *)
(* its harness and the live closure of two rounds.                         *)
(***************************************************************************)
EXTENDS CheckpointSearch, BrowserLauncher, BenchmarkPlan, LiveClosure

VARIABLE part               \* the part of this behaviour

toolsVars == <<part, searchVars, launcherVars, benchmarkVars, closureVars>>

\* Where another part runs, one search that is never begun.
SearchRests == observations = <<>> /\ timestamp = 0 /\ ~strict

ToolsInit ==
  /\ part \in {"search", "launcher", "benchmark", "closure"}
  /\ SearchInit /\ LauncherInit /\ BenchmarkInit /\ ClosureInit
  /\ part # "search" => SearchRests

ToolsNext ==
  /\ part' = part
  /\ \/ part = "search" /\ SearchNext /\ UNCHANGED <<launcherVars, benchmarkVars, closureVars>>
     \/ part = "launcher" /\ LauncherNext /\ UNCHANGED <<searchVars, benchmarkVars, closureVars>>
     \/ part = "benchmark" /\ BenchmarkNext /\ UNCHANGED <<searchVars, launcherVars, closureVars>>
     \/ part = "closure" /\ ClosureNext /\ UNCHANGED <<searchVars, launcherVars, benchmarkVars>>

\* What each part's own specification assumes, where that part runs.
ToolsFairness ==
  /\ WF_launcherVars(part = "launcher" /\ MainStep)
  /\ WF_launcherVars(part = "launcher" /\ CleanupStep)
  /\ WF_launcherVars(part = "launcher" /\ dispatch)

ToolsSpec == ToolsInit /\ [][ToolsNext]_toolsVars /\ ToolsFairness
=============================================================================
