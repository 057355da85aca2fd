----------------------------- MODULE ToolProofs -----------------------------
(***************************************************************************)
(* Proofs about the parts that run by themselves: the checkpoint search is *)
(* correct for every ordered history, of any length, and every time asked  *)
(* for; the browser launcher signals no process it did not start, for any  *)
(* number of processes, identifiers and signals; a deployment publishes    *)
(* one suite and a release is sound, for any number of vaults, runs, tests *)
(* and changes of the commit; and the evidence of a live closure is true,  *)
(* for any number of candidates and steps of strangers.                    *)
(***************************************************************************)
EXTENDS CheckpointSearch, BrowserLauncher, Deployment, LiveClosure, FiniteSetTheorems, TLAPS

-----------------------------------------------------------------------------
(* The checkpoint search. *)

\* What the loop of _cumulativeAt and _preferenceAt maintains: the checkpoint
\* at low counts, the one at high, if there is one, does not.
LoopInv ==
  /\ low \in Int /\ high \in Int
  /\ 0 <= low /\ low < high /\ high <= Len(observations)
  /\ Counts(low)
  /\ high < Len(observations) => ~Counts(high)

\* The invariant of the search.
SearchInv ==
  /\ observations \in Seq(Nat) /\ Ordered(observations)
  /\ timestamp \in Nat
  /\ strict \in BOOLEAN
  /\ found \in BOOLEAN
  /\ pc \in {"check", "loop", "done"}
  /\ pc = "check" => ~found
  /\ pc = "loop" => LoopInv /\ ~found
  /\ SearchCorrect

\* The initial histories are ordered sequences of times.
LEMMA InitialHistories ==
  ASSUME NEW obs \in Histories
  PROVE  obs \in Seq(Nat) /\ Ordered(obs)
  <1>1. PICK n \in 0..MAX_OBSERVATIONS : obs \in [1..n -> Timestamps] /\ Ordered(obs)
    BY DEF Histories
  <1>2. n \in Nat
    BY SearchConfiguration
  <1>3. obs \in [1..n -> Nat]
    BY <1>1, SearchConfiguration
  <1>4. obs \in Seq(Nat)
    BY <1>2, <1>3
  <1> QED
    BY <1>1, <1>4

\* The comparison of the code is the intended one.
LEMMA BeforeIsCounts ==
  ASSUME SearchInv, NEW i \in 0..(Len(observations) - 1)
  PROVE  Before(i) <=> Counts(i)
  <1>1. observations[i + 1] \in Nat
    BY DEF SearchInv
  <1> QED
    BY <1>1 DEF Before, Counts, SearchInv

\* Checkpoints that count come before those that do not.
LEMMA CountsDownward ==
  ASSUME SearchInv, NEW i \in 0..(Len(observations) - 1), NEW j \in 0..(Len(observations) - 1),
         i <= j, Counts(j)
  PROVE  Counts(i)
  <1>1. observations[i + 1] \in Nat /\ observations[j + 1] \in Nat
    BY DEF SearchInv
  <1>2. observations[i + 1] <= observations[j + 1]
    <2>1. CASE i = j
      BY <2>1, <1>1
    <2>2. CASE i < j
      <3>1. i + 1 \in 1..Len(observations) /\ j + 1 \in 1..Len(observations) /\ i + 1 < j + 1
        BY <2>2 DEF SearchInv
      <3> QED
        BY <3>1, <1>1 DEF SearchInv, Ordered
    <2> QED
      BY <2>1, <2>2
  <1> QED
    BY <1>1, <1>2 DEF Counts, SearchInv

\* The middle of an interval of two or more lies strictly inside it.
LEMMA MiddleInside ==
  ASSUME NEW l \in Int, NEW h \in Int, l + 1 < h
  PROVE  /\ l + (h - l) \div 2 \in Int
         /\ l < l + (h - l) \div 2
         /\ l + (h - l) \div 2 < h
  OBVIOUS

\* One iteration keeps the loop's invariant and shrinks the interval.
LEMMA HalveKeeps ==
  ASSUME SearchInv, Halve
  PROVE  /\ LoopInv' /\ high' - low' < high - low
  <1>1. LoopInv
    BY DEF SearchInv, Halve
  <1> DEFINE m == Middle
  <1>2. m \in Int /\ low < m /\ m < high
    BY <1>1, MiddleInside DEF Halve, LoopInv, Middle
  <1>3. m \in 0..(Len(observations) - 1)
    BY <1>1, <1>2 DEF LoopInv, SearchInv
  <1>4. Before(m) <=> Counts(m)
    BY <1>3, BeforeIsCounts
  <1>5. observations' = observations /\ timestamp' = timestamp /\ strict' = strict
    BY DEF Halve
  <1>6. CASE Before(m)
    <2>1. low' = m /\ high' = high
      BY <1>6 DEF Halve
    <2>2. Counts(m)
      BY <1>4, <1>6
    <2> QED
      BY <1>1, <1>2, <1>5, <2>1, <2>2 DEF LoopInv, Counts
  <1>7. CASE ~Before(m)
    <2>1. low' = low /\ high' = m
      BY <1>7 DEF Halve
    <2>2. ~Counts(m)
      BY <1>4, <1>7
    <2> QED
      BY <1>1, <1>2, <1>5, <2>1, <2>2 DEF LoopInv, Counts
  <1> QED
    BY <1>6, <1>7

\* When the interval is one checkpoint, that is the answer.
LEMMA ExitAnswers ==
  ASSUME SearchInv, ExitLoop
  PROVE  SearchCorrect'
  <1>1. LoopInv /\ low + 1 >= high
    BY DEF SearchInv, ExitLoop
  <1>2. high = low + 1 /\ low \in 0..(Len(observations) - 1)
    BY <1>1 DEF LoopInv, SearchInv
  <1>3. ASSUME NEW i \in 0..(Len(observations) - 1), i > low
        PROVE  ~Counts(i)
    <2>1. high < Len(observations) /\ high \in 0..(Len(observations) - 1) /\ high <= i
      BY <1>2, <1>3 DEF SearchInv
    <2>2. ~Counts(high)
      BY <1>1, <2>1 DEF LoopInv
    <2> QED
      BY <2>1, <2>2, CountsDownward
  <1>4. Counts(low)
    BY <1>1 DEF LoopInv
  <1>5. /\ observations' = observations /\ timestamp' = timestamp /\ strict' = strict
        /\ low' = low /\ found' = TRUE
    BY DEF ExitLoop
  <1> QED
    BY <1>2, <1>3, <1>4, <1>5 DEF SearchCorrect, Counts

\* The early return is right: nothing counts if the first checkpoint does not.
LEMMA NothingCounts ==
  ASSUME SearchInv, ReturnNothing
  PROVE  SearchCorrect'
  <1>1. ~found /\ observations \in Seq(Nat)
    BY DEF SearchInv, ReturnNothing
  <1>2. ASSUME NEW i \in 0..(Len(observations) - 1)
        PROVE  ~Counts(i)
    <2>1. 0 \in 0..(Len(observations) - 1) /\ 0 <= i
      BY <1>1
    <2>2. ~Before(0)
      BY <2>1, <1>1 DEF ReturnNothing
    <2>3. ~Counts(0)
      BY <2>1, <2>2, BeforeIsCounts
    <2> QED
      BY <2>1, <2>3, CountsDownward
  <1>3. /\ observations' = observations /\ timestamp' = timestamp /\ strict' = strict
        /\ low' = low /\ found' = found
    BY DEF ReturnNothing
  <1> QED
    BY <1>1, <1>2, <1>3 DEF SearchCorrect, Counts

\* Entering the loop establishes its invariant.
LEMMA EnterEstablishes ==
  ASSUME SearchInv, EnterLoop
  PROVE  LoopInv'
  <1>1. Len(observations) \in Nat /\ Len(observations) # 0
    BY DEF SearchInv, EnterLoop
  <1>2. 0 \in 0..(Len(observations) - 1)
    BY <1>1
  <1>3. Counts(0)
    BY <1>2, BeforeIsCounts DEF EnterLoop
  <1>4. /\ observations' = observations /\ timestamp' = timestamp /\ strict' = strict
        /\ low' = 0 /\ high' = Len(observations)
    BY DEF EnterLoop
  <1> QED
    BY <1>1, <1>3, <1>4 DEF LoopInv, Counts

\* The invariant holds in every state of the search.
THEOREM SearchInvariant == SearchSpec => []SearchInv
  <1>1. SearchInit => SearchInv
    BY InitialHistories, SearchConfiguration DEF SearchInit, SearchInv, SearchCorrect
  <1>2. SearchInv /\ [SearchNext]_searchVars => SearchInv'
    <2> SUFFICES ASSUME SearchInv, [SearchNext]_searchVars PROVE SearchInv'
      OBVIOUS
    <2>1. CASE ReturnNothing
      <3>1. SearchCorrect'
        BY <2>1, NothingCounts
      <3> QED
        BY <2>1, <3>1 DEF ReturnNothing, SearchInv
    <2>2. CASE EnterLoop
      <3>1. LoopInv'
        BY <2>2, EnterEstablishes
      <3> QED
        BY <2>2, <3>1 DEF EnterLoop, SearchInv, SearchCorrect
    <2>3. CASE Halve
      <3>1. LoopInv'
        BY <2>3, HalveKeeps
      <3> QED
        BY <2>3, <3>1 DEF Halve, SearchInv, SearchCorrect
    <2>4. CASE ExitLoop
      <3>1. SearchCorrect'
        BY <2>4, ExitAnswers
      <3> QED
        BY <2>4, <3>1 DEF ExitLoop, SearchInv
    <2>5. CASE UNCHANGED searchVars
      BY <2>5 DEF searchVars, SearchInv, LoopInv, SearchCorrect, Counts
    <2> QED
      BY <2>1, <2>2, <2>3, <2>4, <2>5 DEF SearchNext
  <1> QED
    BY <1>1, <1>2, PTL DEF SearchSpec

\* _cumulativeAt and _preferenceAt find the last checkpoint that counts, in
\* every ordered history and for every time.
THEOREM SearchIsCorrect == SearchSpec => []SearchCorrect
  <1>1. SearchInv => SearchCorrect
    BY DEF SearchInv
  <1> QED
    BY <1>1, SearchInvariant, PTL

\* The loop's interval shrinks at every iteration inside the array.
THEOREM SearchShrinks == SearchSpec => IntervalShrinks
  <1> DEFINE Shrinks == pc = "loop" /\ pc' = "loop" =>
                          /\ high' - low' < high - low
                          /\ 0 <= low' /\ low' < high' /\ high' <= Len(observations)
  <1>1. SearchInv /\ [SearchNext]_searchVars => [Shrinks]_searchVars
    <2> SUFFICES ASSUME SearchInv, SearchNext, pc = "loop", pc' = "loop"
                 PROVE  /\ high' - low' < high - low
                        /\ 0 <= low' /\ low' < high' /\ high' <= Len(observations)
      OBVIOUS
    <2>1. Halve
      BY DEF SearchNext, ReturnNothing, EnterLoop, ExitLoop
    <2>2. observations' = observations
      BY <2>1 DEF Halve
    <2> QED
      BY <2>1, <2>2, HalveKeeps DEF LoopInv
  <1> QED
    BY <1>1, SearchInvariant, PTL DEF SearchSpec, IntervalShrinks
-----------------------------------------------------------------------------
(* The browser launcher. *)

Process == [start : Nat, group : Pids \cup {0}, owner : Ours \cup {"none", "foreign"},
            entry : BOOLEAN, listens : BOOLEAN, stubborn : BOOLEAN, dying : BOOLEAN]

Known == [pid : Pids, start : Nat]

Group == [kind : Ours, leader : Known, verified : SUBSET Known]

\* Start times are given out once, and a process of somebody else leads its own group:
\* an identifier that still names a group is given to nobody.
ProcessesInv ==
  /\ births \in Nat
  /\ os \in [Pids -> Process]
  /\ \A pid \in Pids : os[pid].start <= births
  /\ \A pid \in Pids : os[pid].owner = "foreign" => os[pid].group = pid

\* A group is known by its leader, which is not somebody else's process.
OwnGroup(group) ==
  /\ group.leader \in group.verified
  /\ group.leader.start \in 1..births
  /\ LeaderAlive(group) => os[group.leader.pid].owner # "foreign"

GroupsInv ==
  /\ groups \in Seq(Group)
  /\ \A i \in DOMAIN groups : OwnGroup(groups[i])

\* A cleanup of some of the groups.
CleanupOf(c, indices) ==
  DOMAIN c = {"state", "queue", "failures"} /\ c.queue \in Seq(indices)

\* The cleanup works on groups there are, and there is none before the frontend.
CleanupInv ==
  /\ CleanupOf(cleanup, DOMAIN groups)
  /\ main \in {"start", "spawn"} => groups = <<>>

LauncherInv ==
  /\ ProcessesInv
  /\ GroupsInv
  /\ CleanupInv
  /\ OnlyOwnProcessesStruck

\* A group that is found to be one's own and active has nobody else's process in it: such
\* a process would have the leader's identifier, and its start time would give it away.
LEMMA ActiveIsOwn ==
  ASSUME ProcessesInv, NEW group \in Group, OwnGroup(group),
         inspectOwnedProcessGroup(group) = "VERIFIED_ACTIVE", NEW pid \in Members(group)
  PROVE  os[pid].owner # "foreign"
<1> SUFFICES ASSUME os[pid].owner = "foreign" PROVE FALSE
  OBVIOUS
<1>1. pid \in Pids /\ Alive(pid) /\ os[pid].group = group.leader.pid
  BY DEF Members
<1>2. pid = group.leader.pid
  BY <1>1 DEF ProcessesInv
<1>3. ~Reused(group.leader)
  BY DEF inspectOwnedProcessGroup, OwnGroup
<1>4. os[pid].start = group.leader.start
  BY <1>1, <1>2, <1>3 DEF Reused
<1>5. Identity(group.leader.pid) = group.leader
  <2>1. group.leader \in Known
    BY DEF Group
  <2>2. group.leader = [pid |-> group.leader.pid, start |-> group.leader.start]
    BY <2>1 DEF Known
  <2> QED BY <1>2, <1>4, <2>2 DEF Identity
<1> QED BY <1>2, <1>5 DEF OwnGroup, LeaderAlive

\* A signal of the cleanup changes no identity.
LEMMA SignalIs ==
  ASSUME ProcessesInv, NEW group, NEW forcibly, Signal(group, forcibly)
  PROVE  /\ os' \in [Pids -> Process]
         /\ \A pid \in Pids : /\ os'[pid].start = os[pid].start
                              /\ os'[pid].owner = os[pid].owner
                              /\ os'[pid].group = os[pid].group
<1>1. \A pid \in Pids : os[pid] \in Process
  BY DEF ProcessesInv
<1>2. os' = [pid \in Pids |-> IF pid \in Members(group) /\ (forcibly \/ ~ os[pid].stubborn)
                             THEN [os[pid] EXCEPT !.dying = TRUE] ELSE os[pid]]
  BY DEF Signal
<1>3. ASSUME NEW pid \in Pids
      PROVE  /\ os'[pid] \in Process /\ os'[pid].start = os[pid].start
             /\ os'[pid].owner = os[pid].owner /\ os'[pid].group = os[pid].group
  <2>1. os'[pid] = os[pid] \/ os'[pid] = [os[pid] EXCEPT !.dying = TRUE]
    BY <1>2
  <2> QED BY <1>1, <2>1 DEF Process
<1> QED BY <1>2, <1>3

\* What the launcher learns about the members of a group adds to what it knew.
LEMMA RememberIs ==
  ASSUME ProcessesInv, NEW group \in Group, NEW pids \in SUBSET Pids
  PROVE  /\ Remember(group, pids) \in Group
         /\ Remember(group, pids).leader = group.leader
         /\ group.verified \subseteq Remember(group, pids).verified
<1>1. \A pid \in pids : Identity(pid) \in Known
  BY DEF ProcessesInv, Identity, Known, Process
<1> QED BY <1>1 DEF Remember, Group

\* Steps that change no identity and forget no group, whatever is remembered.
LEMMA SameProcesses ==
  ASSUME LauncherInv, UNCHANGED births, os' \in [Pids -> Process],
         \A pid \in Pids : /\ os'[pid].start = os[pid].start
                           /\ os'[pid].owner = os[pid].owner
                           /\ os'[pid].group = os[pid].group,
         \/ UNCHANGED groups
         \/ \E i \in DOMAIN groups, pids \in SUBSET Pids :
              groups' = [groups EXCEPT ![i] = Remember(@, pids)]
  PROVE  ProcessesInv' /\ GroupsInv' /\ DOMAIN groups' = DOMAIN groups
<1>1. ProcessesInv'
  BY DEF LauncherInv, ProcessesInv
<1>2. ASSUME NEW g \in Group, NEW h \in Group, OwnGroup(g), h.leader = g.leader,
             g.verified \subseteq h.verified
      PROVE  OwnGroup(h)'
  <2>1. h.leader.pid \in Pids
    BY DEF Group, Known
  <2>2. Identity(h.leader.pid)' = Identity(g.leader.pid)
    BY <1>2, <2>1 DEF Identity
  <2> QED BY <1>2, <2>1, <2>2 DEF OwnGroup, LeaderAlive
<1>3. groups \in Seq(Group) /\ \A i \in DOMAIN groups : groups[i] \in Group /\ OwnGroup(groups[i])
  BY DEF LauncherInv, GroupsInv
<1>4. CASE UNCHANGED groups
  BY <1>1, <1>2, <1>3, <1>4 DEF GroupsInv
<1>5. ASSUME NEW i \in DOMAIN groups, NEW pids \in SUBSET Pids,
             groups' = [groups EXCEPT ![i] = Remember(@, pids)]
      PROVE  GroupsInv' /\ DOMAIN groups' = DOMAIN groups
  <2>1. PICK h \in Group : /\ h = Remember(groups[i], pids) /\ h.leader = groups[i].leader
                           /\ groups[i].verified \subseteq h.verified
    BY <1>3, RememberIs DEF LauncherInv
  <2>2. groups' = [groups EXCEPT ![i] = h]
    BY <1>5, <2>1
  <2>3. groups' \in Seq(Group) /\ DOMAIN groups' = DOMAIN groups
    BY <1>3, <2>1, <2>2
  <2>4. OwnGroup(h)'
    <3>1. PICK g \in Group : g = groups[i]
      BY <1>3
    <3>2. OwnGroup(g)
      BY <1>3, <3>1
    <3> QED BY <1>2, <2>1, <3>1, <3>2
  <2>5. ASSUME NEW j \in DOMAIN groups' PROVE OwnGroup(groups[j])'
    <3>1. CASE j = i
      <4>1. groups'[j] = h
        BY <1>3, <2>2, <3>1
      <4> QED BY <2>4, <4>1 DEF OwnGroup, LeaderAlive, Identity
    <3>2. CASE j # i
      <4>1. groups'[j] = groups[j] /\ j \in DOMAIN groups
        BY <1>3, <2>2, <2>3, <3>2
      <4>2. groups[j] \in Group /\ OwnGroup(groups[j])
        BY <1>3, <4>1
      <4> QED BY <1>2, <4>1, <4>2 DEF OwnGroup, LeaderAlive, Identity
    <3> QED BY <3>1, <3>2
  <2> QED BY <2>3, <2>5 DEF GroupsInv
<1> QED BY <1>1, <1>4, <1>5
\* A process that starts, in a group of the launcher's or not: its start time is new, so
\* that it is the leader of no group that was known before.
LEMMA NewProcess ==
  ASSUME LauncherInv, NEW pid \in Pids, NEW owner \in Ours \cup {"foreign"},
         NEW group \in Pids, owner = "foreign" => group = pid,
         NEW entry \in BOOLEAN, NEW stubborn \in BOOLEAN,
         os' = [os EXCEPT ![pid] = Newborn(owner, group, entry, FALSE, stubborn)],
         births' = births + 1
  PROVE  /\ ProcessesInv'
         /\ \A g \in Group : OwnGroup(g) => OwnGroup(g)'
         /\ os'[pid].start = births + 1 /\ os'[pid].owner = owner
<1> DEFINE new == Newborn(owner, group, entry, FALSE, stubborn)
<1>1. births \in Nat /\ births' \in Nat /\ os \in [Pids -> Process]
  BY DEF LauncherInv, ProcessesInv
<1>2. /\ new \in Process /\ new.start = births + 1 /\ new.owner = owner /\ new.group = group
  BY <1>1 DEF Newborn, Process
<1>3. os' = [os EXCEPT ![pid] = new]
  OBVIOUS
<1> HIDE DEF new
<1>4. os' \in [Pids -> Process] /\ os'[pid] = new /\ \A q \in Pids \ {pid} : os'[q] = os[q]
  BY <1>1, <1>2, <1>3
<1>5. ProcessesInv'
  <2>1. ASSUME NEW q \in Pids PROVE os'[q].start <= births'
    <3>1. os[q].start \in Nat /\ os[q].start <= births
      BY <1>1 DEF LauncherInv, ProcessesInv, Process
    <3>2. PICK t : t = os'[q].start
      OBVIOUS
    <3>3. t = births + 1 \/ t = os[q].start
      <4>1. q = pid => os'[q].start = births + 1
        BY <1>2, <1>4
      <4>2. q # pid => os'[q].start = os[q].start
        BY <1>4
      <4> QED BY <3>2, <4>1, <4>2
    <3>4. births' = births + 1
      OBVIOUS
    <3>5. t <= births'
      BY ONLY <1>1, <3>1, <3>3, <3>4
    <3> QED BY <3>2, <3>5
  <2>2. ASSUME NEW q \in Pids, os'[q].owner = "foreign" PROVE os'[q].group = q
    BY <1>2, <1>4, <2>2 DEF LauncherInv, ProcessesInv
  <2> QED BY <1>1, <1>4, <2>1, <2>2 DEF ProcessesInv
<1>6. ASSUME NEW g \in Group, OwnGroup(g) PROVE OwnGroup(g)'
  <2>1. g.leader.pid \in Pids /\ g.leader \in g.verified /\ g.leader.start \in 1..births
    BY <1>6 DEF Group, Known, OwnGroup
  <2>2. g.leader.start \in 1..births' /\ g.leader.start # births + 1
    BY <1>1, <2>1
  <2>3. CASE g.leader.pid = pid
    <3>1. Identity(g.leader.pid)'.start = births + 1
      BY <1>2, <1>4, <2>3 DEF Identity
    <3>2. ~LeaderAlive(g)'
      BY <2>2, <3>1 DEF LeaderAlive
    <3> QED BY <2>1, <2>2, <3>2 DEF OwnGroup
  <2>4. CASE g.leader.pid # pid
    <3>1. os'[g.leader.pid] = os[g.leader.pid]
      BY <1>4, <2>1, <2>4
    <3> QED BY <1>6, <2>1, <2>2, <3>1 DEF OwnGroup, LeaderAlive, Identity
  <2> QED BY <2>3, <2>4
<1> QED BY <1>2, <1>4, <1>5, <1>6

\* A group of the launcher's starts: its leader is known from the start.
LEMMA NewGroup ==
  ASSUME LauncherInv, NEW pid \in Pids, NEW kind \in Ours, NEW stubborn \in BOOLEAN,
         os' = [os EXCEPT ![pid] = Newborn(kind, pid, TRUE, FALSE, stubborn)],
         groups' = Append(groups, captureOwnedProcessGroup(pid, kind, births + 1)),
         births' = births + 1
  PROVE  ProcessesInv' /\ GroupsInv' /\ DOMAIN groups \subseteq DOMAIN groups'
<1>1. /\ ProcessesInv'
      /\ \A g \in Group : OwnGroup(g) => OwnGroup(g)'
      /\ os'[pid].start = births + 1 /\ os'[pid].owner = kind
  BY NewProcess DEF Ours
<1>2. births \in Nat
  BY DEF LauncherInv, ProcessesInv
<1>3. PICK new \in Group : /\ new = captureOwnedProcessGroup(pid, kind, births + 1)
                           /\ new.leader = [pid |-> pid, start |-> births + 1]
                           /\ new.leader \in new.verified
  BY <1>2 DEF captureOwnedProcessGroup, Group, Known
<1>4. OwnGroup(new)'
  <2>1. new.leader.start \in 1..births' /\ new.leader.pid = pid
    BY <1>2, <1>3
  <2>2. kind # "foreign"
    BY DEF Ours
  <2> QED BY <1>1, <1>3, <2>1, <2>2 DEF OwnGroup
<1>5. groups \in Seq(Group) /\ groups' = Append(groups, new)
  BY <1>3 DEF LauncherInv, GroupsInv
<1>6. /\ groups' \in Seq(Group) /\ DOMAIN groups \subseteq DOMAIN groups'
      /\ \A i \in DOMAIN groups' : \/ i \in DOMAIN groups /\ groups'[i] = groups[i]
                                   \/ groups'[i] = new
  BY <1>5
<1>7. ASSUME NEW i \in DOMAIN groups' PROVE OwnGroup(groups[i])'
  <2>1. CASE groups'[i] = new
    BY <1>4, <2>1 DEF OwnGroup, LeaderAlive, Identity
  <2>2. CASE i \in DOMAIN groups /\ groups'[i] = groups[i]
    <3>1. PICK g \in Group : g = groups[i]
      BY <1>5, <2>2
    <3>2. OwnGroup(g)
      BY <2>2, <3>1 DEF LauncherInv, GroupsInv
    <3>3. OwnGroup(g)'
      BY <1>1, <3>2
    <3> QED BY <2>2, <3>1, <3>3 DEF OwnGroup, LeaderAlive, Identity
  <2> QED BY <1>6, <2>1, <2>2
<1> QED BY <1>1, <1>6, <1>7 DEF GroupsInv

\* The cleanup starts with the groups there are, or goes on.
LEMMA StartIs ==
  ASSUME LauncherInv
  PROVE  CleanupOf(StartCleanup, DOMAIN groups)
<1>1. groups \in Seq(Group) /\ CleanupOf(cleanup, DOMAIN groups)
  BY DEF LauncherInv, GroupsInv, CleanupInv
<1>2. SnapshotReversed \in Seq(DOMAIN groups)
  <2> DEFINE s == [i \in DOMAIN groups |-> i]
  <2>1. DOMAIN groups = 1..Len(groups) /\ Len(groups) \in Nat
    BY <1>1
  <2>2. s \in Seq(DOMAIN groups) /\ Len(s) = Len(groups) /\ \A i \in 1..Len(groups) : s[i] = i
    BY <2>1
  <2>3. SnapshotReversed = [i \in 1..Len(s) |-> s[(Len(s) - i) + 1]]
    BY DEF SnapshotReversed, Reverse
  <2> HIDE DEF s
  <2>4. \A i \in 1..Len(groups) : s[(Len(s) - i) + 1] \in DOMAIN groups
    BY <2>1, <2>2
  <2> QED BY <2>1, <2>2, <2>3, <2>4
<1> QED BY <1>1, <1>2 DEF StartCleanup, CleanupOf

\* Steps of main, of the handlers and of the cleanup that start no process and end none.
LEMMA QuietSteps ==
  ASSUME LauncherInv, UNCHANGED <<os, births, struck>>,
         \/ UNCHANGED groups
         \/ \E i \in DOMAIN groups, pids \in SUBSET Pids :
              groups' = [groups EXCEPT ![i] = Remember(@, pids)],
         CleanupOf(cleanup', DOMAIN groups),
         main' \in {"start", "spawn"} => main \in {"start", "spawn"} /\ UNCHANGED groups
  PROVE  LauncherInv'
<1>1. ProcessesInv' /\ GroupsInv' /\ DOMAIN groups' = DOMAIN groups
  <2>1. os' \in [Pids -> Process]
    BY DEF LauncherInv, ProcessesInv
  <2> QED BY <2>1, SameProcesses
<1>2. CleanupInv'
  BY <1>1 DEF LauncherInv, CleanupInv
<1>3. OnlyOwnProcessesStruck'
  BY DEF LauncherInv, OnlyOwnProcessesStruck
<1> QED BY <1>1, <1>2, <1>3 DEF LauncherInv
\* The cleanup goes on to its next group.
LEMMA NextGroupIs ==
  ASSUME LauncherInv, cleanup.queue # <<>>, NEW result, NextGroup(result)
  PROVE  CleanupOf(cleanup', DOMAIN groups)
<1>1. cleanup.queue \in Seq(DOMAIN groups)
  BY DEF LauncherInv, CleanupInv, CleanupOf
<1>2. ASSUME NEW S, NEW s \in Seq(S), s # <<>> PROVE Tail(s) \in Seq(S)
  BY <1>2
<1>3. Tail(cleanup.queue) \in Seq(DOMAIN groups)
  BY <1>1, <1>2
<1> QED BY <1>3 DEF NextGroup, CleanupOf

\* main starts nothing new: it looks at the port, at its processes, and ends.
LEMMA MainKeeps ==
  ASSUME LauncherInv,
         \/ assertPortAvailable \/ FrontendNotCaptured \/ waitForOwnedFrontend \/ AnswerHealth
         \/ FrontendFailed \/ PlaywrightNotStarted \/ SuiteExits \/ SuiteTimesOut \/ MainReturns
         \/ ReceiveSignal \/ dispatch
  PROVE  LauncherInv'
<1>1. UNCHANGED <<os, births, struck>>
  BY DEF assertPortAvailable, FrontendNotCaptured, waitForOwnedFrontend, AnswerHealth, FrontendFailed,
         PlaywrightNotStarted, SuiteExits, SuiteTimesOut, MainReturns, ReceiveSignal, dispatch
<1>2. cleanup' = cleanup \/ cleanup' = StartCleanup
  BY DEF assertPortAvailable, FrontendNotCaptured, waitForOwnedFrontend, AnswerHealth, FrontendFailed,
         PlaywrightNotStarted, SuiteExits, SuiteTimesOut, MainReturns, ReceiveSignal, dispatch, Finally
<1>3. CleanupOf(cleanup', DOMAIN groups)
  BY <1>2, StartIs DEF LauncherInv, CleanupInv
<1>4. \/ UNCHANGED groups
      \/ /\ groups' = [groups EXCEPT ![1] = Remember(@, Listeners)]
         /\ main \notin {"start", "spawn"} /\ main' \notin {"start", "spawn"}
  BY DEF assertPortAvailable, FrontendNotCaptured, waitForOwnedFrontend, AnswerHealth, FrontendFailed,
         PlaywrightNotStarted, SuiteExits, SuiteTimesOut, MainReturns, ReceiveSignal, dispatch
<1>5. main' \in {"start", "spawn"} => main \in {"start", "spawn"}
  BY DEF assertPortAvailable, FrontendNotCaptured, waitForOwnedFrontend, AnswerHealth, FrontendFailed,
         PlaywrightNotStarted, SuiteExits, SuiteTimesOut, MainReturns, ReceiveSignal, dispatch, Finally,
         HandlersInstalled
<1>6. Listeners \in SUBSET Pids
  BY DEF Listeners
<1>7. \/ UNCHANGED groups
      \/ \E i \in DOMAIN groups, pids \in SUBSET Pids :
           groups' = [groups EXCEPT ![i] = Remember(@, pids)]
  <2>1. CASE 1 \in DOMAIN groups
    BY <1>4, <1>6, <2>1
  <2>2. CASE 1 \notin DOMAIN groups
    <3>1. groups = <<>>
      BY <2>2 DEF LauncherInv, GroupsInv
    <3>2. [groups EXCEPT ![1] = Remember(@, Listeners)] = groups
      BY <2>2, <3>1
    <3> QED BY <1>4, <3>2
  <2> QED BY <2>1, <2>2
<1> QED BY <1>1, <1>3, <1>4, <1>5, <1>7, QuietSteps

\* A group starts.
LEMMA SpawnKeeps ==
  ASSUME LauncherInv, SpawnFrontend \/ SpawnPlaywright
  PROVE  LauncherInv'
<1>1. PICK pid \in Pids, kind \in Ours, stubborn \in BOOLEAN :
        /\ os' = [os EXCEPT ![pid] = Newborn(kind, pid, TRUE, FALSE, stubborn)]
        /\ groups' = Append(groups, captureOwnedProcessGroup(pid, kind, births + 1))
  <2>1. CASE SpawnPlaywright
    BY <2>1 DEF SpawnPlaywright, Free, Ours
  <2>2. CASE SpawnFrontend
    <3>1. groups = <<>>
      BY <2>2 DEF SpawnFrontend, LauncherInv, CleanupInv
    <3>2. PICK pid \in Free, stubborn \in BOOLEAN :
            /\ os' = [os EXCEPT ![pid] = Newborn("FRONTEND", pid, TRUE, FALSE, stubborn)]
            /\ groups' = <<captureOwnedProcessGroup(pid, "FRONTEND", births + 1)>>
      BY <2>2 DEF SpawnFrontend
    <3>3. groups' = Append(groups, captureOwnedProcessGroup(pid, "FRONTEND", births + 1))
      BY <3>1, <3>2
    <3> QED BY <3>2, <3>3 DEF Free, Ours
  <2> QED BY <2>1, <2>2
<1>2. /\ births' = births + 1 /\ UNCHANGED <<cleanup, struck>>
      /\ main' \notin {"start", "spawn"}
  BY DEF SpawnFrontend, SpawnPlaywright
<1>3. ProcessesInv' /\ GroupsInv' /\ DOMAIN groups \subseteq DOMAIN groups'
  BY <1>1, <1>2, NewGroup
<1>4. CleanupInv'
  <2>1. cleanup.queue \in Seq(DOMAIN groups)
    BY DEF LauncherInv, CleanupInv, CleanupOf
  <2>2. cleanup.queue \in Seq(DOMAIN groups')
    BY <1>3, <2>1
  <2> QED BY <1>2, <2>2 DEF LauncherInv, CleanupInv, CleanupOf
<1>5. OnlyOwnProcessesStruck'
  BY <1>2 DEF LauncherInv, OnlyOwnProcessesStruck
<1> QED BY <1>3, <1>4, <1>5 DEF LauncherInv

\* The cleanup, with its signals: they go to groups that were just found to be one's own.
LEMMA CleanupKeeps ==
  ASSUME LauncherInv, CleanupStep
  PROVE  LauncherInv'
<1>1. CASE removePrivateRunDirectory
  <2>1. UNCHANGED <<os, births, struck, groups, main>> /\ cleanup'.queue = cleanup.queue
        /\ DOMAIN cleanup' = {"state", "queue", "failures"}
    BY <1>1 DEF removePrivateRunDirectory, LauncherInv, CleanupInv, CleanupOf
  <2>2. CleanupOf(cleanup', DOMAIN groups)
    BY <2>1 DEF LauncherInv, CleanupInv, CleanupOf
  <2> QED BY <2>1, <2>2, QuietSteps
<1>2. ASSUME UNCHANGED <<os, births, groups, struck, main>>, cleanup.queue # <<>>,
             NEW result, NextGroup(result)
      PROVE  LauncherInv'
  BY <1>2, NextGroupIs, QuietSteps
<1>3. ASSUME cleanup.queue # <<>>, inspectOwnedProcessGroup(CleaningGroup) = "VERIFIED_ACTIVE",
             RememberMembers, NEW forcibly, Signal(CleaningGroup, forcibly), NEW state,
             cleanup' = [cleanup EXCEPT !.state = state], UNCHANGED <<births, main>>
      PROVE  LauncherInv'
  <2>1. PICK i \in DOMAIN groups : i = Head(cleanup.queue)
    <3>1. cleanup.queue \in Seq(DOMAIN groups)
      BY DEF LauncherInv, CleanupInv, CleanupOf
    <3> QED BY <1>3, <3>1
  <2>2. PICK group \in Group : group = CleaningGroup
    BY <2>1 DEF CleaningGroup, LauncherInv, GroupsInv
  <2>3. OwnGroup(group)
    BY <2>1, <2>2 DEF CleaningGroup, LauncherInv, GroupsInv
  <2>4. \A pid \in Members(group) : os[pid].owner # "foreign"
    BY <1>3, <2>2, <2>3, ActiveIsOwn DEF LauncherInv
  <2>5. OnlyOwnProcessesStruck'
    BY <1>3, <2>2, <2>4 DEF Signal, LauncherInv, OnlyOwnProcessesStruck
  <2>6. groups' = [groups EXCEPT ![i] = Remember(@, Members(group))] /\ Members(group) \in SUBSET Pids
    BY <1>3, <2>1, <2>2 DEF RememberMembers, CleaningGroup, Members
  <2>7. /\ os' \in [Pids -> Process]
        /\ \A pid \in Pids : /\ os'[pid].start = os[pid].start
                             /\ os'[pid].owner = os[pid].owner
                             /\ os'[pid].group = os[pid].group
    BY <1>3, SignalIs DEF LauncherInv
  <2>8. ProcessesInv' /\ GroupsInv' /\ DOMAIN groups' = DOMAIN groups
    BY <1>3, <2>6, <2>7, SameProcesses
  <2>9. CleanupInv'
    <3>1. cleanup'.queue = cleanup.queue /\ DOMAIN cleanup' = {"state", "queue", "failures"}
      BY <1>3 DEF LauncherInv, CleanupInv, CleanupOf
    <3>2. main' \notin {"start", "spawn"}
      BY <1>3, <2>1 DEF LauncherInv, CleanupInv
    <3> QED BY <2>8, <3>1, <3>2 DEF LauncherInv, CleanupInv, CleanupOf
  <2> QED BY <2>5, <2>8, <2>9 DEF LauncherInv
<1>4. CASE Terminate
  BY <1>2, <1>3, <1>4 DEF Terminate, Cleaning
<1>5. CASE AwaitTermination
  BY <1>2, <1>3, <1>5 DEF AwaitTermination, Cleaning
<1>6. CASE AwaitKill
  BY <1>2, <1>6 DEF AwaitKill, Cleaning
<1> QED BY <1>1, <1>4, <1>5, <1>6 DEF CleanupStep

\* The operating system: processes fork, listen and exit, and others start theirs.
LEMMA SystemKeeps ==
  ASSUME LauncherInv, OperatingSystem
  PROVE  LauncherInv'
<1>1. /\ UNCHANGED <<groups, cleanup, struck, main>>
  BY DEF OperatingSystem, Fork, Listen, Exit, Stranger
<1>2. groups \in Seq(Group) /\ \A i \in DOMAIN groups : groups[i] \in Group /\ OwnGroup(groups[i])
  BY DEF LauncherInv, GroupsInv
<1>3. SUFFICES ProcessesInv' /\ \A g \in Group : OwnGroup(g) => OwnGroup(g)'
  <2>1. ASSUME NEW i \in DOMAIN groups, \A g \in Group : OwnGroup(g) => OwnGroup(g)'
        PROVE  OwnGroup(groups[i])'
    <3>1. PICK g \in Group : g = groups[i]
      BY <1>2
    <3>2. OwnGroup(g)'
      BY <1>2, <2>1, <3>1
    <3> QED BY <1>1, <3>1, <3>2 DEF OwnGroup, LeaderAlive, Identity
  <2> QED BY <1>1, <1>2, <1>3, <2>1 DEF LauncherInv, GroupsInv, CleanupInv, OnlyOwnProcessesStruck
<1>4. CASE Stranger
  BY <1>4, NewProcess DEF Stranger, Free
<1>5. ASSUME NEW parent \in Pids, Fork(parent)
      PROVE  ProcessesInv' /\ \A g \in Group : OwnGroup(g) => OwnGroup(g)'
  <2>1. os[parent].owner \in Ours /\ "foreign" \notin Ours
    BY <1>5 DEF Fork, Ours
  <2>2. PICK pid \in Pids, entry \in BOOLEAN, stubborn \in BOOLEAN :
           os' = [os EXCEPT ![pid] = Newborn(os[parent].owner, parent, entry, FALSE, stubborn)]
    BY <1>5 DEF Fork, Free
  <2>3. births' = births + 1
    BY <1>5 DEF Fork
  <2>4. PICK owner \in Ours : owner = os[parent].owner
    BY <2>1
  <2> QED BY <2>1, <2>2, <2>3, <2>4, NewProcess
<1>6. ASSUME NEW pid \in Pids, Listen(pid)
      PROVE  ProcessesInv' /\ \A g \in Group : OwnGroup(g) => OwnGroup(g)'
  <2>1. os \in [Pids -> Process] /\ UNCHANGED births
    BY <1>6 DEF Listen, LauncherInv, ProcessesInv
  <2>2. /\ os' \in [Pids -> Process]
        /\ \A q \in Pids : /\ os'[q].start = os[q].start
                           /\ os'[q].owner = os[q].owner
                           /\ os'[q].group = os[q].group
    BY <1>6, <2>1 DEF Listen, Process
  <2>3. ProcessesInv'
    BY <2>1, <2>2 DEF LauncherInv, ProcessesInv
  <2>4. ASSUME NEW g \in Group, OwnGroup(g) PROVE OwnGroup(g)'
    <3>1. g.leader.pid \in Pids
      BY DEF Group, Known
    <3> QED BY <2>1, <2>2, <2>4, <3>1 DEF OwnGroup, LeaderAlive, Identity
  <2> QED BY <2>3, <2>4
<1>7. ASSUME NEW pid \in Pids, Exit(pid)
      PROVE  ProcessesInv' /\ \A g \in Group : OwnGroup(g) => OwnGroup(g)'
  <2>1. os \in [Pids -> Process] /\ UNCHANGED births /\ births \in Nat
    BY <1>7 DEF Exit, LauncherInv, ProcessesInv
  <2>2. NoProcess \in Process /\ NoProcess.start = 0 /\ NoProcess.owner = "none"
    BY DEF NoProcess, Process
  <2>3. /\ os' \in [Pids -> Process] /\ os'[pid] = NoProcess
        /\ \A q \in Pids \ {pid} : os'[q] = os[q]
    BY <1>7, <2>1, <2>2 DEF Exit
  <2>4. ProcessesInv'
    BY <2>1, <2>2, <2>3 DEF LauncherInv, ProcessesInv
  <2>5. ASSUME NEW g \in Group, OwnGroup(g) PROVE OwnGroup(g)'
    <3>1. g.leader.pid \in Pids
      BY DEF Group, Known
    <3>2. CASE g.leader.pid = pid
      BY <2>1, <2>2, <2>3, <2>5, <3>2 DEF OwnGroup
    <3>3. CASE g.leader.pid # pid
      BY <2>1, <2>3, <2>5, <3>1, <3>3 DEF OwnGroup, LeaderAlive, Identity
    <3> QED BY <3>2, <3>3
  <2> QED BY <2>4, <2>5
<1> QED BY <1>4, <1>5, <1>6, <1>7 DEF OperatingSystem

\* The invariant of the launcher: identifiers may be used again, start times are not, and
\* the leader of each of its groups is remembered with its start time.
THEOREM LauncherInvariant == LauncherSpec => []LauncherInv
<1>1. LauncherInit => LauncherInv
  <2> SUFFICES ASSUME LauncherInit PROVE LauncherInv
    OBVIOUS
  <2>1. NoProcess \in Process /\ NoProcess.start = 0 /\ NoProcess.owner = "none"
    BY DEF NoProcess, Process
  <2>2. ProcessesInv
    BY <2>1 DEF LauncherInit, ProcessesInv
  <2>3. GroupsInv /\ CleanupInv
    BY DEF LauncherInit, GroupsInv, CleanupInv, CleanupOf, NoCleanup
  <2>4. OnlyOwnProcessesStruck
    BY DEF LauncherInit, OnlyOwnProcessesStruck
  <2> QED BY <2>2, <2>3, <2>4 DEF LauncherInv
<1>2. LauncherInv /\ [LauncherNext]_launcherVars => LauncherInv'
  <2> SUFFICES ASSUME LauncherInv, [LauncherNext]_launcherVars PROVE LauncherInv'
    OBVIOUS
  <2>1. CASE UNCHANGED launcherVars
    <3>1. UNCHANGED <<os, births, struck, groups, cleanup, main>>
      BY <2>1 DEF launcherVars
    <3>2. CleanupOf(cleanup', DOMAIN groups)
      BY <3>1 DEF LauncherInv, CleanupInv
    <3> QED BY <3>1, <3>2, QuietSteps
  <2>2. CASE SpawnFrontend \/ SpawnPlaywright
    BY <2>2, SpawnKeeps
  <2>3. CASE \/ assertPortAvailable \/ FrontendNotCaptured \/ waitForOwnedFrontend \/ AnswerHealth
             \/ FrontendFailed \/ PlaywrightNotStarted \/ SuiteExits \/ SuiteTimesOut \/ MainReturns
             \/ ReceiveSignal \/ dispatch
    BY <2>3, MainKeeps
  <2>4. CASE CleanupStep
    BY <2>4, CleanupKeeps
  <2>5. CASE OperatingSystem
    BY <2>5, SystemKeeps
  <2> QED BY <2>1, <2>2, <2>3, <2>4, <2>5 DEF LauncherNext, MainStep
<1> QED BY <1>1, <1>2, PTL DEF LauncherSpec

\* No signal of the launcher hits a process it did not start, although the identifiers it
\* signals may meanwhile belong to somebody else.
THEOREM OnlyOwnAreStruck == LauncherSpec => []OnlyOwnProcessesStruck
<1>1. LauncherInv => OnlyOwnProcessesStruck
  BY DEF LauncherInv
<1> QED BY <1>1, LauncherInvariant, PTL

-----------------------------------------------------------------------------
(* The official deployment. *)

Contract == [kind : {"none", "wrapper", "vault", "registry"}, version : Versions, id : Nat,
             asset : Int, vaults : Seq(Int), active : SUBSET Ids]

\* The addresses that are taken.
Taken == 0 .. nonce - 1

\* Nothing stands at an address whose nonce has not come yet.
ChainInv ==
  /\ nonce \in 0 .. MaxNonce
  /\ live \in [Addresses -> Contract]
  /\ \A a \in Addresses : live[a].kind # "none" => a \in Taken
  /\ artifacts.current \in Versions

IsWrapper(a) == a \in Taken /\ live[a].kind = "wrapper"
IsVault(a, id, asset) ==
  a \in Taken /\ live[a].kind = "vault" /\ live[a].id = id /\ live[a].asset = asset

\* Wrapper, vaults and registry belong together.
Suite(wrapper, vaults, registry) ==
  /\ IsWrapper(wrapper)
  /\ vaults \in Seq(Int) /\ Len(vaults) = OFFICIAL_VAULT_COUNT
  /\ \A i \in Ids : IsVault(vaults[i], i, wrapper)
  /\ registry \in Taken /\ live[registry].kind = "registry" /\ live[registry].vaults = vaults

NotSuperseded(vaults) == \A i \in Ids : vaults[i] \notin OLD_VAULTS

\* The runtimes that are said to have been found at the vaults are there.
RuntimesAre(vaults, runtime) ==
  \A i \in Ids : vaults[i] \in Taken /\ runtime[i] = live[vaults[i]].version

Deployed == {"read", "check", "manifest", "evidence", "p01evidence", "docs", "p01docs"}
Checked == {"manifest", "evidence", "p01evidence", "docs", "p01docs"}
Published == {"evidence", "p01evidence", "docs", "p01docs"}

Run == [pc : {"idle", "load", "known", "reuse", "wrapper", "vaults"} \cup Deployed, mode : Modes,
        version : Versions, wrapper : Int, vaults : Seq(Int), registry : Int,
        checked : Nat, matched : Seq(Versions)]

\* What a run of the script has deployed, or found deployed, so far.
RunDeploys ==
  /\ run.pc \in {"load", "known", "reuse", "wrapper"} => run.vaults = <<>>
  /\ run.pc = "vaults" => /\ IsWrapper(run.wrapper)
                          /\ Len(run.vaults) <= OFFICIAL_VAULT_COUNT
                          /\ \A i \in 1..Len(run.vaults) : IsVault(run.vaults[i], i, run.wrapper)
  /\ run.pc \in Deployed => Suite(run.wrapper, run.vaults, run.registry)

\* What it has checked.
RunChecks ==
  /\ run.pc \notin Deployed => run.checked = 0 /\ run.matched = <<>>
  /\ run.checked <= OFFICIAL_VAULT_COUNT /\ Len(run.matched) = run.checked
  /\ run.pc \in Deployed =>
       \A i \in 1..run.checked : run.matched[i] = live[run.vaults[i]].version
  /\ run.pc \in Checked => /\ run.checked = OFFICIAL_VAULT_COUNT
                           /\ run.mode.p01 => NotSuperseded(run.vaults)

\* What it has written.
RunWrites ==
  /\ run.pc \in Published =>
       manifest = [status |-> "DEPLOYED", wrapper |-> run.wrapper, registry |-> run.registry,
                   vaults |-> run.vaults, p01 |-> run.mode.p01]
  /\ run.pc \in {"p01evidence", "docs", "p01docs"} => files.evidence.manifest = manifest
  /\ (run.pc = "docs" /\ run.mode.p01) \/ run.pc = "p01docs" => files.p01Evidence.manifest = manifest
  /\ run.pc = "p01docs" => files.docs.manifest = manifest /\ files.docs.evidence = files.evidence

RunInv == run \in Run /\ RunDeploys /\ RunChecks /\ RunWrites

ManifestInv ==
  \/ manifest = NoManifest
  \/ /\ manifest.status = "DEPLOYED"
     /\ Suite(manifest.wrapper, manifest.vaults, manifest.registry)
     /\ manifest.p01 => NotSuperseded(manifest.vaults)

FileNames == {"evidence", "p01Evidence", "docs", "p01Docs", "smoke", "refreeze", "freeze"}

\* The files the validators go by say what is so.
FilesInv ==
  /\ files = [f \in FileNames |-> files[f]]
  /\ files.p01Evidence.present => RuntimesAre(files.p01Evidence.vaults, files.p01Evidence.runtime)
  /\ files.smoke.present => files.smoke.registry \in smoked

TestInv ==
  /\ test = [pc |-> test.pc, manifest |-> test.manifest]
  /\ test.pc = "write" => test.manifest.registry \in smoked

DeploymentInv == ChainInv /\ RunInv /\ ManifestInv /\ FilesInv /\ TestInv

-----------------------------------------------------------------------------
\* Contracts stay as they are, but for what the registry's owner marks.
ChainKept ==
  /\ nonce' \in Nat /\ nonce <= nonce'
  /\ \A a \in Taken : /\ live'[a].kind = live[a].kind /\ live'[a].version = live[a].version
                      /\ live'[a].id = live[a].id /\ live'[a].asset = live[a].asset
                      /\ live'[a].vaults = live[a].vaults

\* The published suites and the runtimes found in them stay what they are.
LEMMA SuitesKept ==
  ASSUME ChainInv, ChainKept
  PROVE  /\ \A a \in Taken : a \in Taken'
         /\ \A w : IsWrapper(w) => IsWrapper(w)'
         /\ \A v, id, w : IsVault(v, id, w) => IsVault(v, id, w)'
         /\ \A w, vaults, r : Suite(w, vaults, r) => Suite(w, vaults, r)'
         /\ \A vaults, runtime : RuntimesAre(vaults, runtime) => RuntimesAre(vaults, runtime)'
<1>1. \A a \in Taken : a \in Taken'
  <2>1. nonce \in Int /\ nonce' \in Int /\ nonce <= nonce'
    BY DeploymentConfiguration DEF ChainInv, ChainKept
  <2>2. ASSUME NEW a \in Taken PROVE a \in 0 .. nonce' - 1
    <3>1. a \in Int /\ 0 <= a /\ a <= nonce - 1
      BY <2>1 DEF Taken
    <3>2. ASSUME NEW b \in Int, NEW c \in Int, NEW d \in Int, 0 <= b, b <= c - 1, c <= d PROVE b \in 0 .. d - 1
      BY <3>2
    <3> QED BY <2>1, <3>1, <3>2
  <2> QED BY <2>2 DEF Taken
<1>2. \A w : IsWrapper(w) => IsWrapper(w)'
  BY <1>1 DEF ChainKept, IsWrapper
<1>3. \A v, id, w : IsVault(v, id, w) => IsVault(v, id, w)'
  BY <1>1 DEF ChainKept, IsVault
<1>4. \A w, vaults, r : Suite(w, vaults, r) => Suite(w, vaults, r)'
  BY <1>1, <1>2, <1>3 DEF ChainKept, Suite
<1>5. \A vaults, runtime : RuntimesAre(vaults, runtime) => RuntimesAre(vaults, runtime)'
  BY <1>1 DEF ChainKept, RuntimesAre
<1> QED BY <1>1, <1>2, <1>3, <1>4, <1>5

\* A manifest stays true, and so do evidence and smoke test.
LEMMA FilesKept ==
  ASSUME DeploymentInv, ChainKept
  PROVE  /\ UNCHANGED manifest => ManifestInv'
         /\ UNCHANGED <<files, smoked>> => FilesInv'
<1>1. UNCHANGED manifest => ManifestInv'
  BY SuitesKept DEF DeploymentInv, ManifestInv, NotSuperseded
<1>2. UNCHANGED <<files, smoked>> => FilesInv'
  BY SuitesKept DEF DeploymentInv, FilesInv
<1> QED BY <1>1, <1>2

\* A run that is not one's own turn stays what it is.
LEMMA RunKept ==
  ASSUME DeploymentInv, ChainKept, UNCHANGED <<run, manifest>>,
         files'.evidence = files.evidence, files'.p01Evidence = files.p01Evidence, files'.docs = files.docs
  PROVE  RunInv'
<1>1. RunDeploys'
  BY SuitesKept DEF DeploymentInv, RunInv, RunDeploys
<1>2. RunChecks'
  <2>1. ASSUME run.pc \in Deployed, NEW i \in 1..run.checked
        PROVE  live'[run.vaults[i]].version = live[run.vaults[i]].version
    <3>1. Suite(run.wrapper, run.vaults, run.registry) /\ i \in Ids
      BY <2>1, DeploymentConfiguration DEF DeploymentInv, RunInv, RunDeploys, RunChecks, Ids, Run
    <3>2. run.vaults[i] \in Taken
      BY <3>1 DEF Suite, IsVault
    <3> QED BY <3>2 DEF ChainKept
  <2> QED BY <2>1 DEF DeploymentInv, RunInv, RunChecks, NotSuperseded
<1>3. RunWrites'
  BY DEF DeploymentInv, RunInv, RunWrites
<1> QED BY <1>1, <1>2, <1>3 DEF DeploymentInv, RunInv

LEMMA IdleRunIs ==
  IdleRun \in Run /\ IdleRun.pc = "idle" /\ IdleRun.checked = 0 /\ IdleRun.vaults = <<>> /\ IdleRun.matched = <<>>
<1>1. /\ IdleRun.pc = "idle" /\ IdleRun.mode \in Modes /\ IdleRun.version \in Versions
      /\ IdleRun.wrapper \in Int /\ IdleRun.registry \in Int /\ IdleRun.checked = 0
      /\ IdleRun.vaults = <<>> /\ IdleRun.matched = <<>>
  BY DEF IdleRun, Modes, Versions, NoAddress
<1>2. <<>> \in Seq(Int) /\ <<>> \in Seq(Versions)
  OBVIOUS
<1> QED BY <1>1, <1>2 DEF Run, IdleRun

\* A run that ends has nothing to answer for.
LEMMA RunEnds ==
  ASSUME run' = IdleRun
  PROVE  RunInv'
<1>1. IdleRun \in Run
  BY IdleRunIs
<1>2. IdleRun.pc = "idle" /\ IdleRun.checked = 0 /\ IdleRun.matched = <<>> /\ Len(IdleRun.matched) = 0
  BY IdleRunIs
<1>3. RunDeploys'
  BY <1>2 DEF RunDeploys, Deployed
<1>4. RunChecks'
  BY <1>2, DeploymentConfiguration DEF RunChecks, Deployed, Checked
<1>5. RunWrites'
  BY <1>2 DEF RunWrites, Published
<1> QED BY <1>1, <1>3, <1>4, <1>5 DEF RunInv

\* A step that leaves the chain alone keeps it.
LEMMA ChainUntouched ==
  ASSUME DeploymentInv, UNCHANGED <<live, nonce>>
  PROVE  ChainKept /\ (UNCHANGED artifacts => ChainInv')
  BY DeploymentConfiguration DEF DeploymentInv, ChainInv, ChainKept, Taken, Contract

\* Marking a vault for discovery changes nothing else of the registry.
LEMMA MarkingKeeps ==
  ASSUME DeploymentInv, NEW registry \in Addresses, NEW id \in Ids, NEW mark \in BOOLEAN,
         setOfficialVaultActive(registry, id, mark)
  PROVE  DeploymentInv'
<1>1. live \in [Addresses -> Contract] /\ nonce \in Nat
  BY DeploymentConfiguration DEF DeploymentInv, ChainInv
<1>2. PICK marks \in SUBSET Ids : live' = [live EXCEPT ![registry].active = marks]
  <2>1. live[registry].active \in SUBSET Ids
    BY <1>1 DEF Contract
  <2> QED BY <2>1 DEF setOfficialVaultActive
<1>3. live' \in [Addresses -> Contract]
  BY <1>1, <1>2 DEF Contract
<1>4. \A a \in Addresses : /\ live'[a].kind = live[a].kind /\ live'[a].version = live[a].version
                           /\ live'[a].id = live[a].id /\ live'[a].asset = live[a].asset
                           /\ live'[a].vaults = live[a].vaults
  BY <1>1, <1>2 DEF Contract
<1>5. UNCHANGED <<nonce, artifacts, manifest, files, run, test, smoked>>
  BY DEF setOfficialVaultActive
<1>6. Taken \subseteq Addresses
  BY DeploymentConfiguration DEF DeploymentInv, ChainInv, Taken, Addresses
<1>7. ChainKept
  BY <1>1, <1>4, <1>5, <1>6 DEF ChainKept
<1>8. ChainInv'
  BY <1>3, <1>4, <1>5 DEF DeploymentInv, ChainInv, Taken
<1> QED BY <1>5, <1>7, <1>8, FilesKept, RunKept DEF DeploymentInv, TestInv

\* A deployment takes an address that nobody has had.
LEMMA Deploying ==
  ASSUME DeploymentInv, NEW contract \in Contract, NEW next, Deploy(contract, next)
  PROVE  /\ ChainKept /\ ChainInv' /\ ManifestInv' /\ FilesInv' /\ TestInv'
         /\ nonce \in Addresses /\ nonce \in Taken' /\ live'[nonce] = contract
<1>1. /\ nonce \in 0 .. MaxNonce /\ nonce < MaxNonce /\ nonce' = nonce + 1
      /\ live \in [Addresses -> Contract] /\ live' = [live EXCEPT ![nonce] = contract]
      /\ UNCHANGED <<artifacts, manifest, files, test, smoked>>
  BY DEF DeploymentInv, ChainInv, Deploy, OtherState
<1>2. nonce \in Nat /\ nonce \in Addresses /\ nonce \in Taken'
  BY <1>1, DeploymentConfiguration DEF Addresses, Taken
<1>3. live' \in [Addresses -> Contract] /\ live'[nonce] = contract
  BY <1>1, <1>2
<1>4. \A a \in Addresses : a # nonce => live'[a] = live[a]
  BY <1>1, <1>2
<1>5. \A a \in Taken : a # nonce /\ a \in Addresses /\ a \in Taken'
  BY <1>1, <1>2, DeploymentConfiguration DEF Taken, Addresses
<1>6. ChainKept
  <2>1. nonce' \in Nat /\ nonce <= nonce'
    BY <1>1, <1>2
  <2> QED BY <1>4, <1>5, <2>1 DEF ChainKept
<1>7. ChainInv'
  <2>1. nonce' \in 0 .. MaxNonce
    BY <1>1, DeploymentConfiguration
  <2>2. \A a \in Addresses : live'[a].kind # "none" => a \in Taken'
    BY <1>2, <1>4, <1>5 DEF DeploymentInv, ChainInv
  <2> QED BY <1>1, <1>3, <2>1, <2>2 DEF DeploymentInv, ChainInv
<1> QED BY <1>1, <1>2, <1>3, <1>6, <1>7, FilesKept DEF DeploymentInv, TestInv

LEMMA Constructed ==
  /\ WrapperContract \in Contract /\ WrapperContract.kind = "wrapper"
  /\ \A version \in Versions, id \in Nat, asset \in Int :
       LET c == VaultContract(version, id, asset)
       IN c \in Contract /\ c.kind = "vault" /\ c.id = id /\ c.asset = asset
  /\ \A vaults \in Seq(Int) :
       LET c == RegistryContract(vaults)
       IN c \in Contract /\ c.kind = "registry" /\ c.vaults = vaults
<1>1. NoContract \in Contract
  <2>1. <<>> \in Seq(Int) /\ {} \in SUBSET Ids
    OBVIOUS
  <2> QED BY <2>1 DEF NoContract, Contract, Versions, NoAddress
<1>2. Ids \in SUBSET Ids
  OBVIOUS
<1> QED BY <1>1, <1>2 DEF Contract, WrapperContract, VaultContract, RegistryContract

\* The first official suite, found where it was deployed, is one.
LEMMA KnownSuite ==
  ASSUME ChainInv, \A address \in 0 .. OLD_REGISTRY : recordKnownDeployment(address)
  PROVE  Suite(REUSED_WRAPPER, KnownVaults, OLD_REGISTRY)
<1>1. 0 .. OLD_REGISTRY \subseteq Addresses /\ Ids \subseteq 0 .. OLD_REGISTRY
  BY DeploymentConfiguration DEF OLD_REGISTRY, Addresses, Ids
<1>2. \A a \in 0 .. OLD_REGISTRY : /\ live[a].kind = KnownContract(a).kind
                                   /\ live[a].id = KnownContract(a).id
                                   /\ live[a].asset = KnownContract(a).asset
                                   /\ live[a].vaults = KnownContract(a).vaults
  <2>1. ASSUME NEW a \in 0 .. OLD_REGISTRY
        PROVE  KnownContract(a) = [kind |-> KnownContract(a).kind, version |-> KnownContract(a).version,
                                   id |-> KnownContract(a).id, asset |-> KnownContract(a).asset,
                                   vaults |-> KnownContract(a).vaults, active |-> KnownContract(a).active]
    BY DEF KnownContract, WrapperContract, RegistryContract, VaultContract, NoContract
  <2>2. ASSUME NEW a \in 0 .. OLD_REGISTRY
        PROVE  live[a] = [KnownContract(a) EXCEPT !.active = live[a].active]
    BY DEF recordKnownDeployment
  <2> QED BY <2>1, <2>2
<1>3. \A a \in 0 .. OLD_REGISTRY : live[a].kind # "none" => a \in Taken
  BY <1>1 DEF ChainInv
<1>4. /\ KnownContract(REUSED_WRAPPER).kind = "wrapper" /\ REUSED_WRAPPER \in 0 .. OLD_REGISTRY
  BY DeploymentConfiguration DEF KnownContract, WrapperContract, NoContract, REUSED_WRAPPER, OLD_REGISTRY
<1>5. /\ KnownContract(OLD_REGISTRY).kind = "registry" /\ KnownContract(OLD_REGISTRY).vaults = KnownVaults
      /\ OLD_REGISTRY \in 0 .. OLD_REGISTRY
  BY DeploymentConfiguration DEF KnownContract, RegistryContract, NoContract, REUSED_WRAPPER, OLD_REGISTRY
<1>6. \A i \in Ids : /\ KnownContract(i).kind = "vault" /\ KnownContract(i).id = i
                     /\ KnownContract(i).asset = REUSED_WRAPPER
  BY DeploymentConfiguration DEF KnownContract, VaultContract, NoContract, REUSED_WRAPPER, OLD_REGISTRY, Ids
<1>7. KnownVaults \in Seq(Int) /\ Len(KnownVaults) = OFFICIAL_VAULT_COUNT /\ \A i \in Ids : KnownVaults[i] = i
  BY DeploymentConfiguration DEF KnownVaults, Ids
<1>8. IsWrapper(REUSED_WRAPPER)
  BY <1>2, <1>3, <1>4 DEF IsWrapper
<1>9. \A i \in Ids : IsVault(KnownVaults[i], i, REUSED_WRAPPER)
  BY <1>1, <1>2, <1>3, <1>6, <1>7 DEF IsVault
<1>10. OLD_REGISTRY \in Taken /\ live[OLD_REGISTRY].kind = "registry" /\ live[OLD_REGISTRY].vaults = KnownVaults
  BY <1>2, <1>3, <1>5
<1> QED BY <1>7, <1>8, <1>9, <1>10 DEF Suite

\* A step of the run that touches neither chain nor files.
LEMMA RunMoves ==
  ASSUME DeploymentInv, UNCHANGED <<live, nonce, artifacts>>, UNCHANGED OtherState, RunInv'
  PROVE  DeploymentInv'
<1>1. UNCHANGED <<manifest, files, smoked, test>>
  BY DEF OtherState
<1>2. ChainKept /\ ChainInv'
  BY ChainUntouched
<1> QED BY <1>1, <1>2, FilesKept DEF DeploymentInv, TestInv

\* Beginning, loading and reading what is there.
LEMMA Beginning ==
  ASSUME DeploymentInv,
         \/ \E mode \in Modes, acknowledged \in BOOLEAN : Begin(mode, acknowledged)
         \/ LoadFactories
  PROVE  DeploymentInv'
<1>1. CASE \E mode \in Modes, acknowledged \in BOOLEAN : Begin(mode, acknowledged)
  <2>1. PICK mode \in Modes : run' = [IdleRun EXCEPT !.pc = "load", !.mode = mode]
    BY <1>1 DEF Begin
  <2>2. UNCHANGED <<live, nonce, artifacts, manifest, files, test, smoked>>
    BY <1>1 DEF Begin
  <2>3. run' \in Run /\ run'.pc = "load" /\ run'.vaults = <<>> /\ run'.checked = 0
        /\ run'.matched = <<>> /\ Len(run'.matched) = 0
    <3>1. run' \in Run /\ run'.pc = "load" /\ run'.vaults = <<>> /\ run'.checked = 0 /\ run'.matched = <<>>
      BY <2>1, IdleRunIs DEF Run
    <3> QED BY <3>1
  <2>4. RunInv'
    BY <2>3, DeploymentConfiguration
    DEF RunInv, RunDeploys, RunChecks, RunWrites, Deployed, Checked, Published
  <2>5. ChainKept /\ ChainInv'
    BY <2>2, ChainUntouched
  <2> QED BY <2>2, <2>4, <2>5, FilesKept DEF DeploymentInv, TestInv
<1>2. CASE LoadFactories
  <2>1. UNCHANGED <<live, nonce, artifacts>> /\ UNCHANGED OtherState /\ run.pc = "load"
    BY <1>2 DEF LoadFactories
  <2>2. run \in Run /\ run.vaults = <<>> /\ run.checked = 0 /\ run.matched = <<>>
    BY <2>1 DEF DeploymentInv, RunInv, RunDeploys, RunChecks, Deployed
  <2>3. CASE run' = IdleRun
    BY <2>1, <2>3, RunEnds, RunMoves
  <2>4. CASE run' # IdleRun
    <3>1. PICK place \in {"known", "reuse", "wrapper"} : run' = [run EXCEPT !.version = artifacts.current, !.pc = place]
      BY <1>2, <2>4 DEF LoadFactories
    <3>2. artifacts.current \in Versions
      BY DEF DeploymentInv, ChainInv
    <3>3. run' \in Run /\ run'.pc = place /\ run'.vaults = <<>> /\ run'.checked = 0 /\ run'.matched = <<>>
          /\ Len(run'.matched) = 0
      BY <2>2, <3>1, <3>2 DEF Run
    <3>4. RunInv'
      BY <3>1, <3>3, DeploymentConfiguration
      DEF RunInv, RunDeploys, RunChecks, RunWrites, Deployed, Checked, Published
    <3> QED BY <2>1, <3>4, RunMoves
  <2> QED BY <2>3, <2>4
<1> QED BY <1>1, <1>2

LEMMA Reading ==
  ASSUME DeploymentInv, ReadKnown \/ ReuseWrapper
  PROVE  DeploymentInv'
<1>1. UNCHANGED <<live, nonce, artifacts>> /\ UNCHANGED OtherState /\ run.pc \in {"known", "reuse"}
  BY DEF ReadKnown, ReuseWrapper
<1>2. run \in Run /\ run.vaults = <<>> /\ run.checked = 0 /\ run.matched = <<>> /\ Len(run.matched) = 0
  BY <1>1 DEF DeploymentInv, RunInv, RunDeploys, RunChecks, Deployed
<1>3. CASE run' = IdleRun
  BY <1>1, <1>3, RunEnds, RunMoves
<1>4. CASE ReadKnown /\ run' # IdleRun
  <2>1. /\ \A address \in 0 .. OLD_REGISTRY : recordKnownDeployment(address)
        /\ run' = [run EXCEPT !.wrapper = REUSED_WRAPPER, !.vaults = KnownVaults,
                              !.registry = OLD_REGISTRY, !.pc = "read"]
    BY <1>4 DEF ReadKnown
  <2>2. Suite(REUSED_WRAPPER, KnownVaults, OLD_REGISTRY)
    BY <2>1, KnownSuite DEF DeploymentInv
  <2>3. KnownVaults \in Seq(Int) /\ REUSED_WRAPPER \in Int /\ OLD_REGISTRY \in Int
    BY <2>2, DeploymentConfiguration DEF Suite, REUSED_WRAPPER, OLD_REGISTRY
  <2>4. /\ run' \in Run /\ run'.pc = "read" /\ run'.wrapper = REUSED_WRAPPER /\ run'.vaults = KnownVaults
        /\ run'.registry = OLD_REGISTRY /\ run'.checked = 0 /\ run'.matched = <<>> /\ Len(run'.matched) = 0
    BY <1>2, <2>1, <2>3 DEF Run, Deployed
  <2>5. Suite(run.wrapper, run.vaults, run.registry)'
    BY <1>1, <2>2, <2>4 DEF Suite, IsWrapper, IsVault, Taken
  <2>6. RunInv'
    BY <2>4, <2>5, DeploymentConfiguration DEF RunInv, RunDeploys, RunChecks, RunWrites, Deployed, Checked, Published
  <2> QED BY <1>1, <2>6, RunMoves
<1>5. CASE ReuseWrapper /\ run' # IdleRun
  <2>1. /\ recordKnownDeployment(REUSED_WRAPPER)
        /\ run' = [run EXCEPT !.wrapper = REUSED_WRAPPER, !.pc = "vaults"]
    BY <1>5 DEF ReuseWrapper
  <2>2. live[REUSED_WRAPPER].kind = "wrapper" /\ REUSED_WRAPPER \in Addresses
    <3>1. KnownContract(REUSED_WRAPPER) = WrapperContract
      BY DEF KnownContract
    <3>2. live[REUSED_WRAPPER] = [WrapperContract EXCEPT !.active = live[REUSED_WRAPPER].active]
      BY <2>1, <3>1 DEF recordKnownDeployment
    <3>3. WrapperContract.kind = "wrapper" /\ WrapperContract \in Contract
      BY Constructed
    <3>4. REUSED_WRAPPER \in Addresses
      BY DeploymentConfiguration DEF REUSED_WRAPPER, Addresses
    <3> QED BY <3>2, <3>3, <3>4 DEF Contract
  <2>3. IsWrapper(REUSED_WRAPPER)
    BY <2>2 DEF IsWrapper, DeploymentInv, ChainInv
  <2>4. /\ run' \in Run /\ run'.pc = "vaults" /\ run'.wrapper = REUSED_WRAPPER /\ run'.vaults = <<>>
        /\ run'.checked = 0 /\ run'.matched = <<>> /\ Len(run'.matched) = 0 /\ Len(run'.vaults) = 0
    <3>1. REUSED_WRAPPER \in Int
      BY DEF REUSED_WRAPPER
    <3>2. /\ run' \in Run /\ run'.pc = "vaults" /\ run'.wrapper = REUSED_WRAPPER /\ run'.vaults = run.vaults
          /\ run'.checked = run.checked /\ run'.matched = run.matched
      BY <1>2, <2>1, <3>1 DEF Run
    <3> QED BY <1>2, <3>2
  <2>5. IsWrapper(run.wrapper)'
    BY <1>1, <2>3, <2>4 DEF IsWrapper, Taken
  <2>6. RunInv'
    BY <2>4, <2>5, DeploymentConfiguration DEF RunInv, RunDeploys, RunChecks, RunWrites, Deployed, Checked, Published
  <2> QED BY <1>1, <2>6, RunMoves
<1> QED BY <1>3, <1>4, <1>5

\* Wrapper, vaults and registry are deployed, one transaction each.
LEMMA DeploymentKeeps ==
  ASSUME DeploymentInv, DeployWrapper \/ DeployVault \/ DeployRegistry
  PROVE  DeploymentInv'
<1>1. run \in Run /\ run.pc \in {"wrapper", "vaults"} /\ run.checked = 0 /\ run.matched = <<>>
  BY DEF DeployWrapper, DeployVault, DeployRegistry, DeploymentInv, RunInv, RunChecks, Deployed
<1>2. nonce \in Int
  BY DEF DeploymentInv, ChainInv
<1> DEFINE Others == ChainKept /\ ChainInv' /\ ManifestInv' /\ FilesInv' /\ TestInv'
<1>3. CASE DeployWrapper
  <2> DEFINE next == [run EXCEPT !.wrapper = nonce, !.pc = "vaults"]
  <2>1. Deploy(WrapperContract, next) /\ run.pc = "wrapper"
    BY <1>3 DEF DeployWrapper
  <2>2. Others /\ nonce \in Taken' /\ live'[nonce] = WrapperContract
    BY <2>1, Constructed, Deploying
  <2>3. CASE run' = IdleRun
    BY <2>2, <2>3, RunEnds DEF DeploymentInv
  <2>4. CASE run' = next
    <3>1. run.vaults = <<>>
      BY <2>1 DEF DeploymentInv, RunInv, RunDeploys
    <3>2. /\ run' \in Run /\ run'.pc = "vaults" /\ run'.wrapper = nonce /\ run'.vaults = run.vaults
          /\ run'.checked = run.checked /\ run'.matched = run.matched
      BY <1>1, <1>2, <2>4 DEF Run
    <3>3. IsWrapper(run.wrapper)'
      BY <2>2, <3>2, Constructed DEF IsWrapper
    <3>4. Len(run'.vaults) = 0 /\ Len(run'.matched) = 0
      BY <1>1, <3>1, <3>2
    <3>5. RunInv'
      BY <1>1, <3>2, <3>3, <3>4, DeploymentConfiguration
      DEF RunInv, RunDeploys, RunChecks, RunWrites, Deployed, Checked, Published
    <3> QED BY <2>2, <3>5 DEF DeploymentInv
  <2> QED BY <2>1, <2>3, <2>4 DEF Deploy
<1>4. CASE DeployVault
  <2> DEFINE contract == VaultContract(run.version, Len(run.vaults) + 1, run.wrapper)
             next == [run EXCEPT !.vaults = Append(@, nonce)]
  <2>1. Deploy(contract, next) /\ run.pc = "vaults" /\ Len(run.vaults) < OFFICIAL_VAULT_COUNT
    BY <1>4 DEF DeployVault
  <2>2. PICK n \in Nat : n = Len(run.vaults)
    BY <1>1 DEF Run
  <2>3. /\ contract \in Contract /\ contract.kind = "vault" /\ contract.id = n + 1
        /\ contract.asset = run.wrapper
    <3>1. run.version \in Versions /\ n + 1 \in Nat /\ run.wrapper \in Int
      BY <1>1 DEF Run
    <3> QED BY <2>2, <3>1, Constructed
  <2> HIDE DEF contract
  <2>4. Others /\ nonce \in Taken' /\ live'[nonce] = contract
    BY <2>1, <2>3, Deploying
  <2>5. CASE run' = IdleRun
    BY <2>4, <2>5, RunEnds DEF DeploymentInv
  <2>6. CASE run' = next
    <3>1. /\ run' \in Run /\ run'.pc = "vaults" /\ run'.wrapper = run.wrapper
          /\ run'.vaults = Append(run.vaults, nonce)
          /\ run'.checked = run.checked /\ run'.matched = run.matched
      <4>1. Append(run.vaults, nonce) \in Seq(Int)
        BY <1>1, <1>2 DEF Run
      <4> QED BY <1>1, <2>1, <2>6, <4>1 DEF Run
    <3>2. /\ IsWrapper(run.wrapper)
          /\ \A i \in 1..n : IsVault(run.vaults[i], i, run.wrapper)
      BY <2>1, <2>2 DEF DeploymentInv, RunInv, RunDeploys
    <3>3. Len(run'.vaults) = n + 1 /\ run'.vaults[n + 1] = nonce /\ \A i \in 1..n : run'.vaults[i] = run.vaults[i]
      <4>1. run.vaults \in Seq(Int)
        BY <1>1 DEF Run
      <4> QED BY <1>2, <2>2, <3>1, <4>1
    <3>4. IsWrapper(run.wrapper)'
      <4>1. IsWrapper(run.wrapper) => IsWrapper(run.wrapper)'
        BY <2>4, <3>1, SuitesKept DEF DeploymentInv
      <4> QED BY <3>2, <4>1
    <3>5. \A i \in 1..n : IsVault(run.vaults[i], i, run.wrapper)'
      BY <2>4, <3>1, <3>2, <3>3, SuitesKept DEF DeploymentInv
    <3>6. IsVault(run.vaults[n + 1], n + 1, run.wrapper)'
      BY <2>3, <2>4, <3>1, <3>3 DEF IsVault
    <3>7. \A i \in 1..(n + 1) : IsVault(run.vaults[i], i, run.wrapper)'
      <4>1. \A i \in 1..(n + 1) : i \in 1..n \/ i = n + 1
        OBVIOUS
      <4> QED BY <3>5, <3>6, <4>1
    <3>8. n + 1 <= OFFICIAL_VAULT_COUNT
      BY <2>1, <2>2, DeploymentConfiguration
    <3>9. RunDeploys'
      BY <3>1, <3>3, <3>4, <3>7, <3>8 DEF RunDeploys, Deployed
    <3>10. RunChecks' /\ RunWrites'
      BY <1>1, <3>1, DeploymentConfiguration DEF RunChecks, RunWrites, Deployed, Checked, Published
    <3> QED BY <2>4, <3>1, <3>9, <3>10 DEF DeploymentInv, RunInv
  <2> QED BY <2>1, <2>5, <2>6 DEF Deploy
<1>5. CASE DeployRegistry
  <2> DEFINE next == [run EXCEPT !.registry = nonce, !.pc = "read"]
  <2>1. Deploy(RegistryContract(run.vaults), next) /\ run.pc = "vaults" /\ Len(run.vaults) = OFFICIAL_VAULT_COUNT
    BY <1>5 DEF DeployRegistry
  <2>2. PICK contract \in Contract : contract = RegistryContract(run.vaults) /\ contract.kind = "registry"
                                     /\ contract.vaults = run.vaults
    <3>1. run.vaults \in Seq(Int)
      BY <1>1 DEF Run
    <3> QED BY <3>1, Constructed
  <2>3. Others /\ nonce \in Taken' /\ live'[nonce] = contract
    BY <2>1, <2>2, Deploying
  <2>4. CASE run' = IdleRun
    BY <2>3, <2>4, RunEnds DEF DeploymentInv
  <2>5. CASE run' = next
    <3>1. /\ run' \in Run /\ run'.pc = "read" /\ run'.wrapper = run.wrapper /\ run'.vaults = run.vaults
          /\ run'.registry = nonce /\ run'.checked = run.checked /\ run'.matched = run.matched
      BY <1>1, <1>2, <2>5 DEF Run, Deployed
    <3>2. /\ IsWrapper(run.wrapper) /\ run.vaults \in Seq(Int)
          /\ \A i \in Ids : IsVault(run.vaults[i], i, run.wrapper)
      BY <1>1, <2>1 DEF DeploymentInv, RunInv, RunDeploys, Run, Ids
    <3>3. /\ IsWrapper(run.wrapper)'
          /\ \A i \in Ids : IsVault(run.vaults[i], i, run.wrapper)'
      BY <2>3, <3>1, <3>2, SuitesKept DEF DeploymentInv
    <3>4. Suite(run.wrapper, run.vaults, run.registry)'
      BY <2>1, <2>2, <2>3, <3>1, <3>2, <3>3 DEF Suite
    <3>5. RunInv'
      BY <1>1, <3>1, <3>4, DeploymentConfiguration
      DEF RunInv, RunDeploys, RunChecks, RunWrites, Deployed, Checked, Published
    <3> QED BY <2>3, <3>5 DEF DeploymentInv
  <2> QED BY <2>1, <2>4, <2>5 DEF Deploy
<1> QED BY <1>3, <1>4, <1>5

\* The checks read one vault after the other.
LEMMA CheckingKeeps ==
  ASSUME DeploymentInv, CheckWrapperAndRegistry \/ CheckVault \/ CheckOldVaults \/ RunFails
  PROVE  DeploymentInv'
<1>1. UNCHANGED <<live, nonce, artifacts>> /\ UNCHANGED OtherState
  BY DEF CheckWrapperAndRegistry, CheckVault, CheckOldVaults, RunFails
<1>2. CASE run' = IdleRun
  BY <1>1, <1>2, RunEnds, RunMoves
<1>3. CASE run' # IdleRun
  <2>1. /\ run.pc \in Deployed /\ run \in Run
        /\ Suite(run.wrapper, run.vaults, run.registry)
        /\ run.checked \in Nat /\ run.checked <= OFFICIAL_VAULT_COUNT /\ Len(run.matched) = run.checked
        /\ \A i \in 1..run.checked : run.matched[i] = live[run.vaults[i]].version
    BY <1>3
    DEF CheckWrapperAndRegistry, CheckVault, CheckOldVaults, RunFails, Deployed, DeploymentInv, RunInv,
        RunDeploys, RunChecks, Run
  <2>2. Suite(run.wrapper, run.vaults, run.registry)' <=> Suite(run'.wrapper, run'.vaults, run'.registry)
    BY <1>1 DEF Suite, IsWrapper, IsVault, Taken
  <2>3. CASE CheckWrapperAndRegistry
    <3>1. run' = [run EXCEPT !.pc = "check"]
      BY <1>3, <2>3 DEF CheckWrapperAndRegistry
    <3>2. /\ run' \in Run /\ run'.pc = "check" /\ run'.wrapper = run.wrapper /\ run'.vaults = run.vaults
          /\ run'.registry = run.registry /\ run'.checked = run.checked /\ run'.matched = run.matched
      BY <2>1, <3>1 DEF Run, Deployed
    <3>3. RunInv'
      BY <1>1, <2>1, <2>2, <3>2
      DEF RunInv, RunDeploys, RunChecks, RunWrites, Deployed, Checked, Published
    <3> QED BY <1>1, <3>3, RunMoves
  <2>4. CASE CheckVault
    <3>1. PICK id \in Nat : id = run.checked + 1
      BY <2>1
    <3>2. /\ run.pc = "check" /\ run.checked < OFFICIAL_VAULT_COUNT
          /\ run' = [run EXCEPT !.checked = id, !.matched = Append(@, live[run.vaults[id]].version)]
      BY <1>3, <2>4, <3>1 DEF CheckVault
    <3>3. id \in Ids
      BY <2>1, <3>1, <3>2, DeploymentConfiguration DEF Ids
    <3>4. PICK version \in Versions : version = live[run.vaults[id]].version
      <4>1. run.vaults[id] \in Addresses
        BY <2>1, <3>3, DeploymentConfiguration DEF Suite, IsVault, Taken, Addresses, DeploymentInv, ChainInv
      <4> QED BY <4>1 DEF DeploymentInv, ChainInv, Contract
    <3>5. run.matched \in Seq(Versions)
      BY <2>1 DEF Run
    <3>6. PICK matched \in Seq(Versions) :
            /\ matched = Append(run.matched, version) /\ Len(matched) = id /\ matched[id] = version
            /\ \A i \in 1..run.checked : matched[i] = run.matched[i]
      <4>1. ASSUME NEW s \in Seq(Versions)
            PROVE  /\ Append(s, version) \in Seq(Versions) /\ Len(s) \in Nat /\ Len(Append(s, version)) = Len(s) + 1
                   /\ Append(s, version)[Len(s) + 1] = version
                   /\ \A i \in 1..Len(s) : Append(s, version)[i] = s[i]
        OBVIOUS
      <4>2. PICK m \in Seq(Versions) : m = Append(run.matched, version)
        BY <3>5, <4>1
      <4>3. Len(m) = id /\ m[id] = version /\ \A i \in 1..run.checked : m[i] = run.matched[i]
        <5>1. Len(run.matched) + 1 = id
          BY <2>1, <3>1
        <5> QED BY ONLY <2>1, <3>5, <4>1, <4>2, <5>1
      <4> QED BY <4>2, <4>3
    <3>7. /\ run' \in Run /\ run'.pc = "check" /\ run'.wrapper = run.wrapper /\ run'.vaults = run.vaults
          /\ run'.registry = run.registry /\ run'.checked = id /\ run'.matched = matched
      BY <2>1, <3>2, <3>4, <3>6 DEF Run
    <3>8. \A i \in 1..id : matched[i] = live'[run.vaults[i]].version
      <4>1. \A i \in 1..id : i \in 1..run.checked \/ i = id
        BY <2>1, <3>1
      <4> QED BY <1>1, <2>1, <3>4, <3>6, <4>1
    <3>9. id <= OFFICIAL_VAULT_COUNT
      BY <3>3 DEF Ids
    <3>10. RunInv'
      BY <2>1, <2>2, <3>6, <3>7, <3>8, <3>9
      DEF RunInv, RunDeploys, RunChecks, RunWrites, Deployed, Checked, Published
    <3> QED BY <1>1, <3>10, RunMoves
  <2>5. CASE CheckOldVaults
    <3>1. /\ run.pc = "check" /\ run.checked = OFFICIAL_VAULT_COUNT /\ oldVaultsAbsent
          /\ run' = [run EXCEPT !.pc = "manifest"]
      BY <1>3, <2>5 DEF CheckOldVaults
    <3>2. run.mode.p01 => NotSuperseded(run.vaults)
      BY <2>1, <3>1 DEF oldVaultsAbsent, isOfficialVault, Suite, NotSuperseded
    <3>3. /\ run' \in Run /\ run'.pc = "manifest" /\ run'.wrapper = run.wrapper /\ run'.vaults = run.vaults
          /\ run'.registry = run.registry /\ run'.checked = run.checked /\ run'.matched = run.matched
          /\ run'.mode = run.mode
      BY <2>1, <3>1 DEF Run, Deployed
    <3>4. RunInv'
      BY <1>1, <2>1, <2>2, <3>1, <3>2, <3>3
      DEF RunInv, RunDeploys, RunChecks, RunWrites, Deployed, Checked, Published, NotSuperseded
    <3> QED BY <1>1, <3>4, RunMoves
  <2> QED BY <1>3, <2>3, <2>4, <2>5 DEF RunFails
<1> QED BY <1>2, <1>3

\* The files are written, one after the other.
LEMMA WritingKeeps ==
  ASSUME DeploymentInv, WriteManifest \/ WriteEvidence \/ WriteP01Evidence \/ WriteDocs \/ WriteP01Docs
  PROVE  DeploymentInv'
<1>1. UNCHANGED <<live, nonce, artifacts, test, smoked>> /\ run.pc \in Checked /\ run \in Run
  BY DEF WriteManifest, WriteEvidence, WriteP01Evidence, WriteDocs, WriteP01Docs, Unwritten, Checked,
         DeploymentInv, RunInv
<1>2. ChainKept /\ ChainInv' /\ TestInv'
  BY <1>1, ChainUntouched DEF DeploymentInv, TestInv
<1>3. /\ Suite(run.wrapper, run.vaults, run.registry)
      /\ run.checked = OFFICIAL_VAULT_COUNT /\ Len(run.matched) = run.checked
      /\ \A i \in 1..run.checked : run.matched[i] = live[run.vaults[i]].version
      /\ run.mode.p01 => NotSuperseded(run.vaults)
  BY <1>1 DEF DeploymentInv, RunInv, RunDeploys, RunChecks, Checked, Deployed
<1>4. ASSUME NEW place \in Published, run' = [run EXCEPT !.pc = place]
      PROVE  /\ run' \in Run /\ run'.pc = place /\ RunDeploys' /\ RunChecks' /\ run'.mode = run.mode
             /\ run'.wrapper = run.wrapper /\ run'.vaults = run.vaults /\ run'.registry = run.registry
  <2>1. /\ run' \in Run /\ run'.pc = place /\ run'.wrapper = run.wrapper /\ run'.vaults = run.vaults
        /\ run'.registry = run.registry /\ run'.checked = run.checked /\ run'.matched = run.matched
        /\ run'.mode = run.mode
    BY <1>1, <1>4 DEF Run, Deployed, Published
  <2>2. Suite(run.wrapper, run.vaults, run.registry)'
    BY <1>1, <1>3, <2>1 DEF Suite, IsWrapper, IsVault, Taken
  <2>3. place \in Deployed /\ place \in Checked /\ place \notin {"load", "known", "reuse", "wrapper", "vaults"}
    BY <1>4 DEF Deployed, Checked, Published
  <2>4. RunDeploys'
    BY <2>1, <2>2, <2>3 DEF RunDeploys
  <2>5. RunChecks'
    BY <1>1, <1>3, <2>1, <2>3, DeploymentConfiguration DEF RunChecks, NotSuperseded
  <2> QED BY <2>1, <2>4, <2>5
<1>5. files = [f \in FileNames |-> files[f]]
  BY DEF DeploymentInv, FilesInv
<1>6. CASE WriteManifest
  <2>1. run' = [run EXCEPT !.pc = "evidence"] /\ UNCHANGED files
    BY <1>6 DEF WriteManifest
  <2>2. manifest' = [status |-> "DEPLOYED", wrapper |-> run.wrapper, registry |-> run.registry,
                     vaults |-> run.vaults, p01 |-> run.mode.p01]
    BY <1>6 DEF WriteManifest
  <2>3. /\ run' \in Run /\ run'.pc = "evidence" /\ RunDeploys' /\ RunChecks' /\ run'.mode = run.mode
        /\ run'.wrapper = run.wrapper /\ run'.vaults = run.vaults /\ run'.registry = run.registry
    BY <1>4, <2>1 DEF Published
  <2>4. RunWrites'
    BY <2>2, <2>3 DEF RunWrites
  <2>5. ManifestInv'
    <3>1. Suite(run.wrapper, run.vaults, run.registry)'
      BY <2>3 DEF RunDeploys, Deployed
    <3>2. Suite(manifest.wrapper, manifest.vaults, manifest.registry)'
      BY <2>2, <2>3, <3>1 DEF Suite, IsWrapper, IsVault, Taken
    <3> QED BY <1>3, <2>2, <3>2 DEF ManifestInv, NotSuperseded
  <2> QED BY <1>1, <1>2, <2>1, <2>3, <2>4, <2>5, FilesKept DEF DeploymentInv, RunInv
<1>7. CASE WriteEvidence
  <2>1. PICK place \in {"p01evidence", "docs"} :
          run' = [run EXCEPT !.pc = place] /\ place = IF run.mode.p01 THEN "p01evidence" ELSE "docs"
    BY <1>7 DEF WriteEvidence
  <2>2. UNCHANGED manifest /\ files' = [files EXCEPT !.evidence = EvidenceOf("official")] /\ run.pc = "evidence"
    BY <1>7 DEF WriteEvidence
  <2>3. /\ run' \in Run /\ run'.pc = place /\ RunDeploys' /\ RunChecks' /\ run'.mode = run.mode
        /\ run'.wrapper = run.wrapper /\ run'.vaults = run.vaults /\ run'.registry = run.registry
    BY <1>4, <2>1 DEF Published
  <2>4. /\ files' = [f \in FileNames |-> files'[f]]
        /\ files'.evidence = EvidenceOf("official") /\ files'.p01Evidence = files.p01Evidence
        /\ files'.smoke = files.smoke
    BY <1>5, <2>2 DEF FileNames
  <2>5. RunWrites'
    <3>1. EvidenceOf("official").manifest = manifest
      BY DEF EvidenceOf
    <3>2. manifest = [status |-> "DEPLOYED", wrapper |-> run.wrapper, registry |-> run.registry,
                      vaults |-> run.vaults, p01 |-> run.mode.p01]
      BY <2>2 DEF DeploymentInv, RunInv, RunWrites, Published
    <3> QED BY <2>1, <2>2, <2>3, <2>4, <3>1, <3>2 DEF RunWrites
  <2>6. FilesInv'
    BY <1>1, <1>2, <2>4, SuitesKept DEF DeploymentInv, FilesInv
  <2> QED BY <1>2, <2>2, <2>3, <2>5, <2>6, FilesKept DEF DeploymentInv, RunInv
<1>8. CASE WriteP01Evidence
  <2>1. /\ UNCHANGED manifest /\ run' = [run EXCEPT !.pc = "docs"] /\ run.pc = "p01evidence"
        /\ files' = [files EXCEPT !.p01Evidence = EvidenceOf("p01")]
    BY <1>8 DEF WriteP01Evidence
  <2>2. /\ run' \in Run /\ run'.pc = "docs" /\ RunDeploys' /\ RunChecks' /\ run'.mode = run.mode
        /\ run'.wrapper = run.wrapper /\ run'.vaults = run.vaults /\ run'.registry = run.registry
    BY <1>4, <2>1 DEF Published
  <2>3. PICK e : /\ e = EvidenceOf("p01") /\ e.manifest = manifest
                 /\ e.vaults = run.vaults /\ e.runtime = run.matched
    <3>1. PICK e : e = EvidenceOf("p01")
      OBVIOUS
    <3>2. e.manifest = manifest /\ e.vaults = run.vaults /\ e.runtime = run.matched
      BY <3>1 DEF EvidenceOf
    <3> QED BY <3>1, <3>2
  <2>4. /\ files' = [f \in FileNames |-> files'[f]]
        /\ files'.evidence = files.evidence /\ files'.p01Evidence = e
        /\ files'.smoke = files.smoke
    BY <1>5, <2>1, <2>3 DEF FileNames
  <2>5. RunWrites'
    BY <2>1, <2>2, <2>3, <2>4 DEF RunWrites, DeploymentInv, RunInv, Published
  <2>6. RuntimesAre(run.vaults, run.matched)
    BY <1>3 DEF RuntimesAre, Suite, IsVault, Ids
  <2>7. RuntimesAre(e.vaults, e.runtime)'
    BY <1>1, <2>3, <2>6 DEF RuntimesAre, Taken
  <2>8. FilesInv'
    BY <1>1, <2>4, <2>7 DEF DeploymentInv, FilesInv, RuntimesAre, Taken
  <2> QED BY <1>2, <2>1, <2>2, <2>5, <2>8, FilesKept DEF DeploymentInv, RunInv
<1>9. CASE WriteDocs
  <2>1. /\ UNCHANGED manifest /\ run.pc = "docs"
        /\ run' = IF run.mode.p01 THEN [run EXCEPT !.pc = "p01docs"] ELSE IdleRun
        /\ files' = [files EXCEPT !.docs = [present |-> TRUE, manifest |-> manifest, evidence |-> files.evidence]]
    BY <1>9 DEF WriteDocs
  <2>2. /\ files' = [f \in FileNames |-> files'[f]]
        /\ files'.evidence = files.evidence /\ files'.p01Evidence = files.p01Evidence
        /\ files'.smoke = files.smoke /\ files'.docs.manifest = manifest /\ files'.docs.evidence = files.evidence
    BY <1>5, <2>1 DEF FileNames
  <2>3. FilesInv'
    BY <1>1, <1>2, <2>2, SuitesKept DEF DeploymentInv, FilesInv
  <2>4. RunInv'
    <3>1. CASE run' = IdleRun
      BY <3>1, RunEnds
    <3>2. CASE run.mode.p01 /\ run' = [run EXCEPT !.pc = "p01docs"]
      <4>1. /\ run' \in Run /\ run'.pc = "p01docs" /\ RunDeploys' /\ RunChecks' /\ run'.mode = run.mode
            /\ run'.wrapper = run.wrapper /\ run'.vaults = run.vaults /\ run'.registry = run.registry
        BY <1>4, <3>2 DEF Published
      <4>2. RunWrites'
        BY <2>1, <2>2, <3>2, <4>1 DEF RunWrites, DeploymentInv, RunInv, Published
      <4> QED BY <4>1, <4>2 DEF RunInv
    <3> QED BY <2>1, <3>1, <3>2
  <2> QED BY <1>2, <2>1, <2>3, <2>4, FilesKept DEF DeploymentInv
<1>10. CASE WriteP01Docs
  <2>1. UNCHANGED manifest /\ run' = IdleRun
    BY <1>10 DEF WriteP01Docs
  <2>2. /\ files' = [f \in FileNames |-> files'[f]]
        /\ files'.p01Evidence = files.p01Evidence /\ files'.smoke = files.smoke
    BY <1>5, <1>10 DEF FileNames, WriteP01Docs
  <2>3. FilesInv'
    BY <1>1, <1>2, <2>2, SuitesKept DEF DeploymentInv, FilesInv
  <2> QED BY <1>2, <2>1, <2>3, RunEnds, FilesKept DEF DeploymentInv
<1> QED BY <1>6, <1>7, <1>8, <1>9, <1>10

\* The smoke test: its file is written after the unit has gone in and out.
LEMMA TestingKeeps ==
  ASSUME DeploymentInv, BeginTest \/ TestDeposits \/ TestWithdraws \/ WriteSmoke \/ TestFails
  PROVE  DeploymentInv'
<1>1. UNCHANGED <<live, nonce, artifacts, manifest, run>>
  BY DEF BeginTest, TestDeposits, TestWithdraws, WriteSmoke, TestFails, TestState
<1>2. ChainKept /\ ChainInv' /\ ManifestInv'
  BY <1>1, ChainUntouched, FilesKept
<1>3. /\ test = [pc |-> test.pc, manifest |-> test.manifest]
      /\ files = [f \in FileNames |-> files[f]]
  BY DEF DeploymentInv, TestInv, FilesInv
<1>4. TestInv' /\ smoked \subseteq smoked'
  <2>1. CASE BeginTest
    BY <2>1 DEF BeginTest, TestInv
  <2>2. CASE TestDeposits
    <3>1. UNCHANGED smoked
      BY <2>2 DEF TestDeposits
    <3>2. test' = [test EXCEPT !.pc = "withdraw"] \/ test' = IdleTest
      BY <2>2 DEF TestDeposits
    <3> QED BY <1>3, <3>1, <3>2 DEF TestInv, IdleTest
  <2>3. CASE TestWithdraws
    <3>1. smoked' = smoked \cup {test.manifest.registry} /\ test' = [test EXCEPT !.pc = "write"]
      BY <2>3 DEF TestWithdraws
    <3> QED BY <1>3, <3>1 DEF TestInv
  <2>4. CASE WriteSmoke \/ TestFails
    BY <2>4 DEF WriteSmoke, TestFails, TestInv, IdleTest
  <2> QED BY <2>1, <2>2, <2>3, <2>4
<1>5. /\ files' = [f \in FileNames |-> files'[f]]
      /\ files'.evidence = files.evidence /\ files'.p01Evidence = files.p01Evidence /\ files'.docs = files.docs
      /\ files'.smoke.present => files'.smoke.registry \in smoked'
  <2>1. CASE UNCHANGED files
    BY <1>3, <1>4, <2>1 DEF DeploymentInv, FilesInv
  <2>2. CASE WriteSmoke
    <3>1. PICK s : s = [present |-> TRUE, manifest |-> test.manifest, registry |-> test.manifest.registry]
      OBVIOUS
    <3>2. files' = [files EXCEPT !.smoke = s] /\ test.pc = "write"
      BY <2>2, <3>1 DEF WriteSmoke
    <3>3. s.registry \in smoked'
      BY <1>4, <3>1, <3>2 DEF DeploymentInv, TestInv
    <3>4. /\ files' = [f \in FileNames |-> files'[f]] /\ files'.smoke = s
          /\ files'.evidence = files.evidence /\ files'.p01Evidence = files.p01Evidence /\ files'.docs = files.docs
      BY <1>3, <3>2 DEF FileNames
    <3> QED BY <3>3, <3>4
  <2> QED BY <2>1, <2>2 DEF BeginTest, TestDeposits, TestWithdraws, TestFails
<1>6. FilesInv'
  BY <1>2, <1>5, SuitesKept DEF DeploymentInv, FilesInv
<1>7. RunInv'
  BY <1>1, <1>2, <1>5, RunKept
<1> QED BY <1>2, <1>4, <1>6, <1>7 DEF DeploymentInv

\* The freeze, its record, recompilations and other transactions.
LEMMA FreezingKeeps ==
  ASSUME DeploymentInv,
         \/ GenerateFreeze \/ Refreeze
         \/ \E version \in Versions : Recompile(version)
         \/ OtherTransaction
  PROVE  DeploymentInv'
<1>1. UNCHANGED <<live, manifest, run, test, smoked>> /\ (~ OtherTransaction => UNCHANGED nonce)
  BY DEF GenerateFreeze, Refreeze, Recompile, OtherTransaction, FreezeState
<1>2. ChainKept /\ ChainInv'
  <2>1. CASE OtherTransaction
    <3>1. /\ nonce \in 0 .. MaxNonce /\ nonce < MaxNonce /\ nonce' = nonce + 1 /\ UNCHANGED <<live, artifacts>>
      BY <2>1 DEF OtherTransaction, DeploymentInv, ChainInv
    <3>2. nonce \in Nat /\ nonce' \in Nat /\ nonce <= nonce' /\ nonce' \in 0 .. MaxNonce
      BY <3>1, DeploymentConfiguration
    <3>3. ChainKept
      BY <3>1, <3>2 DEF ChainKept
    <3>4. \A a \in Taken : a \in Taken'
      BY <3>3, SuitesKept DEF DeploymentInv
    <3> QED BY <3>1, <3>2, <3>3, <3>4 DEF DeploymentInv, ChainInv
  <2>2. CASE ~ OtherTransaction
    <3>1. artifacts'.current \in Versions
      BY <2>2 DEF GenerateFreeze, Refreeze, Recompile, DeploymentInv, ChainInv
    <3>2. ChainKept
      BY <1>1, <2>2, ChainUntouched
    <3> QED BY <1>1, <2>2, <3>1, <3>2 DEF DeploymentInv, ChainInv, Taken
  <2> QED BY <2>1, <2>2
<1>3. files = [f \in FileNames |-> files[f]]
  BY DEF DeploymentInv, FilesInv
<1>4. /\ files' = [f \in FileNames |-> files'[f]]
      /\ files'.evidence = files.evidence /\ files'.p01Evidence = files.p01Evidence /\ files'.docs = files.docs
      /\ files'.smoke = files.smoke
  <2>1. CASE UNCHANGED files
    BY <1>3, <2>1
  <2>2. CASE GenerateFreeze
    <3>1. PICK freeze : files' = [files EXCEPT !.freeze = freeze]
      BY <2>2 DEF GenerateFreeze
    <3> QED BY <1>3, <3>1 DEF FileNames
  <2>3. CASE Refreeze
    <3>1. PICK refreeze : files' = [files EXCEPT !.refreeze = refreeze]
      BY <2>3 DEF Refreeze
    <3> QED BY <1>3, <3>1 DEF FileNames
  <2> QED BY <2>1, <2>2, <2>3 DEF Recompile, OtherTransaction
<1>5. FilesInv'
  BY <1>1, <1>2, <1>4, SuitesKept DEF DeploymentInv, FilesInv
<1>6. RunInv'
  BY <1>1, <1>2, <1>4, RunKept
<1> QED BY <1>1, <1>2, <1>5, <1>6, FilesKept DEF DeploymentInv, TestInv

LEMMA DeploymentStarts ==
  ASSUME DeploymentInit
  PROVE  DeploymentInv
<1>1. run = IdleRun /\ test = IdleTest /\ files = NoFiles
  BY DEF DeploymentInit, DeploymentIdle
<1>2. RunInv
  <2>1. run \in Run /\ run.pc = "idle" /\ run.checked = 0 /\ run.matched = <<>> /\ Len(run.matched) = 0
    BY <1>1, IdleRunIs
  <2> QED BY <2>1, DeploymentConfiguration DEF RunInv, RunDeploys, RunChecks, RunWrites, Deployed, Checked, Published
<1>3. FilesInv /\ TestInv
  <2>1. ~ NoFiles.p01Evidence.present /\ ~ NoFiles.smoke.present
    BY DEF NoFiles, NoFile
  <2>2. NoFiles = [f \in FileNames |-> NoFiles[f]]
    BY DEF NoFiles, FileNames
  <2>3. TestInv
    BY <1>1 DEF TestInv, IdleTest
  <2> QED BY <1>1, <2>1, <2>2, <2>3 DEF FilesInv
<1>4. CASE NothingDeployed
  <2>1. NoContract \in Contract /\ NoContract.kind = "none"
    <3>1. <<>> \in Seq(Int) /\ {} \in SUBSET Ids
      OBVIOUS
    <3> QED BY <3>1 DEF NoContract, Contract, Versions, NoAddress
  <2>2. ChainInv
    BY <1>4, <2>1, DeploymentConfiguration DEF ChainInv, NothingDeployed, Versions
  <2>3. ManifestInv
    BY <1>4 DEF ManifestInv, NothingDeployed
  <2> QED BY <1>2, <1>3, <2>2, <2>3 DEF DeploymentInv
<1>5. CASE FirstSuiteDeployed
  <2>1. NoContract \in Contract /\ NoContract.kind = "none"
    <3>1. <<>> \in Seq(Int) /\ {} \in SUBSET Ids
      OBVIOUS
    <3> QED BY <3>1 DEF NoContract, Contract, Versions, NoAddress
  <2>2. ASSUME NEW a \in Addresses PROVE KnownContract(a) \in Contract
    <3>1. KnownVaults \in Seq(Int)
      BY DeploymentConfiguration DEF KnownVaults, Ids
    <3>2. a \in Nat /\ "original" \in Versions /\ REUSED_WRAPPER \in Int
      BY DeploymentConfiguration DEF Addresses, Versions, REUSED_WRAPPER
    <3> QED BY <3>1, <3>2, Constructed DEF KnownContract
  <2>3. OLD_REGISTRY \in Nat /\ nonce = OLD_REGISTRY + 1 /\ nonce \in 0 .. MaxNonce
    BY <1>5, DeploymentConfiguration DEF FirstSuiteDeployed, OLD_REGISTRY
  <2>4. live = [a \in Addresses |-> IF a <= OLD_REGISTRY THEN KnownContract(a) ELSE NoContract]
    BY <1>5 DEF FirstSuiteDeployed
  <2>5. live \in [Addresses -> Contract]
    BY <2>1, <2>2, <2>4
  <2>6. ASSUME NEW a \in Addresses, live[a].kind # "none" PROVE a \in Taken
    <3>1. a <= OLD_REGISTRY
      BY <2>1, <2>4, <2>6
    <3> QED BY <2>3, <3>1, DeploymentConfiguration DEF Taken, Addresses
  <2>7. ChainInv
    BY <1>5, <2>3, <2>5, <2>6 DEF ChainInv, FirstSuiteDeployed, Versions
  <2>8. \A address \in 0 .. OLD_REGISTRY : recordKnownDeployment(address)
    <3>1. 0 .. OLD_REGISTRY \subseteq Addresses
      BY DeploymentConfiguration DEF OLD_REGISTRY, Addresses
    <3>2. ASSUME NEW a \in 0 .. OLD_REGISTRY PROVE live[a] = KnownContract(a)
      BY <2>3, <2>4, <3>1
    <3>3. ASSUME NEW c \in Contract PROVE c = [c EXCEPT !.active = c.active]
      BY DEF Contract
    <3> QED BY <2>2, <3>1, <3>2, <3>3 DEF recordKnownDeployment
  <2>9. Suite(REUSED_WRAPPER, KnownVaults, OLD_REGISTRY)
    BY <2>7, <2>8, KnownSuite
  <2>10. ManifestInv
    BY <1>5, <2>9 DEF ManifestInv, FirstSuiteDeployed
  <2> QED BY <1>2, <1>3, <2>7, <2>10 DEF DeploymentInv
<1> QED BY <1>4, <1>5 DEF DeploymentInit

\* What the script of the official deployment, its smoke test and the freeze
\* maintain, whichever runs fail, whoever else uses the deployer's nonces.
THEOREM DeploymentInvariant == DeploymentSpec => []DeploymentInv
<1>1. DeploymentInit => DeploymentInv
  BY DeploymentStarts
<1>2. DeploymentInv /\ [DeploymentNext]_deploymentVars => DeploymentInv'
  <2> SUFFICES ASSUME DeploymentInv, [DeploymentNext]_deploymentVars PROVE DeploymentInv'
    OBVIOUS
  <2>1. CASE DeploymentStep
    BY <2>1, Beginning, Reading, DeploymentKeeps, CheckingKeeps, WritingKeeps DEF DeploymentStep
  <2>2. CASE BeginTest \/ TestDeposits \/ TestWithdraws \/ WriteSmoke \/ TestFails
    BY <2>2, TestingKeeps
  <2>3. CASE GenerateFreeze \/ Refreeze \/ (\E version \in Versions : Recompile(version)) \/ OtherTransaction
    BY <2>3, FreezingKeeps
  <2>4. CASE \E registry \in Addresses, id \in Ids, mark \in BOOLEAN : setOfficialVaultActive(registry, id, mark)
    BY <2>4, MarkingKeeps
  <2>5. CASE UNCHANGED deploymentVars
    <3>1. UNCHANGED <<live, nonce, artifacts, manifest, files, run, test, smoked>>
      BY <2>5 DEF deploymentVars
    <3>2. ChainKept /\ ChainInv'
      BY <3>1, ChainUntouched
    <3> QED BY <3>1, <3>2, FilesKept, RunKept DEF DeploymentInv, TestInv
  <2> QED BY <2>1, <2>2, <2>3, <2>4, <2>5 DEF DeploymentNext
<1> QED BY <1>1, <1>2, PTL DEF DeploymentSpec

\* The manifest names one suite at all times after a deployment, and no
\* superseded vault if it claims to be the P-01 redeployment.
THEOREM PublishedSuite == DeploymentSpec => []PublishedIsOneSuite
<1>1. DeploymentInv => PublishedIsOneSuite
  <2> SUFFICES ASSUME DeploymentInv, manifest.status = "DEPLOYED" PROVE PublishedIsOneSuite
    BY DEF PublishedIsOneSuite
  <2>1. manifest # NoManifest
    BY DEF NoManifest
  <2>2. /\ Suite(manifest.wrapper, manifest.vaults, manifest.registry)
        /\ manifest.p01 => NotSuperseded(manifest.vaults)
    BY <2>1 DEF DeploymentInv, ManifestInv
  <2>3. OneSuite
    BY <2>2 DEF OneSuite, Suite, IsWrapper, IsVault
  <2> QED BY <2>2, <2>3 DEF PublishedIsOneSuite, NotSuperseded, DeploymentInv, RunInv, RunWrites
<1> QED BY <1>1, DeploymentInvariant, PTL

\* What both validators accept from the files alone is so on the chain.
THEOREM SoundRelease == DeploymentSpec => []ReleaseIsSound
<1>1. DeploymentInv => ReleaseIsSound
  <2> SUFFICES ASSUME DeploymentInv, contractFreezeValid, productionReleaseValid PROVE ReleaseIsSound
    BY DEF ReleaseIsSound
  <2>1. Len(manifest.vaults) = OFFICIAL_VAULT_COUNT
    BY DEF contractFreezeValid
  <2>2. manifest # NoManifest
    BY <2>1, DeploymentConfiguration DEF NoManifest
  <2>3. Suite(manifest.wrapper, manifest.vaults, manifest.registry)
    BY <2>2 DEF DeploymentInv, ManifestInv
  <2>4. OneSuite
    BY <2>3 DEF OneSuite, Suite, IsWrapper, IsVault
  <2>5. /\ files.p01Evidence.present
        /\ \A i \in Ids : /\ files.p01Evidence.vaults[i] = manifest.vaults[i]
                          /\ Bytes(files.p01Evidence.runtime[i]) = CorrectedBytes
    BY DEF contractFreezeValid, redeploymentMatches
  <2>6. \A i \in Ids : Bytes(live[manifest.vaults[i]].version) = CorrectedBytes
    BY <2>5 DEF DeploymentInv, FilesInv, RuntimesAre
  <2>7. Bytes(files.freeze.version) = CorrectedBytes /\ \A i \in Ids : manifest.vaults[i] \notin OLD_VAULTS
    BY DEF productionReleaseValid
  <2>8. manifest.registry \in smoked
    BY DEF contractFreezeValid, smokeMatches, DeploymentInv, FilesInv
  <2> QED BY <2>4, <2>6, <2>7, <2>8 DEF ReleaseIsSound
<1> QED BY <1>1, DeploymentInvariant, PTL

-----------------------------------------------------------------------------
(* The live closure. *)

Drawing == {"AGGREGATE_FINALIZED", "CANDIDATE_VALIDITY_PENDING", "CANDIDATE_REJECTED", "TICKET_ACCEPTED"}
Undrawn == {"UNINITIALIZED", "OPEN", "AGGREGATE_PENDING", "EMPTY"} \cup Drawing
Drawn == {"RECONCILIATION_PENDING", "READY_TO_ALLOCATE"}

Work == [Parties -> Nat]

Round == [state : Undrawn \cup Drawn \cup {"WINNER_PROCESSING", "ALLOCATION_PROCESSING", "WINNINGS_ALLOCATED", "SETTLED"},
          members : SUBSET Parties, weighted : BOOLEAN, selectedBy : Work, allocatedBy : Work,
          winner : Parties \cup {"none"}, refunded : SUBSET Parties]

\* Nobody has done anything yet; everybody has been through selection, and through allocation.
Untouched(x) == x.selectedBy = Nobody /\ x.allocatedBy = Nobody /\ x.winner = "none"
AllSelected(x) == Total(x.selectedBy) = Cardinality(x.members) /\ x.winner \in x.members
AllAllocated(x) == Total(x.allocatedBy) = Cardinality(x.members)

\* How far a round is, by its state.
RoundInv(x) ==
  /\ x \in Round
  /\ x.weighted => x.members # {}
  /\ x.state \in Undrawn => Untouched(x)
  /\ x.state \in Drawing => x.weighted
  /\ x.state = "WINNER_PROCESSING" => /\ Total(x.selectedBy) < Cardinality(x.members)
                                      /\ x.allocatedBy = Nobody /\ x.winner = "none"
  /\ x.state \in Drawn => AllSelected(x) /\ x.allocatedBy = Nobody
  /\ x.state = "ALLOCATION_PROCESSING" => AllSelected(x) /\ Total(x.allocatedBy) < Cardinality(x.members)
  /\ x.state = "WINNINGS_ALLOCATED" => AllSelected(x) /\ AllAllocated(x)
  /\ x.state = "SETTLED" => Untouched(x) \/ (AllSelected(x) /\ AllAllocated(x))

\* One round is open at a time, and the later ones have not begun.
VaultInv ==
  /\ active \in RoundIds
  /\ rounds \in [RoundIds -> Round]
  /\ credit \in [Parties -> Nat]
  /\ \A r \in RoundIds : RoundInv(rounds[r])
  /\ \A r \in RoundIds : /\ r = active <=> State(r) = "OPEN"
                         /\ r > active => rounds[r] = Unopened

\* Where the script waits for its first round to be paid out, and where that round is behind it.
BeforeResults == {"setup", "registerA", "registerB", "sponsor", "wait", "close", "aggregate", "empty",
                  "finalizeAggregate", "generate", "generated", "validity", "judged", "ticket", "select",
                  "selected", "reconcile", "allocate", "finalize", "ledger"}
Unpaid(d) == d.round = 1 /\ d.pc \in BeforeResults \cup {"results", "credits", "payouts"}
AfterIsolation == {"payout2", "unshield", "evidence", "sidecar", "passed"}
SecondRound(d) == d.round = 2

Driver == [pc : BeforeResults \cup {"results", "credits", "payouts", "registerA2", "absence", "isolation", "failed"}
                  \cup AfterIsolation,
           round : {1, 2}, tries : Nat]

\* What the script knows of the contracts where it is: strangers cannot make it untrue.
Knows(d) ==
  /\ d.pc \in {"isolation"} \cup AfterIsolation => d.round = 2
  /\ d.pc \in {"setup", "registerA", "registerB", "sponsor", "results", "credits", "payouts", "registerA2", "absence"}
       => d.round = 1
  /\ d.pc \notin {"setup", "registerA", "failed"} => "A" \in rounds[1].members
  /\ d.pc \notin {"setup", "registerA", "registerB", "failed"} => "B" \in rounds[1].members
  /\ d.pc = "ledger" => State(d.round) = "SETTLED"
  /\ d.pc \in {"results", "credits", "payouts", "registerA2", "absence"} \/ SecondRound(d)
       => State(1) = "SETTLED"
  /\ d.pc \in {"credits", "payouts", "registerA2", "absence"} \/ SecondRound(d)
       => rounds[1].winner \in {"A", "B"}
  /\ d.pc \in {"payouts", "registerA2", "absence"} \/ SecondRound(d)
       => rounds[1].selectedBy["B"] = 2 /\ rounds[1].allocatedBy["A"] = 2
  /\ d.pc = "absence" \/ SecondRound(d) => "A" \in rounds[2].members
  /\ d.pc \in {"isolation"} \cup AfterIsolation => State(2) = "SETTLED"
  /\ d.pc \in AfterIsolation => /\ Count(2) = 1
                                /\ Total(rounds[2].selectedBy) = 1 /\ Total(rounds[2].allocatedBy) = 1

\* Until they are paid, the credits of A and B are their work on the first round.
CreditsAre(d) ==
  Unpaid(d) => credit["A"] = rounds[1].allocatedBy["A"] /\ credit["B"] = rounds[1].selectedBy["B"]

DriverInv ==
  /\ driver \in Driver
  /\ Knows(driver)
  /\ CreditsAre(driver)
  /\ closureFiles # {} => driver.pc \in {"sidecar", "passed"}

ClosureInv == VaultInv /\ DriverInv

-----------------------------------------------------------------------------
\* A round goes on: nobody leaves it, and once it is settled it stays as it is.
Later(x, y) ==
  /\ x.members \subseteq y.members
  /\ x.state = "SETTLED" => /\ y.state = "SETTLED" /\ y.members = x.members /\ y.winner = x.winner
                            /\ y.selectedBy = x.selectedBy /\ y.allocatedBy = x.allocatedBy

LEMMA KnowledgeKept ==
  ASSUME VaultInv, \A r \in RoundIds : Later(rounds[r], rounds'[r]), NEW d \in Driver, Knows(d)
  PROVE  Knows(d)'
<1>1. 1 \in RoundIds /\ 2 \in RoundIds /\ d.round \in RoundIds
  BY DEF RoundIds, Driver
<1>2. /\ Later(rounds[1], rounds'[1]) /\ Later(rounds[2], rounds'[2])
      /\ Later(rounds[d.round], rounds'[d.round])
  BY <1>1
<1>3. Knows(d)
  OBVIOUS
<1> QED BY <1>2, <1>3 DEF Knows, Later, State, Count, SecondRound, AfterIsolation

LEMMA PartiesFinite == IsFiniteSet(Parties)
<1>1. IsFiniteSet({"A"})
  BY FS_Singleton
<1>2. IsFiniteSet({"A"} \cup {"B"})
  BY <1>1, FS_AddElement
<1>3. IsFiniteSet(({"A"} \cup {"B"}) \cup {"stranger"})
  BY <1>2, FS_AddElement
<1>4. Parties = ({"A"} \cup {"B"}) \cup {"stranger"}
  BY DEF Parties
<1> QED BY <1>3, <1>4

LEMMA Counting ==
  /\ \A w \in Work : Total(w) \in Nat
  /\ Total(Nobody) = 0 /\ Nobody \in Work
  /\ \A w \in Work, p \in Parties, n \in Nat :
       [w EXCEPT ![p] = @ + n] \in Work /\ Total([w EXCEPT ![p] = @ + n]) = Total(w) + n
  /\ \A members \in SUBSET Parties : Cardinality(members) \in Nat /\ (members # {} => Cardinality(members) > 0)
<1>1. \A w \in Work : Total(w) \in Nat
  BY DEF Work, Parties, Total
<1>2. Total(Nobody) = 0 /\ Nobody \in Work
  BY DEF Work, Parties, Total, Nobody
<1>3. ASSUME NEW w \in Work, NEW p \in Parties, NEW n \in Nat
      PROVE  [w EXCEPT ![p] = @ + n] \in Work /\ Total([w EXCEPT ![p] = @ + n]) = Total(w) + n
  <2>1. w["A"] \in Nat /\ w["B"] \in Nat /\ w["stranger"] \in Nat /\ w[p] \in Nat
    BY DEF Work, Parties
  <2>2. CASE p = "A"
    BY <2>1, <2>2 DEF Work, Parties, Total
  <2>3. CASE p = "B"
    BY <2>1, <2>3 DEF Work, Parties, Total
  <2>4. CASE p = "stranger"
    BY <2>1, <2>4 DEF Work, Parties, Total
  <2> QED BY <2>2, <2>3, <2>4 DEF Parties
<1>4. ASSUME NEW members \in SUBSET Parties
      PROVE  Cardinality(members) \in Nat /\ (members # {} => Cardinality(members) > 0)
  <2>1. IsFiniteSet(members)
    BY PartiesFinite, FS_Subset
  <2>2. Cardinality(members) \in Nat /\ (Cardinality(members) = 0 <=> members = {})
    BY <2>1, FS_CardinalityType, FS_EmptySet
  <2> QED BY <2>2
<1> QED BY <1>1, <1>2, <1>3, <1>4

\* One round goes on, and no other.
LEMMA OneRound ==
  ASSUME VaultInv, NEW r \in RoundIds, NEW x, RoundInv(x), x.state = "OPEN" <=> rounds[r].state = "OPEN",
         rounds' = [rounds EXCEPT ![r] = x], UNCHANGED active, credit' \in [Parties -> Nat],
         rounds[r].state # "UNINITIALIZED", Later(rounds[r], x)
  PROVE  /\ VaultInv' /\ rounds'[r] = x /\ \A s \in RoundIds \ {r} : rounds'[s] = rounds[s]
         /\ \A s \in RoundIds : Later(rounds[s], rounds'[s])
<1>1. rounds \in [RoundIds -> Round] /\ x \in Round
  BY DEF VaultInv, RoundInv
<1>2. rounds' \in [RoundIds -> Round] /\ rounds'[r] = x /\ \A s \in RoundIds \ {r} : rounds'[s] = rounds[s]
  BY <1>1
<1>3. ASSUME NEW s \in RoundIds
      PROVE  RoundInv(rounds'[s]) /\ Later(rounds[s], rounds'[s]) /\ (State(s) = "OPEN")' = (State(s) = "OPEN")
  <2>1. CASE s = r
    BY <1>2, <2>1 DEF State
  <2>2. CASE s # r
    BY <1>2, <2>2 DEF State, Later, VaultInv
  <2> QED BY <2>1, <2>2
<1>4. ~ (r > active)
  BY DEF VaultInv, Unopened
<1>5. \A s \in RoundIds : RoundInv(rounds[s])'
  BY <1>3 DEF RoundInv, Untouched, AllSelected, AllAllocated
<1>6. \A s \in RoundIds : /\ s = active' <=> State(s)' = "OPEN"
                          /\ s > active' => rounds'[s] = Unopened
  BY <1>2, <1>3, <1>4 DEF VaultInv
<1> QED BY <1>2, <1>3, <1>5, <1>6 DEF VaultInv

LEMMA Registering ==
  ASSUME VaultInv, NEW r \in RoundIds, NEW by \in Parties, Execute(Call("registerForRound", r, by))
  PROVE  /\ VaultInv' /\ (\A s \in RoundIds : Later(rounds[s], rounds'[s])) /\ UNCHANGED credit
         /\ \A s \in RoundIds : rounds'[s].selectedBy = rounds[s].selectedBy /\ rounds'[s].allocatedBy = rounds[s].allocatedBy
         /\ by \in rounds'[r].members
<1> DEFINE call == Call("registerForRound", r, by)
<1>1. call.name = "registerForRound" /\ call.round = r /\ call.by = by
  BY DEF Call
<1>2. /\ r = active /\ State(r) = "OPEN"
  BY <1>1 DEF Execute, Accepted, IsOpen
<1>3. Units(call) = {0} /\ \A n : After(call, n) = {[rounds[r] EXCEPT !.members = @ \cup {by}]}
  BY <1>1 DEF Units, After
<1>4. /\ rounds' = [rounds EXCEPT ![r] = [rounds[r] EXCEPT !.members = @ \cup {by}]]
      /\ credit' = [credit EXCEPT ![by] = @ + 0] /\ UNCHANGED active
  <2> HIDE DEF call
  <2>1. Execute(call)
    BY DEF call
  <2>2. PICK n \in Units(call) : /\ \E after \in After(call, n) : rounds' = [rounds EXCEPT ![r] = after]
                                 /\ credit' = [credit EXCEPT ![by] = @ + n]
    BY <1>1, <2>1 DEF Execute
  <2>3. UNCHANGED active
    BY <1>1, <2>1 DEF Execute
  <2> QED BY <1>3, <2>2, <2>3
<1>5. PICK x : x = [rounds[r] EXCEPT !.members = @ \cup {by}]
  OBVIOUS
<1>6. rounds[r] \in Round /\ RoundInv(rounds[r]) /\ credit \in [Parties -> Nat]
  BY DEF VaultInv
<1>7. UNCHANGED credit
  BY <1>4, <1>6
<1>8. /\ x \in Round /\ x.state = rounds[r].state /\ x.members = rounds[r].members \cup {by}
      /\ x.weighted = rounds[r].weighted /\ x.selectedBy = rounds[r].selectedBy
      /\ x.allocatedBy = rounds[r].allocatedBy /\ x.winner = rounds[r].winner
  BY <1>5, <1>6 DEF Round
<1>9. RoundInv(x)
  BY <1>2, <1>6, <1>8 DEF RoundInv, State, Undrawn, Drawing, Drawn, Untouched
<1>10. Later(rounds[r], x)
  BY <1>2, <1>8 DEF Later, State
<1>11. /\ VaultInv' /\ rounds'[r] = x /\ \A s \in RoundIds \ {r} : rounds'[s] = rounds[s]
       /\ \A s \in RoundIds : Later(rounds[s], rounds'[s])
  <2>1. /\ rounds' = [rounds EXCEPT ![r] = x] /\ credit' \in [Parties -> Nat] /\ UNCHANGED active
        /\ x.state = "OPEN" /\ rounds[r].state = "OPEN" /\ rounds[r].state # "UNINITIALIZED"
    BY <1>2, <1>4, <1>5, <1>6, <1>7, <1>8 DEF State
  <2> QED BY <1>9, <1>10, <2>1, OneRound
<1> QED BY <1>7, <1>8, <1>11

\* closeRound closes the active round and opens the next.
LEMMA Closing ==
  ASSUME VaultInv, NEW r \in RoundIds, NEW by \in Parties, Execute(Call("closeRound", r, by))
  PROVE  /\ VaultInv' /\ (\A s \in RoundIds : Later(rounds[s], rounds'[s])) /\ UNCHANGED credit
         /\ \A s \in RoundIds : rounds'[s].selectedBy = rounds[s].selectedBy /\ rounds'[s].allocatedBy = rounds[s].allocatedBy
<1> DEFINE call == Call("closeRound", r, by)
<1>1. call.name = "closeRound" /\ call.round = r /\ call.by = by
  BY DEF Call
<1>2. active + 1 \in RoundIds /\ active' = active + 1 /\ active \in RoundIds
  BY <1>1 DEF Execute, Accepted, VaultInv
<1>3. Units(call) = {0}
      /\ \A n : After(call, n) = {[rounds[active] EXCEPT !.state = "AGGREGATE_PENDING", !.weighted = w] :
                                     w \in IF rounds[active].members = {} THEN {FALSE} ELSE BOOLEAN}
  BY <1>1 DEF Units, After
<1>4. PICK w \in IF rounds[active].members = {} THEN {FALSE} ELSE BOOLEAN :
        rounds' = [rounds EXCEPT ![active] = [rounds[active] EXCEPT !.state = "AGGREGATE_PENDING", !.weighted = w],
                                 ![active + 1] = Opened]
  <2>1. PICK after \in After(call, 0) : rounds' = [rounds EXCEPT ![active] = after, ![active + 1] = Opened]
    BY <1>1, <1>3 DEF Execute
  <2>2. PICK w \in IF rounds[active].members = {} THEN {FALSE} ELSE BOOLEAN :
          after = [rounds[active] EXCEPT !.state = "AGGREGATE_PENDING", !.weighted = w]
    <3>1. after \in {[rounds[active] EXCEPT !.state = "AGGREGATE_PENDING", !.weighted = w] :
                        w \in IF rounds[active].members = {} THEN {FALSE} ELSE BOOLEAN}
      BY <1>3, <2>1
    <3> QED BY <3>1
  <2> QED BY <2>1, <2>2
<1>5. credit' = [credit EXCEPT ![by] = @ + 0]
  BY <1>1, <1>3 DEF Execute
<1>6. /\ rounds[active] \in Round /\ RoundInv(rounds[active]) /\ credit \in [Parties -> Nat]
      /\ rounds \in [RoundIds -> Round] /\ State(active) = "OPEN"
  BY <1>2 DEF VaultInv
<1>7. UNCHANGED credit
  BY <1>5, <1>6
<1>8. PICK x : x = [rounds[active] EXCEPT !.state = "AGGREGATE_PENDING", !.weighted = w]
  OBVIOUS
<1>9. /\ x \in Round /\ x.state = "AGGREGATE_PENDING" /\ x.members = rounds[active].members
      /\ x.weighted = w /\ x.selectedBy = rounds[active].selectedBy
      /\ x.allocatedBy = rounds[active].allocatedBy /\ x.winner = rounds[active].winner
  BY <1>4, <1>6, <1>8 DEF Round, Undrawn
<1>10. RoundInv(x)
  BY <1>4, <1>6, <1>9 DEF RoundInv, State, Undrawn, Drawing, Drawn, Untouched
<1>11. Opened \in Round /\ RoundInv(Opened) /\ Opened.state = "OPEN" /\ Opened.members = {}
       /\ Opened.selectedBy = Nobody /\ Opened.allocatedBy = Nobody
  <2>1. /\ Opened.state = "OPEN" /\ Opened.members = {} /\ Opened.weighted = FALSE /\ Opened.winner = "none"
        /\ Opened.selectedBy = Nobody /\ Opened.allocatedBy = Nobody
    BY DEF Opened, Unopened
  <2>2. Opened \in Round
    BY Counting DEF Opened, Unopened, Round, Undrawn
  <2> QED BY <2>1, <2>2 DEF RoundInv, Untouched, Undrawn, Drawing, Drawn
<1>12. active # active + 1 /\ active + 1 > active
  BY <1>2 DEF RoundIds
<1>13. /\ rounds' \in [RoundIds -> Round] /\ rounds'[active] = x /\ rounds'[active + 1] = Opened
       /\ \A s \in RoundIds \ {active, active + 1} : rounds'[s] = rounds[s]
  BY <1>2, <1>4, <1>6, <1>8, <1>9, <1>11, <1>12
<1>14. rounds[active + 1] = Unopened
  BY <1>2, <1>12 DEF VaultInv
<1>15. ASSUME NEW s \in RoundIds
       PROVE  /\ RoundInv(rounds'[s]) /\ Later(rounds[s], rounds'[s])
              /\ rounds'[s].selectedBy = rounds[s].selectedBy /\ rounds'[s].allocatedBy = rounds[s].allocatedBy
              /\ s = active + 1 <=> rounds'[s].state = "OPEN"
              /\ s > active + 1 => rounds'[s] = Unopened
  <2>1. CASE s = active
    BY <1>2, <1>6, <1>9, <1>10, <1>12, <1>13, <2>1 DEF Later, State, RoundIds
  <2>2. CASE s = active + 1
    BY <1>2, <1>11, <1>12, <1>13, <1>14, <2>2 DEF Later, Unopened, RoundIds
  <2>3. CASE s # active /\ s # active + 1
    BY <1>2, <1>13, <2>3 DEF Later, State, RoundIds, VaultInv
  <2> QED BY <2>1, <2>2, <2>3
<1>16. \A s \in RoundIds : RoundInv(rounds[s])'
  BY <1>15 DEF RoundInv, Untouched, AllSelected, AllAllocated
<1>17. VaultInv'
  BY <1>2, <1>6, <1>7, <1>13, <1>15, <1>16 DEF VaultInv, State
<1> QED BY <1>7, <1>15, <1>17

\* The calls that move a round to its next state and do no more.
Moving == {"finalizeAggregate", "settleEmptyRound", "generateRandomCandidate", "finalizeCandidateValidity",
           "finalizeSelectionReconciliation", "finalizeSettlement"}

LEMMA MovingOn ==
  ASSUME VaultInv, NEW name \in Moving, NEW r \in RoundIds, NEW by \in Parties, Execute(Call(name, r, by))
  PROVE  /\ VaultInv' /\ (\A s \in RoundIds : Later(rounds[s], rounds'[s])) /\ UNCHANGED credit
         /\ \A s \in RoundIds : rounds'[s].selectedBy = rounds[s].selectedBy /\ rounds'[s].allocatedBy = rounds[s].allocatedBy
         /\ name \in {"settleEmptyRound", "finalizeSettlement"} => rounds'[r].state = "SETTLED"
<1> DEFINE call == Call(name, r, by)
<1>1. call.name = name /\ call.round = r /\ call.by = by /\ name # "closeRound"
  BY DEF Call, Moving
<1>2. Accepted(call) /\ UNCHANGED active
  BY <1>1 DEF Execute
<1>3. Units(call) = {0}
  BY <1>1 DEF Units, Moving
<1>4. PICK after \in After(call, 0) : rounds' = [rounds EXCEPT ![r] = after]
  BY <1>1, <1>3 DEF Execute
<1>5. credit' = [credit EXCEPT ![by] = @ + 0]
  BY <1>1, <1>3 DEF Execute
<1>6. rounds[r] \in Round /\ RoundInv(rounds[r]) /\ credit \in [Parties -> Nat]
  BY DEF VaultInv
<1>7. UNCHANGED credit
  BY <1>5, <1>6
<1>8. PICK state : /\ after = [rounds[r] EXCEPT !.state = state]
                   /\ \/ /\ name = "finalizeAggregate" /\ State(r) = "AGGREGATE_PENDING"
                         /\ state = IF rounds[r].weighted THEN "AGGREGATE_FINALIZED" ELSE "EMPTY"
                      \/ name = "settleEmptyRound" /\ State(r) = "EMPTY" /\ state = "SETTLED"
                      \/ /\ name = "generateRandomCandidate"
                         /\ State(r) \in {"AGGREGATE_FINALIZED", "CANDIDATE_REJECTED"}
                         /\ state \in {"CANDIDATE_VALIDITY_PENDING", "TICKET_ACCEPTED"}
                      \/ /\ name = "finalizeCandidateValidity" /\ State(r) = "CANDIDATE_VALIDITY_PENDING"
                         /\ state \in {"CANDIDATE_REJECTED", "TICKET_ACCEPTED"}
                      \/ /\ name = "finalizeSelectionReconciliation" /\ State(r) = "RECONCILIATION_PENDING"
                         /\ state = "READY_TO_ALLOCATE"
                      \/ name = "finalizeSettlement" /\ State(r) = "WINNINGS_ALLOCATED" /\ state = "SETTLED"
  <2>1. CASE name = "finalizeAggregate"
    BY <1>1, <1>2, <1>4, <2>1 DEF Accepted, After, Becomes
  <2>2. CASE name = "settleEmptyRound"
    BY <1>1, <1>2, <1>4, <2>2 DEF Accepted, After, Becomes
  <2>3. CASE name = "generateRandomCandidate"
    BY <1>1, <1>2, <1>4, <2>3 DEF Accepted, After, Becomes
  <2>4. CASE name = "finalizeCandidateValidity"
    BY <1>1, <1>2, <1>4, <2>4 DEF Accepted, After, Becomes
  <2>5. CASE name = "finalizeSelectionReconciliation"
    BY <1>1, <1>2, <1>4, <2>5 DEF Accepted, After, Becomes
  <2>6. CASE name = "finalizeSettlement"
    BY <1>1, <1>2, <1>4, <2>6 DEF Accepted, After, Becomes
  <2> QED BY <2>1, <2>2, <2>3, <2>4, <2>5, <2>6 DEF Moving
<1>9. /\ after \in Round /\ after.state = state /\ after.members = rounds[r].members
      /\ after.weighted = rounds[r].weighted /\ after.selectedBy = rounds[r].selectedBy
      /\ after.allocatedBy = rounds[r].allocatedBy /\ after.winner = rounds[r].winner
  BY <1>6, <1>8 DEF Round, Undrawn, Drawing, Drawn
<1>10. RoundInv(after)
  BY <1>6, <1>8, <1>9 DEF RoundInv, State, Undrawn, Drawing, Drawn, Untouched, AllSelected, AllAllocated
<1>11. /\ Later(rounds[r], after) /\ after.state # "OPEN" /\ rounds[r].state # "OPEN"
       /\ rounds[r].state # "UNINITIALIZED"
  BY <1>8, <1>9 DEF Later, State
<1>12. /\ VaultInv' /\ rounds'[r] = after /\ \A s \in RoundIds \ {r} : rounds'[s] = rounds[s]
       /\ \A s \in RoundIds : Later(rounds[s], rounds'[s])
  BY <1>2, <1>4, <1>6, <1>7, <1>10, <1>11, OneRound
<1> QED BY <1>7, <1>8, <1>9, <1>12

\* What a chunk takes is there to be taken.
LEMMA ChunkFits ==
  ASSUME NEW w \in Work, NEW by \in Parties, NEW count \in Nat, Total(w) < count, NEW n \in Chunks(w, by, count)
  PROVE  n \in Nat /\ Total(w) + n <= count
  BY Counting DEF Chunks, Chunk

LEMMA Selecting ==
  ASSUME VaultInv, NEW r \in RoundIds, NEW by \in Parties, Execute(Call("processSelection", r, by))
  PROVE  /\ VaultInv' /\ \A s \in RoundIds : Later(rounds[s], rounds'[s])
         /\ \E n \in Nat : /\ credit' = [credit EXCEPT ![by] = @ + n]
                           /\ rounds'[r].selectedBy = [rounds[r].selectedBy EXCEPT ![by] = @ + n]
         /\ \A s \in RoundIds \ {r} : rounds'[s].selectedBy = rounds[s].selectedBy
         /\ \A s \in RoundIds : rounds'[s].allocatedBy = rounds[s].allocatedBy
<1> DEFINE call == Call("processSelection", r, by)
<1>1. call.name = "processSelection" /\ call.round = r /\ call.by = by
  BY DEF Call
<1>2. State(r) \in {"TICKET_ACCEPTED", "WINNER_PROCESSING"} /\ UNCHANGED active
  BY <1>1 DEF Execute, Accepted
<1>3. /\ rounds[r] \in Round /\ RoundInv(rounds[r]) /\ credit \in [Parties -> Nat]
      /\ rounds[r].selectedBy \in Work /\ rounds[r].members \in SUBSET Parties /\ Count(r) \in Nat
  BY Counting DEF VaultInv, Round, Count
<1>4. Total(rounds[r].selectedBy) < Count(r) /\ rounds[r].allocatedBy = Nobody /\ rounds[r].winner = "none"
  <2>1. CASE State(r) = "TICKET_ACCEPTED"
    <3>1. Untouched(rounds[r]) /\ rounds[r].members # {}
      BY <1>3, <2>1 DEF RoundInv, State, Undrawn, Drawing
    <3>2. Count(r) > 0
      BY <1>3, <3>1, Counting DEF Count
    <3> QED BY <3>1, <3>2, Counting DEF Untouched
  <2>2. CASE State(r) = "WINNER_PROCESSING"
    BY <1>3, <2>2 DEF RoundInv, State, Count
  <2> QED BY <1>2, <2>1, <2>2
<1>5. PICK n \in Chunks(rounds[r].selectedBy, by, Count(r)) :
        /\ \E after \in Selected(r, by, n) : rounds' = [rounds EXCEPT ![r] = after]
        /\ credit' = [credit EXCEPT ![by] = @ + n]
  <2>1. Units(call) = Chunks(rounds[r].selectedBy, by, Count(r)) /\ \A n : After(call, n) = Selected(r, by, n)
    BY <1>1 DEF Units, After
  <2> HIDE DEF call
  <2>2. Execute(call)
    BY DEF call
  <2>3. PICK n \in Units(call) : /\ \E after \in After(call, n) : rounds' = [rounds EXCEPT ![r] = after]
                                 /\ credit' = [credit EXCEPT ![by] = @ + n]
    BY <1>1, <2>2 DEF Execute
  <2> QED BY <2>1, <2>3
<1>6. n \in Nat /\ Total(rounds[r].selectedBy) + n <= Count(r)
  BY <1>3, <1>4, ChunkFits
<1>7. PICK worked : worked = [rounds[r].selectedBy EXCEPT ![by] = @ + n]
  OBVIOUS
<1>8. worked \in Work /\ Total(worked) = Total(rounds[r].selectedBy) + n /\ Total(worked) \in Nat
  BY <1>3, <1>6, <1>7, Counting
<1>9. PICK x \in Selected(r, by, n) : rounds' = [rounds EXCEPT ![r] = x]
  BY <1>5
<1>10. /\ x \in Round /\ x.members = rounds[r].members /\ x.weighted = rounds[r].weighted
       /\ x.selectedBy = worked /\ x.allocatedBy = Nobody
       /\ \/ x.state = "WINNER_PROCESSING" /\ Total(worked) < Count(r) /\ x.winner = "none"
          \/ x.state = "RECONCILIATION_PENDING" /\ ~ (Total(worked) < Count(r)) /\ x.winner \in rounds[r].members
  <2>1. CASE Total(worked) < Count(r)
    <3>1. x = [rounds[r] EXCEPT !.selectedBy = worked, !.state = "WINNER_PROCESSING"]
      BY <1>7, <1>9, <2>1 DEF Selected
    <3> QED BY <1>3, <1>4, <1>8, <2>1, <3>1 DEF Round
  <2>2. CASE ~ (Total(worked) < Count(r))
    <3>1. PICK w \in rounds[r].members :
            x = [rounds[r] EXCEPT !.selectedBy = worked, !.state = "RECONCILIATION_PENDING", !.winner = w]
      BY <1>7, <1>9, <2>2 DEF Selected
    <3> QED BY <1>3, <1>4, <1>8, <2>2, <3>1 DEF Round, Drawn
  <2> QED BY <2>1, <2>2
<1>11. RoundInv(x)
  <2>1. CASE x.state = "WINNER_PROCESSING"
    BY <1>3, <1>10, <2>1 DEF RoundInv, Undrawn, Drawing, Drawn, Count
  <2>2. CASE x.state = "RECONCILIATION_PENDING"
    <3>1. Total(worked) = Count(r)
      BY <1>3, <1>6, <1>8, <1>10, <2>2
    <3> QED BY <1>3, <1>10, <2>2, <3>1 DEF RoundInv, Undrawn, Drawing, Drawn, Count, AllSelected
  <2> QED BY <1>10, <2>1, <2>2
<1>12. /\ Later(rounds[r], x) /\ x.state # "OPEN" /\ rounds[r].state # "OPEN" /\ rounds[r].state # "UNINITIALIZED"
       /\ credit' \in [Parties -> Nat]
  BY <1>2, <1>3, <1>5, <1>6, <1>10 DEF Later, State
<1>13. /\ VaultInv' /\ rounds'[r] = x /\ \A s \in RoundIds \ {r} : rounds'[s] = rounds[s]
       /\ \A s \in RoundIds : Later(rounds[s], rounds'[s])
  BY <1>2, <1>9, <1>11, <1>12, OneRound
<1> QED BY <1>4, <1>5, <1>6, <1>7, <1>10, <1>13

LEMMA Allocating ==
  ASSUME VaultInv, NEW r \in RoundIds, NEW by \in Parties, Execute(Call("processAllocation", r, by))
  PROVE  /\ VaultInv' /\ \A s \in RoundIds : Later(rounds[s], rounds'[s])
         /\ \E n \in Nat : /\ credit' = [credit EXCEPT ![by] = @ + n]
                           /\ rounds'[r].allocatedBy = [rounds[r].allocatedBy EXCEPT ![by] = @ + n]
         /\ \A s \in RoundIds \ {r} : rounds'[s].allocatedBy = rounds[s].allocatedBy
         /\ \A s \in RoundIds : rounds'[s].selectedBy = rounds[s].selectedBy
<1> DEFINE call == Call("processAllocation", r, by)
<1>1. call.name = "processAllocation" /\ call.round = r /\ call.by = by
  BY DEF Call
<1>2. State(r) \in {"READY_TO_ALLOCATE", "ALLOCATION_PROCESSING"} /\ UNCHANGED active
  BY <1>1 DEF Execute, Accepted
<1>3. /\ rounds[r] \in Round /\ RoundInv(rounds[r]) /\ credit \in [Parties -> Nat]
      /\ rounds[r].allocatedBy \in Work /\ rounds[r].members \in SUBSET Parties /\ Count(r) \in Nat
  BY Counting DEF VaultInv, Round, Count
<1>4. Total(rounds[r].allocatedBy) < Count(r) /\ AllSelected(rounds[r])
  <2>1. CASE State(r) = "READY_TO_ALLOCATE"
    <3>1. AllSelected(rounds[r]) /\ rounds[r].allocatedBy = Nobody
      BY <1>3, <2>1 DEF RoundInv, State, Drawn
    <3>2. rounds[r].members # {}
      BY <3>1 DEF AllSelected
    <3>3. Count(r) > 0
      BY <1>3, <3>2, Counting DEF Count
    <3> QED BY <3>1, <3>3, Counting
  <2>2. CASE State(r) = "ALLOCATION_PROCESSING"
    BY <1>3, <2>2 DEF RoundInv, State, Count
  <2> QED BY <1>2, <2>1, <2>2
<1>5. PICK n \in Chunks(rounds[r].allocatedBy, by, Count(r)) :
        /\ \E after \in Allocated(r, by, n) : rounds' = [rounds EXCEPT ![r] = after]
        /\ credit' = [credit EXCEPT ![by] = @ + n]
  <2>1. Units(call) = Chunks(rounds[r].allocatedBy, by, Count(r)) /\ \A n : After(call, n) = Allocated(r, by, n)
    BY <1>1 DEF Units, After
  <2> HIDE DEF call
  <2>2. Execute(call)
    BY DEF call
  <2>3. PICK n \in Units(call) : /\ \E after \in After(call, n) : rounds' = [rounds EXCEPT ![r] = after]
                                 /\ credit' = [credit EXCEPT ![by] = @ + n]
    BY <1>1, <2>2 DEF Execute
  <2> QED BY <2>1, <2>3
<1>6. n \in Nat /\ Total(rounds[r].allocatedBy) + n <= Count(r)
  BY <1>3, <1>4, ChunkFits
<1>7. PICK worked : worked = [rounds[r].allocatedBy EXCEPT ![by] = @ + n]
  OBVIOUS
<1>8. worked \in Work /\ Total(worked) = Total(rounds[r].allocatedBy) + n /\ Total(worked) \in Nat
  BY <1>3, <1>6, <1>7, Counting
<1>9. PICK x \in Allocated(r, by, n) : rounds' = [rounds EXCEPT ![r] = x]
  BY <1>5
<1>10. /\ x \in Round /\ x.members = rounds[r].members /\ x.weighted = rounds[r].weighted
       /\ x.selectedBy = rounds[r].selectedBy /\ x.allocatedBy = worked /\ x.winner = rounds[r].winner
       /\ \/ x.state = "ALLOCATION_PROCESSING" /\ Total(worked) < Count(r)
          \/ x.state = "WINNINGS_ALLOCATED" /\ ~ (Total(worked) < Count(r))
  <2>1. x = [rounds[r] EXCEPT !.allocatedBy = worked,
                              !.state = IF Total(worked) < Count(r) THEN "ALLOCATION_PROCESSING" ELSE "WINNINGS_ALLOCATED"]
    BY <1>7, <1>9 DEF Allocated
  <2> QED BY <1>3, <1>8, <2>1 DEF Round
<1>11. RoundInv(x)
  <2>1. CASE x.state = "ALLOCATION_PROCESSING"
    BY <1>3, <1>4, <1>10, <2>1 DEF RoundInv, Undrawn, Drawing, Drawn, Count, AllSelected
  <2>2. CASE x.state = "WINNINGS_ALLOCATED"
    <3>1. Total(worked) = Count(r)
      BY <1>3, <1>6, <1>8, <1>10, <2>2
    <3> QED BY <1>3, <1>4, <1>10, <2>2, <3>1 DEF RoundInv, Undrawn, Drawing, Drawn, Count, AllSelected, AllAllocated
  <2> QED BY <1>10, <2>1, <2>2
<1>12. /\ Later(rounds[r], x) /\ x.state # "OPEN" /\ rounds[r].state # "OPEN" /\ rounds[r].state # "UNINITIALIZED"
       /\ credit' \in [Parties -> Nat]
  BY <1>2, <1>3, <1>5, <1>6, <1>10 DEF Later, State
<1>13. /\ VaultInv' /\ rounds'[r] = x /\ \A s \in RoundIds \ {r} : rounds'[s] = rounds[s]
       /\ \A s \in RoundIds : Later(rounds[s], rounds'[s])
  BY <1>2, <1>9, <1>11, <1>12, OneRound
<1> QED BY <1>5, <1>6, <1>7, <1>10, <1>13

\* Until they are paid, the credits of A and B are their work on the first round.
OwnCredits == credit["A"] = rounds[1].allocatedBy["A"] /\ credit["B"] = rounds[1].selectedBy["B"]

\* A call that is accepted, whoever makes it.  B moves the selection and A the allocation.
LEMMA Calling ==
  ASSUME VaultInv, NEW name \in Names, NEW r \in RoundIds, NEW by \in Parties, Execute(Call(name, r, by))
  PROVE  /\ VaultInv' /\ \A s \in RoundIds : Later(rounds[s], rounds'[s])
         /\ OwnCredits /\ (name = "processSelection" => by = "stranger" \/ (by = "B" /\ r = 1))
                       /\ (name = "processAllocation" => by = "stranger" \/ (by = "A" /\ r = 1)) => OwnCredits'
<1>1. 1 \in RoundIds /\ rounds \in [RoundIds -> Round] /\ credit \in [Parties -> Nat]
      /\ rounds[1].selectedBy \in Work /\ rounds[1].allocatedBy \in Work
      /\ "A" \in Parties /\ "B" \in Parties /\ "stranger" \in Parties
  BY DEF VaultInv, RoundIds, Round, Parties
<1>2. CASE name = "registerForRound"
  BY <1>1, <1>2, Registering DEF OwnCredits
<1>3. CASE name = "closeRound"
  BY <1>1, <1>3, Closing DEF OwnCredits
<1>4. CASE name \in Moving
  BY <1>1, <1>4, MovingOn DEF OwnCredits, Moving
<1>5. CASE name = "processSelection"
  <2>1. /\ VaultInv' /\ \A s \in RoundIds : Later(rounds[s], rounds'[s])
        /\ \A s \in RoundIds \ {r} : rounds'[s].selectedBy = rounds[s].selectedBy
        /\ \A s \in RoundIds : rounds'[s].allocatedBy = rounds[s].allocatedBy
    BY <1>5, Selecting
  <2>2. PICK n \in Nat : /\ credit' = [credit EXCEPT ![by] = @ + n]
                         /\ rounds'[r].selectedBy = [rounds[r].selectedBy EXCEPT ![by] = @ + n]
    BY <1>5, Selecting
  <2>3. ASSUME OwnCredits, by = "stranger" \/ (by = "B" /\ r = 1) PROVE OwnCredits'
    <3>1. CASE by = "stranger"
      <4>1. credit'["A"] = credit["A"] /\ credit'["B"] = credit["B"]
        BY <1>1, <2>2, <3>1
      <4>2. rounds'[1].selectedBy["B"] = rounds[1].selectedBy["B"]
        BY <1>1, <2>1, <2>2, <3>1 DEF Work
      <4> QED BY <1>1, <2>1, <2>3, <4>1, <4>2 DEF OwnCredits
    <3>2. CASE by = "B" /\ r = 1
      <4>1. credit'["A"] = credit["A"] /\ credit'["B"] = credit["B"] + n
        BY <1>1, <2>2, <3>2
      <4>2. rounds'[1].selectedBy["B"] = rounds[1].selectedBy["B"] + n
        BY <1>1, <2>2, <3>2 DEF Work
      <4> QED BY <1>1, <2>1, <2>3, <4>1, <4>2 DEF OwnCredits
    <3> QED BY <2>3, <3>1, <3>2
  <2> QED BY <1>5, <2>1, <2>3
<1>6. CASE name = "processAllocation"
  <2>1. /\ VaultInv' /\ \A s \in RoundIds : Later(rounds[s], rounds'[s])
        /\ \A s \in RoundIds \ {r} : rounds'[s].allocatedBy = rounds[s].allocatedBy
        /\ \A s \in RoundIds : rounds'[s].selectedBy = rounds[s].selectedBy
    BY <1>6, Allocating
  <2>2. PICK n \in Nat : /\ credit' = [credit EXCEPT ![by] = @ + n]
                         /\ rounds'[r].allocatedBy = [rounds[r].allocatedBy EXCEPT ![by] = @ + n]
    BY <1>6, Allocating
  <2>3. ASSUME OwnCredits, by = "stranger" \/ (by = "A" /\ r = 1) PROVE OwnCredits'
    <3>1. CASE by = "stranger"
      <4>1. credit'["A"] = credit["A"] /\ credit'["B"] = credit["B"]
        BY <1>1, <2>2, <3>1
      <4>2. rounds'[1].allocatedBy["A"] = rounds[1].allocatedBy["A"]
        BY <1>1, <2>1, <2>2, <3>1 DEF Work
      <4> QED BY <1>1, <2>1, <2>3, <4>1, <4>2 DEF OwnCredits
    <3>2. CASE by = "A" /\ r = 1
      <4>1. credit'["B"] = credit["B"] /\ credit'["A"] = credit["A"] + n
        BY <1>1, <2>2, <3>2
      <4>2. rounds'[1].allocatedBy["A"] = rounds[1].allocatedBy["A"] + n
        BY <1>1, <2>2, <3>2 DEF Work
      <4> QED BY <1>1, <2>1, <2>3, <4>1, <4>2 DEF OwnCredits
    <3> QED BY <2>3, <3>1, <3>2
  <2> QED BY <1>6, <2>1, <2>3
<1> QED BY <1>2, <1>3, <1>4, <1>5, <1>6 DEF Names, Moving

\* The script is over, or goes on with what it knows.
LEMMA Failing ==
  ASSUME DriverInv, Fails, VaultInv', closureFiles' = closureFiles, driver.pc \notin {"sidecar", "passed"}
  PROVE  ClosureInv'
<1>1. driver' = [Start EXCEPT !.pc = "failed"]
  BY DEF Fails
<1>2. driver' \in Driver /\ driver'.pc = "failed" /\ driver'.round = 1
  BY <1>1 DEF Start, Driver
<1>3. Knows(driver)' /\ CreditsAre(driver)'
  BY <1>2 DEF Knows, CreditsAre, Unpaid, SecondRound, BeforeResults, AfterIsolation
<1> QED BY <1>2, <1>3 DEF ClosureInv, DriverInv

LEMMA GoingOn ==
  ASSUME ClosureInv, NEW d \in Driver, driver' = d, VaultInv', Knows(d)', CreditsAre(d)',
         closureFiles' = closureFiles, driver.pc \notin {"sidecar", "passed"}
  PROVE  ClosureInv'
<1>1. Knows(driver)' /\ CreditsAre(driver)'
  BY DEF Knows, CreditsAre, Unpaid, SecondRound
<1>2. closureFiles' = {}
  BY DEF ClosureInv, DriverInv
<1> QED BY <1>1, <1>2 DEF ClosureInv, DriverInv

\* A check leads on to what the contracts show.
LEMMA Checking ==
  ASSUME ClosureInv, NEW ok, NEW d \in Driver, Check(ok, d), ok => Knows(d),
         Unpaid(d) => Unpaid(driver), driver.pc \notin {"sidecar", "passed"}
  PROVE  ClosureInv'
<1>1. UNCHANGED <<rounds, active, due, credit, closureFiles>>
  BY DEF Check, contractVars, Rest
<1>2. VaultInv'
  BY <1>1 DEF ClosureInv, VaultInv, State, RoundInv, Untouched, AllSelected, AllAllocated
<1>3. CASE Fails
  BY <1>1, <1>2, <1>3, Failing DEF ClosureInv
<1>4. CASE ok /\ driver' = d
  <2>1. Knows(d)'
    BY <1>1, <1>4 DEF Knows, State, Count
  <2>2. CreditsAre(d)'
    BY <1>1 DEF CreditsAre, ClosureInv, DriverInv
  <2> QED BY <1>1, <1>2, <1>4, <2>1, <2>2, GoingOn
<1> QED BY <1>3, <1>4 DEF Check

\* A transaction of the script leads on to what it has done, and the script still knows what it knew.
LEMMA Writing ==
  ASSUME ClosureInv, NEW name \in Names, NEW r \in RoundIds, NEW by \in Parties, NEW d \in Driver,
         write(Call(name, r, by), d),
         Knows(d) \/ (Execute(Call(name, r, by)) => Knows(d)'),
         Unpaid(d) => Unpaid(driver), driver.pc \notin {"sidecar", "passed"},
         Unpaid(d) /\ name = "processSelection" => by = "B" /\ r = 1,
         Unpaid(d) /\ name = "processAllocation" => by = "A" /\ r = 1
  PROVE  ClosureInv'
<1>1. closureFiles' = closureFiles
  BY DEF write, Rest
<1>2. CASE Fails /\ UNCHANGED contractVars
  <2>1. VaultInv'
    BY <1>2 DEF ClosureInv, VaultInv, State, RoundInv, Untouched, AllSelected, AllAllocated, contractVars
  <2> QED BY <1>1, <1>2, <2>1, Failing DEF ClosureInv
<1>3. CASE Execute(Call(name, r, by)) /\ driver' = d
  <2>1. /\ VaultInv' /\ \A s \in RoundIds : Later(rounds[s], rounds'[s])
        /\ OwnCredits /\ (name = "processSelection" => by = "stranger" \/ (by = "B" /\ r = 1))
                      /\ (name = "processAllocation" => by = "stranger" \/ (by = "A" /\ r = 1)) => OwnCredits'
    BY <1>3, Calling DEF ClosureInv
  <2>2. Knows(d)'
    BY <1>3, <2>1, KnowledgeKept DEF ClosureInv
  <2>3. CreditsAre(d)'
    BY <2>1 DEF CreditsAre, OwnCredits, ClosureInv, DriverInv
  <2> QED BY <1>1, <1>3, <2>1, <2>2, <2>3, GoingOn
<1> QED BY <1>2, <1>3 DEF write

\* The script moves on without a change of its round.
LEMMA NextPlaces ==
  ASSUME ClosureInv, NEW place \in BeforeResults \cup {"results", "credits", "payouts", "registerA2", "absence", "isolation"}
                                \cup AfterIsolation
  PROVE  /\ Goes(place) \in Driver /\ Goes(place).pc = place /\ Goes(place).round = driver.round
         /\ Knows(driver) /\ driver.round \in RoundIds /\ driver \in Driver
  BY DEF ClosureInv, DriverInv, Driver, Goes, RoundIds

LEMMA PlayersAre == /\ "A" \in Parties /\ "B" \in Parties /\ "stranger" \in Parties
                    /\ 1 \in RoundIds /\ 2 \in RoundIds
  BY DEF Parties, RoundIds

\* Setting up and registering.
LEMMA RegisteringKeeps ==
  ASSUME ClosureInv, SetUp \/ RegisterA \/ RegisterB \/ RegisterA2
  PROVE  ClosureInv'
<1>1. CASE SetUp
  <2>1. PICK d \in Driver : d = Goes("registerA") /\ d.pc = "registerA" /\ d.round = driver.round
    BY NextPlaces DEF BeforeResults
  <2>2. PICK ok \in BOOLEAN : Check(ok, d)
    BY <1>1, <2>1 DEF SetUp
  <2>3. driver.pc = "setup" /\ Knows(driver)
    BY <1>1 DEF SetUp, At, ClosureInv, DriverInv
  <2>4. Knows(d) /\ (Unpaid(d) => Unpaid(driver))
    BY <2>1, <2>3 DEF Knows, Unpaid, SecondRound, AfterIsolation, BeforeResults
  <2> QED BY <2>2, <2>3, <2>4, Checking
<1>2. CASE RegisterA
  <2>1. PICK d \in Driver : d = Goes("registerB") /\ d.pc = "registerB" /\ d.round = driver.round
    BY NextPlaces DEF BeforeResults
  <2>2. write(Call("registerForRound", 1, "A"), d) /\ driver.pc = "registerA" /\ Knows(driver)
    BY <1>2, <2>1 DEF RegisterA, At, ClosureInv, DriverInv
  <2>3. Unpaid(d) => Unpaid(driver)
    BY <2>1, <2>2 DEF Unpaid, BeforeResults
  <2>4. ASSUME Execute(Call("registerForRound", 1, "A")) PROVE Knows(d)'
    <3>1. "A" \in rounds'[1].members
      BY <2>4, Registering, PlayersAre DEF ClosureInv
    <3>2. d.round = 1
      BY <2>1, <2>2 DEF Knows
    <3> QED BY <2>1, <3>1, <3>2 DEF Knows, SecondRound, AfterIsolation
  <2> QED BY <2>2, <2>3, <2>4, Writing, PlayersAre DEF Names
<1>3. CASE RegisterB
  <2>1. PICK d \in Driver : d = Goes("sponsor") /\ d.pc = "sponsor" /\ d.round = driver.round
    BY NextPlaces DEF BeforeResults
  <2>2. write(Call("registerForRound", 1, "B"), d) /\ driver.pc = "registerB" /\ Knows(driver)
    BY <1>3, <2>1 DEF RegisterB, At, ClosureInv, DriverInv
  <2>3. Unpaid(d) => Unpaid(driver)
    BY <2>1, <2>2 DEF Unpaid, BeforeResults
  <2>4. ASSUME Execute(Call("registerForRound", 1, "B")) PROVE Knows(d)'
    <3>1. "B" \in rounds'[1].members /\ Later(rounds[1], rounds'[1])
      BY <2>4, Registering, PlayersAre DEF ClosureInv
    <3>2. d.round = 1 /\ "A" \in rounds[1].members
      BY <2>1, <2>2 DEF Knows
    <3> QED BY <2>1, <3>1, <3>2 DEF Knows, SecondRound, AfterIsolation, Later
  <2> QED BY <2>2, <2>3, <2>4, Writing, PlayersAre DEF Names
<1>4. CASE RegisterA2
  <2>1. PICK d \in Driver : d = Goes("absence") /\ d.pc = "absence" /\ d.round = driver.round
    BY NextPlaces
  <2>2. write(Call("registerForRound", 2, "A"), d) /\ driver.pc = "registerA2" /\ Knows(driver)
    BY <1>4, <2>1 DEF RegisterA2, At, ClosureInv, DriverInv
  <2>3. ~ Unpaid(d)
    BY <2>1 DEF Unpaid, BeforeResults
  <2>4. ASSUME Execute(Call("registerForRound", 2, "A")) PROVE Knows(d)'
    <3>1. "A" \in rounds'[2].members /\ \A s \in RoundIds : Later(rounds[s], rounds'[s])
      BY <2>4, Registering, PlayersAre DEF ClosureInv
    <3>2. PICK e \in Driver : e = driver
      BY DEF ClosureInv, DriverInv
    <3>3. Knows(e)'
      BY <2>2, <3>1, <3>2, KnowledgeKept DEF ClosureInv
    <3>4. d.round = 1 /\ e.pc = "registerA2"
      BY <2>1, <2>2, <3>2 DEF Knows
    <3> QED BY <2>1, <3>1, <3>3, <3>4 DEF Knows, SecondRound, AfterIsolation
  <2> QED BY <2>2, <2>3, <2>4, Writing, PlayersAre DEF Names
<1> QED BY <1>1, <1>2, <1>3, <1>4

\* In the course of settleRound the script learns nothing that it keeps.
Settling == {"wait", "close", "aggregate", "empty", "finalizeAggregate", "generate", "generated", "validity",
             "judged", "ticket", "select", "selected", "reconcile", "allocate", "finalize"}

LEMMA SettlingPlaces ==
  ASSUME ClosureInv, driver.pc \in Settling
  PROVE  /\ \A place \in Settling : Goes(place) \in Driver /\ Goes(place).pc = place /\ Goes(place).round = driver.round
         /\ driver.pc \notin {"sidecar", "passed"} /\ driver.round \in RoundIds /\ driver.tries \in Nat
  BY DEF ClosureInv, DriverInv, Driver, Goes, RoundIds, Settling, BeforeResults

LEMMA SettlingOn ==
  ASSUME ClosureInv, driver.pc \in Settling, NEW d \in Driver, d.pc \in Settling, d.round = driver.round
  PROVE  /\ Knows(d) /\ (Unpaid(d) => Unpaid(driver)) /\ (Unpaid(d) => driver.round = 1)
  BY DEF ClosureInv, DriverInv, Knows, Unpaid, SecondRound, AfterIsolation, Settling, BeforeResults

\* What settleRound reads takes it from one of its places to another.
LEMMA ReadingKeeps ==
  ASSUME ClosureInv, NEW ok, NEW place \in Settling, driver.pc \in Settling, Check(ok, Goes(place))
  PROVE  ClosureInv'
<1>1. PICK d \in Driver : d = Goes(place) /\ d.pc = place /\ d.round = driver.round
  BY SettlingPlaces
<1>2. Check(ok, d)
  BY <1>1
<1>3. Knows(d) /\ (Unpaid(d) => Unpaid(driver)) /\ driver.pc \notin {"sidecar", "passed"}
  BY <1>1, SettlingOn, SettlingPlaces
<1> QED BY <1>2, <1>3, Checking

\* And so does a transaction of it.
LEMMA StepKeeps ==
  ASSUME ClosureInv, driver.pc \in Settling, NEW d \in Driver, d.pc \in Settling, d.round = driver.round,
         NEW name \in Names, NEW by \in {"A", "B"}, write(Call(name, driver.round, by), d),
         name = "processSelection" => by = "B", name = "processAllocation" => by = "A"
  PROVE  ClosureInv'
<1>1. /\ Knows(d) /\ (Unpaid(d) => Unpaid(driver)) /\ (Unpaid(d) => driver.round = 1)
      /\ driver.pc \notin {"sidecar", "passed"}
  BY SettlingOn, SettlingPlaces
<1>2. PICK r \in RoundIds : r = driver.round
  BY SettlingPlaces
<1>3. write(Call(name, r, by), d) /\ by \in Parties
  BY <1>2 DEF Parties
<1> QED BY <1>1, <1>2, <1>3, Writing

LEMMA SettlingKeeps ==
  ASSUME ClosureInv,
         \/ waitUntil \/ CloseRound \/ ProveAggregate \/ FinalizeAggregate
         \/ Generate \/ ReadGenerated \/ FinalizeCandidate \/ ReadCandidate \/ ReadTicket
         \/ Select \/ ReadSelection \/ Reconcile \/ Allocate
  PROVE  ClosureInv'
<1>1. CASE waitUntil
  <2>1. driver.pc \in Settling /\ Check(TRUE, Goes("close"))
    BY <1>1 DEF waitUntil, At, Settling
  <2> QED BY <2>1, ReadingKeeps DEF Settling
<1>2. CASE CloseRound
  <2>1. driver.pc \in Settling /\ write(Call("closeRound", driver.round, "B"), Goes("aggregate"))
    BY <1>2 DEF CloseRound, At, Settling
  <2>2. Goes("aggregate") \in Driver /\ Goes("aggregate").pc \in Settling /\ Goes("aggregate").round = driver.round
    BY <2>1, SettlingPlaces DEF Settling
  <2> QED BY <2>1, <2>2, StepKeeps DEF Names
<1>3. CASE ProveAggregate
  <2>1. PICK place \in Settling : place = IF rounds[driver.round].weighted THEN "finalizeAggregate" ELSE "empty"
    BY DEF Settling
  <2>2. driver.pc \in Settling /\ Check(State(driver.round) /= "OPEN", Goes(place))
    BY <1>3, <2>1 DEF ProveAggregate, At, Settling
  <2> QED BY <2>2, ReadingKeeps
<1>4. CASE FinalizeAggregate
  <2>1. driver.pc \in Settling
        /\ write(Call("finalizeAggregate", driver.round, "B"), [Goes("generate") EXCEPT !.tries = 0])
    BY <1>4 DEF FinalizeAggregate, At, Settling
  <2>2. PICK g \in Driver : g = Goes("generate") /\ g.pc = "generate" /\ g.round = driver.round
    BY <2>1, SettlingPlaces DEF Settling
  <2>3. PICK d \in Driver : d = [g EXCEPT !.tries = 0] /\ d.pc \in Settling /\ d.round = driver.round
    <3>1. PICK d : d = [g EXCEPT !.tries = 0]
      OBVIOUS
    <3>2. d \in Driver /\ d.pc = g.pc /\ d.round = g.round
      BY <3>1 DEF Driver
    <3> QED BY <2>2, <3>1, <3>2 DEF Settling
  <2>4. write(Call("finalizeAggregate", driver.round, "B"), d)
    BY <2>1, <2>2, <2>3
  <2> QED BY <2>1, <2>3, <2>4, StepKeeps DEF Names
<1>5. CASE Generate
  <2>1. driver.pc \in Settling /\ write(Call("generateRandomCandidate", driver.round, "B"), Goes("generated"))
    BY <1>5 DEF Generate, At, Settling
  <2>2. Goes("generated") \in Driver /\ Goes("generated").pc \in Settling /\ Goes("generated").round = driver.round
    BY <2>1, SettlingPlaces DEF Settling
  <2> QED BY <2>1, <2>2, StepKeeps DEF Names
<1>6. CASE ReadGenerated
  <2>1. PICK place \in Settling : place = IF State(driver.round) = "TICKET_ACCEPTED" THEN "ticket" ELSE "validity"
    BY DEF Settling
  <2>2. /\ driver.pc \in Settling
        /\ Check(State(driver.round) \in {"TICKET_ACCEPTED", "CANDIDATE_VALIDITY_PENDING"}, Goes(place))
    BY <1>6, <2>1 DEF ReadGenerated, At, Settling
  <2> QED BY <2>2, ReadingKeeps
<1>7. CASE FinalizeCandidate
  <2>1. driver.pc \in Settling
        /\ write(Call("finalizeCandidateValidity", driver.round, "B"), [Goes("judged") EXCEPT !.tries = @ + 1])
    BY <1>7 DEF FinalizeCandidate, At, Settling
  <2>2. PICK g \in Driver : g = Goes("judged") /\ g.pc = "judged" /\ g.round = driver.round
    BY <2>1, SettlingPlaces DEF Settling
  <2>3. PICK d \in Driver : d = [g EXCEPT !.tries = @ + 1] /\ d.pc \in Settling /\ d.round = driver.round
    <3>1. PICK d : d = [g EXCEPT !.tries = @ + 1]
      OBVIOUS
    <3>2. d \in Driver /\ d.pc = g.pc /\ d.round = g.round
      BY <3>1 DEF Driver
    <3> QED BY <2>2, <3>1, <3>2 DEF Settling
  <2>4. write(Call("finalizeCandidateValidity", driver.round, "B"), d)
    BY <2>1, <2>2, <2>3
  <2> QED BY <2>1, <2>3, <2>4, StepKeeps DEF Names
<1>8. CASE ReadCandidate
  <2>1. PICK place \in Settling : place = IF State(driver.round) = "TICKET_ACCEPTED" \/ driver.tries = RetryBudget
                                    THEN "ticket" ELSE "generate"
    BY DEF Settling
  <2>2. driver.pc \in Settling /\ Check(TRUE, Goes(place))
    BY <1>8, <2>1 DEF ReadCandidate, At, Settling
  <2> QED BY <2>2, ReadingKeeps
<1>9. CASE ReadTicket
  <2>1. driver.pc \in Settling /\ Check(State(driver.round) = "TICKET_ACCEPTED", Goes("select"))
    BY <1>9 DEF ReadTicket, At, Settling
  <2> QED BY <2>1, ReadingKeeps DEF Settling
<1>10. CASE Select
  <2>1. driver.pc \in Settling /\ write(Call("processSelection", driver.round, "B"), Goes("selected"))
    BY <1>10 DEF Select, At, Settling
  <2>2. Goes("selected") \in Driver /\ Goes("selected").pc \in Settling /\ Goes("selected").round = driver.round
    BY <2>1, SettlingPlaces DEF Settling
  <2> QED BY <2>1, <2>2, StepKeeps DEF Names
<1>11. CASE ReadSelection
  <2>1. driver.pc \in Settling /\ Check(State(driver.round) = "RECONCILIATION_PENDING", Goes("reconcile"))
    BY <1>11 DEF ReadSelection, At, Settling
  <2> QED BY <2>1, ReadingKeeps DEF Settling
<1>12. CASE Reconcile
  <2>1. /\ driver.pc \in Settling
        /\ write(Call("finalizeSelectionReconciliation", driver.round, "B"), Goes("allocate"))
    BY <1>12 DEF Reconcile, At, Settling
  <2>2. Goes("allocate") \in Driver /\ Goes("allocate").pc \in Settling /\ Goes("allocate").round = driver.round
    BY <2>1, SettlingPlaces DEF Settling
  <2> QED BY <2>1, <2>2, StepKeeps DEF Names
<1>13. CASE Allocate
  <2>1. driver.pc \in Settling /\ write(Call("processAllocation", driver.round, "A"), Goes("finalize"))
    BY <1>13 DEF Allocate, At, Settling
  <2>2. Goes("finalize") \in Driver /\ Goes("finalize").pc \in Settling /\ Goes("finalize").round = driver.round
    BY <2>1, SettlingPlaces DEF Settling
  <2> QED BY <2>1, <2>2, StepKeeps DEF Names
<1> QED BY <1>1, <1>2, <1>3, <1>4, <1>5, <1>6, <1>7, <1>8, <1>9, <1>10, <1>11, <1>12, <1>13

\* The round is settled, and the script reads its ledger.
LEMMA SettledKeeps ==
  ASSUME ClosureInv, SettleEmpty \/ Finalize \/ ReadLedger
  PROVE  ClosureInv'
<1>1. PICK e \in Driver : e = driver /\ Knows(e) /\ e.round \in {1, 2}
  BY DEF ClosureInv, DriverInv, Driver
<1>2. PICK r \in RoundIds : r = e.round /\ r \in {1, 2}
  BY <1>1 DEF RoundIds
<1>3. PICK p \in {"results", "isolation"} : p = AfterSettlement
  BY DEF AfterSettlement
<1>4. PICK d \in Driver : d = Goes(p) /\ d.pc = p /\ d.round = r
  BY <1>1, <1>2, <1>3, NextPlaces
<1>5. d.pc = IF r = 1 THEN "results" ELSE "isolation"
  BY <1>1, <1>2, <1>3, <1>4 DEF AfterSettlement
<1>6. CASE SettleEmpty
  <2>1. write(Call("settleEmptyRound", r, "B"), d) /\ driver.pc = "empty" /\ e.pc = "empty"
    BY <1>1, <1>2, <1>3, <1>4, <1>6 DEF SettleEmpty, At
  <2>2. Unpaid(d) => Unpaid(driver)
    BY <1>1, <1>2, <1>4, <2>1 DEF Unpaid, BeforeResults
  <2>3. ASSUME Execute(Call("settleEmptyRound", r, "B")) PROVE Knows(d)'
    <3>1. rounds'[r].state = "SETTLED" /\ \A s \in RoundIds : Later(rounds[s], rounds'[s])
      BY <2>3, MovingOn, PlayersAre DEF ClosureInv, Moving
    <3>2. Knows(e)'
      BY <1>1, <3>1, KnowledgeKept DEF ClosureInv
    <3> QED BY <1>2, <1>4, <1>5, <2>1, <3>1, <3>2 DEF Knows, SecondRound, AfterIsolation, State
  <2> QED BY <2>1, <2>2, <2>3, Writing, PlayersAre DEF Names
<1>7. CASE Finalize
  <2>1. PICK f \in Driver : f = Goes("ledger") /\ f.pc = "ledger" /\ f.round = r
    BY <1>1, <1>2, NextPlaces DEF BeforeResults
  <2>2. write(Call("finalizeSettlement", r, "A"), f) /\ driver.pc = "finalize" /\ e.pc = "finalize"
    BY <1>1, <1>2, <1>7, <2>1 DEF Finalize, At
  <2>3. Unpaid(f) => Unpaid(driver)
    BY <1>1, <1>2, <2>1, <2>2 DEF Unpaid, BeforeResults
  <2>4. ASSUME Execute(Call("finalizeSettlement", r, "A")) PROVE Knows(f)'
    <3>1. rounds'[r].state = "SETTLED" /\ \A s \in RoundIds : Later(rounds[s], rounds'[s])
      BY <2>4, MovingOn, PlayersAre DEF ClosureInv, Moving
    <3>2. Knows(e)'
      BY <1>1, <3>1, KnowledgeKept DEF ClosureInv
    <3> QED BY <1>2, <2>1, <2>2, <3>1, <3>2 DEF Knows, SecondRound, AfterIsolation, State
  <2> QED BY <2>2, <2>3, <2>4, Writing, PlayersAre DEF Names
<1>8. CASE ReadLedger
  <2>1. PICK ok : Check(ok, d) /\ driver.pc = "ledger" /\ e.pc = "ledger"
    BY <1>1, <1>3, <1>4, <1>8 DEF ReadLedger, At
  <2>2. Unpaid(d) => Unpaid(driver)
    BY <1>1, <1>2, <1>4, <2>1 DEF Unpaid, BeforeResults
  <2>3. Knows(d)
    BY <1>1, <1>2, <1>4, <1>5, <2>1 DEF Knows, SecondRound, AfterIsolation
  <2> QED BY <2>1, <2>2, <2>3, Checking
<1> QED BY <1>6, <1>7, <1>8

\* What the script finds out in main.
LEMMA FindingKeeps ==
  ASSUME ClosureInv, Sponsor \/ CheckResults \/ CheckCredits \/ CheckAbsence \/ CheckIsolation \/ Unshield
  PROVE  ClosureInv'
<1>1. PICK e \in Driver : e = driver /\ Knows(e) /\ CreditsAre(e)
  BY DEF ClosureInv, DriverInv
<1>2. CASE Sponsor
  <2>1. PICK d : d = [e EXCEPT !.pc = "wait", !.round = 1]
    OBVIOUS
  <2>2. d \in Driver /\ d.pc = "wait" /\ d.round = 1
    BY <2>1 DEF Driver, BeforeResults
  <2>3. Check(IsOpen(1), d) /\ e.pc = "sponsor"
    BY <1>1, <1>2, <2>1 DEF Sponsor, At
  <2>4. Knows(d) /\ (Unpaid(d) => Unpaid(driver))
    BY <1>1, <2>2, <2>3 DEF Knows, Unpaid, SecondRound, AfterIsolation, BeforeResults
  <2> QED BY <1>1, <2>2, <2>3, <2>4, Checking
<1>3. CASE CheckResults
  <2>1. PICK d \in Driver : d = Goes("credits") /\ d.pc = "credits" /\ d.round = e.round
    BY <1>1, NextPlaces
  <2>2. Check(rounds[1].winner \in {"A", "B"}, d) /\ e.pc = "results"
    BY <1>1, <1>3, <2>1 DEF CheckResults, At
  <2>3. (rounds[1].winner \in {"A", "B"} => Knows(d)) /\ (Unpaid(d) => Unpaid(driver))
    BY <1>1, <2>1, <2>2 DEF Knows, Unpaid, SecondRound, AfterIsolation, BeforeResults
  <2> QED BY <1>1, <2>1, <2>2, <2>3, Checking
<1>4. CASE CheckCredits
  <2>1. PICK d \in Driver : d = Goes("payouts") /\ d.pc = "payouts" /\ d.round = e.round
    BY <1>1, NextPlaces
  <2>2. Check(rewardCreditsMatch, d) /\ e.pc = "credits"
    BY <1>1, <1>4, <2>1 DEF CheckCredits, At
  <2>3. Unpaid(e)
    BY <1>1, <2>2 DEF Knows, Unpaid
  <2>4. rewardCreditsMatch => rounds[1].selectedBy["B"] = 2 /\ rounds[1].allocatedBy["A"] = 2
    BY <1>1, <2>3 DEF CreditsAre, rewardCreditsMatch
  <2>5. rewardCreditsMatch => Knows(d)
    BY <1>1, <2>1, <2>2, <2>4 DEF Knows, SecondRound, AfterIsolation
  <2> QED BY <1>1, <2>1, <2>2, <2>3, <2>5, Checking
<1>5. CASE CheckAbsence
  <2>1. PICK d : d = [e EXCEPT !.pc = "wait", !.round = 2]
    OBVIOUS
  <2>2. d \in Driver /\ d.pc = "wait" /\ d.round = 2
    BY <2>1 DEF Driver, BeforeResults
  <2>3. Check("B" \notin rounds[2].members, d) /\ e.pc = "absence"
    BY <1>1, <1>5, <2>1 DEF CheckAbsence, At
  <2>4. Knows(d) /\ ~ Unpaid(d)
    BY <1>1, <2>2, <2>3 DEF Knows, Unpaid, SecondRound, AfterIsolation
  <2> QED BY <1>1, <2>2, <2>3, <2>4, Checking
<1>6. CASE CheckIsolation
  <2>1. PICK d \in Driver : d = Goes("payout2") /\ d.pc = "payout2" /\ d.round = e.round
    BY <1>1, NextPlaces DEF AfterIsolation
  <2>2. PICK ok : ok = (/\ Count(2) = 1 /\ Total(rounds[2].selectedBy) = 1 /\ Total(rounds[2].allocatedBy) = 1)
    OBVIOUS
  <2>3. Check(ok, d) /\ e.pc = "isolation"
    BY <1>1, <1>6, <2>1, <2>2 DEF CheckIsolation, At
  <2>4. (ok => Knows(d)) /\ ~ Unpaid(d)
    BY <1>1, <2>1, <2>2, <2>3 DEF Knows, Unpaid, SecondRound, AfterIsolation, BeforeResults
  <2> QED BY <1>1, <2>1, <2>3, <2>4, Checking
<1>7. CASE Unshield
  <2>1. PICK d \in Driver : d = Goes("evidence") /\ d.pc = "evidence" /\ d.round = e.round
    BY <1>1, NextPlaces DEF AfterIsolation
  <2>2. PICK ok \in BOOLEAN : Check(ok, d)
    BY <1>7, <2>1 DEF Unshield
  <2>3. e.pc = "unshield"
    BY <1>1, <1>7 DEF Unshield, At
  <2>4. Knows(d) /\ ~ Unpaid(d)
    BY <1>1, <2>1, <2>3 DEF Knows, Unpaid, SecondRound, AfterIsolation, BeforeResults
  <2> QED BY <1>1, <2>1, <2>2, <2>3, <2>4, Checking
<1> QED BY <1>2, <1>3, <1>4, <1>5, <1>6, <1>7

\* A refund of a settled round changes nothing else of it.
LEMMA Refunding ==
  ASSUME VaultInv, NEW r \in RoundIds, State(r) = "SETTLED", NEW who \in SUBSET Parties,
         rounds' = [rounds EXCEPT ![r].refunded = @ \cup who], UNCHANGED active, credit' \in [Parties -> Nat]
  PROVE  VaultInv' /\ \A s \in RoundIds : Later(rounds[s], rounds'[s])
<1>1. PICK x : x = [rounds[r] EXCEPT !.refunded = @ \cup who]
  OBVIOUS
<1>2. rounds' = [rounds EXCEPT ![r] = x]
  BY <1>1 DEF VaultInv
<1>3. rounds[r] \in Round /\ RoundInv(rounds[r])
  BY DEF VaultInv
<1>4. /\ x \in Round /\ x.state = rounds[r].state /\ x.members = rounds[r].members /\ x.weighted = rounds[r].weighted
      /\ x.selectedBy = rounds[r].selectedBy /\ x.allocatedBy = rounds[r].allocatedBy /\ x.winner = rounds[r].winner
  BY <1>1, <1>3 DEF Round
<1>5. RoundInv(x) /\ Later(rounds[r], x)
  BY <1>3, <1>4 DEF RoundInv, Later, Untouched, AllSelected, AllAllocated
<1> QED BY <1>2, <1>4, <1>5, OneRound DEF State

LEMMA PayingKeeps ==
  ASSUME ClosureInv, Payouts \/ Payout2
  PROVE  ClosureInv'
<1>1. PICK e \in Driver : e = driver /\ Knows(e)
  BY DEF ClosureInv, DriverInv
<1>2. VaultInv /\ credit \in [Parties -> Nat]
  BY DEF ClosureInv, VaultInv
<1>3. UNCHANGED <<active, closureFiles>> /\ driver.pc \notin {"sidecar", "passed"}
  BY DEF Payouts, Payout2, Rest, At
<1>4. ASSUME Fails, UNCHANGED <<credit, rounds>> PROVE ClosureInv'
  <2>1. VaultInv'
    BY <1>2, <1>3, <1>4 DEF VaultInv, State, RoundInv, Untouched, AllSelected, AllAllocated
  <2> QED BY <1>3, <1>4, <2>1, Failing DEF ClosureInv
<1>5. CASE Payouts
  <2>1. PICK d \in Driver : d = Goes("registerA2") /\ d.pc = "registerA2" /\ d.round = e.round
    BY <1>1, NextPlaces
  <2>2. e.pc = "payouts" /\ State(1) = "SETTLED"
    BY <1>1, <1>5 DEF Payouts, At, Knows
  <2>3. CASE Fails /\ UNCHANGED <<credit, rounds>>
    BY <1>4, <2>3
  <2>4. CASE /\ credit' = [credit EXCEPT !["A"] = 0, !["B"] = 0]
             /\ rounds' = [rounds EXCEPT ![1].refunded = @ \cup {"A", "B"}]
             /\ driver' = Goes("registerA2")
    <3>1. credit' \in [Parties -> Nat] /\ {"A", "B"} \in SUBSET Parties
      BY <1>2, <2>4 DEF Parties
    <3>2. VaultInv' /\ \A s \in RoundIds : Later(rounds[s], rounds'[s])
      BY <1>2, <1>3, <2>2, <2>4, <3>1, Refunding, PlayersAre
    <3>3. Knows(e)'
      BY <1>1, <1>2, <3>2, KnowledgeKept
    <3>4. Knows(d)' /\ ~ Unpaid(d)
      BY <2>1, <2>2, <3>3 DEF Knows, Unpaid, SecondRound, AfterIsolation, BeforeResults
    <3>5. CreditsAre(d)'
      BY <3>4 DEF CreditsAre
    <3> QED BY <1>3, <2>1, <2>4, <3>2, <3>4, <3>5, GoingOn
  <2> QED BY <1>5, <2>3, <2>4 DEF Payouts
<1>6. CASE Payout2
  <2>1. PICK d \in Driver : d = Goes("unshield") /\ d.pc = "unshield" /\ d.round = e.round
    BY <1>1, NextPlaces DEF AfterIsolation
  <2>2. e.pc = "payout2" /\ State(2) = "SETTLED"
    BY <1>1, <1>6 DEF Payout2, At, Knows, AfterIsolation
  <2>3. CASE Fails /\ UNCHANGED <<credit, rounds>>
    BY <1>4, <2>3
  <2>4. CASE /\ credit' = [credit EXCEPT !["A"] = 0]
             /\ rounds' = [rounds EXCEPT ![2].refunded = @ \cup {"A"}]
             /\ driver' = Goes("unshield")
    <3>1. credit' \in [Parties -> Nat] /\ {"A"} \in SUBSET Parties
      BY <1>2, <2>4 DEF Parties
    <3>2. VaultInv' /\ \A s \in RoundIds : Later(rounds[s], rounds'[s])
      BY <1>2, <1>3, <2>2, <2>4, <3>1, Refunding, PlayersAre
    <3>3. Knows(e)'
      BY <1>1, <1>2, <3>2, KnowledgeKept
    <3>4. Knows(d)' /\ ~ Unpaid(d)
      BY <2>1, <2>2, <3>3 DEF Knows, Unpaid, SecondRound, AfterIsolation, BeforeResults
    <3>5. CreditsAre(d)'
      BY <3>4 DEF CreditsAre
    <3> QED BY <1>3, <2>1, <2>4, <3>2, <3>4, <3>5, GoingOn
  <2> QED BY <1>6, <2>3, <2>4 DEF Payout2
<1> QED BY <1>5, <1>6

\* The two files are written by a script that has seen everything.
LEMMA EvidenceKeeps ==
  ASSUME ClosureInv, WriteClosureEvidence \/ WriteClosureSidecar
  PROVE  ClosureInv'
<1>1. PICK e \in Driver : e = driver /\ Knows(e)
  BY DEF ClosureInv, DriverInv
<1>2. PICK place \in {"sidecar", "passed"} : driver' = Goes(place)
  BY DEF WriteClosureEvidence, WriteClosureSidecar
<1>3. PICK d \in Driver : d = Goes(place) /\ d.pc = place /\ d.round = e.round
  BY <1>1, <1>2, NextPlaces DEF AfterIsolation
<1>4. e.pc \in {"evidence", "sidecar"} /\ UNCHANGED <<rounds, active, due, credit>>
  BY <1>1 DEF WriteClosureEvidence, WriteClosureSidecar, At, contractVars
<1>5. VaultInv'
  BY <1>4 DEF ClosureInv, VaultInv, State, RoundInv, Untouched, AllSelected, AllAllocated
<1>6. Knows(d) /\ ~ Unpaid(d)
  BY <1>1, <1>2, <1>3, <1>4 DEF Knows, Unpaid, SecondRound, AfterIsolation, BeforeResults
<1>7. Knows(d)' /\ CreditsAre(d)'
  BY <1>4, <1>6 DEF Knows, State, Count, CreditsAre
<1>8. driver' = d /\ d.pc \in {"sidecar", "passed"}
  BY <1>2, <1>3
<1>9. Knows(driver)' /\ CreditsAre(driver)'
  BY <1>7, <1>8 DEF Knows, CreditsAre, Unpaid, SecondRound
<1> QED BY <1>5, <1>8, <1>9 DEF ClosureInv, DriverInv

\* Strangers, time, and nothing at all.
LEMMA OthersKeep ==
  ASSUME ClosureInv, Meddle \/ TimePasses \/ UNCHANGED closureVars
  PROVE  ClosureInv'
<1>1. PICK e \in Driver : e = driver /\ Knows(e) /\ CreditsAre(e) /\ driver' = e
  BY DEF ClosureInv, DriverInv, Meddle, TimePasses, closureVars
<1>2. closureFiles' = closureFiles
  BY DEF Meddle, TimePasses, closureVars
<1>3. VaultInv' /\ Knows(e)' /\ CreditsAre(e)'
  <2>1. CASE Meddle
    <3>1. PICK name \in Names, r \in RoundIds : Execute(Call(name, r, "stranger"))
      BY <2>1 DEF Meddle
    <3>2. /\ VaultInv' /\ (\A s \in RoundIds : Later(rounds[s], rounds'[s]))
          /\ OwnCredits => OwnCredits'
      BY <3>1, Calling, PlayersAre DEF ClosureInv
    <3>3. Knows(e)'
      BY <1>1, <3>2, KnowledgeKept DEF ClosureInv
    <3> QED BY <1>1, <3>2, <3>3 DEF CreditsAre, OwnCredits
  <2>2. CASE UNCHANGED <<rounds, active, credit>>
    <3>1. VaultInv'
      BY <2>2 DEF ClosureInv, VaultInv, State, RoundInv, Untouched, AllSelected, AllAllocated
    <3> QED BY <1>1, <2>2, <3>1 DEF Knows, State, Count, CreditsAre
  <2> QED BY <2>1, <2>2 DEF TimePasses, closureVars
<1>4. Knows(driver)' /\ CreditsAre(driver)'
  BY <1>1, <1>3 DEF Knows, CreditsAre, Unpaid, SecondRound
<1> QED BY <1>1, <1>2, <1>3, <1>4 DEF ClosureInv, DriverInv

LEMMA ClosureStarts == ASSUME ClosureInit PROVE ClosureInv
<1>1. /\ Unopened.state = "UNINITIALIZED" /\ Unopened.members = {} /\ Unopened.weighted = FALSE
      /\ Unopened.winner = "none" /\ Unopened.selectedBy = Nobody /\ Unopened.allocatedBy = Nobody
      /\ Opened.state = "OPEN" /\ Opened.members = {} /\ Opened.weighted = FALSE
      /\ Opened.winner = "none" /\ Opened.selectedBy = Nobody /\ Opened.allocatedBy = Nobody
  BY DEF Opened, Unopened
<1>2. Unopened \in Round /\ Opened \in Round
  BY Counting DEF Opened, Unopened, Round, Undrawn
<1>3. RoundInv(Unopened) /\ RoundInv(Opened)
  BY <1>1, <1>2 DEF RoundInv, Untouched, Undrawn, Drawing, Drawn
<1>4. /\ active = 1 /\ rounds \in [RoundIds -> Round] /\ rounds[1] = Opened
      /\ \A r \in RoundIds \ {1} : rounds[r] = Unopened
  BY <1>2, PlayersAre DEF ClosureInit
<1>5. credit \in [Parties -> Nat]
  BY Counting DEF ClosureInit, Work
<1>6. VaultInv
  BY <1>1, <1>3, <1>4, <1>5 DEF VaultInv, State, RoundIds
<1>7. driver \in Driver /\ driver.pc = "setup" /\ driver.round = 1
  BY DEF ClosureInit, Start, Driver, BeforeResults
<1>8. Knows(driver)
  BY <1>7 DEF Knows, SecondRound, AfterIsolation
<1>9. CreditsAre(driver) /\ closureFiles = {}
  BY <1>1, <1>4 DEF CreditsAre, ClosureInit, Nobody, Parties
<1> QED BY <1>6, <1>7, <1>8, <1>9 DEF ClosureInv, DriverInv

(* ClosureInv is an invariant of the live closure script and its public     *)
(* contracts: wherever the script is, whatever it has found out so far of   *)
(* the rounds stays true under the calls of strangers and the time that     *)
(* passes between its transactions.                                         *)
THEOREM ClosureInvariant == ClosureSpec => []ClosureInv
<1>1. ClosureInit => ClosureInv
  BY ClosureStarts
<1>2. ClosureInv /\ [ClosureNext]_closureVars => ClosureInv'
  <2> SUFFICES ASSUME ClosureInv, [ClosureNext]_closureVars PROVE ClosureInv'
    OBVIOUS
  <2>1. CASE DriverStep
    BY <2>1, RegisteringKeeps, SettlingKeeps, SettledKeeps, FindingKeeps, PayingKeeps, EvidenceKeeps DEF DriverStep
  <2>2. CASE Meddle \/ TimePasses \/ UNCHANGED closureVars
    BY <2>2, OthersKeep
  <2> QED BY <2>1, <2>2 DEF ClosureNext
<1> QED BY <1>1, <1>2, PTL DEF ClosureSpec

(* What the evidence of a pass says is true (writeClosureEvidence and the   *)
(* checks before it), whatever strangers did while it was gathered and for  *)
(* every number of their steps and of candidates.                           *)
THEOREM ClosureEvidence == ClosureSpec => []ClosureIsTrue
<1>1. ClosureInv => ClosureIsTrue
  <2> SUFFICES ASSUME ClosureInv, closureFiles # {} PROVE ClosureIsTrue
    BY DEF ClosureIsTrue
  <2>1. PICK e \in Driver : e = driver /\ Knows(e) /\ e.pc \in {"sidecar", "passed"}
    BY DEF ClosureInv, DriverInv
  <2>2. /\ {"A", "B"} \subseteq rounds[1].members /\ State(1) = "SETTLED" /\ State(2) = "SETTLED"
        /\ rounds[1].winner \in {"A", "B"} /\ rounds[1].selectedBy["B"] = 2 /\ rounds[1].allocatedBy["A"] = 2
        /\ "A" \in rounds[2].members
        /\ Count(2) = 1 /\ Total(rounds[2].selectedBy) = 1 /\ Total(rounds[2].allocatedBy) = 1
    BY <2>1 DEF Knows, SecondRound, AfterIsolation
  <2>3. /\ \A r \in {1, 2} : Untouched(rounds[r]) \/ (AllSelected(rounds[r]) /\ AllAllocated(rounds[r]))
        /\ rounds[2].members \in SUBSET Parties
    BY <2>2, PlayersAre DEF ClosureInv, VaultInv, RoundInv, State, Round
  <2>4. \A r \in {1, 2} : ~ Untouched(rounds[r])
    BY <2>2, Counting DEF Untouched
  <2>5. rounds[2].members = {"A"}
    <3>1. IsFiniteSet(rounds[2].members)
      BY <2>3, FS_Subset, PartiesFinite
    <3>2. PICK p : rounds[2].members = {p}
      BY <2>2, <3>1, FS_Singleton DEF Count
    <3> QED BY <2>2, <3>2
  <2> QED BY <2>2, <2>3, <2>4, <2>5 DEF ClosureIsTrue, AllSelected, AllAllocated, Count
<1> QED BY <1>1, ClosureInvariant, PTL
=============================================================================
