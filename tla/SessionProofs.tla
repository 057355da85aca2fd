---------------------------- MODULE SessionProofs ----------------------------
(***************************************************************************)
(* What the wallet session promises, for any number of sessions, calls     *)
(* under way and changes of the wallet: the ref that opens financial       *)
(* actions agrees with the state that is rendered, a session that was      *)
(* closed stays closed, and a verdict on the network counts only in the    *)
(* session it was obtained in.                                             *)
(*                                                                         *)
(* The argument is about attempts.  An answer of the wallet may complete   *)
(* an attempt only while the attempt's number is both the session's epoch  *)
(* and the active attempt.  AttemptInv says what this means for the state  *)
(* that is rendered: it is connecting with that very number, or a network  *)
(* switch of an earlier session has opened it in between.                  *)
(***************************************************************************)
EXTENDS WalletSession, TLAPS

ControlFields == {"intent", "status", "epoch", "rev", "origin", "attempt", "phase"}
RefFields == {"epoch", "authorized", "attempt", "boot"}
CallFields == {"kind", "epoch", "step", "from", "net", "fresh", "cont", "key"}

Connecting == control.intent = "CONNECTING"
Connected == control.intent = "ACTIVE" /\ control.status = "CONNECTED"

\* The numbers of sessions and attempts are numbers.
SessionShape ==
  /\ DOMAIN control = ControlFields
  /\ DOMAIN refs = RefFields
  /\ control.intent \in {"INACTIVE", "CONNECTING", "ACTIVE"}
  /\ control.epoch \in Nat /\ control.attempt \in Nat
  /\ refs.epoch \in Nat /\ refs.attempt \in Nat
  /\ refs.authorized \in BOOLEAN /\ marker \in BOOLEAN /\ ended.clean \in BOOLEAN

\* Calls of an attempt carry its number, which is never 0.
IsCall(c) ==
  /\ DOMAIN c = CallFields
  /\ c.epoch \in Nat
  /\ c.kind \in {"connect", "restore"} => c.epoch # 0

CallsInv == \A c \in calls : IsCall(c)

\* What an active attempt means for the state that is rendered.
AttemptInv ==
  /\ Connecting => control.attempt = control.epoch /\ control.attempt # 0
  /\ ~Connecting => control.attempt = 0
  /\ refs.attempt <= refs.epoch
  /\ refs.attempt # 0 /\ refs.attempt = refs.epoch =>
       (Connecting /\ control.attempt = refs.attempt) \/ Connected

Switching == \E c \in calls : c.kind = "switch"

\* A session that is closed for good: nothing is left that could open it.
ClosedInv ==
  ended.clean => ~refs.authorized /\ control.intent = "INACTIVE" /\ ~marker /\ ~Switching

\* A check before an action whose session goes on finds it open.
RequireInv ==
  \A c \in calls : c.kind = "require" =>
    c.epoch <= refs.epoch /\ (c.epoch = refs.epoch => control.intent = "ACTIVE")

\* There is at most one verdict on the network, of the session its key names.
HealthInv ==
  /\ \A h, g \in health : h = g
  /\ \A h \in health : h.of = <<h.key[4], h.key[5]>>

SessionInv ==
  /\ SessionShape
  /\ CallsInv
  /\ AttemptInv
  /\ AuthorizedIsActive
  /\ ClosedInv
  /\ RequireInv
  /\ HealthInv

\* Of the calls after a step, those of a network switch were there before, and a
\* check before an action was, or begins in the open session.
CallsFollow ==
  /\ \A c \in calls' : IsCall(c)
  /\ Switching' => Switching
  /\ \A d \in calls' : d.kind = "require" =>
       \/ \E c \in calls : c.kind = "require" /\ c.epoch = d.epoch
       \/ d.epoch = refs.epoch /\ control.intent = "ACTIVE"

-----------------------------------------------------------------------------
(* The pieces that handlers are made of. *)

\* A new call is a call; one of an attempt needs a number that is not 0.
LEMMA CallIsCall ==
  ASSUME NEW kind, NEW epoch \in Nat, NEW step,
         kind \in {"connect", "restore"} => epoch # 0
  PROVE  IsCall(Call(kind, epoch, step)) /\ Call(kind, epoch, step).kind = kind
  BY DEF Call, IsCall, CallFields

\* Calls that lose their freshness are the calls they were.
LEMMA OutdatedKeeps ==
  ASSUME NEW cs, \A c \in cs : IsCall(c), NEW d \in Outdated(cs)
  PROVE  IsCall(d) /\ \E c \in cs : d.kind = c.kind /\ d.epoch = c.epoch
<1>1. PICK c \in cs : d = [c EXCEPT !.fresh = FALSE]
  BY DEF Outdated
<1>2. IsCall(c)
  BY <1>1
<1>3. DOMAIN d = CallFields /\ d.kind = c.kind /\ d.epoch = c.epoch
  BY <1>1, <1>2 DEF IsCall, CallFields
<1> QED BY <1>2, <1>3 DEF IsCall

\* Calls that end or are outdated, and a new one that is no network switch, follow.
LEMMA CallsMayFollow ==
  ASSUME CallsInv, NEW d, IsCall(d), d.kind # "switch",
         d.kind = "require" => d.epoch = refs.epoch /\ control.intent = "ACTIVE",
         calls' \subseteq calls \cup {d} \/ calls' \subseteq Outdated(calls) \cup {d}
  PROVE  CallsFollow
<1>1. CASE calls' \subseteq calls \cup {d}
  BY <1>1 DEF CallsInv, CallsFollow, Switching
<1>2. CASE calls' \subseteq Outdated(calls) \cup {d}
  <2>1. \A x \in Outdated(calls) : IsCall(x) /\ \E c \in calls : x.kind = c.kind /\ x.epoch = c.epoch
    BY OutdatedKeeps DEF CallsInv
  <2> QED BY <1>2, <2>1 DEF CallsFollow, Switching
<1> QED BY <1>1, <1>2

\* A check before an action stays one of an open session if the session goes on,
\* and one of an earlier session if it does not.
LEMMA RequiresKeep ==
  ASSUME SessionInv, CallsFollow, refs'.epoch \in Nat,
         \/ refs'.epoch > refs.epoch
         \/ refs'.epoch = refs.epoch /\ (control.intent = "ACTIVE" => control'.intent = "ACTIVE")
  PROVE  RequireInv'
<1> SUFFICES ASSUME NEW d \in calls', d.kind = "require"
             PROVE  d.epoch <= refs'.epoch /\ (d.epoch = refs'.epoch => control'.intent = "ACTIVE")
  BY DEF RequireInv
<1>1. d.epoch \in Nat /\ refs.epoch \in Nat
  BY DEF CallsFollow, IsCall, SessionInv, SessionShape
<1>2. d.epoch <= refs.epoch /\ (d.epoch = refs.epoch => control.intent = "ACTIVE")
  <2>1. CASE d.epoch = refs.epoch /\ control.intent = "ACTIVE"
    BY <1>1, <2>1
  <2>2. CASE \E c \in calls : c.kind = "require" /\ c.epoch = d.epoch
    BY <2>2 DEF SessionInv, RequireInv
  <2> QED BY <2>1, <2>2 DEF CallsFollow
<1> QED BY <1>1, <1>2

\* A step that leaves the session alone.
LEMMA QuietKeeps ==
  ASSUME SessionInv, UNCHANGED <<control, refs, marker, ended>>, CallsFollow,
         UNCHANGED health \/ HealthInv'
  PROVE  SessionInv'
<1>1. SessionShape' /\ AttemptInv' /\ AuthorizedIsActive'
  BY DEF SessionInv, SessionShape, AttemptInv, AuthorizedIsActive, Connecting, Connected
<1>2. CallsInv' /\ ClosedInv'
  BY DEF SessionInv, CallsInv, ClosedInv, CallsFollow
<1>3. HealthInv'
  BY DEF SessionInv, HealthInv
<1>4. RequireInv'
  BY RequiresKeep DEF SessionInv, SessionShape
<1> QED BY <1>1, <1>2, <1>3, <1>4 DEF SessionInv

\* The state that is rendered after the end of a session.
LEMMA InvalidatedIs ==
  ASSUME NEW epoch
  PROVE  /\ DOMAIN Invalidated(epoch) = ControlFields
         /\ Invalidated(epoch).intent = "INACTIVE" /\ Invalidated(epoch).attempt = 0
         /\ Invalidated(epoch).epoch = epoch
  BY DEF Invalidated, initialWalletSessionControl, ControlFields

\* A phase of an attempt is shown, or nothing happens.
LEMMA PhaseIs ==
  ASSUME SessionShape, NEW phase, NEW attempt
  PROVE  /\ DOMAIN Phase(phase, attempt) = ControlFields
         /\ Phase(phase, attempt).intent = control.intent
         /\ Phase(phase, attempt).status = control.status
         /\ Phase(phase, attempt).epoch = control.epoch
         /\ Phase(phase, attempt).attempt = control.attempt
  BY DEF SessionShape, Phase, ControlFields

\* A step that shows a phase.
LEMMA PhaseKeeps ==
  ASSUME SessionInv, NEW phase, NEW attempt, control' = Phase(phase, attempt),
         UNCHANGED <<refs, marker, ended, health>>, CallsFollow
  PROVE  SessionInv'
<1>1. /\ DOMAIN control' = ControlFields /\ control'.intent = control.intent
      /\ control'.status = control.status /\ control'.epoch = control.epoch
      /\ control'.attempt = control.attempt
  BY PhaseIs DEF SessionInv
<1>2. SessionShape' /\ AttemptInv' /\ AuthorizedIsActive'
  BY <1>1 DEF SessionInv, SessionShape, AttemptInv, AuthorizedIsActive, Connecting, Connected
<1>3. CallsInv' /\ ClosedInv' /\ HealthInv'
  BY <1>1 DEF SessionInv, CallsInv, ClosedInv, CallsFollow, HealthInv
<1>4. RequireInv'
  BY <1>1, RequiresKeep DEF SessionInv, SessionShape
<1> QED BY <1>2, <1>3, <1>4 DEF SessionInv

\* The history notes whether the session is closed for good.
LEMMA EndsIs ==
  ASSUME Ends
  PROVE  ended'.clean \in BOOLEAN /\ (ended'.clean => ended.clean \/ ~Switching)
<1>1. ended'.clean \in BOOLEAN
  BY DEF Ends
<1>2. ended'.clean = (ended.clean \/ ~Switching)
  BY DEF Ends, Switching
<1> QED BY <1>1, <1>2

\* The end of a session, whoever ends it: the number moves on, so that no attempt
\* is active.
LEMMA InvalidateKeeps ==
  ASSUME SessionInv, invalidateSession, CallsFollow
  PROVE  SessionInv'
<1>1. /\ DOMAIN refs' = RefFields /\ refs'.epoch = refs.epoch + 1 /\ refs'.authorized = FALSE
      /\ refs'.attempt = 0
  BY DEF SessionInv, SessionShape, invalidateSession, RefFields
<1>2. /\ DOMAIN control' = ControlFields /\ control'.intent = "INACTIVE" /\ control'.attempt = 0
      /\ control'.epoch = refs.epoch + 1
  BY InvalidatedIs DEF invalidateSession
<1>3. marker' = FALSE /\ health' = {} /\ ended'.clean = (ended.clean \/ ~Switching)
  BY DEF invalidateSession, Ends, Switching
<1>4. SessionShape'
  <2>1. ended'.clean \in BOOLEAN
    BY DEF invalidateSession, Ends
  <2>2. marker' \in BOOLEAN
    BY <1>3
  <2>3. refs'.authorized \in BOOLEAN
    BY <1>1
  <2>4. refs'.epoch \in Nat /\ refs'.attempt \in Nat /\ control'.epoch \in Nat /\ control'.attempt \in Nat
    BY <1>1, <1>2 DEF SessionInv, SessionShape
  <2>5. DOMAIN control' = ControlFields /\ DOMAIN refs' = RefFields
        /\ control'.intent \in {"INACTIVE", "CONNECTING", "ACTIVE"}
    BY <1>1, <1>2
  <2> QED BY <2>1, <2>2, <2>3, <2>4, <2>5 DEF SessionShape
<1>5. AttemptInv' /\ AuthorizedIsActive'
  BY <1>1, <1>2 DEF SessionInv, SessionShape, AttemptInv, AuthorizedIsActive, Connecting, Connected
<1>6. ClosedInv'
  BY <1>1, <1>2, <1>3 DEF SessionInv, ClosedInv, CallsFollow
<1>7. CallsInv' /\ HealthInv'
  BY <1>3 DEF CallsInv, CallsFollow, HealthInv
<1>8. RequireInv'
  <2>1. refs'.epoch \in Nat /\ refs'.epoch > refs.epoch
    BY <1>1 DEF SessionInv, SessionShape
  <2> QED BY <2>1, RequiresKeep
<1> QED BY <1>4, <1>5, <1>6, <1>7, <1>8 DEF SessionInv

\* completeAttemptFromObservations, for the active attempt.  The reducer ignores an
\* attempt it does not know: then the session is open already.
LEMMA CompleteKeeps ==
  ASSUME SessionInv, NEW attempt, NEW a, NEW chain, NEW rev,
         attempt # 0, attempt = refs.epoch, attempt = refs.attempt,
         Complete(attempt, a, chain, rev), UNCHANGED <<ended, health>>, CallsFollow
  PROVE  SessionInv'
<1>1. CASE control' = Phase("WAITING_FOR_ACCOUNT_SELECTION", attempt) /\ UNCHANGED <<refs, marker>>
  BY <1>1, PhaseKeeps
<1>2. CASE control' = Phase("VERIFYING_RUNTIME", attempt) /\ UNCHANGED <<refs, marker>>
  BY <1>2, PhaseKeeps
<1>3. ASSUME NEW status, NEW authorized \in BOOLEAN, authorized => status = "CONNECTED",
             marker' = TRUE,
             refs' = [refs EXCEPT !.authorized = authorized, !.attempt = 0],
             control' = Opened(status, attempt, rev, attempt)
      PROVE  SessionInv'
  <2>1. /\ DOMAIN refs' = RefFields /\ refs'.epoch = refs.epoch /\ refs'.authorized = authorized
        /\ refs'.attempt = 0
    BY <1>3 DEF SessionInv, SessionShape, RefFields
  <2>2. (Connecting /\ control.attempt = attempt) \/ Connected
    BY DEF SessionInv, AttemptInv
  <2>3. CASE control.attempt = attempt
    <3>1. /\ DOMAIN control' = ControlFields /\ control'.intent = "ACTIVE"
          /\ control'.status = status /\ control'.attempt = 0 /\ control'.epoch = attempt
      BY <1>3, <2>3 DEF Opened, ControlFields
    <3>2. SessionShape' /\ AttemptInv' /\ AuthorizedIsActive'
      BY <1>3, <2>1, <3>1 DEF SessionInv, SessionShape, AttemptInv, AuthorizedIsActive, Connecting,
                              Connected
    <3>3. ~ended.clean
      BY <2>2 DEF SessionInv, ClosedInv, Connecting, Connected
    <3>4. CallsInv' /\ ClosedInv' /\ HealthInv'
      BY <3>3 DEF SessionInv, CallsInv, ClosedInv, CallsFollow, HealthInv
    <3>5. RequireInv'
      <4>1. refs'.epoch \in Nat /\ refs'.epoch = refs.epoch
        BY <2>1 DEF SessionInv, SessionShape
      <4>2. control'.intent = "ACTIVE"
        BY <3>1 DEF Connected
      <4> QED BY <4>1, <4>2, RequiresKeep
    <3> QED BY <3>2, <3>4, <3>5 DEF SessionInv
  <2>4. CASE control.attempt # attempt
    <3>1. control' = control /\ Connected
      BY <1>3, <2>2, <2>4 DEF Opened
    <3>2. SessionShape' /\ AttemptInv' /\ AuthorizedIsActive'
      BY <1>3, <2>1, <3>1 DEF SessionInv, SessionShape, AttemptInv, AuthorizedIsActive, Connecting,
                              Connected
    <3>3. ~ended.clean
      BY <2>2 DEF SessionInv, ClosedInv, Connecting, Connected
    <3>4. CallsInv' /\ ClosedInv' /\ HealthInv'
      BY <3>3 DEF SessionInv, CallsInv, ClosedInv, CallsFollow, HealthInv
    <3>5. RequireInv'
      <4>1. refs'.epoch \in Nat /\ refs'.epoch = refs.epoch
        BY <2>1 DEF SessionInv, SessionShape
      <4>2. control'.intent = "ACTIVE"
        BY <3>1 DEF Connected
      <4> QED BY <4>1, <4>2, RequiresKeep
    <3> QED BY <3>2, <3>4, <3>5 DEF SessionInv
  <2> QED BY <2>3, <2>4
<1>4. CASE /\ marker' = TRUE /\ refs' = [refs EXCEPT !.authorized = FALSE, !.attempt = 0]
           /\ control' = Opened("WRONG_NETWORK", attempt, rev, attempt)
  BY <1>3, <1>4
<1>5. CASE /\ marker' = TRUE /\ refs' = [refs EXCEPT !.authorized = TRUE, !.attempt = 0]
           /\ control' = Opened("CONNECTED", attempt, rev, attempt)
  BY <1>3, <1>5
<1> QED BY <1>1, <1>2, <1>4, <1>5 DEF Complete

-----------------------------------------------------------------------------
(* The handlers keep the invariant. *)

\* What happens outside the session: the wallet, its events, the account.
LEMMA OutsideKeeps ==
  ASSUME SessionInv,
         \/ AccountEvent \/ ChainEvent \/ RuntimeSync \/ ConfirmWallet
         \/ \E s : AccountBecomes(s)
         \/ \E a : ExtensionAccount(a)
         \/ \E n : ExtensionChain(n)
  PROVE  SessionInv'
<1>1. /\ UNCHANGED <<control, refs, marker, ended, health>>
      /\ calls' = calls \/ calls' = Outdated(calls)
  BY DEF AccountEvent, ChainEvent, RuntimeSync, ConfirmWallet, AccountBecomes, ExtensionAccount,
         ExtensionChain, pageVars
<1>2. CallsFollow
  <2> DEFINE d == Call("refresh", 0, "reads")
  <2>1. IsCall(d) /\ d.kind = "refresh"
    BY CallIsCall
  <2> HIDE DEF d
  <2>2. calls' \subseteq calls \cup {d} \/ calls' \subseteq Outdated(calls) \cup {d}
    BY <1>1
  <2> QED BY <2>1, <2>2, CallsMayFollow DEF SessionInv
<1> QED BY <1>1, <1>2, QuietKeeps

\* Reads, checks and probes that begin.
LEMMA BeginningsKeep ==
  ASSUME SessionInv, Refresh \/ Require \/ StartProbe
  PROVE  SessionInv'
<1>1. UNCHANGED <<control, refs, marker, ended, health>> /\ refs.epoch \in Nat
  BY DEF SessionInv, SessionShape, Refresh, Require, StartProbe
<1>2. IsCall(Probe) /\ Probe.kind = "probe"
  <2>1. IsCall(Call("probe", 0, "preflight")) /\ Call("probe", 0, "preflight").kind = "probe"
    BY CallIsCall
  <2> QED BY <2>1 DEF Probe, IsCall, CallFields
<1>3. PICK d : /\ IsCall(d) /\ d.kind # "switch"
               /\ d.kind = "require" => d.epoch = refs.epoch /\ control.intent = "ACTIVE"
               /\ calls' \subseteq calls \cup {d} \/ calls' \subseteq Outdated(calls) \cup {d}
  <2>1. CASE Refresh
    <3>1. IsCall(Call("refresh", 0, "reads")) /\ Call("refresh", 0, "reads").kind = "refresh"
      BY CallIsCall
    <3>2. calls' = Outdated(calls) \cup {Call("refresh", 0, "reads")}
      BY <2>1 DEF Refresh
    <3> QED BY <3>1, <3>2
  <2>2. CASE Require
    <3>1. /\ IsCall(Call("require", refs.epoch, "reads"))
          /\ Call("require", refs.epoch, "reads").kind = "require"
          /\ Call("require", refs.epoch, "reads").epoch = refs.epoch
      BY <1>1, CallIsCall DEF Call
    <3>3. control.intent = "ACTIVE"
      BY <2>2 DEF Require, SessionInv, AuthorizedIsActive
    <3>2. calls' = Outdated(calls) \cup {Call("require", refs.epoch, "reads")}
      BY <2>2 DEF Require
    <3> QED BY <3>1, <3>2, <3>3
  <2>3. CASE StartProbe
    <3>1. calls' = calls \cup {Probe}
      BY <2>3 DEF StartProbe
    <3> QED BY <1>2, <3>1
  <2> QED BY <2>1, <2>2, <2>3
<1>4. CallsFollow
  BY <1>3, CallsMayFollow DEF SessionInv
<1> QED BY <1>1, <1>4, QuietKeeps

\* Answers that end a call and leave the session as it is.
LEMMA EndingsKeep ==
  ASSUME SessionInv, NEW c \in calls, RefreshDone(c) \/ RequireFails(c) \/ SwitchFails(c)
  PROVE  SessionInv'
<1>1. UNCHANGED <<control, refs, marker, ended, health>> /\ calls' = calls \ {c}
  BY DEF RefreshDone, RequireFails, SwitchFails
<1>2. CallsFollow
  BY <1>1 DEF SessionInv, CallsInv, CallsFollow, Switching
<1> QED BY <1>1, <1>2, QuietKeeps

\* Calls that go on: the account is read again, the network is.
LEMMA GoingOnKeeps ==
  ASSUME SessionInv, NEW c \in calls, ConnectNetwork(c) \/ Switched(c)
  PROVE  SessionInv'
<1>1. UNCHANGED <<control, refs, marker, ended, health>>
  BY DEF ConnectNetwork, Switched
<1>2. PICK d : /\ DOMAIN d = CallFields /\ d.kind = c.kind /\ d.epoch = c.epoch
               /\ calls' = calls \ {c} \/ calls' = Outdated(calls \ {c}) \cup {d}
  <2> DEFINE d1 == [c EXCEPT !.step = "refresh", !.net = ext.chain, !.from = ext.account, !.fresh = TRUE]
             d2 == [c EXCEPT !.step = "reads", !.from = ext.account, !.fresh = TRUE]
  <2>1. /\ DOMAIN d1 = CallFields /\ d1.kind = c.kind /\ d1.epoch = c.epoch
        /\ DOMAIN d2 = CallFields /\ d2.kind = c.kind /\ d2.epoch = c.epoch
    BY DEF SessionInv, CallsInv, IsCall, CallFields
  <2>2. \/ calls' = calls \ {c} \/ calls' = Outdated(calls \ {c}) \cup {d1}
        \/ calls' = Outdated(calls \ {c}) \cup {d2}
    BY DEF ConnectNetwork, Switched
  <2> HIDE DEF d1, d2
  <2> QED BY <2>1, <2>2
<1>3. IsCall(d)
  BY <1>2 DEF SessionInv, CallsInv, IsCall
<1>4. CallsFollow
  <2>1. \A x \in Outdated(calls \ {c}) : IsCall(x) /\ \E y \in calls : x.kind = y.kind /\ x.epoch = y.epoch
    <3> TAKE x \in Outdated(calls \ {c})
    <3>1. \A y \in calls \ {c} : IsCall(y)
      BY DEF SessionInv, CallsInv
    <3>2. IsCall(x) /\ \E y \in calls \ {c} : x.kind = y.kind /\ x.epoch = y.epoch
      BY <3>1, OutdatedKeeps
    <3> QED BY <3>2
  <2>2. CASE calls' = calls \ {c}
    BY <2>2 DEF SessionInv, CallsInv, CallsFollow, Switching
  <2>3. CASE calls' = Outdated(calls \ {c}) \cup {d}
    BY <1>2, <1>3, <2>1, <2>3 DEF CallsFollow, Switching
  <2> QED BY <1>2, <2>2, <2>3
<1> QED BY <1>1, <1>4, QuietKeeps

\* A verdict on the network is recorded for the session that asked for it.
LEMMA ProbeKeeps ==
  ASSUME SessionInv, NEW c \in calls, NEW state, ProbeDone(c, state)
  PROVE  SessionInv'
<1>1. UNCHANGED <<control, refs, marker, ended>> /\ calls' = calls \ {c}
  BY DEF ProbeDone
<1>2. CallsFollow
  BY <1>1 DEF SessionInv, CallsInv, CallsFollow, Switching
<1>3. HealthInv'
  <2>1. CASE walletSessionIdentityKey = c.key
    <3>1. health' = {[key |-> c.key, state |-> state, of |-> <<control.epoch, control.rev>>]}
      BY <2>1 DEF ProbeDone
    <3>2. c.key[4] = control.epoch /\ c.key[5] = control.rev
      BY <2>1 DEF walletSessionIdentityKey
    <3> QED BY <3>1, <3>2 DEF HealthInv
  <2>2. CASE walletSessionIdentityKey # c.key
    <3>1. health' = health
      BY <2>2 DEF ProbeDone
    <3> QED BY <3>1 DEF SessionInv, HealthInv
  <2> QED BY <2>1, <2>2
<1> QED BY <1>1, <1>2, <1>3, QuietKeeps

\* A user who connects starts a new attempt, or asks again in the one under way.
LEMMA ConnectKeeps ==
  ASSUME SessionInv, connectVerifiedWallet
  PROVE  SessionInv'
<1>1. CASE Connecting
  <2> DEFINE d == Call("connect", control.epoch, "accounts")
  <2>1. /\ calls' = calls \cup {d} /\ control' = Phase("SYNCING_PROVIDER", control.attempt)
        /\ UNCHANGED <<refs, marker, ended, health>>
    BY <1>1 DEF connectVerifiedWallet, Connecting
  <2>2. control.epoch \in Nat /\ control.epoch # 0
    BY <1>1 DEF SessionInv, SessionShape, AttemptInv
  <2>3. IsCall(d) /\ d.kind = "connect"
    BY <2>2, CallIsCall
  <2> HIDE DEF d
  <2>4. CallsFollow
    BY <2>1, <2>3, CallsMayFollow DEF SessionInv
  <2> QED BY <2>1, <2>4, PhaseKeeps
<1>2. CASE ~Connecting
  <2> DEFINE e == refs.epoch + 1
             d == Call("connect", e, "accounts")
  <2>1. /\ refs' = [refs EXCEPT !.epoch = e, !.authorized = FALSE, !.attempt = e]
        /\ control' = [Started("USER", e) EXCEPT !.phase = "SYNCING_PROVIDER"]
        /\ calls' = calls \cup {d} /\ ended' = [any |-> FALSE, clean |-> FALSE]
        /\ UNCHANGED <<marker, health>>
    BY <1>2 DEF connectVerifiedWallet, Connecting
  <2>2. e \in Nat /\ e # 0 /\ DOMAIN refs = RefFields /\ marker \in BOOLEAN
    BY DEF SessionInv, SessionShape
  <2>3. IsCall(d) /\ d.kind = "connect"
    BY <2>2, CallIsCall
  <2> HIDE DEF d, e
  <2>4. CallsFollow
    BY <2>1, <2>3, CallsMayFollow DEF SessionInv
  <2>5. /\ DOMAIN refs' = RefFields /\ refs'.epoch = e /\ refs'.authorized = FALSE
        /\ refs'.attempt = e
    BY <2>1, <2>2 DEF RefFields
  <2>6. /\ DOMAIN control' = ControlFields /\ control'.intent = "CONNECTING"
        /\ control'.epoch = e /\ control'.attempt = e
    BY <2>1 DEF Started, ControlFields
  <2>7. ended'.clean = FALSE
    BY <2>1
  <2>8. SessionShape'
    BY <2>1, <2>2, <2>5, <2>6, <2>7 DEF SessionShape
  <2>9. AttemptInv' /\ AuthorizedIsActive'
    BY <2>2, <2>5, <2>6 DEF AttemptInv, AuthorizedIsActive, Connecting, Connected
  <2>10. CallsInv' /\ ClosedInv' /\ HealthInv'
    BY <2>1, <2>4, <2>7 DEF SessionInv, CallsInv, ClosedInv, CallsFollow, HealthInv
  <2>11. RequireInv'
    <3>1. refs'.epoch \in Nat /\ refs'.epoch > refs.epoch
      BY <2>2, <2>5 DEF SessionInv, SessionShape, e
    <3> QED BY <2>4, <3>1, RequiresKeep
  <2> QED BY <2>8, <2>9, <2>10, <2>11 DEF SessionInv
<1> QED BY <1>1, <1>2

\* A user who disconnects.
LEMMA DisconnectKeeps ==
  ASSUME SessionInv, disconnectLeopoldWallet
  PROVE  SessionInv'
<1>1. invalidateSession /\ calls' = calls
  BY DEF disconnectLeopoldWallet
<1>2. CallsFollow
  BY <1>1 DEF SessionInv, CallsInv, CallsFollow, Switching
<1> QED BY <1>1, <1>2, InvalidateKeeps

\* A network switch begins in an open session only, which is not closed for good.
LEMMA SwitchKeeps ==
  ASSUME SessionInv, switchToSepolia
  PROVE  SessionInv'
<1> DEFINE e == refs.epoch + 1
           d == Call("switch", e, "switch")
<1>1. /\ control.intent = "ACTIVE" /\ refs' = [refs EXCEPT !.epoch = e] /\ calls' = calls \cup {d}
      /\ UNCHANGED <<control, marker, ended, health>>
  BY DEF switchToSepolia
<1>2. e \in Nat /\ e = refs.epoch + 1 /\ IsCall(d) /\ d.kind = "switch"
  <2>1. e \in Nat
    BY DEF SessionInv, SessionShape
  <2> QED BY <2>1, CallIsCall
<1> HIDE DEF d, e
<1>3. /\ DOMAIN refs' = RefFields /\ refs'.epoch = e /\ refs'.authorized = refs.authorized
      /\ refs'.attempt = refs.attempt
  BY <1>1 DEF SessionInv, SessionShape, RefFields
<1>4. SessionShape' /\ AttemptInv' /\ AuthorizedIsActive'
  BY <1>1, <1>2, <1>3 DEF SessionInv, SessionShape, AttemptInv, AuthorizedIsActive, Connecting,
                          Connected
<1>5. ~ended.clean
  BY <1>1 DEF SessionInv, ClosedInv
<1>6. CallsInv' /\ ClosedInv' /\ HealthInv'
  BY <1>1, <1>2, <1>5 DEF SessionInv, CallsInv, ClosedInv, HealthInv
<1>7. RequireInv'
  <2> SUFFICES ASSUME NEW x \in calls, x.kind = "require"
               PROVE  x.epoch <= e /\ x.epoch # e
    BY <1>1, <1>2, <1>3 DEF RequireInv
  <2>1. x.epoch \in Nat /\ refs.epoch \in Nat /\ x.epoch <= refs.epoch
    BY DEF SessionInv, SessionShape, CallsInv, IsCall, RequireInv
  <2> QED BY <1>2, <2>1
<1> QED BY <1>4, <1>6, <1>7 DEF SessionInv

\* A call of an attempt that fails: the attempt ends if it is the active one.  The
\* state that is rendered follows only if it is still connecting.
LEMMA FailsKeeps ==
  ASSUME SessionInv, NEW c \in calls, c.kind = "connect", NEW status, Fails(c, status),
         UNCHANGED health
  PROVE  SessionInv'
<1>1. calls' = calls \ {c} /\ IsCall(c) /\ c.epoch # 0 /\ c.epoch \in Nat
  BY DEF Fails, SessionInv, CallsInv, IsCall
<1>2. CallsFollow
  BY <1>1 DEF SessionInv, CallsInv, CallsFollow, Switching
<1>3. CASE ~IsActive(c)
  BY <1>2, <1>3, QuietKeeps DEF Fails
<1>4. CASE IsActive(c)
  <2>1. /\ marker' = FALSE /\ refs' = [refs EXCEPT !.attempt = 0]
        /\ control' = Failed(status, c.epoch, c.epoch)
        /\ IF control.attempt = c.epoch THEN Ends ELSE UNCHANGED ended
    BY <1>4 DEF Fails
  <2>2. /\ DOMAIN refs' = RefFields /\ refs'.epoch = refs.epoch
        /\ refs'.authorized = refs.authorized /\ refs'.attempt = 0
    BY <2>1 DEF SessionInv, SessionShape, RefFields
  <2>3. marker' \in BOOLEAN /\ refs'.authorized \in BOOLEAN /\ ended'.clean \in BOOLEAN
    <3>1. ended'.clean \in BOOLEAN
      <4>1. ended.clean \in BOOLEAN
        BY DEF SessionInv, SessionShape
      <4>2. CASE Ends
        BY <4>2, EndsIs
      <4>3. CASE UNCHANGED ended
        BY <4>1, <4>3
      <4> QED BY <2>1, <4>2, <4>3
    <3>2. refs'.authorized \in BOOLEAN
      BY <2>2 DEF SessionInv, SessionShape
    <3>3. marker' \in BOOLEAN
      BY <2>1
    <3> QED BY <3>1, <3>2, <3>3
  <2>4. CASE control.attempt = c.epoch
    <3> DEFINE x == Invalidated(c.epoch)
    <3>1. control' = [x EXCEPT !.status = status]
      BY <2>1, <2>4 DEF Failed
    <3>2. DOMAIN x = ControlFields /\ x.intent = "INACTIVE" /\ x.attempt = 0 /\ x.epoch = c.epoch
      BY InvalidatedIs
    <3> HIDE DEF x
    <3>3. /\ DOMAIN control' = ControlFields /\ control'.intent = "INACTIVE"
          /\ control'.attempt = 0 /\ control'.epoch = c.epoch
      BY <3>1, <3>2 DEF ControlFields
    <3>4. ~refs.authorized /\ ~Connected
      BY <1>1, <2>4 DEF SessionInv, AttemptInv, AuthorizedIsActive, Connecting, Connected
    <3>5. SessionShape'
      BY <1>1, <2>2, <2>3, <3>3 DEF SessionInv, SessionShape
    <3>6. AttemptInv' /\ AuthorizedIsActive'
      BY <2>2, <3>3, <3>4 DEF SessionInv, SessionShape, AttemptInv, AuthorizedIsActive, Connecting,
                              Connected
    <3>7. ended'.clean => ended.clean \/ ~Switching
      BY <2>1, <2>4, EndsIs
    <3>8. ClosedInv'
      BY <1>2, <2>1, <2>2, <3>3, <3>4, <3>7 DEF SessionInv, ClosedInv, CallsFollow
    <3>9. CallsInv' /\ HealthInv'
      BY <1>2 DEF SessionInv, CallsInv, CallsFollow, HealthInv
    <3>10. RequireInv'
      <4>1. refs'.epoch \in Nat /\ refs'.epoch = refs.epoch
        BY <2>2 DEF SessionInv, SessionShape
      <4>2. control.intent # "ACTIVE"
        BY <1>1, <2>4 DEF SessionInv, AttemptInv, Connecting
      <4> QED BY <1>2, <4>1, <4>2, RequiresKeep
    <3> QED BY <3>5, <3>6, <3>8, <3>9, <3>10 DEF SessionInv
  <2>5. CASE control.attempt # c.epoch
    <3>1. control' = control /\ ended' = ended
      BY <2>1, <2>5 DEF Failed
    <3>2. SessionShape'
      BY <2>2, <2>3, <3>1 DEF SessionInv, SessionShape
    <3>3. AttemptInv' /\ AuthorizedIsActive'
      BY <2>2, <3>1 DEF SessionInv, SessionShape, AttemptInv, AuthorizedIsActive, Connecting,
                        Connected
    <3>4. CallsInv' /\ HealthInv' /\ ClosedInv'
      BY <1>2, <2>1, <2>2, <3>1 DEF SessionInv, CallsInv, CallsFollow, HealthInv, ClosedInv
    <3>5. RequireInv'
      <4>1. refs'.epoch \in Nat /\ refs'.epoch = refs.epoch
        BY <2>2 DEF SessionInv, SessionShape
      <4> QED BY <1>2, <3>1, <4>1, RequiresKeep
    <3> QED BY <3>2, <3>3, <3>4, <3>5 DEF SessionInv
  <2> QED BY <2>4, <2>5
<1> QED BY <1>3, <1>4

\* The reads of an attempt: it goes on, waits for the user or fails.
LEMMA AccountsKeep ==
  ASSUME SessionInv, NEW c \in calls, ConnectAccounts(c) \/ ConnectFails(c)
  PROVE  SessionInv'
<1>1. c.kind = "connect" /\ UNCHANGED health /\ IsCall(c)
  BY DEF ConnectAccounts, ConnectFails, SessionInv, CallsInv
<1>2. \/ \E status : Fails(c, status)
      \/ Selection(c)
      \/ /\ \E step, from : calls' = (calls \ {c}) \cup {[c EXCEPT !.step = step, !.from = from]}
         /\ UNCHANGED <<refs, control, marker, ended>>
  BY DEF ConnectAccounts, ConnectFails
<1>3. CASE \E status : Fails(c, status)
  BY <1>1, <1>3, FailsKeeps
<1>4. CASE Selection(c)
  <2>1. CallsFollow
    BY <1>4 DEF Selection, SessionInv, CallsInv, CallsFollow, Switching
  <2>2. CASE IsActive(c)
    BY <1>1, <1>4, <2>1, <2>2, PhaseKeeps DEF Selection
  <2>3. CASE ~IsActive(c)
    BY <1>1, <1>4, <2>1, <2>3, QuietKeeps DEF Selection
  <2> QED BY <2>2, <2>3
<1>5. ASSUME NEW step, NEW from,
             calls' = (calls \ {c}) \cup {[c EXCEPT !.step = step, !.from = from]},
             UNCHANGED <<refs, control, marker, ended>>
      PROVE  SessionInv'
  <2> DEFINE d == [c EXCEPT !.step = step, !.from = from]
  <2>1. DOMAIN d = CallFields /\ d.kind = c.kind /\ d.epoch = c.epoch
    BY <1>1 DEF IsCall, CallFields
  <2>2. calls' = (calls \ {c}) \cup {d}
    BY <1>5
  <2> HIDE DEF d
  <2>3. IsCall(d) /\ d.kind = "connect"
    BY <1>1, <2>1 DEF IsCall
  <2>4. calls' \subseteq calls \cup {d}
    BY <2>2
  <2>5. CallsFollow
    BY <2>3, <2>4, CallsMayFollow DEF SessionInv
  <2> QED BY <1>1, <1>5, <2>5, QuietKeeps
<1> QED BY <1>2, <1>3, <1>4, <1>5

\* A step that gives the session a new number and no attempt that is active.
LEMMA MovesOnKeeps ==
  ASSUME SessionInv, CallsFollow,
         DOMAIN control' = ControlFields, DOMAIN refs' = RefFields,
         refs'.epoch = refs.epoch + 1, refs'.attempt \in {0, refs.attempt},
         control'.intent \in {"INACTIVE", "ACTIVE"}, control'.attempt = 0,
         control'.epoch = refs.epoch + 1,
         refs'.authorized \in BOOLEAN, marker' \in BOOLEAN, ended'.clean \in BOOLEAN,
         AuthorizedIsActive', ClosedInv', UNCHANGED health
  PROVE  SessionInv'
<1>1. /\ refs.epoch \in Nat /\ refs.attempt \in Nat /\ refs.attempt <= refs.epoch
      /\ refs'.epoch \in Nat /\ refs'.attempt \in Nat
      /\ refs'.epoch > refs.epoch /\ refs'.attempt < refs'.epoch
  BY DEF SessionInv, SessionShape, AttemptInv
<1>2. control'.intent \in {"INACTIVE", "CONNECTING", "ACTIVE"} /\ control'.intent # "CONNECTING"
  OBVIOUS
<1>3. SessionShape'
  BY <1>1, <1>2 DEF SessionShape
<1>4. AttemptInv'
  BY <1>1, <1>2 DEF AttemptInv, Connecting
<1>5. CallsInv' /\ HealthInv'
  BY DEF SessionInv, CallsInv, CallsFollow, HealthInv
<1>6. RequireInv'
  BY <1>1, RequiresKeep
<1> QED BY <1>3, <1>4, <1>5, <1>6 DEF SessionInv

\* The last answer of an attempt.
LEMMA ConnectDoneKeeps ==
  ASSUME SessionInv, NEW c \in calls, ConnectDone(c)
  PROVE  SessionInv'
<1>1. c.epoch # 0 /\ calls' = calls \ {c} /\ UNCHANGED <<ended, health>>
  BY DEF ConnectDone, SessionInv, CallsInv, IsCall
<1>2. CallsFollow
  BY <1>1 DEF SessionInv, CallsInv, CallsFollow, Switching
<1>3. CASE IsActive(c)
  <2>1. Complete(c.epoch, Verified, c.net, obs'.rev)
    BY <1>3 DEF ConnectDone
  <2> QED BY <1>1, <1>2, <1>3, <2>1, CompleteKeeps DEF IsActive
<1>4. CASE ~IsActive(c)
  BY <1>1, <1>2, <1>4, QuietKeeps DEF ConnectDone
<1> QED BY <1>3, <1>4

\* An attempt that takes too long.
LEMMA TimeoutKeeps ==
  ASSUME SessionInv, Timeout
  PROVE  SessionInv'
<1> DEFINE e == refs.epoch + 1
           x == Invalidated(e)
<1>1. /\ Connecting /\ refs' = [refs EXCEPT !.epoch = e, !.attempt = 0] /\ marker' = FALSE
      /\ control' = x \/ control' = [x EXCEPT !.status = "ERROR"]
      /\ Ends /\ UNCHANGED <<calls, health>>
  BY DEF Timeout, Failed, Connecting
<1>2. DOMAIN x = ControlFields /\ x.intent = "INACTIVE" /\ x.attempt = 0 /\ x.epoch = e
  BY InvalidatedIs
<1> HIDE DEF x
<1>3. /\ DOMAIN control' = ControlFields /\ control'.intent = "INACTIVE"
      /\ control'.attempt = 0 /\ control'.epoch = e
  BY <1>1, <1>2 DEF ControlFields
<1>4. /\ DOMAIN refs' = RefFields /\ refs'.epoch = e /\ refs'.authorized = refs.authorized
      /\ refs'.attempt = 0
  BY <1>1 DEF SessionInv, SessionShape, RefFields
<1>5. ~refs.authorized
  BY <1>1 DEF SessionInv, AuthorizedIsActive, Connecting
<1>6. CallsFollow
  BY <1>1 DEF SessionInv, CallsInv, CallsFollow, Switching
<1>7. ended'.clean \in BOOLEAN /\ (ended'.clean => ended.clean \/ ~Switching)
  BY <1>1, EndsIs
<1>8. refs'.authorized \in BOOLEAN
  BY <1>4 DEF SessionInv, SessionShape
<1>9. AuthorizedIsActive' /\ ClosedInv'
  BY <1>1, <1>3, <1>4, <1>5, <1>6, <1>7 DEF AuthorizedIsActive, SessionInv, ClosedInv, CallsFollow
<1>10. marker' \in BOOLEAN
  BY <1>1
<1> QED BY <1>1, <1>3, <1>4, <1>6, <1>7, <1>8, <1>9, <1>10, MovesOnKeeps

\* The user has selected the verified account: the attempt is taken up again.
LEMMA ContinueKeeps ==
  ASSUME SessionInv, Continue
  PROVE  SessionInv'
<1> DEFINE b == Call("connect", control.epoch, "accounts")
           d == [b EXCEPT !.cont = TRUE]
<1>1. /\ Connecting /\ calls' = calls \cup {d}
      /\ control' = Phase("SYNCING_PROVIDER", control.attempt)
      /\ UNCHANGED <<refs, marker, ended, health>>
  BY DEF Continue, Connecting
<1>2. control.epoch \in Nat /\ control.epoch # 0
  BY <1>1 DEF SessionInv, SessionShape, AttemptInv
<1>3. IsCall(b) /\ b.kind = "connect"
  BY <1>2, CallIsCall
<1> HIDE DEF b
<1>4. IsCall(d) /\ d.kind = "connect"
  BY <1>3 DEF IsCall, CallFields
<1> HIDE DEF d
<1>5. CallsFollow
  BY <1>1, <1>4, CallsMayFollow DEF SessionInv
<1> QED BY <1>1, <1>5, PhaseKeeps

\* The runtime has caught up: the attempt completes, if it is still the active one.
LEMMA VerifyKeeps ==
  ASSUME SessionInv, VerifyRuntime
  PROVE  SessionInv'
<1>1. /\ Connecting /\ refs.epoch = control.epoch /\ refs.attempt = control.attempt
      /\ Complete(control.attempt, obs.account, obs.chain, obs.rev)
      /\ UNCHANGED <<calls, ended, health>>
  BY DEF VerifyRuntime, Connecting
<1>2. control.attempt # 0 /\ control.attempt = refs.epoch /\ control.attempt = refs.attempt
  BY <1>1 DEF SessionInv, AttemptInv
<1>3. CallsFollow
  BY <1>1 DEF SessionInv, CallsInv, CallsFollow, Switching
<1> QED BY <1>1, <1>2, <1>3, CompleteKeeps

\* The account or its wallet has changed: the session ends, or is restored from its
\* marker, which a session that was closed for good does not have.
LEMMA BootstrapKeeps ==
  ASSUME SessionInv, Bootstrap
  PROVE  SessionInv'
<1> DEFINE e == refs.epoch + 1
           next == [refs EXCEPT !.epoch = e, !.authorized = FALSE, !.boot = BootstrapKey]
           d == Call("restore", e, "reads")
<1>1. /\ UNCHANGED health
      /\ \/ /\ refs' = next /\ control' = Invalidated(e)
            /\ UNCHANGED <<marker, calls, ended>>
         \/ /\ refs' = next /\ control' = Invalidated(e)
            /\ marker' = FALSE /\ Ends /\ UNCHANGED calls
         \/ /\ marker /\ refs' = [next EXCEPT !.attempt = e] /\ control' = Started("RESTORE", e)
            /\ calls' = Outdated(calls) \cup {d}
            /\ UNCHANGED <<marker, ended>>
  BY DEF Bootstrap
<1>2. /\ DOMAIN next = RefFields /\ next.epoch = e /\ next.authorized = FALSE
      /\ next.attempt = refs.attempt
  BY DEF SessionInv, SessionShape, RefFields
<1>3. e \in Nat /\ e # 0 /\ e > refs.epoch
  BY DEF SessionInv, SessionShape
<1>4. marker \in BOOLEAN /\ ended.clean \in BOOLEAN
  BY DEF SessionInv, SessionShape
<1>5. IsCall(d) /\ d.kind = "restore"
  BY <1>3, CallIsCall
<1> HIDE DEF next, d
<1>6. CASE /\ refs' = next /\ control' = Invalidated(e) /\ UNCHANGED calls
           /\ UNCHANGED <<marker, ended>> \/ (marker' = FALSE /\ Ends)
  <2>1. /\ DOMAIN control' = ControlFields /\ control'.intent = "INACTIVE"
        /\ control'.attempt = 0 /\ control'.epoch = e
    BY <1>6, InvalidatedIs
  <2>2. CallsFollow
    BY <1>6 DEF SessionInv, CallsInv, CallsFollow, Switching
  <2>3. ended'.clean \in BOOLEAN
    BY <1>4, <1>6, EndsIs
  <2>4. marker' \in BOOLEAN
    BY <1>4, <1>6
  <2>5. refs'.authorized = FALSE /\ refs'.authorized \in BOOLEAN
    BY <1>2, <1>6
  <2>6. ClosedInv'
    <3>1. CASE UNCHANGED <<marker, ended>>
      BY <2>1, <2>2, <2>5, <3>1 DEF SessionInv, ClosedInv, CallsFollow
    <3>2. CASE marker' = FALSE /\ Ends
      <4>1. ended'.clean => ended.clean \/ ~Switching
        BY <3>2, EndsIs
      <4> QED BY <2>1, <2>2, <2>5, <3>2, <4>1 DEF SessionInv, ClosedInv, CallsFollow
    <3> QED BY <1>6, <3>1, <3>2
  <2>7. AuthorizedIsActive'
    BY <2>5 DEF AuthorizedIsActive
  <2>8. DOMAIN refs' = RefFields /\ refs'.epoch = e /\ refs'.attempt = refs.attempt
    BY <1>2, <1>6
  <2> QED BY <1>1, <2>1, <2>2, <2>3, <2>4, <2>5, <2>6, <2>7, <2>8, MovesOnKeeps
<1>7. CASE /\ marker /\ refs' = [next EXCEPT !.attempt = e] /\ control' = Started("RESTORE", e)
           /\ calls' = Outdated(calls) \cup {d}
           /\ UNCHANGED <<marker, ended>>
  <2>1. /\ DOMAIN refs' = RefFields /\ refs'.epoch = e /\ refs'.authorized = FALSE
        /\ refs'.attempt = e
    BY <1>2, <1>7 DEF RefFields
  <2>2. /\ DOMAIN control' = ControlFields /\ control'.intent = "CONNECTING"
        /\ control'.epoch = e /\ control'.attempt = e
    BY <1>7 DEF Started, ControlFields
  <2>3. CallsFollow
    BY <1>5, <1>7, CallsMayFollow DEF SessionInv
  <2>4. refs'.authorized \in BOOLEAN /\ marker' \in BOOLEAN /\ ended'.clean \in BOOLEAN
    BY <1>4, <1>7, <2>1
  <2>5. SessionShape'
    BY <1>3, <2>1, <2>2, <2>4 DEF SessionShape
  <2>6. AttemptInv' /\ AuthorizedIsActive'
    BY <1>3, <2>1, <2>2 DEF AttemptInv, AuthorizedIsActive, Connecting, Connected
  <2>7. CallsInv' /\ ClosedInv' /\ HealthInv'
    BY <1>1, <1>7, <2>3 DEF SessionInv, CallsInv, ClosedInv, CallsFollow, HealthInv
  <2>8. RequireInv'
    <3>1. refs'.epoch \in Nat /\ refs'.epoch > refs.epoch
      BY <1>3, <2>1
    <3> QED BY <2>3, <3>1, RequiresKeep
  <2> QED BY <2>5, <2>6, <2>7, <2>8 DEF SessionInv
<1> QED BY <1>1, <1>6, <1>7

\* The answers to a restore: the session is closed, opened, or not its own any more.
LEMMA RestoreKeeps ==
  ASSUME SessionInv, NEW c \in calls, RestoreDone(c) \/ RestoreFails(c)
  PROVE  SessionInv'
<1>1. c.epoch # 0 /\ calls' = calls \ {c}
  BY DEF RestoreDone, RestoreFails, SessionInv, CallsInv, IsCall
<1>2. CallsFollow
  BY <1>1 DEF SessionInv, CallsInv, CallsFollow, Switching
<1>3. \/ UNCHANGED <<control, refs, marker, health, ended>>
      \/ invalidateSession
      \/ /\ refs.epoch = c.epoch /\ refs.attempt = c.epoch /\ UNCHANGED <<health, ended>>
         /\ \E a : Complete(c.epoch, a, ext.chain, obs'.rev)
  BY DEF RestoreDone, RestoreFails
<1>4. CASE UNCHANGED <<control, refs, marker, health, ended>>
  BY <1>2, <1>4, QuietKeeps
<1>5. CASE invalidateSession
  BY <1>2, <1>5, InvalidateKeeps
<1>6. CASE /\ refs.epoch = c.epoch /\ refs.attempt = c.epoch /\ UNCHANGED <<health, ended>>
           /\ \E a : Complete(c.epoch, a, ext.chain, obs'.rev)
  <2>1. PICK a : Complete(c.epoch, a, ext.chain, obs'.rev)
    BY <1>6
  <2> QED BY <1>1, <1>2, <1>6, <2>1, CompleteKeeps
<1> QED BY <1>3, <1>4, <1>5, <1>6

\* An open session that is found on another network, or back on the right one, goes
\* on under a new number.
LEMMA ReopenKeeps ==
  ASSUME SessionInv, CallsFollow, control.intent = "ACTIVE",
         NEW status, NEW authorized \in BOOLEAN, authorized => status = "CONNECTED", NEW rev,
         refs' = [refs EXCEPT !.epoch = @ + 1, !.authorized = authorized],
         control' = Opened(status, 0, rev, refs.epoch + 1),
         UNCHANGED <<marker, health, ended>>
  PROVE  SessionInv'
<1>1. /\ DOMAIN refs' = RefFields /\ refs'.epoch = refs.epoch + 1
      /\ refs'.attempt = refs.attempt
  BY DEF SessionInv, SessionShape, RefFields
<1>2. refs'.authorized = authorized
  BY DEF SessionInv, SessionShape, RefFields
<1>3. /\ DOMAIN control' = ControlFields /\ control'.intent = "ACTIVE"
      /\ control'.status = status /\ control'.attempt = 0 /\ control'.epoch = refs.epoch + 1
  BY DEF Opened, ControlFields
<1>4. ~ended.clean
  BY DEF SessionInv, ClosedInv
<1>5. AuthorizedIsActive' /\ ClosedInv'
  BY <1>2, <1>3, <1>4 DEF AuthorizedIsActive, ClosedInv
<1>6. marker' \in BOOLEAN /\ ended'.clean \in BOOLEAN
  BY DEF SessionInv, SessionShape
<1>7. refs'.authorized \in BOOLEAN
  BY <1>2
<1> QED BY <1>1, <1>3, <1>5, <1>6, <1>7, MovesOnKeeps

\* The effect that compares an open session with what was observed.
LEMMA ObserveKeeps ==
  ASSUME SessionInv, Observe
  PROVE  SessionInv'
<1>1. calls' = calls /\ control.intent = "ACTIVE"
  BY DEF Observe
<1>2. CallsFollow
  BY <1>1 DEF SessionInv, CallsInv, CallsFollow, Switching
<1>3. CASE invalidateSession
  BY <1>2, <1>3, InvalidateKeeps
<1>4. CASE /\ refs' = [refs EXCEPT !.epoch = @ + 1, !.authorized = FALSE]
           /\ control' = Opened("WRONG_NETWORK", 0, obs.rev, refs.epoch + 1)
           /\ UNCHANGED <<marker, health, ended>>
  BY <1>1, <1>2, <1>4, ReopenKeeps
<1>5. CASE /\ refs' = [refs EXCEPT !.epoch = @ + 1, !.authorized = TRUE]
           /\ control' = Opened("CONNECTED", 0, obs.rev, refs.epoch + 1)
           /\ UNCHANGED <<marker, health, ended>>
  BY <1>1, <1>2, <1>5, ReopenKeeps
<1> QED BY <1>3, <1>4, <1>5 DEF Observe

\* The check before an action: its session is closed, found on another network, or
\* probed; when it is not its own any more, nothing happens.
LEMMA RequireDoneKeeps ==
  ASSUME SessionInv, NEW c \in calls, RequireDone(c)
  PROVE  SessionInv'
<1> DEFINE d == Probe'
<1>1. IsCall(d) /\ d.kind = "probe"
  BY DEF Probe, Call, IsCall, CallFields
<1>2. calls' \subseteq calls \cup {d}
  BY DEF RequireDone
<1>3. \/ UNCHANGED <<control, refs, marker, health, ended>>
      \/ invalidateSession
      \/ /\ refs.epoch = c.epoch /\ UNCHANGED <<marker, health, ended>>
         /\ refs' = [refs EXCEPT !.epoch = @ + 1, !.authorized = FALSE]
         /\ control' = Opened("WRONG_NETWORK", 0, obs'.rev, refs.epoch + 1)
  BY DEF RequireDone
<1> HIDE DEF d
<1>4. CallsFollow
  BY <1>1, <1>2, CallsMayFollow DEF SessionInv
<1>5. CASE UNCHANGED <<control, refs, marker, health, ended>>
  BY <1>4, <1>5, QuietKeeps
<1>6. CASE invalidateSession
  BY <1>4, <1>6, InvalidateKeeps
<1>7. CASE /\ refs.epoch = c.epoch /\ UNCHANGED <<marker, health, ended>>
           /\ refs' = [refs EXCEPT !.epoch = @ + 1, !.authorized = FALSE]
           /\ control' = Opened("WRONG_NETWORK", 0, obs'.rev, refs.epoch + 1)
  <2>1. control.intent = "ACTIVE"
    BY <1>7 DEF RequireDone, SessionInv, RequireInv
  <2> QED BY <1>4, <1>7, <2>1, ReopenKeeps
<1> QED BY <1>3, <1>5, <1>6, <1>7

\* The end of a network switch opens the session whatever it has become in between,
\* which is why a session closed while one is under way is not closed for good.
LEMMA SwitchDoneKeeps ==
  ASSUME SessionInv, NEW c \in calls, SwitchDone(c)
  PROVE  SessionInv'
<1>1. c.kind = "switch" /\ calls' = calls \ {c} /\ c.epoch \in Nat
  BY DEF SwitchDone, SessionInv, CallsInv, IsCall
<1>2. CallsFollow
  BY <1>1 DEF SessionInv, CallsInv, CallsFollow, Switching
<1>3. CASE invalidateSession
  BY <1>2, <1>3, InvalidateKeeps
<1>4. CASE UNCHANGED <<refs, control, marker, health, ended>>
  BY <1>2, <1>4, QuietKeeps
<1>5. CASE /\ marker' = TRUE /\ refs' = [refs EXCEPT !.authorized = TRUE]
           /\ control' = Opened("CONNECTED", 0, obs'.rev, c.epoch)
           /\ UNCHANGED <<health, ended>>
  <2>1. /\ DOMAIN refs' = RefFields /\ refs'.epoch = refs.epoch
        /\ refs'.attempt = refs.attempt
    BY <1>5 DEF SessionInv, SessionShape, RefFields
  <2>2. /\ DOMAIN control' = ControlFields /\ control'.intent = "ACTIVE"
        /\ control'.status = "CONNECTED" /\ control'.attempt = 0 /\ control'.epoch = c.epoch
    BY <1>5 DEF Opened, ControlFields
  <2>3. ~ended.clean
    BY <1>1 DEF SessionInv, ClosedInv, Switching
  <2>4. refs'.authorized = TRUE
    BY <1>5 DEF SessionInv, SessionShape, RefFields
  <2>5. refs'.authorized \in BOOLEAN /\ marker' \in BOOLEAN /\ ended'.clean \in BOOLEAN
    BY <1>5, <2>4 DEF SessionInv, SessionShape
  <2>6. SessionShape'
    BY <1>1, <2>1, <2>2, <2>5 DEF SessionInv, SessionShape
  <2>7. AttemptInv' /\ AuthorizedIsActive'
    BY <2>1, <2>2 DEF SessionInv, AttemptInv, AuthorizedIsActive, Connecting, Connected
  <2>8. CallsInv' /\ ClosedInv' /\ HealthInv'
    BY <1>2, <1>5, <2>3 DEF SessionInv, CallsInv, ClosedInv, CallsFollow, HealthInv
  <2>9. RequireInv'
    <3>1. refs'.epoch \in Nat /\ refs'.epoch = refs.epoch
      BY <2>1 DEF SessionInv, SessionShape
    <3> QED BY <1>2, <2>2, <3>1, RequiresKeep
  <2> QED BY <2>6, <2>7, <2>8, <2>9 DEF SessionInv
<1> QED BY <1>3, <1>4, <1>5 DEF SwitchDone

\* A page that is loaded: it has no session, only the marker of one.
LEMMA LoadedIs ==
  /\ DOMAIN initialWalletSessionControl = ControlFields
  /\ initialWalletSessionControl.intent = "INACTIVE"
  /\ initialWalletSessionControl.attempt = 0 /\ initialWalletSessionControl.epoch = 0
  /\ DOMAIN NoRefs = RefFields /\ NoRefs.epoch = 0 /\ NoRefs.authorized = FALSE
  /\ NoRefs.attempt = 0
  BY DEF initialWalletSessionControl, ControlFields, NoRefs, RefFields

LEMMA ReloadKeeps ==
  ASSUME SessionInv, Reload
  PROVE  SessionInv'
<1>1. /\ control' = initialWalletSessionControl /\ refs' = NoRefs
      /\ calls' = {} /\ health' = {} /\ UNCHANGED <<marker, ended>>
  BY DEF Reload
<1>2. refs'.authorized \in BOOLEAN /\ marker' \in BOOLEAN /\ ended'.clean \in BOOLEAN
  BY <1>1, LoadedIs DEF SessionInv, SessionShape
<1>3. SessionShape'
  BY <1>1, <1>2, LoadedIs DEF SessionShape
<1>4. AttemptInv' /\ AuthorizedIsActive'
  BY <1>1, LoadedIs DEF AttemptInv, AuthorizedIsActive, Connecting, Connected
<1>5. CallsInv' /\ ClosedInv' /\ RequireInv' /\ HealthInv'
  BY <1>1, LoadedIs DEF SessionInv, CallsInv, ClosedInv, RequireInv, HealthInv, Switching
<1> QED BY <1>3, <1>4, <1>5 DEF SessionInv

LEMMA SessionInitially ==
  Init => SessionInv
<1> SUFFICES ASSUME Init PROVE SessionInv
  OBVIOUS
<1>1. /\ control = initialWalletSessionControl /\ refs = NoRefs
      /\ calls = {} /\ health = {} /\ marker = FALSE /\ ended = [any |-> TRUE, clean |-> TRUE]
  BY DEF Init
<1>2. ended.clean \in BOOLEAN
  BY <1>1
<1>3. refs.authorized \in BOOLEAN /\ marker \in BOOLEAN
  BY <1>1, LoadedIs
<1>4. SessionShape
  BY <1>1, <1>2, <1>3, LoadedIs DEF SessionShape
<1>5. AttemptInv /\ AuthorizedIsActive
  BY <1>1, LoadedIs DEF AttemptInv, AuthorizedIsActive, Connecting, Connected
<1>6. CallsInv /\ ClosedInv /\ RequireInv /\ HealthInv
  BY <1>1, LoadedIs DEF CallsInv, ClosedInv, RequireInv, HealthInv, Switching
<1> QED BY <1>4, <1>5, <1>6 DEF SessionInv

-----------------------------------------------------------------------------
\* The inductive invariant of the wallet session: the numbers of sessions and attempts
\* agree between the refs of wallet-identity-provider.tsx and the state its reducer renders.
THEOREM SessionInvariant == Spec => []SessionInv
<1>1. SessionInv /\ [Next]_vars => SessionInv'
  <2> SUFFICES ASSUME SessionInv, [Next]_vars PROVE SessionInv'
    OBVIOUS
  <2>1. CASE UNCHANGED vars
    <3>1. UNCHANGED <<control, refs, marker, ended, health, calls>>
      BY <2>1 DEF vars, pageVars
    <3>2. CallsFollow
      BY <3>1 DEF SessionInv, CallsInv, CallsFollow, Switching
    <3> QED BY <3>1, <3>2, QuietKeeps
  <2>2. CASE User
    <3>1. CASE \/ ConfirmWallet
               \/ \E s \in {"out", "incomplete", "ready"} : AccountBecomes(s)
               \/ \E a \in {"A", "B", "none"} : ExtensionAccount(a)
               \/ \E n \in {Sepolia, "other"} : ExtensionChain(n)
      BY <3>1, OutsideKeeps
    <3>2. CASE connectVerifiedWallet
      BY <3>2, ConnectKeeps
    <3>3. CASE disconnectLeopoldWallet
      BY <3>3, DisconnectKeeps
    <3>4. CASE switchToSepolia
      BY <3>4, SwitchKeeps
    <3>5. CASE Require
      BY <3>5, BeginningsKeep
    <3>6. CASE Reload
      BY <3>6, ReloadKeeps
    <3> QED BY <2>2, <3>1, <3>2, <3>3, <3>4, <3>5, <3>6 DEF User
  <2>3. CASE Effects
    <3>1. CASE AccountEvent \/ ChainEvent \/ RuntimeSync
      BY <3>1, OutsideKeeps
    <3>2. CASE Refresh \/ StartProbe
      BY <3>2, BeginningsKeep
    <3>3. CASE Continue
      BY <3>3, ContinueKeeps
    <3>4. CASE VerifyRuntime
      BY <3>4, VerifyKeeps
    <3>5. CASE Bootstrap
      BY <3>5, BootstrapKeeps
    <3>6. CASE Observe
      BY <3>6, ObserveKeeps
    <3> QED BY <2>3, <3>1, <3>2, <3>3, <3>4, <3>5, <3>6 DEF Effects
  <2>4. CASE Replies
    <3>1. PICK c \in calls :
            \/ RefreshDone(c)
            \/ ConnectAccounts(c) \/ ConnectFails(c) \/ ConnectNetwork(c) \/ ConnectDone(c)
            \/ RestoreDone(c) \/ RestoreFails(c) \/ RequireDone(c) \/ RequireFails(c)
            \/ \E s \in {"HEALTHY", "UNHEALTHY"} : ProbeDone(c, s)
            \/ Switched(c) \/ SwitchFails(c) \/ SwitchDone(c)
      BY <2>4 DEF Replies
    <3>2. CASE RefreshDone(c) \/ RequireFails(c) \/ SwitchFails(c)
      BY <3>2, EndingsKeep
    <3>3. CASE ConnectAccounts(c) \/ ConnectFails(c)
      BY <3>3, AccountsKeep
    <3>4. CASE ConnectNetwork(c) \/ Switched(c)
      BY <3>4, GoingOnKeeps
    <3>5. CASE ConnectDone(c)
      BY <3>5, ConnectDoneKeeps
    <3>6. CASE RestoreDone(c) \/ RestoreFails(c)
      BY <3>6, RestoreKeeps
    <3>7. CASE RequireDone(c)
      BY <3>7, RequireDoneKeeps
    <3>8. CASE \E s \in {"HEALTHY", "UNHEALTHY"} : ProbeDone(c, s)
      BY <3>8, ProbeKeeps
    <3>9. CASE SwitchDone(c)
      BY <3>9, SwitchDoneKeeps
    <3> QED BY <3>1, <3>2, <3>3, <3>4, <3>5, <3>6, <3>7, <3>8, <3>9
  <2>5. CASE Timeout
    BY <2>5, TimeoutKeeps
  <2> QED BY <2>1, <2>2, <2>3, <2>4, <2>5 DEF Next
<1> QED BY <1>1, SessionInitially, PTL DEF Spec

\* The ref that opens financial actions and the state that is rendered never disagree.
THEOREM AuthorizedStaysActive == Spec => []AuthorizedIsActive
<1>1. SessionInv => AuthorizedIsActive
  BY DEF SessionInv
<1> QED BY <1>1, SessionInvariant, PTL

\* A session that was closed, with no network switch under way, stays closed until the
\* user connects again, also across a reload.
THEOREM SessionsStayEnded == Spec => []EndedStaysEnded
<1>1. SessionInv => EndedStaysEnded
  BY DEF SessionInv, ClosedInv, EndedStaysEnded
<1> QED BY <1>1, SessionInvariant, PTL

\* Financial actions rest on a verdict on the network that was obtained in this session.
THEOREM HealthIsItsOwn == Spec => []HealthIsOwn
<1>1. SessionInv => HealthIsOwn
  <2> SUFFICES ASSUME SessionInv, canUseFinancialActions, NEW h \in health
               PROVE  h.of = <<control.epoch, control.rev>>
    BY DEF HealthIsOwn
  <2>1. PICK g \in health : g.key = walletSessionIdentityKey
    BY DEF canUseFinancialActions, Health
  <2>2. h = g
    BY <2>1 DEF SessionInv, HealthInv
  <2>3. h.of = <<h.key[4], h.key[5]>>
    BY DEF SessionInv, HealthInv
  <2>4. h.key[4] = control.epoch /\ h.key[5] = control.rev
    BY <2>1, <2>2 DEF walletSessionIdentityKey
  <2> QED BY <2>3, <2>4
<1> QED BY <1>1, SessionInvariant, PTL
=============================================================================
