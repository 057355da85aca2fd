---------------------------- MODULE WalletSession ----------------------------
(***************************************************************************)
(* The wallet session of the browser app                                   *)
(* (frontend/components/wallet-identity-provider.tsx over                  *)
(* frontend/components/auth-provider.tsx and frontend/lib/auth): a signed  *)
(* in user has one verified financial wallet, the wallet extension has an  *)
(* account and a network of its own that change at any time, and the app   *)
(* only acts for the verified one in a session the user asked for.         *)
(*                                                                         *)
(* The verified account is "A"; "B" stands for every other account.  A     *)
(* call that awaits the extension is a record of calls; what it reads may  *)
(* be older than the events that arrived in the meantime.                  *)
(***************************************************************************)
EXTENDS Integers, Sequences, FiniteSets

CONSTANTS
  MaxEpoch, MaxCalls, MaxEvents, MaxChanges    \* bounds

VARIABLES
  account,      \* the Dynamic account: "out", "incomplete" or "ready"
  linked,       \* its metadata name the financial wallet
  ext,          \* the extension: account and chain
  events,       \* accountChange events on their way
  obs,          \* what auth-provider has seen of the extension
  runtime,      \* wagmi and the wallet client
  control,      \* the reducer's state
  refs,         \* epoch, authorized, active attempt, bootstrap key
  marker,       \* the active session in window.sessionStorage
  health,       \* healthRecord, or {}
  calls,        \* calls under way
  ended,        \* history: a session was closed, and none opened since
  changes       \* changes of the environment so far

pageVars == <<obs, runtime, control, refs, health, calls>>
vars == <<account, linked, ext, events, pageVars, marker, ended, changes>>

Verified == "A"
Sepolia == "sepolia"

-----------------------------------------------------------------------------
(* The reducer.                                                            *)

initialWalletSessionControl ==
  [intent |-> "INACTIVE", status |-> "BOOTSTRAPPING", epoch |-> 0, rev |-> -1,
   origin |-> "none", attempt |-> 0, phase |-> "none"]

Started(origin, epoch) ==
  [intent |-> "CONNECTING", status |-> "CONNECTING", epoch |-> epoch, rev |-> -1,
   origin |-> origin, attempt |-> epoch, phase |-> "STARTING"]

Phase(phase, attempt) ==
  IF control.attempt = attempt /\ control.intent = "CONNECTING"
  THEN [control EXCEPT !.phase = phase] ELSE control

\* CONNECTED and WRONG_NETWORK; attempt 0 is no attempt and always accepted.
Opened(status, attempt, rev, epoch) ==
  IF attempt # 0 /\ control.attempt # attempt THEN control
  ELSE [intent |-> "ACTIVE", status |-> status, epoch |-> epoch, rev |-> rev,
        origin |-> "none", attempt |-> 0, phase |-> "none"]

Invalidated(epoch) ==
  [initialWalletSessionControl EXCEPT !.status = "DISCONNECTED", !.epoch = epoch]

\* CONNECT_FAILED
Failed(status, attempt, epoch) ==
  IF control.attempt # attempt THEN control
  ELSE [Invalidated(epoch) EXCEPT !.status = status]

-----------------------------------------------------------------------------
(* What the session is, from all that was observed.                        *)

initialized == account = "ready"

\* runtimeAlignment, with the account and the chain that are passed.
Aligned(a, chain) == a = Verified /\ runtime.account = Verified /\ runtime.chain = chain

runtimeAligned == linked /\ Aligned(obs.account, obs.chain) /\ obs.chain = Sepolia

deriveWalletSession ==
  CASE ~initialized -> "BOOTSTRAPPING"
    [] initialized /\ ~linked -> "DISCONNECTED"
    [] initialized /\ linked /\ control.intent = "INACTIVE" ->
         IF control.status = "ERROR" THEN "ERROR" ELSE "DISCONNECTED"
    [] initialized /\ linked /\ control.intent = "CONNECTING" -> control.status
    [] OTHER ->
         IF control.rev # obs.rev \/ ~obs.known \/ obs.account # Verified THEN "DISCONNECTED"
         ELSE IF obs.chain # Sepolia THEN "WRONG_NETWORK"
         ELSE IF Aligned(obs.account, obs.chain) THEN "CONNECTED" ELSE "ERROR"

\* Mutant: the key without the session's epoch and provider revision.
KeyOfAccount == <<linked, control.intent, control.status, obs.account, obs.chain, runtime>>

walletSessionIdentityKey ==
  <<linked, control.intent, control.status, control.epoch, control.rev, obs, runtime>>

Health ==
  IF \E h \in health : h.key = walletSessionIdentityKey
  THEN (CHOOSE h \in health : h.key = walletSessionIdentityKey).state
  ELSE IF \E c \in calls : c.kind = "probe" /\ c.key = walletSessionIdentityKey
       THEN "CHECKING" ELSE "NOT_CHECKED"

canUseFinancialActions ==
  deriveWalletSession = "CONNECTED" /\ runtimeAligned /\ Health = "HEALTHY"

\* The action that the app offers to a signed-in user.
deriveLeopoldRecovery ==
  CASE account # "ready" -> "NONE"
    [] account = "ready" /\ ~linked -> "LINK_FINANCIAL_WALLET"
    [] OTHER -> [BOOTSTRAPPING |-> "NONE", DISCONNECTED |-> "CONNECT_VERIFIED_WALLET",
                 CONNECTING |-> "CANCEL_CONNECTION", WRONG_NETWORK |-> "SWITCH_TO_SEPOLIA",
                 ERROR |-> "RETRY_PROVIDER",
                 CONNECTED |-> IF Health = "UNHEALTHY" THEN "RETRY_NETWORK" ELSE "NONE"][deriveWalletSession]

-----------------------------------------------------------------------------
(* The extension, and what the auth provider sees of it.                   *)

\* A newer read or an event: the reads under way no longer commit.
Outdated(cs) == {[c EXCEPT !.fresh = FALSE] : c \in cs}

commitProviderAccount(o, next) ==
  [o EXCEPT !.account = next, !.known = TRUE,
            !.rev = IF o.known /\ o.account # next THEN @ + 1 ELSE @]

\* external: the user picks another account, or disconnects the site.
ExtensionAccount(a) ==
  /\ a # ext.account /\ Len(events) < MaxEvents /\ changes < MaxChanges
  /\ ext' = [ext EXCEPT !.account = a]
  /\ events' = Append(events, a)
  /\ changes' = changes + 1
  /\ UNCHANGED <<account, linked, pageVars, marker, ended>>

\* external: the user picks another network.
ExtensionChain(n) ==
  /\ n # ext.chain /\ changes < MaxChanges
  /\ ext' = [ext EXCEPT !.chain = n]
  /\ changes' = changes + 1
  /\ UNCHANGED <<account, linked, events, pageVars, marker, ended>>

\* onAccountChange, onDisconnect
AccountEvent ==
  /\ events # <<>>
  /\ events' = Tail(events)
  /\ obs' = commitProviderAccount(obs, Head(events))
  /\ calls' = Outdated(calls)
  /\ UNCHANGED <<account, linked, ext, runtime, control, refs, marker, health, ended, changes>>

\* onChainChange, primaryWalletNetworkChanged
ChainEvent ==
  /\ obs.chain # ext.chain
  /\ obs' = [obs EXCEPT !.chain = ext.chain]
  /\ UNCHANGED <<account, linked, ext, events, runtime, control, refs, marker, health, calls, ended, changes>>

\* external: wagmi and the wallet client catch up.
RuntimeSync ==
  /\ runtime # ext
  /\ runtime' = ext
  /\ UNCHANGED <<account, linked, ext, events, obs, control, refs, marker, health, calls, ended, changes>>

Call(kind, epoch, step) ==
  [kind |-> kind, epoch |-> epoch, step |-> step, from |-> ext.account, net |-> "none",
   fresh |-> TRUE, cont |-> FALSE, key |-> <<>>]

\* What getConnectedAccounts may answer: the account when it was asked, or the one now.
Answers(c) == {c.from, ext.account}

\* The result of readProviderAccount: committed unless something newer was seen.
Read(c, a) == IF c.fresh THEN commitProviderAccount(obs, a) ELSE obs

\* The effects and events that read the account and the network again.
Refresh ==
  /\ ~obs.known /\ Cardinality(calls) < MaxCalls
  /\ ~\E c \in calls : c.kind = "refresh"
  /\ calls' = Outdated(calls) \cup {Call("refresh", 0, "reads")}
  /\ UNCHANGED <<account, linked, ext, events, obs, runtime, control, refs, marker, health, ended, changes>>

RefreshDone(c) ==
  /\ c.kind = "refresh"
  /\ \E a \in Answers(c) : obs' = [Read(c, a) EXCEPT !.chain = ext.chain]
  /\ calls' = calls \ {c}
  /\ UNCHANGED <<account, linked, ext, events, runtime, control, refs, marker, health, ended, changes>>

-----------------------------------------------------------------------------
(* Ending a session.                                                       *)

\* History: closed, and whether a network switch was under way then.
Ends == ended' = [any |-> TRUE, clean |-> ended.clean \/ ~\E c \in calls : c.kind = "switch"]

\* Mutant: the session is closed on the screen only.
InvalidateRendered ==
  /\ refs' = [refs EXCEPT !.epoch = @ + 1, !.attempt = 0]
  /\ control' = Invalidated(refs.epoch + 1)
  /\ marker' = FALSE
  /\ health' = {}
  /\ Ends

invalidateSession ==
  /\ refs' = [refs EXCEPT !.epoch = @ + 1, !.authorized = FALSE, !.attempt = 0]
  /\ control' = Invalidated(refs.epoch + 1)
  /\ marker' = FALSE
  /\ health' = {}
  /\ Ends

disconnectLeopoldWallet ==
  /\ control.intent # "INACTIVE"
  /\ invalidateSession
  /\ UNCHANGED <<account, linked, ext, events, obs, runtime, calls, changes>>

-----------------------------------------------------------------------------
(* Connecting.                                                             *)

\* completeAttemptFromObservations, for the attempt that is still the active one.
Complete(attempt, a, chain, rev) ==
  IF a # Verified
  THEN /\ control' = Phase("WAITING_FOR_ACCOUNT_SELECTION", attempt)
       /\ UNCHANGED <<refs, marker>>
  ELSE IF chain # Sepolia
  THEN /\ marker' = TRUE
       /\ refs' = [refs EXCEPT !.authorized = FALSE, !.attempt = 0]
       /\ control' = Opened("WRONG_NETWORK", attempt, rev, attempt)
  ELSE IF ~Aligned(a, chain)
  THEN /\ control' = Phase("VERIFYING_RUNTIME", attempt)
       /\ UNCHANGED <<refs, marker>>
  ELSE /\ marker' = TRUE
       /\ refs' = [refs EXCEPT !.authorized = TRUE, !.attempt = 0]
       /\ control' = Opened("CONNECTED", attempt, rev, attempt)

\* Mutant: an attempt that was given up may still complete.
AnyAttempt(c) == TRUE

\* The attempt is still the one the user waits for.
IsActive(c) == refs.epoch = c.epoch /\ refs.attempt = c.epoch

connectVerifiedWallet ==
  /\ account = "ready" /\ linked /\ Cardinality(calls) < MaxCalls
  /\ IF control.intent = "CONNECTING"
     THEN /\ calls' = calls \cup {Call("connect", control.epoch, "accounts")}
          /\ control' = Phase("SYNCING_PROVIDER", control.attempt)
          /\ UNCHANGED <<refs, ended>>
     ELSE /\ refs.epoch < MaxEpoch
          /\ refs' = [refs EXCEPT !.epoch = @ + 1, !.authorized = FALSE, !.attempt = refs.epoch + 1]
          /\ control' = [Started("USER", refs.epoch + 1) EXCEPT !.phase = "SYNCING_PROVIDER"]
          /\ calls' = calls \cup {Call("connect", refs.epoch + 1, "accounts")}
          /\ ended' = [any |-> FALSE, clean |-> FALSE]
  /\ UNCHANGED <<account, linked, ext, events, obs, runtime, marker, health, changes>>

\* The wallet has another account selected: wait for the user.
Selection(c) ==
  /\ control' = IF IsActive(c) THEN Phase("WAITING_FOR_ACCOUNT_SELECTION", c.epoch) ELSE control
  /\ calls' = calls \ {c}
  /\ UNCHANGED <<refs, marker, ended>>

\* The provider is unavailable, the user cancels, or it takes too long.
Fails(c, status) ==
  /\ IF IsActive(c)
     THEN /\ marker' = FALSE
          /\ refs' = [refs EXCEPT !.attempt = 0]
          /\ control' = Failed(status, c.epoch, c.epoch)
          /\ IF control.attempt = c.epoch THEN Ends ELSE UNCHANGED ended
     ELSE UNCHANGED <<marker, refs, control, ended>>
  /\ calls' = calls \ {c}

\* reconnectExistingWallet: read the accounts, synchronise when there is none, and read them again.
ConnectAccounts(c) ==
  /\ c.kind = "connect" /\ c.step \in {"accounts", "synced", "final"}
  /\ \E a \in Answers(c) :
       /\ obs' = commitProviderAccount(obs, a)
       /\ \/ /\ a = Verified
             /\ calls' = (calls \ {c}) \cup
                  {[c EXCEPT !.step = IF c.step = "final" THEN "network" ELSE "final", !.from = ext.account]}
             /\ UNCHANGED <<refs, control, marker, ended>>
          \/ a = "B" /\ Selection(c)
          \/ /\ a = "none" /\ c.step = "accounts"
             /\ calls' = (calls \ {c}) \cup {[c EXCEPT !.step = "synced", !.from = ext.account]}
             /\ UNCHANGED <<refs, control, marker, ended>>
          \/ a = "none" /\ c.step = "synced" /\ Fails(c, "ERROR")
          \/ a = "none" /\ c.step = "final" /\ Selection(c)
  /\ UNCHANGED <<account, linked, ext, events, runtime, health, changes>>

ConnectFails(c) ==
  /\ c.kind = "connect"
  /\ \E status \in {"ERROR", "DISCONNECTED"} : Fails(c, status)
  /\ UNCHANGED <<account, linked, ext, events, obs, runtime, health, changes>>

ConnectNetwork(c) ==
  /\ c.kind = "connect" /\ c.step = "network"
  /\ obs' = [obs EXCEPT !.chain = ext.chain]
  /\ calls' = Outdated(calls \ {c})
                \cup {[c EXCEPT !.step = "refresh", !.net = ext.chain, !.from = ext.account, !.fresh = TRUE]}
  /\ UNCHANGED <<account, linked, ext, events, runtime, control, refs, marker, health, ended, changes>>

\* refreshConnectedWallet, whose answer is not used, and the rest of runConnectAttempt.
ConnectDone(c) ==
  /\ c.kind = "connect" /\ c.step = "refresh"
  /\ \E a \in Answers(c) : obs' = Read(c, a)
  /\ IF IsActive(c) THEN Complete(c.epoch, Verified, c.net, obs'.rev)
     ELSE UNCHANGED <<control, refs, marker>>
  /\ calls' = calls \ {c}
  /\ UNCHANGED <<account, linked, ext, events, runtime, health, ended, changes>>

\* Mutant: only attempts of the user are timed.
TimeoutOfUser ==
  /\ control.intent = "CONNECTING" /\ refs.attempt = control.attempt /\ control.origin = "USER"
  /\ refs' = [refs EXCEPT !.epoch = @ + 1, !.attempt = 0]
  /\ marker' = FALSE
  /\ control' = Failed("ERROR", control.attempt, refs.epoch + 1)
  /\ Ends
  /\ UNCHANGED <<account, linked, ext, events, obs, runtime, health, calls, changes>>

\* The timer of an attempt.
Timeout ==
  /\ control.intent = "CONNECTING" /\ refs.attempt = control.attempt
  /\ refs' = [refs EXCEPT !.epoch = @ + 1, !.attempt = 0]
  /\ marker' = FALSE
  /\ control' = IF control.origin = "RESTORE" THEN Invalidated(refs.epoch + 1)
                ELSE Failed("ERROR", control.attempt, refs.epoch + 1)
  /\ Ends
  /\ UNCHANGED <<account, linked, ext, events, obs, runtime, health, calls, changes>>

\* The effect that goes on when the user has selected the verified account.
Continue ==
  /\ linked /\ obs.known /\ obs.account = Verified
  /\ control.intent = "CONNECTING" /\ control.phase = "WAITING_FOR_ACCOUNT_SELECTION"
  /\ ~\E c \in calls : c.cont /\ c.epoch = control.attempt
  /\ Cardinality(calls) < MaxCalls
  /\ control' = Phase("SYNCING_PROVIDER", control.attempt)
  /\ calls' = calls \cup {[Call("connect", control.epoch, "accounts") EXCEPT !.cont = TRUE]}
  /\ UNCHANGED <<account, linked, ext, events, obs, runtime, refs, marker, health, ended, changes>>

\* The effect that tries again when the runtime has changed.
VerifyRuntime ==
  /\ linked /\ control.intent = "CONNECTING" /\ control.phase = "VERIFYING_RUNTIME"
  /\ obs.account # "none"
  /\ refs.epoch = control.epoch /\ refs.attempt = control.attempt
  /\ Complete(control.attempt, obs.account, obs.chain, obs.rev)
  /\ <<control, refs>>' # <<control, refs>>
  /\ UNCHANGED <<account, linked, ext, events, obs, runtime, health, calls, ended, changes>>

-----------------------------------------------------------------------------
(* Bootstrap and restore.                                                  *)

BootstrapKey == <<account, linked>>

\* The effect that runs when the account or its wallet changes.
Bootstrap ==
  /\ refs.boot # BootstrapKey
  /\ LET epoch == refs.epoch + 1
         next == [refs EXCEPT !.epoch = epoch, !.authorized = FALSE, !.boot = BootstrapKey]
     IN \/ /\ account = "incomplete"
           /\ refs' = next /\ control' = Invalidated(epoch)
           /\ UNCHANGED <<marker, calls, ended>>
        \/ /\ account = "out" \/ (account = "ready" /\ (~linked \/ ~marker))
           /\ refs' = next /\ control' = Invalidated(epoch)
           /\ marker' = FALSE
           /\ Ends
           /\ UNCHANGED calls
        \/ /\ account = "ready" /\ linked /\ marker
           /\ refs' = [next EXCEPT !.attempt = epoch]
           /\ control' = Started("RESTORE", epoch)
           /\ calls' = Outdated(calls) \cup {Call("restore", epoch, "reads")}
           /\ UNCHANGED <<marker, ended>>
  /\ UNCHANGED <<account, linked, ext, events, obs, runtime, health, changes>>

RestoreDone(c) ==
  /\ c.kind = "restore"
  /\ \E a \in Answers(c) :
       /\ obs' = [Read(c, a) EXCEPT !.chain = ext.chain]
       /\ IF refs.epoch # c.epoch THEN UNCHANGED <<control, refs, marker, health, ended>>
          ELSE IF a # Verified THEN invalidateSession
          ELSE /\ IF refs.attempt = c.epoch THEN Complete(c.epoch, a, ext.chain, obs'.rev)
                  ELSE UNCHANGED <<control, refs, marker>>
               /\ UNCHANGED <<health, ended>>
  /\ calls' = calls \ {c}
  /\ UNCHANGED <<account, linked, ext, events, runtime, changes>>

RestoreFails(c) ==
  /\ c.kind = "restore"
  /\ IF refs.epoch = c.epoch THEN invalidateSession
     ELSE UNCHANGED <<control, refs, marker, health, ended>>
  /\ calls' = calls \ {c}
  /\ UNCHANGED <<account, linked, ext, events, obs, runtime, changes>>

-----------------------------------------------------------------------------
(* An open session: observations, the check before an action, networks.    *)

\* The effect that compares an open session with what was observed.
Observe ==
  /\ linked /\ obs.known /\ control.intent = "ACTIVE"
  /\ IF control.rev # obs.rev \/ obs.account # Verified
     THEN invalidateSession
     ELSE /\ \/ /\ obs.chain # Sepolia /\ control.status # "WRONG_NETWORK"
                /\ refs' = [refs EXCEPT !.epoch = @ + 1, !.authorized = FALSE]
                /\ control' = Opened("WRONG_NETWORK", 0, obs.rev, refs.epoch + 1)
             \/ /\ obs.chain = Sepolia /\ control.status = "WRONG_NETWORK" /\ runtimeAligned
                /\ refs' = [refs EXCEPT !.epoch = @ + 1, !.authorized = TRUE]
                /\ control' = Opened("CONNECTED", 0, obs.rev, refs.epoch + 1)
          /\ UNCHANGED <<marker, health, ended>>
  /\ UNCHANGED <<account, linked, ext, events, obs, runtime, calls, changes>>

\* requireConnectedFinancialSession, up to its reads.
Require ==
  /\ account = "ready" /\ linked /\ refs.authorized /\ control.rev = obs.rev
  /\ deriveWalletSession = "CONNECTED" /\ Cardinality(calls) < MaxCalls
  /\ calls' = Outdated(calls) \cup {Call("require", refs.epoch, "reads")}
  /\ UNCHANGED <<account, linked, ext, events, obs, runtime, control, refs, marker, health, ended, changes>>

Probe == [Call("probe", 0, "preflight") EXCEPT !.key = walletSessionIdentityKey]

RequireDone(c) ==
  /\ c.kind = "require"
  /\ UNCHANGED <<account, linked, ext, events, runtime, changes>>
  /\ \E a \in Answers(c) :
       /\ obs' = [Read(c, a) EXCEPT !.chain = ext.chain]
       /\ \/ /\ refs.epoch # c.epoch
             /\ calls' = calls \ {c}
             /\ UNCHANGED <<control, refs, marker, health, ended>>
          \/ /\ refs.epoch = c.epoch /\ a # Verified
             /\ invalidateSession
             /\ calls' = calls \ {c}
          \/ /\ refs.epoch = c.epoch /\ a = Verified /\ ext.chain # Sepolia
             /\ refs' = [refs EXCEPT !.epoch = @ + 1, !.authorized = FALSE]
             /\ control' = Opened("WRONG_NETWORK", 0, obs'.rev, refs.epoch + 1)
             /\ calls' = calls \ {c}
             /\ UNCHANGED <<marker, health, ended>>
          \/ /\ refs.epoch = c.epoch /\ a = Verified /\ ext.chain = Sepolia
             /\ UNCHANGED <<control, refs, marker, health, ended>>
             /\ calls' = (calls \ {c}) \cup
                  (IF runtime.account = a /\ runtimeAligned' THEN {Probe'} ELSE {})

RequireFails(c) ==
  /\ c.kind = "require"
  /\ calls' = calls \ {c}
  /\ UNCHANGED <<account, linked, ext, events, obs, runtime, control, refs, marker, health, ended, changes>>

\* The effect, or the user's retry, that probes the network of a connected session.
StartProbe ==
  /\ account = "ready" /\ deriveWalletSession = "CONNECTED" /\ runtimeAligned
  /\ Health # "HEALTHY" /\ Health # "CHECKING" /\ Cardinality(calls) < MaxCalls
  /\ calls' = calls \cup {Probe}
  /\ UNCHANGED <<account, linked, ext, events, obs, runtime, control, refs, marker, health, ended, changes>>

\* runNetworkHealthProbe: the result counts for the identity it was started with.  The three
\* verdicts on a network that does not work are one here.
ProbeDone(c, state) ==
  /\ c.kind = "probe"
  /\ health' = IF walletSessionIdentityKey = c.key
               THEN {[key |-> c.key, state |-> state, of |-> <<control.epoch, control.rev>>]} ELSE health
  /\ calls' = calls \ {c}
  /\ UNCHANGED <<account, linked, ext, events, obs, runtime, control, refs, marker, ended, changes>>

switchToSepolia ==
  /\ deriveWalletSession = "WRONG_NETWORK" /\ control.intent = "ACTIVE"
  /\ refs.epoch < MaxEpoch /\ Cardinality(calls) < MaxCalls
  /\ refs' = [refs EXCEPT !.epoch = @ + 1]
  /\ calls' = calls \cup {Call("switch", refs.epoch + 1, "switch")}
  /\ UNCHANGED <<account, linked, ext, events, obs, runtime, control, marker, health, ended, changes>>

\* The wallet switches; a session that changed meanwhile is left alone.
Switched(c) ==
  /\ c.kind = "switch" /\ c.step = "switch"
  /\ ext' = [ext EXCEPT !.chain = Sepolia]
  /\ obs' = [obs EXCEPT !.chain = Sepolia]
  /\ calls' = IF refs.epoch # c.epoch THEN calls \ {c}
              ELSE Outdated(calls \ {c}) \cup {[c EXCEPT !.step = "reads", !.from = ext.account, !.fresh = TRUE]}
  /\ UNCHANGED <<account, linked, events, runtime, control, refs, marker, health, ended, changes>>

SwitchFails(c) ==
  /\ c.kind = "switch"
  /\ calls' = calls \ {c}
  /\ UNCHANGED <<account, linked, ext, events, obs, runtime, control, refs, marker, health, ended, changes>>

\* The account and the network are read again, and the session is opened.
SwitchDone(c) ==
  /\ c.kind = "switch" /\ c.step = "reads"
  /\ \E a \in Answers(c) :
       /\ obs' = [Read(c, a) EXCEPT !.chain = ext.chain]
       /\ IF a # Verified THEN invalidateSession
          ELSE IF ext.chain # Sepolia THEN UNCHANGED <<refs, control, marker, health, ended>>
          ELSE /\ marker' = TRUE
               /\ refs' = [refs EXCEPT !.authorized = TRUE]
               /\ control' = Opened("CONNECTED", 0, obs'.rev, c.epoch)
               /\ UNCHANGED <<health, ended>>
  /\ calls' = calls \ {c}
  /\ UNCHANGED <<account, linked, ext, events, runtime, changes>>

-----------------------------------------------------------------------------
(* The account.                                                            *)

\* deriveAccountState: sign in with a complete or an incomplete profile, complete it, sign out.
AccountBecomes(status) ==
  /\ status # account /\ changes < MaxChanges
  /\ account = "out" \/ status = "out" \/ (account = "incomplete" /\ status = "ready")
  /\ account' = status
  /\ changes' = changes + 1
  /\ UNCHANGED <<linked, ext, events, pageVars, marker, ended>>

\* confirmCurrentWalletAsFinancial
ConfirmWallet ==
  /\ account = "ready" /\ ~linked /\ obs.known /\ obs.account = Verified
  /\ linked' = TRUE
  /\ UNCHANGED <<account, ext, events, pageVars, marker, ended, changes>>

-----------------------------------------------------------------------------
\* What a page that has just been loaded knows.
NothingObserved == [account |-> "none", known |-> FALSE, rev |-> 0, chain |-> "none"]
NoRefs == [epoch |-> 0, authorized |-> FALSE, attempt |-> 0, boot |-> <<>>]

Init ==
  /\ account = "ready" /\ linked \in BOOLEAN
  /\ ext \in [account : {Verified}, chain : {Sepolia, "other"}]
  /\ obs = NothingObserved /\ runtime = ext
  /\ control = initialWalletSessionControl /\ refs = NoRefs
  /\ health = {} /\ calls = {} /\ events = <<>>
  /\ marker = FALSE
  /\ ended = [any |-> TRUE, clean |-> TRUE]
  /\ changes = 0

Reload ==
  /\ changes < MaxChanges
  /\ changes' = changes + 1
  /\ obs' = NothingObserved /\ runtime' = ext
  /\ control' = initialWalletSessionControl /\ refs' = NoRefs
  /\ health' = {} /\ calls' = {} /\ events' = <<>>
  /\ UNCHANGED <<account, linked, ext, marker, ended>>

User ==
  \/ connectVerifiedWallet \/ disconnectLeopoldWallet \/ switchToSepolia \/ Require
  \/ \E s \in {"out", "incomplete", "ready"} : AccountBecomes(s)
  \/ ConfirmWallet
  \/ \E a \in {"A", "B", "none"} : ExtensionAccount(a)
  \/ \E n \in {Sepolia, "other"} : ExtensionChain(n)
  \/ Reload

Effects ==
  \/ AccountEvent \/ ChainEvent \/ RuntimeSync \/ Refresh
  \/ Continue \/ VerifyRuntime \/ Bootstrap \/ Observe \/ StartProbe

Replies ==
  \E c \in calls :
    \/ RefreshDone(c)
    \/ ConnectAccounts(c) \/ ConnectFails(c) \/ ConnectNetwork(c) \/ ConnectDone(c)
    \/ RestoreDone(c) \/ RestoreFails(c) \/ RequireDone(c) \/ RequireFails(c)
    \/ \E s \in {"HEALTHY", "UNHEALTHY"} : ProbeDone(c, s)
    \/ Switched(c) \/ SwitchFails(c) \/ SwitchDone(c)

Next == User \/ Effects \/ Replies \/ Timeout

Spec == Init /\ [][Next]_vars

\* Timers fire.
LiveSpec == Spec /\ WF_vars(Timeout)

-----------------------------------------------------------------------------
(* Properties.                                                             *)

\* The ref that opens financial actions and the state that is rendered never disagree: whatever
\* attempts, switches and restores overlap, an authorized session is an open one.
AuthorizedIsActive ==
  refs.authorized => control.intent = "ACTIVE" /\ control.status = "CONNECTED"

\* A session that was closed (by the user, a sign-out, a timeout or another account) stays closed
\* until the user connects again, also across a reload, unless a network switch was under way.
EndedStaysEnded ==
  ended.clean => ~refs.authorized /\ control.intent # "ACTIVE" /\ ~marker

\* A verdict on the network counts only in the session it was obtained in.
HealthIsOwn ==
  canUseFinancialActions => \A h \in health : h.of = <<control.epoch, control.rev>>

\* An attempt to connect ends, whatever the wallet does or does not answer.
ConnectingEnds == (control.intent = "CONNECTING") ~> (control.intent # "CONNECTING")
==============================================================================
