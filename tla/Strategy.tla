------------------------------ MODULE Strategy ------------------------------
(***************************************************************************)
(* The yield strategy of a vault: the strategy epochs of LeopoldVault.sol, *)
(* the vault's LeopoldCompoundAdapter.sol and its Compound III position.   *)
(* Part of the savers' principal leaves the confidential asset, sits for   *)
(* some time in a pending unwrap, earns in Compound and comes back; the    *)
(* guardian can pause the adapter and anyone can then unwind it, whatever  *)
(* epoch is pending.                                                       *)
(*                                                                         *)
(* Savers appear only through the pool's totals: Deposit and Withdraw are  *)
(* the projections of the vault's handlers onto them.  Ciphertexts are     *)
(* modelled by their cleartexts.  WRAP_RATE is 1, which the constructor of *)
(* LeopoldConfidentialUSDC demands.  The wrapper is external: the model    *)
(* takes the vault for the only caller that finalizes the vault's own      *)
(* unwrap request.                                                         *)
(***************************************************************************)
EXTENDS Integers

CONSTANTS
  MAX_POOL_BASE_UNITS,
  LIQUIDITY_BUFFER_BPS, BPS,
  MINIMUM_STRATEGY_EPOCH_AGE,
  STRATEGY_PROOF_DEADLINE,
  COMET_ROUNDING_TOLERANCE,
  Amounts,                      \* amounts that users and the market move
  MAX_EPOCHS, MAX_MANAGED       \* bounds of the model

EXPIRY == MINIMUM_STRATEGY_EPOCH_AGE + STRATEGY_PROOF_DEADLINE

ASSUME StrategyConfiguration ==
  /\ MAX_POOL_BASE_UNITS \in Nat
  /\ LIQUIDITY_BUFFER_BPS \in Nat /\ BPS \in Nat \ {0} /\ LIQUIDITY_BUFFER_BPS <= BPS
  /\ MINIMUM_STRATEGY_EPOCH_AGE \in Nat \ {0}
  /\ STRATEGY_PROOF_DEADLINE \in Nat
  /\ COMET_ROUNDING_TOLERANCE \in Nat
  /\ Amounts \subseteq Nat
  /\ MAX_EPOCHS \in Nat /\ MAX_MANAGED \in Nat

VARIABLES
  totalPrincipal,
  liquidPrincipal,
  deployedPrincipal,
  principalInTransition,
  strategyShortfall,
  liquidPrizeAssets,
  uncommittedYield,
  publicUncommittedYield,
  assetBalance,                 \* the vault's balance of the confidential asset
  activeStrategyEpochId,
  epoch,                        \* the active epoch; earlier ones are over
  unwrapRequest,                \* the wrapper's pending request of the vault
  adapter,                      \* basis, expected principal and pause flag
  comet                         \* the adapter's position and the market's flags

poolVars == <<totalPrincipal, liquidPrincipal, deployedPrincipal, principalInTransition,
              strategyShortfall>>
yieldVars == <<liquidPrizeAssets, uncommittedYield, publicUncommittedYield>>
epochVars == <<activeStrategyEpochId, epoch, unwrapRequest>>
marketVars == <<adapter, comet>>
strategyVars == <<poolVars, yieldVars, assetBalance, epochVars, marketVars>>

StrategyEpochKind == {"DEPLOY", "REPLENISH"}
StrategyEpochState == {"NONE", "AGING", "AMOUNT_PENDING", "UNWRAP_PENDING", "COMPLETED",
                       "CANCELLED"}

\* An epoch; age is the time since openedAt, counted up to its expiry.
StrategyEpoch == [kind : StrategyEpochKind \cup {"NONE"}, state : StrategyEpochState,
                  age : Nat, amount : Nat, publicAmount : Nat]

NoEpoch == [kind |-> "NONE", state |-> "NONE", age |-> 0, amount |-> 0, publicAmount |-> 0]

NoRequest == [pending |-> FALSE, amount |-> 0]

Adapter == [deployedPrincipalBasis : Nat, expectedCometPrincipal : Int, paused : BOOLEAN]

Comet == [balance : Nat, principal : Int, isSupplyPaused : BOOLEAN,
          isWithdrawPaused : BOOLEAN, baseTokenIntact : BOOLEAN, baseScaleIntact : BOOLEAN]

StrategyInit ==
  /\ totalPrincipal = 0
  /\ liquidPrincipal = 0
  /\ deployedPrincipal = 0
  /\ principalInTransition = 0
  /\ strategyShortfall = 0
  /\ liquidPrizeAssets = 0
  /\ uncommittedYield = 0
  /\ publicUncommittedYield = 0
  /\ assetBalance = 0
  /\ activeStrategyEpochId = 0
  /\ epoch = NoEpoch
  /\ unwrapRequest = NoRequest
  /\ adapter = [deployedPrincipalBasis |-> 0, expectedCometPrincipal |-> 0, paused |-> FALSE]
  /\ comet = [balance |-> 0, principal |-> 0, isSupplyPaused |-> FALSE,
              isWithdrawPaused |-> FALSE, baseTokenIntact |-> TRUE, baseScaleIntact |-> TRUE]

-----------------------------------------------------------------------------
(* The adapter and the market. *)

\* currentShortfall
CurrentShortfall ==
  IF adapter.deployedPrincipalBasis > comet.balance
  THEN adapter.deployedPrincipalBasis - comet.balance ELSE 0

\* positionIntegrity: nobody but the adapter moved its position.
PositionIntegrity == comet.principal = adapter.expectedCometPrincipal

\* marketIntegrity
MarketIntegrity == comet.baseTokenIntact /\ comet.baseScaleIntact

\* supply and withdraw of Comet, as the adapter's position sees them.
Supplied(amount) == [comet EXCEPT !.balance = @ + amount, !.principal = @ + amount]
Withdrawn(amount) == [comet EXCEPT !.balance = @ - amount, !.principal = @ - amount]

\* Comet's own checks of a withdrawal.
CometPays(amount) ==
  /\ ~comet.isWithdrawPaused
  /\ comet.baseTokenIntact
  /\ amount <= comet.balance

\* The adapter after an operation that leaves it basis and Comet at position:
\* _snapshotPrincipal takes the principal Comet now reports.
Snapshot(basis, position) ==
  [adapter EXCEPT !.deployedPrincipalBasis = basis,
                  !.expectedCometPrincipal = position.principal]

\* deployAssets
DeployAssets(amount) ==
  /\ ~adapter.paused
  /\ MarketIntegrity
  /\ ~comet.isSupplyPaused
  /\ PositionIntegrity
  /\ CurrentShortfall <= COMET_ROUNDING_TOLERANCE
  /\ IF amount = 0 THEN UNCHANGED <<adapter, comet>>
     ELSE /\ comet' = Supplied(amount)
          /\ adapter' = Snapshot(adapter.deployedPrincipalBasis + amount, Supplied(amount))

\* withdrawPrincipal: also while the adapter is paused.
WithdrawPrincipal(amount) ==
  /\ MarketIntegrity
  /\ PositionIntegrity
  /\ amount <= adapter.deployedPrincipalBasis
  /\ CometPays(amount)
  /\ comet' = Withdrawn(amount)
  /\ adapter' = Snapshot(adapter.deployedPrincipalBasis - amount, Withdrawn(amount))

\* Mutant: a surplus that includes the principal.
SurplusAll == comet.balance

\* What the position holds above the principal basis.
Surplus == comet.balance - adapter.deployedPrincipalBasis

\* harvest of a surplus; without one it returns 0 and changes nothing.
Harvest ==
  /\ ~adapter.paused
  /\ MarketIntegrity
  /\ PositionIntegrity
  /\ comet.balance > adapter.deployedPrincipalBasis
  /\ CometPays(Surplus)
  /\ comet' = Withdrawn(Surplus)
  /\ adapter' = Snapshot(adapter.deployedPrincipalBasis, Withdrawn(Surplus))

\* What emergencyExit finds: nothing at all, or the whole position.
NothingManaged == comet.balance = 0 /\ adapter.expectedCometPrincipal = 0
Recovered == IF NothingManaged THEN 0 ELSE comet.balance

ExitShortfall ==
  IF adapter.deployedPrincipalBasis > Recovered
  THEN adapter.deployedPrincipalBasis - Recovered ELSE 0

\* emergencyExit: the whole position, whatever the market's configuration.
EmergencyExit ==
  /\ adapter.paused
  /\ NothingManaged \/ CometPays(Recovered)
  /\ comet' = IF NothingManaged THEN comet ELSE Withdrawn(Recovered)
  /\ adapter' = Snapshot(0, comet')

-----------------------------------------------------------------------------
(* Savers. *)

\* onConfidentialTransferReceived, on the pool's totals.
Deposit(amount) ==
  /\ amount > 0
  /\ amount <= MAX_POOL_BASE_UNITS - totalPrincipal
  /\ totalPrincipal' = totalPrincipal + amount
  /\ liquidPrincipal' = liquidPrincipal + amount
  /\ assetBalance' = assetBalance + amount
  /\ UNCHANGED <<deployedPrincipal, principalInTransition, strategyShortfall, yieldVars,
                 epochVars, marketVars>>

\* withdraw: what savers own and the vault has liquid; otherwise nothing moves.
Withdraw(amount) ==
  /\ amount > 0
  /\ amount <= totalPrincipal
  /\ amount <= liquidPrincipal
  /\ totalPrincipal' = totalPrincipal - amount
  /\ liquidPrincipal' = liquidPrincipal - amount
  /\ assetBalance' = assetBalance - amount
  /\ UNCHANGED <<deployedPrincipal, principalInTransition, strategyShortfall, yieldVars,
                 epochVars, marketVars>>

-----------------------------------------------------------------------------
(* Strategy epochs. *)

\* openStrategyEpoch
OpenStrategyEpoch(kind) ==
  /\ activeStrategyEpochId < MAX_EPOCHS
  /\ ~adapter.paused
  /\ epoch.state \in {"NONE", "COMPLETED", "CANCELLED"}
  /\ activeStrategyEpochId' = activeStrategyEpochId + 1
  /\ epoch' = [NoEpoch EXCEPT !.kind = kind, !.state = "AGING"]
  /\ UNCHANGED <<poolVars, yieldVars, assetBalance, unwrapRequest, marketVars>>

\* The part of the principal that is to stay liquid.
Target == (totalPrincipal * LIQUIDITY_BUFFER_BPS) \div BPS

Excess == IF liquidPrincipal > Target THEN liquidPrincipal - Target ELSE 0

Deficit ==
  LET deficit == IF liquidPrincipal < Target THEN Target - liquidPrincipal ELSE 0
      publicBasis == adapter.deployedPrincipalBasis
  IN  IF deficit <= publicBasis THEN deficit ELSE publicBasis

\* unwrap of the wrapper burns the amount, or nothing if the balance is too
\* small (external).
Burned(amount) == IF amount <= assetBalance THEN amount ELSE 0

\* requestStrategyAmount of a deployment: the excess is burned into an unwrap.
RequestDeployment ==
  /\ epoch.state = "AGING" /\ epoch.kind = "DEPLOY"
  /\ epoch.age >= MINIMUM_STRATEGY_EPOCH_AGE
  /\ ~adapter.paused
  /\ liquidPrincipal' = liquidPrincipal - Excess
  /\ principalInTransition' = principalInTransition + Excess
  /\ epoch' = [epoch EXCEPT !.amount = Excess, !.state = "UNWRAP_PENDING"]
  /\ unwrapRequest' = [pending |-> TRUE, amount |-> Burned(Excess)]
  /\ assetBalance' = assetBalance - Burned(Excess)
  /\ UNCHANGED <<totalPrincipal, deployedPrincipal, strategyShortfall, yieldVars,
                 activeStrategyEpochId, marketVars>>

\* requestStrategyAmount of a replenishment: the deficit is published.
RequestReplenishment ==
  /\ epoch.state = "AGING" /\ epoch.kind = "REPLENISH"
  /\ epoch.age >= MINIMUM_STRATEGY_EPOCH_AGE
  /\ epoch' = [epoch EXCEPT !.amount = Deficit, !.state = "AMOUNT_PENDING"]
  /\ UNCHANGED <<poolVars, yieldVars, assetBalance, activeStrategyEpochId, unwrapRequest,
                 marketVars>>

\* finalizeUnwrap of the wrapper: pays the request's amount once (external).
FinalizeUnwrap(clearAmount) ==
  /\ unwrapRequest.pending
  /\ clearAmount = unwrapRequest.amount
  /\ unwrapRequest' = NoRequest

\* finalizeStrategyDeployment with the authentic cleartext.
FinalizeStrategyDeployment ==
  LET clearAmount == unwrapRequest.amount
  IN  /\ epoch.state = "UNWRAP_PENDING" /\ epoch.kind = "DEPLOY"
      /\ clearAmount <= MAX_POOL_BASE_UNITS
      /\ FinalizeUnwrap(clearAmount)
      /\ DeployAssets(clearAmount)
      /\ principalInTransition' = principalInTransition - clearAmount
      /\ deployedPrincipal' = deployedPrincipal + clearAmount
      /\ epoch' = [epoch EXCEPT !.publicAmount = clearAmount, !.state = "COMPLETED"]
      /\ UNCHANGED <<totalPrincipal, liquidPrincipal, strategyShortfall, yieldVars, assetBalance,
                     activeStrategyEpochId>>

\* finalizeStrategyReplenishment with the authentic cleartext, however much
\* the pool has changed since it was requested.
FinalizeStrategyReplenishment ==
  /\ epoch.state = "AMOUNT_PENDING" /\ epoch.kind = "REPLENISH"
  /\ epoch.amount <= MAX_POOL_BASE_UNITS
  /\ WithdrawPrincipal(epoch.amount)
  /\ deployedPrincipal' = deployedPrincipal - epoch.amount
  /\ liquidPrincipal' = liquidPrincipal + epoch.amount
  /\ assetBalance' = assetBalance + epoch.amount
  /\ epoch' = [epoch EXCEPT !.publicAmount = epoch.amount, !.state = "COMPLETED"]
  /\ UNCHANGED <<totalPrincipal, principalInTransition, strategyShortfall, yieldVars,
                 activeStrategyEpochId, unwrapRequest>>

\* Yield that enters the vault.
BookYield(surplus) ==
  /\ uncommittedYield' = uncommittedYield + surplus
  /\ liquidPrizeAssets' = liquidPrizeAssets + surplus
  /\ publicUncommittedYield' = publicUncommittedYield + surplus

\* harvestStrategyYield
HarvestStrategyYield ==
  /\ Harvest
  /\ BookYield(Surplus)
  /\ assetBalance' = assetBalance + Surplus
  /\ UNCHANGED <<poolVars, epochVars>>

\* setStrategyPaused, or the guardian's setPaused on the adapter itself.
SetStrategyPaused(paused) ==
  /\ adapter' = [adapter EXCEPT !.paused = paused]
  /\ UNCHANGED <<poolVars, yieldVars, assetBalance, epochVars, comet>>

\* Mutant: an unwind that takes the whole recovery for principal.
RecoveredAsPrincipal == Recovered

\* How much of a recovery is principal; the rest is surplus.
PrincipalRecovered ==
  IF Recovered < adapter.deployedPrincipalBasis THEN Recovered
  ELSE adapter.deployedPrincipalBasis

\* emergencyUnwindStrategy: anyone, while the adapter is paused, whatever
\* epoch is pending.
EmergencyUnwindStrategy ==
  /\ EmergencyExit
  /\ liquidPrincipal' = liquidPrincipal + PrincipalRecovered
  /\ BookYield(Recovered - PrincipalRecovered)
  /\ deployedPrincipal' = 0
  /\ strategyShortfall' = strategyShortfall + ExitShortfall
  /\ assetBalance' = assetBalance + Recovered
  /\ UNCHANGED <<totalPrincipal, principalInTransition, epochVars>>

\* cancelAgingStrategyEpoch
CancelAgingStrategyEpoch ==
  /\ epoch.state = "AGING"
  /\ epoch' = [epoch EXCEPT !.state = "CANCELLED"]
  /\ UNCHANGED <<poolVars, yieldVars, assetBalance, activeStrategyEpochId, unwrapRequest,
                 marketVars>>

\* Mutant: an expired epoch is cancelled without its unwrap.
CancelWithoutUnwrap ==
  /\ epoch.age >= EXPIRY
  /\ epoch.state = "UNWRAP_PENDING"
  /\ epoch' = [epoch EXCEPT !.state = "CANCELLED"]
  /\ UNCHANGED <<poolVars, yieldVars, assetBalance, activeStrategyEpochId, unwrapRequest,
                 marketVars>>

\* cancelExpiredStrategyEpoch of an amount that was only published.
CancelExpiredReplenishment ==
  /\ epoch.age >= EXPIRY
  /\ epoch.state = "AMOUNT_PENDING"
  /\ epoch' = [epoch EXCEPT !.state = "CANCELLED"]
  /\ UNCHANGED <<poolVars, yieldVars, assetBalance, activeStrategyEpochId, unwrapRequest,
                 marketVars>>

\* cancelExpiredStrategyEpoch of a burned amount: unwrapped and wrapped again.
CancelExpiredDeployment ==
  LET clearAmount == unwrapRequest.amount
  IN  /\ epoch.age >= EXPIRY
      /\ epoch.state = "UNWRAP_PENDING"
      /\ clearAmount <= MAX_POOL_BASE_UNITS
      /\ FinalizeUnwrap(clearAmount)
      /\ principalInTransition' = principalInTransition - clearAmount
      /\ liquidPrincipal' = liquidPrincipal + clearAmount
      /\ assetBalance' = assetBalance + clearAmount
      /\ epoch' = [epoch EXCEPT !.state = "CANCELLED"]
      /\ UNCHANGED <<totalPrincipal, deployedPrincipal, strategyShortfall, yieldVars,
                     activeStrategyEpochId, marketVars>>

-----------------------------------------------------------------------------
(* The environment: time and the market. *)

Tick ==
  /\ epoch.state \in {"AGING", "AMOUNT_PENDING", "UNWRAP_PENDING"}
  /\ epoch.age < EXPIRY
  /\ epoch' = [epoch EXCEPT !.age = @ + 1]
  /\ UNCHANGED <<poolVars, yieldVars, assetBalance, activeStrategyEpochId, unwrapRequest,
                 marketVars>>

OnlyComet(position) ==
  /\ comet' = position
  /\ UNCHANGED <<poolVars, yieldVars, assetBalance, epochVars, adapter>>

\* Interest, a loss, a position given to the adapter, a pause of the market and
\* a change of its configuration: what MockCompoundComet lets a test do.
AddYield(amount) ==
  /\ comet.balance > 0 /\ comet.balance + amount <= MAX_MANAGED
  /\ OnlyComet([comet EXCEPT !.balance = @ + amount])

ImposeLoss(amount) ==
  /\ amount <= comet.balance
  /\ OnlyComet([comet EXCEPT !.balance = @ - amount])

DonatePosition(amount) ==
  /\ comet.balance + amount <= MAX_MANAGED
  /\ OnlyComet(Supplied(amount))

SetCometPaused(supplyPaused, withdrawPaused) ==
  OnlyComet([comet EXCEPT !.isSupplyPaused = supplyPaused, !.isWithdrawPaused = withdrawPaused])

SetMarketConfiguration(token, scale) ==
  OnlyComet([comet EXCEPT !.baseTokenIntact = token, !.baseScaleIntact = scale])

-----------------------------------------------------------------------------
SaverStep == \E amount \in Amounts : Deposit(amount) \/ Withdraw(amount)

EpochStep ==
  \/ \E kind \in StrategyEpochKind : OpenStrategyEpoch(kind)
  \/ RequestDeployment
  \/ RequestReplenishment
  \/ FinalizeStrategyDeployment
  \/ FinalizeStrategyReplenishment
  \/ CancelAgingStrategyEpoch
  \/ CancelExpiredReplenishment
  \/ CancelExpiredDeployment
  \/ Tick

YieldStep == HarvestStrategyYield \/ EmergencyUnwindStrategy

PauseStep == \E paused \in BOOLEAN : SetStrategyPaused(paused)

MarketStep ==
  \/ \E amount \in Amounts : AddYield(amount) \/ ImposeLoss(amount) \/ DonatePosition(amount)
  \/ \E s, w \in BOOLEAN : SetCometPaused(s, w)
  \/ \E t, s \in BOOLEAN : SetMarketConfiguration(t, s)

StrategyNext == SaverStep \/ EpochStep \/ YieldStep \/ PauseStep \/ MarketStep

StrategySpec == StrategyInit /\ [][StrategyNext]_strategyVars

-----------------------------------------------------------------------------
(* Properties. *)

\* None of the encrypted subtractions of the strategy handlers, which would
\* wrap silently, goes below zero.
BucketsOK ==
  /\ totalPrincipal \in Nat /\ liquidPrincipal \in Nat /\ deployedPrincipal \in Nat
  /\ principalInTransition \in Nat /\ strategyShortfall \in Nat
  /\ liquidPrizeAssets \in Nat /\ uncommittedYield \in Nat /\ publicUncommittedYield \in Nat
  /\ assetBalance \in Nat

RecordsOK ==
  /\ activeStrategyEpochId \in Nat
  /\ epoch \in StrategyEpoch
  /\ unwrapRequest \in [pending : BOOLEAN, amount : Nat]
  /\ adapter \in Adapter
  /\ comet \in Comet

\* Every variable keeps its type: the encrypted buckets of the vault, the epoch
\* and the records of the wrapper, the adapter and the market.
StrategyTypeOK == BucketsOK /\ RecordsOK

\* The liability to savers is neither created nor written down on the way
\* through the strategy: every unit of principal is liquid, deployed, in a
\* pending unwrap or recorded as lost.
PrincipalConserved ==
  /\ totalPrincipal = liquidPrincipal + deployedPrincipal + principalInTransition
                        + strategyShortfall
  /\ totalPrincipal <= MAX_POOL_BASE_UNITS

\* The vault's encrypted deployed principal and the adapter's public basis, which
\* two contracts update separately, agree after every transaction.
BasisInStep == deployedPrincipal = adapter.deployedPrincipalBasis

\* Burned principal is always recoverable: it is in transition exactly while
\* its epoch waits for the unwrap, and the wrapper still owes exactly that.
BurnRecoverable ==
  /\ unwrapRequest.pending <=> epoch.state = "UNWRAP_PENDING"
  /\ principalInTransition = unwrapRequest.amount
  /\ unwrapRequest.pending => unwrapRequest.amount = epoch.amount

\* The vault holds exactly the liquid principal and the prize assets it books,
\* and the public yield is the encrypted one.
HoldingsBacked ==
  /\ assetBalance = liquidPrincipal + liquidPrizeAssets
  /\ uncommittedYield = publicUncommittedYield
  /\ uncommittedYield = liquidPrizeAssets

\* "Harvest withdraws only managedAssets - basis": whatever becomes prize
\* money, by a harvest or an unwind, was above the principal basis.
OnlySurplusIsPrize ==
  [][liquidPrizeAssets' > liquidPrizeAssets =>
       liquidPrizeAssets' - liquidPrizeAssets
         <= comet.balance - adapter.deployedPrincipalBasis]_strategyVars

\* "Emergency exit records loss without deleting liability": the shortfall only
\* grows, by the market's real loss, in an unwind under pause.
LossIsReal ==
  [][strategyShortfall' # strategyShortfall =>
       /\ adapter.paused
       /\ totalPrincipal' = totalPrincipal
       /\ strategyShortfall' - strategyShortfall = CurrentShortfall]_strategyVars
=============================================================================
