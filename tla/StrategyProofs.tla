--------------------------- MODULE StrategyProofs ---------------------------
(***************************************************************************)
(* Proofs about Strategy, for every value of its constants.  The encrypted *)
(* subtractions of the vault wrap silently, so "no bucket goes below zero" *)
(* is a property of the bookkeeping as a whole: it needs the adapter's     *)
(* basis, the wrapper's pending request and the vault's balance to agree   *)
(* with the encrypted buckets, and is proved together with them.           *)
(***************************************************************************)
EXTENDS Strategy, TLAPS

\* The wrapper remembers an amount only while a request is pending.
RequestIdle == ~unwrapRequest.pending => unwrapRequest.amount = 0

\* The inductive invariant.
StrategyInv ==
  /\ BucketsOK
  /\ RecordsOK
  /\ PrincipalConserved
  /\ BasisInStep
  /\ BurnRecoverable
  /\ HoldingsBacked
  /\ RequestIdle

-----------------------------------------------------------------------------
(* The amounts that the handlers compute. *)

\* A quotient of naturals is a natural.
LEMMA QuotientNat ==
  ASSUME NEW n \in Nat, NEW d \in Nat, d > 0
  PROVE  n \div d \in Nat
  BY SMT

\* The liquidity target of requestStrategyAmount is a natural number.
LEMMA TargetNat ==
  ASSUME BucketsOK
  PROVE  Target \in Nat
<1>1. totalPrincipal \in Nat
  BY DEF BucketsOK
<1>2. totalPrincipal * LIQUIDITY_BUFFER_BPS \in Nat
  <2>1. LIQUIDITY_BUFFER_BPS \in Nat
    BY StrategyConfiguration
  <2> QED BY <1>1, <2>1, SMT
<1>3. BPS \in Nat /\ BPS > 0
  BY StrategyConfiguration
<1> QED BY <1>2, <1>3, QuotientNat DEF Target

\* A deployment takes no more than what is liquid.
LEMMA ExcessBounded ==
  ASSUME BucketsOK
  PROVE  Excess \in Nat /\ Excess <= liquidPrincipal
<1>1. Target \in Nat /\ liquidPrincipal \in Nat
  BY TargetNat DEF BucketsOK
<1> QED BY <1>1 DEF Excess

\* A replenishment asks for no more than the public basis.
LEMMA DeficitBounded ==
  ASSUME BucketsOK, RecordsOK
  PROVE  Deficit \in Nat
<1>1. Target \in Nat /\ liquidPrincipal \in Nat /\ adapter.deployedPrincipalBasis \in Nat
  BY TargetNat DEF BucketsOK, RecordsOK, Adapter
<1> QED BY <1>1 DEF Deficit

-----------------------------------------------------------------------------
(* The invariant. *)

\* The constructor's state satisfies the invariant.
LEMMA StrategyInitInv == StrategyInit => StrategyInv
<1> SUFFICES ASSUME StrategyInit PROVE StrategyInv
  OBVIOUS
<1>1. BucketsOK /\ PrincipalConserved /\ HoldingsBacked
  BY StrategyConfiguration DEF StrategyInit, BucketsOK, PrincipalConserved, HoldingsBacked
<1>2. RecordsOK
  BY DEF StrategyInit, RecordsOK, StrategyEpoch, StrategyEpochState, NoEpoch, NoRequest, Adapter,
     Comet
<1>3. BasisInStep /\ BurnRecoverable /\ RequestIdle
  BY DEF StrategyInit, BasisInStep, BurnRecoverable, RequestIdle, NoEpoch, NoRequest
<1> QED BY <1>1, <1>2, <1>3 DEF StrategyInv

\* Savers' steps preserve the invariant.
LEMMA SaverInv ==
  ASSUME StrategyInv, SaverStep
  PROVE  StrategyInv'
<1> PICK amount \in Amounts : Deposit(amount) \/ Withdraw(amount)
  BY DEF SaverStep
<1>0. amount \in Nat /\ MAX_POOL_BASE_UNITS \in Nat
  BY StrategyConfiguration
<1>1. UNCHANGED <<epoch, activeStrategyEpochId, unwrapRequest, adapter, comet>>
  BY DEF Deposit, Withdraw, epochVars, marketVars
<1>2. UNCHANGED <<deployedPrincipal, principalInTransition, strategyShortfall, liquidPrizeAssets,
                  uncommittedYield, publicUncommittedYield>>
  BY DEF Deposit, Withdraw, yieldVars
<1>3. BucketsOK' /\ PrincipalConserved' /\ HoldingsBacked'
  <2>1. BucketsOK /\ PrincipalConserved /\ HoldingsBacked
    BY DEF StrategyInv
  <2>2. \/ /\ amount <= MAX_POOL_BASE_UNITS - totalPrincipal
           /\ totalPrincipal' = totalPrincipal + amount
           /\ liquidPrincipal' = liquidPrincipal + amount
           /\ assetBalance' = assetBalance + amount
        \/ /\ amount <= liquidPrincipal /\ amount <= totalPrincipal
           /\ totalPrincipal' = totalPrincipal - amount
           /\ liquidPrincipal' = liquidPrincipal - amount
           /\ assetBalance' = assetBalance - amount
    BY DEF Deposit, Withdraw
  <2> QED BY <1>0, <1>2, <2>1, <2>2 DEF BucketsOK, PrincipalConserved, HoldingsBacked
<1>4. RecordsOK' /\ BasisInStep' /\ BurnRecoverable' /\ RequestIdle'
  BY <1>1, <1>2 DEF StrategyInv, RecordsOK, BasisInStep, BurnRecoverable, RequestIdle
<1> QED BY <1>3, <1>4 DEF StrategyInv

\* Steps of the guardian and of the market preserve the invariant.
LEMMA MarketInv ==
  ASSUME StrategyInv, PauseStep \/ MarketStep
  PROVE  StrategyInv'
<1>1. UNCHANGED <<totalPrincipal, liquidPrincipal, deployedPrincipal, principalInTransition,
                  strategyShortfall, liquidPrizeAssets, uncommittedYield, publicUncommittedYield,
                  assetBalance, epoch, activeStrategyEpochId, unwrapRequest>>
  BY DEF PauseStep, SetStrategyPaused, MarketStep, OnlyComet, AddYield, ImposeLoss, DonatePosition,
     SetCometPaused, SetMarketConfiguration, poolVars, yieldVars, epochVars
<1>2. adapter \in Adapter /\ comet \in Comet /\ Amounts \subseteq Nat
  BY StrategyConfiguration DEF StrategyInv, RecordsOK
<1>3. adapter' \in Adapter /\ adapter'.deployedPrincipalBasis = adapter.deployedPrincipalBasis
  <2>1. CASE PauseStep
    BY <1>2, <2>1 DEF PauseStep, SetStrategyPaused, Adapter
  <2>2. CASE MarketStep
    BY <1>2, <2>2 DEF MarketStep, OnlyComet, AddYield, ImposeLoss, DonatePosition,
       SetCometPaused, SetMarketConfiguration
  <2> QED BY <2>1, <2>2
<1>4. comet' \in Comet
  <2>1. CASE PauseStep
    BY <1>2, <2>1 DEF PauseStep, SetStrategyPaused
  <2>2. ASSUME NEW amount \in Amounts, AddYield(amount)
        PROVE  comet' \in Comet
    BY <1>2, <2>2 DEF AddYield, OnlyComet, Comet
  <2>3. ASSUME NEW amount \in Amounts, ImposeLoss(amount)
        PROVE  comet' \in Comet
    BY <1>2, <2>3 DEF ImposeLoss, OnlyComet, Comet
  <2>4. ASSUME NEW amount \in Amounts, DonatePosition(amount)
        PROVE  comet' \in Comet
    <3>1. comet' = [comet EXCEPT !.balance = @ + amount, !.principal = @ + amount]
      BY <2>4 DEF DonatePosition, OnlyComet, Supplied
    <3>2. comet.balance + amount \in Nat /\ comet.principal + amount \in Int
      BY <1>2 DEF Comet
    <3> QED BY <1>2, <3>1, <3>2 DEF Comet
  <2>5. ASSUME NEW s \in BOOLEAN, NEW w \in BOOLEAN,
               SetCometPaused(s, w) \/ SetMarketConfiguration(s, w)
        PROVE  comet' \in Comet
    BY <1>2, <2>5 DEF SetCometPaused, SetMarketConfiguration, OnlyComet, Comet
  <2> QED BY <2>1, <2>2, <2>3, <2>4, <2>5 DEF MarketStep
<1>5. BucketsOK' /\ PrincipalConserved' /\ HoldingsBacked' /\ BurnRecoverable' /\ RequestIdle'
  BY <1>1 DEF StrategyInv, BucketsOK, PrincipalConserved, HoldingsBacked, BurnRecoverable,
     RequestIdle
<1>6. BasisInStep' /\ RecordsOK'
  BY <1>1, <1>3, <1>4 DEF StrategyInv, RecordsOK, BasisInStep
<1> QED BY <1>5, <1>6 DEF StrategyInv

\* The adapter after a snapshot has its type and the given basis.
LEMMA SnapshotType ==
  ASSUME adapter \in Adapter, NEW basis \in Nat, NEW position \in Comet
  PROVE  /\ Snapshot(basis, position) \in Adapter
         /\ Snapshot(basis, position).deployedPrincipalBasis = basis
<1>1. position.principal \in Int
  BY DEF Comet
<1> QED BY <1>1 DEF Snapshot, Adapter

\* Supplying to Comet and withdrawing what it holds keep its type.
LEMMA PositionType ==
  ASSUME comet \in Comet, NEW amount \in Nat
  PROVE  /\ Supplied(amount) \in Comet
         /\ amount <= comet.balance => Withdrawn(amount) \in Comet
<1>1. comet.balance \in Nat /\ comet.principal \in Int
  BY DEF Comet
<1>2. Supplied(amount) \in Comet
  <2>1. comet.balance + amount \in Nat /\ comet.principal + amount \in Int
    BY <1>1
  <2> QED BY <2>1 DEF Supplied, Comet
<1>3. ASSUME amount <= comet.balance
      PROVE  Withdrawn(amount) \in Comet
  <2>1. comet.balance - amount \in Nat /\ comet.principal - amount \in Int
    BY <1>1, <1>3
  <2> QED BY <2>1 DEF Withdrawn, Comet
<1> QED BY <1>2, <1>3

\* An epoch that changes state and amounts keeps its type.
LEMMA EpochType ==
  ASSUME epoch \in StrategyEpoch, NEW state \in StrategyEpochState, NEW amount \in Nat
  PROVE  /\ [epoch EXCEPT !.state = state] \in StrategyEpoch
         /\ [epoch EXCEPT !.amount = amount, !.state = state] \in StrategyEpoch
         /\ [epoch EXCEPT !.publicAmount = amount, !.state = state] \in StrategyEpoch
  BY DEF StrategyEpoch

\* Steps of an epoch that move no money preserve the invariant.
LEMMA IdleEpochInv ==
  ASSUME StrategyInv,
         \/ \E kind \in StrategyEpochKind : OpenStrategyEpoch(kind)
         \/ RequestReplenishment \/ CancelAgingStrategyEpoch \/ CancelExpiredReplenishment \/ Tick
  PROVE  StrategyInv'
<1>1. UNCHANGED <<totalPrincipal, liquidPrincipal, deployedPrincipal, principalInTransition,
                  strategyShortfall, liquidPrizeAssets, uncommittedYield, publicUncommittedYield,
                  assetBalance, unwrapRequest, adapter, comet>>
  BY DEF OpenStrategyEpoch, RequestReplenishment, CancelAgingStrategyEpoch,
     CancelExpiredReplenishment, Tick, poolVars, yieldVars, marketVars
<1>2. epoch \in StrategyEpoch /\ activeStrategyEpochId \in Nat
  BY DEF StrategyInv, RecordsOK
<1>3. /\ activeStrategyEpochId' \in Nat
      /\ epoch' \in StrategyEpoch
      /\ epoch'.state # "UNWRAP_PENDING" \/ epoch'.amount = epoch.amount
      /\ epoch'.state = "UNWRAP_PENDING" <=> epoch.state = "UNWRAP_PENDING"
  <2>1. ASSUME NEW kind \in StrategyEpochKind, OpenStrategyEpoch(kind)
        PROVE  <1>3!:
    <3>1. /\ epoch' = [kind |-> kind, state |-> "AGING", age |-> 0, amount |-> 0,
                      publicAmount |-> 0]
          /\ epoch.state # "UNWRAP_PENDING"
          /\ activeStrategyEpochId' = activeStrategyEpochId + 1
      BY <2>1 DEF OpenStrategyEpoch, NoEpoch
    <3> QED BY <1>2, <3>1 DEF StrategyEpoch, StrategyEpochState
  <2>2. CASE RequestReplenishment
    <3>1. Deficit \in Nat
      BY DeficitBounded DEF StrategyInv
    <3> QED BY <1>2, <2>2, <3>1 DEF RequestReplenishment, StrategyEpoch, StrategyEpochState
  <2>3. CASE CancelAgingStrategyEpoch \/ CancelExpiredReplenishment
    BY <1>2, <2>3 DEF CancelAgingStrategyEpoch, CancelExpiredReplenishment, StrategyEpoch,
       StrategyEpochState
  <2>4. CASE Tick
    <3>1. epoch.age + 1 \in Nat
      BY <1>2 DEF StrategyEpoch
    <3>2. epoch' = [epoch EXCEPT !.age = epoch.age + 1] /\ UNCHANGED activeStrategyEpochId
      BY <2>4 DEF Tick
    <3> QED BY <1>2, <3>1, <3>2 DEF StrategyEpoch
  <2> QED BY <2>1, <2>2, <2>3, <2>4
<1>4. BucketsOK' /\ PrincipalConserved' /\ HoldingsBacked' /\ BasisInStep' /\ RequestIdle'
  BY <1>1 DEF StrategyInv, BucketsOK, PrincipalConserved, HoldingsBacked, BasisInStep, RequestIdle
<1>5. RecordsOK' /\ BurnRecoverable'
  BY <1>1, <1>3 DEF StrategyInv, RecordsOK, BurnRecoverable
<1> QED BY <1>4, <1>5 DEF StrategyInv

\* requestStrategyAmount of a deployment: what leaves the liquid principal is
\* covered by the balance, so the wrapper burns all of it.
LEMMA RequestDeploymentInv ==
  ASSUME StrategyInv, RequestDeployment
  PROVE  StrategyInv'
<1>1. Excess \in Nat /\ Excess <= liquidPrincipal
  BY ExcessBounded DEF StrategyInv
<1>2. BucketsOK /\ PrincipalConserved /\ HoldingsBacked
  BY DEF StrategyInv
<1>3. Burned(Excess) = Excess
  <2>1. Excess <= assetBalance
    BY <1>1, <1>2 DEF BucketsOK, HoldingsBacked
  <2> QED BY <2>1 DEF Burned
<1>4. principalInTransition = 0 /\ ~unwrapRequest.pending
  BY DEF RequestDeployment, StrategyInv, BurnRecoverable, RequestIdle
<1>5. /\ UNCHANGED <<totalPrincipal, deployedPrincipal, strategyShortfall, liquidPrizeAssets,
                     uncommittedYield, publicUncommittedYield>>
      /\ liquidPrincipal' = liquidPrincipal - Excess
      /\ principalInTransition' = Excess
      /\ assetBalance' = assetBalance - Excess
  BY <1>1, <1>3, <1>4 DEF RequestDeployment, yieldVars
<1>6. /\ UNCHANGED <<activeStrategyEpochId, adapter, comet>>
      /\ unwrapRequest' = [pending |-> TRUE, amount |-> Excess]
      /\ epoch' = [epoch EXCEPT !.amount = Excess, !.state = "UNWRAP_PENDING"]
  BY <1>3 DEF RequestDeployment, marketVars
<1>7. epoch \in StrategyEpoch
  BY DEF StrategyInv, RecordsOK
<1>8. BucketsOK' /\ PrincipalConserved' /\ HoldingsBacked'
  <2>0. /\ liquidPrincipal \in Nat /\ liquidPrizeAssets \in Nat
        /\ assetBalance = liquidPrincipal + liquidPrizeAssets
    BY <1>2 DEF BucketsOK, HoldingsBacked
  <2>1. BucketsOK'
    <3>1. liquidPrincipal - Excess \in Nat /\ assetBalance - Excess \in Nat
      BY <1>1, <2>0
    <3> QED BY <1>1, <1>2, <1>5, <3>1 DEF BucketsOK
  <2>2. PrincipalConserved'
    BY <1>1, <1>2, <1>4, <1>5 DEF BucketsOK, PrincipalConserved
  <2>3. HoldingsBacked'
    <3>1. assetBalance - Excess = (liquidPrincipal - Excess) + liquidPrizeAssets
      BY <1>1, <2>0
    <3> QED BY <1>2, <1>5, <3>1 DEF HoldingsBacked
  <2> QED BY <2>1, <2>2, <2>3
<1>9. RecordsOK'
  <2>1. epoch' \in StrategyEpoch
    BY <1>1, <1>6, <1>7, EpochType DEF StrategyEpochState
  <2>2. unwrapRequest' \in [pending : BOOLEAN, amount : Nat]
    BY <1>1, <1>6
  <2> QED BY <1>6, <2>1, <2>2 DEF StrategyInv, RecordsOK
<1>10. BurnRecoverable' /\ RequestIdle' /\ BasisInStep'
  BY <1>5, <1>6, <1>7 DEF StrategyInv, BurnRecoverable, RequestIdle, BasisInStep, StrategyEpoch
<1> QED BY <1>8, <1>9, <1>10 DEF StrategyInv

\* The amount that a pending unwrap gives back is the principal in transition.
LEMMA UnwrapAmount ==
  ASSUME StrategyInv
  PROVE  unwrapRequest.amount = principalInTransition /\ principalInTransition \in Nat
  BY DEF StrategyInv, BurnRecoverable, BucketsOK

\* cancelExpiredStrategyEpoch of a burned amount preserves the invariant.
LEMMA CancelDeploymentInv ==
  ASSUME StrategyInv, CancelExpiredDeployment
  PROVE  StrategyInv'
<1> DEFINE c == principalInTransition
<1>1. unwrapRequest.amount = c /\ c \in Nat
  BY UnwrapAmount
<1>2. BucketsOK /\ PrincipalConserved /\ HoldingsBacked
  BY DEF StrategyInv
<1>3. /\ UNCHANGED <<totalPrincipal, deployedPrincipal, strategyShortfall, liquidPrizeAssets,
                     uncommittedYield, publicUncommittedYield>>
      /\ liquidPrincipal' = liquidPrincipal + c
      /\ principalInTransition' = c - c
      /\ assetBalance' = assetBalance + c
  BY <1>1 DEF CancelExpiredDeployment, yieldVars
<1>4. /\ UNCHANGED <<activeStrategyEpochId, adapter, comet>>
      /\ unwrapRequest' = NoRequest
      /\ epoch' = [epoch EXCEPT !.state = "CANCELLED"]
  BY DEF CancelExpiredDeployment, FinalizeUnwrap, marketVars
<1>5. epoch \in StrategyEpoch
  BY DEF StrategyInv, RecordsOK
<1>6. principalInTransition' = 0
  BY <1>1, <1>3
<1>7. BucketsOK'
  <2>1. liquidPrincipal + c \in Nat /\ assetBalance + c \in Nat
    BY <1>1, <1>2 DEF BucketsOK
  <2> QED BY <1>2, <1>3, <1>6, <2>1 DEF BucketsOK
<1>8. PrincipalConserved'
  BY <1>2, <1>3, <1>6 DEF BucketsOK, PrincipalConserved
<1>9. HoldingsBacked'
  <2>1. assetBalance + c = (liquidPrincipal + c) + liquidPrizeAssets
    BY <1>1, <1>2 DEF BucketsOK, HoldingsBacked
  <2> QED BY <1>2, <1>3, <2>1 DEF HoldingsBacked
<1>10. RecordsOK'
  <2>1. epoch' \in StrategyEpoch
    BY <1>4, <1>5, EpochType DEF StrategyEpochState
  <2>2. unwrapRequest' \in [pending : BOOLEAN, amount : Nat]
    BY <1>4 DEF NoRequest
  <2> QED BY <1>4, <2>1, <2>2 DEF StrategyInv, RecordsOK
<1>11. BurnRecoverable' /\ RequestIdle'
  BY <1>4, <1>5, <1>6 DEF BurnRecoverable, RequestIdle, NoRequest, StrategyEpoch
<1>12. BasisInStep'
  BY <1>3, <1>4 DEF StrategyInv, BasisInStep
<1> QED BY <1>7, <1>8, <1>9, <1>10, <1>11, <1>12 DEF StrategyInv

\* finalizeStrategyDeployment preserves the invariant: what the wrapper pays
\* out is what the adapter adds to its basis.
LEMMA FinalizeDeploymentInv ==
  ASSUME StrategyInv, FinalizeStrategyDeployment
  PROVE  StrategyInv'
<1> DEFINE c == principalInTransition
<1>1. unwrapRequest.amount = c /\ c \in Nat
  BY UnwrapAmount
<1>2. BucketsOK /\ PrincipalConserved /\ HoldingsBacked
  BY DEF StrategyInv
<1>3. /\ UNCHANGED <<totalPrincipal, liquidPrincipal, strategyShortfall, liquidPrizeAssets,
                     uncommittedYield, publicUncommittedYield, assetBalance>>
      /\ deployedPrincipal' = deployedPrincipal + c
      /\ principalInTransition' = c - c
  BY <1>1 DEF FinalizeStrategyDeployment, yieldVars
<1>4. /\ UNCHANGED activeStrategyEpochId
      /\ unwrapRequest' = NoRequest
      /\ epoch' = [epoch EXCEPT !.publicAmount = c, !.state = "COMPLETED"]
  BY <1>1 DEF FinalizeStrategyDeployment, FinalizeUnwrap
<1>5. epoch \in StrategyEpoch /\ adapter \in Adapter /\ comet \in Comet
  BY DEF StrategyInv, RecordsOK
<1>6. principalInTransition' = 0
  BY <1>1, <1>3
<1>7. /\ adapter' \in Adapter /\ comet' \in Comet
      /\ adapter'.deployedPrincipalBasis = adapter.deployedPrincipalBasis + c
  <2>0. adapter.deployedPrincipalBasis \in Nat
    BY <1>5 DEF Adapter
  <2>1. CASE c = 0
    <3>1. UNCHANGED <<adapter, comet>>
      BY <1>1, <2>1 DEF FinalizeStrategyDeployment, DeployAssets
    <3> QED BY <1>5, <2>0, <2>1, <3>1
  <2>2. CASE c # 0
    <3>1. /\ comet' = Supplied(c)
          /\ adapter' = Snapshot(adapter.deployedPrincipalBasis + c, Supplied(c))
      BY <1>1, <2>2 DEF FinalizeStrategyDeployment, DeployAssets
    <3>2. Supplied(c) \in Comet
      BY <1>1, <1>5, PositionType
    <3>3. adapter.deployedPrincipalBasis + c \in Nat
      BY <1>1, <2>0
    <3> QED BY <1>5, <3>1, <3>2, <3>3, SnapshotType
  <2> QED BY <2>1, <2>2
<1>8. BucketsOK'
  <2>1. deployedPrincipal + c \in Nat
    BY <1>1, <1>2 DEF BucketsOK
  <2> QED BY <1>2, <1>3, <1>6, <2>1 DEF BucketsOK
<1>9. PrincipalConserved'
  BY <1>2, <1>3, <1>6 DEF BucketsOK, PrincipalConserved
<1>10. HoldingsBacked'
  BY <1>2, <1>3 DEF HoldingsBacked
<1>11. RecordsOK'
  <2>1. epoch' \in StrategyEpoch
    BY <1>1, <1>4, <1>5, EpochType DEF StrategyEpochState
  <2>2. unwrapRequest' \in [pending : BOOLEAN, amount : Nat]
    BY <1>4 DEF NoRequest
  <2> QED BY <1>4, <1>7, <2>1, <2>2 DEF StrategyInv, RecordsOK
<1>12. BurnRecoverable' /\ RequestIdle'
  BY <1>4, <1>5, <1>6 DEF BurnRecoverable, RequestIdle, NoRequest, StrategyEpoch
<1>13. BasisInStep'
  BY <1>3, <1>7 DEF StrategyInv, BasisInStep
<1> QED BY <1>8, <1>9, <1>10, <1>11, <1>12, <1>13 DEF StrategyInv

\* finalizeStrategyReplenishment preserves the invariant: the adapter's own
\* check against its basis keeps the encrypted deployed principal from wrapping,
\* however old the published amount is.
LEMMA FinalizeReplenishmentInv ==
  ASSUME StrategyInv, FinalizeStrategyReplenishment
  PROVE  StrategyInv'
<1> DEFINE c == epoch.amount
           basis == adapter.deployedPrincipalBasis
<1>1. epoch \in StrategyEpoch /\ adapter \in Adapter /\ comet \in Comet
  BY DEF StrategyInv, RecordsOK
<1>2. BucketsOK /\ PrincipalConserved /\ HoldingsBacked
  BY DEF StrategyInv
<1>3. /\ c \in Nat /\ basis \in Nat /\ deployedPrincipal = basis
      /\ c <= basis /\ c <= comet.balance
  BY <1>1 DEF StrategyInv, BasisInStep, StrategyEpoch, Adapter, FinalizeStrategyReplenishment,
     WithdrawPrincipal, CometPays
<1>4. /\ UNCHANGED <<totalPrincipal, principalInTransition, strategyShortfall, liquidPrizeAssets,
                     uncommittedYield, publicUncommittedYield>>
      /\ deployedPrincipal' = deployedPrincipal - c
      /\ liquidPrincipal' = liquidPrincipal + c
      /\ assetBalance' = assetBalance + c
  BY DEF FinalizeStrategyReplenishment, yieldVars
<1>5. /\ UNCHANGED <<activeStrategyEpochId, unwrapRequest>>
      /\ epoch' = [epoch EXCEPT !.publicAmount = c, !.state = "COMPLETED"]
      /\ epoch.state = "AMOUNT_PENDING"
  BY DEF FinalizeStrategyReplenishment
<1>6. /\ adapter' \in Adapter /\ comet' \in Comet
      /\ adapter'.deployedPrincipalBasis = basis - c
  <2>1. comet' = Withdrawn(c) /\ adapter' = Snapshot(basis - c, Withdrawn(c))
    BY DEF FinalizeStrategyReplenishment, WithdrawPrincipal
  <2>2. Withdrawn(c) \in Comet
    BY <1>1, <1>3, PositionType
  <2>3. basis - c \in Nat
    BY <1>3
  <2> QED BY <1>1, <2>1, <2>2, <2>3, SnapshotType
<1>7. BucketsOK'
  <2>1. deployedPrincipal - c \in Nat
    BY <1>3
  <2>2. liquidPrincipal + c \in Nat /\ assetBalance + c \in Nat
    BY <1>2, <1>3 DEF BucketsOK
  <2> QED BY <1>2, <1>4, <2>1, <2>2 DEF BucketsOK
<1>8. PrincipalConserved'
  BY <1>2, <1>3, <1>4 DEF BucketsOK, PrincipalConserved
<1>9. HoldingsBacked'
  <2>1. assetBalance + c = (liquidPrincipal + c) + liquidPrizeAssets
    BY <1>2, <1>3 DEF BucketsOK, HoldingsBacked
  <2> QED BY <1>2, <1>4, <2>1 DEF HoldingsBacked
<1>10. RecordsOK'
  <2>1. epoch' \in StrategyEpoch
    BY <1>1, <1>3, <1>5, EpochType DEF StrategyEpochState
  <2> QED BY <1>5, <1>6, <2>1 DEF StrategyInv, RecordsOK
<1>11. BurnRecoverable' /\ RequestIdle'
  BY <1>1, <1>4, <1>5 DEF StrategyInv, BurnRecoverable, RequestIdle, StrategyEpoch
<1>12. BasisInStep'
  BY <1>3, <1>4, <1>6 DEF BasisInStep
<1> QED BY <1>7, <1>8, <1>9, <1>10, <1>11, <1>12 DEF StrategyInv

\* What a step books as yield is added to the prize assets, the encrypted and
\* the public yield alike.
LEMMA BookYieldFacts ==
  ASSUME NEW surplus, BookYield(surplus)
  PROVE  /\ uncommittedYield' = uncommittedYield + surplus
         /\ liquidPrizeAssets' = liquidPrizeAssets + surplus
         /\ publicUncommittedYield' = publicUncommittedYield + surplus
  BY DEF BookYield

\* harvestStrategyYield preserves the invariant.
LEMMA HarvestInv ==
  ASSUME StrategyInv, HarvestStrategyYield
  PROVE  StrategyInv'
<1> DEFINE basis == adapter.deployedPrincipalBasis
<1>1. adapter \in Adapter /\ comet \in Comet
  BY DEF StrategyInv, RecordsOK
<1>2. BucketsOK /\ PrincipalConserved /\ HoldingsBacked
  BY DEF StrategyInv
<1>3. Surplus \in Nat /\ Surplus <= comet.balance /\ basis \in Nat
  BY <1>1 DEF HarvestStrategyYield, Harvest, Surplus, Adapter, Comet
<1>4. /\ UNCHANGED <<totalPrincipal, liquidPrincipal, deployedPrincipal, principalInTransition,
                     strategyShortfall>>
      /\ assetBalance' = assetBalance + Surplus
  BY DEF HarvestStrategyYield, poolVars
<1>5. /\ uncommittedYield' = uncommittedYield + Surplus
      /\ liquidPrizeAssets' = liquidPrizeAssets + Surplus
      /\ publicUncommittedYield' = publicUncommittedYield + Surplus
  BY BookYieldFacts DEF HarvestStrategyYield
<1>6. UNCHANGED <<activeStrategyEpochId, epoch, unwrapRequest>>
  BY DEF HarvestStrategyYield, epochVars
<1>7. /\ adapter' \in Adapter /\ comet' \in Comet
      /\ adapter'.deployedPrincipalBasis = basis
  <2>1. comet' = Withdrawn(Surplus) /\ adapter' = Snapshot(basis, Withdrawn(Surplus))
    BY DEF HarvestStrategyYield, Harvest
  <2>2. Withdrawn(Surplus) \in Comet
    BY <1>1, <1>3, PositionType
  <2> QED BY <1>1, <1>3, <2>1, <2>2, SnapshotType
<1>8. BucketsOK'
  <2>1. /\ uncommittedYield + Surplus \in Nat /\ liquidPrizeAssets + Surplus \in Nat
        /\ publicUncommittedYield + Surplus \in Nat /\ assetBalance + Surplus \in Nat
    BY <1>2, <1>3 DEF BucketsOK
  <2> QED BY <1>2, <1>4, <1>5, <2>1 DEF BucketsOK
<1>9. HoldingsBacked'
  <2>1. assetBalance + Surplus = liquidPrincipal + (liquidPrizeAssets + Surplus)
    BY <1>2, <1>3 DEF BucketsOK, HoldingsBacked
  <2>2. uncommittedYield = liquidPrizeAssets /\ uncommittedYield = publicUncommittedYield
    BY <1>2 DEF HoldingsBacked
  <2> QED BY <1>4, <1>5, <2>1, <2>2 DEF HoldingsBacked
<1>10. PrincipalConserved'
  BY <1>2, <1>4 DEF PrincipalConserved
<1>11. RecordsOK' /\ BurnRecoverable' /\ RequestIdle'
  BY <1>4, <1>6, <1>7 DEF StrategyInv, RecordsOK, BurnRecoverable, RequestIdle
<1>12. BasisInStep'
  BY <1>4, <1>7 DEF StrategyInv, BasisInStep
<1> QED BY <1>8, <1>9, <1>10, <1>11, <1>12 DEF StrategyInv

\* An unwind splits the basis into what comes back as principal and what is
\* recorded as lost, and never takes more than it recovered.
LEMMA ExitSplit ==
  ASSUME adapter \in Adapter, comet \in Comet
  PROVE  /\ Recovered \in Nat /\ PrincipalRecovered \in Nat /\ ExitShortfall \in Nat
         /\ Recovered = comet.balance
         /\ PrincipalRecovered <= Recovered
         /\ PrincipalRecovered + ExitShortfall = adapter.deployedPrincipalBasis
<1>1. adapter.deployedPrincipalBasis \in Nat /\ comet.balance \in Nat
  BY DEF Adapter, Comet
<1>2. Recovered = comet.balance
  BY DEF Recovered, NothingManaged
<1> QED BY <1>1, <1>2 DEF PrincipalRecovered, ExitShortfall

\* emergencyUnwindStrategy preserves the invariant, in whatever state the
\* active epoch is.
LEMMA UnwindInv ==
  ASSUME StrategyInv, EmergencyUnwindStrategy
  PROVE  StrategyInv'
<1> DEFINE basis == adapter.deployedPrincipalBasis
           surplus == Recovered - PrincipalRecovered
<1>1. adapter \in Adapter /\ comet \in Comet
  BY DEF StrategyInv, RecordsOK
<1>2. BucketsOK /\ PrincipalConserved /\ HoldingsBacked
  BY DEF StrategyInv
<1>3. /\ Recovered \in Nat /\ PrincipalRecovered \in Nat /\ ExitShortfall \in Nat
      /\ Recovered = comet.balance
      /\ surplus \in Nat
      /\ deployedPrincipal = PrincipalRecovered + ExitShortfall
  <2>1. deployedPrincipal = basis
    BY DEF StrategyInv, BasisInStep
  <2> QED BY <1>1, <2>1, ExitSplit
<1>4. /\ UNCHANGED <<totalPrincipal, principalInTransition>>
      /\ liquidPrincipal' = liquidPrincipal + PrincipalRecovered
      /\ deployedPrincipal' = 0
      /\ strategyShortfall' = strategyShortfall + ExitShortfall
      /\ assetBalance' = assetBalance + Recovered
  BY DEF EmergencyUnwindStrategy
<1>5. /\ uncommittedYield' = uncommittedYield + surplus
      /\ liquidPrizeAssets' = liquidPrizeAssets + surplus
      /\ publicUncommittedYield' = publicUncommittedYield + surplus
  BY BookYieldFacts DEF EmergencyUnwindStrategy
<1>6. UNCHANGED <<activeStrategyEpochId, epoch, unwrapRequest>>
  BY DEF EmergencyUnwindStrategy, epochVars
<1>7. /\ adapter' \in Adapter /\ comet' \in Comet
      /\ adapter'.deployedPrincipalBasis = 0
  <2>1. adapter' = Snapshot(0, comet') /\ (comet' = comet \/ comet' = Withdrawn(Recovered))
    BY DEF EmergencyUnwindStrategy, EmergencyExit
  <2>2. Recovered <= comet.balance
    BY <1>3
  <2>3. comet' \in Comet
    BY <1>1, <1>3, <2>1, <2>2, PositionType
  <2> QED BY <1>1, <2>1, <2>3, SnapshotType
<1>8. BucketsOK'
  <2>1. /\ uncommittedYield + surplus \in Nat /\ liquidPrizeAssets + surplus \in Nat
        /\ publicUncommittedYield + surplus \in Nat
    BY <1>2, <1>3 DEF BucketsOK
  <2>2. /\ liquidPrincipal + PrincipalRecovered \in Nat /\ assetBalance + Recovered \in Nat
        /\ strategyShortfall + ExitShortfall \in Nat
    BY <1>2, <1>3 DEF BucketsOK
  <2> QED BY <1>2, <1>4, <1>5, <2>1, <2>2 DEF BucketsOK
<1>9. HoldingsBacked'
  <2>1. assetBalance + Recovered
          = (liquidPrincipal + PrincipalRecovered) + (liquidPrizeAssets + surplus)
    <3>1. liquidPrincipal \in Nat /\ liquidPrizeAssets \in Nat
          /\ assetBalance = liquidPrincipal + liquidPrizeAssets
      BY <1>2 DEF BucketsOK, HoldingsBacked
    <3> QED BY <1>3, <3>1
  <2>2. uncommittedYield = liquidPrizeAssets /\ uncommittedYield = publicUncommittedYield
    BY <1>2 DEF HoldingsBacked
  <2> QED BY <1>4, <1>5, <2>1, <2>2 DEF HoldingsBacked
<1>10. PrincipalConserved'
  <2>1. liquidPrincipal + deployedPrincipal + principalInTransition + strategyShortfall
          = (liquidPrincipal + PrincipalRecovered) + 0 + principalInTransition
              + (strategyShortfall + ExitShortfall)
    <3>1. /\ liquidPrincipal \in Nat /\ principalInTransition \in Nat
          /\ strategyShortfall \in Nat
      BY <1>2 DEF BucketsOK
    <3> QED BY <1>3, <3>1
  <2> QED BY <1>2, <1>4, <2>1 DEF PrincipalConserved
<1>11. RecordsOK' /\ BurnRecoverable' /\ RequestIdle'
  BY <1>4, <1>6, <1>7 DEF StrategyInv, RecordsOK, BurnRecoverable, RequestIdle
<1>12. BasisInStep'
  BY <1>4, <1>7 DEF BasisInStep
<1> QED BY <1>8, <1>9, <1>10, <1>11, <1>12 DEF StrategyInv

\* Every step of the strategy preserves the invariant.
LEMMA StrategyNextInv ==
  ASSUME StrategyInv, [StrategyNext]_strategyVars
  PROVE  StrategyInv'
<1>1. CASE SaverStep
  BY <1>1, SaverInv
<1>2. CASE EpochStep
  BY <1>2, IdleEpochInv, RequestDeploymentInv, FinalizeDeploymentInv, FinalizeReplenishmentInv,
     CancelDeploymentInv DEF EpochStep
<1>3. CASE YieldStep
  BY <1>3, HarvestInv, UnwindInv DEF YieldStep
<1>4. CASE PauseStep \/ MarketStep
  BY <1>4, MarketInv
<1>5. CASE UNCHANGED strategyVars
  <2>1. UNCHANGED <<totalPrincipal, liquidPrincipal, deployedPrincipal, principalInTransition,
                    strategyShortfall, liquidPrizeAssets, uncommittedYield, publicUncommittedYield,
                    assetBalance, activeStrategyEpochId, epoch, unwrapRequest, adapter, comet>>
    BY <1>5 DEF strategyVars, poolVars, yieldVars, epochVars, marketVars
  <2> QED BY <2>1 DEF StrategyInv, BucketsOK, RecordsOK, PrincipalConserved, BasisInStep,
             BurnRecoverable, HoldingsBacked, RequestIdle
<1> QED BY <1>1, <1>2, <1>3, <1>4, <1>5 DEF StrategyNext

\* In every behaviour of the strategy epochs, the adapter, the market and the
\* guardian, the inductive invariant holds.
THEOREM StrategyInvariant == StrategySpec => []StrategyInv
<1>1. StrategyInit => StrategyInv
  BY StrategyInitInv
<1>2. StrategyInv /\ [StrategyNext]_strategyVars => StrategyInv'
  BY StrategyNextInv
<1> QED BY <1>1, <1>2, PTL DEF StrategySpec

\* No encrypted bucket of the vault ever wraps in a strategy handler.
THEOREM StrategyTypeCorrect == StrategySpec => []StrategyTypeOK
<1>1. StrategyInv => StrategyTypeOK
  BY DEF StrategyInv, StrategyTypeOK
<1> QED BY <1>1, StrategyInvariant, PTL

\* The liability to savers is always liquid, deployed, in transition or lost.
THEOREM StrategyConserves == StrategySpec => []PrincipalConserved
<1>1. StrategyInv => PrincipalConserved
  BY DEF StrategyInv
<1> QED BY <1>1, StrategyInvariant, PTL

\* Vault and adapter agree about the deployed principal after every transaction.
THEOREM StrategyBasisAgrees == StrategySpec => []BasisInStep
<1>1. StrategyInv => BasisInStep
  BY DEF StrategyInv
<1> QED BY <1>1, StrategyInvariant, PTL

\* Burned principal stays claimable from the wrapper until its epoch ends.
THEOREM StrategyBurnsRecover == StrategySpec => []BurnRecoverable
<1>1. StrategyInv => BurnRecoverable
  BY DEF StrategyInv
<1> QED BY <1>1, StrategyInvariant, PTL

\* The vault holds what it books.
THEOREM StrategyBacked == StrategySpec => []HoldingsBacked
<1>1. StrategyInv => HoldingsBacked
  BY DEF StrategyInv
<1> QED BY <1>1, StrategyInvariant, PTL

-----------------------------------------------------------------------------
(* What a step may do. *)

\* Only a harvest and an unwind touch the prize assets and the recorded loss.
LEMMA OnlyYieldSteps ==
  ASSUME [StrategyNext]_strategyVars, ~YieldStep
  PROVE  UNCHANGED <<liquidPrizeAssets, strategyShortfall>>
<1>1. CASE SaverStep
  BY <1>1 DEF SaverStep, Deposit, Withdraw, yieldVars
<1>2. CASE EpochStep
  BY <1>2 DEF EpochStep, OpenStrategyEpoch, RequestDeployment, RequestReplenishment,
     FinalizeStrategyDeployment, FinalizeStrategyReplenishment, CancelAgingStrategyEpoch,
     CancelExpiredReplenishment, CancelExpiredDeployment, Tick, poolVars, yieldVars
<1>3. CASE PauseStep \/ MarketStep
  BY <1>3 DEF PauseStep, MarketStep, SetStrategyPaused, OnlyComet, AddYield, ImposeLoss,
     DonatePosition, SetCometPaused, SetMarketConfiguration, poolVars, yieldVars
<1>4. CASE UNCHANGED strategyVars
  BY <1>4 DEF strategyVars, poolVars, yieldVars
<1> QED BY <1>1, <1>2, <1>3, <1>4 DEF StrategyNext

\* Whatever becomes prize money was above the principal basis of the adapter.
THEOREM StrategyPrizesAreSurplus == StrategySpec => OnlySurplusIsPrize
<1> DEFINE Step == liquidPrizeAssets' > liquidPrizeAssets =>
                     liquidPrizeAssets' - liquidPrizeAssets
                       <= comet.balance - adapter.deployedPrincipalBasis
<1>1. ASSUME StrategyInv, [StrategyNext]_strategyVars
      PROVE  Step
  <2>0. /\ liquidPrizeAssets \in Nat /\ adapter \in Adapter /\ comet \in Comet
        /\ adapter.deployedPrincipalBasis \in Nat /\ comet.balance \in Nat
    BY <1>1 DEF StrategyInv, BucketsOK, RecordsOK, Adapter, Comet
  <2>1. CASE HarvestStrategyYield
    <3>1. liquidPrizeAssets' = liquidPrizeAssets + Surplus
      BY <2>1, BookYieldFacts DEF HarvestStrategyYield
    <3> QED BY <2>0, <3>1 DEF Surplus
  <2>2. CASE EmergencyUnwindStrategy
    <3>1. liquidPrizeAssets' = liquidPrizeAssets + (Recovered - PrincipalRecovered)
      BY <2>2, BookYieldFacts DEF EmergencyUnwindStrategy
    <3>2. Recovered = comet.balance
      BY <2>0, ExitSplit
    <3> QED BY <2>0, <3>1, <3>2 DEF PrincipalRecovered
  <2>3. CASE ~YieldStep
    BY <1>1, <2>0, <2>3, OnlyYieldSteps
  <2> QED BY <2>1, <2>2, <2>3 DEF YieldStep
<1>2. StrategyInv /\ [StrategyNext]_strategyVars => [Step]_strategyVars
  BY <1>1
<1> QED BY <1>2, StrategyInvariant, PTL DEF StrategySpec, OnlySurplusIsPrize

\* The recorded loss grows only in an unwind under pause, by the market's
\* shortfall, and leaves the liability to savers alone.
THEOREM StrategyLossesAreReal == StrategySpec => LossIsReal
<1> DEFINE Step == strategyShortfall' # strategyShortfall =>
                     /\ adapter.paused
                     /\ totalPrincipal' = totalPrincipal
                     /\ strategyShortfall' - strategyShortfall = CurrentShortfall
<1>1. ASSUME StrategyInv, [StrategyNext]_strategyVars
      PROVE  Step
  <2>0. /\ strategyShortfall \in Nat /\ adapter \in Adapter /\ comet \in Comet
        /\ adapter.deployedPrincipalBasis \in Nat /\ comet.balance \in Nat
    BY <1>1 DEF StrategyInv, BucketsOK, RecordsOK, Adapter, Comet
  <2>1. CASE HarvestStrategyYield
    BY <2>1 DEF HarvestStrategyYield, poolVars
  <2>2. CASE EmergencyUnwindStrategy
    <3>1. /\ adapter.paused /\ totalPrincipal' = totalPrincipal
          /\ strategyShortfall' = strategyShortfall + ExitShortfall
      BY <2>2 DEF EmergencyUnwindStrategy, EmergencyExit
    <3>2. ExitShortfall \in Nat /\ ExitShortfall = CurrentShortfall
      BY <2>0, ExitSplit DEF ExitShortfall, CurrentShortfall
    <3>3. (strategyShortfall + ExitShortfall) - strategyShortfall = ExitShortfall
      BY <2>0, <3>2
    <3> QED BY <3>1, <3>2, <3>3
  <2>3. CASE ~YieldStep
    BY <1>1, <2>3, OnlyYieldSteps
  <2> QED BY <2>1, <2>2, <2>3 DEF YieldStep
<1>2. StrategyInv /\ [StrategyNext]_strategyVars => [Step]_strategyVars
  BY <1>1
<1> QED BY <1>2, StrategyInvariant, PTL DEF StrategySpec, LossIsReal
=============================================================================
