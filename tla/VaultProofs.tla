---------------------------- MODULE VaultProofs ----------------------------
(***************************************************************************)
(* What the settlement-bond escrow, and the LeopoldVault built on it, keep *)
(* true for every number of rounds, savers, amounts and times, and for     *)
(* every bond and reward the constructor accepts.                          *)
(*                                                                         *)
(* The escrow's inductive invariant is EscrowInv.  LiabilitiesAreBacked is *)
(* not inductive alone: that a finalization takes exactly Unresolved(r)    *)
(* out of the unresolved total needs LedgerShape, the arithmetic of each   *)
(* round's own ledger.                                                     *)
(*                                                                         *)
(* On top of the shape of the vault's state: tickets are unbiased, the     *)
(* money is all accounted for, and the composition implements the bond     *)
(* escrow; the aggregate of a round is the sum of its participants'        *)
(* time-weighted balances, what a closed round will be settled with never  *)
(* changes, and the selection finds exactly one winner.                    *)
(***************************************************************************)
EXTENDS LeopoldVault, FiniteSetTheorems, TLAPS

-----------------------------------------------------------------------------
(* What the running totals of a ledger rest on: how Sum moves when one entry *)
(* of a mapping changes, and that no entry exceeds the total.                *)

\* The units of a mapping over a finite set are finite, so its total is a number.
LEMMA SumType ==
  ASSUME NEW S, IsFiniteSet(S), NEW f \in [S -> Nat]
  PROVE  /\ IsFiniteSet(Tokens(f))
         /\ Sum(f) \in Nat
<1> DEFINE g == [x \in S |-> {x} \X (1..f[x])]
           T == {g[x] : x \in S}
<1>1. g \in Surjection(S, T)
  BY DEF Surjection
<1>2. IsFiniteSet(T)
  BY <1>1, FS_Surjection
<1>3. ASSUME NEW U \in T PROVE IsFiniteSet(U)
  <2>1. PICK x \in S : U = {x} \X (1..f[x])
    OBVIOUS
  <2>2. IsFiniteSet({x})
    BY FS_Singleton
  <2>3. f[x] \in Int /\ 1 \in Int
    OBVIOUS
  <2>4. IsFiniteSet(1..f[x])
    BY <2>3, FS_Interval
  <2> QED BY <2>1, <2>2, <2>4, FS_Product
<1>4. IsFiniteSet(UNION T)
  <2> HIDE DEF T
  <2> QED BY <1>2, <1>3, FS_UNION
<1>5. Tokens(f) = UNION T
  BY DEF Tokens
<1>6. IsFiniteSet(Tokens(f))
  BY <1>4, <1>5
<1> QED BY <1>6, FS_CardinalityType DEF Sum

\* A token is an argument of f and a number up to what f gives it.
LEMMA TokenMember ==
  ASSUME NEW S, NEW f \in [S -> Nat], NEW t
  PROVE  t \in Tokens(f) <=> \E x \in S : \E i \in 1..f[x] : t = <<x, i>>
BY DEF Tokens

\* Setting one entry adds its new value to the total of all the other entries.
LEMMA SumSet ==
  ASSUME NEW S, IsFiniteSet(S), NEW f \in [S -> Nat], NEW x \in S, NEW v \in Nat
  PROVE  Sum([f EXCEPT ![x] = v]) = Sum([f EXCEPT ![x] = 0]) + v
<1> DEFINE g == [f EXCEPT ![x] = v]
           z == [f EXCEPT ![x] = 0]
           C == {x} \X (1..v)
<1>1. g \in [S -> Nat] /\ z \in [S -> Nat]
  OBVIOUS
<1>2. IsFiniteSet(C) /\ Cardinality(C) = v
  <2>1. IsFiniteSet({x}) /\ Cardinality({x}) = 1
    BY FS_Singleton
  <2>2. IsFiniteSet(1..v) /\ Cardinality(1..v) = v
    BY FS_Interval
  <2>3. ASSUME NEW A, NEW B, IsFiniteSet(A), IsFiniteSet(B)
        PROVE  IsFiniteSet(A \X B) /\ Cardinality(A \X B) = Cardinality(A) * Cardinality(B)
    BY <2>3, FS_Product
  <2>4. IsFiniteSet({x} \X (1..v)) /\ Cardinality({x} \X (1..v)) = 1 * v
    BY <2>1, <2>2, <2>3, ZenonT(40)
  <2> QED BY <2>4
<1>3. Tokens(g) = Tokens(z) \cup C
  <2>1. ASSUME NEW t PROVE t \in Tokens(g) <=> t \in Tokens(z) \/ t \in C
    <3>1. t \in Tokens(g) <=> \E y \in S : \E i \in 1..g[y] : t = <<y, i>>
      <4> HIDE DEF g
      <4> QED BY <1>1, TokenMember
    <3>2. t \in Tokens(z) <=> \E y \in S : \E i \in 1..z[y] : t = <<y, i>>
      <4> HIDE DEF z
      <4> QED BY <1>1, TokenMember
    <3>3. t \in C <=> \E i \in 1..v : t = <<x, i>>
      OBVIOUS
    <3>4. g[x] = v /\ z[x] = 0 /\ \A y \in S \ {x} : g[y] = z[y]
      OBVIOUS
    <3> HIDE DEF g, z, C
    <3> QED BY <3>1, <3>2, <3>3, <3>4
  <2> QED BY <2>1
<1>4. Tokens(z) \cap C = {}
  <2>1. ASSUME NEW t \in Tokens(z), t \in C PROVE FALSE
    <3>1. PICK y \in S : \E i \in 1..z[y] : t = <<y, i>>
      <4> HIDE DEF z
      <4> QED BY <1>1, TokenMember, <2>1
    <3>2. t[1] = x
      BY <2>1
    <3> QED BY <3>1, <3>2
  <2> QED BY <2>1
<1>5. IsFiniteSet(Tokens(z))
  BY <1>1, SumType
<1>6. Sum(g) = Cardinality(Tokens(z)) + Cardinality(C) - Cardinality(Tokens(z) \cap C)
  <2> HIDE DEF C, z, g
  <2> QED BY <1>2, <1>3, <1>5, FS_Union DEF Sum
<1>7. Cardinality(Tokens(z) \cap C) = 0
  BY <1>4, FS_EmptySet
<1>8. Cardinality(Tokens(z)) \in Nat
  BY <1>5, FS_CardinalityType
<1> HIDE DEF C, z, g
<1>9. Sum(g) = Sum(z) + v
  BY <1>2, <1>6, <1>7, <1>8 DEF Sum
<1> QED BY <1>9 DEF g, z

\* A total moves by exactly what one of its entries moves.
THEOREM SumUpdate ==
  ASSUME NEW S, IsFiniteSet(S), NEW f \in [S -> Nat], NEW x \in S, NEW v \in Nat
  PROVE  /\ Sum([f EXCEPT ![x] = v]) = Sum(f) - f[x] + v
         /\ Sum([f EXCEPT ![x] = v]) \in Nat
         /\ f[x] <= Sum(f)
         /\ Sum(f) \in Nat
<1> DEFINE z == [f EXCEPT ![x] = 0]
           g == [f EXCEPT ![x] = v]
<1>1. z \in [S -> Nat] /\ g \in [S -> Nat] /\ f[x] \in Nat
  OBVIOUS
<1>2. Sum(z) \in Nat /\ Sum(g) \in Nat /\ Sum(f) \in Nat
  <2> HIDE DEF z, g
  <2> QED BY <1>1, SumType
<1>3. Sum(g) = Sum(z) + v
  BY SumSet
<1>4. [f EXCEPT ![x] = f[x]] = f
  OBVIOUS
<1>5. Sum([f EXCEPT ![x] = f[x]]) = Sum(z) + f[x]
  BY <1>1, SumSet, ZenonT(40)
<1>6. Sum(f) = Sum(z) + f[x]
  BY <1>4, <1>5
<1> HIDE DEF z, g
<1>7. Sum(g) = Sum(f) - f[x] + v /\ f[x] <= Sum(f)
  BY <1>1, <1>2, <1>3, <1>6
<1> QED BY <1>2, <1>7 DEF g

\* The same for two mappings that differ at x at most.
THEOREM SumMove ==
  ASSUME NEW S, IsFiniteSet(S), NEW f \in [S -> Nat], NEW g \in [S -> Nat], NEW x \in S,
         \A y \in S \ {x} : g[y] = f[y]
  PROVE  /\ Sum(g) = Sum(f) - f[x] + g[x]
         /\ f[x] <= Sum(f)
         /\ Sum(f) \in Nat
         /\ Sum(g) \in Nat
<1>1. g = [f EXCEPT ![x] = g[x]]
  OBVIOUS
<1>2. g[x] \in Nat
  OBVIOUS
<1> QED BY <1>1, <1>2, SumUpdate, SumType

\* The total of a mapping that is zero everywhere is zero.
THEOREM SumZero ==
  ASSUME NEW S, NEW f \in [S -> Nat], \A x \in S : f[x] = 0
  PROVE  Sum(f) = 0
<1>1. Tokens(f) = {}
  <2>1. ASSUME NEW t \in Tokens(f) PROVE FALSE
    <3>1. PICK y \in S : \E i \in 1..f[y] : t = <<y, i>>
      BY TokenMember, <2>1
    <3> QED BY <3>1
  <2> QED BY <2>1
<1> QED BY <1>1, FS_EmptySet DEF Sum

\* The sum over a set is the sum over any part of it outside which all is zero.
THEOREM SumRestrict ==
  ASSUME NEW S, NEW f \in [S -> Nat], NEW T \in SUBSET S, \A x \in S \ T : f[x] = 0
  PROVE  Sum([x \in T |-> f[x]]) = Sum(f)
<1> DEFINE g == [x \in T |-> f[x]]
<1>1. g \in [T -> Nat] /\ \A x \in T : g[x] = f[x]
  OBVIOUS
<1>2. ASSUME NEW t PROVE t \in Tokens(g) <=> t \in Tokens(f)
  <2> HIDE DEF g
  <2>1. t \in Tokens(g) <=> \E x \in T : \E i \in 1..g[x] : t = <<x, i>>
    BY <1>1, TokenMember
  <2>2. t \in Tokens(f) <=> \E x \in S : \E i \in 1..f[x] : t = <<x, i>>
    BY TokenMember
  <2>3. \A x \in S : x \notin T => \A i \in 1..f[x] : FALSE
    OBVIOUS
  <2> QED BY <1>1, <2>1, <2>2, <2>3
<1>3. Tokens(g) = Tokens(f)
  BY <1>2
<1> QED BY <1>3 DEF Sum

\* Adding two mappings entry by entry adds their sums.
THEOREM SumAdd ==
  ASSUME NEW S, IsFiniteSet(S), NEW f \in [S -> Nat], NEW g \in [S -> Nat]
  PROVE  Sum([x \in S |-> f[x] + g[x]]) = Sum(f) + Sum(g)
<1> DEFINE h == [x \in S |-> f[x] + g[x]]
           shift == [t \in Tokens(g) |-> <<t[1], f[t[1]] + t[2]>>]
           C == {shift[t] : t \in Tokens(g)}
<1>1. h \in [S -> Nat] /\ \A x \in S : h[x] = f[x] + g[x] /\ f[x] \in Nat /\ g[x] \in Nat
  OBVIOUS
<1>2. IsFiniteSet(Tokens(f)) /\ IsFiniteSet(Tokens(g))
  BY SumType
<1>3. ASSUME NEW x \in S, NEW i \in 1..g[x]
      PROVE  <<x, i>> \in Tokens(g) /\ shift[<<x, i>>] = <<x, f[x] + i>>
  <2>1. <<x, i>> \in Tokens(g)
    BY TokenMember
  <2> QED BY <2>1
<1>4. \A t \in Tokens(g) : \E x \in S : \E i \in 1..g[x] : t = <<x, i>>
  BY TokenMember
<1>5. shift \in Bijection(Tokens(g), C)
  <2>1. shift \in [Tokens(g) -> C]
    OBVIOUS
  <2>2. ASSUME NEW s \in Tokens(g), NEW t \in Tokens(g), shift[s] = shift[t] PROVE s = t
    <3>1. PICK x \in S : \E i \in 1..g[x] : s = <<x, i>>
      BY <1>4
    <3>2. PICK i \in 1..g[x] : s = <<x, i>>
      BY <3>1
    <3>3. PICK y \in S : \E j \in 1..g[y] : t = <<y, j>>
      BY <1>4
    <3>4. PICK j \in 1..g[y] : t = <<y, j>>
      BY <3>3
    <3>5. shift[s] = <<x, f[x] + i>> /\ shift[t] = <<y, f[y] + j>>
      BY <1>3, <3>2, <3>4
    <3>6. <<x, f[x] + i>> = <<y, f[y] + j>>
      BY <2>2, <3>5, Zenon
    <3>7. x = y /\ f[x] + i = f[y] + j
      BY <3>6
    <3> QED BY <1>1, <3>2, <3>4, <3>7
  <2>3. \A c \in C : \E t \in Tokens(g) : shift[t] = c
    OBVIOUS
  <2> HIDE DEF C, shift
  <2> QED BY <2>1, <2>2, <2>3 DEF Bijection, Injection, Surjection, IsInjective
<1>6. IsFiniteSet(C) /\ Cardinality(C) = Sum(g)
  <2>1. ExistsBijection(Tokens(g), C)
    BY <1>5 DEF ExistsBijection
  <2> HIDE DEF C, shift
  <2> QED BY <1>2, <2>1, FS_Bijection DEF Sum
<1>7. ASSUME NEW t PROVE t \in C <=> \E x \in S : \E i \in 1..g[x] : t = <<x, f[x] + i>>
  <2>1. t \in C <=> \E s \in Tokens(g) : t = shift[s]
    OBVIOUS
  <2> HIDE DEF C, shift
  <2>2. ASSUME NEW s \in Tokens(g), t = shift[s]
        PROVE  \E x \in S : \E i \in 1..g[x] : t = <<x, f[x] + i>>
    <3>1. PICK x \in S : \E i \in 1..g[x] : s = <<x, i>>
      BY <1>4
    <3>2. PICK i \in 1..g[x] : s = <<x, i>>
      BY <3>1
    <3>3. shift[s] = <<x, f[x] + i>>
      BY <1>3, <3>2
    <3> QED BY <2>2, <3>3
  <2>3. ASSUME NEW x \in S, NEW i \in 1..g[x], t = <<x, f[x] + i>>
        PROVE  t \in C
    BY <1>3, <2>1, <2>3
  <2> QED BY <2>1, <2>2, <2>3
<1>8. Tokens(h) = Tokens(f) \cup C
  <2>1. ASSUME NEW t PROVE t \in Tokens(h) <=> t \in Tokens(f) \/ t \in C
    <3> HIDE DEF h, C
    <3>1. t \in Tokens(h) <=> \E x \in S : \E i \in 1..h[x] : t = <<x, i>>
      BY <1>1, TokenMember
    <3>2. t \in Tokens(f) <=> \E x \in S : \E i \in 1..f[x] : t = <<x, i>>
      BY TokenMember
    <3>3. ASSUME NEW x \in S, NEW i \in 1..h[x], t = <<x, i>>
          PROVE  t \in Tokens(f) \/ t \in C
      <4>1. CASE i <= f[x]
        BY <1>1, <3>2, <3>3, <4>1
      <4>2. CASE i > f[x]
        <5>1. i - f[x] \in 1..g[x] /\ i = f[x] + (i - f[x])
          BY <1>1, <4>2
        <5> QED BY <1>7, <3>3, <5>1
      <4> QED BY <1>1, <4>1, <4>2
    <3>4. ASSUME t \in Tokens(f) PROVE t \in Tokens(h)
      <4>1. PICK x \in S : \E i \in 1..f[x] : t = <<x, i>>
        BY <3>2, <3>4
      <4>2. PICK i \in 1..f[x] : t = <<x, i>>
        BY <4>1
      <4>3. i \in 1..h[x]
        BY <1>1
      <4> QED BY <3>1, <4>2, <4>3
    <3>5. ASSUME t \in C PROVE t \in Tokens(h)
      <4>1. PICK x \in S : \E i \in 1..g[x] : t = <<x, f[x] + i>>
        BY <1>7, <3>5
      <4>2. PICK i \in 1..g[x] : t = <<x, f[x] + i>>
        BY <4>1
      <4>3. f[x] + i \in 1..h[x]
        BY <1>1
      <4> QED BY <3>1, <4>2, <4>3
    <3> QED BY <3>1, <3>3, <3>4, <3>5
  <2> QED BY <2>1
<1>9. Tokens(f) \cap C = {}
  <2>1. ASSUME NEW t \in Tokens(f), t \in C PROVE FALSE
    <3> HIDE DEF C
    <3>1. PICK x \in S : \E i \in 1..f[x] : t = <<x, i>>
      BY TokenMember
    <3>2. PICK y \in S : \E i \in 1..g[y] : t = <<y, f[y] + i>>
      BY <1>7, <2>1
    <3> QED BY <1>1, <3>1, <3>2
  <2> QED BY <2>1
<1>10. Sum(h) = Cardinality(Tokens(f)) + Cardinality(C) - Cardinality(Tokens(f) \cap C)
  <2> HIDE DEF C, h
  <2> QED BY <1>2, <1>6, <1>8, FS_Union DEF Sum
<1>11. Cardinality(Tokens(f) \cap C) = 0
  BY <1>9, FS_EmptySet
<1>12. Sum(f) \in Nat /\ Sum(g) \in Nat
  BY SumType
<1> HIDE DEF C, h
<1>13. Sum(h) = Sum(f) + Sum(g)
  BY <1>6, <1>10, <1>11, <1>12 DEF Sum
<1> QED BY <1>13 DEF h

\* The sum does not depend on how the entries are numbered: s numbers, each
\* once, every x to which f gives anything.
THEOREM SumReindex ==
  ASSUME NEW D, IsFiniteSet(D), NEW S, NEW f \in [S -> Nat], NEW s \in [D -> S],
         \A i, j \in D : s[i] = s[j] => i = j,
         \A x \in S : (\A i \in D : s[i] # x) => f[x] = 0
  PROVE  Sum([i \in D |-> f[s[i]]]) = Sum(f)
<1> DEFINE g == [i \in D |-> f[s[i]]]
           move == [t \in Tokens(g) |-> <<s[t[1]], t[2]>>]
<1>1. g \in [D -> Nat] /\ \A i \in D : g[i] = f[s[i]]
  OBVIOUS
<1> HIDE DEF g
<1>2. ASSUME NEW i \in D, NEW k \in 1..g[i]
      PROVE  <<i, k>> \in Tokens(g) /\ move[<<i, k>>] = <<s[i], k>>
  <2>1. <<i, k>> \in Tokens(g)
    BY <1>1, TokenMember
  <2> QED BY <2>1
<1>3. \A t \in Tokens(g) : \E i \in D : \E k \in 1..g[i] : t = <<i, k>>
  BY <1>1, TokenMember
<1>4. ASSUME NEW t PROVE t \in Tokens(f) <=> \E x \in S : \E k \in 1..f[x] : t = <<x, k>>
  BY TokenMember
<1>5. move \in [Tokens(g) -> Tokens(f)]
  <2>1. ASSUME NEW t \in Tokens(g) PROVE move[t] \in Tokens(f)
    <3>1. PICK i \in D : \E k \in 1..g[i] : t = <<i, k>>
      BY <1>3
    <3>2. PICK k \in 1..g[i] : t = <<i, k>>
      BY <3>1
    <3>3. move[t] = <<s[i], k>> /\ s[i] \in S /\ k \in 1..f[s[i]]
      BY <1>1, <1>2, <3>2
    <3> HIDE DEF move
    <3> QED BY <1>4, <3>3
  <2>2. move = [t \in Tokens(g) |-> move[t]]
    OBVIOUS
  <2> HIDE DEF move
  <2> QED BY <2>1, <2>2
<1>6. ASSUME NEW t \in Tokens(g), NEW u \in Tokens(g), move[t] = move[u] PROVE t = u
  <2>1. PICK i \in D : \E k \in 1..g[i] : t = <<i, k>>
    BY <1>3
  <2>2. PICK k \in 1..g[i] : t = <<i, k>>
    BY <2>1
  <2>3. PICK j \in D : \E l \in 1..g[j] : u = <<j, l>>
    BY <1>3
  <2>4. PICK l \in 1..g[j] : u = <<j, l>>
    BY <2>3
  <2>5. move[t] = <<s[i], k>> /\ move[u] = <<s[j], l>>
    BY <1>2, <2>2, <2>4
  <2>6. <<s[i], k>> = <<s[j], l>>
    BY <1>6, <2>5, Zenon
  <2>7. s[i] = s[j] /\ k = l
    BY <2>6
  <2>8. i = j
    BY <2>7
  <2> QED BY <2>2, <2>4, <2>7, <2>8, Zenon
<1>7. ASSUME NEW c \in Tokens(f) PROVE \E t \in Tokens(g) : move[t] = c
  <2>1. PICK x \in S : \E k \in 1..f[x] : c = <<x, k>>
    BY <1>4
  <2>2. PICK k \in 1..f[x] : c = <<x, k>>
    BY <2>1
  <2>3. f[x] # 0
    BY <2>2
  <2>4. PICK i \in D : s[i] = x
    BY <2>3
  <2>5. k \in 1..g[i]
    BY <1>1, <2>2, <2>4
  <2>6. <<i, k>> \in Tokens(g) /\ move[<<i, k>>] = <<x, k>>
    BY <1>2, <2>4, <2>5
  <2> HIDE DEF move
  <2> QED BY <2>2, <2>6
<1> HIDE DEF move
<1>8. move \in Bijection(Tokens(g), Tokens(f))
  BY <1>5, <1>6, <1>7 DEF Bijection, Injection, Surjection, IsInjective
<1>9. IsFiniteSet(Tokens(g))
  BY <1>1, SumType
<1>10. ExistsBijection(Tokens(g), Tokens(f))
  BY <1>8 DEF ExistsBijection
<1>11. Cardinality(Tokens(f)) = Cardinality(Tokens(g))
  BY <1>9, <1>10, FS_Bijection
<1>12. Sum(g) = Sum(f)
  BY <1>11 DEF Sum
<1> QED BY <1>12 DEF g

\* A set of natural numbers has a least one: what stands in for induction here.
LEMMA LeastNatural ==
  ASSUME NEW T \in SUBSET Nat, T # {}
  PROVE  \E x \in T : \A y \in T : x <= y
<1> DEFINE R == {ss \in Nat \X Nat : ss[1] < ss[2]}
<1>1. IsWellFoundedOn(R, Nat)
  BY NatLessThanWellFounded DEF OpToRel
<1>2. PICK x \in T : \A y \in T : ~(<<y, x>> \in R)
  <2> HIDE DEF R
  <2> QED BY <1>1, WFMin, Zenon
<1>3. ASSUME NEW y \in T PROVE x <= y
  <2>1. <<y, x>> \notin R /\ y \in Nat /\ x \in Nat
    BY <1>2
  <2> QED BY <2>1
<1> QED BY <1>3

-----------------------------------------------------------------------------
(* The escrow's inductive invariant. *)

\* What the ledger L of a round says of itself, of the accounts registered in
\* it and of those that claimed their refund.
LedgerShape(L, registered, claimed) ==
  /\ L.registered = Cardinality(registered)
  /\ claimed \subseteq registered
  /\ L.deposited = L.registered * BOND_AMOUNT
  /\ L.rewardsAccrued =
       (L.selectionProcessed + L.allocationProcessed) * REWARD_PER_PARTICIPANT_PASS
  /\ L.selectionProcessed <= L.registered
  /\ L.allocationProcessed <= L.registered
  /\ ~L.finalized => claimed = {}
  /\ L.finalized =>
       /\ L.refundsAccrued = L.refundPerParticipant * L.registered
       /\ L.deposited = L.rewardsAccrued + L.refundsAccrued

AllLedgersShaped ==
  \A r \in Rounds : LedgerShape(ledger[r], isRegistered[r], refundClaimed[r])

EscrowInv ==
  /\ EscrowTypeOK
  /\ EveryWeiAccounted
  /\ AllLedgersShaped
  /\ LiabilitiesAreBacked

-----------------------------------------------------------------------------
(* Arithmetic of bonds. *)

\* A product grows with its first factor.
LEMMA ProductMonotone ==
  ASSUME NEW a \in Nat, NEW b \in Nat, NEW c \in Nat, a <= b
  PROVE  a * c <= b * c
<1>1. (b - a) * c >= 0
  OBVIOUS
<1> QED BY <1>1

\* Two passes over n participants cost at most what their n bonds hold.
LEMMA RewardsFitBonds ==
  ASSUME EscrowConfiguration,
         NEW n \in Nat, NEW s \in Nat, NEW l \in Nat, s <= n, l <= n
  PROVE  (s + l) * REWARD_PER_PARTICIPANT_PASS <= n * BOND_AMOUNT
<1> DEFINE R == REWARD_PER_PARTICIPANT_PASS
           B == BOND_AMOUNT
<1>1. R \in Nat /\ B \in Nat /\ 2 * R <= B
  BY DEF EscrowConfiguration
<1> HIDE DEF R, B
<1>2. (s + l) * R <= (2 * n) * R
  BY <1>1, ProductMonotone
<1>3. (2 * R) * n <= B * n
  BY <1>1, ProductMonotone
<1>4. (2 * n) * R = (2 * R) * n /\ B * n = n * B
  BY <1>1
<1>5. (s + l) * R \in Nat /\ (2 * n) * R \in Nat /\ n * B \in Nat
  BY <1>1
<1>6. (s + l) * R <= n * B
  BY <1>2, <1>3, <1>4, <1>5
<1> QED BY <1>6 DEF R, B

\* What a finalization refunds is what the passes left of the bonds.
LEMMA RefundIsRemainder ==
  ASSUME EscrowConfiguration,
         NEW n \in Nat
  PROVE  /\ n * RefundAfter(0) = n * BOND_AMOUNT - (0 + 0) * REWARD_PER_PARTICIPANT_PASS
         /\ n * RefundAfter(1) = n * BOND_AMOUNT - (n + 0) * REWARD_PER_PARTICIPANT_PASS
         /\ n * RefundAfter(2) = n * BOND_AMOUNT - (n + n) * REWARD_PER_PARTICIPANT_PASS
         /\ \A p \in 0..2 : RefundAfter(p) \in Nat
<1> DEFINE R == REWARD_PER_PARTICIPANT_PASS
           B == BOND_AMOUNT
<1>1. R \in Nat /\ B \in Nat /\ R * 2 < B
  BY DEF EscrowConfiguration
<1>2. RefundAfter(0) = B /\ RefundAfter(1) = B - R /\ RefundAfter(2) = B - R * 2
  BY DEF RefundAfter, REFUND_PER_COMPLETED_PARTICIPANT
<1> HIDE DEF R, B
<1>3. n * B = n * B - (0 + 0) * R /\ n * (B - R) = n * B - (n + 0) * R
      /\ n * (B - R * 2) = n * B - (n + n) * R
  BY <1>1
<1>4. \A p \in 0..2 : p = 0 \/ p = 1 \/ p = 2
  OBVIOUS
<1>5. B \in Nat /\ B - R \in Nat /\ B - R * 2 \in Nat
  BY <1>1
<1> QED BY <1>2, <1>3, <1>4, <1>5 DEF R, B

\* The two liabilities of a well-shaped ledger are natural numbers.
LEMMA LiabilityTypes ==
  ASSUME EscrowConfiguration, NEW L \in RoundLedger, NEW P \in SUBSET Accounts, NEW C,
         LedgerShape(L, P, C)
  PROVE  /\ Unresolved(L) \in Nat
         /\ IsFiniteSet(P)
         /\ Cardinality(P) \in Nat
         /\ Cardinality(P \ C) \in Nat
         /\ Unclaimed(L, P \ C) \in Nat
<1>1. /\ L.registered \in Nat /\ L.selectionProcessed \in Nat /\ L.allocationProcessed \in Nat
      /\ L.refundPerParticipant \in Nat /\ L.deposited \in Nat /\ L.rewardsAccrued \in Nat
  BY DEF RoundLedger
<1>2. L.rewardsAccrued <= L.deposited
  BY <1>1, RewardsFitBonds DEF LedgerShape
<1>3. Unresolved(L) \in Nat
  BY <1>1, <1>2 DEF Unresolved
<1>4. IsFiniteSet(P)
  BY FS_Subset DEF EscrowConfiguration
<1>5. IsFiniteSet(P \ C)
  BY <1>4, FS_Difference
<1>6. Cardinality(P) \in Nat /\ Cardinality(P \ C) \in Nat
  BY <1>4, <1>5, FS_CardinalityType
<1>7. Unclaimed(L, P \ C) \in Nat
  BY <1>1, <1>6 DEF Unclaimed
<1> QED BY <1>3, <1>4, <1>6, <1>7

-----------------------------------------------------------------------------
(* The initial state. *)

LEMMA EscrowInitInv ==
  ASSUME EscrowConfiguration, EscrowInit
  PROVE  EscrowInv
<1>1. EscrowTypeOK
  BY DEF EscrowInit, EscrowTypeOK, EmptyLedger, RoundLedger
<1>2. EveryWeiAccounted
  BY DEF EscrowInit, EveryWeiAccounted, AccountedLiability
<1>3. AllLedgersShaped
  <2> SUFFICES ASSUME NEW r \in Rounds
               PROVE  LedgerShape(ledger[r], isRegistered[r], refundClaimed[r])
    BY DEF AllLedgersShaped
  <2>1. Cardinality(isRegistered[r]) = 0
    BY FS_EmptySet DEF EscrowInit
  <2>2. 0 * BOND_AMOUNT = 0 /\ (0 + 0) * REWARD_PER_PARTICIPANT_PASS = 0
    BY DEF EscrowConfiguration
  <2>3. isRegistered[r] = {} /\ refundClaimed[r] = {}
    BY DEF EscrowInit
  <2> QED BY <2>1, <2>2, <2>3 DEF EscrowInit, EmptyLedger, LedgerShape
<1> DEFINE u == [r \in Rounds |-> Unresolved(ledger[r])]
           c == [r \in Rounds |-> Unclaimed(ledger[r], isRegistered[r] \ refundClaimed[r])]
<1>4. u \in [Rounds -> Nat] /\ \A r \in Rounds : u[r] = 0
  BY DEF EscrowInit, EmptyLedger, Unresolved
<1>5. c \in [Rounds -> Nat] /\ \A r \in Rounds : c[r] = 0
  BY DEF EscrowInit, EmptyLedger, Unclaimed
<1>6. /\ settlementRewardCredit \in [Accounts -> Nat]
      /\ \A a \in Accounts : settlementRewardCredit[a] = 0
  BY DEF EscrowInit
<1> HIDE DEF u, c
<1>7. Sum(u) = 0 /\ Sum(c) = 0 /\ Sum(settlementRewardCredit) = 0
  BY <1>4, <1>5, <1>6, SumZero
<1>8. LiabilitiesAreBacked
  BY <1>7 DEF LiabilitiesAreBacked, EscrowInit, u, c
<1> QED BY <1>1, <1>2, <1>3, <1>8 DEF EscrowInv

-----------------------------------------------------------------------------
(* Each call preserves the invariant. *)

\* The parts of the invariant, as facts the steps below use.
LEMMA EscrowInvFacts ==
  ASSUME EscrowInv
  PROVE  /\ ledger \in [Rounds -> RoundLedger]
         /\ isRegistered \in [Rounds -> SUBSET Accounts]
         /\ refundClaimed \in [Rounds -> SUBSET Accounts]
         /\ settlementRewardCredit \in [Accounts -> Nat]
         /\ \A s \in Rounds : LedgerShape(ledger[s], isRegistered[s], refundClaimed[s])
         /\ totalRewardLiability = Sum(settlementRewardCredit)
BY DEF EscrowInv, EscrowTypeOK, AllLedgersShaped, LiabilitiesAreBacked

\* A call on one round that moves its own ledger and the three totals alike
\* preserves the invariant.
LEMMA EscrowCallInv ==
  ASSUME EscrowConfiguration, EscrowInv, EscrowTypeOK', EveryWeiAccounted',
         NEW r \in Rounds,
         LedgerShape(ledger'[r], isRegistered'[r], refundClaimed'[r]),
         \A s \in Rounds \ {r} : /\ ledger'[s] = ledger[s]
                                 /\ isRegistered'[s] = isRegistered[s]
                                 /\ refundClaimed'[s] = refundClaimed[s],
         totalUnresolvedLiability' =
           totalUnresolvedLiability - Unresolved(ledger[r]) + Unresolved(ledger'[r]),
         totalRefundLiability' =
           totalRefundLiability - Unclaimed(ledger[r], isRegistered[r] \ refundClaimed[r])
             + Unclaimed(ledger'[r], isRegistered'[r] \ refundClaimed'[r]),
         totalRewardLiability' = Sum(settlementRewardCredit')
  PROVE  EscrowInv'
<1>1. /\ ledger \in [Rounds -> RoundLedger]
      /\ isRegistered \in [Rounds -> SUBSET Accounts]
      /\ refundClaimed \in [Rounds -> SUBSET Accounts]
      /\ \A s \in Rounds : LedgerShape(ledger[s], isRegistered[s], refundClaimed[s])
  BY EscrowInvFacts
<1>2. /\ ledger' \in [Rounds -> RoundLedger]
      /\ isRegistered' \in [Rounds -> SUBSET Accounts]
      /\ refundClaimed' \in [Rounds -> SUBSET Accounts]
  BY DEF EscrowTypeOK
<1> DEFINE u1 == [s \in Rounds |-> Unresolved(ledger[s])]
           u2 == [s \in Rounds |-> Unresolved(ledger'[s])]
           r1 == [s \in Rounds |-> Unclaimed(ledger[s], isRegistered[s] \ refundClaimed[s])]
           r2 == [s \in Rounds |-> Unclaimed(ledger'[s], isRegistered'[s] \ refundClaimed'[s])]
<1>3. \A s \in Rounds : LedgerShape(ledger'[s], isRegistered'[s], refundClaimed'[s])
  BY <1>1
<1>4. ASSUME NEW s \in Rounds
      PROVE  /\ Unresolved(ledger[s]) \in Nat
             /\ Unclaimed(ledger[s], isRegistered[s] \ refundClaimed[s]) \in Nat
             /\ Unresolved(ledger'[s]) \in Nat
             /\ Unclaimed(ledger'[s], isRegistered'[s] \ refundClaimed'[s]) \in Nat
  BY <1>1, <1>2, <1>3, LiabilityTypes
<1>5. u1 \in [Rounds -> Nat] /\ u2 \in [Rounds -> Nat]
  BY <1>4
<1>6. r1 \in [Rounds -> Nat] /\ r2 \in [Rounds -> Nat]
  BY <1>4
<1>7. \A s \in Rounds \ {r} : u2[s] = u1[s]
  OBVIOUS
<1>8. \A s \in Rounds \ {r} : r2[s] = r1[s]
  OBVIOUS
<1>9. /\ totalUnresolvedLiability = Sum(u1)
      /\ totalRefundLiability = Sum(r1)
      /\ totalUnresolvedLiability' = Sum(u1) - u1[r] + u2[r]
      /\ totalRefundLiability' = Sum(r1) - r1[r] + r2[r]
  BY DEF EscrowInv, LiabilitiesAreBacked
<1>10. IsFiniteSet(Rounds) /\ r \in Rounds
  BY DEF EscrowConfiguration
<1> HIDE DEF u1, u2, r1, r2
<1>11. Sum(u2) = Sum(u1) - u1[r] + u2[r]
  BY ONLY <1>5, <1>7, <1>10, SumMove
<1>12. Sum(r2) = Sum(r1) - r1[r] + r2[r]
  BY ONLY <1>6, <1>8, <1>10, SumMove
<1>13. LiabilitiesAreBacked'
  BY <1>9, <1>11, <1>12 DEF LiabilitiesAreBacked, u2, r2
<1>14. AllLedgersShaped'
  BY <1>3 DEF AllLedgersShaped
<1> QED BY <1>13, <1>14 DEF EscrowInv

LEMMA RegisterInv ==
  ASSUME EscrowConfiguration, EscrowInv, NEW r \in Rounds, NEW a \in Accounts, Register(r, a)
  PROVE  EscrowInv'
<1> DEFINE L == ledger[r]
           M == ledger'[r]
<1>1. L \in RoundLedger /\ LedgerShape(L, isRegistered[r], refundClaimed[r])
  BY EscrowInvFacts
<1>2. BOND_AMOUNT \in Nat /\ REWARD_PER_PARTICIPANT_PASS \in Nat
  BY DEF EscrowConfiguration
<1>3. EscrowTypeOK'
  BY <1>2 DEF EscrowInv, EscrowTypeOK, Register, RegisterForRound, RoundLedger
<1>4. EveryWeiAccounted'
  BY <1>2 DEF EscrowInv, EscrowTypeOK, EveryWeiAccounted, AccountedLiability, Register, RegisterForRound
<1>5. /\ M = [L EXCEPT !.registered = @ + 1, !.deposited = @ + BOND_AMOUNT]
      /\ isRegistered'[r] = isRegistered[r] \cup {a}
      /\ a \notin isRegistered[r]
      /\ refundClaimed' = refundClaimed
      /\ ~L.finalized
  BY EscrowInvFacts DEF Register, RegisterForRound
<1>6. /\ L.registered \in Nat /\ L.selectionProcessed \in Nat /\ L.allocationProcessed \in Nat
      /\ L.deposited \in Nat /\ L.rewardsAccrued \in Nat
  BY <1>1 DEF RoundLedger
<1>7. /\ M.registered = L.registered + 1 /\ M.deposited = L.deposited + BOND_AMOUNT
      /\ M.selectionProcessed = L.selectionProcessed
      /\ M.allocationProcessed = L.allocationProcessed
      /\ M.rewardsAccrued = L.rewardsAccrued /\ M.finalized = L.finalized
  BY <1>1, <1>5 DEF RoundLedger
<1>8. Cardinality(isRegistered'[r]) = L.registered + 1
  <2>1. IsFiniteSet(isRegistered[r])
    BY <1>1, LiabilityTypes, EscrowInvFacts
  <2>2. Cardinality(isRegistered[r] \cup {a}) = Cardinality(isRegistered[r]) + 1
    BY <1>5, <2>1, FS_AddElement
  <2> QED BY <1>1, <1>5, <2>2 DEF LedgerShape
<1>9. (L.registered + 1) * BOND_AMOUNT = L.registered * BOND_AMOUNT + BOND_AMOUNT
  BY <1>2, <1>6
<1>10. LedgerShape(M, isRegistered'[r], refundClaimed'[r])
  BY <1>1, <1>5, <1>6, <1>7, <1>8, <1>9 DEF LedgerShape
<1>11. \A s \in Rounds \ {r} : /\ ledger'[s] = ledger[s]
                               /\ isRegistered'[s] = isRegistered[s]
                               /\ refundClaimed'[s] = refundClaimed[s]
  BY EscrowInvFacts DEF Register, RegisterForRound
<1>12. totalUnresolvedLiability' = totalUnresolvedLiability - Unresolved(L) + Unresolved(M)
  BY <1>2, <1>5, <1>6, <1>7 DEF Unresolved, Register, RegisterForRound, EscrowInv, EscrowTypeOK
<1>13. totalRefundLiability' =
         totalRefundLiability - Unclaimed(L, isRegistered[r] \ refundClaimed[r])
           + Unclaimed(M, isRegistered'[r] \ refundClaimed'[r])
  BY <1>5, <1>7 DEF Unclaimed, Register, RegisterForRound, EscrowInv, EscrowTypeOK
<1>14. totalRewardLiability' = Sum(settlementRewardCredit')
  BY EscrowInvFacts DEF Register, RegisterForRound
<1> QED BY <1>3, <1>4, <1>10, <1>11, <1>12, <1>13, <1>14, EscrowCallInv

LEMMA CreditProgressInv ==
  ASSUME EscrowConfiguration, EscrowInv, NEW r \in Rounds, NEW a \in Accounts,
         NEW pass \in {1, 2}, NEW n \in Nat, CreditProgress(r, pass, n, a)
  PROVE  EscrowInv'
<1> DEFINE L == ledger[r]
           M == ledger'[r]
           R == REWARD_PER_PARTICIPANT_PASS
           reward == n * R
<1>1. L \in RoundLedger /\ LedgerShape(L, isRegistered[r], refundClaimed[r])
  BY EscrowInvFacts
<1>2. BOND_AMOUNT \in Nat /\ R \in Nat
  BY DEF EscrowConfiguration
<1>3. reward \in Nat
  BY <1>2
<1>4. /\ L.registered \in Nat /\ L.selectionProcessed \in Nat /\ L.allocationProcessed \in Nat
      /\ L.deposited \in Nat /\ L.rewardsAccrued \in Nat
  BY <1>1 DEF RoundLedger
<1>5. /\ M = [L EXCEPT !.selectionProcessed = IF pass = 1 THEN @ + n ELSE @,
                       !.allocationProcessed = IF pass = 2 THEN @ + n ELSE @,
                       !.rewardsAccrued = @ + reward]
      /\ isRegistered' = isRegistered /\ refundClaimed' = refundClaimed
      /\ ~L.finalized
      /\ pass = 1 => L.selectionProcessed + n <= L.registered
      /\ pass = 2 => L.allocationProcessed + n <= L.registered
      /\ totalUnresolvedLiability' = totalUnresolvedLiability - reward
      /\ totalUnresolvedLiability >= reward
      /\ totalRewardLiability' = totalRewardLiability + reward
      /\ settlementRewardCredit' =
           [settlementRewardCredit EXCEPT ![a] = settlementRewardCredit[a] + reward]
  BY EscrowInvFacts DEF CreditProgress, Processed
<1> HIDE DEF reward
<1>6. /\ M \in RoundLedger
      /\ M.registered = L.registered /\ M.deposited = L.deposited
      /\ M.selectionProcessed + M.allocationProcessed =
           L.selectionProcessed + L.allocationProcessed + n
      /\ M.selectionProcessed <= L.registered /\ M.allocationProcessed <= L.registered
      /\ M.rewardsAccrued = L.rewardsAccrued + reward /\ M.finalized = L.finalized
  <2> DEFINE sel == IF pass = 1 THEN L.selectionProcessed + n ELSE L.selectionProcessed
             alloc == IF pass = 2 THEN L.allocationProcessed + n ELSE L.allocationProcessed
             rew == L.rewardsAccrued + reward
  <2>1. M = [L EXCEPT !.selectionProcessed = sel, !.allocationProcessed = alloc,
                      !.rewardsAccrued = rew]
    BY <1>5
  <2>2. /\ sel \in Nat /\ alloc \in Nat /\ rew \in Nat
        /\ sel <= L.registered /\ alloc <= L.registered
        /\ sel + alloc = L.selectionProcessed + L.allocationProcessed + n
    BY <1>1, <1>3, <1>4, <1>5 DEF LedgerShape
  <2> HIDE DEF sel, alloc, rew
  <2>3. /\ M \in RoundLedger
        /\ M.registered = L.registered /\ M.deposited = L.deposited
        /\ M.selectionProcessed = sel /\ M.allocationProcessed = alloc
        /\ M.rewardsAccrued = rew /\ M.finalized = L.finalized
    BY <1>1, <2>1, <2>2 DEF RoundLedger
  <2> QED BY <2>2, <2>3 DEF rew
<1>7. EscrowTypeOK'
  <2>1. ledger' = [ledger EXCEPT ![r] = M]
    BY EscrowInvFacts DEF CreditProgress
  <2>2. ledger' \in [Rounds -> RoundLedger]
    BY <1>6, <2>1, EscrowInvFacts
  <2>3. settlementRewardCredit' \in [Accounts -> Nat]
    BY <1>3, <1>5, EscrowInvFacts
  <2>4. totalUnresolvedLiability' \in Nat /\ totalRewardLiability' \in Nat
    BY <1>3, <1>5 DEF EscrowInv, EscrowTypeOK
  <2> QED BY <2>2, <2>3, <2>4 DEF EscrowInv, EscrowTypeOK, CreditProgress
<1>8. EveryWeiAccounted'
  BY <1>3, <1>5 DEF EscrowInv, EscrowTypeOK, EveryWeiAccounted, AccountedLiability, CreditProgress
<1>9. (L.selectionProcessed + L.allocationProcessed + n) * R =
        (L.selectionProcessed + L.allocationProcessed) * R + reward
  BY <1>2, <1>4 DEF reward
<1>10. LedgerShape(M, isRegistered'[r], refundClaimed'[r])
  BY <1>1, <1>4, <1>5, <1>6, <1>9 DEF LedgerShape
<1>11. \A s \in Rounds \ {r} : /\ ledger'[s] = ledger[s]
                               /\ isRegistered'[s] = isRegistered[s]
                               /\ refundClaimed'[s] = refundClaimed[s]
  BY EscrowInvFacts DEF CreditProgress
<1>12. totalUnresolvedLiability' = totalUnresolvedLiability - Unresolved(L) + Unresolved(M)
  BY <1>3, <1>4, <1>5, <1>6 DEF Unresolved, EscrowInv, EscrowTypeOK
<1>13. totalRefundLiability' =
         totalRefundLiability - Unclaimed(L, isRegistered[r] \ refundClaimed[r])
           + Unclaimed(M, isRegistered'[r] \ refundClaimed'[r])
  BY <1>5, <1>6 DEF Unclaimed, CreditProgress, EscrowInv, EscrowTypeOK
<1>14. totalRewardLiability' = Sum(settlementRewardCredit')
  <2>1. settlementRewardCredit[a] + reward \in Nat /\ settlementRewardCredit[a] \in Nat
    BY <1>3, EscrowInvFacts
  <2>2. /\ Sum(settlementRewardCredit') =
             Sum(settlementRewardCredit) - settlementRewardCredit[a]
               + (settlementRewardCredit[a] + reward)
        /\ Sum(settlementRewardCredit) \in Nat
    <3>1. settlementRewardCredit \in [Accounts -> Nat] /\ a \in Accounts
      BY EscrowInvFacts
    <3>2. IsFiniteSet(Accounts)
      BY DEF EscrowConfiguration
    <3>3. settlementRewardCredit' =
            [settlementRewardCredit EXCEPT ![a] = settlementRewardCredit[a] + reward]
      BY <1>5
    <3> QED BY ONLY <2>1, <3>1, <3>2, <3>3, SumUpdate
  <2> QED BY <1>3, <1>5, <2>1, <2>2, EscrowInvFacts
<1> QED BY <1>7, <1>8, <1>10, <1>11, <1>12, <1>13, <1>14, EscrowCallInv

\* The refunds of a finalization are exactly what its round's bonds still hold.
LEMMA FinalizationTakesUnresolved ==
  ASSUME EscrowConfiguration, NEW L \in RoundLedger, NEW P, NEW C, LedgerShape(L, P, C),
         NEW passes \in 0..2, ~L.finalized,
         \/ passes = 0 /\ L.selectionProcessed = 0 /\ L.allocationProcessed = 0
         \/ passes = 1 /\ L.selectionProcessed = L.registered /\ L.allocationProcessed = 0
         \/ /\ passes = 2
            /\ L.selectionProcessed = L.registered /\ L.allocationProcessed = L.registered
  PROVE  /\ Unresolved(L) = L.registered * RefundAfter(passes)
         /\ L.deposited = L.rewardsAccrued + L.registered * RefundAfter(passes)
         /\ RefundAfter(passes) \in Nat
         /\ L.registered * RefundAfter(passes) \in Nat
<1>1. L.registered \in Nat /\ L.deposited \in Nat /\ L.rewardsAccrued \in Nat
  BY DEF RoundLedger
<1>2. L.registered * RefundAfter(passes) = L.deposited - L.rewardsAccrued
  BY <1>1, RefundIsRemainder DEF LedgerShape
<1>3. RefundAfter(passes) \in Nat
  BY <1>1, RefundIsRemainder
<1>4. L.registered * RefundAfter(passes) \in Nat
  BY <1>1, <1>3
<1> QED BY <1>1, <1>2, <1>3, <1>4 DEF Unresolved

LEMMA FinalizeRoundInv ==
  ASSUME EscrowConfiguration, EscrowInv, NEW r \in Rounds, NEW passes \in 0..2,
         FinalizeRound(r, passes)
  PROVE  EscrowInv'
<1> DEFINE L == ledger[r]
           M == ledger'[r]
           refund == RefundAfter(passes)
           refunds == L.registered * refund
<1>1. L \in RoundLedger /\ LedgerShape(L, isRegistered[r], refundClaimed[r])
  BY EscrowInvFacts
<1>2. /\ L.registered \in Nat /\ L.selectionProcessed \in Nat /\ L.allocationProcessed \in Nat
      /\ L.deposited \in Nat /\ L.rewardsAccrued \in Nat
  BY <1>1 DEF RoundLedger
<1>3. /\ Unresolved(L) = refunds
      /\ L.deposited = L.rewardsAccrued + refunds
      /\ refund \in Nat /\ refunds \in Nat
  BY <1>1, FinalizationTakesUnresolved DEF FinalizeRound, PassesComplete
<1>4. /\ M = [L EXCEPT !.refundsAccrued = refunds, !.refundPerParticipant = refund,
                       !.finalized = TRUE]
      /\ ledger' = [ledger EXCEPT ![r] = M]
      /\ isRegistered' = isRegistered /\ refundClaimed' = refundClaimed
      /\ ~L.finalized
      /\ totalUnresolvedLiability' = totalUnresolvedLiability - refunds
      /\ totalUnresolvedLiability >= refunds
      /\ totalRefundLiability' = totalRefundLiability + refunds
  BY EscrowInvFacts DEF FinalizeRound
<1>5. refunds = refund * L.registered
  BY <1>2, <1>3
<1> HIDE DEF refund, refunds
<1>6. /\ M \in RoundLedger
      /\ M.registered = L.registered /\ M.deposited = L.deposited
      /\ M.selectionProcessed = L.selectionProcessed
      /\ M.allocationProcessed = L.allocationProcessed
      /\ M.rewardsAccrued = L.rewardsAccrued /\ M.finalized
      /\ M.refundsAccrued = refunds /\ M.refundPerParticipant = refund
  BY <1>1, <1>3, <1>4 DEF RoundLedger
<1>7. EscrowTypeOK'
  <2>1. ledger' \in [Rounds -> RoundLedger]
    BY <1>4, <1>6, EscrowInvFacts
  <2>2. totalUnresolvedLiability' \in Nat /\ totalRefundLiability' \in Nat
    BY <1>3, <1>4 DEF EscrowInv, EscrowTypeOK
  <2> QED BY <2>1, <2>2 DEF EscrowInv, EscrowTypeOK, FinalizeRound
<1>8. EveryWeiAccounted'
  BY <1>3, <1>4 DEF EscrowInv, EscrowTypeOK, EveryWeiAccounted, AccountedLiability, FinalizeRound
<1>9. LedgerShape(M, isRegistered'[r], refundClaimed'[r])
  BY <1>1, <1>3, <1>4, <1>5, <1>6 DEF LedgerShape
<1>10. \A s \in Rounds \ {r} : /\ ledger'[s] = ledger[s]
                               /\ isRegistered'[s] = isRegistered[s]
                               /\ refundClaimed'[s] = refundClaimed[s]
  BY <1>4, EscrowInvFacts
<1>11. totalUnresolvedLiability' = totalUnresolvedLiability - Unresolved(L) + Unresolved(M)
  BY <1>3, <1>4, <1>6 DEF Unresolved, EscrowInv, EscrowTypeOK
<1>12. Unclaimed(L, isRegistered[r] \ refundClaimed[r]) = 0
  BY <1>4 DEF Unclaimed
<1>13. Unclaimed(M, isRegistered'[r] \ refundClaimed'[r]) = refunds
  <2>1. refundClaimed[r] = {} /\ Cardinality(isRegistered[r]) = L.registered
    BY <1>1, <1>4 DEF LedgerShape
  <2>2. isRegistered'[r] \ refundClaimed'[r] = isRegistered[r]
    BY <1>4, <2>1
  <2> QED BY <1>5, <1>6, <2>1, <2>2 DEF Unclaimed
<1>14. totalRefundLiability' =
         totalRefundLiability - Unclaimed(L, isRegistered[r] \ refundClaimed[r])
           + Unclaimed(M, isRegistered'[r] \ refundClaimed'[r])
  BY <1>3, <1>4, <1>12, <1>13 DEF EscrowInv, EscrowTypeOK
<1>15. totalRewardLiability' = Sum(settlementRewardCredit')
  BY EscrowInvFacts DEF FinalizeRound
<1> QED BY <1>7, <1>8, <1>9, <1>10, <1>11, <1>14, <1>15, EscrowCallInv

LEMMA ClaimBondRefundInv ==
  ASSUME EscrowConfiguration, EscrowInv, NEW r \in Rounds, NEW a \in Accounts,
         ClaimBondRefund(r, a)
  PROVE  EscrowInv'
<1> DEFINE L == ledger[r]
           amount == L.refundPerParticipant
           open == isRegistered[r] \ refundClaimed[r]
           left == isRegistered'[r] \ refundClaimed'[r]
<1>1. L \in RoundLedger /\ LedgerShape(L, isRegistered[r], refundClaimed[r])
  BY EscrowInvFacts
<1>2. amount \in Nat
  BY <1>1 DEF RoundLedger
<1>3. /\ ledger' = ledger /\ isRegistered' = isRegistered
      /\ refundClaimed'[r] = refundClaimed[r] \cup {a}
      /\ L.finalized /\ a \in open
      /\ totalRefundLiability' = totalRefundLiability - amount
      /\ totalRefundLiability >= amount
  BY EscrowInvFacts DEF ClaimBondRefund
<1>4. EscrowTypeOK'
  BY <1>2 DEF EscrowInv, EscrowTypeOK, ClaimBondRefund
<1>5. EveryWeiAccounted'
  BY <1>2 DEF EscrowInv, EscrowTypeOK, EveryWeiAccounted, AccountedLiability, ClaimBondRefund
<1>6. LedgerShape(ledger'[r], isRegistered'[r], refundClaimed'[r])
  BY <1>1, <1>3 DEF LedgerShape
<1>7. \A s \in Rounds \ {r} : /\ ledger'[s] = ledger[s]
                              /\ isRegistered'[s] = isRegistered[s]
                              /\ refundClaimed'[s] = refundClaimed[s]
  BY EscrowInvFacts DEF ClaimBondRefund
<1>8. Cardinality(left) = Cardinality(open) - 1 /\ Cardinality(open) \in Nat
  <2>1. left = open \ {a}
    BY <1>3
  <2>2. IsFiniteSet(isRegistered[r])
    BY <1>1, LiabilityTypes, EscrowInvFacts
  <2>3. IsFiniteSet(open)
    BY <2>2, FS_Difference
  <2>4. Cardinality(open \ {a}) = Cardinality(open) - 1
    BY <1>3, <2>3, FS_RemoveElement
  <2> QED BY <2>1, <2>3, <2>4, FS_CardinalityType
<1>9. amount * Cardinality(left) = amount * Cardinality(open) - amount
  BY <1>2, <1>8
<1>10. totalRefundLiability' =
         totalRefundLiability - Unclaimed(L, open) + Unclaimed(ledger'[r], left)
  <2>1. Unclaimed(L, open) = amount * Cardinality(open)
    BY <1>3 DEF Unclaimed
  <2>2. Unclaimed(ledger'[r], left) = amount * Cardinality(left)
    BY <1>3 DEF Unclaimed
  <2>3. amount * Cardinality(open) \in Nat /\ totalRefundLiability \in Nat
    BY <1>2, <1>8 DEF EscrowInv, EscrowTypeOK
  <2> HIDE DEF amount, open, left
  <2> QED BY <1>2, <1>3, <1>9, <2>1, <2>2, <2>3
<1>11. totalUnresolvedLiability' =
         totalUnresolvedLiability - Unresolved(L) + Unresolved(ledger'[r])
  BY <1>3 DEF Unresolved, ClaimBondRefund, EscrowInv, EscrowTypeOK
<1>12. totalRewardLiability' = Sum(settlementRewardCredit')
  BY EscrowInvFacts DEF ClaimBondRefund
<1> QED BY <1>4, <1>5, <1>6, <1>7, <1>10, <1>11, <1>12, EscrowCallInv

LEMMA WithdrawSettlementRewardsInv ==
  ASSUME EscrowConfiguration, EscrowInv, NEW a \in Accounts, WithdrawSettlementRewards(a)
  PROVE  EscrowInv'
<1> DEFINE amount == settlementRewardCredit[a]
<1>1. settlementRewardCredit \in [Accounts -> Nat] /\ a \in Accounts /\ amount \in Nat
  BY EscrowInvFacts
<1>2. EscrowTypeOK'
  BY <1>1 DEF EscrowInv, EscrowTypeOK, WithdrawSettlementRewards
<1>3. EveryWeiAccounted'
  BY <1>1 DEF EscrowInv, EscrowTypeOK, EveryWeiAccounted, AccountedLiability, WithdrawSettlementRewards
<1>4. ledger' = ledger /\ isRegistered' = isRegistered /\ refundClaimed' = refundClaimed
  BY DEF WithdrawSettlementRewards
<1>5. AllLedgersShaped'
  BY <1>4 DEF EscrowInv, AllLedgersShaped
<1>6. totalRewardLiability' = Sum(settlementRewardCredit')
  <2>1. IsFiniteSet(Accounts) /\ 0 \in Nat
    BY DEF EscrowConfiguration
  <2>2. settlementRewardCredit' = [settlementRewardCredit EXCEPT ![a] = 0]
    BY DEF WithdrawSettlementRewards
  <2>3. /\ Sum(settlementRewardCredit') = Sum(settlementRewardCredit) - amount + 0
        /\ Sum(settlementRewardCredit) \in Nat
    BY ONLY <1>1, <2>1, <2>2, SumUpdate
  <2>4. totalRewardLiability' = totalRewardLiability - amount
    BY DEF WithdrawSettlementRewards
  <2> QED BY <1>1, <2>3, <2>4, EscrowInvFacts
<1>7. LiabilitiesAreBacked'
  BY <1>4, <1>6 DEF LiabilitiesAreBacked, EscrowInv, WithdrawSettlementRewards
<1> QED BY <1>2, <1>3, <1>5, <1>7 DEF EscrowInv

LEMMA ForceNativeInv ==
  ASSUME EscrowInv, NEW amount \in Nat, ForceNative(amount)
  PROVE  EscrowInv'
<1>1. EscrowTypeOK' /\ EveryWeiAccounted'
  BY DEF EscrowInv, EscrowTypeOK, EveryWeiAccounted, AccountedLiability, ForceNative
<1>2. AllLedgersShaped' /\ LiabilitiesAreBacked'
  BY DEF EscrowInv, AllLedgersShaped, LiabilitiesAreBacked, ForceNative
<1> QED BY <1>1, <1>2 DEF EscrowInv

\* No call, and no step of anything else, breaks the invariant.
LEMMA EscrowStepInv ==
  ASSUME EscrowConfiguration, EscrowInv, [EscrowNext]_escrowVars
  PROVE  EscrowInv'
<1>1. CASE UNCHANGED escrowVars
  BY <1>1 DEF escrowVars, EscrowInv, EscrowTypeOK, EveryWeiAccounted, AccountedLiability, AllLedgersShaped,
              LiabilitiesAreBacked
<1>2. CASE EscrowCall
  <2>1. ASSUME NEW r \in Rounds, NEW a \in Accounts, Register(r, a)
        PROVE  EscrowInv'
    BY <2>1, RegisterInv
  <2>2. ASSUME NEW r \in Rounds, NEW a \in Accounts, NEW pass \in {1, 2}, Credit(r, pass, a)
        PROVE  EscrowInv'
    <3>1. ledger[r].registered \in Nat
      BY EscrowInvFacts DEF RoundLedger
    <3>2. PICK n \in 1..ledger[r].registered : CreditProgress(r, pass, n, a)
      BY <2>2 DEF Credit
    <3>3. n \in Nat
      BY <3>1, <3>2
    <3> QED BY <3>2, <3>3, CreditProgressInv
  <2>3. ASSUME NEW r \in Rounds, NEW passes \in 0..2, FinalizeRound(r, passes)
        PROVE  EscrowInv'
    BY <2>3, FinalizeRoundInv
  <2>4. ASSUME NEW r \in Rounds, NEW a \in Accounts, ClaimBondRefund(r, a)
        PROVE  EscrowInv'
    BY <2>4, ClaimBondRefundInv
  <2>5. ASSUME NEW a \in Accounts, WithdrawSettlementRewards(a)
        PROVE  EscrowInv'
    BY <2>5, WithdrawSettlementRewardsInv
  <2>6. 1 \in {1, 2} /\ 2 \in {1, 2} /\ 0 \in 0..2 /\ 1 \in 0..2 /\ 2 \in 0..2
    OBVIOUS
  <2> QED BY <1>2, <2>1, <2>2, <2>3, <2>4, <2>5, <2>6 DEF EscrowCall
<1>3. ASSUME NEW amount \in 1..MAX_FORCED, ForceNative(amount)
      PROVE  EscrowInv'
  <2>1. amount \in Nat
    BY DEF EscrowConfiguration
  <2> QED BY <1>3, <2>1, ForceNativeInv
<1> QED BY <1>1, <1>2, <1>3 DEF EscrowNext

-----------------------------------------------------------------------------
(* What holds of every behaviour of the escrow. *)

\* The inductive invariant holds in every reachable state of the escrow.
THEOREM EscrowInvariant == EscrowSpec => []EscrowInv
<1>1. EscrowInit => EscrowInv
  BY EscrowInitInv, EscrowConfiguration
<1>2. EscrowInv /\ [EscrowNext]_escrowVars => EscrowInv'
  BY EscrowStepInv, EscrowConfiguration
<1> QED BY <1>1, <1>2, PTL DEF EscrowSpec

\* Type correctness of LeopoldSettlementBondEscrow: no counter ever goes below zero.
THEOREM EscrowTypeCorrect == EscrowSpec => []EscrowTypeOK
<1>1. EscrowInv => EscrowTypeOK
  BY DEF EscrowInv
<1> QED BY <1>1, EscrowInvariant, PTL

\* The contract's balance covers what it owes, and what it owes plus what it paid
\* is what was posted, after any sequence of calls and forced transfers.
THEOREM EscrowConserves == EscrowSpec => []EveryWeiAccounted
<1>1. EscrowInv => EveryWeiAccounted
  BY DEF EscrowInv
<1> QED BY <1>1, EscrowInvariant, PTL

\* The global liabilities are the totals of the per-round and per-account ledgers.
THEOREM EscrowBacked == EscrowSpec => []LiabilitiesAreBacked
<1>1. EscrowInv => LiabilitiesAreBacked
  BY DEF EscrowInv
<1> QED BY <1>1, EscrowInvariant, PTL

\* finalizeRound leaves no remainder: rewards and refunds add up to the bonds.
THEOREM EscrowResolves == EscrowSpec => []RoundsResolveExactly
<1>1. EscrowInv => RoundsResolveExactly
  BY DEF EscrowInv, AllLedgersShaped, LedgerShape, RoundsResolveExactly
<1> QED BY <1>1, EscrowInvariant, PTL

\* One entry of a total never exceeds it, so checked subtraction and the native
\* transfer never stop a claim, a reward withdrawal or a due finalization.
THEOREM EscrowPays == EscrowSpec => []PayoutsNeverBlocked
<1> USE EscrowConfiguration
<1>1. ASSUME EscrowInv PROVE PayoutsNeverBlocked
  <2> DEFINE u == [s \in Rounds |-> Unresolved(ledger[s])]
             c == [s \in Rounds |-> Unclaimed(ledger[s], isRegistered[s] \ refundClaimed[s])]
  <2>1. ASSUME NEW s \in Rounds
        PROVE  /\ Unresolved(ledger[s]) \in Nat
               /\ Cardinality(isRegistered[s] \ refundClaimed[s]) \in Nat
               /\ Unclaimed(ledger[s], isRegistered[s] \ refundClaimed[s]) \in Nat
               /\ IsFiniteSet(isRegistered[s] \ refundClaimed[s])
    <3>1. IsFiniteSet(isRegistered[s])
      BY <1>1, LiabilityTypes, EscrowInvFacts
    <3>2. IsFiniteSet(isRegistered[s] \ refundClaimed[s])
      BY <3>1, FS_Difference
    <3> QED BY <1>1, <3>2, LiabilityTypes, EscrowInvFacts
  <2>2. u \in [Rounds -> Nat] /\ c \in [Rounds -> Nat]
    BY <2>1
  <2>3. IsFiniteSet(Rounds) /\ IsFiniteSet(Accounts)
    BY DEF EscrowConfiguration
  <2>4. totalUnresolvedLiability = Sum(u) /\ totalRefundLiability = Sum(c)
    BY <1>1 DEF EscrowInv, LiabilitiesAreBacked
  <2>5. settlementRewardCredit \in [Accounts -> Nat]
        /\ totalRewardLiability = Sum(settlementRewardCredit)
    BY <1>1, EscrowInvFacts
  <2>6. /\ nativeBalance >= totalUnresolvedLiability + totalRewardLiability + totalRefundLiability
        /\ totalUnresolvedLiability \in Nat /\ totalRewardLiability \in Nat
        /\ totalRefundLiability \in Nat /\ nativeBalance \in Nat
    BY <1>1 DEF EscrowInv, EveryWeiAccounted, AccountedLiability, EscrowTypeOK
  <2>7. ASSUME NEW r \in Rounds
        PROVE  u[r] <= Sum(u) /\ c[r] <= Sum(c)
    <3> HIDE DEF u, c
    <3>1. u[r] \in Nat /\ c[r] \in Nat
      BY <2>2
    <3> QED BY ONLY <2>2, <2>3, <2>7, <3>1, SumUpdate
  <2>8. ASSUME NEW r \in Rounds, NEW a \in isRegistered[r] \ refundClaimed[r],
               ledger[r].finalized
        PROVE  /\ totalRefundLiability >= ledger[r].refundPerParticipant
               /\ nativeBalance >= ledger[r].refundPerParticipant
    <3> DEFINE amount == ledger[r].refundPerParticipant
               n == Cardinality(isRegistered[r] \ refundClaimed[r])
    <3>1. amount \in Nat
      BY <1>1, EscrowInvFacts DEF RoundLedger
    <3>2. n \in Nat /\ n # 0
      BY <2>1, <2>8, FS_EmptySet
    <3>3. c[r] = amount * n
      BY <2>8 DEF Unclaimed
    <3> HIDE DEF amount, n, c, u
    <3>4. 1 * amount <= n * amount
      BY <3>1, <3>2, ProductMonotone
    <3>5. amount <= c[r]
      BY <3>1, <3>2, <3>3, <3>4
    <3>6. c[r] <= Sum(c) /\ c[r] \in Nat
      BY <2>2, <2>7
    <3>7. amount <= totalRefundLiability
      BY <3>1, <3>5, <3>6, <2>4, <2>6
    <3> QED BY <3>1, <3>7, <2>6 DEF amount
  <2>9. ASSUME NEW a \in Accounts
        PROVE  /\ totalRewardLiability >= settlementRewardCredit[a]
               /\ nativeBalance >= settlementRewardCredit[a]
    <3>1. settlementRewardCredit[a] \in Nat
      BY <2>5
    <3>2. settlementRewardCredit[a] <= Sum(settlementRewardCredit)
      BY ONLY <2>3, <2>5, <2>9, <3>1, SumUpdate
    <3> QED BY <2>5, <2>6, <3>1, <3>2
  <2>10. ASSUME NEW r \in Rounds, NEW passes \in 0..2,
                ~ledger[r].finalized, PassesComplete(r, passes)
         PROVE  totalUnresolvedLiability >= ledger[r].registered * RefundAfter(passes)
    <3>1. Unresolved(ledger[r]) = ledger[r].registered * RefundAfter(passes)
      BY <1>1, <2>10, EscrowInvFacts, FinalizationTakesUnresolved DEF PassesComplete
    <3>2. u[r] = Unresolved(ledger[r])
      OBVIOUS
    <3> HIDE DEF u, c
    <3> QED BY <2>2, <2>4, <2>6, <2>7, <3>1, <3>2
  <2> QED BY <2>8, <2>9, <2>10 DEF PayoutsNeverBlocked
<1> QED BY <1>1, EscrowInvariant, PTL


-----------------------------------------------------------------------------
(* The invariant of rounds, registrations and checkpoints. *)

Checkpoint == [timestamp : Nat, balance : Nat, cumulative : Nat]

Preference == [timestamp : Nat, autoSave : BOOLEAN]

\* One checkpoint per timestamp, in order, none of them after time t.
InOrder(s, t) ==
  /\ \A i, j \in DOMAIN s : i < j => s[i].timestamp < s[j].timestamp
  /\ \A i \in DOMAIN s : s[i].timestamp <= t

\* A checkpoint's cumulative covers the balance of every earlier one for as
\* long as that one lasted.
Accumulates(s) ==
  \A i, j \in DOMAIN s :
    i < j => s[i].cumulative + s[i].balance * (s[i + 1].timestamp - s[i].timestamp)
               <= s[j].cumulative

\* A balance history as _checkpointUser leaves it at time t.
History(s, t) == s \in Seq(Checkpoint) /\ InOrder(s, t) /\ Accumulates(s)

\* The balance a history ends with.
Current(s) == IF s = <<>> THEN 0 ELSE Last(s).balance

\* The types of rounds, registrations and balances.
VaultTypeOK ==
  /\ now \in Nat \ {0}
  /\ activeRoundId \in RoundIds
  /\ round \in [RoundIds -> Round]
  /\ participants \in [RoundIds -> Seq(Accounts)]
  /\ eligibilityStart \in [RoundIds -> [Accounts -> Nat]]
  /\ principal \in [Accounts -> Nat]
  /\ observations \in [Accounts -> Seq(Checkpoint)]
  /\ preferenceObservations \in [Accounts -> Seq(Preference)]

\* The types of what the draw and the prizes add to it.
PrizeTypeOK ==
  /\ winnings \in [Accounts -> Nat]
  /\ winnerPredicate \in [RoundIds -> SUBSET Accounts]
  /\ validityProofs \in [RoundIds -> Seq(BOOLEAN)]
  /\ sponsoredPrize \in [RoundIds -> Nat]
  /\ publicSponsoredPrize \in [RoundIds -> Nat]
  /\ uncommittedYield \in Nat
  /\ publicUncommittedYield \in Nat

\* Rounds before the active one are closed, those after it untouched; a closed
\* round's time is over and its participants are counted.
RoundsInOrder ==
  /\ round[activeRoundId].state = "OPEN"
  /\ round[activeRoundId].opensAt <= now
  /\ round[activeRoundId].closesAt = round[activeRoundId].opensAt + ROUND_DURATION
  /\ round[activeRoundId].opensAt <= round[activeRoundId].eligibleTimestamp
  /\ round[activeRoundId].eligibleTimestamp <= now
  /\ round[activeRoundId].eligibleTimestamp <= round[activeRoundId].closesAt
  /\ \A r \in RoundIds : r < activeRoundId =>
       /\ Closed(r)
       /\ round[r].closesAt <= now
       /\ round[r].participantCountSnapshot = Len(participants[r])
  /\ \A r \in RoundIds : r > activeRoundId =>
       round[r] = UninitializedRound /\ participants[r] = <<>>

\* Exactly the participants of a round have a start, within the round, and
\* nobody takes part twice.
Registrations ==
  \A r \in RoundIds :
    /\ \A i, j \in DOMAIN participants[r] : participants[r][i] = participants[r][j] => i = j
    /\ \A a \in Accounts : eligibilityStart[r][a] # 0 <=> a \in Members(r)
    /\ \A a \in Accounts :
         eligibilityStart[r][a] # 0 =>
           eligibilityStart[r][a] <= now /\ eligibilityStart[r][a] <= round[r].closesAt

\* Every balance history is in order and ends with the balance of its account.
Histories ==
  \A a \in Accounts :
    /\ History(observations[a], now)
    /\ principal[a] = Current(observations[a])

\* Every preference history is in order.
Preferences ==
  \A a \in Accounts :
    /\ preferenceObservations[a] \in Seq(Preference)
    /\ InOrder(preferenceObservations[a], now)

\* What f gives the accounts registered in round r, and nothing to the others.
Registered(r, f) == [a \in Accounts |-> IF eligibilityStart[r][a] # 0 THEN f[a] ELSE 0]

\* The eligible balance of the active round is the principal of its participants.
EligibleBalanceExact ==
  round[activeRoundId].eligibleBalance = Sum(Registered(activeRoundId, principal))

\* A round whose candidate waits for its verdict has a weight to draw from.
DrawsHaveWeight ==
  \A r \in RoundIds :
    round[r].state = "CANDIDATE_VALIDITY_PENDING" => round[r].publicAggregateTwab # 0

VaultShape ==
  /\ VaultTypeOK
  /\ PrizeTypeOK
  /\ RoundsInOrder
  /\ Registrations
  /\ Histories
  /\ Preferences
  /\ EligibleBalanceExact
  /\ DrawsHaveWeight

-----------------------------------------------------------------------------
(* Histories. *)

\* The products of natural numbers that the time-weighted balances need.
LEMMA ProductNat ==
  ASSUME NEW a \in Nat, NEW b \in Nat
  PROVE  a * b \in Nat
OBVIOUS

\* LatestAt finds the one position that is at or before t with all later ones after it.
LEMMA LatestIs ==
  ASSUME NEW s, NEW t \in Nat, NEW i \in DOMAIN s, DOMAIN s \subseteq Nat,
         \A j \in DOMAIN s : s[j].timestamp \in Nat,
         s[i].timestamp <= t, \A j \in DOMAIN s : j > i => s[j].timestamp > t
  PROVE  LatestAt(s, t) = i
<1> DEFINE P(k) == /\ s[k].timestamp <= t
                   /\ \A j \in DOMAIN s : j > k => s[j].timestamp > t
<1>1. P(i)
  OBVIOUS
<1>2. \A k \in DOMAIN s : P(k) => k = i
  OBVIOUS
<1>3. LatestAt(s, t) = CHOOSE k \in DOMAIN s : P(k)
  BY DEF LatestAt
<1> HIDE DEF P
<1> QED BY <1>1, <1>2, <1>3

\* There is such a position once t has reached the first timestamp.
LEMMA LatestExists ==
  ASSUME NEW S, NEW s \in Seq(S), \A x \in S : x.timestamp \in Nat, s # <<>>,
         NEW t \in Nat, s[1].timestamp <= t
  PROVE  \E i \in DOMAIN s : /\ s[i].timestamp <= t
                             /\ \A j \in DOMAIN s : j > i => s[j].timestamp > t
<1> DEFINE n == Len(s)
           T == {k \in 0..(n - 1) : s[n - k].timestamp <= t}
<1>1. n \in Nat /\ n >= 1 /\ DOMAIN s = 1..n /\ \A j \in 1..n : s[j] \in S
  OBVIOUS
<1>2. n - 1 \in T
  BY <1>1
<1>3. T \in SUBSET Nat /\ T # {}
  <2>1. ASSUME NEW k \in T PROVE k \in Nat
    BY <1>1
  <2> HIDE DEF T
  <2> QED BY <1>2, <2>1
<1>4. PICK k \in T : \A l \in T : k <= l
  <2> HIDE DEF T
  <2> QED BY <1>3, LeastNatural
<1>5. n - k \in 1..n /\ s[n - k].timestamp <= t
  BY <1>1, <1>4
<1>6. ASSUME NEW j \in 1..n, j > n - k PROVE s[j].timestamp > t
  <2>1. n - j \in 0..(n - 1) /\ n - j < k /\ n - (n - j) = j
    BY <1>1, <1>4, <1>6
  <2>2. n - j \notin T
    <3>1. k \in Nat /\ n - j \in Nat
      BY <1>1, <1>3, <2>1
    <3> HIDE DEF T, n
    <3> QED BY <1>4, <2>1, <3>1
  <2>3. ~(s[j].timestamp <= t)
    BY <2>1, <2>2
  <2>4. s[j].timestamp \in Nat
    BY <1>1
  <2> QED BY <2>3, <2>4
<1> QED BY <1>1, <1>5, <1>6

\* What a history consists of.
LEMMA HistoryFacts ==
  ASSUME NEW s, NEW t \in Nat, History(s, t)
  PROVE  /\ s \in Seq(Checkpoint)
         /\ Len(s) \in Nat /\ DOMAIN s = 1..Len(s) /\ DOMAIN s \subseteq Nat
         /\ \A i \in DOMAIN s : /\ s[i] \in Checkpoint
                                /\ s[i].timestamp \in Nat
                                /\ s[i].balance \in Nat
                                /\ s[i].cumulative \in Nat
                                /\ s[i].timestamp <= t
         /\ \A i, j \in DOMAIN s : i < j => s[i].timestamp < s[j].timestamp
         /\ s # <<>> => /\ Len(s) \in DOMAIN s
                        /\ Last(s) = s[Len(s)]
                        /\ 1 \in DOMAIN s
<1>1. s \in Seq(Checkpoint)
  BY DEF History
<1>2. \A i \in DOMAIN s : s[i] \in Checkpoint
  BY <1>1
<1>3. \A i \in DOMAIN s : s[i].timestamp \in Nat /\ s[i].balance \in Nat /\ s[i].cumulative \in Nat
  BY <1>2 DEF Checkpoint
<1>4. Len(s) \in Nat /\ DOMAIN s = 1..Len(s) /\ (s # <<>> => Len(s) >= 1)
  BY <1>1
<1> QED BY <1>1, <1>2, <1>3, <1>4 DEF History, InOrder, Last

\* _cumulativeAt: nothing before the first checkpoint, and from a checkpoint to
\* the next one its balance for every second.
LEMMA CumulativeIs ==
  ASSUME NEW s, NEW u \in Nat, History(s, u), NEW t \in Nat
  PROVE  /\ (s = <<>> \/ t < s[1].timestamp) => CumulativeAt(s, t) = 0
         /\ \A i \in DOMAIN s :
              s[i].timestamp <= t /\ (\A j \in DOMAIN s : j > i => s[j].timestamp > t) =>
                CumulativeAt(s, t) = s[i].cumulative + s[i].balance * (t - s[i].timestamp)
<1>1. (s = <<>> \/ t < s[1].timestamp) => CumulativeAt(s, t) = 0
  BY DEF CumulativeAt
<1>2. ASSUME NEW i \in DOMAIN s, s[i].timestamp <= t,
             \A j \in DOMAIN s : j > i => s[j].timestamp > t
      PROVE  CumulativeAt(s, t) = s[i].cumulative + s[i].balance * (t - s[i].timestamp)
  <2>1. LatestAt(s, t) = i
    BY <1>2, HistoryFacts, LatestIs
  <2>2. s # <<>> /\ ~(t < s[1].timestamp)
    BY <1>2, HistoryFacts
  <2> QED BY <2>1, <2>2 DEF CumulativeAt
<1> QED BY <1>1, <1>2

\* Every time falls before the first checkpoint or to exactly one of them.
LEMMA CumulativeCases ==
  ASSUME NEW s, NEW u \in Nat, History(s, u), NEW t \in Nat
  PROVE  \/ s = <<>>
         \/ s # <<>> /\ t < s[1].timestamp
         \/ s # <<>> /\ \E i \in DOMAIN s : /\ s[i].timestamp <= t
                               /\ \A j \in DOMAIN s : j > i => s[j].timestamp > t
<1>1. s \in Seq(Checkpoint) /\ \A x \in Checkpoint : x.timestamp \in Nat
  BY HistoryFacts DEF Checkpoint
<1>2. CASE s # <<>> /\ ~(t < s[1].timestamp)
  <2>1. s[1].timestamp <= t
    BY <1>2, HistoryFacts
  <2> QED BY <1>1, <1>2, <2>1, LatestExists
<1> QED BY <1>2

\* The cumulative balance is a number at every time.
LEMMA CumulativeType ==
  ASSUME NEW s, NEW u \in Nat, History(s, u), NEW t \in Nat
  PROVE  CumulativeAt(s, t) \in Nat
<1>1. CASE s = <<>> \/ t < s[1].timestamp
  BY <1>1, CumulativeIs
<1>2. ASSUME NEW i \in DOMAIN s, s[i].timestamp <= t,
             \A j \in DOMAIN s : j > i => s[j].timestamp > t
      PROVE  CumulativeAt(s, t) \in Nat
  <2>1. CumulativeAt(s, t) = s[i].cumulative + s[i].balance * (t - s[i].timestamp)
    BY <1>2, CumulativeIs
  <2>2. s[i].cumulative \in Nat /\ s[i].balance \in Nat /\ t - s[i].timestamp \in Nat
    BY <1>2, HistoryFacts
  <2>3. s[i].balance * (t - s[i].timestamp) \in Nat
    BY <2>2, ProductNat
  <2> QED BY <2>1, <2>2, <2>3
<1> QED BY <1>1, <1>2, CumulativeCases

\* The cumulative balance never decreases.
LEMMA CumulativeMonotone ==
  ASSUME NEW s, NEW u \in Nat, History(s, u), NEW t \in Nat, NEW v \in Nat, t <= v
  PROVE  CumulativeAt(s, t) <= CumulativeAt(s, v)
<1>0. CumulativeAt(s, v) \in Nat
  BY CumulativeType
<1>1. CASE s = <<>> \/ t < s[1].timestamp
  BY <1>0, <1>1, CumulativeIs
<1>2. ASSUME s # <<>>, NEW i \in DOMAIN s, s[i].timestamp <= t,
             \A j \in DOMAIN s : j > i => s[j].timestamp > t
      PROVE  CumulativeAt(s, t) <= CumulativeAt(s, v)
  <2>1. CumulativeAt(s, t) = s[i].cumulative + s[i].balance * (t - s[i].timestamp)
    BY <1>2, CumulativeIs
  <2>2. /\ s[i].cumulative \in Nat /\ s[i].balance \in Nat /\ s[i].timestamp \in Nat
        /\ i \in Nat /\ i >= 1
    BY <1>2, HistoryFacts
  <2>3. ~(v < s[1].timestamp)
    BY <1>2, <2>2, HistoryFacts
  <2>4. PICK k \in DOMAIN s : /\ s[k].timestamp <= v
                              /\ \A j \in DOMAIN s : j > k => s[j].timestamp > v
    BY <1>2, <2>3, CumulativeCases
  <2>5. CumulativeAt(s, v) = s[k].cumulative + s[k].balance * (v - s[k].timestamp)
    BY <2>4, CumulativeIs
  <2>6. /\ s[k].cumulative \in Nat /\ s[k].balance \in Nat /\ s[k].timestamp \in Nat
        /\ k \in Nat
    BY <2>4, HistoryFacts
  <2>7. s[k].balance * (v - s[k].timestamp) \in Nat
    <3>1. v - s[k].timestamp \in Nat
      BY <2>4, <2>6
    <3> QED BY <2>6, <3>1, ProductNat
  <2>8. k >= i
    <3>1. ~(i > k)
      BY <1>2, <2>2, <2>4
    <3> QED BY <2>2, <2>6, <3>1
  <2>9. CASE k = i
    <3>1. t - s[i].timestamp \in Nat /\ v - s[i].timestamp \in Nat
      BY <1>2, <2>2
    <3>2. (t - s[i].timestamp) * s[i].balance <= (v - s[i].timestamp) * s[i].balance
      BY <2>2, <3>1, ProductMonotone
    <3> QED BY <2>1, <2>2, <2>5, <2>9, <3>1, <3>2
  <2>10. CASE k > i
    <3>1. i + 1 \in DOMAIN s /\ i + 1 > i
      BY <2>2, <2>6, <2>10, HistoryFacts
    <3>2. s[i + 1].timestamp > t /\ s[i + 1].timestamp \in Nat
      BY <1>2, <3>1, HistoryFacts
    <3>3. t - s[i].timestamp \in Nat /\ s[i + 1].timestamp - s[i].timestamp \in Nat
      BY <1>2, <2>2, <3>2
    <3>4. (t - s[i].timestamp) * s[i].balance
            <= (s[i + 1].timestamp - s[i].timestamp) * s[i].balance
      BY <2>2, <3>2, <3>3, ProductMonotone
    <3>5. s[i].cumulative + s[i].balance * (s[i + 1].timestamp - s[i].timestamp)
            <= s[k].cumulative
      BY <2>10 DEF History, Accumulates
    <3> QED BY <2>1, <2>2, <2>5, <2>6, <2>7, <3>3, <3>4, <3>5
  <2> QED BY <2>2, <2>6, <2>8, <2>9, <2>10
<1> QED BY <1>1, <1>2, CumulativeCases

\* From its last checkpoint on a history grows by the current balance.
LEMMA CumulativeAfterLast ==
  ASSUME NEW s, NEW u \in Nat, History(s, u), NEW t \in Nat, u <= t
  PROVE  /\ Current(s) \in Nat
         /\ CumulativeAt(s, t + 1) = CumulativeAt(s, t) + Current(s)
         /\ s # <<>> => CumulativeAt(s, t) = Last(s).cumulative
                                               + Last(s).balance * (t - Last(s).timestamp)
<1>1. CASE s = <<>>
  <2>1. CumulativeAt(s, t + 1) = 0 /\ CumulativeAt(s, t) = 0
    BY <1>1, CumulativeIs
  <2> QED BY <1>1, <2>1 DEF Current
<1>2. CASE s # <<>>
  <2> DEFINE n == Len(s)
  <2>1. n \in DOMAIN s /\ Last(s) = s[n] /\ n \in Nat /\ \A j \in DOMAIN s : ~(j > n)
    BY <1>2, HistoryFacts
  <2>2. /\ s[n].cumulative \in Nat /\ s[n].balance \in Nat /\ s[n].timestamp \in Nat
        /\ s[n].timestamp <= t
    BY <2>1, HistoryFacts
  <2>3. CumulativeAt(s, t) = s[n].cumulative + s[n].balance * (t - s[n].timestamp)
    BY <2>1, <2>2, CumulativeIs
  <2>4. CumulativeAt(s, t + 1) = s[n].cumulative + s[n].balance * (t + 1 - s[n].timestamp)
    <3> DEFINE v == t + 1
    <3>1. v \in Nat /\ s[n].timestamp <= v
      BY <2>2
    <3>2. CumulativeAt(s, v) = s[n].cumulative + s[n].balance * (v - s[n].timestamp)
      <4> HIDE DEF v, n
      <4> QED BY <2>1, <3>1, CumulativeIs
    <3>3. v - s[n].timestamp = t + 1 - s[n].timestamp
      BY <2>2
    <3> QED BY <3>2, <3>3, Zenon
  <2>5. Current(s) = s[n].balance
    BY <1>2, <2>1 DEF Current
  <2>6. s[n].balance * (t + 1 - s[n].timestamp)
          = s[n].balance * (t - s[n].timestamp) + s[n].balance
    BY <2>2
  <2>7. s[n].balance * (t - s[n].timestamp) \in Nat
    <3>1. t - s[n].timestamp \in Nat
      BY <2>2
    <3> QED BY <2>2, <3>1, ProductNat
  <2> HIDE DEF n
  <2> QED BY <2>1, <2>2, <2>3, <2>4, <2>5, <2>6, <2>7
<1> QED BY <1>1, <1>2

\* _checkpointUser keeps a history in order, makes b the current balance and
\* changes no cumulative balance up to the time it is called at.
LEMMA CheckpointKeeps ==
  ASSUME NEW s, NEW t \in Nat, History(s, t), NEW b \in Nat
  PROVE  /\ History(CheckpointUser(s, b, t), t)
         /\ Current(CheckpointUser(s, b, t)) = b
         /\ \A v \in Nat : v <= t => CumulativeAt(CheckpointUser(s, b, t), v) = CumulativeAt(s, v)
<1> DEFINE q == CheckpointUser(s, b, t)
<1>1. CASE s = <<>>
  <2> DEFINE e == [timestamp |-> t, balance |-> b, cumulative |-> 0]
  <2>1. q = <<e>> /\ e \in Checkpoint /\ e.timestamp = t /\ e.balance = b /\ e.cumulative = 0
    BY <1>1 DEF CheckpointUser, Checkpoint
  <2> HIDE DEF e
  <2>2. /\ q \in Seq(Checkpoint) /\ q # <<>> /\ Len(q) = 1 /\ DOMAIN q = {1} /\ q[1] = e
    BY <2>1
  <2> HIDE DEF q
  <2>3. History(q, t)
    BY <2>1, <2>2 DEF History, InOrder, Accumulates
  <2>4. Current(q) = b
    BY <2>1, <2>2 DEF Current, Last
  <2>5. ASSUME NEW v \in Nat, v <= t PROVE CumulativeAt(q, v) = CumulativeAt(s, v)
    <3>1. CumulativeAt(s, v) = 0
      BY <1>1 DEF CumulativeAt
    <3>2. CASE v < t
      BY <2>1, <2>2, <2>3, <3>1, <3>2, CumulativeIs
    <3>3. CASE v = t
      <4>1. CumulativeAt(q, v) = q[1].cumulative + q[1].balance * (v - q[1].timestamp)
        BY <2>1, <2>2, <2>3, <3>3, CumulativeIs
      <4> QED BY <2>1, <2>2, <3>1, <3>3, <4>1
    <3> QED BY <2>5, <3>2, <3>3
  <2> QED BY <2>3, <2>4, <2>5 DEF q
<1>2. CASE s # <<>>
  <2> DEFINE n == Len(s)
             p == s[n]
  <2>1. /\ n \in Nat /\ n >= 1 /\ DOMAIN s = 1..n /\ n \in DOMAIN s /\ Last(s) = p
        /\ p \in Checkpoint /\ p.timestamp \in Nat /\ p.balance \in Nat /\ p.cumulative \in Nat
        /\ p.timestamp <= t
        /\ \A i \in 1..n : /\ s[i] \in Checkpoint /\ s[i].timestamp \in Nat
                           /\ s[i].balance \in Nat /\ s[i].cumulative \in Nat
                           /\ s[i].timestamp <= p.timestamp
        /\ \A i, j \in 1..n : i < j => s[i].timestamp < s[j].timestamp
    <3>1. n \in Nat /\ n >= 1 /\ DOMAIN s = 1..n /\ n \in DOMAIN s /\ Last(s) = p
      BY <1>2, HistoryFacts
    <3>2. \A i \in 1..n : /\ s[i] \in Checkpoint /\ s[i].timestamp \in Nat
                           /\ s[i].balance \in Nat /\ s[i].cumulative \in Nat
                           /\ s[i].timestamp <= t
      BY <3>1, HistoryFacts
    <3>3. \A i, j \in 1..n : i < j => s[i].timestamp < s[j].timestamp
      BY <3>1, HistoryFacts
    <3> HIDE DEF n
    <3>4. \A i \in 1..n : s[i].timestamp <= p.timestamp
      BY <3>1, <3>2, <3>3
    <3> QED BY <3>1, <3>2, <3>3, <3>4
  <2> HIDE DEF n, p
  <2>2. \A i, j \in 1..n :
          i < j => s[i].cumulative + s[i].balance * (s[i + 1].timestamp - s[i].timestamp)
                     <= s[j].cumulative
    BY <2>1 DEF History, Accumulates
  <2>3. s \in Seq(Checkpoint)
    BY HistoryFacts
  <2>4. CASE t - p.timestamp = 0
    <3> DEFINE e == [p EXCEPT !.balance = b]
    <3>1. q = [s EXCEPT ![n] = e]
      BY <1>2, <2>1, <2>4 DEF CheckpointUser, n
    <3>2. e \in Checkpoint /\ e.timestamp = t /\ e.balance = b /\ e.cumulative = p.cumulative
      BY <2>1, <2>4 DEF Checkpoint
    <3> HIDE DEF e
    <3>3. /\ q \in Seq(Checkpoint) /\ q # <<>> /\ Len(q) = n /\ DOMAIN q = 1..n /\ q[n] = e
          /\ \A i \in 1..n : i # n => q[i] = s[i]
      BY <2>1, <2>3, <3>1, <3>2 DEF n
    <3> HIDE DEF q
    <3>4. /\ \A i \in 1..n : q[i].timestamp = s[i].timestamp /\ q[i].cumulative = s[i].cumulative
          /\ \A i \in 1..n : i # n => q[i].balance = s[i].balance
      <4>1. p.timestamp = t
        BY <2>1, <2>4
      <4>2. q[n].timestamp = s[n].timestamp /\ q[n].cumulative = s[n].cumulative
        BY <3>2, <3>3, <4>1 DEF p
      <4> QED BY ONLY <3>3, <4>2
    <3>5. InOrder(q, t)
      BY <2>1, <2>4, <3>3, <3>4 DEF InOrder
    <3>6. Accumulates(q)
      <4> SUFFICES ASSUME NEW i \in 1..n, NEW j \in 1..n, i < j
                   PROVE  q[i].cumulative + q[i].balance * (q[i + 1].timestamp - q[i].timestamp)
                            <= q[j].cumulative
        BY <3>3 DEF Accumulates
      <4>1. i + 1 \in 1..n /\ i # n
        BY <2>1
      <4> QED BY <2>2, <3>4, <4>1
    <3>7. History(q, t)
      BY <3>3, <3>5, <3>6 DEF History
    <3>8. Current(q) = b
      BY <3>2, <3>3 DEF Current, Last
    <3>9. ASSUME NEW v \in Nat, v <= t PROVE CumulativeAt(q, v) = CumulativeAt(s, v)
      <4>1. CASE v < s[1].timestamp
        <5>1. v < q[1].timestamp
          BY <2>1, <3>4, <4>1
        <5> QED BY <3>7, <4>1, <5>1, CumulativeIs
      <4>2. CASE ~(v < s[1].timestamp)
        <5>1. PICK i \in 1..n : /\ s[i].timestamp <= v
                                /\ \A j \in 1..n : j > i => s[j].timestamp > v
          BY <1>2, <2>1, <4>2, CumulativeCases
        <5>2. CumulativeAt(s, v) = s[i].cumulative + s[i].balance * (v - s[i].timestamp)
          BY <2>1, <5>1, CumulativeIs
        <5>3. CumulativeAt(q, v) = q[i].cumulative + q[i].balance * (v - q[i].timestamp)
          BY <3>3, <3>4, <3>7, <5>1, CumulativeIs
        <5>4. CASE i # n
          BY <3>4, <5>2, <5>3, <5>4
        <5>5. CASE i = n
          <6>1. v - s[i].timestamp = 0 /\ v - q[i].timestamp = 0
            BY <2>1, <2>4, <3>4, <3>9, <5>1, <5>5 DEF p
          <6>2. \A x \in Nat : x * 0 = 0
            OBVIOUS
          <6>3. s[i].balance \in Nat /\ q[i].balance \in Nat
            BY <2>1, <3>2, <3>3, <5>5
          <6> QED BY <2>1, <3>4, <5>2, <5>3, <6>1, <6>2, <6>3
        <5> QED BY <5>4, <5>5
      <4> QED BY <4>1, <4>2
    <3> QED BY <3>7, <3>8, <3>9 DEF q
  <2>5. CASE t - p.timestamp # 0
    <3> DEFINE c == p.cumulative + p.balance * (t - p.timestamp)
               e == [timestamp |-> t, balance |-> b, cumulative |-> c]
    <3>1. q = Append(s, e)
      BY <1>2, <2>1, <2>5 DEF CheckpointUser
    <3>2. p.timestamp < t /\ p.balance * (t - p.timestamp) \in Nat /\ c \in Nat /\ c >= p.cumulative
      <4>1. p.timestamp < t /\ t - p.timestamp \in Nat
        BY <2>1, <2>5
      <4>2. p.balance * (t - p.timestamp) \in Nat
        BY <2>1, <4>1, ProductNat
      <4> QED BY <2>1, <4>1, <4>2
    <3>3. e \in Checkpoint /\ e.timestamp = t /\ e.balance = b /\ e.cumulative = c
      BY <3>2 DEF Checkpoint
    <3> HIDE DEF e, q, c
    <3>4. /\ q \in Seq(Checkpoint) /\ q # <<>> /\ Len(q) = n + 1 /\ DOMAIN q = 1..(n + 1)
          /\ q[n + 1] = e /\ \A i \in 1..n : q[i] = s[i]
      BY <2>1, <2>3, <3>1, <3>3 DEF n
    <3>5. InOrder(q, t)
      <4>1. ASSUME NEW i \in 1..(n + 1), NEW j \in 1..(n + 1), i < j
            PROVE  q[i].timestamp < q[j].timestamp
        <5>1. i \in 1..n /\ q[i] = s[i]
          BY <2>1, <3>4, <4>1
        <5>2. CASE j = n + 1
          BY <2>1, <3>2, <3>3, <3>4, <5>1, <5>2
        <5>3. CASE j \in 1..n
          BY <2>1, <3>4, <4>1, <5>1, <5>3
        <5> QED BY <2>1, <5>2, <5>3
      <4>2. ASSUME NEW i \in 1..(n + 1) PROVE q[i].timestamp <= t
        <5>1. CASE i = n + 1
          BY <3>3, <3>4, <5>1
        <5>2. CASE i \in 1..n
          BY <2>1, <3>4, <5>2
        <5> QED BY <2>1, <5>1, <5>2
      <4> QED BY <3>4, <4>1, <4>2 DEF InOrder
    <3>6. Accumulates(q)
      <4> SUFFICES ASSUME NEW i \in 1..(n + 1), NEW j \in 1..(n + 1), i < j
                   PROVE  q[i].cumulative + q[i].balance * (q[i + 1].timestamp - q[i].timestamp)
                            <= q[j].cumulative
        BY <3>4 DEF Accumulates
      <4>1. i \in 1..n /\ q[i] = s[i] /\ i + 1 \in 1..(n + 1)
        BY <2>1, <3>4
      <4>2. CASE j \in 1..n
        <5>1. i + 1 \in 1..n /\ q[i + 1] = s[i + 1] /\ q[j] = s[j]
          BY <2>1, <3>4, <4>1, <4>2
        <5> QED BY <2>2, <4>1, <4>2, <5>1
      <4>3. CASE j = n + 1 /\ i = n
        BY <2>1, <3>3, <3>4, <4>1, <4>3 DEF p, c
      <4>4. CASE j = n + 1 /\ i < n
        <5>1. i + 1 \in 1..n /\ q[i + 1] = s[i + 1]
          BY <2>1, <3>4, <4>1, <4>4
        <5>2. s[i].cumulative + s[i].balance * (s[i + 1].timestamp - s[i].timestamp)
                <= p.cumulative
          BY <2>1, <2>2, <4>1, <4>4 DEF p
        <5>3. s[i].cumulative + s[i].balance * (s[i + 1].timestamp - s[i].timestamp) \in Int
          <6>1. /\ s[i].cumulative \in Int /\ s[i].balance \in Int
                /\ s[i + 1].timestamp \in Int /\ s[i].timestamp \in Int
            BY <2>1, <4>1, <5>1
          <6> QED BY ONLY <6>1
        <5>4. s[i].cumulative + s[i].balance * (s[i + 1].timestamp - s[i].timestamp) <= c
          <6> DEFINE x == s[i].cumulative + s[i].balance * (s[i + 1].timestamp - s[i].timestamp)
          <6>1. x \in Int /\ x <= p.cumulative /\ p.cumulative <= c
            BY <3>2, <5>2, <5>3
          <6> HIDE DEF x
          <6>2. x <= c
            BY <2>1, <3>2, <6>1
          <6> QED BY <6>2 DEF x
        <5> QED BY <3>3, <3>4, <4>1, <4>4, <5>1, <5>4
      <4> QED BY <2>1, <4>1, <4>2, <4>3, <4>4
    <3>7. History(q, t)
      BY <3>4, <3>5, <3>6 DEF History
    <3>8. Current(q) = b
      BY <3>3, <3>4 DEF Current, Last
    <3>9. ASSUME NEW v \in Nat, v <= t PROVE CumulativeAt(q, v) = CumulativeAt(s, v)
      <4>0. n + 1 \in 1..(n + 1) /\ q[n + 1].timestamp = t
        BY <2>1, <3>3, <3>4
      <4>1. CASE v < s[1].timestamp
        <5>1. v < q[1].timestamp
          BY <2>1, <3>4, <4>1
        <5> QED BY <3>7, <4>1, <5>1, CumulativeIs
      <4>2. CASE ~(v < s[1].timestamp)
        <5>1. PICK i \in 1..n : /\ s[i].timestamp <= v
                                /\ \A j \in 1..n : j > i => s[j].timestamp > v
          BY <1>2, <2>1, <4>2, CumulativeCases
        <5>2. CumulativeAt(s, v) = s[i].cumulative + s[i].balance * (v - s[i].timestamp)
          BY <2>1, <5>1, CumulativeIs
        <5>3. CASE v < t
          <6>1. i \in 1..(n + 1) /\ q[i] = s[i]
            BY <2>1, <3>4
          <6>2. ASSUME NEW j \in 1..(n + 1), j > i PROVE q[j].timestamp > v
            <7>1. CASE j = n + 1
              BY <4>0, <5>3, <7>1
            <7>2. CASE j \in 1..n
              BY <3>4, <5>1, <6>2, <7>2
            <7> QED BY <2>1, <7>1, <7>2
          <6>3. CumulativeAt(q, v) = q[i].cumulative + q[i].balance * (v - q[i].timestamp)
            BY <3>4, <3>7, <5>1, <6>1, <6>2, CumulativeIs
          <6> QED BY <5>2, <6>1, <6>3
        <5>4. CASE v = t
          <6>1. i = n
            BY <2>1, <3>2, <5>1, <5>4 DEF p
          <6>2. CumulativeAt(s, v) = c
            BY <5>2, <5>4, <6>1 DEF p, c
          <6>3. CumulativeAt(q, v)
                  = q[n + 1].cumulative + q[n + 1].balance * (v - q[n + 1].timestamp)
            <7>1. \A j \in 1..(n + 1) : ~(j > n + 1)
              BY <2>1
            <7> QED BY <3>4, <3>7, <4>0, <5>4, <7>1, CumulativeIs
          <6>4. q[n + 1].cumulative = c /\ q[n + 1].balance = b /\ v - q[n + 1].timestamp = 0
            BY <3>3, <3>4, <5>4
          <6> QED BY <3>2, <6>2, <6>3, <6>4
        <5> QED BY <3>9, <5>3, <5>4
      <4> QED BY <4>1, <4>2
    <3> QED BY <3>7, <3>8, <3>9 DEF q
  <2> QED BY <2>4, <2>5
<1> QED BY <1>1, <1>2

-----------------------------------------------------------------------------
(* Rounds, registrations and balances under one step. *)

\* What the configuration says of the constants.
LEMMA Configured ==
  /\ IsFiniteSet(Accounts) /\ IsFiniteSet(RoundIds)
  /\ MAX_ROUND \in Nat /\ RoundIds = 1..MAX_ROUND /\ 1 \in RoundIds
  /\ RoundIds \subseteq Nat
  /\ ROUND_DURATION \in Nat /\ FIRST_ROUND_OPENS_AT \in Nat \ {0}
  /\ MAX_POOL_BASE_UNITS \in Nat /\ RANDOM_DOMAIN \in Nat /\ MAX_AGGREGATE_TWAB \in Nat
  /\ MAX_CHUNK \in Nat /\ MAX_YIELD \in Nat
  /\ Savers \subseteq Accounts /\ Progressors \subseteq Accounts /\ Amounts \subseteq Nat
<1>1. IsFiniteSet(Rounds) /\ MAX_ROUND \in Nat
  BY EscrowConfiguration, FS_CardinalityType DEF EscrowConfiguration, MAX_ROUND
<1> QED BY <1>1, EscrowConfiguration, VaultConfiguration
        DEF EscrowConfiguration, VaultConfiguration, RoundIds

\* The types, one by one.
LEMMA ShapeTypes ==
  ASSUME VaultShape
  PROVE  /\ now \in Nat /\ now # 0
         /\ activeRoundId \in RoundIds /\ activeRoundId \in Nat
         /\ round \in [RoundIds -> Round]
         /\ participants \in [RoundIds -> Seq(Accounts)]
         /\ eligibilityStart \in [RoundIds -> [Accounts -> Nat]]
         /\ principal \in [Accounts -> Nat]
         /\ winnings \in [Accounts -> Nat]
         /\ winnerPredicate \in [RoundIds -> SUBSET Accounts]
         /\ validityProofs \in [RoundIds -> Seq(BOOLEAN)]
         /\ sponsoredPrize \in [RoundIds -> Nat]
         /\ publicSponsoredPrize \in [RoundIds -> Nat]
         /\ uncommittedYield \in Nat
         /\ publicUncommittedYield \in Nat
         /\ observations \in [Accounts -> Seq(Checkpoint)]
         /\ preferenceObservations \in [Accounts -> Seq(Preference)]
BY Configured DEF VaultShape, VaultTypeOK, PrizeTypeOK

\* The fields of a round, one by one.
LEMMA RoundFields ==
  ASSUME NEW R \in Round
  PROVE  /\ R.opensAt \in Nat /\ R.closesAt \in Nat /\ R.state \in RoundState
         /\ R.aggregateTwab \in Nat /\ R.publicAggregateTwab \in Nat
         /\ R.publicPrize \in Nat /\ R.reservedPrize \in Nat
         /\ R.candidate \in Nat /\ R.acceptedTicket \in Nat
         /\ R.participantCountSnapshot \in Nat /\ R.selectionCursor \in Nat
         /\ R.allocationCursor \in Nat /\ R.selectionCumulative \in Nat
         /\ R.encryptedWinnerCount \in Nat /\ R.reconciliationValid \in BOOLEAN
         /\ R.eligibleBalance \in Nat /\ R.eligibleCumulative \in Nat
         /\ R.eligibleTimestamp \in Nat
BY DEF Round

\* _accrueEligible and a change of the eligible balance leave the rest of the
\* active round, and every other round, as it is.
LEMMA AccruedRounds ==
  ASSUME VaultShape, IsActiveRoundOpen, NEW delta \in Int,
         round[activeRoundId].eligibleBalance + delta \in Nat
  PROVE  /\ Accrued(delta) \in [RoundIds -> Round]
         /\ \A r \in RoundIds : r # activeRoundId => Accrued(delta)[r] = round[r]
         /\ Accrued(delta)[activeRoundId] =
              [round[activeRoundId] EXCEPT
                 !.eligibleCumulative = @ + round[activeRoundId].eligibleBalance
                                              * (now - round[activeRoundId].eligibleTimestamp),
                 !.eligibleTimestamp = now,
                 !.eligibleBalance = @ + delta]
         /\ now < round[activeRoundId].closesAt
<1> DEFINE R == round[activeRoundId]
           c == R.eligibleCumulative + R.eligibleBalance * (now - R.eligibleTimestamp)
           X == [R EXCEPT !.eligibleCumulative = c, !.eligibleTimestamp = now,
                          !.eligibleBalance = R.eligibleBalance + delta]
<1>1. /\ R \in Round /\ round \in [RoundIds -> Round] /\ activeRoundId \in RoundIds
      /\ now \in Nat
  BY ShapeTypes
<1>2. R.eligibleBalance \in Nat /\ R.eligibleCumulative \in Nat /\ R.eligibleTimestamp \in Nat
  BY <1>1, RoundFields
<1>3. R.eligibleTimestamp <= now
  BY DEF VaultShape, RoundsInOrder
<1>4. c \in Nat
  <2>1. now - R.eligibleTimestamp \in Nat
    BY <1>1, <1>2, <1>3
  <2>2. R.eligibleBalance * (now - R.eligibleTimestamp) \in Nat
    BY <1>2, <2>1, ProductNat
  <2> QED BY <1>2, <2>2
<1>5. X \in Round
  <2> HIDE DEF c
  <2> QED BY <1>1, <1>4 DEF Round
<1>6. Accrued(delta) = [round EXCEPT ![activeRoundId] = X]
  <2>1. [AccrueEligible(R, now) EXCEPT !.eligibleBalance = @ + delta] = X
    BY <1>1 DEF AccrueEligible, Round
  <2> HIDE DEF X
  <2> QED BY <1>1, <2>1 DEF Accrued
<1>7. now < R.closesAt
  BY DEF IsActiveRoundOpen
<1> HIDE DEF X
<1>8. /\ Accrued(delta) \in [RoundIds -> Round]
      /\ \A r \in RoundIds : r # activeRoundId => Accrued(delta)[r] = round[r]
      /\ Accrued(delta)[activeRoundId] = X
  BY <1>1, <1>5, <1>6
<1> QED BY <1>7, <1>8 DEF X

\* A step that leaves times, participants and the order of the rounds alone.
LEMMA RoundsKept ==
  ASSUME VaultShape, UNCHANGED <<now, activeRoundId, participants, eligibilityStart>>,
         round'[activeRoundId].state = "OPEN",
         round'[activeRoundId].opensAt = round[activeRoundId].opensAt,
         round'[activeRoundId].closesAt = round[activeRoundId].closesAt,
         \/ round'[activeRoundId].eligibleTimestamp = round[activeRoundId].eligibleTimestamp
         \/ /\ round'[activeRoundId].eligibleTimestamp = now
            /\ now < round[activeRoundId].closesAt,
         \A r \in RoundIds : r < activeRoundId =>
           /\ Closed(r)'
           /\ round'[r].closesAt = round[r].closesAt
           /\ round'[r].participantCountSnapshot = round[r].participantCountSnapshot,
         \A r \in RoundIds : r > activeRoundId => round'[r] = round[r]
  PROVE  RoundsInOrder' /\ Registrations'
<1>1. activeRoundId \in RoundIds /\ activeRoundId \in Nat /\ RoundIds \subseteq Nat /\ now \in Nat
  BY ShapeTypes, Configured
<1>2. round[activeRoundId] \in Round
  BY ShapeTypes
<1>3. /\ round[activeRoundId].opensAt \in Nat /\ round[activeRoundId].closesAt \in Nat
      /\ round[activeRoundId].eligibleTimestamp \in Nat
  BY <1>2, RoundFields
<1>4. RoundsInOrder'
  <2>1. /\ round'[activeRoundId].eligibleTimestamp <= now
        /\ round'[activeRoundId].opensAt <= round'[activeRoundId].eligibleTimestamp
        /\ round'[activeRoundId].eligibleTimestamp <= round'[activeRoundId].closesAt
    BY <1>1, <1>3 DEF VaultShape, RoundsInOrder
  <2>2. \A r \in RoundIds : r < activeRoundId =>
          /\ round'[r].closesAt <= now
          /\ round'[r].participantCountSnapshot = Len(participants[r])
    BY DEF VaultShape, RoundsInOrder
  <2>3. \A r \in RoundIds : r > activeRoundId =>
          round'[r] = UninitializedRound /\ participants[r] = <<>>
    BY DEF VaultShape, RoundsInOrder
  <2>4. /\ round'[activeRoundId].opensAt <= now
        /\ round'[activeRoundId].closesAt = round'[activeRoundId].opensAt + ROUND_DURATION
    BY DEF VaultShape, RoundsInOrder
  <2> QED BY <2>1, <2>2, <2>3, <2>4 DEF RoundsInOrder
<1>5. \A r \in RoundIds : round'[r].closesAt = round[r].closesAt
  BY <1>1
<1>6. Registrations'
  BY <1>5 DEF VaultShape, Registrations, Members
<1> QED BY <1>4, <1>6

\* A change d of one account's principal, checkpointed for it and perhaps others:
\* every history stays in order, no cumulative balance up to now changes, and
\* the totals move by d.
LEMMA BalanceMoves ==
  ASSUME VaultShape, NEW w \in Accounts, NEW d \in Int, principal[w] + d \in Nat,
         NEW M \in SUBSET Accounts, w \in M,
         principal' = [principal EXCEPT ![w] = @ + d],
         observations' = [a \in Accounts |->
                            IF a \in M THEN CheckpointUser(observations[a], principal'[a], now)
                            ELSE observations[a]],
         now' = now
  PROVE  /\ principal' \in [Accounts -> Nat]
         /\ observations' \in [Accounts -> Seq(Checkpoint)]
         /\ Histories'
         /\ Sum(principal') = Sum(principal) + d
         /\ \A a \in Accounts, t \in Nat :
              t <= now => CumulativeAt(observations'[a], t) = CumulativeAt(observations[a], t)
<1>1. /\ principal \in [Accounts -> Nat] /\ now \in Nat
      /\ observations \in [Accounts -> Seq(Checkpoint)]
  BY ShapeTypes
<1>2. principal' \in [Accounts -> Nat] /\ \A a \in Accounts : principal'[a] \in Nat
  BY <1>1
<1>3. ASSUME NEW a \in Accounts
      PROVE  /\ History(observations'[a], now)
             /\ principal'[a] = Current(observations'[a])
             /\ \A t \in Nat : t <= now =>
                  CumulativeAt(observations'[a], t) = CumulativeAt(observations[a], t)
  <2>1. History(observations[a], now) /\ principal[a] = Current(observations[a])
    BY DEF VaultShape, Histories
  <2>2. CASE a \in M
    <3>1. observations'[a] = CheckpointUser(observations[a], principal'[a], now)
      BY <2>2
    <3>2. principal'[a] \in Nat
      BY <1>2
    <3> DEFINE b == principal'[a]
               q == CheckpointUser(observations[a], b, now)
    <3>3. /\ History(q, now) /\ Current(q) = b
          /\ \A t \in Nat : t <= now => CumulativeAt(q, t) = CumulativeAt(observations[a], t)
      <4>1. b \in Nat /\ now \in Nat /\ History(observations[a], now)
        BY <1>1, <2>1, <3>2
      <4> HIDE DEF b
      <4> QED BY ONLY <4>1, CheckpointKeeps DEF q
    <3> QED BY <3>1, <3>3
  <2>3. CASE a \notin M
    <3>1. observations'[a] = observations[a] /\ principal'[a] = principal[a]
      BY <1>1, <2>3
    <3> QED BY <2>1, <3>1
  <2> QED BY <2>2, <2>3
<1>4. observations' \in [Accounts -> Seq(Checkpoint)]
  <2>1. \A a \in Accounts : observations'[a] \in Seq(Checkpoint)
    BY <1>3 DEF History
  <2>2. observations' = [a \in Accounts |-> observations'[a]]
    OBVIOUS
  <2> QED BY <2>1, <2>2
<1>5. Histories'
  BY <1>3 DEF Histories
<1>6. Sum(principal') = Sum(principal) + d
  <2>1. \A a \in Accounts \ {w} : principal'[a] = principal[a]
    BY <1>1
  <2>2. Sum(principal') = Sum(principal) - principal[w] + principal'[w] /\ Sum(principal) \in Nat
    <3> DEFINE f == principal
               g == principal'
    <3>1. f \in [Accounts -> Nat] /\ g \in [Accounts -> Nat] /\ \A a \in Accounts \ {w} : g[a] = f[a]
      BY <1>1, <1>2, <2>1
    <3> HIDE DEF f, g
    <3>2. Sum(g) = Sum(f) - f[w] + g[w] /\ Sum(f) \in Nat
      BY <3>1, Configured, SumMove
    <3> QED BY <3>2 DEF f, g
  <2>3. principal'[w] = principal[w] + d /\ principal[w] \in Nat
    BY <1>1
  <2> QED BY <2>2, <2>3
<1> QED BY <1>2, <1>3, <1>4, <1>5, <1>6

\* The eligible balance moves by d with a participant's principal, and not at
\* all with anybody else's.
LEMMA EligibleMoves ==
  ASSUME VaultShape, NEW w \in Accounts, NEW d \in Int, principal[w] + d \in Nat,
         principal' = [principal EXCEPT ![w] = @ + d]
  PROVE  LET e == IF eligibilityStart[activeRoundId][w] # 0 THEN d ELSE 0
         IN  /\ round[activeRoundId].eligibleBalance + e \in Nat
             /\ round[activeRoundId].eligibleBalance + e = Sum(Registered(activeRoundId, principal'))
<1> DEFINE s == eligibilityStart[activeRoundId]
           e == IF s[w] # 0 THEN d ELSE 0
           f == Registered(activeRoundId, principal)
           g == Registered(activeRoundId, principal')
<1>1. /\ principal \in [Accounts -> Nat] /\ principal' \in [Accounts -> Nat]
      /\ \A a \in Accounts : a # w => principal'[a] = principal[a]
      /\ principal'[w] = principal[w] + d
      /\ principal[w] \in Nat
  BY ShapeTypes
<1>2. f \in [Accounts -> Nat] /\ g \in [Accounts -> Nat]
  BY <1>1 DEF Registered
<1>3. /\ \A a \in Accounts \ {w} : g[a] = f[a]
      /\ g[w] = f[w] + e
  BY <1>1 DEF Registered
<1> HIDE DEF f, g
<1>4. Sum(g) = Sum(f) - f[w] + g[w] /\ Sum(f) \in Nat /\ Sum(g) \in Nat
  <2>1. /\ IsFiniteSet(Accounts) /\ w \in Accounts
        /\ \A a \in Accounts \ {w} : g[a] = f[a]
    BY <1>3, Configured
  <2> QED BY ONLY <1>2, <2>1, SumMove
<1>5. Sum(f) = round[activeRoundId].eligibleBalance
  BY DEF VaultShape, EligibleBalanceExact, f
<1>6. f[w] \in Nat /\ g[w] \in Nat /\ e \in Int
  BY <1>2
<1>7. round[activeRoundId].eligibleBalance + e = Sum(g)
  BY <1>3, <1>4, <1>5, <1>6
<1> QED BY <1>4, <1>7 DEF g

-----------------------------------------------------------------------------
(* Every step keeps the shape. *)

\* A fresh round has the type of a round.
LEMMA FreshRounds ==
  ASSUME NEW opensAt \in Nat
  PROVE  /\ UninitializedRound \in Round
         /\ InitializeRound(opensAt) \in Round
         /\ InitializeRound(opensAt).opensAt = opensAt
         /\ InitializeRound(opensAt).closesAt = opensAt + ROUND_DURATION
         /\ InitializeRound(opensAt).state = "OPEN"
         /\ InitializeRound(opensAt).eligibleTimestamp = opensAt
         /\ InitializeRound(opensAt).eligibleBalance = 0
         /\ InitializeRound(opensAt).eligibleCumulative = 0
         /\ InitializeRound(opensAt).reservedPrize = 0
         /\ InitializeRound(opensAt).publicPrize = 0
         /\ InitializeRound(opensAt).allocationCursor = 0
         /\ InitializeRound(opensAt).encryptedWinnerCount = 0
         /\ InitializeRound(opensAt).reconciliationValid = FALSE
<1>1. UninitializedRound \in Round
  BY DEF UninitializedRound, Round, RoundState
<1>2. opensAt + ROUND_DURATION \in Nat
  BY Configured
<1> QED BY <1>1, <1>2 DEF InitializeRound, UninitializedRound, Round, RoundState

\* A round that is neither open nor uninitialized comes before the active one.
LEMMA ClosedBefore ==
  ASSUME VaultShape, NEW r \in RoundIds, round[r].state \notin {"OPEN", "UNINITIALIZED"}
  PROVE  r < activeRoundId
<1>1. r \in Nat /\ activeRoundId \in Nat
  BY ShapeTypes, Configured
<1>2. r # activeRoundId
  BY DEF VaultShape, RoundsInOrder
<1>3. ~(r > activeRoundId)
  <2>1. UninitializedRound.state = "UNINITIALIZED"
    BY DEF UninitializedRound
  <2> QED BY <2>1 DEF VaultShape, RoundsInOrder
<1> QED BY <1>1, <1>2, <1>3

\* The vault starts in the shape.
LEMMA InitShape ==
  ASSUME Init
  PROVE  VaultShape
<1> DEFINE F == FIRST_ROUND_OPENS_AT
<1>1. /\ F \in Nat \ {0} /\ RoundIds = 1..MAX_ROUND /\ MAX_ROUND \in Nat /\ 1 \in RoundIds
      /\ RoundIds \subseteq Nat /\ ROUND_DURATION \in Nat
  BY Configured
<1>2. /\ round \in [RoundIds -> Round]
      /\ round[1] = InitializeRound(F)
      /\ \A r \in RoundIds : r # 1 => round[r] = UninitializedRound
  BY <1>1, FreshRounds DEF Init
<1>3. VaultTypeOK
  <2>1. <<>> \in Seq(Accounts) /\ <<>> \in Seq(Checkpoint) /\ <<>> \in Seq(Preference)
    OBVIOUS
  <2> QED BY <1>1, <1>2, <2>1 DEF Init, VaultTypeOK
<1>4. PrizeTypeOK
  BY DEF Init, PrizeTypeOK
<1>5. RoundsInOrder
  <2>1. activeRoundId = 1 /\ now = F /\ \A r \in RoundIds : ~(r < 1) /\ participants[r] = <<>>
    BY <1>1 DEF Init
  <2>2. F <= F + ROUND_DURATION
    BY <1>1
  <2>3. \A r \in RoundIds : r > 1 => r # 1
    BY <1>1
  <2>4. /\ round[activeRoundId].state = "OPEN"
        /\ round[activeRoundId].opensAt = F
        /\ round[activeRoundId].closesAt = F + ROUND_DURATION
        /\ round[activeRoundId].eligibleTimestamp = F
    BY <1>1, <1>2, <2>1, FreshRounds
  <2> HIDE DEF F
  <2>5. /\ \A r \in RoundIds : ~(r < activeRoundId)
        /\ \A r \in RoundIds : r > activeRoundId =>
             round[r] = UninitializedRound /\ participants[r] = <<>>
    BY <1>2, <2>1, <2>3
  <2>6. F \in Nat /\ F <= F
    BY <1>1
  <2> QED BY <2>1, <2>2, <2>4, <2>5, <2>6 DEF RoundsInOrder
<1>6. Registrations
  BY DEF Init, Registrations, Members
<1>7. Histories
  <2>1. \A t : History(<<>>, t)
    BY DEF History, InOrder, Accumulates
  <2> QED BY <2>1 DEF Init, Histories, Current
<1>8. Preferences
  BY DEF Init, Preferences, InOrder
<1>9. EligibleBalanceExact
  <2> DEFINE g == Registered(activeRoundId, principal)
  <2>1. g \in [Accounts -> Nat] /\ \A a \in Accounts : g[a] = 0
    BY <1>1 DEF Init, Registered
  <2>2. Sum(g) = 0
    <3> HIDE DEF g
    <3> QED BY <2>1, SumZero
  <2>3. round[activeRoundId].eligibleBalance = 0
    BY <1>1, <1>2, FreshRounds DEF Init
  <2> QED BY <2>2, <2>3 DEF EligibleBalanceExact
<1>10. DrawsHaveWeight
  <2>1. UninitializedRound.state = "UNINITIALIZED" /\ InitializeRound(F).state = "OPEN"
    BY <1>1, FreshRounds DEF UninitializedRound
  <2> QED BY <1>2, <2>1 DEF DrawsHaveWeight
<1> QED BY <1>3, <1>4, <1>5, <1>6, <1>7, <1>8, <1>9, <1>10 DEF VaultShape

\* A step that moves prizes only.
LEMMA PrizeShape ==
  ASSUME VaultShape, PrizeTypeOK',
         UNCHANGED <<now, activeRoundId, round, participants, eligibilityStart, observations,
                     principal, preferenceObservations>>
  PROVE  VaultShape'
<1>1. VaultTypeOK'
  BY DEF VaultShape, VaultTypeOK
<1>2. RoundsInOrder' /\ Registrations' /\ DrawsHaveWeight'
  BY DEF VaultShape, RoundsInOrder, Registrations, DrawsHaveWeight, Closed, Members
<1>3. Histories' /\ Preferences'
  BY DEF VaultShape, Histories, Preferences
<1>4. EligibleBalanceExact'
  BY DEF VaultShape, EligibleBalanceExact, Registered
<1> QED BY <1>1, <1>2, <1>3, <1>4 DEF VaultShape

\* A step that only changes the record of a closed round, and prizes.
LEMMA SettlementShape ==
  ASSUME VaultShape, PrizeTypeOK', NEW r \in RoundIds, NEW R \in Round, r < activeRoundId,
         round' = [round EXCEPT ![r] = R],
         R.state \notin {"OPEN", "UNINITIALIZED"},
         R.closesAt = round[r].closesAt,
         R.participantCountSnapshot = round[r].participantCountSnapshot,
         R.state = "CANDIDATE_VALIDITY_PENDING" => R.publicAggregateTwab # 0,
         UNCHANGED <<now, activeRoundId, participants, eligibilityStart, observations,
                     principal, preferenceObservations>>
  PROVE  VaultShape'
<1>1. /\ round \in [RoundIds -> Round] /\ activeRoundId \in RoundIds /\ activeRoundId \in Nat
      /\ RoundIds \subseteq Nat
  BY ShapeTypes, Configured
<1>2. round'[r] = R /\ \A s \in RoundIds : s # r => round'[s] = round[s]
  BY <1>1
<1>3. round' \in [RoundIds -> Round]
  BY <1>1
<1>4. VaultTypeOK'
  BY <1>3 DEF VaultShape, VaultTypeOK
<1>5. round'[activeRoundId] = round[activeRoundId]
  BY <1>1, <1>2
<1>6. \A s \in RoundIds : s > activeRoundId => round'[s] = round[s]
  BY <1>1, <1>2
<1>7. ASSUME NEW s \in RoundIds, s < activeRoundId
      PROVE  /\ Closed(s)'
             /\ round'[s].closesAt = round[s].closesAt
             /\ round'[s].participantCountSnapshot = round[s].participantCountSnapshot
  <2>1. CASE s = r
    BY <1>2, <2>1 DEF Closed
  <2>2. CASE s # r
    BY <1>2, <1>7, <2>2 DEF Closed, VaultShape, RoundsInOrder
  <2> QED BY <2>1, <2>2
<1>8. RoundsInOrder' /\ Registrations'
  <2>1. round[activeRoundId].state = "OPEN"
    BY DEF VaultShape, RoundsInOrder
  <2> QED BY <1>5, <1>6, <1>7, <2>1, RoundsKept
<1>9. Histories' /\ Preferences'
  BY DEF VaultShape, Histories, Preferences
<1>10. EligibleBalanceExact'
  BY <1>5 DEF VaultShape, EligibleBalanceExact, Registered
<1>11. DrawsHaveWeight'
  BY <1>2 DEF VaultShape, DrawsHaveWeight
<1> QED BY <1>4, <1>8, <1>9, <1>10, <1>11 DEF VaultShape

\* A step that moves one balance, accrues the active round for it, and touches
\* otherwise only records of closed rounds.
LEMMA BalanceShape ==
  ASSUME VaultShape, IsActiveRoundOpen, PrizeTypeOK',
         NEW w \in Accounts, NEW d \in Int, principal[w] + d \in Nat,
         NEW M \in SUBSET Accounts, w \in M,
         principal' = [principal EXCEPT ![w] = @ + d],
         observations' = [a \in Accounts |->
                            IF a \in M THEN CheckpointUser(observations[a], principal'[a], now)
                            ELSE observations[a]],
         NEW e, e = IF eligibilityStart[activeRoundId][w] # 0 THEN d ELSE 0,
         round' \in [RoundIds -> Round],
         \/ round'[activeRoundId] = Accrued(e)[activeRoundId]
         \/ e = 0 /\ round'[activeRoundId] = round[activeRoundId],
         \A r \in RoundIds : r < activeRoundId =>
           /\ Closed(r)'
           /\ round'[r].closesAt = round[r].closesAt
           /\ round'[r].participantCountSnapshot = round[r].participantCountSnapshot
           /\ round'[r].state = "CANDIDATE_VALIDITY_PENDING" =>
                round'[r].publicAggregateTwab # 0,
         \A r \in RoundIds : r > activeRoundId => round'[r] = round[r],
         UNCHANGED <<now, activeRoundId, participants, eligibilityStart, preferenceObservations>>
  PROVE  VaultShape'
<1> DEFINE R == round[activeRoundId]
           Q == round'[activeRoundId]
<1>1. /\ activeRoundId \in RoundIds /\ activeRoundId \in Nat /\ RoundIds \subseteq Nat /\ now \in Nat
      /\ principal \in [Accounts -> Nat]
  BY ShapeTypes, Configured
<1>2. R \in Round /\ R.eligibleBalance \in Nat
  BY ShapeTypes, RoundFields
<1>3. R.eligibleBalance + e \in Nat /\ R.eligibleBalance + e = Sum(Registered(activeRoundId, principal'))
  BY EligibleMoves
<1>4. e \in Int
  OBVIOUS
<1>5. /\ Q.state = R.state /\ Q.opensAt = R.opensAt /\ Q.closesAt = R.closesAt
      /\ \/ Q.eligibleTimestamp = R.eligibleTimestamp
         \/ Q.eligibleTimestamp = now /\ now < R.closesAt
      /\ Q.eligibleBalance = R.eligibleBalance + e
  <2>1. CASE Q = Accrued(e)[activeRoundId]
    <3> DEFINE c == R.eligibleCumulative + R.eligibleBalance * (now - R.eligibleTimestamp)
    <3>1. Q = [R EXCEPT !.eligibleCumulative = c, !.eligibleTimestamp = now,
                        !.eligibleBalance = R.eligibleBalance + e]
          /\ now < R.closesAt
      BY <1>3, <1>4, <2>1, AccruedRounds
    <3> HIDE DEF c
    <3>2. R \in [opensAt : Nat, closesAt : Nat, state : RoundState,
          aggregateTwab : Nat, publicAggregateTwab : Nat, publicPrize : Nat,
          reservedPrize : Nat, candidate : Nat, acceptedTicket : Nat,
          participantCountSnapshot : Nat, selectionCursor : Nat, allocationCursor : Nat,
          selectionCumulative : Nat, encryptedWinnerCount : Nat,
          reconciliationValid : BOOLEAN,
          eligibleBalance : Nat, eligibleCumulative : Nat, eligibleTimestamp : Nat]
      BY <1>2 DEF Round
    <3> QED BY <3>1, <3>2
  <2>2. CASE e = 0 /\ Q = R
    BY <1>2, <2>2
  <2> QED BY <2>1, <2>2
<1>6. R.state = "OPEN"
  BY DEF IsActiveRoundOpen
<1>7. RoundsInOrder' /\ Registrations'
  BY <1>5, <1>6, RoundsKept
<1>8. /\ principal' \in [Accounts -> Nat] /\ observations' \in [Accounts -> Seq(Checkpoint)]
      /\ Histories'
  BY BalanceMoves
<1>9. VaultTypeOK'
  BY <1>8 DEF VaultShape, VaultTypeOK
<1>10. Preferences'
  BY DEF VaultShape, Preferences
<1>11. EligibleBalanceExact'
  BY <1>3, <1>5 DEF EligibleBalanceExact, Registered
<1>12. DrawsHaveWeight'
  <2>1. ASSUME NEW r \in RoundIds, round'[r].state = "CANDIDATE_VALIDITY_PENDING"
        PROVE  round'[r].publicAggregateTwab # 0
    <3>1. CASE r < activeRoundId
      BY <2>1, <3>1
    <3>2. CASE r = activeRoundId
      BY <1>5, <1>6, <2>1, <3>2
    <3>3. CASE r > activeRoundId
      BY <2>1, <3>3 DEF VaultShape, DrawsHaveWeight
    <3> QED BY <1>1, <3>1, <3>2, <3>3
  <2> QED BY <2>1 DEF DrawsHaveWeight
<1> QED BY <1>7, <1>8, <1>9, <1>10, <1>11, <1>12 DEF VaultShape

\* Time passes.
LEMMA TickShape ==
  ASSUME VaultShape, Tick
  PROVE  VaultShape'
<1>1. now \in Nat /\ now' = now + 1 /\ now <= now'
  BY ShapeTypes DEF Tick
<1>2. UNCHANGED <<activeRoundId, round, participants, eligibilityStart, observations, principal,
                  preferenceObservations, winnings, winnerPredicate, validityProofs,
                  sponsoredPrize, publicSponsoredPrize, uncommittedYield, publicUncommittedYield>>
  BY DEF Tick, roundVars, saverVars, prizeVars
<1>3. VaultTypeOK' /\ PrizeTypeOK'
  BY <1>1, <1>2 DEF VaultShape, VaultTypeOK, PrizeTypeOK
<1>4. \A r \in RoundIds : round[r] \in Round /\ round[r].opensAt \in Nat /\ round[r].closesAt \in Nat
                          /\ round[r].eligibleTimestamp \in Nat
  BY ShapeTypes, RoundFields
<1>5. RoundsInOrder'
  <2>1. /\ round[activeRoundId].opensAt <= now'
        /\ round[activeRoundId].eligibleTimestamp <= now'
        /\ \A r \in RoundIds : r < activeRoundId => round[r].closesAt <= now'
    <3>1. /\ round[activeRoundId].opensAt <= now
          /\ round[activeRoundId].eligibleTimestamp <= now
          /\ \A r \in RoundIds : r < activeRoundId => round[r].closesAt <= now
      BY DEF VaultShape, RoundsInOrder
    <3>2. activeRoundId \in RoundIds
      BY ShapeTypes
    <3>3. \A t \in Nat : t <= now => t <= now'
      BY <1>1
    <3> QED BY <1>4, <3>1, <3>2, <3>3
  <2>2. \A r \in RoundIds : Closed(r)' = Closed(r)
    BY <1>2 DEF Closed
  <2> QED BY <1>2, <2>1, <2>2 DEF VaultShape, RoundsInOrder
<1>6. Registrations'
  <2>1. \A r \in RoundIds, a \in Accounts : eligibilityStart[r][a] \in Nat
    BY ShapeTypes
  <2>2. \A r \in RoundIds, a \in Accounts :
          eligibilityStart[r][a] # 0 => eligibilityStart[r][a] <= now'
    BY <1>1, <2>1 DEF VaultShape, Registrations
  <2> QED BY <1>2, <2>2 DEF VaultShape, Registrations, Members
<1>7. Histories'
  <2>1. ASSUME NEW a \in Accounts PROVE History(observations[a], now')
    <3>1. History(observations[a], now)
      BY DEF VaultShape, Histories
    <3>2. \A i \in DOMAIN observations[a] : observations[a][i].timestamp \in Nat
                                            /\ observations[a][i].timestamp <= now
      BY <1>1, <3>1, HistoryFacts
    <3>3. \A i \in DOMAIN observations[a] : observations[a][i].timestamp <= now'
      BY <1>1, <3>2
    <3> QED BY <3>1, <3>3 DEF History, InOrder
  <2> QED BY <1>2, <2>1 DEF VaultShape, Histories
<1>8. Preferences'
  <2>1. ASSUME NEW a \in Accounts PROVE InOrder(preferenceObservations[a], now')
    <3>1. preferenceObservations[a] \in Seq(Preference) /\ InOrder(preferenceObservations[a], now)
      BY DEF VaultShape, Preferences
    <3>2. \A i \in DOMAIN preferenceObservations[a] : preferenceObservations[a][i] \in Preference
      BY <3>1
    <3>3. \A i \in DOMAIN preferenceObservations[a] : preferenceObservations[a][i].timestamp \in Nat
      BY <3>2 DEF Preference
    <3>4. \A i \in DOMAIN preferenceObservations[a] : preferenceObservations[a][i].timestamp <= now'
      BY <1>1, <3>1, <3>3 DEF InOrder
    <3> QED BY <3>1, <3>4 DEF InOrder
  <2> QED BY <1>2, <2>1 DEF VaultShape, Preferences
<1>9. EligibleBalanceExact' /\ DrawsHaveWeight'
  BY <1>2 DEF VaultShape, EligibleBalanceExact, DrawsHaveWeight, Registered
<1> QED BY <1>3, <1>5, <1>6, <1>7, <1>8, <1>9 DEF VaultShape

\* The change of eligible balance of a deposit or withdrawal.
LEMMA EligibleAfterIs ==
  ASSUME VaultShape, IsActiveRoundOpen, NEW w \in Accounts, NEW d \in Int, principal[w] + d \in Nat,
         principal' = [principal EXCEPT ![w] = @ + d], round' = EligibleAfter(w, d)
  PROVE  LET e == IF eligibilityStart[activeRoundId][w] # 0 THEN d ELSE 0
         IN  /\ round' \in [RoundIds -> Round]
             /\ \/ round'[activeRoundId] = Accrued(e)[activeRoundId]
                \/ e = 0 /\ round'[activeRoundId] = round[activeRoundId]
             /\ \A r \in RoundIds : r # activeRoundId => round'[r] = round[r]
<1> DEFINE e == IF eligibilityStart[activeRoundId][w] # 0 THEN d ELSE 0
<1>0. e \in Int
  OBVIOUS
<1>1. round[activeRoundId].eligibleBalance + e \in Nat
  BY EligibleMoves
<1>2. CASE eligibilityStart[activeRoundId][w] # 0
  <2>1. round' = Accrued(e)
    BY <1>2 DEF EligibleAfter
  <2> QED BY <1>0, <1>1, <2>1, AccruedRounds
<1>3. CASE eligibilityStart[activeRoundId][w] = 0
  <2>1. round' = round /\ e = 0
    BY <1>3 DEF EligibleAfter
  <2> QED BY <2>1, ShapeTypes
<1> QED BY <1>2, <1>3

\* onConfidentialTransferReceived and withdraw: one balance moves by d.
LEMMA SaverShape ==
  ASSUME VaultShape, IsActiveRoundOpen, NEW w \in Accounts, NEW d \in Int, principal[w] + d \in Nat,
         principal' = [principal EXCEPT ![w] = principal[w] + d],
         observations' = [observations EXCEPT ![w] = CheckpointUser(@, principal[w] + d, now)],
         round' = EligibleAfter(w, d),
         UNCHANGED <<now, activeRoundId, participants, eligibilityStart, winnerPredicate,
                     validityProofs, prizeVars, preferenceObservations>>
  PROVE  VaultShape'
<1> DEFINE e == IF eligibilityStart[activeRoundId][w] # 0 THEN d ELSE 0
<1>1. PrizeTypeOK'
  BY DEF VaultShape, PrizeTypeOK, prizeVars
<1>2. principal' = [principal EXCEPT ![w] = @ + d] /\ principal'[w] = principal[w] + d
  BY ShapeTypes
<1>3. observations' = [a \in Accounts |->
                         IF a \in {w} THEN CheckpointUser(observations[a], principal'[a], now)
                         ELSE observations[a]]
  <2>1. observations \in [Accounts -> Seq(Checkpoint)]
    BY ShapeTypes
  <2> QED BY <1>2, <2>1
<1>4. /\ round' \in [RoundIds -> Round]
      /\ \/ round'[activeRoundId] = Accrued(e)[activeRoundId]
         \/ e = 0 /\ round'[activeRoundId] = round[activeRoundId]
      /\ \A r \in RoundIds : r # activeRoundId => round'[r] = round[r]
  BY <1>2, EligibleAfterIs
<1>5. activeRoundId \in Nat /\ RoundIds \subseteq Nat
  BY ShapeTypes, Configured
<1>6. ASSUME NEW r \in RoundIds, r < activeRoundId
      PROVE  /\ Closed(r)'
             /\ round'[r].closesAt = round[r].closesAt
             /\ round'[r].participantCountSnapshot = round[r].participantCountSnapshot
             /\ round'[r].state = "CANDIDATE_VALIDITY_PENDING" =>
                  round'[r].publicAggregateTwab # 0
  <2>1. round'[r] = round[r]
    BY <1>4, <1>5, <1>6
  <2> QED BY <1>6, <2>1 DEF VaultShape, RoundsInOrder, DrawsHaveWeight, Closed
<1>7. \A r \in RoundIds : r > activeRoundId => round'[r] = round[r]
  BY <1>4, <1>5
<1> DEFINE M == {w}
<1>8. M \in SUBSET Accounts /\ w \in M
  OBVIOUS
<1>9. e = IF eligibilityStart[activeRoundId][w] # 0 THEN d ELSE 0
  OBVIOUS
<1>10. observations' = [a \in Accounts |->
                         IF a \in M THEN CheckpointUser(observations[a], principal'[a], now)
                         ELSE observations[a]]
  BY <1>3
<1> HIDE DEF e, M
<1>11. UNCHANGED <<now, activeRoundId, participants, eligibilityStart, preferenceObservations>>
  OBVIOUS
<1>12. \A r \in RoundIds : r < activeRoundId =>
          /\ Closed(r)'
          /\ round'[r].closesAt = round[r].closesAt
          /\ round'[r].participantCountSnapshot = round[r].participantCountSnapshot
          /\ round'[r].state = "CANDIDATE_VALIDITY_PENDING" =>
               round'[r].publicAggregateTwab # 0
  BY <1>6
<1>13. principal' = [principal EXCEPT ![w] = @ + d]
  BY <1>2
<1>14. VaultShape /\ IsActiveRoundOpen /\ w \in Accounts /\ d \in Int /\ principal[w] + d \in Nat
  OBVIOUS
<1> QED BY ONLY <1>1, <1>13, <1>4, <1>12, <1>7, <1>8, <1>9, <1>10, <1>11, <1>14, BalanceShape

\* onConfidentialTransferReceived keeps the shape.
LEMMA DepositShape ==
  ASSUME VaultShape, NEW w \in Accounts, NEW amount \in Nat, Deposit(w, amount)
  PROVE  VaultShape'
<1> DEFINE accepted == amount <= MAX_POOL_BASE_UNITS - totalPrincipal /\ amount > 0
           d == IF accepted THEN amount ELSE 0
<1>1. /\ IsActiveRoundOpen
      /\ principal' = [principal EXCEPT ![w] = principal[w] + d]
      /\ observations' = [observations EXCEPT ![w] = CheckpointUser(@, principal[w] + d, now)]
      /\ round' = EligibleAfter(w, d)
      /\ UNCHANGED <<now, activeRoundId, participants, eligibilityStart, winnerPredicate,
                     validityProofs, prizeVars, preferenceObservations>>
  BY DEF Deposit
<1>2. d \in Int /\ d \in Nat
  OBVIOUS
<1> HIDE DEF d
<1>3. principal[w] + d \in Nat
  BY <1>2, ShapeTypes
<1>4. VaultShape /\ w \in Accounts
  OBVIOUS
<1> QED BY ONLY <1>1, <1>2, <1>3, <1>4, SaverShape

\* What a withdrawal sends is never more than the balance it is taken from.
LEMMA SentFits ==
  ASSUME NEW requested \in Nat, NEW balance \in Nat, NEW liquid
  PROVE  LET eligible == IF requested <= balance /\ requested <= liquid THEN requested ELSE 0
             sent == ConfidentialTransfer(eligible)
         IN  sent \in Nat /\ sent <= balance
BY DEF ConfidentialTransfer

\* withdraw keeps the shape.
LEMMA WithdrawShape ==
  ASSUME VaultShape, NEW w \in Accounts, NEW requested \in Nat, Withdraw(w, requested)
  PROVE  VaultShape'
<1> DEFINE eligible == IF requested <= principal[w] /\ requested <= liquidPrincipal
                       THEN requested ELSE 0
           sent == ConfidentialTransfer(eligible)
           d == -sent
<1>1. principal[w] \in Nat
  BY ShapeTypes
<1>2. sent \in Nat /\ sent <= principal[w]
  BY <1>1, SentFits
<1>3. /\ IsActiveRoundOpen
      /\ principal' = [principal EXCEPT ![w] = principal[w] - sent]
      /\ observations' = [observations EXCEPT ![w] = CheckpointUser(@, principal[w] - sent, now)]
      /\ round' = EligibleAfter(w, d)
      /\ UNCHANGED <<now, activeRoundId, participants, eligibilityStart, winnerPredicate,
                     validityProofs, prizeVars, preferenceObservations>>
  BY DEF Withdraw
<1> HIDE DEF sent
<1>4. d \in Int /\ principal[w] - sent = principal[w] + d /\ principal[w] + d \in Nat
  BY <1>1, <1>2
<1> HIDE DEF d
<1>5. /\ principal' = [principal EXCEPT ![w] = principal[w] + d]
      /\ observations' = [observations EXCEPT ![w] = CheckpointUser(@, principal[w] + d, now)]
  BY <1>3, <1>4
<1>6. VaultShape /\ w \in Accounts
  OBVIOUS
<1> QED BY ONLY <1>3, <1>4, <1>5, <1>6, SaverShape

\* The escrow's registerForRound with the vault's acceptBondRegistration keeps
\* the shape: the newcomer's balance joins the eligible balance.
LEMMA RegisterShape ==
  ASSUME VaultShape, NEW r \in RoundIds, NEW w \in Accounts, RegisterParticipant(r, w)
  PROVE  VaultShape'
<1> DEFINE R == round[r]
           Q == round'[r]
           d == principal[w]
<1>1. /\ r = activeRoundId /\ IsActiveRoundOpen /\ eligibilityStart[r][w] = 0
      /\ eligibilityStart' = [eligibilityStart EXCEPT ![r][w] = now]
      /\ participants' = [participants EXCEPT ![r] = Append(@, w)]
      /\ round' = Accrued(principal[w])
      /\ UNCHANGED <<now, activeRoundId, winnerPredicate, validityProofs, observations, principal,
                     preferenceObservations, prizeVars>>
  BY DEF RegisterParticipant, saverVars
<1>2. /\ r \in Nat /\ RoundIds \subseteq Nat /\ now \in Nat /\ now # 0 /\ d \in Nat /\ d \in Int
      /\ participants \in [RoundIds -> Seq(Accounts)]
      /\ eligibilityStart \in [RoundIds -> [Accounts -> Nat]]
      /\ principal \in [Accounts -> Nat]
  <2>1. principal \in [Accounts -> Nat]
    BY ShapeTypes
  <2>2. d \in Nat /\ d \in Int
    BY <2>1
  <2> HIDE DEF d
  <2> QED BY <2>1, <2>2, ShapeTypes, Configured
<1>3. R \in Round /\ R.eligibleBalance \in Nat /\ R.opensAt \in Nat /\ R.closesAt \in Nat
      /\ R.eligibleTimestamp \in Nat
  BY ShapeTypes, RoundFields
<1>4. R.eligibleBalance + d \in Nat
  BY <1>2, <1>3
<1>5. /\ round' \in [RoundIds -> Round]
      /\ \A s \in RoundIds : s # r => round'[s] = round[s]
      /\ now < R.closesAt
      /\ Q.state = R.state /\ Q.opensAt = R.opensAt /\ Q.closesAt = R.closesAt
      /\ Q.eligibleTimestamp = now
      /\ Q.eligibleBalance = R.eligibleBalance + d
  <2> DEFINE c == R.eligibleCumulative + R.eligibleBalance * (now - R.eligibleTimestamp)
  <2>1. /\ round' \in [RoundIds -> Round]
        /\ \A s \in RoundIds : s # r => round'[s] = round[s]
        /\ now < R.closesAt
        /\ Q = [R EXCEPT !.eligibleCumulative = c, !.eligibleTimestamp = now,
                         !.eligibleBalance = R.eligibleBalance + d]
    BY <1>1, <1>2, <1>4, AccruedRounds
  <2> HIDE DEF c
  <2> QED BY <1>3, <2>1 DEF Round
<1>6. participants' \in [RoundIds -> Seq(Accounts)]
      /\ eligibilityStart' \in [RoundIds -> [Accounts -> Nat]]
  BY <1>1, <1>2
<1>7. VaultTypeOK' /\ PrizeTypeOK'
  BY <1>1, <1>5, <1>6 DEF VaultShape, VaultTypeOK, PrizeTypeOK, prizeVars
<1>8. /\ participants'[r] = Append(participants[r], w)
      /\ \A s \in RoundIds : s # r =>
           participants'[s] = participants[s] /\ eligibilityStart'[s] = eligibilityStart[s]
      /\ eligibilityStart'[r][w] = now
      /\ \A a \in Accounts : a # w => eligibilityStart'[r][a] = eligibilityStart[r][a]
  BY <1>1, <1>2
<1>9. RoundsInOrder'
  <2>1. /\ R.state = "OPEN" /\ R.opensAt <= now /\ R.closesAt = R.opensAt + ROUND_DURATION
        /\ \A s \in RoundIds : s < r =>
             /\ Closed(s)
             /\ round[s].closesAt <= now
             /\ round[s].participantCountSnapshot = Len(participants[s])
        /\ \A s \in RoundIds : s > r => round[s] = UninitializedRound /\ participants[s] = <<>>
    BY <1>1 DEF VaultShape, RoundsInOrder
  <2>2. \A s \in RoundIds : (s < r \/ s > r) => s # r
    BY <1>2
  <2>3. \A s \in RoundIds : s < r => /\ Closed(s)'
                                     /\ round'[s].closesAt <= now
                                     /\ round'[s].participantCountSnapshot = Len(participants'[s])
    BY <1>5, <1>8, <2>1, <2>2 DEF Closed
  <2>4. \A s \in RoundIds : s > r => round'[s] = UninitializedRound /\ participants'[s] = <<>>
    BY <1>5, <1>8, <2>1, <2>2
  <2>5. now <= now /\ now <= R.closesAt
    BY <1>2, <1>3, <1>5
  <2> QED BY <1>1, <1>5, <2>1, <2>3, <2>4, <2>5 DEF RoundsInOrder
<1>10. Registrations'
  <2>1. ASSUME NEW s \in RoundIds, s # r
        PROVE  /\ \A i, j \in DOMAIN participants'[s] :
                    participants'[s][i] = participants'[s][j] => i = j
               /\ \A a \in Accounts : eligibilityStart'[s][a] # 0 <=> a \in Members(s)'
               /\ \A a \in Accounts : eligibilityStart'[s][a] # 0 =>
                    eligibilityStart'[s][a] <= now /\ eligibilityStart'[s][a] <= round'[s].closesAt
    <3>1. participants'[s] = participants[s] /\ eligibilityStart'[s] = eligibilityStart[s]
          /\ round'[s] = round[s]
      BY <1>5, <1>8, <2>1
    <3> QED BY <3>1 DEF VaultShape, Registrations, Members
  <2> DEFINE p == participants[r]
             n == Len(p)
  <2>2. p \in Seq(Accounts) /\ n \in Nat /\ DOMAIN p = 1..n /\ \A i \in 1..n : p[i] \in Accounts
    BY <1>2
  <2>3. /\ DOMAIN participants'[r] = 1..(n + 1) /\ participants'[r][n + 1] = w
        /\ \A i \in 1..n : participants'[r][i] = p[i]
    BY <1>8, <2>2
  <2>4. \A i \in 1..n : p[i] # w
    BY <1>1, <2>2 DEF VaultShape, Registrations, Members
  <2>5. \A i, j \in 1..n : p[i] = p[j] => i = j
    BY <2>2 DEF VaultShape, Registrations
  <2>6. \A i \in 1..(n + 1) : i \in 1..n \/ i = n + 1
    BY <2>2
  <2>7. \A i, j \in DOMAIN participants'[r] : participants'[r][i] = participants'[r][j] => i = j
    <3> HIDE DEF n, p
    <3> QED BY <2>3, <2>4, <2>5, <2>6
  <2>8. \A a \in Accounts : a \in Members(r)' <=> a \in Members(r) \/ a = w
    <3>1. \A a : a \in Members(r) <=> \E i \in 1..n : a = p[i]
      BY <2>2 DEF Members
    <3>2. \A a : a \in Members(r)' <=> \E i \in 1..(n + 1) : a = participants'[r][i]
      BY <2>3 DEF Members
    <3>3. n + 1 \in 1..(n + 1) /\ \A i \in 1..n : i \in 1..(n + 1)
      BY <2>2
    <3> HIDE DEF n, p
    <3> QED BY <2>3, <2>6, <3>1, <3>2, <3>3
  <2>9. \A a \in Accounts : eligibilityStart'[r][a] # 0 <=> a \in Members(r)'
    BY <1>2, <1>8, <2>8 DEF VaultShape, Registrations
  <2>10. \A a \in Accounts : eligibilityStart'[r][a] # 0 =>
           eligibilityStart'[r][a] <= now /\ eligibilityStart'[r][a] <= Q.closesAt
    <3>1. now <= now /\ now <= R.closesAt
      BY <1>2, <1>3, <1>5
    <3> QED BY <1>5, <1>8, <3>1 DEF VaultShape, Registrations
  <2> QED BY <1>1, <2>1, <2>7, <2>9, <2>10 DEF Registrations
<1>11. Histories' /\ Preferences'
  BY <1>1 DEF VaultShape, Histories, Preferences
<1>12. EligibleBalanceExact'
  <2> DEFINE f == Registered(r, principal)
             g == Registered(r, principal)'
  <2>1. f \in [Accounts -> Nat] /\ g \in [Accounts -> Nat]
    BY <1>1, <1>2 DEF Registered
  <2>2. (\A a \in Accounts \ {w} : g[a] = f[a]) /\ f[w] = 0 /\ g[w] = d
    BY <1>1, <1>2, <1>8 DEF Registered
  <2> HIDE DEF f, g
  <2>3. Sum(g) = Sum(f) - f[w] + g[w] /\ Sum(f) \in Nat
    BY <2>1, <2>2, Configured, SumMove
  <2>4. Sum(g) = Sum(f) + d
    BY <1>2, <2>2, <2>3
  <2>5. Sum(f) = R.eligibleBalance
    BY <1>1 DEF f, VaultShape, EligibleBalanceExact
  <2>6. Q.eligibleBalance = Sum(g)
    BY <1>5, <2>4, <2>5
  <2> QED BY <1>1, <2>6 DEF EligibleBalanceExact, g
<1>13. DrawsHaveWeight'
  <2>1. R.state = "OPEN"
    BY <1>1 DEF IsActiveRoundOpen
  <2> QED BY <1>5, <2>1 DEF VaultShape, DrawsHaveWeight
<1> QED BY <1>7, <1>9, <1>10, <1>11, <1>12, <1>13 DEF VaultShape

\* setAutoSavePreference keeps one preference per timestamp.
LEMMA PreferenceShape ==
  ASSUME VaultShape, NEW w \in Accounts, NEW autoSave \in BOOLEAN,
         SetAutoSavePreference(w, autoSave)
  PROVE  VaultShape'
<1> DEFINE s == preferenceObservations[w]
           q == preferenceObservations'[w]
           n == Len(s)
           entry == [timestamp |-> now, autoSave |-> autoSave]
<1>1. UNCHANGED <<now, activeRoundId, round, participants, eligibilityStart, winnerPredicate,
                  validityProofs, observations, principal, prizeVars>>
  BY DEF SetAutoSavePreference, roundVars, saverVars
<1>2. now \in Nat /\ preferenceObservations \in [Accounts -> Seq(Preference)]
  BY ShapeTypes
<1>3. entry \in Preference /\ entry.timestamp = now
  BY <1>2 DEF Preference
<1>4. /\ s \in Seq(Preference) /\ InOrder(s, now) /\ n \in Nat /\ DOMAIN s = 1..n
      /\ s # <<>> <=> n # 0
      /\ \A i \in 1..n : s[i] \in Preference
  BY <1>2 DEF VaultShape, Preferences
<1>5. \A i \in 1..n : s[i].timestamp \in Nat
  BY <1>4 DEF Preference
<1>6. /\ preferenceObservations' =
           [preferenceObservations EXCEPT
              ![w] = IF s # <<>> /\ s[n].timestamp = now
                     THEN [s EXCEPT ![n] = entry] ELSE Append(s, entry)]
  BY DEF SetAutoSavePreference, Last
<1> HIDE DEF entry
<1>7. q \in Seq(Preference) /\ InOrder(q, now)
  <2>1. CASE s # <<>> /\ s[n].timestamp = now
    <3>1. q = [s EXCEPT ![n] = entry]
      BY <1>2, <1>6, <2>1
    <3>2. n \in 1..n
      BY <1>4, <2>1
    <3>3. q \in Seq(Preference) /\ DOMAIN q = 1..n
      BY <1>3, <1>4, <3>1, <3>2
    <3>4. \A i \in 1..n : q[i].timestamp = s[i].timestamp
      BY <1>3, <1>4, <2>1, <3>1
    <3> QED BY <1>4, <3>3, <3>4 DEF InOrder
  <2>2. CASE ~(s # <<>> /\ s[n].timestamp = now)
    <3>1. q = Append(s, entry)
      BY <1>2, <1>6, <2>2
    <3>2. q \in Seq(Preference) /\ DOMAIN q = 1..(n + 1) /\ q[n + 1] = entry
          /\ \A i \in 1..n : q[i] = s[i]
      BY <1>3, <1>4, <3>1
    <3>3. \A i \in 1..n : s[i].timestamp < now
      <4> SUFFICES ASSUME NEW i \in 1..n PROVE s[i].timestamp < now
        OBVIOUS
      <4>1. n \in 1..n /\ s[n].timestamp <= now /\ s[n].timestamp # now
        BY <1>4, <2>2 DEF InOrder
      <4>2. i = n \/ s[i].timestamp < s[n].timestamp
        BY <1>4, <4>1 DEF InOrder
      <4> QED BY <1>2, <1>5, <4>1, <4>2
    <3>4. \A i \in 1..(n + 1) : i \in 1..n \/ i = n + 1
      BY <1>4
    <3>5. \A i, j \in 1..(n + 1) : i < j => i \in 1..n
      BY <1>4
    <3>6. \A i, j \in 1..n : i < j => s[i].timestamp < s[j].timestamp
      BY <1>4 DEF InOrder
    <3>7. \A i, j \in DOMAIN q : i < j => q[i].timestamp < q[j].timestamp
      <4> HIDE DEF n, q, s
      <4> QED BY <1>3, <3>2, <3>3, <3>4, <3>5, <3>6
    <3>8. \A i \in DOMAIN q : q[i].timestamp <= now
      <4>1. now <= now /\ \A i \in 1..n : s[i].timestamp <= now
        BY <1>2, <1>4 DEF InOrder
      <4> HIDE DEF n, q, s
      <4> QED BY <1>3, <3>2, <3>4, <4>1
    <3> QED BY <3>2, <3>7, <3>8 DEF InOrder
  <2> QED BY <2>1, <2>2
<1>8. /\ preferenceObservations' \in [Accounts -> Seq(Preference)]
      /\ \A a \in Accounts : a # w => preferenceObservations'[a] = preferenceObservations[a]
  <2>1. \A a \in Accounts : a # w => preferenceObservations'[a] = preferenceObservations[a]
    BY <1>2, <1>6
  <2>2. \A a \in Accounts : preferenceObservations'[a] \in Seq(Preference)
    BY <1>2, <1>7, <2>1
  <2>3. preferenceObservations' = [a \in Accounts |-> preferenceObservations'[a]]
    BY <1>2, <1>6
  <2> QED BY <2>1, <2>2, <2>3
<1>9. Preferences'
  BY <1>1, <1>7, <1>8 DEF VaultShape, Preferences
<1>10. VaultTypeOK' /\ PrizeTypeOK'
  BY <1>1, <1>8 DEF VaultShape, VaultTypeOK, PrizeTypeOK, prizeVars
<1>11. RoundsInOrder' /\ Registrations' /\ DrawsHaveWeight'
  BY <1>1 DEF VaultShape, RoundsInOrder, Registrations, DrawsHaveWeight, Closed, Members
<1>12. Histories' /\ EligibleBalanceExact'
  BY <1>1 DEF VaultShape, Histories, EligibleBalanceExact, Registered
<1> QED BY <1>9, <1>10, <1>11, <1>12 DEF VaultShape

\* closeRound keeps the shape: what it closes is over, what it opens is fresh.
LEMMA CloseShape ==
  ASSUME VaultShape, CloseRound
  PROVE  VaultShape'
<1> DEFINE r == activeRoundId
           q == r + 1
           P == round[r]
           R == AccrueEligible(P, P.closesAt)
           X == round'[r]
           Y == round'[q]
<1>1. /\ P.state = "OPEN" /\ P.closesAt <= now /\ q \in RoundIds /\ activeRoundId' = q
      /\ UNCHANGED <<now, participants, eligibilityStart, winnerPredicate, validityProofs,
                     observations, principal, preferenceObservations, winnings, sponsoredPrize,
                     publicSponsoredPrize>>
      /\ uncommittedYield' = 0 /\ publicUncommittedYield' = 0
  <2>1. now \in Nat /\ P.closesAt \in Nat
    BY ShapeTypes, RoundFields
  <2> QED BY <2>1 DEF CloseRound, saverVars
<1>2. /\ r \in RoundIds /\ r \in Nat /\ RoundIds \subseteq Nat /\ now \in Nat
      /\ round \in [RoundIds -> Round] /\ participants \in [RoundIds -> Seq(Accounts)]
      /\ sponsoredPrize \in [RoundIds -> Nat] /\ publicSponsoredPrize \in [RoundIds -> Nat]
      /\ uncommittedYield \in Nat /\ publicUncommittedYield \in Nat
  BY ShapeTypes, Configured
<1>3. P \in Round /\ P.closesAt \in Nat /\ P.eligibleTimestamp \in Nat /\ P.eligibleBalance \in Nat
      /\ P.eligibleCumulative \in Nat /\ P.opensAt \in Nat
  BY <1>2, RoundFields
<1>4. P.eligibleTimestamp <= P.closesAt
  BY DEF VaultShape, RoundsInOrder
<1> DEFINE c == P.eligibleCumulative + P.eligibleBalance * (P.closesAt - P.eligibleTimestamp)
           prize == sponsoredPrize[r] + uncommittedYield
           public == publicSponsoredPrize[r] + publicUncommittedYield
           count == Len(participants[r])
<1>5. c \in Nat
  <2>1. P.closesAt - P.eligibleTimestamp \in Nat
    BY <1>3, <1>4
  <2>2. P.eligibleBalance * (P.closesAt - P.eligibleTimestamp) \in Nat
    BY <1>3, <2>1, ProductNat
  <2> QED BY <1>3, <2>2
<1>6. prize \in Nat /\ public \in Nat /\ count \in Nat
  BY <1>2
<1>7. /\ R.eligibleCumulative = c /\ R.closesAt = P.closesAt
      /\ R = [P EXCEPT !.eligibleCumulative = c, !.eligibleTimestamp = P.closesAt]
  BY <1>3 DEF AccrueEligible, Round
<1> HIDE DEF c, prize, public, count
<1>8. round' = [round EXCEPT
        ![r] = [R EXCEPT !.aggregateTwab = c, !.publicPrize = public, !.reservedPrize = prize,
                         !.participantCountSnapshot = count, !.state = "AGGREGATE_PENDING"],
        ![q] = InitializeRound(P.closesAt)]
  BY <1>7 DEF CloseRound, c, prize, public, count
<1>9. r # q /\ \A s \in RoundIds : (s < q <=> s <= r) /\ (s > q => s > r /\ s # q /\ s # r)
      /\ (s <= r => s # q)
  BY <1>2
<1>10. /\ X = [R EXCEPT !.aggregateTwab = c, !.publicPrize = public, !.reservedPrize = prize,
                        !.participantCountSnapshot = count, !.state = "AGGREGATE_PENDING"]
       /\ Y = InitializeRound(P.closesAt)
       /\ \A s \in RoundIds : s # r /\ s # q => round'[s] = round[s]
  <2> DEFINE Z == [R EXCEPT !.aggregateTwab = c, !.publicPrize = public, !.reservedPrize = prize,
                            !.participantCountSnapshot = count, !.state = "AGGREGATE_PENDING"]
             I == InitializeRound(P.closesAt)
  <2>1. round' = [round EXCEPT ![r] = Z, ![q] = I]
    BY <1>8
  <2> HIDE DEF Z, I, R, q
  <2>2. round'[r] = Z /\ round'[q] = I /\ \A s \in RoundIds : s # r /\ s # q => round'[s] = round[s]
    BY <1>1, <1>2, <1>9, <2>1
  <2> QED BY <2>2 DEF Z, I
<1>11. /\ X \in Round /\ X.closesAt = P.closesAt /\ X.state = "AGGREGATE_PENDING"
       /\ X.participantCountSnapshot = count
  <2>1. R \in Round /\ R.closesAt = P.closesAt
    <3> HIDE DEF R
    <3> QED BY <1>3, <1>5, <1>7 DEF Round
  <2>2. X = [R EXCEPT !.aggregateTwab = c, !.publicPrize = public, !.reservedPrize = prize,
                      !.participantCountSnapshot = count, !.state = "AGGREGATE_PENDING"]
    BY <1>10
  <2> HIDE DEF X, R, P
  <2>3. "AGGREGATE_PENDING" \in RoundState
    BY DEF RoundState
  <2>4. X \in Round
    BY <1>5, <1>6, <2>1, <2>2, <2>3 DEF Round
  <2>5. X.closesAt = R.closesAt /\ X.state = "AGGREGATE_PENDING" /\ X.participantCountSnapshot = count
    BY <2>1, <2>2 DEF Round
  <2> QED BY <2>1, <2>4, <2>5
<1>12. Y \in Round /\ Y.opensAt = P.closesAt /\ Y.closesAt = P.closesAt + ROUND_DURATION
       /\ Y.state = "OPEN" /\ Y.eligibleTimestamp = P.closesAt /\ Y.eligibleBalance = 0
  <2> DEFINE t == P.closesAt
  <2>1. t \in Nat /\ Y = InitializeRound(t)
    BY <1>3, <1>10
  <2> HIDE DEF t, Y
  <2>2. Y \in Round /\ Y.opensAt = t /\ Y.closesAt = t + ROUND_DURATION
        /\ Y.state = "OPEN" /\ Y.eligibleTimestamp = t /\ Y.eligibleBalance = 0
    BY <2>1, FreshRounds
  <2> QED BY <2>2 DEF t
<1>13. round' \in [RoundIds -> Round]
  <2>1. \A s \in RoundIds : round'[s] \in Round
    BY <1>2, <1>10, <1>11, <1>12
  <2>2. round' = [s \in RoundIds |-> round'[s]]
    BY <1>2, <1>8
  <2> QED BY <2>1, <2>2
<1>14. VaultTypeOK' /\ PrizeTypeOK'
  BY <1>1, <1>13 DEF VaultShape, VaultTypeOK, PrizeTypeOK
<1> HIDE DEF R, X, Y
<1>15. RoundsInOrder'
  <2>1. ASSUME NEW s \in RoundIds, s < q
        PROVE  /\ Closed(s)'
               /\ round'[s].closesAt <= now
               /\ round'[s].participantCountSnapshot = Len(participants[s])
    <3>1. CASE s = r
      BY <1>1, <1>11, <3>1 DEF X, Closed, count
    <3>2. CASE s # r
      <4>1. round'[s] = round[s] /\ s < r
        BY <1>2, <1>9, <1>10, <2>1, <3>2
      <4> QED BY <4>1 DEF VaultShape, RoundsInOrder, Closed
    <3> QED BY <3>1, <3>2
  <2>2. ASSUME NEW s \in RoundIds, s > q
        PROVE  round'[s] = UninitializedRound /\ participants[s] = <<>>
    <3>1. round'[s] = round[s] /\ s > r
      BY <1>9, <1>10, <2>2
    <3> QED BY <3>1 DEF VaultShape, RoundsInOrder
  <2>3. P.closesAt <= P.closesAt /\ P.closesAt <= P.closesAt + ROUND_DURATION
    BY <1>3, Configured
  <2> HIDE DEF q
  <2> QED BY <1>1, <1>12, <2>1, <2>2, <2>3 DEF RoundsInOrder, Y
<1>16. q > r /\ participants[q] = <<>>
  BY <1>1, <1>2 DEF VaultShape, RoundsInOrder
<1>17. \A a \in Accounts : eligibilityStart[q][a] = 0
  BY <1>1, <1>16 DEF VaultShape, Registrations, Members
<1>18. Registrations'
  <2>1. \A s \in RoundIds : s # q => round'[s].closesAt = round[s].closesAt
    BY <1>10, <1>11 DEF X
  <2>2. \A s \in RoundIds, a \in Accounts :
          eligibilityStart[s][a] # 0 => eligibilityStart[s][a] <= round'[s].closesAt
    BY <1>17, <2>1 DEF VaultShape, Registrations
  <2> QED BY <1>1, <2>2 DEF VaultShape, Registrations, Members
<1>19. Histories' /\ Preferences'
  BY <1>1 DEF VaultShape, Histories, Preferences
<1>20. EligibleBalanceExact'
  <2> DEFINE g == Registered(q, principal)
  <2>1. g \in [Accounts -> Nat] /\ \A a \in Accounts : g[a] = 0
    BY <1>17 DEF Registered
  <2>2. Sum(g) = 0
    <3> HIDE DEF g
    <3> QED BY <2>1, SumZero
  <2>4. round'[q].eligibleBalance = 0
    BY <1>12 DEF Y
  <2> HIDE DEF q
  <2> QED BY <1>1, <2>2, <2>4 DEF EligibleBalanceExact, Registered
<1>21. DrawsHaveWeight'
  BY <1>10, <1>11, <1>12 DEF VaultShape, DrawsHaveWeight, X, Y
<1> QED BY <1>14, <1>15, <1>18, <1>19, <1>20, <1>21 DEF VaultShape

\* The steps that move prizes or native asset only.
LEMMA PayoutShape ==
  ASSUME VaultShape,
         \/ \E r \in RoundIds, amount \in Amounts : ContributeSponsor(r, amount)
         \/ \E harvested \in 1..MAX_YIELD : HarvestStrategyYield(harvested)
         \/ \E a \in Savers, amount \in Amounts : WithdrawWinnings(a, amount)
         \/ EscrowPayout
  PROVE  VaultShape'
<1>1. /\ Amounts \subseteq Nat /\ Savers \subseteq Accounts /\ \A y \in 1..MAX_YIELD : y \in Nat
  BY Configured
<1>2. CASE \E r \in RoundIds, amount \in Amounts : ContributeSponsor(r, amount)
  <2>1. PICK r \in RoundIds, amount \in Amounts : ContributeSponsor(r, amount)
    BY <1>2
  <2>2. PrizeTypeOK'
    BY <1>1, <2>1 DEF ContributeSponsor, VaultShape, PrizeTypeOK, roundVars
  <2> QED BY <2>1, <2>2, PrizeShape DEF ContributeSponsor, roundVars, saverVars
<1>3. CASE \E harvested \in 1..MAX_YIELD : HarvestStrategyYield(harvested)
  <2>1. PICK harvested \in 1..MAX_YIELD : HarvestStrategyYield(harvested)
    BY <1>3
  <2>2. PrizeTypeOK'
    BY <1>1, <2>1 DEF HarvestStrategyYield, VaultShape, PrizeTypeOK, roundVars
  <2> QED BY <2>1, <2>2, PrizeShape DEF HarvestStrategyYield, roundVars, saverVars
<1>4. CASE \E a \in Savers, amount \in Amounts : WithdrawWinnings(a, amount)
  <2>1. PICK a \in Savers, amount \in Amounts : WithdrawWinnings(a, amount)
    BY <1>4
  <2> DEFINE eligible == IF amount <= winnings[a] /\ amount <= liquidPrizeAssets
                         THEN amount ELSE 0
             sent == ConfidentialTransfer(eligible)
  <2>2. winnings \in [Accounts -> Nat] /\ winnings[a] \in Nat /\ a \in Accounts /\ amount \in Nat
    BY <1>1, ShapeTypes
  <2>3. sent \in Nat /\ sent <= winnings[a]
    BY <2>2, SentFits
  <2>4. winnings' = [winnings EXCEPT ![a] = @ - sent]
    BY <2>1 DEF WithdrawWinnings
  <2> HIDE DEF sent
  <2>5. winnings' \in [Accounts -> Nat]
    BY <2>2, <2>3, <2>4
  <2>6. PrizeTypeOK'
    BY <2>1, <2>5 DEF WithdrawWinnings, VaultShape, PrizeTypeOK, roundVars
  <2> QED BY <2>1, <2>6, PrizeShape DEF WithdrawWinnings, roundVars, saverVars
<1>5. CASE EscrowPayout
  <2>1. UNCHANGED <<now, activeRoundId, round, participants, eligibilityStart, observations,
                    principal, preferenceObservations, winnings, winnerPredicate, validityProofs,
                    sponsoredPrize, publicSponsoredPrize, uncommittedYield, publicUncommittedYield>>
    BY <1>5 DEF EscrowPayout, vaultVars, roundVars, saverVars, prizeVars
  <2>2. PrizeTypeOK'
    BY <2>1 DEF VaultShape, PrizeTypeOK
  <2> QED BY <2>1, <2>2, PrizeShape
<1> QED BY <1>2, <1>3, <1>4, <1>5

\* A settlement step that writes one record of a closed round.
LEMMA OnlyRoundShape ==
  ASSUME VaultShape, NEW r \in RoundIds, NEW R \in Round, OnlyRound(r, R),
         Closed(r), R.state \notin {"OPEN", "UNINITIALIZED"},
         R.closesAt = round[r].closesAt,
         R.participantCountSnapshot = round[r].participantCountSnapshot,
         R.state = "CANDIDATE_VALIDITY_PENDING" => R.publicAggregateTwab # 0,
         winnerPredicate' \in [RoundIds -> SUBSET Accounts],
         validityProofs' \in [RoundIds -> Seq(BOOLEAN)]
  PROVE  VaultShape'
<1>1. r < activeRoundId
  BY ClosedBefore DEF Closed
<1>2. PrizeTypeOK'
  BY DEF OnlyRound, VaultShape, PrizeTypeOK, prizeVars
<1>3. /\ round' = [round EXCEPT ![r] = R]
      /\ UNCHANGED <<now, activeRoundId, participants, eligibilityStart, observations,
                     principal, preferenceObservations>>
  BY DEF OnlyRound, saverVars
<1> QED BY <1>1, <1>2, <1>3, SettlementShape

\* finalizeAggregate keeps the shape.
LEMMA FinalizeAggregateShape ==
  ASSUME VaultShape, NEW r \in RoundIds, FinalizeAggregate(r)
  PROVE  VaultShape'
<1> DEFINE P == round[r]
           R == [P EXCEPT !.publicAggregateTwab = P.aggregateTwab,
                          !.state = IF P.aggregateTwab = 0 THEN "EMPTY" ELSE "AGGREGATE_FINALIZED"]
<1>1. OnlyRound(r, R) /\ Closed(r) /\ UNCHANGED <<winnerPredicate, validityProofs>>
  BY DEF FinalizeAggregate, Closed
<1>2. P \in Round /\ P.aggregateTwab \in Nat
  BY ShapeTypes, RoundFields
<1>3. /\ R \in Round /\ R.state \in {"EMPTY", "AGGREGATE_FINALIZED"}
      /\ R.closesAt = P.closesAt /\ R.participantCountSnapshot = P.participantCountSnapshot
  <2> HIDE DEF P
  <2> QED BY <1>2 DEF Round, RoundState
<1> HIDE DEF R
<1> QED BY <1>1, <1>3, OnlyRoundShape, ShapeTypes

\* generateRandomCandidate keeps the shape.
LEMMA GenerateShape ==
  ASSUME VaultShape, NEW r \in RoundIds, NEW c \in Nat, GenerateRandomCandidate(r, c)
  PROVE  VaultShape'
<1> DEFINE P == round[r]
           limit == AcceptanceLimit(P.publicAggregateTwab)
           drawn == [P EXCEPT !.candidate = c]
           T == [drawn EXCEPT !.acceptedTicket = c % P.publicAggregateTwab,
                              !.state = "TICKET_ACCEPTED"]
           V == [drawn EXCEPT !.state = "CANDIDATE_VALIDITY_PENDING"]
<1>1. Closed(r) /\ P.publicAggregateTwab # 0 /\ winnerPredicate' = winnerPredicate
  BY DEF GenerateRandomCandidate, DrawAllowed, Closed
<1>2. P \in Round /\ P.publicAggregateTwab \in Nat
  BY ShapeTypes, RoundFields
<1>3. c % P.publicAggregateTwab \in Nat
  BY <1>1, <1>2
<1>4. CASE OnlyRound(r, T) /\ validityProofs' = validityProofs
  <2> DEFINE k == c % P.publicAggregateTwab
  <2>1. /\ T \in Round /\ T.state = "TICKET_ACCEPTED"
        /\ T.closesAt = P.closesAt /\ T.participantCountSnapshot = P.participantCountSnapshot
    <3> HIDE DEF k, P
    <3> QED BY <1>2, <1>3 DEF Round, RoundState, k
  <2> HIDE DEF T
  <2> QED BY <1>1, <1>4, <2>1, OnlyRoundShape, ShapeTypes
<1>5. CASE OnlyRound(r, V) /\ validityProofs' = [validityProofs EXCEPT ![r] = Append(@, c < limit)]
  <2>1. /\ V \in Round /\ V.publicAggregateTwab # 0
        /\ V.closesAt = P.closesAt /\ V.participantCountSnapshot = P.participantCountSnapshot
        /\ V.state \notin {"OPEN", "UNINITIALIZED"}
    <3> HIDE DEF P
    <3> QED BY <1>1, <1>2 DEF Round, RoundState
  <2>2. validityProofs' \in [RoundIds -> Seq(BOOLEAN)]
    <3> DEFINE b == c < limit
    <3>1. b \in BOOLEAN /\ validityProofs' = [validityProofs EXCEPT ![r] = Append(@, b)]
      BY <1>5
    <3> HIDE DEF b
    <3> QED BY <3>1, ShapeTypes
  <2> HIDE DEF V
  <2> QED BY <1>1, <1>5, <2>1, <2>2, OnlyRoundShape, ShapeTypes
<1>6. \/ OnlyRound(r, T) /\ validityProofs' = validityProofs
      \/ OnlyRound(r, V) /\ validityProofs' = [validityProofs EXCEPT ![r] = Append(@, c < limit)]
  BY DEF GenerateRandomCandidate
<1> QED BY <1>4, <1>5, <1>6

\* finalizeCandidateValidity keeps the shape.
LEMMA ValidityShape ==
  ASSUME VaultShape, NEW r \in RoundIds, NEW k, FinalizeCandidateValidity(r, k)
  PROVE  VaultShape'
<1> DEFINE P == round[r]
           T == [P EXCEPT !.acceptedTicket = P.candidate % P.publicAggregateTwab,
                          !.state = "TICKET_ACCEPTED"]
           V == [P EXCEPT !.state = "CANDIDATE_REJECTED"]
<1>1. Closed(r) /\ P.publicAggregateTwab # 0 /\ UNCHANGED <<winnerPredicate, validityProofs>>
  BY DEF FinalizeCandidateValidity, Closed, VaultShape, DrawsHaveWeight
<1>2. P \in Round /\ P.publicAggregateTwab \in Nat /\ P.candidate \in Nat
  BY ShapeTypes, RoundFields
<1>3. P.candidate % P.publicAggregateTwab \in Nat
  BY <1>1, <1>2
<1>4. CASE OnlyRound(r, T)
  <2> DEFINE m == P.candidate % P.publicAggregateTwab
  <2>1. /\ T \in Round /\ T.state = "TICKET_ACCEPTED"
        /\ T.closesAt = P.closesAt /\ T.participantCountSnapshot = P.participantCountSnapshot
    <3> HIDE DEF m, P
    <3> QED BY <1>2, <1>3 DEF Round, RoundState, m
  <2> HIDE DEF T
  <2> QED BY <1>1, <1>4, <2>1, OnlyRoundShape, ShapeTypes
<1>5. CASE OnlyRound(r, V)
  <2>1. /\ V \in Round /\ V.state = "CANDIDATE_REJECTED"
        /\ V.closesAt = P.closesAt /\ V.participantCountSnapshot = P.participantCountSnapshot
    <3> HIDE DEF P
    <3> QED BY <1>2 DEF Round, RoundState
  <2> HIDE DEF V
  <2> QED BY <1>1, <1>5, <2>1, OnlyRoundShape, ShapeTypes
<1>6. OnlyRound(r, T) \/ OnlyRound(r, V)
  BY DEF FinalizeCandidateValidity
<1> QED BY <1>4, <1>5, <1>6

\* A pass over a closed round meets only its participants.
LEMMA SliceFacts ==
  ASSUME VaultShape, NEW r \in RoundIds, Closed(r), NEW cursor \in Nat, NEW n \in Nat
  PROVE  LET slice == Slice(round[r], cursor, n)
         IN  /\ IsFiniteSet(slice) /\ Cardinality(slice) \in Nat
             /\ slice \subseteq DOMAIN participants[r]
             /\ slice \subseteq Nat
             /\ DOMAIN participants[r] = 1..round[r].participantCountSnapshot
             /\ \A i \in DOMAIN participants[r] : participants[r][i] \in Accounts
             /\ {participants[r][i] : i \in slice} \subseteq Members(r)
             /\ Members(r) \subseteq Accounts
             /\ cursor <= round[r].participantCountSnapshot =>
                  /\ cursor + Cardinality(slice) <= round[r].participantCountSnapshot
                  /\ slice = (cursor + 1)..(cursor + Cardinality(slice))
             /\ Cardinality(slice) # 0 => cursor < round[r].participantCountSnapshot
<1> DEFINE s == round[r].participantCountSnapshot
           top == IF cursor + n > s THEN s ELSE cursor + n
           slice == (cursor + 1)..top
<1>1. r < activeRoundId
  BY ClosedBefore DEF Closed
<1>2. s = Len(participants[r]) /\ participants[r] \in Seq(Accounts)
  BY <1>1, ShapeTypes DEF VaultShape, RoundsInOrder
<1>3. s \in Nat /\ DOMAIN participants[r] = 1..s /\ \A i \in 1..s : participants[r][i] \in Accounts
  BY <1>2
<1>4. top \in Nat /\ top <= s /\ cursor + 1 \in Nat
  BY <1>3
<1>5. slice \subseteq 1..s /\ slice \subseteq Nat
  BY <1>3, <1>4
<1>6. /\ IsFiniteSet(slice)
      /\ Cardinality(slice) = IF cursor + 1 > top THEN 0 ELSE top - (cursor + 1) + 1
  <2> HIDE DEF top
  <2>1. top \in Int /\ cursor + 1 \in Int
    BY <1>4
  <2> QED BY <2>1, FS_Interval
<1>7. Cardinality(slice) \in Nat
  BY <1>6, FS_CardinalityType
<1>8. cursor <= s => /\ cursor + Cardinality(slice) <= s
                     /\ slice = (cursor + 1)..(cursor + Cardinality(slice))
  <2>1. ASSUME cursor <= s PROVE cursor + Cardinality(slice) = top
    <3> DEFINE k == Cardinality(slice)
    <3>1. k = IF cursor + 1 > top THEN 0 ELSE top - (cursor + 1) + 1
      BY <1>6
    <3>2. cursor <= top
      BY <1>3, <2>1
    <3> HIDE DEF k, top, slice
    <3>3. cursor + k = top
      BY <1>4, <3>1, <3>2
    <3> QED BY <3>3 DEF k
  <2> QED BY <1>4, <2>1
<1>9. {participants[r][i] : i \in slice} \subseteq Members(r) /\ Members(r) \subseteq Accounts
  BY <1>3, <1>5 DEF Members
<1>10. Slice(round[r], cursor, n) = slice
  BY DEF Slice
<1>11. Cardinality(slice) # 0 => cursor < s
  BY <1>3, <1>4, <1>6
<1> HIDE DEF slice, s
<1> QED BY <1>3, <1>5, <1>6, <1>7, <1>8, <1>9, <1>10, <1>11 DEF s

\* What _roundWeight gives a participant of any round is a number.
LEMMA WeightType ==
  ASSUME VaultShape, NEW r \in RoundIds, NEW a \in Accounts, a \in Members(r)
  PROVE  RoundWeight(r, a) \in Nat
<1> DEFINE s == observations[a]
           t == eligibilityStart[r][a]
           v == round[r].closesAt
<1>1. History(s, now) /\ now \in Nat
  BY ShapeTypes DEF VaultShape, Histories
<1>2. t # 0 /\ t <= v
  BY DEF VaultShape, Registrations
<1>3. t \in Nat /\ v \in Nat
  BY ShapeTypes, RoundFields
<1> HIDE DEF s, t, v
<1>4. CumulativeAt(s, t) \in Nat /\ CumulativeAt(s, v) \in Nat
      /\ CumulativeAt(s, t) <= CumulativeAt(s, v)
  BY <1>1, <1>2, <1>3, CumulativeType, CumulativeMonotone
<1>5. RoundWeight(r, a) = CumulativeAt(s, v) - CumulativeAt(s, t)
  BY DEF RoundWeight, s, t, v
<1> QED BY <1>4, <1>5

\* What processSelection does to a round: the participants W that it finds to
\* be winners join the winners and are counted.
SelectionStep(r, W, cursor, cumulative, count, valid) ==
  /\ round[r].state \in {"TICKET_ACCEPTED", "WINNER_PROCESSING"}
  /\ count = round[r].encryptedWinnerCount + Cardinality(W)
  /\ valid => count = 1
  /\ OnlyRound(r, [round[r] EXCEPT !.selectionCursor = cursor,
                                   !.selectionCumulative = cumulative,
                                   !.encryptedWinnerCount = count,
                                   !.reconciliationValid = valid,
                                   !.state = IF cursor = round[r].participantCountSnapshot
                                             THEN "RECONCILIATION_PENDING"
                                             ELSE "WINNER_PROCESSING"])
  /\ winnerPredicate' = [winnerPredicate EXCEPT ![r] = @ \cup W]
  /\ validityProofs' = validityProofs

\* processSelection is such a step.
LEMMA SelectionIs ==
  ASSUME VaultShape, NEW r \in RoundIds, NEW n \in Nat, NEW p, ProcessSelection(r, n, p)
  PROVE  \E W \in SUBSET Members(r), cursor \in Nat, cumulative \in Nat, count \in Nat,
            valid \in BOOLEAN :
           /\ SelectionStep(r, W, cursor, cumulative, count, valid)
           /\ IsFiniteSet(W) /\ Cardinality(W) \in Nat
<1> DEFINE R == round[r]
           slice == Slice(R, R.selectionCursor, n)
           weight == [i \in slice |-> RoundWeight(r, participants[r][i])]
           intervalStart(i) == R.selectionCumulative + Sum([j \in {j \in slice : j < i} |-> weight[j]])
           W == {participants[r][i] : i \in {i \in slice :
                   /\ intervalStart(i) <= R.acceptedTicket
                   /\ R.acceptedTicket < intervalStart(i) + weight[i]
                   /\ weight[i] > 0}}
           cursor == R.selectionCursor + Cardinality(slice)
           cumulative == R.selectionCumulative + Sum(weight)
           count == R.encryptedWinnerCount + Cardinality(W)
           done == cursor = R.participantCountSnapshot
           valid == done /\ cumulative = R.publicAggregateTwab /\ count = 1
           state == IF done THEN "RECONCILIATION_PENDING" ELSE "WINNER_PROCESSING"
<1>1. /\ R.state \in {"TICKET_ACCEPTED", "WINNER_PROCESSING"} /\ Closed(r)
      /\ OnlyRound(r, [R EXCEPT !.selectionCursor = cursor,
                                !.selectionCumulative = cumulative,
                                !.encryptedWinnerCount = count,
                                !.reconciliationValid = valid,
                                !.state = state])
      /\ winnerPredicate' = [winnerPredicate EXCEPT ![r] = @ \cup W]
      /\ validityProofs' = validityProofs
  BY DEF ProcessSelection, Closed
<1>2. R \in Round /\ R.selectionCursor \in Nat /\ R.selectionCumulative \in Nat
      /\ R.encryptedWinnerCount \in Nat
  BY ShapeTypes, RoundFields
<1>3. /\ IsFiniteSet(slice) /\ Cardinality(slice) \in Nat
      /\ slice \subseteq DOMAIN participants[r]
      /\ {participants[r][i] : i \in slice} \subseteq Members(r)
      /\ Members(r) \subseteq Accounts
  BY <1>1, <1>2, SliceFacts
<1> HIDE DEF slice
<1>4. weight \in [slice -> Nat]
  <2>1. ASSUME NEW i \in slice PROVE RoundWeight(r, participants[r][i]) \in Nat
    <3> DEFINE a == participants[r][i]
    <3>1. a \in Members(r) /\ a \in Accounts
      BY <1>3
    <3> HIDE DEF a
    <3>2. RoundWeight(r, a) \in Nat
      BY <3>1, WeightType
    <3> QED BY <3>2 DEF a
  <2> QED BY <2>1
<1> HIDE DEF weight
<1>5. Sum(weight) \in Nat
  BY <1>3, <1>4, SumType
<1>6. W \in SUBSET Members(r)
  BY <1>3
<1> HIDE DEF W
<1>7. IsFiniteSet(W) /\ Cardinality(W) \in Nat
  BY <1>3, <1>6, Configured, FS_Subset, FS_CardinalityType
<1>8. cursor \in Nat /\ cumulative \in Nat /\ count \in Nat
  BY <1>2, <1>3, <1>5, <1>7
<1>9. count = R.encryptedWinnerCount + Cardinality(W)
  OBVIOUS
<1> HIDE DEF cursor, cumulative, count
<1>10. valid \in BOOLEAN /\ (valid => count = 1)
  OBVIOUS
<1> HIDE DEF valid
<1>11. SelectionStep(r, W, cursor, cumulative, count, valid)
  BY <1>1, <1>9, <1>10 DEF SelectionStep
<1> QED BY <1>6, <1>7, <1>8, <1>10, <1>11

\* processSelection keeps the shape.
LEMMA SelectionShape ==
  ASSUME VaultShape, NEW r \in RoundIds, NEW n \in Nat, NEW p, ProcessSelection(r, n, p)
  PROVE  VaultShape'
<1>1. PICK W \in SUBSET Members(r), cursor \in Nat, cumulative \in Nat, count \in Nat,
           valid \in BOOLEAN : SelectionStep(r, W, cursor, cumulative, count, valid)
  BY SelectionIs
<1> DEFINE P == round[r]
           state == IF cursor = P.participantCountSnapshot
                    THEN "RECONCILIATION_PENDING" ELSE "WINNER_PROCESSING"
           R == [P EXCEPT !.selectionCursor = cursor,
                          !.selectionCumulative = cumulative,
                          !.encryptedWinnerCount = count,
                          !.reconciliationValid = valid,
                          !.state = state]
<1>2. P \in Round
  BY ShapeTypes
<1>3. /\ R \in Round /\ R.state = state
      /\ R.closesAt = P.closesAt /\ R.participantCountSnapshot = P.participantCountSnapshot
  <2>1. state \in RoundState
    BY DEF RoundState
  <2> HIDE DEF P, state
  <2> QED BY <1>2, <2>1 DEF Round
<1>4. winnerPredicate' \in [RoundIds -> SUBSET Accounts]
  <2>1. Members(r) \subseteq Accounts
    <3>1. participants[r] \in Seq(Accounts)
      BY ShapeTypes
    <3> QED BY <3>1 DEF Members
  <2> QED BY <1>1, <2>1, ShapeTypes DEF SelectionStep
<1>5. OnlyRound(r, R) /\ Closed(r) /\ validityProofs' \in [RoundIds -> Seq(BOOLEAN)]
  BY <1>1, ShapeTypes DEF SelectionStep, Closed
<1>6. R.state \notin {"OPEN", "UNINITIALIZED", "CANDIDATE_VALIDITY_PENDING"}
  BY <1>3
<1> HIDE DEF R
<1> QED BY <1>3, <1>4, <1>5, <1>6, OnlyRoundShape

\* finalizeSelectionReconciliation keeps the shape.
LEMMA ReconciliationShape ==
  ASSUME VaultShape, NEW r \in RoundIds, NEW valid \in BOOLEAN,
         FinalizeSelectionReconciliation(r, valid)
  PROVE  VaultShape'
<1> DEFINE P == round[r]
           R == [P EXCEPT !.state = IF valid THEN "READY_TO_ALLOCATE" ELSE "RECONCILIATION_FAILED"]
<1>1. OnlyRound(r, R) /\ Closed(r) /\ UNCHANGED <<winnerPredicate, validityProofs>>
  BY DEF FinalizeSelectionReconciliation, Closed
<1>2. P \in Round
  BY ShapeTypes
<1>3. /\ R \in Round /\ R.state \in {"READY_TO_ALLOCATE", "RECONCILIATION_FAILED"}
      /\ R.closesAt = P.closesAt /\ R.participantCountSnapshot = P.participantCountSnapshot
  <2> HIDE DEF P
  <2> QED BY <1>2 DEF Round, RoundState
<1> HIDE DEF R
<1> QED BY <1>1, <1>3, OnlyRoundShape, ShapeTypes

\* finalizeSettlement keeps the shape.
LEMMA FinalizeSettlementShape ==
  ASSUME VaultShape, NEW r \in RoundIds, FinalizeSettlement(r)
  PROVE  VaultShape'
<1> DEFINE P == round[r]
           R == [P EXCEPT !.state = "SETTLED"]
<1>1. OnlyRound(r, R) /\ Closed(r) /\ UNCHANGED <<winnerPredicate, validityProofs>>
  BY DEF FinalizeSettlement, Closed
<1>2. P \in Round
  BY ShapeTypes
<1>3. /\ R \in Round /\ R.state = "SETTLED"
      /\ R.closesAt = P.closesAt /\ R.participantCountSnapshot = P.participantCountSnapshot
  <2> HIDE DEF P
  <2> QED BY <1>2 DEF Round, RoundState
<1> HIDE DEF R
<1> QED BY <1>1, <1>3, OnlyRoundShape, ShapeTypes

\* _rollPrizeForward keeps the shape.
LEMMA RollForwardShape ==
  ASSUME VaultShape, NEW r \in RoundIds, RollPrizeForward(r), Closed(r)
  PROVE  VaultShape'
<1> DEFINE P == round[r]
           R == [P EXCEPT !.reservedPrize = 0, !.state = "SETTLED"]
<1>1. P \in Round /\ P.reservedPrize \in Nat /\ P.publicPrize \in Nat
  BY ShapeTypes, RoundFields
<1>2. /\ R \in Round /\ R.state = "SETTLED"
      /\ R.closesAt = P.closesAt /\ R.participantCountSnapshot = P.participantCountSnapshot
  <2> HIDE DEF P
  <2> QED BY <1>1 DEF Round, RoundState
<1>3. round' = [round EXCEPT ![r] = R]
  BY ShapeTypes DEF RollPrizeForward
<1>4. r < activeRoundId
  BY ClosedBefore DEF Closed
<1>5. PrizeTypeOK'
  <2> DEFINE x == P.reservedPrize
             y == P.publicPrize
  <2>1. /\ sponsoredPrize' = [sponsoredPrize EXCEPT ![activeRoundId] = @ + x]
        /\ publicSponsoredPrize' = [publicSponsoredPrize EXCEPT ![activeRoundId] = @ + y]
    BY DEF RollPrizeForward
  <2>2. x \in Nat /\ y \in Nat
    BY <1>1
  <2> HIDE DEF x, y
  <2>3. sponsoredPrize' \in [RoundIds -> Nat] /\ publicSponsoredPrize' \in [RoundIds -> Nat]
    <3>1. sponsoredPrize \in [RoundIds -> Nat] /\ publicSponsoredPrize \in [RoundIds -> Nat]
          /\ activeRoundId \in RoundIds
      BY ShapeTypes
    <3> QED BY ONLY <2>1, <2>2, <3>1
  <2> QED BY <2>3 DEF RollPrizeForward, VaultShape, PrizeTypeOK
<1>6. UNCHANGED <<now, activeRoundId, participants, eligibilityStart, observations,
                  principal, preferenceObservations>>
  BY DEF RollPrizeForward, saverVars
<1> HIDE DEF R
<1> QED BY <1>2, <1>3, <1>4, <1>5, <1>6, SettlementShape

\* What processAllocation does, with the participants M it meets, the one w of
\* them that the prize goes to, the part d of it that becomes principal, and
\* the cursor it leaves.
AllocationStep(r, M, w, prize, d, cursor) ==
  LET e == IF eligibilityStart[activeRoundId][w] # 0 THEN d ELSE 0
      R == round[r]
  IN  /\ IsActiveRoundOpen
      /\ Closed(r) /\ R.state \in {"READY_TO_ALLOCATE", "ALLOCATION_PROCESSING"}
      /\ w \in M /\ cursor # 0
      /\ \/ w \in winnerPredicate[r] /\ prize = R.reservedPrize
         \/ M \cap winnerPredicate[r] = {} /\ prize = 0
      /\ d = 0 \/ (d = prize /\ d <= MAX_POOL_BASE_UNITS - totalPrincipal)
      /\ \A i \in DOMAIN participants[r] :
           i <= cursor => i <= R.allocationCursor \/ participants[r][i] \in M
      /\ principal' = [principal EXCEPT ![w] = @ + d]
      /\ observations' = [a \in Accounts |->
                            IF a \in M THEN CheckpointUser(observations[a], principal'[a], now)
                            ELSE observations[a]]
      /\ totalPrincipal' = totalPrincipal + d
      /\ liquidPrincipal' = liquidPrincipal + d
      /\ winnings' = [winnings EXCEPT ![w] = @ + (prize - d)]
      /\ winningsLiability' = winningsLiability + (prize - d)
      /\ liquidPrizeAssets' = liquidPrizeAssets - d
      /\ reservedPrize' = reservedPrize - prize
      /\ round[activeRoundId].eligibleBalance + e \in Nat
      /\ round' \in [RoundIds -> Round]
      /\ round'[activeRoundId] = Accrued(e)[activeRoundId]
      /\ round'[r] = [R EXCEPT !.reservedPrize = R.reservedPrize - prize,
                               !.allocationCursor = cursor,
                               !.state = IF cursor = R.participantCountSnapshot
                                         THEN "WINNINGS_ALLOCATED" ELSE "ALLOCATION_PROCESSING"]
      /\ \A s \in RoundIds : s # r /\ s # activeRoundId => round'[s] = round[s]
      /\ UNCHANGED <<now, activeRoundId, participants, eligibilityStart, winnerPredicate,
                     validityProofs, preferenceObservations, assetBalance, realizedSurplus,
                     sponsoredPrize, publicSponsoredPrize, uncommittedYield,
                     publicUncommittedYield>>

\* The first winner of a slice takes the whole reserved prize, or there is no
\* winner in it and nobody takes anything.
LEMMA AllocationTaker ==
  ASSUME VaultShape, NEW r \in RoundIds, NEW slice \in SUBSET Nat, slice # {}
  PROVE  LET A == Allocation(r, slice)
             M == {participants[r][i] : i \in slice}
         IN  \E w \in M :
               /\ \/ A.taker = {w} /\ w \in winnerPredicate[r] /\ A.prize = round[r].reservedPrize
                  \/ A.taker = {} /\ M \cap winnerPredicate[r] = {} /\ A.prize = 0
               /\ \/ A.autoSaved = 0
                  \/ A.autoSaved = A.prize /\ A.prize <= MAX_POOL_BASE_UNITS - totalPrincipal
<1> DEFINE p == participants[r]
           C == winnerPredicate[r]
           W == {i \in slice : p[i] \in C}
           first == {i \in slice : p[i] \in C /\ \A j \in slice : p[j] \in C => i <= j}
           taker == {p[i] : i \in first}
           prize == IF first = {} THEN 0 ELSE round[r].reservedPrize
           A == Allocation(r, slice)
           M == {p[i] : i \in slice}
<1> SUFFICES \E w \in M :
      /\ \/ A.taker = {w} /\ w \in C /\ A.prize = round[r].reservedPrize
         \/ A.taker = {} /\ M \cap C = {} /\ A.prize = 0
      /\ \/ A.autoSaved = 0
         \/ A.autoSaved = A.prize /\ A.prize <= MAX_POOL_BASE_UNITS - totalPrincipal
  OBVIOUS
<1>1. A.taker = taker /\ A.prize = prize
  BY DEF Allocation
<1>2. A.autoSaved = 0 \/ (A.autoSaved = prize /\ prize <= MAX_POOL_BASE_UNITS - totalPrincipal)
  BY DEF Allocation
<1> HIDE DEF A
<1>3. CASE W = {}
  <2>1. first = {} /\ taker = {} /\ prize = 0
    BY <1>3
  <2>2. PICK i \in slice : TRUE
    OBVIOUS
  <2>3. M \cap C = {} /\ p[i] \in M
    BY <1>3, <2>2
  <2> HIDE DEF M, taker, prize
  <2> QED BY <1>1, <1>2, <2>1, <2>2, <2>3
<1>4. CASE W # {}
  <2>1. W \in SUBSET Nat
    OBVIOUS
  <2>2. PICK i \in W : \A j \in W : i <= j
    <3> HIDE DEF W
    <3> QED BY <1>4, <2>1, LeastNatural
  <2>3. i \in slice /\ p[i] \in C /\ i \in first
    BY <2>2
  <2>4. \A j \in first : j = i
    <3> SUFFICES ASSUME NEW j \in first PROVE j = i
      OBVIOUS
    <3>1. j \in slice /\ p[j] \in C /\ j <= i
      BY <2>3
    <3>2. i <= j
      BY <2>2, <3>1
    <3>3. i \in Nat /\ j \in Nat
      BY <2>3, <3>1
    <3> QED BY <3>1, <3>2, <3>3
  <2>5. taker = {p[i]} /\ prize = round[r].reservedPrize /\ p[i] \in M
    BY <2>3, <2>4
  <2> HIDE DEF M, taker, prize
  <2> QED BY <1>1, <1>2, <2>3, <2>5
<1> QED BY <1>3, <1>4

\* processAllocation is such a step.
LEMMA AllocationIs ==
  ASSUME VaultShape, NEW r \in RoundIds, NEW n \in Nat, NEW p, ProcessAllocation(r, n, p)
  PROVE  \E M \in SUBSET Members(r), w \in Accounts, prize \in Nat, d \in Nat, cursor \in Nat :
           AllocationStep(r, M, w, prize, d, cursor)
<1> DEFINE R == round[r]
           slice == Slice(R, R.allocationCursor, n)
           M == {participants[r][i] : i \in slice}
           A == Allocation(r, slice)
           prize == A.prize
           d == A.autoSaved
           eligible == IF \E a \in A.taker : eligibilityStart[activeRoundId][a] # 0 THEN d ELSE 0
           cursor == R.allocationCursor + Cardinality(slice)
           state == IF cursor = R.participantCountSnapshot
                    THEN "WINNINGS_ALLOCATED" ELSE "ALLOCATION_PROCESSING"
<1>1. /\ IsActiveRoundOpen
      /\ R.state \in {"READY_TO_ALLOCATE", "ALLOCATION_PROCESSING"} /\ Closed(r)
      /\ Cardinality(slice) # 0
      /\ principal' = [a \in Accounts |-> principal[a] + (IF a \in A.taker THEN d ELSE 0)]
      /\ observations' = [a \in Accounts |->
                            IF a \in M THEN CheckpointUser(observations[a], principal'[a], now)
                            ELSE observations[a]]
      /\ totalPrincipal' = totalPrincipal + d
      /\ liquidPrincipal' = liquidPrincipal + d
      /\ winnings' = [a \in Accounts |-> winnings[a] + (IF a \in A.taker THEN prize - d ELSE 0)]
      /\ winningsLiability' = winningsLiability + (prize - d)
      /\ liquidPrizeAssets' = liquidPrizeAssets - d
      /\ reservedPrize' = reservedPrize - prize
      /\ round' = [Accrued(eligible) EXCEPT ![r].reservedPrize = @ - prize,
                                            ![r].allocationCursor = cursor,
                                            ![r].state = state]
      /\ UNCHANGED <<now, activeRoundId, participants, eligibilityStart, winnerPredicate,
                     validityProofs, preferenceObservations, assetBalance, realizedSurplus,
                     sponsoredPrize, publicSponsoredPrize, uncommittedYield,
                     publicUncommittedYield>>
  BY DEF ProcessAllocation, Kept, Closed, CreditProgress
<1>2. R \in Round /\ R.allocationCursor \in Nat /\ R.reservedPrize \in Nat
      /\ R.participantCountSnapshot \in Nat
  BY ShapeTypes, RoundFields
<1>3. /\ IsFiniteSet(slice) /\ Cardinality(slice) \in Nat /\ slice \subseteq Nat
      /\ slice \subseteq DOMAIN participants[r] /\ DOMAIN participants[r] \subseteq Nat
      /\ M \subseteq Members(r) /\ Members(r) \subseteq Accounts
      /\ slice = (R.allocationCursor + 1)..cursor
  <2>1. DOMAIN participants[r] = 1..R.participantCountSnapshot
    BY <1>1, <1>2, SliceFacts
  <2>2. R.allocationCursor < R.participantCountSnapshot
    BY <1>1, <1>2, SliceFacts
  <2>3. R.allocationCursor <= R.participantCountSnapshot
    BY <1>2, <2>2
  <2>4. slice = (R.allocationCursor + 1)..cursor
    BY <1>1, <1>2, <2>3, SliceFacts
  <2>5. 1..R.participantCountSnapshot \subseteq Nat
    BY <1>2
  <2>6. /\ IsFiniteSet(slice) /\ Cardinality(slice) \in Nat /\ slice \subseteq Nat
        /\ slice \subseteq DOMAIN participants[r]
        /\ M \subseteq Members(r) /\ Members(r) \subseteq Accounts
    BY <1>1, <1>2, SliceFacts
  <2> HIDE DEF slice
  <2> QED BY <2>1, <2>4, <2>5, <2>6
<1>4. slice # {}
  BY <1>1, FS_EmptySet
<1>5. cursor \in Nat /\ cursor # 0
  <2>1. Cardinality(slice) # 0
    BY <1>1
  <2> HIDE DEF slice
  <2> QED BY <1>2, <1>3, <2>1
<1>6. \A i \in DOMAIN participants[r] :
        i <= cursor => i <= R.allocationCursor \/ participants[r][i] \in M
  <2> SUFFICES ASSUME NEW i \in DOMAIN participants[r], i <= cursor, ~(i <= R.allocationCursor)
               PROVE  participants[r][i] \in M
    OBVIOUS
  <2>1. i \in Nat
    BY <1>3
  <2> HIDE DEF slice, cursor
  <2>2. i \in slice
    BY <1>2, <1>3, <1>5, <2>1
  <2> QED BY <2>2
<1> HIDE DEF slice, cursor
<1>7. slice \in SUBSET Nat
  BY <1>3
<1>8. PICK w \in M :
        /\ \/ A.taker = {w} /\ w \in winnerPredicate[r] /\ A.prize = R.reservedPrize
           \/ A.taker = {} /\ M \cap winnerPredicate[r] = {} /\ A.prize = 0
        /\ \/ A.autoSaved = 0
           \/ A.autoSaved = A.prize /\ A.prize <= MAX_POOL_BASE_UNITS - totalPrincipal
  BY <1>4, <1>7, AllocationTaker
<1>9. w \in Accounts /\ M \in SUBSET Members(r)
  BY <1>3
<1> DEFINE taker == A.taker
           e == IF eligibilityStart[activeRoundId][w] # 0 THEN d ELSE 0
<1>10. /\ prize \in Nat /\ d \in Nat
       /\ d = 0 \/ (d = prize /\ d <= MAX_POOL_BASE_UNITS - totalPrincipal)
       /\ \/ taker = {w} /\ w \in winnerPredicate[r] /\ prize = R.reservedPrize
          \/ taker = {} /\ M \cap winnerPredicate[r] = {} /\ prize = 0 /\ d = 0
  BY <1>2, <1>8
<1> HIDE DEF A, prize, d, M, state, taker
<1>11. principal \in [Accounts -> Nat] /\ winnings \in [Accounts -> Nat]
  BY ShapeTypes
<1>12. eligible = e
  BY <1>10 DEF taker
<1>13. principal' = [principal EXCEPT ![w] = @ + d]
  <2>1. principal' = [a \in Accounts |-> principal[a] + (IF a \in taker THEN d ELSE 0)]
    BY <1>1 DEF taker
  <2>2. \A a \in Accounts : principal[a] + (IF a \in taker THEN d ELSE 0)
                              = IF a = w THEN principal[w] + d ELSE principal[a]
    BY <1>10, <1>11
  <2>3. principal' = [a \in Accounts |-> IF a = w THEN principal[w] + d ELSE principal[a]]
    BY <2>1, <2>2
  <2> QED BY <1>9, <1>11, <2>3
<1>14. winnings' = [winnings EXCEPT ![w] = @ + (prize - d)]
  <2>1. winnings' = [a \in Accounts |-> winnings[a] + (IF a \in taker THEN prize - d ELSE 0)]
    BY <1>1 DEF taker
  <2>2. \A a \in Accounts : winnings[a] + (IF a \in taker THEN prize - d ELSE 0)
                              = IF a = w THEN winnings[w] + (prize - d) ELSE winnings[a]
    BY <1>10, <1>11
  <2>3. winnings' = [a \in Accounts |-> IF a = w THEN winnings[w] + (prize - d) ELSE winnings[a]]
    BY <2>1, <2>2
  <2> QED BY <1>9, <1>11, <2>3
<1>15. principal[w] + d \in Nat /\ e \in Int /\ d \in Int
  BY <1>9, <1>10, <1>11
<1>16. round[activeRoundId].eligibleBalance + e \in Nat
  BY <1>9, <1>13, <1>15, EligibleMoves
<1> HIDE DEF e
<1>17. /\ Accrued(e) \in [RoundIds -> Round]
       /\ \A s \in RoundIds : s # activeRoundId => Accrued(e)[s] = round[s]
  BY <1>1, <1>15, <1>16, AccruedRounds
<1>18. r # activeRoundId /\ activeRoundId \in RoundIds
  <2>1. r < activeRoundId
    BY <1>1, ClosedBefore DEF Closed
  <2> QED BY <2>1, ShapeTypes, Configured
<1> DEFINE K == Accrued(e)
           X == [R EXCEPT !.reservedPrize = R.reservedPrize - prize,
                          !.allocationCursor = cursor, !.state = state]
<1>19. K[r] = R /\ round' = [K EXCEPT ![r].reservedPrize = @ - prize,
                                      ![r].allocationCursor = cursor,
                                      ![r].state = state]
  BY <1>1, <1>12, <1>17, <1>18
<1>20. state \in RoundState /\ R.reservedPrize - prize \in Nat
  BY <1>2, <1>10 DEF state, RoundState
<1>21. X \in Round
  <2> HIDE DEF R
  <2> QED BY <1>2, <1>5, <1>20 DEF Round
<1> HIDE DEF K, R
<1>22. round' = [K EXCEPT ![r] = X]
  BY <1>2, <1>17, <1>19 DEF K, Round
<1> HIDE DEF X
<1>23. /\ round' \in [RoundIds -> Round]
       /\ round'[r] = X
       /\ \A s \in RoundIds : s # r => round'[s] = K[s]
  BY <1>17, <1>21, <1>22 DEF K
<1>24. /\ round'[activeRoundId] = Accrued(e)[activeRoundId]
       /\ \A s \in RoundIds : s # r /\ s # activeRoundId => round'[s] = round[s]
  BY <1>17, <1>18, <1>23 DEF K
<1>25. /\ w \in M
       /\ \/ w \in winnerPredicate[r] /\ prize = R.reservedPrize
          \/ M \cap winnerPredicate[r] = {} /\ prize = 0
  BY <1>8, <1>10 DEF M
<1>26. AllocationStep(r, M, w, prize, d, cursor)
  <2>1. round'[r] = [round[r] EXCEPT !.reservedPrize = round[r].reservedPrize - prize,
                       !.allocationCursor = cursor,
                       !.state = IF cursor = round[r].participantCountSnapshot
                                 THEN "WINNINGS_ALLOCATED" ELSE "ALLOCATION_PROCESSING"]
    BY <1>23 DEF X, R, state
  <2>2. R = round[r]
    BY DEF R
  <2>3. e = IF eligibilityStart[activeRoundId][w] # 0 THEN d ELSE 0
    BY DEF e
  <2> QED BY ONLY <1>1, <1>5, <1>6, <1>10, <1>13, <1>14, <1>16, <1>23, <1>24, <1>25, <2>1, <2>2, <2>3
          DEF AllocationStep
<1> QED BY <1>5, <1>9, <1>10, <1>26

\* processAllocation keeps the shape.
LEMMA AllocationShape ==
  ASSUME VaultShape, NEW r \in RoundIds, NEW n \in Nat, NEW p, ProcessAllocation(r, n, p)
  PROVE  VaultShape'
<1>1. PICK M \in SUBSET Members(r), w \in Accounts, prize \in Nat, d \in Nat, cursor \in Nat :
        AllocationStep(r, M, w, prize, d, cursor)
  BY AllocationIs
<1> DEFINE e == IF eligibilityStart[activeRoundId][w] # 0 THEN d ELSE 0
<1>2. /\ IsActiveRoundOpen /\ Closed(r) /\ w \in M
      /\ d = 0 \/ d = prize
      /\ principal' = [principal EXCEPT ![w] = @ + d]
      /\ observations' = [a \in Accounts |->
                            IF a \in M THEN CheckpointUser(observations[a], principal'[a], now)
                            ELSE observations[a]]
      /\ winnings' = [winnings EXCEPT ![w] = @ + (prize - d)]
      /\ round' \in [RoundIds -> Round]
      /\ round'[activeRoundId] = Accrued(e)[activeRoundId]
      /\ round'[r] = [round[r] EXCEPT !.reservedPrize = round[r].reservedPrize - prize,
                        !.allocationCursor = cursor,
                        !.state = IF cursor = round[r].participantCountSnapshot
                                  THEN "WINNINGS_ALLOCATED" ELSE "ALLOCATION_PROCESSING"]
      /\ \A s \in RoundIds : s # r /\ s # activeRoundId => round'[s] = round[s]
      /\ UNCHANGED <<now, activeRoundId, participants, eligibilityStart, winnerPredicate,
                     validityProofs, preferenceObservations,
                     sponsoredPrize, publicSponsoredPrize, uncommittedYield,
                     publicUncommittedYield>>
  BY <1>1 DEF AllocationStep
<1>3. M \in SUBSET Accounts
  <2>1. participants[r] \in Seq(Accounts)
    BY ShapeTypes
  <2> QED BY <2>1 DEF Members
<1>4. r < activeRoundId /\ activeRoundId \in Nat /\ RoundIds \subseteq Nat
  BY <1>2, ClosedBefore, ShapeTypes, Configured DEF Closed
<1>5. PrizeTypeOK'
  <2>1. winnings' \in [Accounts -> Nat]
    <3>1. winnings \in [Accounts -> Nat]
      BY ShapeTypes
    <3>2. prize - d \in Nat /\ winnings' = [winnings EXCEPT ![w] = @ + (prize - d)]
      BY <1>2
    <3> QED BY <3>1, <3>2
  <2> QED BY <1>2, <2>1 DEF VaultShape, PrizeTypeOK
<1>6. principal[w] + d \in Nat /\ d \in Int
  <2>1. principal \in [Accounts -> Nat]
    BY ShapeTypes
  <2> QED BY <2>1
<1>7. \A s \in RoundIds : s > activeRoundId => round'[s] = round[s]
  BY <1>2, <1>4
<1>8. \A s \in RoundIds : s < activeRoundId =>
        /\ Closed(s)'
        /\ round'[s].closesAt = round[s].closesAt
        /\ round'[s].participantCountSnapshot = round[s].participantCountSnapshot
        /\ round'[s].state = "CANDIDATE_VALIDITY_PENDING" => round'[s].publicAggregateTwab # 0
  <2> SUFFICES ASSUME NEW s \in RoundIds, s < activeRoundId
               PROVE  /\ Closed(s)'
                      /\ round'[s].closesAt = round[s].closesAt
                      /\ round'[s].participantCountSnapshot = round[s].participantCountSnapshot
                      /\ round'[s].state = "CANDIDATE_VALIDITY_PENDING" =>
                           round'[s].publicAggregateTwab # 0
    OBVIOUS
  <2>1. CASE s = r
    <3>1. round[r] \in Round
      BY ShapeTypes
    <3>2. /\ round'[r].state \in {"WINNINGS_ALLOCATED", "ALLOCATION_PROCESSING"}
          /\ round'[r].closesAt = round[r].closesAt
          /\ round'[r].participantCountSnapshot = round[r].participantCountSnapshot
      BY <1>2, <3>1 DEF Round
    <3> QED BY <2>1, <3>2 DEF Closed
  <2>2. CASE s # r
    <3>1. round'[s] = round[s]
      BY <1>2, <1>4, <2>2
    <3> QED BY <3>1 DEF VaultShape, RoundsInOrder, DrawsHaveWeight, Closed
  <2> QED BY <2>1, <2>2
<1>9. e = IF eligibilityStart[activeRoundId][w] # 0 THEN d ELSE 0
  OBVIOUS
<1>10. VaultShape /\ w \in Accounts
  OBVIOUS
<1> HIDE DEF e
<1>11. UNCHANGED <<now, activeRoundId, participants, eligibilityStart, preferenceObservations>>
  BY <1>2
<1>12. /\ IsActiveRoundOpen /\ w \in M
       /\ principal' = [principal EXCEPT ![w] = @ + d]
       /\ round' \in [RoundIds -> Round]
       /\ round'[activeRoundId] = Accrued(e)[activeRoundId]
  BY <1>2
<1>13. observations' = [a \in Accounts |->
                          IF a \in M THEN CheckpointUser(observations[a], principal'[a], now)
                          ELSE observations[a]]
  BY <1>2
<1> QED BY ONLY <1>12, <1>13, <1>3, <1>5, <1>6, <1>7, <1>8, <1>9, <1>10, <1>11, BalanceShape

\* Every step of the composition keeps the shape.
LEMMA ShapeStep ==
  ASSUME VaultShape, [Next]_vars
  PROVE  VaultShape'
<1>0. /\ Savers \subseteq Accounts /\ Amounts \subseteq Nat
      /\ (\A n \in 1..MAX_CHUNK : n \in Nat) /\ (\A c \in 0..(RANDOM_DOMAIN - 1) : c \in Nat)
  BY Configured
<1>1. CASE UNCHANGED vars
  <2>1. UNCHANGED <<now, activeRoundId, round, participants, eligibilityStart, observations,
                    principal, preferenceObservations, winnings, winnerPredicate, validityProofs,
                    sponsoredPrize, publicSponsoredPrize, uncommittedYield, publicUncommittedYield>>
    BY <1>1 DEF vars, vaultVars, roundVars, saverVars, prizeVars
  <2>2. PrizeTypeOK'
    BY <2>1 DEF VaultShape, PrizeTypeOK
  <2> QED BY <2>1, <2>2, PrizeShape
<1>2. CASE Tick
  BY <1>2, TickShape
<1>3. CASE CloseRound
  BY <1>3, CloseShape
<1>4. CASE UserStep
  <2>1. CASE BalanceStep
    BY <1>0, <2>1, DepositShape, WithdrawShape DEF BalanceStep
  <2>2. CASE RegistrationStep
    BY <1>0, <2>2, RegisterShape DEF RegistrationStep
  <2>3. CASE PrizeStep \/ WinningsStep \/ EscrowPayout
    BY <2>3, PayoutShape DEF PrizeStep, WinningsStep
  <2>4. CASE PreferenceStep
    BY <1>0, <2>4, PreferenceShape DEF PreferenceStep
  <2> QED BY <1>4, <2>1, <2>2, <2>3, <2>4 DEF UserStep
<1>5. ASSUME NEW r \in RoundIds, SettlementStep(r) PROVE VaultShape'
  <2>1. CASE FinalizeAggregate(r)
    BY <2>1, FinalizeAggregateShape
  <2>2. CASE \E c \in 0..(RANDOM_DOMAIN - 1) : GenerateRandomCandidate(r, c)
    BY <1>0, <2>2, GenerateShape
  <2>3. CASE \E k \in 1..Len(validityProofs[r]) : FinalizeCandidateValidity(r, k)
    BY <2>3, ValidityShape
  <2>4. CASE \E n \in 1..MAX_CHUNK, p \in Progressors : ProcessSelection(r, n, p)
    BY <1>0, <2>4, SelectionShape
  <2>5. CASE \E valid \in BOOLEAN : FinalizeSelectionReconciliation(r, valid)
    BY <2>5, ReconciliationShape
  <2>6. CASE \E n \in 1..MAX_CHUNK, p \in Progressors : ProcessAllocation(r, n, p)
    BY <1>0, <2>6, AllocationShape
  <2>7. CASE FinalizeSettlement(r)
    BY <2>7, FinalizeSettlementShape
  <2>8. CASE RecoverFailedReconciliation(r) \/ SettleEmptyRound(r)
    <3>1. Closed(r) /\ RollPrizeForward(r)
      BY <2>8 DEF RecoverFailedReconciliation, SettleEmptyRound, Closed
    <3> QED BY <3>1, RollForwardShape
  <2> QED BY <1>5, <2>1, <2>2, <2>3, <2>4, <2>5, <2>6, <2>7, <2>8 DEF SettlementStep
<1> QED BY <1>1, <1>2, <1>3, <1>4, <1>5 DEF Next

\* LeopoldVault keeps its rounds in order, its registrations and histories
\* consistent, and its eligible balance equal to the participants' principal.
THEOREM VaultShapeInvariant == Spec => []VaultShape
<1>1. Init => VaultShape
  BY InitShape
<1>2. VaultShape /\ [Next]_vars => VaultShape'
  BY ShapeStep
<1> QED BY <1>1, <1>2, PTL DEF Spec

-----------------------------------------------------------------------------
(* What a step does to the records it is not about. *)

\* Two records that agree on everything but the running eligible balance.
SameRecord(R, Q) ==
  /\ Q.opensAt = R.opensAt /\ Q.closesAt = R.closesAt /\ Q.state = R.state
  /\ Q.aggregateTwab = R.aggregateTwab /\ Q.publicAggregateTwab = R.publicAggregateTwab
  /\ Q.publicPrize = R.publicPrize /\ Q.reservedPrize = R.reservedPrize
  /\ Q.candidate = R.candidate /\ Q.acceptedTicket = R.acceptedTicket
  /\ Q.participantCountSnapshot = R.participantCountSnapshot
  /\ Q.selectionCursor = R.selectionCursor /\ Q.allocationCursor = R.allocationCursor
  /\ Q.selectionCumulative = R.selectionCumulative
  /\ Q.encryptedWinnerCount = R.encryptedWinnerCount
  /\ Q.reconciliationValid = R.reconciliationValid

\* An accrual changes nothing else.
LEMMA AccruedSame ==
  ASSUME VaultShape, IsActiveRoundOpen, NEW delta \in Int,
         round[activeRoundId].eligibleBalance + delta \in Nat
  PROVE  \A s \in RoundIds : SameRecord(round[s], Accrued(delta)[s])
<1> SUFFICES ASSUME NEW s \in RoundIds PROVE SameRecord(round[s], Accrued(delta)[s])
  OBVIOUS
<1> DEFINE R == round[activeRoundId]
           c == R.eligibleCumulative + R.eligibleBalance * (now - R.eligibleTimestamp)
           b == R.eligibleBalance + delta
<1>1. CASE s = activeRoundId
  <2>1. R \in Round
    BY ShapeTypes
  <2>2. Accrued(delta)[s] = [R EXCEPT !.eligibleCumulative = c, !.eligibleTimestamp = now,
                                      !.eligibleBalance = b]
    BY <1>1, AccruedRounds
  <2> DEFINE Q == Accrued(delta)[s]
  <2> HIDE DEF R, c, b, Q
  <2>3. SameRecord(R, Q)
    BY <2>1, <2>2 DEF SameRecord, Round, Q
  <2> QED BY <1>1, <2>3 DEF R, Q
<1>2. CASE s # activeRoundId
  <2>1. Accrued(delta)[s] = round[s]
    BY <1>2, AccruedRounds
  <2> QED BY <2>1 DEF SameRecord
<1> QED BY <1>1, <1>2

\* Users, and time, touch no record but the running eligible balance of the
\* active round, and register only in that round.
LEMMA UserRecords ==
  ASSUME VaultShape, Tick \/ UserStep \/ UNCHANGED vars
  PROVE  /\ \A s \in RoundIds : SameRecord(round[s], round'[s])
         /\ UNCHANGED <<activeRoundId, winnerPredicate, validityProofs>>
         /\ \A s \in RoundIds : s # activeRoundId =>
              participants'[s] = participants[s] /\ eligibilityStart'[s] = eligibilityStart[s]
<1>0. /\ Savers \subseteq Accounts /\ Amounts \subseteq Nat
      /\ principal \in [Accounts -> Nat] /\ activeRoundId \in RoundIds
      /\ participants \in [RoundIds -> Seq(Accounts)]
      /\ eligibilityStart \in [RoundIds -> [Accounts -> Nat]]
  BY Configured, ShapeTypes
<1>1. CASE UNCHANGED <<round, activeRoundId, winnerPredicate, validityProofs, participants,
                       eligibilityStart>>
  BY <1>1 DEF SameRecord
<1>2. CASE Tick \/ PrizeStep \/ WinningsStep \/ PreferenceStep \/ EscrowPayout \/ UNCHANGED vars
  <2>1. UNCHANGED <<round, activeRoundId, winnerPredicate, validityProofs, participants,
                    eligibilityStart>>
    <3>1. CASE Tick
      BY <3>1 DEF Tick, roundVars
    <3>2. CASE PrizeStep
      BY <3>2 DEF PrizeStep, ContributeSponsor, HarvestStrategyYield, roundVars
    <3>3. CASE WinningsStep
      BY <3>3 DEF WinningsStep, WithdrawWinnings, roundVars
    <3>4. CASE PreferenceStep
      BY <3>4 DEF PreferenceStep, SetAutoSavePreference, roundVars
    <3>5. CASE EscrowPayout \/ UNCHANGED vars
      BY <3>5 DEF EscrowPayout, vars, vaultVars, roundVars
    <3> QED BY <1>2, <3>1, <3>2, <3>3, <3>4, <3>5
  <2> QED BY <1>1, <2>1
<1>3. ASSUME NEW w \in Accounts, NEW d \in Int, principal[w] + d \in Nat, IsActiveRoundOpen,
             round' = EligibleAfter(w, d), principal' = [principal EXCEPT ![w] = principal[w] + d]
      PROVE  \A s \in RoundIds : SameRecord(round[s], round'[s])
  <2> DEFINE e == IF eligibilityStart[activeRoundId][w] # 0 THEN d ELSE 0
  <2>1. principal' = [principal EXCEPT ![w] = @ + d] /\ e \in Int
    BY <1>3
  <2>2. round[activeRoundId].eligibleBalance + e \in Nat
    BY <1>3, <2>1, EligibleMoves
  <2>3. round' = Accrued(e) \/ round' = round
    BY <1>3 DEF EligibleAfter
  <2> HIDE DEF e
  <2> QED BY <1>3, <2>1, <2>2, <2>3, AccruedSame DEF SameRecord
<1>4. CASE BalanceStep
  <2>1. PICK w \in Savers, amount \in Amounts : Deposit(w, amount) \/ Withdraw(w, amount)
    BY <1>4 DEF BalanceStep
  <2>2. w \in Accounts /\ amount \in Nat /\ principal[w] \in Nat
    BY <1>0
  <2>3. /\ UNCHANGED <<activeRoundId, winnerPredicate, validityProofs, participants,
                       eligibilityStart>>
        /\ IsActiveRoundOpen
    BY <2>1 DEF Deposit, Withdraw
  <2>4. \E d \in Int : /\ principal[w] + d \in Nat /\ round' = EligibleAfter(w, d)
                       /\ principal' = [principal EXCEPT ![w] = principal[w] + d]
    <3>1. CASE Deposit(w, amount)
      <4> DEFINE accepted == amount <= MAX_POOL_BASE_UNITS - totalPrincipal /\ amount > 0
                 d == IF accepted THEN amount ELSE 0
      <4>1. round' = EligibleAfter(w, d) /\ principal' = [principal EXCEPT ![w] = principal[w] + d]
        BY <3>1 DEF Deposit
      <4>2. d \in Int /\ principal[w] + d \in Nat
        BY <2>2
      <4> HIDE DEF d
      <4> QED BY <4>1, <4>2
    <3>2. CASE Withdraw(w, amount)
      <4> DEFINE eligible == IF amount <= principal[w] /\ amount <= liquidPrincipal
                             THEN amount ELSE 0
                 sent == ConfidentialTransfer(eligible)
                 d == -sent
      <4>1. sent \in Nat /\ sent <= principal[w]
        BY <2>2, SentFits
      <4>2. round' = EligibleAfter(w, d) /\ principal' = [principal EXCEPT ![w] = principal[w] - sent]
        BY <3>2 DEF Withdraw
      <4> HIDE DEF sent
      <4>3. d \in Int /\ principal[w] + d \in Nat /\ principal[w] - sent = principal[w] + d
        BY <2>2, <4>1
      <4> QED BY <4>2, <4>3
    <3> QED BY <2>1, <3>1, <3>2
  <2> QED BY <1>3, <2>2, <2>3, <2>4
<1>5. CASE RegistrationStep
  <2>1. PICK r \in RoundIds, w \in Savers : RegisterParticipant(r, w)
    BY <1>5 DEF RegistrationStep
  <2> DEFINE d == principal[w]
  <2>2. d \in Nat /\ d \in Int
    BY <1>0
  <2>3. /\ r = activeRoundId /\ IsActiveRoundOpen /\ round' = Accrued(d)
        /\ eligibilityStart' = [eligibilityStart EXCEPT ![r][w] = now]
        /\ participants' = [participants EXCEPT ![r] = Append(@, w)]
        /\ UNCHANGED <<activeRoundId, winnerPredicate, validityProofs>>
    BY <2>1 DEF RegisterParticipant
  <2>4. round[activeRoundId].eligibleBalance + d \in Nat
    <3>1. round[activeRoundId].eligibleBalance \in Nat
      BY ShapeTypes, RoundFields
    <3> QED BY <2>2, <3>1
  <2> HIDE DEF d
  <2>5. \A s \in RoundIds : SameRecord(round[s], round'[s])
    BY <2>2, <2>3, <2>4, AccruedSame
  <2>6. \A s \in RoundIds : s # activeRoundId =>
          participants'[s] = participants[s] /\ eligibilityStart'[s] = eligibilityStart[s]
    BY <1>0, <2>3
  <2> QED BY <2>3, <2>5, <2>6
<1> QED BY <1>2, <1>4, <1>5 DEF UserStep

\* A settlement step for r leaves every other record alone, but for the running
\* eligible balance of the active round.
LEMMA SettlementRecords ==
  ASSUME VaultShape, NEW r \in RoundIds, SettlementStep(r)
  PROVE  /\ Closed(r) /\ r < activeRoundId
         /\ UNCHANGED <<now, activeRoundId, participants, eligibilityStart, preferenceObservations>>
         /\ \A s \in RoundIds : s # r =>
              /\ SameRecord(round[s], round'[s])
              /\ s # activeRoundId => round'[s] = round[s]
              /\ winnerPredicate'[s] = winnerPredicate[s]
              /\ validityProofs'[s] = validityProofs[s]
<1>0. /\ round \in [RoundIds -> Round] /\ winnerPredicate \in [RoundIds -> SUBSET Accounts]
      /\ validityProofs \in [RoundIds -> Seq(BOOLEAN)]
      /\ \A n \in 1..MAX_CHUNK : n \in Nat
  <2>1. \A n \in 1..MAX_CHUNK : n \in Nat
    OBVIOUS
  <2> QED BY <2>1, ShapeTypes
<1>1. ASSUME Closed(r)
      PROVE  r < activeRoundId
  BY <1>1, ClosedBefore DEF Closed
<1>2. ASSUME NEW R, OnlyRound(r, R)
      PROVE  /\ UNCHANGED <<now, activeRoundId, participants, eligibilityStart, preferenceObservations>>
             /\ \A s \in RoundIds : s # r => round'[s] = round[s]
  BY <1>0, <1>2 DEF OnlyRound
<1>3. \A s \in RoundIds : SameRecord(round[s], round[s])
  BY DEF SameRecord
<1>4. CASE FinalizeAggregate(r)
  BY <1>1, <1>2, <1>3, <1>4 DEF FinalizeAggregate, Closed
<1>5. CASE \E c \in 0..(RANDOM_DOMAIN - 1) : GenerateRandomCandidate(r, c)
  <2>1. PICK c \in 0..(RANDOM_DOMAIN - 1) : GenerateRandomCandidate(r, c)
    BY <1>5
  <2>2. Closed(r) /\ winnerPredicate' = winnerPredicate
    BY <2>1 DEF GenerateRandomCandidate, DrawAllowed, Closed
  <2>3. \E R : OnlyRound(r, R)
    BY <2>1 DEF GenerateRandomCandidate
  <2>4. \A s \in RoundIds : s # r => validityProofs'[s] = validityProofs[s]
    BY <1>0, <2>1 DEF GenerateRandomCandidate
  <2> QED BY <1>1, <1>2, <1>3, <2>2, <2>3, <2>4
<1>6. CASE \E k \in 1..Len(validityProofs[r]) : FinalizeCandidateValidity(r, k)
  BY <1>1, <1>2, <1>3, <1>6 DEF FinalizeCandidateValidity, Closed
<1>7. CASE \E n \in 1..MAX_CHUNK, p \in Progressors : ProcessSelection(r, n, p)
  <2>1. PICK W \in SUBSET Members(r), cursor \in Nat, cumulative \in Nat, count \in Nat,
             valid \in BOOLEAN : SelectionStep(r, W, cursor, cumulative, count, valid)
    BY <1>0, <1>7, SelectionIs
  <2>2. Closed(r) /\ validityProofs' = validityProofs
        /\ winnerPredicate' = [winnerPredicate EXCEPT ![r] = @ \cup W]
    BY <2>1 DEF SelectionStep, Closed
  <2>3. \E R : OnlyRound(r, R)
    BY <2>1 DEF SelectionStep
  <2>4. \A s \in RoundIds : s # r => winnerPredicate'[s] = winnerPredicate[s]
    BY <1>0, <2>2
  <2> QED BY <1>1, <1>2, <1>3, <2>2, <2>3, <2>4
<1>8. CASE \E valid \in BOOLEAN : FinalizeSelectionReconciliation(r, valid)
  BY <1>1, <1>2, <1>3, <1>8 DEF FinalizeSelectionReconciliation, Closed
<1>9. CASE \E n \in 1..MAX_CHUNK, p \in Progressors : ProcessAllocation(r, n, p)
  <2>1. PICK M \in SUBSET Members(r), w \in Accounts, prize \in Nat, d \in Nat, cursor \in Nat :
          AllocationStep(r, M, w, prize, d, cursor)
    BY <1>0, <1>9, AllocationIs
  <2> DEFINE e == IF eligibilityStart[activeRoundId][w] # 0 THEN d ELSE 0
  <2>2. /\ Closed(r) /\ IsActiveRoundOpen /\ e \in Int
        /\ round[activeRoundId].eligibleBalance + e \in Nat
        /\ round'[activeRoundId] = Accrued(e)[activeRoundId]
        /\ \A s \in RoundIds : s # r /\ s # activeRoundId => round'[s] = round[s]
        /\ UNCHANGED <<now, activeRoundId, participants, eligibilityStart, winnerPredicate,
                       validityProofs, preferenceObservations>>
    BY <2>1 DEF AllocationStep
  <2> HIDE DEF e
  <2>3. SameRecord(round[activeRoundId], round'[activeRoundId])
    <3>1. activeRoundId \in RoundIds
      BY ShapeTypes
    <3>2. SameRecord(round[activeRoundId], Accrued(e)[activeRoundId])
      BY <2>2, <3>1, AccruedSame
    <3> QED BY <2>2, <3>2
  <2> QED BY <1>1, <1>3, <2>2, <2>3
<1>10. CASE FinalizeSettlement(r)
  BY <1>1, <1>2, <1>3, <1>10 DEF FinalizeSettlement, Closed
<1>11. CASE RecoverFailedReconciliation(r) \/ SettleEmptyRound(r)
  <2>1. Closed(r) /\ RollPrizeForward(r)
    BY <1>11 DEF RecoverFailedReconciliation, SettleEmptyRound, Closed
  <2>2. \A s \in RoundIds : s # r => round'[s] = round[s]
    BY <1>0, <2>1 DEF RollPrizeForward
  <2> QED BY <1>1, <1>3, <2>1, <2>2 DEF RollPrizeForward
<1> QED BY <1>4, <1>5, <1>6, <1>7, <1>8, <1>9, <1>10, <1>11 DEF SettlementStep

\* What closeRound leaves: a record with its aggregate and prize, and a fresh one.
LEMMA CloseRecords ==
  ASSUME VaultShape, CloseRound
  PROVE  LET r == activeRoundId
             P == round[r]
             X == round'[r]
         IN  /\ r \in RoundIds /\ r + 1 \in RoundIds /\ activeRoundId' = r + 1 /\ r \in Nat
             /\ P.state = "OPEN" /\ P.closesAt <= now
             /\ X.state = "AGGREGATE_PENDING" /\ X.closesAt = P.closesAt
             /\ X.aggregateTwab = P.eligibleCumulative
                                    + P.eligibleBalance * (P.closesAt - P.eligibleTimestamp)
             /\ X.reservedPrize = sponsoredPrize[r] + uncommittedYield
             /\ X.publicPrize = publicSponsoredPrize[r] + publicUncommittedYield
             /\ X.participantCountSnapshot = Len(participants[r])
             /\ X.allocationCursor = P.allocationCursor
             /\ X.selectionCursor = P.selectionCursor
             /\ X.selectionCumulative = P.selectionCumulative
             /\ X.encryptedWinnerCount = P.encryptedWinnerCount
             /\ X.reconciliationValid = P.reconciliationValid
             /\ round'[r + 1] = InitializeRound(P.closesAt) /\ round'[r + 1].state = "OPEN"
             /\ \A s \in RoundIds : s # r /\ s # r + 1 => round'[s] = round[s]
             /\ reservedPrize' = reservedPrize + X.reservedPrize
             /\ realizedSurplus' = realizedSurplus - uncommittedYield
             /\ uncommittedYield' = 0
             /\ publicUncommittedYield' = 0
             /\ UNCHANGED <<now, participants, eligibilityStart, winnerPredicate, validityProofs,
                            observations, principal, totalPrincipal, liquidPrincipal,
                            preferenceObservations, assetBalance, escrowVars, liquidPrizeAssets,
                            winningsLiability, winnings, sponsoredPrize, publicSponsoredPrize>>
<1> DEFINE r == activeRoundId
           q == r + 1
           P == round[r]
           R == AccrueEligible(P, P.closesAt)
           c == P.eligibleCumulative + P.eligibleBalance * (P.closesAt - P.eligibleTimestamp)
           prize == sponsoredPrize[r] + uncommittedYield
           public == publicSponsoredPrize[r] + publicUncommittedYield
           count == Len(participants[r])
           Z == [R EXCEPT !.aggregateTwab = R.eligibleCumulative, !.publicPrize = public,
                          !.reservedPrize = prize,
                          !.participantCountSnapshot = count, !.state = "AGGREGATE_PENDING"]
           I == InitializeRound(R.closesAt)
<1>1. P \in Round /\ P.closesAt \in Nat /\ now \in Nat /\ r \in RoundIds /\ r \in Nat
      /\ round \in [RoundIds -> Round]
  BY ShapeTypes, RoundFields
<1>2. /\ round' = [round EXCEPT ![r] = Z, ![q] = I]
      /\ P.state = "OPEN" /\ P.closesAt <= now
      /\ q \in RoundIds /\ activeRoundId' = q
      /\ reservedPrize' = reservedPrize + prize
      /\ realizedSurplus' = realizedSurplus - uncommittedYield
      /\ uncommittedYield' = 0
      /\ publicUncommittedYield' = 0
      /\ UNCHANGED <<now, participants, eligibilityStart, winnerPredicate, validityProofs,
                     observations, principal, totalPrincipal, liquidPrincipal,
                     preferenceObservations, assetBalance, escrowVars, liquidPrizeAssets,
                     winningsLiability, winnings, sponsoredPrize, publicSponsoredPrize>>
  BY <1>1 DEF CloseRound, saverVars
<1>3. R = [P EXCEPT !.eligibleCumulative = c, !.eligibleTimestamp = P.closesAt]
  BY <1>1 DEF AccrueEligible, Round
<1> HIDE DEF c, prize, public, count
<1>4. /\ R.eligibleCumulative = c /\ R.closesAt = P.closesAt
      /\ R.allocationCursor = P.allocationCursor
      /\ R.selectionCursor = P.selectionCursor
      /\ R.selectionCumulative = P.selectionCumulative
      /\ R.encryptedWinnerCount = P.encryptedWinnerCount
      /\ R.reconciliationValid = P.reconciliationValid
      /\ DOMAIN R = DOMAIN P
  <2> HIDE DEF R, P
  <2> QED BY <1>1, <1>3 DEF Round
<1>5. /\ Z.state = "AGGREGATE_PENDING" /\ Z.closesAt = P.closesAt /\ Z.aggregateTwab = c
      /\ Z.reservedPrize = prize /\ Z.publicPrize = public /\ Z.participantCountSnapshot = count
      /\ Z.allocationCursor = P.allocationCursor
      /\ Z.selectionCursor = P.selectionCursor
      /\ Z.selectionCumulative = P.selectionCumulative
      /\ Z.encryptedWinnerCount = P.encryptedWinnerCount
      /\ Z.reconciliationValid = P.reconciliationValid
  <2> HIDE DEF R, P
  <2> QED BY <1>1, <1>4 DEF Round
<1>6. I = InitializeRound(P.closesAt) /\ I.state = "OPEN"
  BY <1>1, <1>4, FreshRounds
<1> HIDE DEF Z, I, R
<1>7. r # q
  BY <1>1
<1> HIDE DEF q
<1>8. round'[r] = Z /\ round'[q] = I /\ \A s \in RoundIds : s # r /\ s # q => round'[s] = round[s]
  BY <1>1, <1>2, <1>7
<1> QED BY <1>1, <1>2, <1>5, <1>6, <1>8 DEF c, prize, public, count, q
-----------------------------------------------------------------------------
(* The draw. *)

\* The record of a round whose ticket has been accepted, is being decided, or
\* was rejected, with the verdicts published on its candidates.
TicketOf(R, proofs) ==
  LET limit == AcceptanceLimit(R.publicAggregateTwab)
  IN  /\ R.state \in {"TICKET_ACCEPTED", "WINNER_PROCESSING", "RECONCILIATION_PENDING",
                      "READY_TO_ALLOCATE", "ALLOCATION_PROCESSING", "WINNINGS_ALLOCATED"} =>
           /\ R.publicAggregateTwab # 0
           /\ R.candidate < limit
           /\ R.acceptedTicket = R.candidate % R.publicAggregateTwab
      /\ R.state = "CANDIDATE_REJECTED" => R.candidate >= limit
      /\ R.state = "CANDIDATE_VALIDITY_PENDING" =>
           /\ proofs # <<>>
           /\ Last(proofs) = (R.candidate < limit)

\* TicketUnbiased with what it needs to be inductive: the last published
\* verdict is the one on the current candidate.
TicketInv == \A r \in RoundIds : TicketOf(round[r], validityProofs[r])

\* The acceptance limit of a positive weight is a number.
LEMMA LimitType ==
  ASSUME NEW weight \in Nat \ {0}
  PROVE  AcceptanceLimit(weight) \in Nat
<1>1. RANDOM_DOMAIN \in Nat
  BY Configured
<1> DEFINE k == RANDOM_DOMAIN \div weight
<1>2. k \in Nat
  BY <1>1
<1> HIDE DEF k
<1>3. k * weight \in Nat
  BY <1>2, ProductNat
<1> QED BY <1>3 DEF AcceptanceLimit, k

\* A record keeps its ticket as long as its draw is left alone.
LEMMA SameTicket ==
  ASSUME NEW R, NEW Q, NEW proofs, TicketOf(R, proofs), SameRecord(R, Q)
  PROVE  TicketOf(Q, proofs)
BY DEF TicketOf, SameRecord

\* generateRandomCandidate leaves an unbiased ticket, or a verdict on the
\* candidate it drew.
LEMMA GenerateTicket ==
  ASSUME VaultShape, NEW r \in RoundIds, NEW c \in 0..(RANDOM_DOMAIN - 1),
         GenerateRandomCandidate(r, c)
  PROVE  TicketOf(round'[r], validityProofs'[r])
<1> DEFINE P == round[r]
           agg == P.publicAggregateTwab
           limit == AcceptanceLimit(agg)
           drawn == [P EXCEPT !.candidate = c]
           k == c % agg
           T == [drawn EXCEPT !.acceptedTicket = k, !.state = "TICKET_ACCEPTED"]
           V == [drawn EXCEPT !.state = "CANDIDATE_VALIDITY_PENDING"]
<1>1. /\ P \in Round /\ round \in [RoundIds -> Round]
      /\ validityProofs \in [RoundIds -> Seq(BOOLEAN)] /\ agg \in Nat /\ agg # 0
  BY ShapeTypes, RoundFields DEF GenerateRandomCandidate, DrawAllowed
<1>2. limit \in Nat /\ c \in Nat /\ c < RANDOM_DOMAIN
  BY <1>1, LimitType, Configured
<1>3. CASE limit = RANDOM_DOMAIN /\ OnlyRound(r, T)
  <2>1. round'[r] = T
    BY <1>1, <1>3 DEF OnlyRound
  <2>2. c < limit
    BY <1>2, <1>3
  <2>3. /\ T.state = "TICKET_ACCEPTED" /\ T.publicAggregateTwab = agg /\ T.candidate = c
        /\ T.acceptedTicket = k
    <3> HIDE DEF k, P
    <3> QED BY <1>1 DEF Round, agg
  <2> HIDE DEF T
  <2> QED BY <1>1, <2>1, <2>2, <2>3 DEF TicketOf
<1>4. CASE OnlyRound(r, V) /\ validityProofs' = [validityProofs EXCEPT ![r] = Append(@, c < limit)]
  <2>1. round'[r] = V
    BY <1>1, <1>4 DEF OnlyRound
  <2> DEFINE b == c < limit
             s == validityProofs[r]
             q == validityProofs'[r]
  <2>2. b \in BOOLEAN /\ s \in Seq(BOOLEAN) /\ q = Append(s, b)
    BY <1>1, <1>4
  <2>3. q # <<>> /\ Last(q) = b
    <3> HIDE DEF b, s, q
    <3> QED BY <2>2 DEF Last
  <2>4. V.state = "CANDIDATE_VALIDITY_PENDING" /\ V.publicAggregateTwab = agg /\ V.candidate = c
    <3> HIDE DEF P
    <3> QED BY <1>1 DEF Round, agg
  <2> HIDE DEF V, q, agg
  <2> QED BY <2>1, <2>3, <2>4 DEF TicketOf, q
<1> QED BY <1>3, <1>4 DEF GenerateRandomCandidate

\* finalizeCandidateValidity accepts or rejects by the verdict on the current
\* candidate.
LEMMA ValidityTicket ==
  ASSUME VaultShape, NEW r \in RoundIds, NEW n, FinalizeCandidateValidity(r, n),
         TicketOf(round[r], validityProofs[r])
  PROVE  TicketOf(round'[r], validityProofs'[r])
<1> DEFINE P == round[r]
           agg == P.publicAggregateTwab
           limit == AcceptanceLimit(agg)
           k == P.candidate % agg
           T == [P EXCEPT !.acceptedTicket = k, !.state = "TICKET_ACCEPTED"]
           V == [P EXCEPT !.state = "CANDIDATE_REJECTED"]
<1>1. /\ P \in Round /\ round \in [RoundIds -> Round] /\ agg \in Nat /\ P.candidate \in Nat
  BY ShapeTypes, RoundFields
<1>2. agg # 0 /\ P.state = "CANDIDATE_VALIDITY_PENDING"
  BY DEF FinalizeCandidateValidity, VaultShape, DrawsHaveWeight
<1>3. limit \in Nat
  BY <1>1, <1>2, LimitType
<1>4. Last(validityProofs[r]) = (P.candidate < limit)
  BY <1>2 DEF TicketOf
<1>5. IF P.candidate < limit THEN OnlyRound(r, T) ELSE OnlyRound(r, V)
  BY <1>4 DEF FinalizeCandidateValidity, Last
<1>6. CASE P.candidate < limit
  <2>1. round'[r] = T
    BY <1>1, <1>5, <1>6 DEF OnlyRound
  <2>2. /\ T.state = "TICKET_ACCEPTED" /\ T.publicAggregateTwab = agg /\ T.candidate = P.candidate
        /\ T.acceptedTicket = k
    <3> HIDE DEF k, P
    <3> QED BY <1>1 DEF Round, agg
  <2> HIDE DEF T
  <2> QED BY <1>2, <1>6, <2>1, <2>2 DEF TicketOf
<1>7. CASE ~(P.candidate < limit)
  <2>1. round'[r] = V
    BY <1>1, <1>5, <1>7 DEF OnlyRound
  <2>2. P.candidate >= limit
    BY <1>1, <1>3, <1>7
  <2>3. /\ V.state = "CANDIDATE_REJECTED" /\ V.publicAggregateTwab = agg /\ V.candidate = P.candidate
    <3> HIDE DEF P
    <3> QED BY <1>1 DEF Round, agg
  <2> HIDE DEF V
  <2> QED BY <2>1, <2>2, <2>3 DEF TicketOf
<1> QED BY <1>6, <1>7

\* The later settlement steps keep the draw of an accepted ticket.
LEMMA LaterTicket ==
  ASSUME VaultShape, NEW r \in RoundIds, TicketOf(round[r], validityProofs[r]),
         validityProofs'[r] = validityProofs[r],
         \/ round'[r].state \in {"EMPTY", "AGGREGATE_FINALIZED", "SETTLED", "RECONCILIATION_FAILED"}
         \/ /\ round[r].state \in {"TICKET_ACCEPTED", "WINNER_PROCESSING", "RECONCILIATION_PENDING",
                                   "READY_TO_ALLOCATE", "ALLOCATION_PROCESSING"}
            /\ round'[r].state \in {"WINNER_PROCESSING", "RECONCILIATION_PENDING",
                                    "READY_TO_ALLOCATE", "ALLOCATION_PROCESSING",
                                    "WINNINGS_ALLOCATED"}
            /\ round'[r].candidate = round[r].candidate
            /\ round'[r].acceptedTicket = round[r].acceptedTicket
            /\ round'[r].publicAggregateTwab = round[r].publicAggregateTwab
  PROVE  TicketOf(round'[r], validityProofs'[r])
BY DEF TicketOf

\* Every step keeps the tickets unbiased.
LEMMA TicketStep ==
  ASSUME VaultShape, TicketInv, [Next]_vars
  PROVE  TicketInv'
<1>0. /\ round \in [RoundIds -> Round] /\ (\A n \in 1..MAX_CHUNK : n \in Nat)
      /\ \A s \in RoundIds : TicketOf(round[s], validityProofs[s])
  <2>1. \A n \in 1..MAX_CHUNK : n \in Nat
    BY Configured
  <2>2. round \in [RoundIds -> Round]
    BY ShapeTypes
  <2> QED BY <2>1, <2>2 DEF TicketInv
<1>1. CASE Tick \/ UserStep \/ UNCHANGED vars
  BY <1>0, <1>1, UserRecords, SameTicket DEF TicketInv
<1>2. CASE CloseRound
  <2> DEFINE r == activeRoundId
             q == r + 1
  <2>1. /\ round'[r].state = "AGGREGATE_PENDING" /\ round'[q].state = "OPEN"
        /\ \A s \in RoundIds : s # r /\ s # q => round'[s] = round[s]
        /\ validityProofs' = validityProofs
    BY <1>2, CloseRecords
  <2> HIDE DEF q
  <2>2. ASSUME NEW s \in RoundIds PROVE TicketOf(round'[s], validityProofs'[s])
    <3>1. CASE s = r \/ s = q
      BY <2>1, <3>1 DEF TicketOf
    <3>2. CASE s # r /\ s # q
      BY <1>0, <2>1, <3>2
    <3> QED BY <3>1, <3>2
  <2> QED BY <2>2 DEF TicketInv
<1>3. ASSUME NEW r \in RoundIds, SettlementStep(r) PROVE TicketInv'
  <2>1. \A s \in RoundIds : s # r => TicketOf(round'[s], validityProofs'[s])
    BY <1>0, <1>3, SettlementRecords, SameTicket
  <2>2. round[r] \in Round /\ TicketOf(round[r], validityProofs[r])
    BY <1>0
  <2>3. TicketOf(round'[r], validityProofs'[r])
    <3>1. CASE FinalizeAggregate(r)
      BY <1>0, <2>2, <3>1, LaterTicket DEF FinalizeAggregate, OnlyRound, Round
    <3>2. CASE \E c \in 0..(RANDOM_DOMAIN - 1) : GenerateRandomCandidate(r, c)
      BY <3>2, GenerateTicket
    <3>3. CASE \E k \in 1..Len(validityProofs[r]) : FinalizeCandidateValidity(r, k)
      BY <2>2, <3>3, ValidityTicket
    <3>4. CASE \E n \in 1..MAX_CHUNK, p \in Progressors : ProcessSelection(r, n, p)
      <4>1. PICK W \in SUBSET Members(r), cursor \in Nat, cumulative \in Nat, count \in Nat,
                 valid \in BOOLEAN : SelectionStep(r, W, cursor, cumulative, count, valid)
        BY <1>0, <3>4, SelectionIs
      <4> QED BY <1>0, <2>2, <4>1, LaterTicket DEF SelectionStep, OnlyRound, Round
    <3>5. CASE \E valid \in BOOLEAN : FinalizeSelectionReconciliation(r, valid)
      BY <1>0, <2>2, <3>5, LaterTicket DEF FinalizeSelectionReconciliation, OnlyRound, Round
    <3>6. CASE \E n \in 1..MAX_CHUNK, p \in Progressors : ProcessAllocation(r, n, p)
      <4>1. PICK M \in SUBSET Members(r), w \in Accounts, prize \in Nat, d \in Nat, cursor \in Nat :
              AllocationStep(r, M, w, prize, d, cursor)
        BY <1>0, <3>6, AllocationIs
      <4> QED BY <2>2, <4>1, LaterTicket DEF AllocationStep, Round
    <3>7. CASE FinalizeSettlement(r)
      BY <1>0, <2>2, <3>7, LaterTicket DEF FinalizeSettlement, OnlyRound, Round
    <3>8. CASE RecoverFailedReconciliation(r) \/ SettleEmptyRound(r)
      <4>1. RollPrizeForward(r)
        BY <3>8 DEF RecoverFailedReconciliation, SettleEmptyRound
      <4> QED BY <1>0, <2>2, <4>1, LaterTicket DEF RollPrizeForward, Round
    <3> QED BY <1>3, <3>1, <3>2, <3>3, <3>4, <3>5, <3>6, <3>7, <3>8 DEF SettlementStep
  <2> QED BY <2>1, <2>3 DEF TicketInv
<1> QED BY <1>1, <1>2, <1>3 DEF Next

\* The invariant of the shape and the tickets.
THEOREM TicketInvariant == Spec => []TicketInv
<1>1. Init => TicketInv
  <2> SUFFICES ASSUME Init PROVE TicketInv
    OBVIOUS
  <2>1. ASSUME NEW r \in RoundIds PROVE round[r].state \in {"OPEN", "UNINITIALIZED"}
    BY Configured, FreshRounds DEF Init, UninitializedRound
  <2> QED BY <2>1 DEF TicketInv, TicketOf
<1>2. VaultShape /\ TicketInv /\ [Next]_vars => TicketInv'
  BY TicketStep
<1> QED BY <1>1, <1>2, VaultShapeInvariant, PTL DEF Spec

\* Rejection sampling in generateRandomCandidate and finalizeCandidateValidity
\* never biases a ticket, nor throws away a candidate that counts.
THEOREM TicketsUnbiased == Spec => []TicketUnbiased
<1>1. TicketInv => TicketUnbiased
  BY DEF TicketInv, TicketOf, TicketUnbiased
<1> QED BY <1>1, TicketInvariant, PTL

-----------------------------------------------------------------------------
(* The bonds: the composition implements BondEscrow. *)

\* A round the escrow has finalized is settled: the vault makes none of its calls
\* for it again.
FinalizedIsSettled ==
  \A r \in RoundIds : ledger[r].finalized => round[r].state = "SETTLED"

\* A vault's call of creditProgress is one that the escrow allows.
LEMMA CreditIsCall ==
  ASSUME EscrowInv, NEW r \in RoundIds, NEW pass \in {1, 2}, NEW n \in Nat, NEW a \in Accounts,
         CreditProgress(r, pass, n, a)
  PROVE  /\ EscrowNext
         /\ \A s \in RoundIds : ledger'[s].finalized = ledger[s].finalized
<1>1. /\ r \in Rounds /\ ledger \in [Rounds -> RoundLedger]
  BY EscrowInvFacts DEF RoundIds
<1>2. /\ ledger[r] \in RoundLedger /\ ledger[r].registered \in Nat
      /\ ledger[r].selectionProcessed \in Nat /\ ledger[r].allocationProcessed \in Nat
  BY <1>1 DEF RoundLedger
<1>3. n # 0 /\ Processed(r, pass) + n <= ledger[r].registered /\ Processed(r, pass) \in Nat
  BY <1>2 DEF CreditProgress, Processed
<1>4. n \in 1..ledger[r].registered
  BY <1>2, <1>3
<1>5. Credit(r, pass, a)
  BY <1>4 DEF Credit
<1>6. EscrowNext
  BY <1>1, <1>5 DEF EscrowNext, EscrowCall
<1>7. \A s \in RoundIds : ledger'[s].finalized = ledger[s].finalized
  BY <1>1, <1>2 DEF CreditProgress, RoundLedger, RoundIds
<1> QED BY <1>6, <1>7

\* So is its call of finalizeRound, which finalizes one round and no other.
LEMMA FinalizeIsCall ==
  ASSUME EscrowInv, NEW r \in RoundIds, NEW passes \in {0, 1, 2}, FinalizeRound(r, passes)
  PROVE  /\ EscrowNext
         /\ \A s \in RoundIds : s # r => ledger'[s] = ledger[s]
<1>1. /\ r \in Rounds /\ ledger \in [Rounds -> RoundLedger]
  BY EscrowInvFacts DEF RoundIds
<1>2. EscrowNext
  BY <1>1 DEF EscrowNext, EscrowCall
<1>3. \A s \in RoundIds : s # r => ledger'[s] = ledger[s]
  BY <1>1 DEF FinalizeRound, RoundIds
<1> QED BY <1>2, <1>3

\* A round that is not settled keeps its bonds out of the refunds.
LEMMA KeepsFinalized ==
  ASSUME FinalizedIsSettled, \A s \in RoundIds : ledger'[s].finalized = ledger[s].finalized,
         \A s \in RoundIds : round[s].state = "SETTLED" => round'[s].state = "SETTLED"
  PROVE  FinalizedIsSettled'
BY DEF FinalizedIsSettled

\* A settled round stays settled, whatever happens.
LEMMA SettledStays ==
  ASSUME VaultShape, [Next]_vars
  PROVE  \A s \in RoundIds : round[s].state = "SETTLED" => round'[s].state = "SETTLED"
<1>0. \A n \in 1..MAX_CHUNK : n \in Nat
  OBVIOUS
<1>1. CASE Tick \/ UserStep \/ UNCHANGED vars
  BY <1>1, UserRecords DEF SameRecord
<1>2. CASE CloseRound
  <2>1. round[activeRoundId].state # "SETTLED"
    BY <1>2, CloseRecords
  <2>2. activeRoundId + 1 \in RoundIds => round[activeRoundId + 1].state # "SETTLED"
    BY ShapeTypes DEF VaultShape, RoundsInOrder, UninitializedRound
  <2> QED BY <1>2, <2>1, <2>2, CloseRecords
<1>3. ASSUME NEW r \in RoundIds, SettlementStep(r)
      PROVE  \A s \in RoundIds : round[s].state = "SETTLED" => round'[s].state = "SETTLED"
  <2>1. \A s \in RoundIds : s # r => round'[s].state = round[s].state
    BY <1>3, SettlementRecords DEF SameRecord
  <2>2. round[r].state # "SETTLED"
    BY <1>3 DEF SettlementStep, FinalizeAggregate, GenerateRandomCandidate, DrawAllowed,
                FinalizeCandidateValidity, ProcessSelection, FinalizeSelectionReconciliation,
                ProcessAllocation, FinalizeSettlement, RecoverFailedReconciliation,
                SettleEmptyRound
  <2> QED BY <2>1, <2>2
<1> QED BY <1>1, <1>2, <1>3 DEF Next

\* Every step of the composition is a call that the escrow allows, or none.
LEMMA EscrowSimulation ==
  ASSUME VaultShape, EscrowInv, FinalizedIsSettled, [Next]_vars
  PROVE  [EscrowNext]_escrowVars /\ FinalizedIsSettled'
<1>0. /\ Savers \subseteq Accounts /\ Progressors \subseteq Accounts
      /\ \A n \in 1..MAX_CHUNK : n \in Nat
  BY Configured
<1>1. ASSUME UNCHANGED escrowVars
      PROVE  [EscrowNext]_escrowVars /\ FinalizedIsSettled'
  <2>1. ledger' = ledger
    BY <1>1 DEF escrowVars
  <2> QED BY <1>1, <2>1, SettledStays, KeepsFinalized
<1>2. CASE Tick \/ CloseRound \/ BalanceStep \/ PrizeStep \/ WinningsStep \/ PreferenceStep
             \/ UNCHANGED vars
  <2>1. UNCHANGED escrowVars
    <3>1. CASE Tick \/ CloseRound \/ UNCHANGED vars
      BY <3>1 DEF Tick, CloseRound, vars
    <3>2. CASE BalanceStep
      BY <3>2 DEF BalanceStep, Deposit, Withdraw
    <3>3. CASE PrizeStep
      BY <3>3 DEF PrizeStep, ContributeSponsor, HarvestStrategyYield
    <3>4. CASE WinningsStep \/ PreferenceStep
      BY <3>4 DEF WinningsStep, WithdrawWinnings, PreferenceStep, SetAutoSavePreference
    <3> QED BY <1>2, <3>1, <3>2, <3>3, <3>4
  <2> QED BY <1>1, <2>1
<1>3. CASE RegistrationStep
  <2>1. PICK r \in RoundIds, a \in Savers : RegisterParticipant(r, a)
    BY <1>3 DEF RegistrationStep
  <2>2. round[r].state = "OPEN" /\ RegisterForRound(r, a)
    BY <2>1 DEF RegisterParticipant, IsActiveRoundOpen
  <2>3. Register(r, a)
    BY <2>2 DEF Register, FinalizedIsSettled
  <2>4. EscrowNext
    BY <1>0, <2>3 DEF EscrowNext, EscrowCall, RoundIds
  <2>5. \A s \in RoundIds : ledger'[s].finalized = ledger[s].finalized
    <3>1. ledger \in [Rounds -> RoundLedger]
      BY EscrowInvFacts
    <3> QED BY <2>2, <3>1 DEF RegisterForRound, RoundLedger, RoundIds
  <2> QED BY <2>4, <2>5, SettledStays, KeepsFinalized
<1>4. CASE EscrowPayout
  <2>1. EscrowNext \/ UNCHANGED escrowVars
    <3>1. CASE \E a \in Accounts : WithdrawSettlementRewards(a)
                                   \/ \E r \in RoundIds : ClaimBondRefund(r, a)
      BY <3>1, Configured DEF EscrowNext, EscrowCall, RoundIds
    <3>2. CASE \E amount \in 1..MAX_FORCED : ForceNative(amount)
      BY <3>2 DEF EscrowNext
    <3> QED BY <1>4, <3>1, <3>2 DEF EscrowPayout
  <2>2. ledger' = ledger
    BY <1>4 DEF EscrowPayout, WithdrawSettlementRewards, ClaimBondRefund, ForceNative
  <2> QED BY <2>1, <2>2, SettledStays, KeepsFinalized
<1>5. ASSUME NEW r \in RoundIds, SettlementStep(r)
      PROVE  [EscrowNext]_escrowVars /\ FinalizedIsSettled'
  <2>1. CASE \/ FinalizeAggregate(r)
             \/ \E c \in 0..(RANDOM_DOMAIN - 1) : GenerateRandomCandidate(r, c)
             \/ \E k \in 1..Len(validityProofs[r]) : FinalizeCandidateValidity(r, k)
             \/ \E valid \in BOOLEAN : FinalizeSelectionReconciliation(r, valid)
    <3>1. UNCHANGED escrowVars
      BY <2>1 DEF FinalizeAggregate, GenerateRandomCandidate, FinalizeCandidateValidity,
                  FinalizeSelectionReconciliation
    <3> QED BY <1>1, <3>1
  <2>2. ASSUME NEW pass \in {1, 2}, NEW n \in Nat, NEW p \in Progressors,
               CreditProgress(r, pass, n, p)
        PROVE  [EscrowNext]_escrowVars /\ FinalizedIsSettled'
    <3>1. p \in Accounts
      BY <1>0
    <3>2. EscrowNext /\ \A s \in RoundIds : ledger'[s].finalized = ledger[s].finalized
      BY <2>2, <3>1, CreditIsCall
    <3> QED BY <3>2, SettledStays, KeepsFinalized
  <2>3. CASE \E n \in 1..MAX_CHUNK, p \in Progressors :
               ProcessSelection(r, n, p) \/ ProcessAllocation(r, n, p)
    <3>1. PICK n \in 1..MAX_CHUNK, p \in Progressors :
            ProcessSelection(r, n, p) \/ ProcessAllocation(r, n, p)
      BY <2>3
    <3>2. Closed(r)
      BY <3>1 DEF ProcessSelection, ProcessAllocation, Closed
    <3>3. round[r].selectionCursor \in Nat /\ round[r].allocationCursor \in Nat
      BY ShapeTypes, RoundFields
    <3>4. \A cursor \in Nat : Cardinality(Slice(round[r], cursor, n)) \in Nat
      BY <1>0, <3>2, SliceFacts
    <3>5. \/ CreditProgress(r, 1, Cardinality(Slice(round[r], round[r].selectionCursor, n)), p)
          \/ CreditProgress(r, 2, Cardinality(Slice(round[r], round[r].allocationCursor, n)), p)
      BY <3>1 DEF ProcessSelection, ProcessAllocation
    <3> QED BY <2>2, <3>3, <3>4, <3>5
  <2>4. ASSUME NEW passes \in {0, 1, 2}, FinalizeRound(r, passes), round'[r].state = "SETTLED"
        PROVE  [EscrowNext]_escrowVars /\ FinalizedIsSettled'
    <3>1. EscrowNext /\ \A s \in RoundIds : s # r => ledger'[s] = ledger[s]
      BY <2>4, FinalizeIsCall
    <3>2. \A s \in RoundIds : s # r => (ledger'[s].finalized => round'[s].state = "SETTLED")
      BY <3>1, SettledStays DEF FinalizedIsSettled
    <3>3. FinalizedIsSettled'
      BY <2>4, <3>2 DEF FinalizedIsSettled
    <3> QED BY <3>1, <3>3
  <2>5. CASE FinalizeSettlement(r)
    <3>1. round'[r].state = "SETTLED"
      BY <2>5, ShapeTypes DEF FinalizeSettlement, OnlyRound, Round
    <3>2. FinalizeRound(r, 2) /\ 2 \in {0, 1, 2}
      BY <2>5 DEF FinalizeSettlement
    <3> QED BY <2>4, <3>1, <3>2
  <2>6. CASE RecoverFailedReconciliation(r) \/ SettleEmptyRound(r)
    <3>1. round'[r].state = "SETTLED"
      <4>1. RollPrizeForward(r)
        BY <2>6 DEF RecoverFailedReconciliation, SettleEmptyRound
      <4> QED BY <4>1, ShapeTypes DEF RollPrizeForward, Round
    <3>2. \E passes \in {0, 1, 2} : FinalizeRound(r, passes)
      BY <2>6 DEF RecoverFailedReconciliation, SettleEmptyRound
    <3> QED BY <2>4, <3>1, <3>2
  <2> QED BY <1>5, <2>1, <2>3, <2>5, <2>6 DEF SettlementStep
<1> QED BY <1>2, <1>3, <1>4, <1>5 DEF Next, UserStep


\* The escrow's invariant holds in the composition.
THEOREM BondInvariant == Spec => [](EscrowInv /\ FinalizedIsSettled)
<1>1. Init => EscrowInv /\ FinalizedIsSettled
  <2> SUFFICES ASSUME Init PROVE EscrowInv /\ FinalizedIsSettled
    OBVIOUS
  <2>1. EscrowInv
    BY EscrowInitInv, EscrowConfiguration DEF Init
  <2>2. FinalizedIsSettled
    BY DEF Init, EscrowInit, EmptyLedger, FinalizedIsSettled, RoundIds
  <2> QED BY <2>1, <2>2
<1>2. VaultShape /\ EscrowInv /\ FinalizedIsSettled /\ [Next]_vars
        => (EscrowInv /\ FinalizedIsSettled)'
  BY EscrowSimulation, EscrowStepInv, EscrowConfiguration
<1> QED BY <1>1, <1>2, VaultShapeInvariant, PTL DEF Spec

\* LeopoldVault is a vault that LeopoldSettlementBondEscrow is safe with: the
\* composition implements the escrow's own specification, in which no
\* registration is accepted for a round already finalized.
THEOREM VaultImplementsEscrow == Spec => EscrowRefined
<1>1. Init => Escrow!EscrowInit
  BY DEF Init, EscrowInit, EmptyLedger, RoundIds, Escrow!EscrowInit, Escrow!EmptyLedger
<1>2. Escrow!EscrowNext <=> EscrowNext
  BY DEF EscrowNext, EscrowCall, Register, Credit, RegisterForRound, CreditProgress,
         Processed, FinalizeRound, PassesComplete, RefundAfter,
         REFUND_PER_COMPLETED_PARTICIPANT, ClaimBondRefund, WithdrawSettlementRewards,
         AccountedLiability, ForceNative, RoundIds,
         Escrow!EscrowNext, Escrow!EscrowCall, Escrow!Register, Escrow!Credit,
         Escrow!RegisterForRound, Escrow!CreditProgress, Escrow!Processed,
         Escrow!FinalizeRound, Escrow!PassesComplete, Escrow!RefundAfter,
         Escrow!REFUND_PER_COMPLETED_PARTICIPANT, Escrow!ClaimBondRefund,
         Escrow!WithdrawSettlementRewards, Escrow!AccountedLiability, Escrow!ForceNative
<1>3. VaultShape /\ EscrowInv /\ FinalizedIsSettled /\ [Next]_vars
        => [Escrow!EscrowNext]_(Escrow!escrowVars)
  <2> SUFFICES ASSUME VaultShape, EscrowInv, FinalizedIsSettled, [Next]_vars
               PROVE  [Escrow!EscrowNext]_(Escrow!escrowVars)
    OBVIOUS
  <2>1. [EscrowNext]_escrowVars
    BY EscrowSimulation
  <2>2. CASE EscrowNext
    BY <1>2, <2>2
  <2>3. CASE UNCHANGED escrowVars
    <3>1. UNCHANGED Escrow!escrowVars
      BY <2>3 DEF escrowVars, Escrow!escrowVars
    <3> QED BY <3>1
  <2> QED BY <2>1, <2>2, <2>3
<1> QED BY <1>1, <1>3, VaultShapeInvariant, BondInvariant, PTL
        DEF Spec, EscrowRefined, Escrow!EscrowSpec

\* So every bond posted is owed or was paid, whatever the savers, the keeper and
\* the rounds of the vault do, and each settled round has split its bonds exactly.
THEOREM BondsAreSafe == Spec => [](EveryWeiAccounted /\ RoundsResolveExactly)
<1>1. EscrowInv => EveryWeiAccounted /\ RoundsResolveExactly
  BY DEF EscrowInv, AllLedgersShaped, LedgerShape, RoundsResolveExactly
<1> QED BY <1>1, BondInvariant, PTL

-----------------------------------------------------------------------------
(* The prize of a round. *)

\* The record of a round with its winners W and its participants s: a round
\* found valid has a winner among them, and its prize is paid at most once, to
\* the first winner the allocation meets.
PrizeOf(R, W, s) ==
  /\ W \subseteq {s[i] : i \in DOMAIN s}
  /\ R.state \in {"UNINITIALIZED", "OPEN"} => W = {} /\ R.reservedPrize = 0
  /\ R.encryptedWinnerCount # 0 => W # {}
  /\ R.reconciliationValid => R.encryptedWinnerCount # 0
  /\ R.state \in {"READY_TO_ALLOCATE", "ALLOCATION_PROCESSING"} => R.reconciliationValid
  /\ R.state \notin {"ALLOCATION_PROCESSING", "WINNINGS_ALLOCATED", "SETTLED"} =>
       R.allocationCursor = 0
  /\ R.state = "ALLOCATION_PROCESSING" =>
       \/ R.reservedPrize = 0
       \/ \A i \in DOMAIN s : i <= R.allocationCursor => s[i] \notin W
  /\ R.allocationCursor = 0 /\ R.state # "SETTLED" => R.reservedPrize = R.publicPrize
  /\ R.state \in {"WINNINGS_ALLOCATED", "SETTLED"} => R.reservedPrize = 0

PrizesInv == \A r \in RoundIds : PrizeOf(round[r], winnerPredicate[r], participants[r])

\* A record keeps its prize as long as its settlement is left alone.
LEMMA SamePrize ==
  ASSUME NEW R, NEW Q, NEW W, NEW s, NEW t, PrizeOf(R, W, s), SameRecord(R, Q),
         t = s \/ R.state = "OPEN"
  PROVE  PrizeOf(Q, W, t)
BY DEF PrizeOf, SameRecord

\* So does one whose draw goes on.
LEMMA DrawPrize ==
  ASSUME NEW R, NEW Q, NEW W, NEW s, PrizeOf(R, W, s),
         R.state \notin {"UNINITIALIZED", "OPEN", "ALLOCATION_PROCESSING", "WINNINGS_ALLOCATED",
                         "SETTLED"},
         Q.state \notin {"UNINITIALIZED", "OPEN", "ALLOCATION_PROCESSING", "WINNINGS_ALLOCATED",
                         "SETTLED"},
         Q.state = "READY_TO_ALLOCATE" => R.reconciliationValid,
         Q.reservedPrize = R.reservedPrize, Q.publicPrize = R.publicPrize,
         Q.allocationCursor = R.allocationCursor,
         Q.encryptedWinnerCount = R.encryptedWinnerCount,
         Q.reconciliationValid = R.reconciliationValid
  PROVE  PrizeOf(Q, W, s)
BY DEF PrizeOf

\* processSelection: the winners it counts are there.
LEMMA SelectionPrize ==
  ASSUME VaultShape, PrizesInv, NEW r \in RoundIds, NEW n \in Nat, NEW p,
         ProcessSelection(r, n, p)
  PROVE  PrizeOf(round'[r], winnerPredicate'[r], participants'[r])
<1>1. PICK W \in SUBSET Members(r), cursor \in Nat, cumulative \in Nat, count \in Nat,
           valid \in BOOLEAN :
             /\ SelectionStep(r, W, cursor, cumulative, count, valid)
             /\ IsFiniteSet(W) /\ Cardinality(W) \in Nat
  BY SelectionIs
<1> DEFINE P == round[r]
           state == IF cursor = P.participantCountSnapshot
                    THEN "RECONCILIATION_PENDING" ELSE "WINNER_PROCESSING"
           X == [P EXCEPT !.selectionCursor = cursor, !.selectionCumulative = cumulative,
                          !.encryptedWinnerCount = count, !.reconciliationValid = valid,
                          !.state = state]
           C == winnerPredicate[r]
           s == participants[r]
<1>2. /\ P \in Round /\ round \in [RoundIds -> Round] /\ P.encryptedWinnerCount \in Nat
      /\ winnerPredicate \in [RoundIds -> SUBSET Accounts]
  BY ShapeTypes, RoundFields
<1>3. round'[r] = X /\ winnerPredicate'[r] = C \cup W /\ participants' = participants
  BY <1>1, <1>2 DEF SelectionStep, OnlyRound
<1>4. /\ P.state \in {"TICKET_ACCEPTED", "WINNER_PROCESSING"}
      /\ count = P.encryptedWinnerCount + Cardinality(W) /\ (valid => count = 1)
      /\ PrizeOf(P, C, s)
  BY <1>1 DEF SelectionStep, PrizesInv
<1>5. count # 0 => C \cup W # {}
  <2>1. CASE W = {}
    <3>1. Cardinality(W) = 0
      BY <2>1, FS_EmptySet
    <3>2. count = P.encryptedWinnerCount
      BY <1>2, <1>4, <3>1
    <3> QED BY <1>4, <3>2 DEF PrizeOf
  <2> QED BY <2>1
<1>6. state \in {"RECONCILIATION_PENDING", "WINNER_PROCESSING"}
  OBVIOUS
<1>7. /\ X.state = state /\ X.encryptedWinnerCount = count /\ X.reconciliationValid = valid
      /\ X.reservedPrize = P.reservedPrize /\ X.publicPrize = P.publicPrize
      /\ X.allocationCursor = P.allocationCursor
  <2> HIDE DEF P, state
  <2> QED BY <1>2 DEF Round
<1>8. W \subseteq {s[i] : i \in DOMAIN s}
  BY DEF Members
<1>9. PrizeOf(X, C \cup W, s)
  <2> HIDE DEF X, P, C, s, state
  <2> QED BY <1>4, <1>5, <1>6, <1>7, <1>8 DEF PrizeOf
<1> QED BY <1>3, <1>9

\* processAllocation: the prize goes to the first winner met, and once every
\* participant has been met it has been paid.
LEMMA AllocationPrize ==
  ASSUME VaultShape, PrizesInv, NEW r \in RoundIds, NEW n \in Nat, NEW p,
         ProcessAllocation(r, n, p)
  PROVE  PrizeOf(round'[r], winnerPredicate'[r], participants'[r])
<1>1. PICK M \in SUBSET Members(r), w \in Accounts, prize \in Nat, d \in Nat, cursor \in Nat :
        AllocationStep(r, M, w, prize, d, cursor)
  BY AllocationIs
<1> DEFINE P == round[r]
           state == IF cursor = P.participantCountSnapshot
                    THEN "WINNINGS_ALLOCATED" ELSE "ALLOCATION_PROCESSING"
           X == [P EXCEPT !.reservedPrize = P.reservedPrize - prize,
                          !.allocationCursor = cursor, !.state = state]
           C == winnerPredicate[r]
           s == participants[r]
<1>2. /\ P \in Round /\ P.reservedPrize \in Nat /\ P.participantCountSnapshot \in Nat
      /\ P.allocationCursor \in Nat
  BY ShapeTypes, RoundFields
<1>3. /\ round'[r] = X /\ winnerPredicate' = winnerPredicate /\ participants' = participants
      /\ P.state \in {"READY_TO_ALLOCATE", "ALLOCATION_PROCESSING"} /\ Closed(r) /\ cursor # 0
      /\ \/ w \in C /\ prize = P.reservedPrize
         \/ M \cap C = {} /\ prize = 0
      /\ \A i \in DOMAIN s : i <= cursor => i <= P.allocationCursor \/ s[i] \in M
  BY <1>1 DEF AllocationStep
<1>4. PrizeOf(P, C, s)
  BY DEF PrizesInv
<1>5. DOMAIN s = 1..P.participantCountSnapshot
  BY <1>2, <1>3, SliceFacts
<1>6. /\ X.state = state /\ X.encryptedWinnerCount = P.encryptedWinnerCount
      /\ X.reconciliationValid = P.reconciliationValid
      /\ X.reservedPrize = P.reservedPrize - prize /\ X.allocationCursor = cursor
  <2> HIDE DEF P, state
  <2> QED BY <1>2 DEF Round
<1>7. \/ state = "WINNINGS_ALLOCATED" /\ cursor = P.participantCountSnapshot
      \/ state = "ALLOCATION_PROCESSING"
  OBVIOUS
<1> HIDE DEF X, P, C, s, state
<1>8. C # {} /\ C \subseteq {s[i] : i \in DOMAIN s} /\ P.reconciliationValid
  BY <1>3, <1>4 DEF PrizeOf
<1>9. \A i \in DOMAIN s : i <= P.allocationCursor /\ P.reservedPrize # 0 => s[i] \notin C
  <2>1. CASE P.state = "READY_TO_ALLOCATE"
    <3>1. P.allocationCursor = 0
      BY <1>4, <2>1 DEF PrizeOf
    <3>2. \A i \in DOMAIN s : i > 0
      BY <1>2, <1>5
    <3> QED BY <1>5, <3>1, <3>2
  <2>2. CASE P.state = "ALLOCATION_PROCESSING"
    BY <1>4, <2>2 DEF PrizeOf
  <2> QED BY <1>3, <2>1, <2>2
<1>10. X.reservedPrize = 0 \/ \A i \in DOMAIN s : i <= cursor => s[i] \notin C
  <2>1. CASE prize = P.reservedPrize
    BY <1>2, <1>6, <2>1
  <2>2. CASE M \cap C = {} /\ prize = 0 /\ P.reservedPrize # 0
    BY <1>3, <1>9, <2>2
  <2> QED BY <1>3, <2>1, <2>2
<1>11. state = "WINNINGS_ALLOCATED" => X.reservedPrize = 0
  <2> SUFFICES ASSUME cursor = P.participantCountSnapshot, X.reservedPrize # 0
               PROVE  FALSE
    BY <1>7
  <2>1. PICK i \in DOMAIN s : s[i] \in C
    BY <1>8
  <2>2. i <= cursor
    BY <1>2, <1>5
  <2> QED BY <1>10, <2>1, <2>2
<1>12. PrizeOf(X, C, s)
  BY <1>3, <1>4, <1>6, <1>7, <1>8, <1>10, <1>11 DEF PrizeOf
<1> QED BY <1>3, <1>12 DEF C, s

\* Every step of a round's settlement keeps its prize in place.
LEMMA SettlementPrize ==
  ASSUME VaultShape, PrizesInv, NEW r \in RoundIds, SettlementStep(r)
  PROVE  PrizeOf(round'[r], winnerPredicate'[r], participants'[r])
<1> DEFINE P == round[r]
<1>0. P \in Round /\ round \in [RoundIds -> Round] /\ \A n \in 1..MAX_CHUNK : n \in Nat
  <2>1. round \in [RoundIds -> Round]
    BY ShapeTypes
  <2>2. \A n \in 1..MAX_CHUNK : n \in Nat
    BY Configured
  <2> QED BY <2>1, <2>2
<1>a. PrizeOf(P, winnerPredicate[r], participants[r])
  BY DEF PrizesInv
<1>b. ASSUME NEW X, OnlyRound(r, X), winnerPredicate' = winnerPredicate
      PROVE  round'[r] = X /\ participants' = participants
  BY <1>0, <1>b DEF OnlyRound
<1>1. CASE FinalizeAggregate(r)
  <2> DEFINE state == IF P.aggregateTwab = 0 THEN "EMPTY" ELSE "AGGREGATE_FINALIZED"
             X == [P EXCEPT !.publicAggregateTwab = P.aggregateTwab, !.state = state]
  <2>1. /\ P.state = "AGGREGATE_PENDING" /\ OnlyRound(r, X) /\ winnerPredicate' = winnerPredicate
        /\ state \in {"EMPTY", "AGGREGATE_FINALIZED"}
    BY <1>1 DEF FinalizeAggregate
  <2>2. /\ X.state = state /\ X.reservedPrize = P.reservedPrize /\ X.publicPrize = P.publicPrize
        /\ X.allocationCursor = P.allocationCursor
        /\ X.encryptedWinnerCount = P.encryptedWinnerCount
        /\ X.reconciliationValid = P.reconciliationValid
    <3> HIDE DEF P, state
    <3> QED BY <1>0 DEF Round
  <2> HIDE DEF X, state, P
  <2>3. PrizeOf(X, winnerPredicate[r], participants[r])
    BY <1>a, <2>1, <2>2, DrawPrize
  <2> QED BY <1>b, <2>1, <2>3
<1>2. CASE \E c \in 0..(RANDOM_DOMAIN - 1) : GenerateRandomCandidate(r, c)
  <2>1. PICK c \in 0..(RANDOM_DOMAIN - 1) : GenerateRandomCandidate(r, c)
    BY <1>2
  <2> DEFINE k == c % P.publicAggregateTwab
             D == [P EXCEPT !.candidate = c]
             T == [D EXCEPT !.acceptedTicket = k, !.state = "TICKET_ACCEPTED"]
             V == [D EXCEPT !.state = "CANDIDATE_VALIDITY_PENDING"]
  <2>2. /\ P.state \in {"AGGREGATE_FINALIZED", "CANDIDATE_REJECTED"}
        /\ winnerPredicate' = winnerPredicate
        /\ OnlyRound(r, T) \/ OnlyRound(r, V)
    BY <2>1 DEF GenerateRandomCandidate, DrawAllowed
  <2>3. ASSUME NEW X \in {T, V}
        PROVE  /\ X.state \in {"TICKET_ACCEPTED", "CANDIDATE_VALIDITY_PENDING"}
               /\ X.reservedPrize = P.reservedPrize /\ X.publicPrize = P.publicPrize
               /\ X.allocationCursor = P.allocationCursor
               /\ X.encryptedWinnerCount = P.encryptedWinnerCount
               /\ X.reconciliationValid = P.reconciliationValid
    <3> HIDE DEF P, k
    <3> QED BY <1>0 DEF Round
  <2> HIDE DEF T, V, P
  <2>4. ASSUME NEW X \in {T, V} PROVE PrizeOf(X, winnerPredicate[r], participants[r])
    BY <1>a, <2>2, <2>3, DrawPrize
  <2> QED BY <1>b, <2>2, <2>4
<1>3. CASE \E k \in 1..Len(validityProofs[r]) : FinalizeCandidateValidity(r, k)
  <2> DEFINE k == P.candidate % P.publicAggregateTwab
             T == [P EXCEPT !.acceptedTicket = k, !.state = "TICKET_ACCEPTED"]
             V == [P EXCEPT !.state = "CANDIDATE_REJECTED"]
  <2>2. /\ P.state = "CANDIDATE_VALIDITY_PENDING"
        /\ winnerPredicate' = winnerPredicate
        /\ OnlyRound(r, T) \/ OnlyRound(r, V)
    BY <1>3 DEF FinalizeCandidateValidity
  <2>3. ASSUME NEW X \in {T, V}
        PROVE  /\ X.state \in {"TICKET_ACCEPTED", "CANDIDATE_REJECTED"}
               /\ X.reservedPrize = P.reservedPrize /\ X.publicPrize = P.publicPrize
               /\ X.allocationCursor = P.allocationCursor
               /\ X.encryptedWinnerCount = P.encryptedWinnerCount
               /\ X.reconciliationValid = P.reconciliationValid
    <3> HIDE DEF P, k
    <3> QED BY <1>0 DEF Round
  <2> HIDE DEF T, V, P
  <2>4. ASSUME NEW X \in {T, V} PROVE PrizeOf(X, winnerPredicate[r], participants[r])
    BY <1>a, <2>2, <2>3, DrawPrize
  <2> QED BY <1>b, <2>2, <2>4
<1>4. CASE \E n \in 1..MAX_CHUNK, p \in Progressors : ProcessSelection(r, n, p)
  BY <1>0, <1>4, SelectionPrize
<1>5. CASE \E valid \in BOOLEAN : FinalizeSelectionReconciliation(r, valid)
  <2>1. PICK valid \in BOOLEAN : FinalizeSelectionReconciliation(r, valid)
    BY <1>5
  <2> DEFINE state == IF valid THEN "READY_TO_ALLOCATE" ELSE "RECONCILIATION_FAILED"
             X == [P EXCEPT !.state = state]
  <2>2. /\ P.state = "RECONCILIATION_PENDING" /\ OnlyRound(r, X) /\ winnerPredicate' = winnerPredicate
        /\ state \in {"READY_TO_ALLOCATE", "RECONCILIATION_FAILED"}
        /\ state = "READY_TO_ALLOCATE" => P.reconciliationValid
    BY <2>1 DEF FinalizeSelectionReconciliation
  <2>3. /\ X.state = state /\ X.reservedPrize = P.reservedPrize /\ X.publicPrize = P.publicPrize
        /\ X.allocationCursor = P.allocationCursor
        /\ X.encryptedWinnerCount = P.encryptedWinnerCount
        /\ X.reconciliationValid = P.reconciliationValid
    <3> HIDE DEF P, state
    <3> QED BY <1>0 DEF Round
  <2> HIDE DEF X, state, P
  <2>4. PrizeOf(X, winnerPredicate[r], participants[r])
    BY <1>a, <2>2, <2>3, DrawPrize
  <2> QED BY <1>b, <2>2, <2>4
<1>6. CASE \E n \in 1..MAX_CHUNK, p \in Progressors : ProcessAllocation(r, n, p)
  BY <1>0, <1>6, AllocationPrize
<1>7. CASE FinalizeSettlement(r)
  <2>1. /\ round[r].state = "WINNINGS_ALLOCATED" /\ round'[r] = [round[r] EXCEPT !.state = "SETTLED"]
        /\ winnerPredicate' = winnerPredicate /\ participants' = participants
    BY <1>0, <1>7 DEF FinalizeSettlement, OnlyRound
  <2> DEFINE X == [P EXCEPT !.state = "SETTLED"]
  <2>2. /\ X.state = "SETTLED" /\ X.reservedPrize = P.reservedPrize
        /\ X.encryptedWinnerCount = P.encryptedWinnerCount
        /\ X.reconciliationValid = P.reconciliationValid
    <3> HIDE DEF P
    <3> QED BY <1>0 DEF Round
  <2>3. PrizeOf(X, winnerPredicate[r], participants[r])
    <3> HIDE DEF X
    <3> QED BY <1>a, <2>1, <2>2 DEF PrizeOf
  <2> QED BY <2>1, <2>3
<1>8. CASE RecoverFailedReconciliation(r) \/ SettleEmptyRound(r)
  <2>1. /\ round'[r] = [round[r] EXCEPT !.reservedPrize = 0, !.state = "SETTLED"]
        /\ winnerPredicate' = winnerPredicate /\ participants' = participants
        /\ round[r].state \in {"RECONCILIATION_FAILED", "EMPTY"}
    BY <1>0, <1>8 DEF RecoverFailedReconciliation, SettleEmptyRound, RollPrizeForward
  <2> DEFINE X == [P EXCEPT !.reservedPrize = 0, !.state = "SETTLED"]
  <2>2. /\ X.state = "SETTLED" /\ X.reservedPrize = 0
        /\ X.encryptedWinnerCount = P.encryptedWinnerCount
        /\ X.reconciliationValid = P.reconciliationValid
    <3> HIDE DEF P
    <3> QED BY <1>0 DEF Round
  <2>3. PrizeOf(X, winnerPredicate[r], participants[r])
    <3> HIDE DEF X
    <3> QED BY <1>a, <2>1, <2>2 DEF PrizeOf
  <2> QED BY <2>1, <2>3
<1> QED BY <1>1, <1>2, <1>3, <1>4, <1>5, <1>6, <1>7, <1>8 DEF SettlementStep

-----------------------------------------------------------------------------
(* The money. *)

\* The sponsorship of the rounds that are not closed.
OpenSponsorship == [r \in RoundIds |-> IF r >= activeRoundId THEN sponsoredPrize[r] ELSE 0]

ReservedPrizes == [r \in RoundIds |-> round[r].reservedPrize]

\* The running totals are the sums of what they are the totals of, and the
\* encrypted amounts agree with their public twins.
TotalsInv ==
  /\ totalPrincipal = Sum(principal)
  /\ totalPrincipal <= MAX_POOL_BASE_UNITS
  /\ liquidPrincipal = totalPrincipal
  /\ liquidPrizeAssets =
       Sum(OpenSponsorship) + realizedSurplus + reservedPrize + winningsLiability
  /\ reservedPrize = Sum(ReservedPrizes)
  /\ winningsLiability = Sum(winnings)
  /\ realizedSurplus = uncommittedYield /\ uncommittedYield = publicUncommittedYield
  /\ \A r \in RoundIds : r >= activeRoundId => sponsoredPrize[r] = publicSponsoredPrize[r]
  /\ assetBalance = liquidPrincipal + liquidPrizeAssets

MoneyInv == PrizesInv /\ TotalsInv

\* The types of the totals.
LEMMA TotalsTypes ==
  ASSUME VaultShape, TotalsInv
  PROVE  /\ OpenSponsorship \in [RoundIds -> Nat] /\ Sum(OpenSponsorship) \in Nat
         /\ ReservedPrizes \in [RoundIds -> Nat] /\ Sum(ReservedPrizes) \in Nat
         /\ Sum(principal) \in Nat /\ Sum(winnings) \in Nat
         /\ totalPrincipal \in Nat /\ liquidPrincipal \in Nat /\ liquidPrizeAssets \in Nat
         /\ realizedSurplus \in Nat /\ reservedPrize \in Nat /\ winningsLiability \in Nat
         /\ uncommittedYield \in Nat /\ assetBalance \in Nat
<1>1. /\ OpenSponsorship \in [RoundIds -> Nat] /\ ReservedPrizes \in [RoundIds -> Nat]
      /\ principal \in [Accounts -> Nat] /\ winnings \in [Accounts -> Nat]
      /\ uncommittedYield \in Nat
  BY ShapeTypes, RoundFields DEF OpenSponsorship, ReservedPrizes
<1>2. IsFiniteSet(Accounts) /\ IsFiniteSet(RoundIds)
  BY Configured
<1>3. /\ Sum(OpenSponsorship) \in Nat /\ Sum(ReservedPrizes) \in Nat
      /\ Sum(principal) \in Nat /\ Sum(winnings) \in Nat
  BY <1>1, <1>2, SumType
<1> QED BY <1>1, <1>3 DEF TotalsInv

\* A step that moves no money.
LEMMA TotalsKept ==
  ASSUME VaultShape, TotalsInv,
         UNCHANGED <<activeRoundId, principal, totalPrincipal, liquidPrincipal, prizeVars,
                     assetBalance>>,
         \A s \in RoundIds : round'[s].reservedPrize = round[s].reservedPrize
  PROVE  TotalsInv'
<1>1. OpenSponsorship' = OpenSponsorship /\ ReservedPrizes' = ReservedPrizes
  BY DEF OpenSponsorship, ReservedPrizes, prizeVars
<1> QED BY <1>1 DEF TotalsInv, prizeVars

\* One entry of a mapping moves by d, and so does its total.
LEMMA SumShift ==
  ASSUME NEW S, IsFiniteSet(S), NEW f \in [S -> Nat], NEW g \in [S -> Nat], NEW x \in S,
         NEW d \in Int, g[x] = f[x] + d, \A y \in S \ {x} : g[y] = f[y]
  PROVE  Sum(g) = Sum(f) + d
<1>1. Sum(g) = Sum(f) - f[x] + g[x] /\ Sum(f) \in Nat /\ Sum(g) \in Nat
  BY SumMove
<1>2. f[x] \in Nat /\ g[x] \in Nat
  OBVIOUS
<1> QED BY <1>1, <1>2

\* onConfidentialTransferReceived books what it accepts, withdraw what it sends.
LEMMA BalanceTotals ==
  ASSUME VaultShape, TotalsInv, NEW a \in Accounts, NEW d \in Int, principal[a] + d \in Nat,
         principal' = [principal EXCEPT ![a] = principal[a] + d],
         totalPrincipal' = totalPrincipal + d,
         liquidPrincipal' = liquidPrincipal + d,
         assetBalance' = assetBalance + d,
         totalPrincipal + d <= MAX_POOL_BASE_UNITS,
         UNCHANGED <<activeRoundId, prizeVars>>,
         \A s \in RoundIds : round'[s].reservedPrize = round[s].reservedPrize
  PROVE  TotalsInv'
<1>1. OpenSponsorship' = OpenSponsorship /\ ReservedPrizes' = ReservedPrizes
  BY DEF OpenSponsorship, ReservedPrizes, prizeVars
<1> DEFINE f == principal
           g == principal'
<1>2. /\ f \in [Accounts -> Nat] /\ g \in [Accounts -> Nat] /\ IsFiniteSet(Accounts)
      /\ g[a] = f[a] + d /\ \A y \in Accounts \ {a} : g[y] = f[y]
  BY ShapeTypes, Configured
<1>3. Sum(g) = Sum(f) + d
  <2> HIDE DEF f, g
  <2> QED BY <1>2, SumShift
<1> USE TotalsTypes DEF TotalsInv
<1>4. /\ totalPrincipal' = Sum(principal') /\ totalPrincipal' <= MAX_POOL_BASE_UNITS
      /\ liquidPrincipal' = totalPrincipal'
  BY <1>3
<1>5. assetBalance' = liquidPrincipal' + liquidPrizeAssets
  OBVIOUS
<1> QED BY <1>1, <1>4, <1>5 DEF prizeVars

\* withdrawWinnings books what it sends.
LEMMA WinningsTotals ==
  ASSUME VaultShape, TotalsInv, NEW a \in Accounts, NEW requested \in Nat,
         WithdrawWinnings(a, requested)
  PROVE  TotalsInv'
<1> DEFINE eligible == IF requested <= winnings[a] /\ requested <= liquidPrizeAssets
                       THEN requested ELSE 0
           sent == ConfidentialTransfer(eligible)
           d == -sent
           f == winnings
           g == winnings'
<1>1. winnings[a] \in Nat
  BY ShapeTypes
<1>2. sent \in Nat /\ sent <= winnings[a]
  BY <1>1, SentFits
<1>3. /\ winnings' = [winnings EXCEPT ![a] = @ - sent]
      /\ winningsLiability' = winningsLiability - sent
      /\ liquidPrizeAssets' = liquidPrizeAssets - sent
      /\ assetBalance' = assetBalance - sent
      /\ UNCHANGED <<activeRoundId, round, principal, totalPrincipal, liquidPrincipal,
                     realizedSurplus, reservedPrize, sponsoredPrize, publicSponsoredPrize,
                     uncommittedYield, publicUncommittedYield>>
  BY DEF WithdrawWinnings, roundVars, saverVars
<1> HIDE DEF sent
<1>4. d \in Int /\ winnings[a] - sent = winnings[a] + d /\ winnings[a] - sent \in Nat
  BY <1>1, <1>2
<1>5. /\ f \in [Accounts -> Nat] /\ g \in [Accounts -> Nat] /\ IsFiniteSet(Accounts)
      /\ g[a] = f[a] + d /\ \A y \in Accounts \ {a} : g[y] = f[y]
  BY <1>3, <1>4, ShapeTypes, Configured
<1>6. Sum(g) = Sum(f) + d
  <2> HIDE DEF f, g, d
  <2> QED BY <1>4, <1>5, SumShift
<1>7. OpenSponsorship' = OpenSponsorship /\ ReservedPrizes' = ReservedPrizes
  BY <1>3 DEF OpenSponsorship, ReservedPrizes
<1> USE TotalsTypes DEF TotalsInv
<1>8. winningsLiability' = Sum(winnings')
  BY <1>2, <1>3, <1>6
<1>9. liquidPrizeAssets' = Sum(OpenSponsorship) + realizedSurplus + reservedPrize
                             + winningsLiability'
  BY <1>2, <1>3
<1>10. assetBalance' = liquidPrincipal + liquidPrizeAssets'
  BY <1>2, <1>3
<1> QED BY <1>3, <1>7, <1>8, <1>9, <1>10

\* contributeSponsor adds to the sponsorship of a round that is not closed.
LEMMA SponsorTotals ==
  ASSUME VaultShape, TotalsInv, NEW r \in RoundIds, NEW amount \in Nat,
         ContributeSponsor(r, amount)
  PROVE  TotalsInv'
<1> DEFINE f == OpenSponsorship
           g == OpenSponsorship'
<1>1. /\ r \in {activeRoundId, activeRoundId + 1}
      /\ sponsoredPrize' = [sponsoredPrize EXCEPT ![r] = @ + amount]
      /\ publicSponsoredPrize' = [publicSponsoredPrize EXCEPT ![r] = @ + amount]
      /\ liquidPrizeAssets' = liquidPrizeAssets + amount
      /\ assetBalance' = assetBalance + amount
      /\ UNCHANGED <<activeRoundId, round, principal, totalPrincipal, liquidPrincipal, winnings,
                     realizedSurplus, reservedPrize, winningsLiability, uncommittedYield,
                     publicUncommittedYield>>
  BY DEF ContributeSponsor, roundVars, saverVars
<1>2. /\ sponsoredPrize \in [RoundIds -> Nat] /\ publicSponsoredPrize \in [RoundIds -> Nat]
      /\ activeRoundId \in Nat /\ RoundIds \subseteq Nat /\ IsFiniteSet(RoundIds)
  BY ShapeTypes, Configured
<1>3. r >= activeRoundId
  BY <1>1, <1>2
<1>4. /\ f \in [RoundIds -> Nat] /\ g \in [RoundIds -> Nat]
      /\ g[r] = f[r] + amount /\ \A y \in RoundIds \ {r} : g[y] = f[y]
      /\ amount \in Int
  BY <1>1, <1>2, <1>3 DEF OpenSponsorship
<1>5. Sum(g) = Sum(f) + amount
  <2>1. IsFiniteSet(RoundIds) /\ r \in RoundIds
    BY <1>2
  <2> HIDE DEF f, g
  <2> QED BY ONLY <2>1, <1>4, SumShift
<1>6. ReservedPrizes' = ReservedPrizes
  BY <1>1 DEF ReservedPrizes
<1> USE TotalsTypes DEF TotalsInv
<1>7. /\ liquidPrizeAssets' = Sum(OpenSponsorship') + realizedSurplus + reservedPrize
                                + winningsLiability
      /\ assetBalance' = liquidPrincipal + liquidPrizeAssets'
  BY <1>1, <1>5
<1>8. \A s \in RoundIds : s >= activeRoundId => sponsoredPrize'[s] = publicSponsoredPrize'[s]
  BY <1>1, <1>2
<1> QED BY <1>1, <1>6, <1>7, <1>8

\* harvestStrategyYield adds to the uncommitted yield.
LEMMA HarvestTotals ==
  ASSUME VaultShape, TotalsInv, NEW harvested \in Nat, HarvestStrategyYield(harvested)
  PROVE  TotalsInv'
<1>1. /\ uncommittedYield' = uncommittedYield + harvested
      /\ realizedSurplus' = realizedSurplus + harvested
      /\ liquidPrizeAssets' = liquidPrizeAssets + harvested
      /\ publicUncommittedYield' = publicUncommittedYield + harvested
      /\ assetBalance' = assetBalance + harvested
      /\ UNCHANGED <<activeRoundId, round, principal, totalPrincipal, liquidPrincipal, winnings,
                     reservedPrize, winningsLiability, sponsoredPrize, publicSponsoredPrize>>
  BY DEF HarvestStrategyYield, roundVars, saverVars
<1>2. OpenSponsorship' = OpenSponsorship /\ ReservedPrizes' = ReservedPrizes
  BY <1>1 DEF OpenSponsorship, ReservedPrizes
<1> USE TotalsTypes DEF TotalsInv
<1>3. /\ liquidPrizeAssets' = Sum(OpenSponsorship) + realizedSurplus' + reservedPrize
                                + winningsLiability
      /\ assetBalance' = liquidPrincipal + liquidPrizeAssets'
      /\ realizedSurplus' = uncommittedYield' /\ uncommittedYield' = publicUncommittedYield'
  BY <1>1
<1> QED BY <1>1, <1>2, <1>3

\* closeRound commits the sponsorship of the round it closes and the yield
\* harvested so far to the round's prize.
LEMMA CloseTotals ==
  ASSUME VaultShape, PrizesInv, TotalsInv, CloseRound
  PROVE  TotalsInv'
<1> DEFINE r == activeRoundId
           q == r + 1
           u == uncommittedYield
           v == sponsoredPrize[r]
           prize == v + u
           f == OpenSponsorship
           g == OpenSponsorship'
           h == ReservedPrizes
           k == ReservedPrizes'
<1>1. /\ r \in RoundIds /\ q \in RoundIds /\ r \in Nat /\ u \in Nat /\ v \in Nat
      /\ RoundIds \subseteq Nat /\ IsFiniteSet(RoundIds)
      /\ round \in [RoundIds -> Round] /\ sponsoredPrize \in [RoundIds -> Nat]
  BY ShapeTypes, Configured, CloseRecords
<1>2. /\ activeRoundId' = q
      /\ round[r].state = "OPEN" /\ round'[r].reservedPrize = prize
      /\ round'[q] = InitializeRound(round[r].closesAt)
      /\ \A s \in RoundIds : s # r /\ s # q => round'[s] = round[s]
      /\ reservedPrize' = reservedPrize + prize
      /\ realizedSurplus' = realizedSurplus - u
      /\ uncommittedYield' = 0
      /\ publicUncommittedYield' = 0
      /\ UNCHANGED <<principal, totalPrincipal, liquidPrincipal, assetBalance, liquidPrizeAssets,
                     winningsLiability, winnings, sponsoredPrize, publicSponsoredPrize>>
  BY CloseRecords
<1>3. round[r].reservedPrize = 0 /\ round[q].reservedPrize = 0
  <2>1. round[q] = UninitializedRound
    BY <1>1 DEF VaultShape, RoundsInOrder
  <2> QED BY <1>1, <1>2, <2>1 DEF PrizesInv, PrizeOf, UninitializedRound
<1>4. round'[q].reservedPrize = 0
  BY <1>2 DEF InitializeRound, UninitializedRound
<1> HIDE DEF prize
<1>5. prize \in Nat /\ prize = v + u
  BY <1>1 DEF prize
<1>6. /\ f \in [RoundIds -> Nat] /\ g \in [RoundIds -> Nat] /\ -v \in Int
      /\ g[r] = f[r] + (-v) /\ \A y \in RoundIds \ {r} : g[y] = f[y]
  BY <1>1, <1>2 DEF OpenSponsorship
<1>7. Sum(g) = Sum(f) + (-v)
  <2>1. IsFiniteSet(RoundIds) /\ r \in RoundIds
    BY <1>1
  <2> HIDE DEF f, g, v
  <2> QED BY ONLY <2>1, <1>6, SumShift
<1>8. /\ h \in [RoundIds -> Nat] /\ k \in [RoundIds -> Nat] /\ prize \in Int
      /\ k[r] = h[r] + prize /\ \A y \in RoundIds \ {r} : k[y] = h[y]
  <2>1. \A y \in RoundIds : round[y].reservedPrize \in Nat
    BY <1>1, RoundFields
  <2>2. \A y \in RoundIds : y # r => round'[y].reservedPrize = round[y].reservedPrize
    BY <1>2, <1>3, <1>4
  <2> HIDE DEF r, q
  <2> QED BY <1>1, <1>2, <1>3, <1>5, <2>1, <2>2 DEF ReservedPrizes
<1>9. Sum(k) = Sum(h) + prize
  <2>1. IsFiniteSet(RoundIds) /\ r \in RoundIds
    BY <1>1
  <2> HIDE DEF h, k
  <2> QED BY ONLY <2>1, <1>8, SumShift
<1> USE TotalsTypes DEF TotalsInv
<1>10. realizedSurplus' = 0 /\ reservedPrize' = Sum(ReservedPrizes')
  BY <1>1, <1>2, <1>9
<1>11. liquidPrizeAssets = Sum(OpenSponsorship') + realizedSurplus' + reservedPrize'
                              + winningsLiability
  <2> HIDE DEF u, v
  <2>1. realizedSurplus = u
    BY DEF u
  <2> QED BY <1>1, <1>2, <1>5, <1>7, <1>10, <2>1
<1>12. \A s \in RoundIds : s >= q => sponsoredPrize[s] = publicSponsoredPrize[s]
  BY <1>1
<1> QED BY <1>2, <1>10, <1>11, <1>12

\* _rollPrizeForward makes the prize of a round that found no winner sponsorship
\* of the active round.
LEMMA RollTotals ==
  ASSUME VaultShape, PrizesInv, TotalsInv, NEW r \in RoundIds, RollPrizeForward(r),
         round[r].state \in {"RECONCILIATION_FAILED", "EMPTY"}
  PROVE  TotalsInv'
<1> DEFINE P == round[r]
           t == activeRoundId
           v == P.reservedPrize
           f == OpenSponsorship
           g == OpenSponsorship'
           h == ReservedPrizes
           k == ReservedPrizes'
<1>1. /\ t \in RoundIds /\ t \in Nat /\ RoundIds \subseteq Nat /\ IsFiniteSet(RoundIds)
      /\ round \in [RoundIds -> Round] /\ P \in Round /\ v \in Nat
      /\ sponsoredPrize \in [RoundIds -> Nat] /\ publicSponsoredPrize \in [RoundIds -> Nat]
  BY ShapeTypes, Configured, RoundFields
<1>2. v = P.publicPrize
  BY DEF PrizesInv, PrizeOf
<1>3. /\ sponsoredPrize' = [sponsoredPrize EXCEPT ![t] = @ + v]
      /\ reservedPrize' = reservedPrize - v
      /\ publicSponsoredPrize' = [publicSponsoredPrize EXCEPT ![t] = @ + P.publicPrize]
      /\ round' = [round EXCEPT ![r].reservedPrize = 0, ![r].state = "SETTLED"]
      /\ UNCHANGED <<activeRoundId, principal, totalPrincipal, liquidPrincipal, assetBalance,
                     liquidPrizeAssets, realizedSurplus, winningsLiability, winnings,
                     uncommittedYield, publicUncommittedYield>>
  BY DEF RollPrizeForward, saverVars
<1>4. /\ f \in [RoundIds -> Nat] /\ g \in [RoundIds -> Nat] /\ v \in Int
      /\ g[t] = f[t] + v /\ \A y \in RoundIds \ {t} : g[y] = f[y]
  <2> HIDE DEF v
  <2> QED BY <1>1, <1>3 DEF OpenSponsorship
<1>5. Sum(g) = Sum(f) + v
  <2>1. IsFiniteSet(RoundIds) /\ t \in RoundIds
    BY <1>1
  <2> HIDE DEF f, g, v, t
  <2> QED BY ONLY <2>1, <1>4, SumShift
<1>6. /\ h \in [RoundIds -> Nat] /\ k \in [RoundIds -> Nat] /\ -v \in Int
      /\ k[r] = h[r] + (-v) /\ \A y \in RoundIds \ {r} : k[y] = h[y]
  <2>1. \A y \in RoundIds : round[y].reservedPrize \in Nat
    BY <1>1, RoundFields
  <2>2. round'[r].reservedPrize = 0 /\ \A y \in RoundIds : y # r => round'[y] = round[y]
    BY <1>1, <1>3 DEF Round
  <2> QED BY <1>1, <2>1, <2>2 DEF ReservedPrizes
<1>7. Sum(k) = Sum(h) + (-v)
  <2>1. IsFiniteSet(RoundIds) /\ r \in RoundIds
    BY <1>1
  <2> HIDE DEF h, k, v
  <2> QED BY ONLY <2>1, <1>6, SumShift
<1> HIDE DEF v
<1>8. \A s \in RoundIds : s >= t => sponsoredPrize'[s] = publicSponsoredPrize'[s]
  BY <1>1, <1>2, <1>3 DEF TotalsInv
<1> USE TotalsTypes DEF TotalsInv
<1>9. /\ reservedPrize' = Sum(ReservedPrizes')
      /\ liquidPrizeAssets = Sum(OpenSponsorship') + realizedSurplus + reservedPrize'
                               + winningsLiability
  BY <1>1, <1>3, <1>5, <1>7
<1> QED BY <1>3, <1>8, <1>9

\* processAllocation turns a reserved prize into principal or winnings.
LEMMA AllocationTotals ==
  ASSUME VaultShape, PrizesInv, TotalsInv, NEW r \in RoundIds, SettlementStep(r),
         NEW n \in Nat, NEW p, ProcessAllocation(r, n, p)
  PROVE  TotalsInv'
<1>1. PICK M \in SUBSET Members(r), w \in Accounts, prize \in Nat, d \in Nat, cursor \in Nat :
        AllocationStep(r, M, w, prize, d, cursor)
  BY AllocationIs
<1> DEFINE P == round[r]
           v == P.reservedPrize
           e == prize - d
           h == ReservedPrizes
           k == ReservedPrizes'
           f == principal
           g == principal'
           f2 == winnings
           g2 == winnings'
<1>2. /\ IsFiniteSet(RoundIds) /\ IsFiniteSet(Accounts) /\ MAX_POOL_BASE_UNITS \in Nat
      /\ round \in [RoundIds -> Round] /\ P \in Round /\ v \in Nat
      /\ principal \in [Accounts -> Nat] /\ winnings \in [Accounts -> Nat]
  BY ShapeTypes, Configured, RoundFields
<1>3. /\ prize = v \/ prize = 0
      /\ d = 0 \/ (d = prize /\ d <= MAX_POOL_BASE_UNITS - totalPrincipal)
      /\ principal' = [principal EXCEPT ![w] = @ + d]
      /\ totalPrincipal' = totalPrincipal + d
      /\ liquidPrincipal' = liquidPrincipal + d
      /\ winnings' = [winnings EXCEPT ![w] = @ + (prize - d)]
      /\ winningsLiability' = winningsLiability + (prize - d)
      /\ liquidPrizeAssets' = liquidPrizeAssets - d
      /\ reservedPrize' = reservedPrize - prize
      /\ UNCHANGED <<activeRoundId, assetBalance, realizedSurplus, sponsoredPrize,
                     publicSponsoredPrize, uncommittedYield, publicUncommittedYield>>
  BY <1>1 DEF AllocationStep
<1>4. round'[r].reservedPrize = v - prize
  <2> DEFINE state == IF cursor = P.participantCountSnapshot
                      THEN "WINNINGS_ALLOCATED" ELSE "ALLOCATION_PROCESSING"
             X == [P EXCEPT !.reservedPrize = v - prize, !.allocationCursor = cursor,
                            !.state = state]
  <2>1. round'[r] = X
    BY <1>1 DEF AllocationStep
  <2>2. X.reservedPrize = v - prize
    <3> HIDE DEF P, v, state
    <3> QED BY <1>2 DEF Round
  <2> QED BY <2>1, <2>2
<1>5. \A s \in RoundIds : s # r => round'[s].reservedPrize = round[s].reservedPrize
  BY SettlementRecords DEF SameRecord
<1> HIDE DEF v
<1>6. e \in Nat /\ d \in Int /\ e \in Int /\ -prize \in Int /\ e = prize - d /\ v - prize \in Nat
  BY <1>2, <1>3
<1> HIDE DEF e
<1>7. /\ h \in [RoundIds -> Nat] /\ k \in [RoundIds -> Nat]
      /\ k[r] = h[r] + (-prize) /\ \A y \in RoundIds \ {r} : k[y] = h[y]
  <2>1. \A y \in RoundIds : round[y].reservedPrize \in Nat
    BY <1>2, RoundFields
  <2> QED BY <1>2, <1>4, <1>5, <1>6, <2>1 DEF ReservedPrizes, v
<1>8. Sum(k) = Sum(h) + (-prize)
  <2> HIDE DEF h, k
  <2> QED BY <1>2, <1>6, <1>7, SumShift
<1>9. /\ f \in [Accounts -> Nat] /\ g \in [Accounts -> Nat]
      /\ g[w] = f[w] + d /\ \A y \in Accounts \ {w} : g[y] = f[y]
  BY <1>2, <1>3
<1>10. Sum(g) = Sum(f) + d
  <2> HIDE DEF f, g
  <2> QED BY <1>2, <1>6, <1>9, SumShift
<1>11. /\ f2 \in [Accounts -> Nat] /\ g2 \in [Accounts -> Nat]
       /\ g2[w] = f2[w] + e /\ \A y \in Accounts \ {w} : g2[y] = f2[y]
  BY <1>2, <1>3, <1>6
<1>12. Sum(g2) = Sum(f2) + e
  <2> HIDE DEF f2, g2
  <2> QED BY <1>2, <1>6, <1>11, SumShift
<1>13. OpenSponsorship' = OpenSponsorship
  BY <1>3 DEF OpenSponsorship
<1> USE TotalsTypes DEF TotalsInv
<1>14. /\ totalPrincipal' = Sum(principal') /\ totalPrincipal' <= MAX_POOL_BASE_UNITS
       /\ liquidPrincipal' = totalPrincipal'
  BY <1>2, <1>3, <1>10
<1>15. reservedPrize' = Sum(ReservedPrizes') /\ winningsLiability' = Sum(winnings')
  BY <1>3, <1>6, <1>8, <1>12
<1>16. /\ liquidPrizeAssets' = Sum(OpenSponsorship) + realizedSurplus + reservedPrize'
                                 + winningsLiability'
       /\ assetBalance = liquidPrincipal' + liquidPrizeAssets'
  BY <1>3
<1> QED BY <1>3, <1>13, <1>14, <1>15, <1>16

\* Every step keeps the prizes of the rounds in place.
LEMMA PrizesStep ==
  ASSUME VaultShape, PrizesInv, TotalsInv, [Next]_vars
  PROVE  PrizesInv'
<1>0. \A s \in RoundIds : PrizeOf(round[s], winnerPredicate[s], participants[s])
  BY DEF PrizesInv
<1>1. CASE Tick \/ UserStep \/ UNCHANGED vars
  <2>1. round[activeRoundId].state = "OPEN"
    BY DEF VaultShape, RoundsInOrder
  <2>2. /\ \A s \in RoundIds : SameRecord(round[s], round'[s])
        /\ winnerPredicate' = winnerPredicate
        /\ \A s \in RoundIds : s # activeRoundId => participants'[s] = participants[s]
    BY <1>1, UserRecords
  <2> QED BY <1>0, <2>1, <2>2, SamePrize DEF PrizesInv
<1>2. CASE CloseRound
  <2> DEFINE r == activeRoundId
             q == r + 1
             P == round[r]
             X == round'[r]
  <2>1. /\ r \in RoundIds /\ P.state = "OPEN" /\ X.state = "AGGREGATE_PENDING"
        /\ X.reservedPrize = sponsoredPrize[r] + uncommittedYield
        /\ X.publicPrize = publicSponsoredPrize[r] + publicUncommittedYield
        /\ X.allocationCursor = P.allocationCursor
        /\ X.encryptedWinnerCount = P.encryptedWinnerCount
        /\ X.reconciliationValid = P.reconciliationValid
        /\ round'[q] = InitializeRound(P.closesAt)
        /\ \A s \in RoundIds : s # r /\ s # q => round'[s] = round[s]
        /\ UNCHANGED <<participants, winnerPredicate>>
    BY <1>2, CloseRecords
  <2>2. r >= activeRoundId
    BY ShapeTypes
  <2>3. X.reservedPrize = X.publicPrize
    BY <2>1, <2>2 DEF TotalsInv
  <2>4. PrizeOf(X, winnerPredicate[r], participants[r])
    <3>1. PrizeOf(P, winnerPredicate[r], participants[r])
      BY <1>0, <2>1
    <3> HIDE DEF X, P
    <3> QED BY <2>1, <2>3, <3>1 DEF PrizeOf
  <2>5. ASSUME q \in RoundIds
        PROVE  PrizeOf(round'[q], winnerPredicate[q], participants[q])
    <3>1. round[q] = UninitializedRound
      BY <2>5, ShapeTypes DEF VaultShape, RoundsInOrder
    <3>2. PrizeOf(round[q], winnerPredicate[q], participants[q])
      BY <1>0, <2>5
    <3>3. winnerPredicate[q] = {}
      BY <3>1, <3>2 DEF PrizeOf, UninitializedRound
    <3> HIDE DEF q
    <3> QED BY <2>1, <3>3 DEF PrizeOf, InitializeRound, UninitializedRound
  <2> HIDE DEF q
  <2> QED BY <1>0, <2>1, <2>4, <2>5 DEF PrizesInv
<1>3. ASSUME NEW r \in RoundIds, SettlementStep(r) PROVE PrizesInv'
  <2>1. PrizeOf(round'[r], winnerPredicate'[r], participants'[r])
    BY <1>3, SettlementPrize
  <2>2. /\ participants' = participants
        /\ \A s \in RoundIds : s # r => /\ SameRecord(round[s], round'[s])
                                        /\ winnerPredicate'[s] = winnerPredicate[s]
    BY <1>3, SettlementRecords
  <2>3. ASSUME NEW s \in RoundIds, s # r
        PROVE  PrizeOf(round'[s], winnerPredicate'[s], participants'[s])
    BY <1>0, <2>2, <2>3, SamePrize
  <2> QED BY <2>1, <2>3 DEF PrizesInv
<1> QED BY <1>1, <1>2, <1>3 DEF Next

\* What users do keeps the totals.
LEMMA UserTotals ==
  ASSUME VaultShape, TotalsInv, UserStep
  PROVE  TotalsInv'
<1>0. /\ Savers \subseteq Accounts /\ Amounts \subseteq Nat /\ MAX_POOL_BASE_UNITS \in Nat
      /\ principal \in [Accounts -> Nat] /\ \A y \in 1..MAX_YIELD : y \in Nat
  <2>1. \A y \in 1..MAX_YIELD : y \in Nat
    BY Configured
  <2> QED BY <2>1, ShapeTypes, Configured
<1>1. /\ \A s \in RoundIds : round'[s].reservedPrize = round[s].reservedPrize
      /\ activeRoundId' = activeRoundId
  BY UserRecords DEF SameRecord
<1>2. ASSUME NEW a \in Accounts, NEW amount \in Nat, Deposit(a, amount) PROVE TotalsInv'
  <2> DEFINE d == IF amount <= MAX_POOL_BASE_UNITS - totalPrincipal /\ amount > 0
                  THEN amount ELSE 0
  <2>1. /\ principal' = [principal EXCEPT ![a] = principal[a] + d]
        /\ totalPrincipal' = totalPrincipal + d
        /\ liquidPrincipal' = liquidPrincipal + d
        /\ assetBalance' = assetBalance + d
        /\ UNCHANGED <<activeRoundId, prizeVars>>
    BY <1>2 DEF Deposit
  <2>2. principal[a] \in Nat /\ totalPrincipal \in Nat /\ totalPrincipal <= MAX_POOL_BASE_UNITS
    BY <1>0, TotalsTypes DEF TotalsInv
  <2>3. d \in Int /\ principal[a] + d \in Nat /\ totalPrincipal + d <= MAX_POOL_BASE_UNITS
    BY <1>0, <2>2
  <2> HIDE DEF d
  <2> QED BY <1>1, <2>1, <2>3, BalanceTotals
<1>3. ASSUME NEW a \in Accounts, NEW requested \in Nat, Withdraw(a, requested) PROVE TotalsInv'
  <2> DEFINE eligible == IF requested <= principal[a] /\ requested <= liquidPrincipal
                         THEN requested ELSE 0
             sent == ConfidentialTransfer(eligible)
             d == -sent
  <2>1. principal[a] \in Nat /\ totalPrincipal \in Nat /\ totalPrincipal <= MAX_POOL_BASE_UNITS
        /\ liquidPrincipal \in Nat /\ assetBalance \in Nat
    BY <1>0, TotalsTypes DEF TotalsInv
  <2>2. sent \in Nat /\ sent <= principal[a]
    BY <2>1, SentFits
  <2>3. /\ principal' = [principal EXCEPT ![a] = principal[a] - sent]
        /\ totalPrincipal' = totalPrincipal - sent
        /\ liquidPrincipal' = liquidPrincipal - sent
        /\ assetBalance' = assetBalance - sent
        /\ UNCHANGED <<activeRoundId, prizeVars>>
    BY <1>3 DEF Withdraw
  <2> HIDE DEF sent
  <2>4. /\ d \in Int /\ principal[a] - sent = principal[a] + d /\ principal[a] + d \in Nat
        /\ totalPrincipal - sent = totalPrincipal + d /\ totalPrincipal + d <= MAX_POOL_BASE_UNITS
        /\ liquidPrincipal - sent = liquidPrincipal + d
        /\ assetBalance - sent = assetBalance + d
    BY <1>0, <2>1, <2>2
  <2> HIDE DEF d
  <2>5. /\ principal' = [principal EXCEPT ![a] = principal[a] + d]
        /\ totalPrincipal' = totalPrincipal + d
        /\ liquidPrincipal' = liquidPrincipal + d
        /\ assetBalance' = assetBalance + d
        /\ UNCHANGED <<activeRoundId, prizeVars>>
    BY <2>3, <2>4
  <2> QED BY <1>1, <2>4, <2>5, BalanceTotals
<1>4. CASE BalanceStep
  BY <1>0, <1>2, <1>3, <1>4 DEF BalanceStep
<1>5. CASE RegistrationStep \/ PreferenceStep \/ EscrowPayout
  <2>1. UNCHANGED <<principal, totalPrincipal, liquidPrincipal, prizeVars, assetBalance>>
    BY <1>5 DEF RegistrationStep, RegisterParticipant, PreferenceStep, SetAutoSavePreference,
                EscrowPayout, vaultVars, saverVars
  <2> QED BY <1>1, <2>1, TotalsKept
<1>6. CASE PrizeStep
  BY <1>0, <1>6, SponsorTotals, HarvestTotals DEF PrizeStep
<1>7. CASE WinningsStep
  BY <1>0, <1>7, WinningsTotals DEF WinningsStep
<1> QED BY <1>4, <1>5, <1>6, <1>7 DEF UserStep

\* Every step keeps the totals.
LEMMA TotalsStep ==
  ASSUME VaultShape, PrizesInv, TotalsInv, [Next]_vars
  PROVE  TotalsInv'
<1>1. CASE Tick \/ UNCHANGED vars
  BY <1>1, TotalsKept DEF Tick, vars, vaultVars, roundVars, saverVars
<1>2. CASE UserStep
  BY <1>2, UserTotals
<1>3. CASE CloseRound
  BY <1>3, CloseTotals
<1>4. ASSUME NEW r \in RoundIds, SettlementStep(r) PROVE TotalsInv'
  <2>0. \A n \in 1..MAX_CHUNK : n \in Nat
    BY Configured
  <2>1. CASE \E n \in 1..MAX_CHUNK, p \in Progressors : ProcessAllocation(r, n, p)
    BY <1>4, <2>0, <2>1, AllocationTotals
  <2>2. CASE RecoverFailedReconciliation(r) \/ SettleEmptyRound(r)
    BY <2>2, RollTotals DEF RecoverFailedReconciliation, SettleEmptyRound
  <2>3. ASSUME NEW X, OnlyRound(r, X), X.reservedPrize = round[r].reservedPrize
        PROVE  TotalsInv'
    <3>1. round \in [RoundIds -> Round]
      BY ShapeTypes
    <3>2. /\ \A s \in RoundIds : round'[s].reservedPrize = round[s].reservedPrize
          /\ UNCHANGED <<activeRoundId, principal, totalPrincipal, liquidPrincipal, prizeVars,
                         assetBalance>>
      BY <2>3, <3>1 DEF OnlyRound, saverVars
    <3> QED BY <3>2, TotalsKept
  <2>4. round[r] \in Round
    BY ShapeTypes
  <2>5. CASE FinalizeAggregate(r)
    BY <2>3, <2>4, <2>5 DEF FinalizeAggregate, Round
  <2>6. CASE \E c \in 0..(RANDOM_DOMAIN - 1) : GenerateRandomCandidate(r, c)
    BY <2>3, <2>4, <2>6 DEF GenerateRandomCandidate, Round
  <2>7. CASE \E k \in 1..Len(validityProofs[r]) : FinalizeCandidateValidity(r, k)
    BY <2>3, <2>4, <2>7 DEF FinalizeCandidateValidity, Round
  <2>8. CASE \E n \in 1..MAX_CHUNK, p \in Progressors : ProcessSelection(r, n, p)
    <3>1. PICK W \in SUBSET Members(r), cursor \in Nat, cumulative \in Nat, count \in Nat,
               valid \in BOOLEAN : SelectionStep(r, W, cursor, cumulative, count, valid)
      BY <2>0, <2>8, SelectionIs
    <3> QED BY <2>3, <2>4, <3>1 DEF SelectionStep, Round
  <2>9. CASE \E valid \in BOOLEAN : FinalizeSelectionReconciliation(r, valid)
    BY <2>3, <2>4, <2>9 DEF FinalizeSelectionReconciliation, Round
  <2>10. CASE FinalizeSettlement(r)
    BY <2>3, <2>4, <2>10 DEF FinalizeSettlement, Round
  <2> QED BY <1>4, <2>1, <2>2, <2>5, <2>6, <2>7, <2>8, <2>9, <2>10 DEF SettlementStep
<1> QED BY <1>1, <1>2, <1>3, <1>4 DEF Next

\* The invariant of the money.
THEOREM MoneyInvariant == Spec => []MoneyInv
<1>1. Init => MoneyInv
  <2> SUFFICES ASSUME Init PROVE MoneyInv
    OBVIOUS
  <2>1. /\ round = [r \in RoundIds |-> IF r = 1 THEN InitializeRound(FIRST_ROUND_OPENS_AT)
                                       ELSE UninitializedRound]
        /\ participants = [r \in RoundIds |-> <<>>]
        /\ winnerPredicate = [r \in RoundIds |-> {}]
    BY DEF Init
  <2>2. ASSUME NEW r \in RoundIds
        PROVE  /\ round[r].reservedPrize = 0 /\ round[r].publicPrize = 0
               /\ round[r].state \in {"OPEN", "UNINITIALIZED"}
               /\ round[r].encryptedWinnerCount = 0 /\ round[r].reconciliationValid = FALSE
               /\ round[r].allocationCursor = 0
    BY <2>1 DEF InitializeRound, UninitializedRound
  <2>3. PrizesInv
    BY <2>1, <2>2 DEF PrizesInv, PrizeOf
  <2>4. /\ principal \in [Accounts -> Nat] /\ \A a \in Accounts : principal[a] = 0
        /\ winnings \in [Accounts -> Nat] /\ \A a \in Accounts : winnings[a] = 0
        /\ OpenSponsorship \in [RoundIds -> Nat] /\ \A r \in RoundIds : OpenSponsorship[r] = 0
        /\ ReservedPrizes \in [RoundIds -> Nat] /\ \A r \in RoundIds : ReservedPrizes[r] = 0
    <3>1. /\ principal = [a \in Accounts |-> 0] /\ winnings = [a \in Accounts |-> 0]
          /\ sponsoredPrize = [r \in RoundIds |-> 0]
      BY DEF Init
    <3>2. OpenSponsorship = [r \in RoundIds |-> 0]
      BY <3>1 DEF OpenSponsorship
    <3>3. ReservedPrizes = [r \in RoundIds |-> 0]
      BY <2>2 DEF ReservedPrizes
    <3> QED BY <3>1, <3>2, <3>3
  <2>5. /\ Sum(principal) = 0 /\ Sum(winnings) = 0
        /\ Sum(OpenSponsorship) = 0 /\ Sum(ReservedPrizes) = 0
    BY <2>4, SumZero
  <2>6. TotalsInv
    BY <2>5, Configured DEF Init, TotalsInv
  <2> QED BY <2>3, <2>6 DEF MoneyInv
<1>2. VaultShape /\ MoneyInv /\ [Next]_vars => MoneyInv'
  BY PrizesStep, TotalsStep DEF MoneyInv
<1> QED BY <1>1, <1>2, VaultShapeInvariant, PTL DEF Spec

\* The vault's total of principal is the sum of the savers' balances, never above
\* the cap, also when a prize is auto-saved; and each saver's last checkpoint
\* holds the balance the saver really has.
THEOREM PrincipalIsAccounted == Spec => []PrincipalAccounted
<1>1. VaultShape /\ MoneyInv => PrincipalAccounted
  BY DEF MoneyInv, TotalsInv, PrincipalAccounted, VaultShape, Histories, Current
<1> QED BY <1>1, VaultShapeInvariant, MoneyInvariant, PTL

\* What the vault holds for prizes is exactly what is sponsored for open rounds,
\* harvested, reserved by closed rounds, or won and not withdrawn.
THEOREM PrizesAreAccounted == Spec => []PrizesAccounted
<1>1. VaultShape /\ MoneyInv => PrizesAccounted
  <2> SUFFICES ASSUME VaultShape, MoneyInv PROVE PrizesAccounted
    OBVIOUS
  <2> DEFINE T == {s \in RoundIds : s >= activeRoundId}
             f == OpenSponsorship
             g == [r \in T |-> sponsoredPrize[r]]
  <2>1. f \in [RoundIds -> Nat] /\ TotalsInv /\ PrizesInv
    BY TotalsTypes DEF MoneyInv
  <2>2. T \in SUBSET RoundIds /\ \A x \in RoundIds \ T : f[x] = 0
    BY DEF OpenSponsorship
  <2>3. g = [x \in T |-> f[x]]
    BY DEF OpenSponsorship
  <2>4. Sum([x \in T |-> f[x]]) = Sum(f)
    <3> HIDE DEF f, T
    <3> QED BY ONLY <2>1, <2>2, SumRestrict
  <2>5. Sum(g) = Sum(OpenSponsorship)
    BY <2>3, <2>4
  <2>6. /\ liquidPrizeAssets = Sum(g) + realizedSurplus + reservedPrize + winningsLiability
        /\ reservedPrize = Sum([r \in RoundIds |-> round[r].reservedPrize])
    <3> HIDE DEF g
    <3> QED BY <2>1, <2>5 DEF TotalsInv, ReservedPrizes
  <2>7. \A r \in RoundIds :
          /\ round[r].allocationCursor = 0 /\ round[r].state # "SETTLED" =>
               round[r].reservedPrize = round[r].publicPrize
          /\ round[r].state \in {"WINNINGS_ALLOCATED", "SETTLED"} => round[r].reservedPrize = 0
    BY <2>1 DEF PrizesInv, PrizeOf
  <2> QED BY <2>1, <2>6, <2>7 DEF PrizesAccounted, TotalsInv
<1> QED BY <1>1, VaultShapeInvariant, MoneyInvariant, PTL

\* The vault's balance of the confidential asset covers principal and prizes
\* exactly, and no encrypted subtraction ever goes below zero.
THEOREM VaultIsSolvent == Spec => []VaultSolvent
<1>1. VaultShape /\ MoneyInv => VaultSolvent
  BY ShapeTypes, TotalsTypes DEF MoneyInv, TotalsInv, VaultSolvent
<1> QED BY <1>1, VaultShapeInvariant, MoneyInvariant, PTL

\* Only the allocation of a round raises anyone's winnings, and then those of one
\* of its winners by exactly the prize the round had reserved, which is spent.
THEOREM WinningsComeFromAllocation == Spec => WinningsOnlyFromAllocation
<1> DEFINE Paid(a) ==
             \E r \in RoundIds :
               /\ a \in winnerPredicate[r]
               /\ round[r].reservedPrize = winnings'[a] - winnings[a]
               /\ round'[r].reservedPrize = 0
<1>1. ASSUME VaultShape, [Next]_vars, NEW a \in Accounts, winnings'[a] > winnings[a]
      PROVE  Paid(a)
  <2>0. /\ winnings \in [Accounts -> Nat] /\ round \in [RoundIds -> Round]
        /\ \A n \in 1..MAX_CHUNK : n \in Nat
    <3>1. \A n \in 1..MAX_CHUNK : n \in Nat
      BY Configured
    <3> QED BY <1>1, <3>1, ShapeTypes
  <2>1. winnings' # winnings
    BY <1>1, <2>0
  <2>2. CASE Tick \/ CloseRound \/ UNCHANGED vars
    BY <2>1, <2>2 DEF Tick, CloseRound, vars, vaultVars, prizeVars
  <2>3. CASE UserStep
    <3>1. PICK b \in Savers, amount \in Amounts : WithdrawWinnings(b, amount)
      BY <2>1, <2>3 DEF UserStep, BalanceStep, Deposit, Withdraw, RegistrationStep,
         RegisterParticipant, PrizeStep, ContributeSponsor, HarvestStrategyYield, WinningsStep,
         PreferenceStep, SetAutoSavePreference, EscrowPayout, vaultVars, prizeVars
    <3> DEFINE eligible == IF amount <= winnings[b] /\ amount <= liquidPrizeAssets
                           THEN amount ELSE 0
               sent == ConfidentialTransfer(eligible)
    <3>2. winnings[b] \in Nat /\ amount \in Nat /\ b \in Accounts
      BY <2>0, Configured
    <3>3. sent \in Nat
      BY <3>2, SentFits
    <3>4. winnings' = [winnings EXCEPT ![b] = @ - sent]
      BY <3>1 DEF WithdrawWinnings
    <3> HIDE DEF sent
    <3> QED BY <1>1, <2>0, <3>2, <3>3, <3>4
  <2>4. ASSUME NEW r \in RoundIds, SettlementStep(r) PROVE Paid(a)
    <3>1. PICK n \in Nat, p \in Progressors : ProcessAllocation(r, n, p)
      BY <2>0, <2>1, <2>4 DEF SettlementStep, FinalizeAggregate, GenerateRandomCandidate,
         FinalizeCandidateValidity, ProcessSelection, FinalizeSelectionReconciliation,
         FinalizeSettlement, RecoverFailedReconciliation, SettleEmptyRound, RollPrizeForward,
         OnlyRound, prizeVars
    <3>2. PICK M \in SUBSET Members(r), w \in Accounts, prize \in Nat, d \in Nat, cursor \in Nat :
            AllocationStep(r, M, w, prize, d, cursor)
      BY <1>1, <3>1, AllocationIs
    <3> DEFINE P == round[r]
               state == IF cursor = P.participantCountSnapshot
                        THEN "WINNINGS_ALLOCATED" ELSE "ALLOCATION_PROCESSING"
               v == P.reservedPrize - prize
               X == [P EXCEPT !.reservedPrize = v, !.allocationCursor = cursor, !.state = state]
    <3>3. /\ winnings' = [winnings EXCEPT ![w] = @ + (prize - d)]
          /\ d = 0 \/ d = prize
          /\ \/ w \in winnerPredicate[r] /\ prize = P.reservedPrize
             \/ prize = 0
          /\ round'[r] = X
      BY <3>2 DEF AllocationStep
    <3>4. a = w /\ winnings'[a] = winnings[a] + (prize - d) /\ winnings[a] \in Nat
      BY <1>1, <2>0, <3>3
    <3>5. d = 0 /\ prize # 0 /\ prize = winnings'[a] - winnings[a]
      BY <1>1, <3>3, <3>4
    <3>6. P \in Round /\ P.reservedPrize \in Nat /\ X.reservedPrize = v
      <4>1. P \in Round
        BY <2>0
      <4>2. P.reservedPrize \in Nat
        BY <4>1, RoundFields
      <4>3. X.reservedPrize = v
        <5> HIDE DEF P, v, state
        <5> QED BY <4>1 DEF Round
      <4> QED BY <4>1, <4>2, <4>3
    <3>7. v = 0
      BY <3>3, <3>5, <3>6
    <3> HIDE DEF X
    <3>8. a \in winnerPredicate[r] /\ P.reservedPrize = winnings'[a] - winnings[a]
          /\ round'[r].reservedPrize = 0
      BY <3>3, <3>4, <3>5, <3>6, <3>7
    <3> QED BY <3>8
  <2> QED BY <1>1, <2>2, <2>3, <2>4 DEF Next
<1>2. VaultShape /\ [Next]_vars => [\A a \in Accounts : winnings'[a] > winnings[a] => Paid(a)]_vars
  BY <1>1
<1> QED BY <1>2, VaultShapeInvariant, PTL DEF Spec, WinningsOnlyFromAllocation

-----------------------------------------------------------------------------
(* The invariant of the weights. *)

\* What each account registered from its start on has gathered by time t.
WeightsOf(obs, start, t) ==
  [a \in Accounts |-> IF start[a] # 0
                      THEN CumulativeAt(obs[a], t) - CumulativeAt(obs[a], start[a]) ELSE 0]

\* The eligible cumulative of record R, accrued to time t.
AccruedTo(R, t) == R.eligibleCumulative + R.eligibleBalance * (t - R.eligibleTimestamp)

\* The time up to which the active round has gathered weight.
Horizon == IF now < round[activeRoundId].closesAt THEN now ELSE round[activeRoundId].closesAt

\* The aggregate of a closed round, and the accrual of the active one, are the
\* sums of the weights of their participants.
WeightInv ==
  /\ \A r \in RoundIds : r < activeRoundId =>
       round[r].aggregateTwab
         = Sum(WeightsOf(observations, eligibilityStart[r], round[r].closesAt))
  /\ AccruedTo(round[activeRoundId], Horizon)
       = Sum(WeightsOf(observations, eligibilityStart[activeRoundId], Horizon))

-----------------------------------------------------------------------------
(* The invariant of the selection. *)

\* The weights of round r's participants, by position.
PositionWeights(r) == [i \in DOMAIN participants[r] |-> RoundWeight(r, participants[r][i])]

\* The weights at positions i+1 to k, and zero elsewhere.
Between(w, i, k) == [j \in DOMAIN w |-> IF i < j /\ j <= k THEN w[j] ELSE 0]

\* The weights at these positions alone.
Chunk(w, i, k) == [j \in {j \in DOMAIN w : i < j /\ j <= k} |-> w[j]]

\* The end of the k-th interval of the aggregate.
Prefix(w, k) == Sum(Between(w, 0, k))

\* The ticket falls into the i-th interval.
Holds(w, i, ticket) == Prefix(w, i - 1) <= ticket /\ ticket < Prefix(w, i)

\* The first selectionCursor intervals of record R have been gone through: the
\* winner is known exactly if the ticket lies in one of them.
Scanned(R, W, s, w) ==
  /\ R.selectionCursor <= Len(s)
  /\ R.selectionCumulative = Prefix(w, R.selectionCursor)
  /\ \E h \in DOMAIN s :
       /\ Holds(w, h, R.acceptedTicket) /\ w[h] > 0
       /\ \A i \in DOMAIN s : Holds(w, i, R.acceptedTicket) => i = h
       /\ W = IF h <= R.selectionCursor THEN {s[h]} ELSE {}
       /\ R.encryptedWinnerCount = IF h <= R.selectionCursor THEN 1 ELSE 0

\* The record R of a round with its winners W, its participants s and their
\* weights w: before the first pass nothing is found, during the passes what
\* they have gone through, and after the last one the one winner.
SelectionOf(R, W, s, w) ==
  /\ R.state \in {"UNINITIALIZED", "OPEN", "AGGREGATE_PENDING", "AGGREGATE_FINALIZED",
                  "CANDIDATE_VALIDITY_PENDING", "CANDIDATE_REJECTED", "TICKET_ACCEPTED"} =>
       /\ R.selectionCursor = 0 /\ R.selectionCumulative = 0
       /\ R.encryptedWinnerCount = 0 /\ W = {}
  /\ R.state \notin {"UNINITIALIZED", "OPEN", "AGGREGATE_PENDING"} =>
       R.publicAggregateTwab = R.aggregateTwab
  /\ R.state = "WINNER_PROCESSING" => Scanned(R, W, s, w)
  /\ R.state \in {"RECONCILIATION_PENDING", "RECONCILIATION_FAILED", "READY_TO_ALLOCATE",
                  "ALLOCATION_PROCESSING", "WINNINGS_ALLOCATED"} =>
       /\ R.reconciliationValid
       /\ \E h \in DOMAIN s : W = {s[h]} /\ w[h] > 0

SelectionInv ==
  \A r \in RoundIds :
    SelectionOf(round[r], winnerPredicate[r], participants[r], PositionWeights(r))

\* Weights up to t depend on nothing that happens after t.
LEMMA WeightsFrozen ==
  ASSUME NEW obs, NEW obs2, NEW start \in [Accounts -> Nat], NEW t \in Nat,
         \A a \in Accounts : start[a] <= t,
         \A a \in Accounts, v \in Nat : v <= t => CumulativeAt(obs2[a], v) = CumulativeAt(obs[a], v)
  PROVE  WeightsOf(obs2, start, t) = WeightsOf(obs, start, t)
<1>1. ASSUME NEW a \in Accounts
      PROVE  /\ CumulativeAt(obs2[a], t) = CumulativeAt(obs[a], t)
             /\ CumulativeAt(obs2[a], start[a]) = CumulativeAt(obs[a], start[a])
  OBVIOUS
<1> QED BY <1>1 DEF WeightsOf

\* The start of every registration in round r lies in the time that r has had.
LEMMA StartsBy ==
  ASSUME VaultShape, NEW r \in RoundIds
  PROVE  /\ eligibilityStart[r] \in [Accounts -> Nat]
         /\ \A a \in Accounts :
              eligibilityStart[r][a] <= now /\ eligibilityStart[r][a] <= round[r].closesAt
<1>1. /\ eligibilityStart \in [RoundIds -> [Accounts -> Nat]] /\ now \in Nat
      /\ round[r].closesAt \in Nat
  BY ShapeTypes, RoundFields
<1>2. \A a \in Accounts :
        eligibilityStart[r][a] # 0 =>
          eligibilityStart[r][a] <= now /\ eligibilityStart[r][a] <= round[r].closesAt
  BY DEF VaultShape, Registrations
<1>3. \A a \in Accounts : eligibilityStart[r][a] \in Nat
  BY <1>1
<1> QED BY <1>1, <1>2, <1>3

\* So weights are never negative.
LEMMA WeightsType ==
  ASSUME VaultShape, NEW r \in RoundIds, NEW t \in Nat,
         \A a \in Accounts : eligibilityStart[r][a] <= t
  PROVE  WeightsOf(observations, eligibilityStart[r], t) \in [Accounts -> Nat]
<1>1. ASSUME NEW a \in Accounts
      PROVE  CumulativeAt(observations[a], t)
               - CumulativeAt(observations[a], eligibilityStart[r][a]) \in Nat
  <2> DEFINE s == observations[a]
             v == eligibilityStart[r][a]
  <2>1. History(s, now) /\ now \in Nat
    BY ShapeTypes DEF VaultShape, Histories
  <2>2. v \in Nat /\ v <= t
    BY StartsBy
  <2> HIDE DEF s, v
  <2>3. /\ CumulativeAt(s, v) \in Nat /\ CumulativeAt(s, t) \in Nat
        /\ CumulativeAt(s, v) <= CumulativeAt(s, t)
    BY <2>1, <2>2, CumulativeType, CumulativeMonotone
  <2> QED BY <2>3 DEF s, v
<1> QED BY <1>1 DEF WeightsOf

\* An accrual to now moves what has been gathered into the cumulative, and a
\* change of the eligible balance at now counts from now on.
LEMMA AccruedKept ==
  ASSUME VaultShape, IsActiveRoundOpen, NEW delta \in Int,
         round[activeRoundId].eligibleBalance + delta \in Nat
  PROVE  AccruedTo(Accrued(delta)[activeRoundId], now) = AccruedTo(round[activeRoundId], now)
<1> DEFINE R == round[activeRoundId]
           c == R.eligibleCumulative + R.eligibleBalance * (now - R.eligibleTimestamp)
           b == R.eligibleBalance + delta
           X == [R EXCEPT !.eligibleCumulative = c, !.eligibleTimestamp = now,
                          !.eligibleBalance = b]
<1>1. R \in Round /\ now \in Nat /\ R.eligibleTimestamp \in Nat /\ R.eligibleBalance \in Nat
      /\ R.eligibleCumulative \in Nat /\ R.eligibleTimestamp <= now
  <2>1. R \in Round /\ now \in Nat
    BY ShapeTypes
  <2>2. R.eligibleTimestamp <= now
    BY DEF VaultShape, RoundsInOrder
  <2> HIDE DEF R
  <2> QED BY <2>1, <2>2, RoundFields
<1>2. Accrued(delta)[activeRoundId] = X
  BY AccruedRounds
<1>3. X.eligibleCumulative = c /\ X.eligibleTimestamp = now /\ X.eligibleBalance = b
  <2> HIDE DEF R, c, b
  <2> QED BY <1>1 DEF Round
<1>4. b \in Nat
  OBVIOUS
<1>5. c \in Nat
  <2>1. now - R.eligibleTimestamp \in Nat
    BY <1>1
  <2>2. R.eligibleBalance * (now - R.eligibleTimestamp) \in Nat
    BY <1>1, <2>1, ProductNat
  <2> QED BY <1>1, <2>2
<1>6. AccruedTo(X, now) = c
  <2> HIDE DEF X, c, b
  <2>1. now - now = 0 /\ b * 0 = 0
    BY <1>1, <1>4
  <2>2. AccruedTo(X, now) = c + b * (now - now)
    BY <1>3 DEF AccruedTo
  <2> QED BY <1>5, <2>1, <2>2
<1> QED BY <1>2, <1>6 DEF AccruedTo

\* A step that keeps the histories up to now, the registrations, and what the
\* active round has gathered, keeps the weights.
LEMMA WeightKept ==
  ASSUME VaultShape, WeightInv, UNCHANGED <<now, activeRoundId, eligibilityStart>>,
         \A a \in Accounts, v \in Nat :
           v <= now => CumulativeAt(observations'[a], v) = CumulativeAt(observations[a], v),
         \A r \in RoundIds : r <= activeRoundId =>
           /\ round'[r].aggregateTwab = round[r].aggregateTwab
           /\ round'[r].closesAt = round[r].closesAt,
         AccruedTo(round'[activeRoundId], Horizon) = AccruedTo(round[activeRoundId], Horizon)
  PROVE  WeightInv'
<1>1. /\ now \in Nat /\ activeRoundId \in RoundIds /\ activeRoundId \in Nat
      /\ RoundIds \subseteq Nat /\ \A r \in RoundIds : round[r].closesAt \in Nat
  BY ShapeTypes, RoundFields, Configured
<1>2. ASSUME NEW r \in RoundIds, NEW t \in Nat, t <= now,
             \A a \in Accounts : eligibilityStart[r][a] <= t
      PROVE  WeightsOf(observations', eligibilityStart[r], t)
               = WeightsOf(observations, eligibilityStart[r], t)
  <2>1. eligibilityStart[r] \in [Accounts -> Nat]
    BY StartsBy
  <2>2. \A a \in Accounts, v \in Nat :
          v <= t => CumulativeAt(observations'[a], v) = CumulativeAt(observations[a], v)
    BY <1>1, <1>2
  <2> QED BY <1>2, <2>1, <2>2, WeightsFrozen
<1>3. ASSUME NEW r \in RoundIds, r < activeRoundId
      PROVE  round'[r].aggregateTwab
               = Sum(WeightsOf(observations', eligibilityStart[r], round'[r].closesAt))
  <2>1. round[r].closesAt \in Nat /\ round[r].closesAt <= now
    BY <1>1, <1>3 DEF VaultShape, RoundsInOrder
  <2>2. WeightsOf(observations', eligibilityStart[r], round[r].closesAt)
          = WeightsOf(observations, eligibilityStart[r], round[r].closesAt)
    BY <1>2, <2>1, StartsBy
  <2>3. r <= activeRoundId
    BY <1>1, <1>3
  <2> QED BY <1>3, <2>2, <2>3 DEF WeightInv
<1>4. Horizon' = Horizon /\ Horizon \in Nat /\ Horizon <= now
  BY <1>1 DEF Horizon
<1>5. \A a \in Accounts : eligibilityStart[activeRoundId][a] <= Horizon
  BY <1>1, StartsBy DEF Horizon
<1>6. WeightsOf(observations', eligibilityStart[activeRoundId], Horizon)
        = WeightsOf(observations, eligibilityStart[activeRoundId], Horizon)
  BY <1>1, <1>2, <1>4, <1>5
<1> QED BY <1>3, <1>4, <1>6 DEF WeightInv

\* A deposit or a withdrawal moves the balance of one account, at now.
LEMMA BalanceIs ==
  ASSUME VaultShape, NEW w \in Accounts, NEW amount \in Nat,
         Deposit(w, amount) \/ Withdraw(w, amount)
  PROVE  \E d \in Int :
           /\ IsActiveRoundOpen
           /\ principal[w] + d \in Nat
           /\ principal' = [principal EXCEPT ![w] = @ + d]
           /\ observations' = [a \in Accounts |->
                                 IF a \in {w} THEN CheckpointUser(observations[a], principal'[a], now)
                                 ELSE observations[a]]
           /\ round' = EligibleAfter(w, d)
           /\ UNCHANGED <<now, activeRoundId, participants, eligibilityStart>>
<1>0. principal \in [Accounts -> Nat] /\ observations \in [Accounts -> Seq(Checkpoint)]
      /\ principal[w] \in Nat
  BY ShapeTypes
<1>1. PICK d \in Int :
        /\ IsActiveRoundOpen
        /\ principal[w] + d \in Nat
        /\ principal' = [principal EXCEPT ![w] = principal[w] + d]
        /\ observations' = [observations EXCEPT ![w] = CheckpointUser(@, principal[w] + d, now)]
        /\ round' = EligibleAfter(w, d)
        /\ UNCHANGED <<now, activeRoundId, participants, eligibilityStart>>
  <2>1. CASE Deposit(w, amount)
    <3> DEFINE d == IF amount <= MAX_POOL_BASE_UNITS - totalPrincipal /\ amount > 0
                    THEN amount ELSE 0
    <3>1. /\ IsActiveRoundOpen
          /\ principal' = [principal EXCEPT ![w] = principal[w] + d]
          /\ observations' = [observations EXCEPT ![w] = CheckpointUser(@, principal[w] + d, now)]
          /\ round' = EligibleAfter(w, d)
          /\ UNCHANGED <<now, activeRoundId, participants, eligibilityStart>>
      BY <2>1 DEF Deposit
    <3>2. d \in Int /\ principal[w] + d \in Nat
      BY <1>0
    <3> HIDE DEF d
    <3> QED BY <3>1, <3>2
  <2>2. CASE Withdraw(w, amount)
    <3> DEFINE eligible == IF amount <= principal[w] /\ amount <= liquidPrincipal
                           THEN amount ELSE 0
               sent == ConfidentialTransfer(eligible)
               d == -sent
    <3>1. sent \in Nat /\ sent <= principal[w]
      BY <1>0, SentFits
    <3>2. /\ IsActiveRoundOpen
          /\ principal' = [principal EXCEPT ![w] = principal[w] - sent]
          /\ observations' = [observations EXCEPT ![w] = CheckpointUser(@, principal[w] - sent, now)]
          /\ round' = EligibleAfter(w, d)
          /\ UNCHANGED <<now, activeRoundId, participants, eligibilityStart>>
      BY <2>2 DEF Withdraw
    <3> HIDE DEF sent
    <3>3. d \in Int /\ principal[w] - sent = principal[w] + d /\ principal[w] + d \in Nat
      BY <1>0, <3>1
    <3> HIDE DEF d
    <3> QED BY <3>2, <3>3
  <2> QED BY <2>1, <2>2
<1>2. principal' = [principal EXCEPT ![w] = @ + d] /\ principal'[w] = principal[w] + d
  BY <1>0, <1>1
<1>3. observations' = [a \in Accounts |->
                         IF a \in {w} THEN CheckpointUser(observations[a], principal'[a], now)
                         ELSE observations[a]]
  <2>1. observations' = [observations EXCEPT ![w] = CheckpointUser(observations[w], principal'[w], now)]
    BY <1>1, <1>2
  <2> QED BY <1>0, <2>1
<1> QED BY <1>1, <1>2, <1>3

\* No step rewrites a balance history up to now.
LEMMA ObservationsFrozen ==
  ASSUME VaultShape, [Next]_vars
  PROVE  \A a \in Accounts, v \in Nat :
           v <= now => CumulativeAt(observations'[a], v) = CumulativeAt(observations[a], v)
<1>0. /\ Savers \subseteq Accounts /\ Amounts \subseteq Nat
      /\ \A n \in 1..MAX_CHUNK : n \in Nat
  <2>1. \A n \in 1..MAX_CHUNK : n \in Nat
    BY Configured
  <2> QED BY <2>1, Configured
<1>1. CASE observations' = observations
  BY <1>1
<1>2. ASSUME NEW w \in Accounts, NEW amount \in Nat, Deposit(w, amount) \/ Withdraw(w, amount)
      PROVE  \A a \in Accounts, v \in Nat :
               v <= now => CumulativeAt(observations'[a], v) = CumulativeAt(observations[a], v)
  <2>1. PICK d \in Int :
          /\ principal[w] + d \in Nat
          /\ principal' = [principal EXCEPT ![w] = @ + d]
          /\ observations' = [a \in Accounts |->
                                IF a \in {w} THEN CheckpointUser(observations[a], principal'[a], now)
                                ELSE observations[a]]
          /\ now' = now
    BY <1>2, BalanceIs
  <2>2. VaultShape /\ w \in Accounts /\ {w} \in SUBSET Accounts /\ w \in {w} /\ d \in Int
    OBVIOUS
  <2> QED BY ONLY <2>1, <2>2, BalanceMoves
<1>3. ASSUME NEW r \in RoundIds, NEW n \in Nat, NEW p, ProcessAllocation(r, n, p)
      PROVE  \A a \in Accounts, v \in Nat :
               v <= now => CumulativeAt(observations'[a], v) = CumulativeAt(observations[a], v)
  <2>1. PICK M \in SUBSET Members(r), w \in Accounts, prize \in Nat, d \in Nat, cursor \in Nat :
          AllocationStep(r, M, w, prize, d, cursor)
    BY <1>3, AllocationIs
  <2>2. /\ w \in M /\ now' = now
        /\ principal' = [principal EXCEPT ![w] = @ + d]
        /\ observations' = [a \in Accounts |->
                              IF a \in M THEN CheckpointUser(observations[a], principal'[a], now)
                              ELSE observations[a]]
    BY <2>1 DEF AllocationStep
  <2>3. VaultShape /\ w \in Accounts /\ d \in Int /\ principal[w] + d \in Nat
    BY ShapeTypes, SMTT(30)
  <2>4. M \in SUBSET Accounts
    BY ShapeTypes, SMTT(30) DEF Members
  <2> QED BY ONLY <2>2, <2>3, <2>4, BalanceMoves
<1>4. CASE Tick \/ CloseRound \/ UNCHANGED vars
  BY <1>1, <1>4 DEF Tick, CloseRound, vars, vaultVars, saverVars
<1>5. CASE UserStep
  <2>1. CASE BalanceStep
    BY <1>0, <1>2, <2>1 DEF BalanceStep
  <2>2. CASE RegistrationStep \/ PrizeStep \/ WinningsStep \/ PreferenceStep \/ EscrowPayout
    BY <1>1, <2>2 DEF RegistrationStep, RegisterParticipant, PrizeStep, ContributeSponsor,
       HarvestStrategyYield, WinningsStep, WithdrawWinnings, PreferenceStep,
       SetAutoSavePreference, EscrowPayout, vaultVars, saverVars
  <2> QED BY <1>5, <2>1, <2>2 DEF UserStep
<1>6. ASSUME NEW r \in RoundIds, SettlementStep(r)
      PROVE  \/ observations' = observations
             \/ \E n \in 1..MAX_CHUNK, p \in Progressors : ProcessAllocation(r, n, p)
  BY <1>6 DEF SettlementStep, FinalizeAggregate, GenerateRandomCandidate,
     FinalizeCandidateValidity, ProcessSelection, FinalizeSelectionReconciliation,
     FinalizeSettlement, RecoverFailedReconciliation, SettleEmptyRound, RollPrizeForward,
     OnlyRound, saverVars
<1> QED BY <1>0, <1>1, <1>3, <1>4, <1>5, <1>6 DEF Next

\* A settlement leaves the round's times and aggregate alone, and only its
\* allocation touches the active round.
LEMMA SettlementKeeps ==
  ASSUME VaultShape, NEW r \in RoundIds, SettlementStep(r)
  PROVE  /\ round'[r].aggregateTwab = round[r].aggregateTwab
         /\ round'[r].closesAt = round[r].closesAt
         /\ \/ round'[activeRoundId] = round[activeRoundId]
            \/ \E n \in 1..MAX_CHUNK, p \in Progressors : ProcessAllocation(r, n, p)
<1> DEFINE P == round[r]
<1>0. P \in Round /\ round \in [RoundIds -> Round]
  BY ShapeTypes
<1>1. r # activeRoundId /\ activeRoundId \in RoundIds
  <2>1. activeRoundId \in RoundIds /\ activeRoundId \in Nat /\ r \in Nat
    BY ShapeTypes, Configured
  <2>2. r < activeRoundId
    BY SettlementRecords
  <2> QED BY <2>1, <2>2
<1>2. ASSUME NEW X, round' = [round EXCEPT ![r] = X], X.aggregateTwab = P.aggregateTwab,
             X.closesAt = P.closesAt
      PROVE  /\ round'[r].aggregateTwab = P.aggregateTwab /\ round'[r].closesAt = P.closesAt
             /\ round'[activeRoundId] = round[activeRoundId]
  BY <1>0, <1>1, <1>2
<1>3. CASE FinalizeAggregate(r)
  BY <1>0, <1>2, <1>3 DEF FinalizeAggregate, OnlyRound, Round
<1>4. CASE \E c \in 0..(RANDOM_DOMAIN - 1) : GenerateRandomCandidate(r, c)
  BY <1>0, <1>2, <1>4 DEF GenerateRandomCandidate, OnlyRound, Round
<1>5. CASE \E k \in 1..Len(validityProofs[r]) : FinalizeCandidateValidity(r, k)
  BY <1>0, <1>2, <1>5 DEF FinalizeCandidateValidity, OnlyRound, Round
<1>6. CASE \E n \in 1..MAX_CHUNK, p \in Progressors : ProcessSelection(r, n, p)
  <2>0. \A n \in 1..MAX_CHUNK : n \in Nat
    BY Configured
  <2>1. PICK W \in SUBSET Members(r), cursor \in Nat, cumulative \in Nat, count \in Nat,
             valid \in BOOLEAN : SelectionStep(r, W, cursor, cumulative, count, valid)
    BY <1>6, <2>0, SelectionIs
  <2> QED BY <1>0, <1>2, <2>1 DEF SelectionStep, OnlyRound, Round
<1>7. CASE \E valid \in BOOLEAN : FinalizeSelectionReconciliation(r, valid)
  BY <1>0, <1>2, <1>7 DEF FinalizeSelectionReconciliation, OnlyRound, Round
<1>8. CASE \E n \in 1..MAX_CHUNK, p \in Progressors : ProcessAllocation(r, n, p)
  <2>0. \A n \in 1..MAX_CHUNK : n \in Nat
    BY Configured
  <2>1. PICK M \in SUBSET Members(r), w \in Accounts, prize \in Nat, d \in Nat, cursor \in Nat :
          AllocationStep(r, M, w, prize, d, cursor)
    BY <1>8, <2>0, AllocationIs
  <2> DEFINE v == P.reservedPrize - prize
             state == IF cursor = P.participantCountSnapshot
                      THEN "WINNINGS_ALLOCATED" ELSE "ALLOCATION_PROCESSING"
             X == [P EXCEPT !.reservedPrize = v, !.allocationCursor = cursor, !.state = state]
  <2>2. round'[r] = X
    BY <2>1 DEF AllocationStep
  <2>3. X.aggregateTwab = P.aggregateTwab /\ X.closesAt = P.closesAt
    <3> HIDE DEF P, v, state
    <3> QED BY <1>0 DEF Round
  <2> QED BY <1>8, <2>2, <2>3
<1>9. CASE FinalizeSettlement(r)
  BY <1>0, <1>2, <1>9 DEF FinalizeSettlement, OnlyRound, Round
<1>10. CASE RecoverFailedReconciliation(r) \/ SettleEmptyRound(r)
  <2>1. round' = [round EXCEPT ![r] = [P EXCEPT !.reservedPrize = 0, !.state = "SETTLED"]]
    BY <1>0, <1>10 DEF RecoverFailedReconciliation, SettleEmptyRound, RollPrizeForward
  <2> QED BY <1>0, <1>2, <2>1 DEF Round
<1> QED BY <1>3, <1>4, <1>5, <1>6, <1>7, <1>8, <1>9, <1>10 DEF SettlementStep

\* Deposits and withdrawals keep the weights.
LEMMA BalanceWeights ==
  ASSUME VaultShape, WeightInv, [Next]_vars, NEW w \in Accounts, NEW amount \in Nat,
         Deposit(w, amount) \/ Withdraw(w, amount),
         \A s \in RoundIds : SameRecord(round[s], round'[s])
  PROVE  WeightInv'
<1> DEFINE A == activeRoundId
<1>1. PICK d \in Int :
        /\ IsActiveRoundOpen
        /\ principal[w] + d \in Nat
        /\ principal' = [principal EXCEPT ![w] = @ + d]
        /\ round' = EligibleAfter(w, d)
        /\ UNCHANGED <<now, activeRoundId, eligibilityStart>>
  BY BalanceIs
<1> DEFINE e == IF eligibilityStart[A][w] # 0 THEN d ELSE 0
<1>2. e \in Int /\ round[A].eligibleBalance + e \in Nat
  <2>1. round[A].eligibleBalance + e \in Nat
    BY <1>1, EligibleMoves
  <2>2. e \in Int
    OBVIOUS
  <2> QED BY <2>1, <2>2
<1>3. round'[A] = Accrued(e)[A] \/ round'[A] = round[A]
  BY <1>1, EligibleAfterIs
<1> HIDE DEF e
<1>4. AccruedTo(round'[A], now) = AccruedTo(round[A], now)
  BY <1>1, <1>2, <1>3, AccruedKept
<1>5. Horizon = now
  BY <1>1 DEF IsActiveRoundOpen, Horizon
<1>6. \A a \in Accounts, v \in Nat :
        v <= now => CumulativeAt(observations'[a], v) = CumulativeAt(observations[a], v)
  BY ObservationsFrozen
<1> QED BY <1>1, <1>4, <1>5, <1>6, WeightKept DEF SameRecord

\* Every step of a settlement keeps the weights, the active round's and those
\* of the closed ones.
LEMMA SettlementWeights ==
  ASSUME VaultShape, WeightInv, [Next]_vars, NEW r \in RoundIds, SettlementStep(r)
  PROVE  WeightInv'
<1> DEFINE A == activeRoundId
<1>1. /\ UNCHANGED <<now, activeRoundId, eligibilityStart>>
      /\ \A s \in RoundIds : s # r => SameRecord(round[s], round'[s])
  BY SettlementRecords
<1>2. \A s \in RoundIds : /\ round'[s].aggregateTwab = round[s].aggregateTwab
                          /\ round'[s].closesAt = round[s].closesAt
  BY <1>1, SettlementKeeps DEF SameRecord
<1>3. \A a \in Accounts, v \in Nat :
        v <= now => CumulativeAt(observations'[a], v) = CumulativeAt(observations[a], v)
  BY ObservationsFrozen
<1>4. CASE round'[A] = round[A]
  BY <1>1, <1>2, <1>3, <1>4, WeightKept
<1>5. CASE \E n \in 1..MAX_CHUNK, p \in Progressors : ProcessAllocation(r, n, p)
  <2>0. \A n \in 1..MAX_CHUNK : n \in Nat
    BY Configured
  <2>1. PICK M \in SUBSET Members(r), w \in Accounts, prize \in Nat, d \in Nat, cursor \in Nat :
          AllocationStep(r, M, w, prize, d, cursor)
    BY <1>5, <2>0, AllocationIs
  <2> DEFINE e == IF eligibilityStart[A][w] # 0 THEN d ELSE 0
  <2>2. /\ IsActiveRoundOpen /\ round[A].eligibleBalance + e \in Nat
        /\ round'[A] = Accrued(e)[A]
    BY <2>1 DEF AllocationStep
  <2>3. e \in Int
    OBVIOUS
  <2> HIDE DEF e
  <2>4. AccruedTo(round'[A], now) = AccruedTo(round[A], now)
    BY <2>2, <2>3, AccruedKept
  <2>5. Horizon = now
    BY <2>2 DEF IsActiveRoundOpen, Horizon
  <2> QED BY <1>1, <1>2, <1>3, <2>4, <2>5, WeightKept
<1> QED BY <1>4, <1>5, SettlementKeeps

\* A newcomer to the active round has gathered nothing yet.
LEMMA RegisterWeights ==
  ASSUME VaultShape, WeightInv, NEW r \in RoundIds, NEW w \in Accounts, RegisterParticipant(r, w),
         \A s \in RoundIds : SameRecord(round[s], round'[s])
  PROVE  WeightInv'
<1> DEFINE A == activeRoundId
           f == WeightsOf(observations, eligibilityStart[A], now)
           g == WeightsOf(observations, eligibilityStart'[A], now)
           e == principal[w]
<1>0. /\ eligibilityStart \in [RoundIds -> [Accounts -> Nat]] /\ now \in Nat /\ A \in RoundIds
      /\ A \in Nat /\ RoundIds \subseteq Nat /\ e \in Nat
      /\ round \in [RoundIds -> Round] /\ round[A].eligibleBalance \in Nat
  BY ShapeTypes, RoundFields, Configured
<1>1. /\ r = A /\ IsActiveRoundOpen /\ eligibilityStart[A][w] = 0
      /\ eligibilityStart' = [eligibilityStart EXCEPT ![A][w] = now]
      /\ round' = Accrued(e)
      /\ UNCHANGED <<now, activeRoundId, observations>>
  BY DEF RegisterParticipant, saverVars
<1>2. /\ \A a \in Accounts : a # w => eligibilityStart'[A][a] = eligibilityStart[A][a]
      /\ eligibilityStart'[A][w] = now
      /\ \A s \in RoundIds : s # A => eligibilityStart'[s] = eligibilityStart[s]
  BY <1>0, <1>1
<1>3. g = f
  <2>1. CumulativeAt(observations[w], now) \in Nat
    BY <1>0, CumulativeType DEF VaultShape, Histories
  <2>2. ASSUME NEW a \in Accounts PROVE g[a] = f[a]
    <3>1. CASE a = w
      <4>1. g[w] = CumulativeAt(observations[w], now) - CumulativeAt(observations[w], now)
              \/ g[w] = 0
        BY <1>2 DEF WeightsOf
      <4>2. f[w] = 0
        BY <1>1 DEF WeightsOf
      <4> HIDE DEF f, g
      <4> QED BY <2>1, <3>1, <4>1, <4>2
    <3>2. CASE a # w
      BY <1>2, <3>2 DEF WeightsOf
    <3> QED BY <3>1, <3>2
  <2>3. f = [a \in Accounts |-> f[a]] /\ g = [a \in Accounts |-> g[a]]
    BY DEF WeightsOf
  <2> HIDE DEF f, g
  <2> QED BY <2>2, <2>3
<1>4. Horizon = now /\ Horizon' = now
  BY <1>0, <1>1 DEF IsActiveRoundOpen, Horizon, SameRecord
<1>5. round[A].eligibleBalance + e \in Nat /\ e \in Int
  <2> HIDE DEF e
  <2> QED BY <1>0
<1>6. AccruedTo(round'[A], now) = AccruedTo(round[A], now)
  BY <1>1, <1>5, AccruedKept
<1>7. AccruedTo(round'[A], now) = Sum(g)
  BY <1>3, <1>4, <1>6 DEF WeightInv
<1>8. ASSUME NEW s \in RoundIds, s < A
      PROVE  round'[s].aggregateTwab
               = Sum(WeightsOf(observations, eligibilityStart'[s], round'[s].closesAt))
  <2>1. s # A
    BY <1>0, <1>8
  <2> QED BY <1>2, <1>8, <2>1 DEF WeightInv, SameRecord
<1> QED BY <1>1, <1>4, <1>7, <1>8 DEF WeightInv

\* Every second adds the balance of each participant to its weight, and the
\* eligible balance to the accrual, until the round's time is over.
LEMMA TickWeights ==
  ASSUME VaultShape, WeightInv, Tick
  PROVE  WeightInv'
<1> DEFINE A == activeRoundId
           R == round[A]
           S == eligibilityStart[A]
<1>1. /\ now' = now + 1
      /\ UNCHANGED <<activeRoundId, round, eligibilityStart, observations>>
  BY DEF Tick, roundVars, saverVars
<1>2. /\ now \in Nat /\ A \in RoundIds /\ R \in Round /\ S \in [Accounts -> Nat]
      /\ principal \in [Accounts -> Nat] /\ R.closesAt \in Nat
      /\ R.eligibleCumulative \in Nat /\ R.eligibleBalance \in Nat /\ R.eligibleTimestamp \in Nat
  BY ShapeTypes, RoundFields
<1>3. AccruedTo(R, Horizon) = Sum(WeightsOf(observations, S, Horizon))
  BY DEF WeightInv
<1>4. CASE now < R.closesAt
  <2> DEFINE f == WeightsOf(observations, S, now)
             b == Registered(A, principal)
             g == WeightsOf(observations, S, now + 1)
  <2>1. Horizon = now /\ Horizon' = now + 1
    BY <1>1, <1>2, <1>4 DEF Horizon
  <2>2. f \in [Accounts -> Nat] /\ b \in [Accounts -> Nat]
    <3>1. \A a \in Accounts : S[a] <= now
      BY <1>2, StartsBy
    <3>2. f \in [Accounts -> Nat]
      BY <1>2, <3>1, WeightsType
    <3> QED BY <1>2, <3>2 DEF Registered
  <2>3. ASSUME NEW a \in Accounts PROVE g[a] = f[a] + b[a]
    <3> DEFINE s == observations[a]
               v == S[a]
    <3>1. History(s, now) /\ principal[a] = Current(s)
      BY DEF VaultShape, Histories
    <3>2. v \in Nat
      BY <1>2
    <3>3. /\ CumulativeAt(s, now + 1) = CumulativeAt(s, now) + Current(s) /\ Current(s) \in Nat
          /\ CumulativeAt(s, now) \in Nat /\ CumulativeAt(s, v) \in Nat
      <4> HIDE DEF s, v
      <4>0. now \in Nat /\ now <= now /\ History(s, now)
        BY <1>2, <3>1
      <4>1. CumulativeAt(s, now + 1) = CumulativeAt(s, now) + Current(s) /\ Current(s) \in Nat
        BY ONLY <4>0, CumulativeAfterLast
      <4>2. CumulativeAt(s, now) \in Nat /\ CumulativeAt(s, v) \in Nat
        BY ONLY <3>2, <4>0, CumulativeType
      <4> QED BY <4>1, <4>2
    <3>4. CASE v # 0
      <4>1. /\ g[a] = CumulativeAt(s, now + 1) - CumulativeAt(s, v)
            /\ f[a] = CumulativeAt(s, now) - CumulativeAt(s, v)
            /\ b[a] = principal[a]
        BY <3>4 DEF WeightsOf, Registered
      <4> HIDE DEF s, v, f, g, b
      <4> QED BY <3>1, <3>3, <4>1
    <3>5. CASE v = 0
      BY <3>5 DEF WeightsOf, Registered
    <3> QED BY <3>4, <3>5
  <2>4. g = [a \in Accounts |-> f[a] + b[a]]
    <3>1. g = [a \in Accounts |-> g[a]]
      BY DEF WeightsOf
    <3> HIDE DEF f, g, b
    <3> QED BY <2>3, <3>1
  <2>5. Sum(g) = Sum(f) + Sum(b) /\ Sum(f) \in Nat /\ Sum(b) \in Nat
    <3>1. IsFiniteSet(Accounts)
      BY Configured
    <3> HIDE DEF f, g, b
    <3> QED BY <2>2, <2>4, <3>1, SumAdd, SumType
  <2>6. Sum(b) = R.eligibleBalance
    BY DEF VaultShape, EligibleBalanceExact
  <2>7. AccruedTo(R, now + 1) = AccruedTo(R, now) + R.eligibleBalance
    <3> DEFINE e == R.eligibleBalance
               k == now - R.eligibleTimestamp
    <3>1. k \in Nat /\ (now + 1) - R.eligibleTimestamp = k + 1
      BY <1>2 DEF VaultShape, RoundsInOrder
    <3>2. e * (k + 1) = e * k + e /\ e * k \in Nat
      <4> HIDE DEF e, k
      <4>1. e \in Nat
        BY <1>2 DEF e
      <4> QED BY <3>1, <4>1, ProductNat
    <3>3. AccruedTo(R, now + 1) = R.eligibleCumulative + e * (k + 1)
      <4> HIDE DEF e, k, R
      <4>1. AccruedTo(R, now + 1) = R.eligibleCumulative + e * ((now + 1) - R.eligibleTimestamp)
        BY DEF AccruedTo, e
      <4> QED BY <3>1, <4>1
    <3>4. AccruedTo(R, now) = R.eligibleCumulative + e * k
      BY DEF AccruedTo
    <3> HIDE DEF k
    <3> QED BY <1>2, <3>2, <3>3, <3>4
  <2>8. AccruedTo(R, now + 1) = Sum(g)
    <3> HIDE DEF f, g, b
    <3> QED BY <1>3, <2>1, <2>5, <2>6, <2>7 DEF f
  <2> QED BY <1>1, <2>1, <2>8 DEF WeightInv
<1>5. CASE ~(now < R.closesAt)
  <2>1. Horizon = R.closesAt /\ Horizon' = R.closesAt
    BY <1>1, <1>2, <1>5 DEF Horizon
  <2> QED BY <1>1, <1>3, <2>1 DEF WeightInv
<1> QED BY <1>4, <1>5

\* closeRound freezes the aggregate at the closing time and opens a round in
\* which nobody has gathered anything.
LEMMA CloseWeights ==
  ASSUME VaultShape, WeightInv, CloseRound
  PROVE  WeightInv'
<1> DEFINE r == activeRoundId
           q == r + 1
           P == round[r]
           X == round'[r]
           Q == round'[q]
<1>1. /\ r \in RoundIds /\ q \in RoundIds /\ activeRoundId' = q /\ r \in Nat
      /\ P.closesAt <= now /\ X.closesAt = P.closesAt
      /\ X.aggregateTwab = AccruedTo(P, P.closesAt)
      /\ Q = InitializeRound(P.closesAt)
      /\ \A s \in RoundIds : s # r /\ s # q => round'[s] = round[s]
      /\ UNCHANGED <<now, participants, eligibilityStart, observations>>
  BY CloseRecords DEF AccruedTo
<1>2. /\ now \in Nat /\ P.closesAt \in Nat /\ RoundIds \subseteq Nat /\ IsFiniteSet(Accounts)
      /\ eligibilityStart \in [RoundIds -> [Accounts -> Nat]] /\ ROUND_DURATION \in Nat
  BY ShapeTypes, RoundFields, Configured
<1>3. Horizon = P.closesAt
  BY <1>1, <1>2 DEF Horizon
<1>4. ASSUME NEW s \in RoundIds, s < q
      PROVE  round'[s].aggregateTwab
               = Sum(WeightsOf(observations, eligibilityStart[s], round'[s].closesAt))
  <2>1. CASE s = r
    BY <1>1, <1>3, <2>1 DEF WeightInv
  <2>2. CASE s # r
    <3>1. s < r /\ s # q
      BY <1>1, <1>2, <1>4, <2>2, SMTT(30)
    <3> QED BY <1>1, <2>2, <3>1 DEF WeightInv
  <2> QED BY <2>1, <2>2
<1> DEFINE t == Horizon'
           f == WeightsOf(observations, eligibilityStart[q], t)
<1>5. \A a \in Accounts : eligibilityStart[q][a] = 0
  <2>1. participants[q] = <<>>
    BY <1>1 DEF VaultShape, RoundsInOrder
  <2>2. Members(q) = {}
    BY <2>1 DEF Members
  <2> HIDE DEF q
  <2> QED BY <1>1, <2>2 DEF VaultShape, Registrations
<1>6. f \in [Accounts -> Nat] /\ \A a \in Accounts : f[a] = 0
  <2> HIDE DEF q, t
  <2> QED BY <1>5 DEF WeightsOf
<1>7. Sum(f) = 0
  <2> HIDE DEF f
  <2> QED BY <1>6, SumZero
<1>8. AccruedTo(Q, t) = 0
  <2>1. /\ Q.eligibleCumulative = 0 /\ Q.eligibleBalance = 0 /\ Q.eligibleTimestamp = P.closesAt
        /\ Q.closesAt = P.closesAt + ROUND_DURATION
    <3>1. Q = InitializeRound(P.closesAt) /\ P.closesAt \in Nat
      BY <1>1, <1>2
    <3> HIDE DEF Q, P
    <3> QED BY ONLY <3>1, FreshRounds
  <2>2. t = IF now < Q.closesAt THEN now ELSE Q.closesAt
    BY <1>1 DEF Horizon
  <2>3. t - P.closesAt \in Int
    <3> HIDE DEF Q, P, t
    <3> QED BY <1>2, <2>1, <2>2
  <2>4. 0 * (t - P.closesAt) = 0
    BY <2>3
  <2> HIDE DEF Q, P, t
  <2> QED BY <2>1, <2>4 DEF AccruedTo
<1> QED BY <1>1, <1>4, <1>7, <1>8 DEF WeightInv

\* Every step keeps the weights.
LEMMA WeightStep ==
  ASSUME VaultShape, WeightInv, [Next]_vars
  PROVE  WeightInv'
<1>0. Savers \subseteq Accounts /\ Amounts \subseteq Nat
  BY Configured
<1>1. CASE Tick
  BY <1>1, TickWeights
<1>2. CASE CloseRound
  BY <1>2, CloseWeights
<1>3. CASE UserStep
  <2>0. \A s \in RoundIds : SameRecord(round[s], round'[s])
    BY <1>3, UserRecords
  <2>1. CASE BalanceStep
    BY <1>0, <2>0, <2>1, BalanceWeights DEF BalanceStep
  <2>2. CASE RegistrationStep
    BY <1>0, <2>0, <2>2, RegisterWeights DEF RegistrationStep
  <2>3. CASE PrizeStep \/ WinningsStep \/ PreferenceStep \/ EscrowPayout
    <3>1. UNCHANGED <<now, activeRoundId, round, eligibilityStart, observations>>
      BY <2>3 DEF PrizeStep, ContributeSponsor, HarvestStrategyYield, WinningsStep,
         WithdrawWinnings, PreferenceStep, SetAutoSavePreference, EscrowPayout, vaultVars,
         saverVars, roundVars
    <3> QED BY <3>1 DEF WeightInv, Horizon
  <2> QED BY <1>3, <2>1, <2>2, <2>3 DEF UserStep
<1>4. CASE UNCHANGED vars
  <2>1. UNCHANGED <<now, activeRoundId, round, eligibilityStart, observations>>
    BY <1>4 DEF vars, vaultVars, saverVars, roundVars
  <2> QED BY <2>1 DEF WeightInv, Horizon
<1>5. CASE \E r \in RoundIds : SettlementStep(r)
  BY <1>5, SettlementWeights
<1> QED BY <1>1, <1>2, <1>3, <1>4, <1>5 DEF Next

\* The invariant of the weights.
THEOREM WeightInvariant == Spec => []WeightInv
<1>1. Init => WeightInv
  <2> SUFFICES ASSUME Init PROVE WeightInv
    OBVIOUS
  <2> DEFINE F == FIRST_ROUND_OPENS_AT
             S == eligibilityStart[1]
             f == WeightsOf(observations, S, Horizon)
             R == round[1]
  <2>1. /\ activeRoundId = 1 /\ 1 \in RoundIds /\ now = F /\ F \in Nat
        /\ RoundIds \subseteq Nat /\ (\A r \in RoundIds : r >= 1)
    BY Configured DEF Init
  <2>2. R = InitializeRound(F) /\ S = [a \in Accounts |-> 0]
    BY <2>1 DEF Init
  <2>3. /\ R.eligibleCumulative = 0 /\ R.eligibleBalance = 0 /\ R.eligibleTimestamp = F
        /\ R.closesAt = F + ROUND_DURATION
    <3> HIDE DEF R
    <3> QED BY ONLY <2>1, <2>2, FreshRounds
  <2>4. f \in [Accounts -> Nat] /\ \A a \in Accounts : f[a] = 0
    <3> HIDE DEF S
    <3> QED BY <2>2 DEF WeightsOf
  <2>5. Sum(f) = 0
    <3> HIDE DEF f
    <3> QED BY <2>4, SumZero
  <2>6. Horizon \in Int
    <3>1. ROUND_DURATION \in Nat
      BY Configured
    <3> HIDE DEF R, F
    <3> QED BY <2>1, <2>3, <3>1 DEF Horizon, R
  <2>7. AccruedTo(R, Horizon) = 0
    <3>1. Horizon - F \in Int /\ 0 * (Horizon - F) = 0
      BY <2>1, <2>6
    <3> HIDE DEF R
    <3> QED BY <2>3, <3>1 DEF AccruedTo
  <2>8. \A r \in RoundIds : ~(r < activeRoundId)
    BY <2>1
  <2> QED BY <2>1, <2>5, <2>7, <2>8 DEF WeightInv
<1>2. VaultShape /\ WeightInv /\ [Next]_vars => WeightInv'
  BY WeightStep
<1> QED BY <1>1, <1>2, VaultShapeInvariant, PTL DEF Spec

\* The sum over the participants of a round is the sum over all accounts.
LEMMA MemberWeights ==
  ASSUME VaultShape, NEW r \in RoundIds, NEW t \in Nat,
         \A a \in Accounts : eligibilityStart[r][a] <= t
  PROVE  /\ \A a \in Members(r) : WeightUpTo(r, a, t) \in Nat
         /\ Sum([a \in Members(r) |-> WeightUpTo(r, a, t)])
              = Sum(WeightsOf(observations, eligibilityStart[r], t))
<1> DEFINE f == WeightsOf(observations, eligibilityStart[r], t)
           T == Members(r)
<1>1. f \in [Accounts -> Nat]
  BY WeightsType
<1>2. T \in SUBSET Accounts
  BY ShapeTypes DEF Members
<1>3. \A a \in Accounts : eligibilityStart[r][a] # 0 <=> a \in T
  BY DEF VaultShape, Registrations
<1>4. \A a \in T : f[a] = WeightUpTo(r, a, t)
  BY <1>2, <1>3 DEF WeightsOf, WeightUpTo
<1>5. \A a \in Accounts \ T : f[a] = 0
  BY <1>3 DEF WeightsOf
<1> HIDE DEF f, T
<1>6. Sum([a \in T |-> f[a]]) = Sum(f)
  BY <1>1, <1>2, <1>5, SumRestrict
<1>7. [a \in T |-> WeightUpTo(r, a, t)] = [a \in T |-> f[a]]
  BY <1>4
<1> QED BY <1>1, <1>2, <1>4, <1>6, <1>7 DEF f, T

\* The incremental aggregate of _accrueEligible is the sum of the weights that
\* _roundWeight computes one by one, at every moment for the round being filled
\* and for ever for a closed one, and the checkpoints behind both are in order.
THEOREM WeightsAlwaysReconcile == Spec => []WeightsReconcile
<1>1. VaultShape /\ WeightInv => WeightsReconcile
  <2> SUFFICES ASSUME VaultShape, WeightInv PROVE WeightsReconcile
    OBVIOUS
  <2> DEFINE A == round[activeRoundId]
             t == IF now < A.closesAt THEN now ELSE A.closesAt
  <2>0. /\ now \in Nat /\ activeRoundId \in RoundIds /\ A \in Round
        /\ \A r \in RoundIds : round[r].closesAt \in Nat
    BY ShapeTypes, RoundFields
  <2>1. CheckpointsOrdered
    <3>1. ASSUME NEW a \in Accounts, NEW i \in 2..Len(observations[a])
          PROVE  observations[a][i - 1].timestamp < observations[a][i].timestamp
      <4> DEFINE s == observations[a]
      <4>1. History(s, now)
        BY DEF VaultShape, Histories
      <4>2. /\ Len(s) \in Nat /\ DOMAIN s = 1..Len(s)
            /\ \A j, k \in DOMAIN s : j < k => s[j].timestamp < s[k].timestamp
        BY <2>0, <4>1, HistoryFacts
      <4>3. i - 1 \in 1..Len(s) /\ i \in 1..Len(s) /\ i - 1 < i
        BY <4>2
      <4> QED BY <4>2, <4>3
    <3>2. ASSUME NEW a \in Accounts, NEW i \in 2..Len(preferenceObservations[a])
          PROVE  preferenceObservations[a][i - 1].timestamp < preferenceObservations[a][i].timestamp
      <4> DEFINE s == preferenceObservations[a]
      <4>1. s \in Seq(Preference) /\ InOrder(s, now)
        BY DEF VaultShape, Preferences
      <4>2. /\ Len(s) \in Nat /\ DOMAIN s = 1..Len(s)
            /\ \A j, k \in DOMAIN s : j < k => s[j].timestamp < s[k].timestamp
        BY <4>1 DEF InOrder
      <4>3. i - 1 \in 1..Len(s) /\ i \in 1..Len(s) /\ i - 1 < i
        BY <4>2
      <4> QED BY <4>2, <4>3
    <3> QED BY <3>1, <3>2 DEF CheckpointsOrdered
  <2>2. ASSUME NEW r \in RoundIds, Closed(r)
        PROVE  /\ \A a \in Members(r) : WeightUpTo(r, a, round[r].closesAt) >= 0
               /\ round[r].aggregateTwab
                    = Sum([a \in Members(r) |-> WeightUpTo(r, a, round[r].closesAt)])
    <3>1. r < activeRoundId
      BY <2>2, ClosedBefore DEF Closed
    <3>2. \A a \in Accounts : eligibilityStart[r][a] <= round[r].closesAt
      BY StartsBy
    <3>3. round[r].aggregateTwab
            = Sum(WeightsOf(observations, eligibilityStart[r], round[r].closesAt))
      BY <3>1 DEF WeightInv
    <3>4. /\ \A a \in Members(r) : WeightUpTo(r, a, round[r].closesAt) \in Nat
          /\ Sum([a \in Members(r) |-> WeightUpTo(r, a, round[r].closesAt)])
               = Sum(WeightsOf(observations, eligibilityStart[r], round[r].closesAt))
      BY <2>0, <3>2, MemberWeights
    <3>5. \A a \in Members(r) : WeightUpTo(r, a, round[r].closesAt) >= 0
      BY <3>4
    <3> QED BY <3>3, <3>4, <3>5
  <2>3. /\ \A a \in Members(activeRoundId) : WeightUpTo(activeRoundId, a, t) >= 0
        /\ AccrueEligible(A, t).eligibleCumulative
             = Sum([a \in Members(activeRoundId) |-> WeightUpTo(activeRoundId, a, t)])
    <3>1. t \in Nat /\ Horizon = t
      BY <2>0 DEF Horizon
    <3>2. \A a \in Accounts : eligibilityStart[activeRoundId][a] <= t
      BY <2>0, StartsBy
    <3> HIDE DEF t
    <3>3. /\ \A a \in Members(activeRoundId) : WeightUpTo(activeRoundId, a, t) \in Nat
          /\ Sum([a \in Members(activeRoundId) |-> WeightUpTo(activeRoundId, a, t)])
               = Sum(WeightsOf(observations, eligibilityStart[activeRoundId], t))
      BY <2>0, <3>1, <3>2, MemberWeights
    <3>4. AccruedTo(A, t) = Sum(WeightsOf(observations, eligibilityStart[activeRoundId], t))
      BY <3>1 DEF WeightInv
    <3>5. AccrueEligible(A, t).eligibleCumulative = AccruedTo(A, t)
      <4> HIDE DEF A
      <4> DEFINE c == A.eligibleCumulative + A.eligibleBalance * (t - A.eligibleTimestamp)
      <4>1. AccrueEligible(A, t) = [A EXCEPT !.eligibleCumulative = c, !.eligibleTimestamp = t]
        BY DEF AccrueEligible
      <4> HIDE DEF c
      <4>2. AccrueEligible(A, t).eligibleCumulative = c
        BY <2>0, <4>1 DEF Round
      <4> QED BY <4>2 DEF c, AccruedTo
    <3>6. \A a \in Members(activeRoundId) : WeightUpTo(activeRoundId, a, t) >= 0
      BY <3>3
    <3> QED BY <3>3, <3>4, <3>5, <3>6
  <2> QED BY <2>1, <2>2, <2>3 DEF WeightsReconcile
<1> QED BY <1>1, VaultShapeInvariant, WeightInvariant, PTL

\* The preferences s after setAutoSavePreference at time u.
WithPreference(s, u, autoSave) ==
  LET entry == [timestamp |-> u, autoSave |-> autoSave]
  IN  IF s # <<>> /\ Last(s).timestamp = u
      THEN [s EXCEPT ![Len(s)] = entry] ELSE Append(s, entry)

\* A preference set at time u does not count at any time up to u.
LEMMA PreferenceFrozen ==
  ASSUME NEW s \in Seq(Preference), NEW u \in Nat, InOrder(s, u), NEW autoSave \in BOOLEAN,
         NEW t \in Nat, t <= u
  PROVE  PreferenceAt(WithPreference(s, u, autoSave), t) = PreferenceAt(s, t)
<1> DEFINE q == WithPreference(s, u, autoSave)
           entry == [timestamp |-> u, autoSave |-> autoSave]
           n == Len(s)
<1>1. entry \in Preference /\ entry.timestamp = u
  BY DEF Preference
<1>2. n \in Nat /\ DOMAIN s = 1..n /\ (\A i \in 1..n : s[i] \in Preference)
      /\ (s # <<>> => n >= 1) /\ (s = <<>> => n = 0)
  OBVIOUS
<1>3. /\ \A x \in Preference : x.timestamp \in Nat
      /\ \A i \in 1..n : s[i].timestamp <= u
  BY <1>2 DEF Preference, InOrder
<1>0. q = IF s # <<>> /\ Last(s).timestamp = u THEN [s EXCEPT ![n] = entry] ELSE Append(s, entry)
  BY DEF WithPreference
<1> SUFFICES PreferenceAt(q, t) = PreferenceAt(s, t)
  OBVIOUS
<1> HIDE DEF entry, q
<1>4. CASE s = <<>>
  <2>1. q = Append(s, entry)
    BY <1>0, <1>4
  <2>2. q # <<>> /\ q[1] = entry
    BY <1>4, <2>1
  <2>3. PreferenceAt(q, t) = FALSE
    BY <1>1, <2>2 DEF PreferenceAt
  <2> QED BY <1>4, <2>3 DEF PreferenceAt
<1>5. CASE s # <<>>
  <2>1. /\ q \in Seq(Preference) /\ q # <<>> /\ DOMAIN q \subseteq Nat /\ DOMAIN s \subseteq DOMAIN q
        /\ \A i \in DOMAIN q : q[i].timestamp = u \/ (i \in DOMAIN s /\ q[i] = s[i])
        /\ \A i \in DOMAIN s : s[i].timestamp < u => q[i] = s[i]
        /\ \A i \in DOMAIN s : q[i].timestamp = s[i].timestamp
    <3>1. CASE Last(s).timestamp = u
      <4>1. q = [s EXCEPT ![n] = entry]
        BY <1>0, <1>5, <3>1
      <4>2. s[n].timestamp = u /\ n \in 1..n
        BY <1>2, <1>5, <3>1 DEF Last
      <4>3. q \in Seq(Preference) /\ DOMAIN q = 1..n
        BY <1>1, <1>2, <4>1, <4>2
      <4>4. q[n] = entry /\ \A i \in 1..n : i # n => q[i] = s[i]
        BY <1>2, <4>1, <4>2
      <4>5. q # <<>>
        <5> HIDE DEF n
        <5> QED BY <4>2, <4>3
      <4>6. \A i \in 1..n : s[i].timestamp < u => i # n
        BY <4>2
      <4>7. 1..n \subseteq Nat
        BY <1>2
      <4> HIDE DEF n
      <4> QED BY <1>1, <1>2, <4>2, <4>3, <4>4, <4>5, <4>6, <4>7
    <3>2. CASE Last(s).timestamp # u
      <4>1. q = Append(s, entry)
        BY <1>0, <1>5, <3>2
      <4>2. q \in Seq(Preference) /\ DOMAIN q = 1..(n + 1) /\ q[n + 1] = entry
            /\ \A i \in 1..n : q[i] = s[i]
        <5>1. /\ Append(s, entry) \in Seq(Preference)
              /\ Len(Append(s, entry)) = n + 1
              /\ Append(s, entry)[n + 1] = entry
              /\ \A i \in 1..n : Append(s, entry)[i] = s[i]
          BY ONLY <1>1, <1>2, s \in Seq(Preference) DEF n
        <5> QED BY ONLY <1>2, <4>1, <5>1
      <4>3. q # <<>>
        <5>1. n + 1 \in 1..(n + 1)
          BY <1>2
        <5> HIDE DEF n
        <5> QED BY <4>2, <5>1
      <4>4. \A i \in 1..(n + 1) : i \in 1..n \/ i = n + 1
        BY <1>2
      <4>5. 1..n \subseteq 1..(n + 1) /\ 1..(n + 1) \subseteq Nat
        BY <1>2
      <4> HIDE DEF n
      <4> QED BY <1>1, <1>2, <4>2, <4>3, <4>4, <4>5
    <3> QED BY <3>1, <3>2
  <2>2. 1 \in DOMAIN s /\ s[1].timestamp \in Nat /\ q[1].timestamp = s[1].timestamp
    BY <1>2, <1>3, <1>5, <2>1
  <2>3. CASE t <= s[1].timestamp
    BY <1>5, <2>1, <2>2, <2>3 DEF PreferenceAt
  <2>4. CASE s[1].timestamp < t
    <3> DEFINE v == t - 1
    <3>1. v \in Nat /\ s[1].timestamp <= v /\ v < u
      BY <2>2, <2>4
    <3> HIDE DEF v
    <3>2. PICK i \in DOMAIN s : /\ s[i].timestamp <= v
                                /\ \A j \in DOMAIN s : j > i => s[j].timestamp > v
      BY <1>3, <1>5, <3>1, LatestExists
    <3>3. DOMAIN s \subseteq Nat /\ \A j \in DOMAIN s : s[j].timestamp \in Nat
      BY <1>2, <1>3
    <3>4. LatestAt(s, v) = i
      BY <3>1, <3>2, <3>3, LatestIs
    <3>5. s[i].timestamp < u /\ q[i] = s[i] /\ i \in DOMAIN q
      BY <2>1, <3>1, <3>2, <3>3
    <3>6. \A j \in DOMAIN q : q[j].timestamp \in Nat
      BY <1>3, <2>1, <3>3
    <3>7. \A j \in DOMAIN q : j > i => q[j].timestamp > v
      BY <2>1, <3>1, <3>2
    <3>8. LatestAt(q, v) = i
      BY <2>1, <3>1, <3>2, <3>5, <3>6, <3>7, LatestIs
    <3>9. ~(t <= s[1].timestamp)
      BY <2>2, <2>4
    <3>10. ~(t <= q[1].timestamp)
      BY <2>2, <3>9
    <3>11. PreferenceAt(s, t) = s[LatestAt(s, t - 1)].autoSave
      BY <1>5, <3>9 DEF PreferenceAt
    <3>12. PreferenceAt(q, t) = q[LatestAt(q, t - 1)].autoSave
      BY <2>1, <3>10 DEF PreferenceAt
    <3> QED BY ONLY <3>4, <3>5, <3>8, <3>11, <3>12 DEF v
  <2> QED BY <2>2, <2>3, <2>4
<1> QED BY <1>4, <1>5

\* Once the time of a round is over, its participants, their starts and its
\* closing time stay as they are.
LEMMA ClosedRoundKept ==
  ASSUME VaultShape, [Next]_vars, NEW r \in RoundIds,
         round[r].state # "UNINITIALIZED", round[r].closesAt <= now
  PROVE  /\ r <= activeRoundId
         /\ round'[r].closesAt = round[r].closesAt
         /\ participants'[r] = participants[r]
         /\ eligibilityStart'[r] = eligibilityStart[r]
<1>1. /\ now \in Nat /\ activeRoundId \in RoundIds /\ activeRoundId \in Nat /\ r \in Nat
      /\ round[r].closesAt \in Nat
  BY ShapeTypes, RoundFields, Configured
<1>2. r <= activeRoundId
  <2>1. ~(r > activeRoundId)
    BY DEF VaultShape, RoundsInOrder, UninitializedRound
  <2> QED BY <1>1, <2>1
<1>3. CASE Tick \/ UserStep \/ UNCHANGED vars
  <2>1. round'[r].closesAt = round[r].closesAt
    BY <1>3, UserRecords DEF SameRecord
  <2>2. CASE r # activeRoundId
    BY <1>2, <1>3, <2>1, <2>2, UserRecords
  <2>3. CASE r = activeRoundId
    <3>1. ~IsActiveRoundOpen
      BY <1>1, <2>3 DEF IsActiveRoundOpen
    <3>2. ~RegistrationStep
      BY <3>1 DEF RegistrationStep, RegisterParticipant
    <3>3. UNCHANGED <<participants, eligibilityStart>>
      BY <1>3, <3>2 DEF Tick, UserStep, BalanceStep, Deposit, Withdraw, PrizeStep,
         ContributeSponsor, HarvestStrategyYield, WinningsStep, WithdrawWinnings, PreferenceStep,
         SetAutoSavePreference, EscrowPayout, vars, vaultVars, roundVars
    <3> QED BY <1>2, <2>1, <3>3
  <2> QED BY <2>2, <2>3
<1>4. CASE CloseRound
  <2>1. /\ r # activeRoundId + 1
        /\ round'[activeRoundId].closesAt = round[activeRoundId].closesAt
        /\ \A s \in RoundIds : s # activeRoundId /\ s # activeRoundId + 1 => round'[s] = round[s]
        /\ UNCHANGED <<participants, eligibilityStart>>
    BY <1>1, <1>2, <1>4, CloseRecords
  <2> QED BY <1>2, <2>1
<1>5. ASSUME NEW s \in RoundIds, SettlementStep(s)
      PROVE  /\ round'[r].closesAt = round[r].closesAt
             /\ UNCHANGED <<participants, eligibilityStart>>
  <2>1. UNCHANGED <<participants, eligibilityStart>>
    BY <1>5, SettlementRecords
  <2>2. CASE r = s
    BY <1>5, <2>1, <2>2, SettlementKeeps
  <2>3. CASE r # s
    <3>1. SameRecord(round[r], round'[r])
      BY <1>5, <2>3, SettlementRecords
    <3> QED BY <2>1, <3>1 DEF SameRecord
  <2> QED BY <2>2, <2>3
<1> QED BY <1>2, <1>3, <1>4, <1>5 DEF Next

\* So the weights it will be settled with stay as they are.
LEMMA RoundWeightKept ==
  ASSUME VaultShape, [Next]_vars, NEW r \in RoundIds, NEW a \in Accounts,
         round[r].state # "UNINITIALIZED", round[r].closesAt <= now
  PROVE  RoundWeight(r, a)' = RoundWeight(r, a)
<1>1. /\ round'[r].closesAt = round[r].closesAt
      /\ eligibilityStart'[r] = eligibilityStart[r]
  BY ClosedRoundKept
<1>2. /\ eligibilityStart[r][a] \in Nat /\ eligibilityStart[r][a] <= now
      /\ round[r].closesAt \in Nat
  BY ShapeTypes, RoundFields, StartsBy
<1>3. /\ CumulativeAt(observations'[a], round[r].closesAt)
           = CumulativeAt(observations[a], round[r].closesAt)
      /\ CumulativeAt(observations'[a], eligibilityStart[r][a])
           = CumulativeAt(observations[a], eligibilityStart[r][a])
  BY <1>2, ObservationsFrozen
<1> QED BY <1>1, <1>3 DEF RoundWeight

\* No step changes a preference as it was at any time up to now.
LEMMA PreferencesKept ==
  ASSUME VaultShape, [Next]_vars, NEW a \in Accounts, NEW t \in Nat, t <= now
  PROVE  PreferenceAt(preferenceObservations'[a], t) = PreferenceAt(preferenceObservations[a], t)
<1>1. CASE PreferenceStep
  <2>1. PICK w \in Savers, autoSave \in BOOLEAN : SetAutoSavePreference(w, autoSave)
    BY <1>1 DEF PreferenceStep
  <2> DEFINE s == preferenceObservations[w]
             q == preferenceObservations'[w]
  <2>2. preferenceObservations \in [Accounts -> Seq(Preference)] /\ w \in Accounts /\ now \in Nat
    BY ShapeTypes, Configured
  <2>3. /\ q = WithPreference(s, now, autoSave)
        /\ \A b \in Accounts : b # w => preferenceObservations'[b] = preferenceObservations[b]
    BY <2>1, <2>2 DEF SetAutoSavePreference, WithPreference
  <2>4. s \in Seq(Preference) /\ InOrder(s, now)
    BY <2>2 DEF VaultShape, Preferences
  <2>5. PreferenceAt(q, t) = PreferenceAt(s, t)
    <3>1. autoSave \in BOOLEAN /\ t \in Nat /\ t <= now
      OBVIOUS
    <3>2. q = WithPreference(s, now, autoSave) /\ now \in Nat
      BY <2>2, <2>3
    <3> HIDE DEF s, q
    <3> QED BY ONLY <2>4, <3>1, <3>2, PreferenceFrozen
  <2> QED BY <2>3, <2>5
<1>2. CASE ~PreferenceStep
  <2>1. CASE Tick \/ CloseRound \/ UNCHANGED vars
    BY <2>1 DEF Tick, CloseRound, vars, vaultVars
  <2>2. CASE UserStep
    BY <1>2, <2>2 DEF UserStep, BalanceStep, Deposit, Withdraw, RegistrationStep,
       RegisterParticipant, PrizeStep, ContributeSponsor, HarvestStrategyYield, WinningsStep,
       WithdrawWinnings, EscrowPayout, vaultVars
  <2>3. CASE \E r \in RoundIds : SettlementStep(r)
    BY <2>3, SettlementRecords
  <2> QED BY <2>1, <2>2, <2>3 DEF Next
<1> QED BY <1>1, <1>2

\* What a round is settled with is fixed when its time is over, although
\* closeRound, the passes over the participants and the allocation come later
\* and savers go on depositing, withdrawing and changing their preference.
THEOREM HistoryIsFrozen == Spec => HistoryFrozen
<1>1. VaultShape /\ [Next]_vars =>
        [\A r \in RoundIds :
           (round[r].state # "UNINITIALIZED" /\ now >= round[r].closesAt) =>
             \A a \in Members(r) :
               /\ RoundWeight(r, a)' = RoundWeight(r, a)
               /\ PreferenceAt(preferenceObservations'[a], round[r].closesAt)
                    = PreferenceAt(preferenceObservations[a], round[r].closesAt)]_vars
  <2> SUFFICES ASSUME VaultShape, [Next]_vars, NEW r \in RoundIds,
                      round[r].state # "UNINITIALIZED", now >= round[r].closesAt,
                      NEW a \in Members(r)
               PROVE  /\ RoundWeight(r, a)' = RoundWeight(r, a)
                      /\ PreferenceAt(preferenceObservations'[a], round[r].closesAt)
                           = PreferenceAt(preferenceObservations[a], round[r].closesAt)
    OBVIOUS
  <2>1. a \in Accounts /\ round[r].closesAt \in Nat /\ now \in Nat
    BY ShapeTypes, RoundFields DEF Members
  <2>2. round[r].closesAt <= now
    BY <2>1
  <2> QED BY <2>1, <2>2, RoundWeightKept, PreferencesKept
<1> QED BY <1>1, VaultShapeInvariant, PTL DEF Spec, HistoryFrozen

-----------------------------------------------------------------------------
(* The intervals of the aggregate. *)

\* A prefix is a number, and the last one is the sum of all weights.
LEMMA PrefixType ==
  ASSUME NEW n \in Nat, NEW w \in [1..n -> Nat]
  PROVE  /\ IsFiniteSet(1..n)
         /\ \A i, k \in Nat : /\ Between(w, i, k) \in [1..n -> Nat]
                              /\ Sum(Between(w, i, k)) \in Nat
         /\ \A k \in Nat : Prefix(w, k) \in Nat
         /\ Prefix(w, 0) = 0
         /\ Prefix(w, n) = Sum(w)
<1>1. IsFiniteSet(1..n)
  BY FS_Interval
<1>2. ASSUME NEW i \in Nat, NEW k \in Nat
      PROVE  Between(w, i, k) \in [1..n -> Nat] /\ Sum(Between(w, i, k)) \in Nat
  <2>1. Between(w, i, k) \in [1..n -> Nat]
    BY DEF Between
  <2> HIDE DEF Between
  <2> QED BY <1>1, <2>1, SumType
<1>3. ASSUME NEW k \in Nat PROVE Prefix(w, k) \in Nat
  BY <1>2 DEF Prefix
<1>4. Prefix(w, 0) = 0
  <2>1. \A j \in 1..n : Between(w, 0, 0)[j] = 0
    BY DEF Between
  <2>2. Between(w, 0, 0) \in [1..n -> Nat]
    BY <1>2
  <2>3. Sum(Between(w, 0, 0)) = 0
    BY ONLY <2>1, <2>2, SumZero
  <2> QED BY <2>3 DEF Prefix
<1>5. Prefix(w, n) = Sum(w)
  <2>1. Between(w, 0, n) = w
    BY DEF Between
  <2> QED BY <2>1 DEF Prefix
<1> QED BY <1>1, <1>2, <1>3, <1>4, <1>5

\* Intervals follow one another.
LEMMA PrefixTo ==
  ASSUME NEW n \in Nat, NEW w \in [1..n -> Nat], NEW i \in Nat, NEW k \in Nat, i <= k
  PROVE  Prefix(w, k) = Prefix(w, i) + Sum(Between(w, i, k)) /\ Prefix(w, i) <= Prefix(w, k)
<1> DEFINE f == Between(w, 0, i)
           g == Between(w, i, k)
           h == Between(w, 0, k)
<1>1. /\ IsFiniteSet(1..n) /\ f \in [1..n -> Nat] /\ g \in [1..n -> Nat] /\ h \in [1..n -> Nat]
      /\ Sum(f) \in Nat /\ Sum(g) \in Nat /\ Sum(h) \in Nat
  <2>1. 0 \in Nat
    OBVIOUS
  <2> QED BY <2>1, PrefixType
<1>2. \A j \in 1..n : h[j] = f[j] + g[j]
  BY DEF Between
<1> HIDE DEF f, g, h
<1>3. h = [j \in 1..n |-> f[j] + g[j]]
  BY <1>1, <1>2
<1>4. Sum(h) = Sum(f) + Sum(g)
  BY <1>1, <1>3, SumAdd
<1> QED BY <1>1, <1>4 DEF Prefix, f, g, h

\* Each interval is as long as its participant's weight.
LEMMA PrefixNext ==
  ASSUME NEW n \in Nat, NEW w \in [1..n -> Nat], NEW i \in 1..n
  PROVE  Prefix(w, i) = Prefix(w, i - 1) + w[i] /\ w[i] \in Nat
<1> DEFINE f == Between(w, 0, i - 1)
           h == Between(w, 0, i)
<1>1. IsFiniteSet(1..n) /\ f \in [1..n -> Nat] /\ h \in [1..n -> Nat]
  <2>1. 0 \in Nat /\ i \in Nat /\ i - 1 \in Nat
    OBVIOUS
  <2> QED BY <2>1, PrefixType
<1>2. f[i] = 0 /\ h[i] = w[i] /\ \A j \in (1..n) \ {i} : h[j] = f[j]
  BY DEF Between
<1> HIDE DEF f, h
<1>3. Sum(h) = Sum(f) - f[i] + h[i] /\ Sum(f) \in Nat
  <2> DEFINE S == 1..n
  <2>1. /\ IsFiniteSet(S) /\ f \in [S -> Nat] /\ h \in [S -> Nat] /\ i \in S
        /\ \A j \in S \ {i} : h[j] = f[j]
    BY <1>1, <1>2
  <2> HIDE DEF S
  <2> QED BY ONLY <2>1, SumMove
<1>4. w[i] \in Nat
  OBVIOUS
<1>5. Sum(h) = Sum(f) + w[i]
  BY <1>2, <1>3, <1>4
<1> QED BY <1>4, <1>5 DEF Prefix, f, h

\* Every ticket below the aggregate lies in exactly one interval, and that
\* interval is not empty.
LEMMA OneHolder ==
  ASSUME NEW n \in Nat, NEW w \in [1..n -> Nat], NEW ticket \in Nat, ticket < Sum(w)
  PROVE  \E h \in 1..n : /\ Holds(w, h, ticket) /\ w[h] > 0
                         /\ \A i \in 1..n : Holds(w, i, ticket) => i = h
<1> DEFINE T == {k \in 0..n : ticket < Prefix(w, k)}
<1>1. /\ \A k \in Nat : Prefix(w, k) \in Nat
      /\ Prefix(w, 0) = 0 /\ Prefix(w, n) = Sum(w)
  BY PrefixType
<1>2. T \in SUBSET Nat /\ n \in T
  BY <1>1
<1>3. PICK h \in T : \A k \in T : h <= k
  <2> HIDE DEF T
  <2> QED BY <1>2, LeastNatural
<1>4. h \in 0..n /\ ticket < Prefix(w, h) /\ h # 0
  BY <1>1, <1>3
<1>5. h \in 1..n /\ h - 1 \in 0..n /\ h - 1 \in Nat /\ h - 1 < h
  BY <1>4
<1>6. h - 1 \notin T
  BY <1>3, <1>5
<1>7. Prefix(w, h - 1) <= ticket
  BY <1>1, <1>5, <1>6
<1>8. Holds(w, h, ticket)
  BY <1>4, <1>7 DEF Holds
<1>9. w[h] > 0
  <2>1. Prefix(w, h) = Prefix(w, h - 1) + w[h] /\ w[h] \in Nat
    BY <1>5, PrefixNext
  <2> QED BY <1>1, <1>4, <1>5, <1>7, <2>1
<1>10. ASSUME NEW i \in 1..n, Holds(w, i, ticket) PROVE i = h
  <2>1. Prefix(w, i - 1) <= ticket /\ ticket < Prefix(w, i)
    BY <1>10 DEF Holds
  <2>2. i \in Nat /\ i - 1 \in Nat /\ h \in Nat
    BY <1>5
  <2>3. CASE i < h
    <3>1. i <= h - 1
      BY <2>2, <2>3
    <3>2. Prefix(w, i) <= Prefix(w, h - 1)
      BY <1>5, <2>2, <3>1, PrefixTo
    <3> QED BY <1>1, <1>5, <1>7, <2>1, <2>2, <3>2
  <2>4. CASE h < i
    <3>1. h <= i - 1
      BY <2>2, <2>4
    <3>2. Prefix(w, h) <= Prefix(w, i - 1)
      BY <2>2, <3>1, PrefixTo
    <3> QED BY <1>1, <1>4, <2>1, <2>2, <3>2
  <2> QED BY <2>2, <2>3, <2>4
<1> QED BY <1>5, <1>8, <1>9, <1>10

\* Summing these positions alone gives the same.
LEMMA ChunkSum ==
  ASSUME NEW n \in Nat, NEW w \in [1..n -> Nat], NEW i \in Nat, NEW k \in Nat
  PROVE  Sum(Chunk(w, i, k)) = Sum(Between(w, i, k))
<1> DEFINE f == Between(w, i, k)
           T == {j \in 1..n : i < j /\ j <= k}
           g == Chunk(w, i, k)
<1>1. /\ f \in [1..n -> Nat] /\ T \in SUBSET (1..n)
      /\ \A j \in (1..n) \ T : f[j] = 0
      /\ \A j \in T : f[j] = w[j]
  BY DEF Between
<1>2. g = [j \in T |-> w[j]]
  BY DEF Chunk
<1> HIDE DEF f, T, g
<1>3. Sum([j \in T |-> f[j]]) = Sum(f)
  BY <1>1, SumRestrict
<1>4. [j \in T |-> f[j]] = g
  BY <1>1, <1>2
<1> QED BY <1>3, <1>4 DEF f, g

-----------------------------------------------------------------------------
(* The passes of the selection. *)

\* The weights by position of a round that has been closed.
LEMMA PositionsOf ==
  ASSUME VaultShape, NEW r \in RoundIds, Closed(r)
  PROVE  /\ Len(participants[r]) \in Nat
         /\ DOMAIN participants[r] = 1..Len(participants[r])
         /\ round[r].participantCountSnapshot = Len(participants[r])
         /\ PositionWeights(r) \in [1..Len(participants[r]) -> Nat]
         /\ r < activeRoundId /\ round[r].closesAt <= now
<1> DEFINE s == participants[r]
<1>1. s \in Seq(Accounts)
  BY ShapeTypes
<1>2. Len(s) \in Nat /\ DOMAIN s = 1..Len(s)
  BY <1>1
<1>3. r < activeRoundId
  BY ClosedBefore DEF Closed
<1>4. round[r].participantCountSnapshot = Len(s) /\ round[r].closesAt <= now
  BY <1>3 DEF VaultShape, RoundsInOrder
<1>5. ASSUME NEW i \in DOMAIN s PROVE RoundWeight(r, s[i]) \in Nat
  <2> DEFINE a == s[i]
  <2>1. a \in Members(r) /\ a \in Accounts
    BY <1>1 DEF Members
  <2> HIDE DEF a
  <2>2. RoundWeight(r, a) \in Nat
    BY <2>1, WeightType
  <2> QED BY <2>2 DEF a
<1>6. PositionWeights(r) \in [DOMAIN s -> Nat]
  BY <1>5 DEF PositionWeights
<1> QED BY <1>2, <1>3, <1>4, <1>6

\* They add up to the aggregate the round was closed with.
LEMMA PositionSum ==
  ASSUME VaultShape, WeightInv, NEW r \in RoundIds, Closed(r)
  PROVE  Sum(PositionWeights(r)) = round[r].aggregateTwab
<1> DEFINE s == participants[r]
           D == DOMAIN s
           t == round[r].closesAt
           f == WeightsOf(observations, eligibilityStart[r], t)
<1>1. r < activeRoundId /\ Len(s) \in Nat /\ D = 1..Len(s) /\ t \in Nat
  BY PositionsOf, ShapeTypes, RoundFields
<1>2. round[r].aggregateTwab = Sum(f)
  BY <1>1 DEF WeightInv
<1>3. IsFiniteSet(D)
  <2> DEFINE n == Len(s)
  <2>1. n \in Int /\ 1 \in Int
    BY <1>1
  <2> HIDE DEF n
  <2>2. IsFiniteSet(1..n)
    BY ONLY <2>1, FS_Interval
  <2> QED BY <1>1, <2>2 DEF n
<1>4. s \in [D -> Accounts]
  <2>1. s \in Seq(Accounts)
    BY ShapeTypes
  <2> QED BY <2>1
<1>5. /\ \A i, j \in D : s[i] = s[j] => i = j
      /\ \A a \in Accounts : eligibilityStart[r][a] # 0 <=> a \in Members(r)
  BY DEF VaultShape, Registrations
<1>6. f \in [Accounts -> Nat]
  BY <1>1, StartsBy, WeightsType
<1>7. \A a \in Accounts : (\A i \in D : s[i] # a) => f[a] = 0
  BY <1>5 DEF Members, WeightsOf
<1>8. \A i \in D : f[s[i]] = RoundWeight(r, s[i])
  BY <1>4, <1>5 DEF Members, WeightsOf, RoundWeight
<1>9. PositionWeights(r) = [i \in D |-> f[s[i]]]
  <2> HIDE DEF f
  <2> QED BY <1>8 DEF PositionWeights
<1>10. Sum([i \in D |-> f[s[i]]]) = Sum(f)
  <2> HIDE DEF f, s, D
  <2> QED BY ONLY <1>3, <1>4, <1>5, <1>6, <1>7, SumReindex
<1> QED BY <1>2, <1>9, <1>10

\* A chunk of processSelection gives its participants the next intervals, and
\* finds the holder of the ticket exactly if it lies in one of them.
LEMMA SelectionScans ==
  ASSUME VaultShape, NEW r \in RoundIds, NEW n \in Nat, NEW p, ProcessSelection(r, n, p),
         Scanned(round[r], winnerPredicate[r], participants[r], PositionWeights(r)),
         Sum(PositionWeights(r)) = round[r].publicAggregateTwab
  PROVE  /\ Scanned(round'[r], winnerPredicate'[r], participants[r], PositionWeights(r))
         /\ round'[r].state \in {"RECONCILIATION_PENDING", "WINNER_PROCESSING"}
         /\ round'[r].publicAggregateTwab = round[r].publicAggregateTwab
         /\ round'[r].aggregateTwab = round[r].aggregateTwab
         /\ round'[r].state = "RECONCILIATION_PENDING" =>
              round'[r].reconciliationValid /\ round'[r].selectionCursor = Len(participants[r])
<1> DEFINE R == round[r]
           s == participants[r]
           N == Len(s)
           w == PositionWeights(r)
           c == R.selectionCursor
           t == R.acceptedTicket
           slice == Slice(R, c, n)
           m == Cardinality(slice)
           weight == [i \in slice |-> RoundWeight(r, s[i])]
           intervalStart(i) == R.selectionCumulative + Sum([j \in {j \in slice : j < i} |-> weight[j]])
           I == {i \in slice : /\ intervalStart(i) <= t
                               /\ t < intervalStart(i) + weight[i]
                               /\ weight[i] > 0}
           W == {s[i] : i \in I}
           cumulative == R.selectionCumulative + Sum(weight)
           count == R.encryptedWinnerCount + Cardinality(W)
           valid == c + m = R.participantCountSnapshot /\ cumulative = R.publicAggregateTwab
                      /\ count = 1
           state == IF c + m = R.participantCountSnapshot
                    THEN "RECONCILIATION_PENDING" ELSE "WINNER_PROCESSING"
           Q == [R EXCEPT !.selectionCursor = c + m, !.selectionCumulative = cumulative,
                          !.encryptedWinnerCount = count, !.reconciliationValid = valid,
                          !.state = state]
<1>1. /\ R.state \in {"TICKET_ACCEPTED", "WINNER_PROCESSING"}
      /\ OnlyRound(r, Q)
      /\ winnerPredicate' = [winnerPredicate EXCEPT ![r] = @ \cup W]
  BY DEF ProcessSelection
<1>2. /\ Closed(r) /\ R \in Round /\ round \in [RoundIds -> Round]
      /\ winnerPredicate \in [RoundIds -> SUBSET Accounts]
      /\ c \in Nat /\ t \in Nat /\ R.publicAggregateTwab \in Nat
  BY <1>1, ShapeTypes, RoundFields DEF Closed
<1>3. /\ N \in Nat /\ DOMAIN s = 1..N /\ R.participantCountSnapshot = N /\ w \in [1..N -> Nat]
  BY <1>2, PositionsOf
<1>4. c <= N /\ R.selectionCumulative = Prefix(w, c)
  BY DEF Scanned
<1>5. PICK h \in 1..N :
        /\ Holds(w, h, t) /\ w[h] > 0
        /\ \A i \in 1..N : Holds(w, i, t) => i = h
        /\ winnerPredicate[r] = IF h <= c THEN {s[h]} ELSE {}
        /\ R.encryptedWinnerCount = IF h <= c THEN 1 ELSE 0
  BY <1>3 DEF Scanned
<1>6. m \in Nat /\ c + m <= N /\ slice = (c + 1)..(c + m)
  BY <1>2, <1>3, <1>4, SliceFacts
<1>7. \A i \in 1..N : w[i] = RoundWeight(r, s[i])
  BY <1>3 DEF PositionWeights
<1> HIDE DEF m, slice, c, t, w, N
<1>8. /\ slice \subseteq 1..N
      /\ slice = {j \in 1..N : c < j /\ j <= c + m}
      /\ \A i \in slice : {j \in slice : j < i} = {j \in 1..N : c < j /\ j <= i - 1}
      /\ \A i \in slice : i - 1 \in Nat /\ c <= i - 1 /\ i \in 1..N
  BY <1>2, <1>3, <1>4, <1>6, SMTT(30)
<1>9. weight = [i \in slice |-> w[i]] /\ \A i \in slice : weight[i] = w[i]
  BY <1>7, <1>8
<1> HIDE DEF weight
<1>10. cumulative = Prefix(w, c + m)
  <2>1. Sum(weight) = Sum(Between(w, c, c + m))
    <3> DEFINE k == c + m
    <3>1. k \in Nat
      BY <1>2, <1>6
    <3>2. weight = Chunk(w, c, k)
      BY <1>3, <1>8, <1>9 DEF Chunk
    <3> HIDE DEF k
    <3>3. Sum(Chunk(w, c, k)) = Sum(Between(w, c, k))
      BY <1>2, <1>3, <3>1, ChunkSum
    <3> QED BY <3>2, <3>3 DEF k
  <2>2. Prefix(w, c + m) = Prefix(w, c) + Sum(Between(w, c, c + m))
    BY <1>2, <1>3, <1>6, PrefixTo
  <2> QED BY <1>4, <2>1, <2>2
<1>11. ASSUME NEW i \in slice PROVE intervalStart(i) = Prefix(w, i - 1)
  <2> DEFINE T == {j \in slice : j < i}
             g == [j \in T |-> weight[j]]
             k == i - 1
  <2>1. T = {j \in 1..N : c < j /\ j <= k} /\ k \in Nat /\ c <= k
    BY <1>8
  <2>2. \A j \in T : weight[j] = w[j]
    BY <1>9
  <2>3. intervalStart(i) = R.selectionCumulative + Sum(g)
    OBVIOUS
  <2>4. g = Chunk(w, c, k)
    <3>1. g = [j \in T |-> w[j]]
      <4> HIDE DEF T
      <4> QED BY <2>2
    <3> HIDE DEF g, k
    <3> QED BY <1>3, <2>1, <3>1 DEF Chunk
  <2> HIDE DEF g, k
  <2>5. Sum(Chunk(w, c, k)) = Sum(Between(w, c, k))
    BY <1>2, <1>3, <2>1, ChunkSum
  <2>6. Prefix(w, k) = Prefix(w, c) + Sum(Between(w, c, k))
    BY <1>2, <1>3, <2>1, PrefixTo
  <2> QED BY <1>4, <2>3, <2>4, <2>5, <2>6 DEF k
<1>12. ASSUME NEW i \in slice PROVE i \in I <=> i = h
  <2>1. Prefix(w, i) = Prefix(w, i - 1) + w[i] /\ i \in 1..N
    BY <1>3, <1>8, PrefixNext
  <2>2. i \in I <=> /\ Prefix(w, i - 1) <= t
                    /\ t < Prefix(w, i - 1) + w[i]
                    /\ w[i] > 0
    BY <1>9, <1>11
  <2>3. i \in I <=> Holds(w, i, t) /\ w[i] > 0
    BY <2>1, <2>2 DEF Holds
  <2> HIDE DEF I
  <2> QED BY <1>5, <2>1, <2>3
<1>13. I \subseteq slice
  OBVIOUS
<1> HIDE DEF I
<1>14. W = IF h \in slice THEN {s[h]} ELSE {}
  BY <1>12, <1>13
<1> HIDE DEF W
<1>15. Cardinality(W) = IF h \in slice THEN 1 ELSE 0
  BY <1>14, FS_Singleton, FS_EmptySet
<1>16. h \in slice <=> (c < h /\ h <= c + m)
  BY <1>8
<1>17. /\ winnerPredicate[r] \cup W = IF h <= c + m THEN {s[h]} ELSE {}
       /\ count = IF h <= c + m THEN 1 ELSE 0
  BY <1>2, <1>5, <1>6, <1>14, <1>15, <1>16
<1>18. /\ round'[r] = Q
       /\ winnerPredicate'[r] = winnerPredicate[r] \cup W
  <2> HIDE DEF Q
  <2> QED BY <1>1, <1>2 DEF OnlyRound
<1> HIDE DEF count, cumulative
<1>19. valid \in BOOLEAN
  OBVIOUS
<1> HIDE DEF valid, state
<1>20. /\ Q.selectionCursor = c + m /\ Q.selectionCumulative = cumulative
       /\ Q.encryptedWinnerCount = count /\ Q.reconciliationValid = valid /\ Q.state = state
       /\ Q.acceptedTicket = t /\ Q.publicAggregateTwab = R.publicAggregateTwab
       /\ Q.aggregateTwab = R.aggregateTwab
  <2> HIDE DEF R
  <2> QED BY <1>2 DEF Round, t
<1> HIDE DEF Q
<1>21. Scanned(Q, winnerPredicate[r] \cup W, s, w)
  BY <1>3, <1>5, <1>6, <1>10, <1>17, <1>20 DEF Scanned, N
<1>22. Q.state = "RECONCILIATION_PENDING" => Q.reconciliationValid /\ Q.selectionCursor = N
  <2> SUFFICES ASSUME Q.state = "RECONCILIATION_PENDING"
               PROVE  valid /\ c + m = N
    BY <1>20
  <2>1. c + m = N
    BY <1>3, <1>20 DEF state
  <2>2. cumulative = R.publicAggregateTwab
    <3>1. Prefix(w, N) = Sum(w)
      BY <1>3, PrefixType
    <3> QED BY <1>10, <2>1, <3>1 DEF w
  <2>3. count = 1
    BY <1>3, <1>17, <2>1
  <2> QED BY <1>3, <2>1, <2>2, <2>3 DEF valid
<1>23. Q.state \in {"RECONCILIATION_PENDING", "WINNER_PROCESSING"}
  BY <1>20 DEF state
<1> QED BY <1>18, <1>20, <1>21, <1>22, <1>23 DEF w, N

\* A record keeps its selection as long as its draw is left alone.
LEMMA SameSelection ==
  ASSUME NEW R, NEW Q, NEW W, NEW s, NEW w, SelectionOf(R, W, s, w), SameRecord(R, Q)
  PROVE  SelectionOf(Q, W, s, w)
BY DEF SelectionOf, Scanned, SameRecord

\* Before the first pass the selection does not depend on the participants.
LEMMA EarlySelection ==
  ASSUME NEW R, NEW W, NEW s, NEW w,
         R.state \in {"UNINITIALIZED", "OPEN", "AGGREGATE_PENDING"},
         R.selectionCursor = 0, R.selectionCumulative = 0, R.encryptedWinnerCount = 0, W = {}
  PROVE  SelectionOf(R, W, s, w)
BY DEF SelectionOf

\* The weights of a closed round stay as they are.
LEMMA PositionsKept ==
  ASSUME VaultShape, [Next]_vars, NEW r \in RoundIds, Closed(r)
  PROVE  participants'[r] = participants[r] /\ PositionWeights(r)' = PositionWeights(r)
<1>1. round[r].state # "UNINITIALIZED" /\ round[r].closesAt <= now
  BY PositionsOf DEF Closed
<1>2. participants'[r] = participants[r]
  BY <1>1, ClosedRoundKept
<1>3. ASSUME NEW i \in DOMAIN participants[r]
      PROVE  RoundWeight(r, participants[r][i])' = RoundWeight(r, participants[r][i])
  <2> DEFINE a == participants[r][i]
  <2>1. participants'[r][i] = a /\ a \in Accounts
    BY <1>2, ShapeTypes
  <2>2. \A b \in Accounts : RoundWeight(r, b)' = RoundWeight(r, b)
    BY <1>1, RoundWeightKept
  <2>3. RoundWeight(r, participants[r][i])' = RoundWeight(r, a)
    BY <2>1, <2>2 DEF RoundWeight
  <2> QED BY <2>3
<1> QED BY <1>2, <1>3 DEF PositionWeights

\* An accepted ticket lies below the aggregate, so the first pass starts with
\* a holder to be found.
LEMMA ScanStarts ==
  ASSUME VaultShape, WeightInv, TicketInv, NEW r \in RoundIds,
         round[r].state = "TICKET_ACCEPTED",
         SelectionOf(round[r], winnerPredicate[r], participants[r], PositionWeights(r))
  PROVE  Scanned(round[r], winnerPredicate[r], participants[r], PositionWeights(r))
<1> DEFINE R == round[r]
           s == participants[r]
           N == Len(s)
           w == PositionWeights(r)
           t == R.acceptedTicket
           agg == R.publicAggregateTwab
<1>1. /\ Closed(r) /\ R \in Round /\ t \in Nat /\ agg \in Nat /\ R.candidate \in Nat
  BY ShapeTypes, RoundFields DEF Closed
<1>2. /\ N \in Nat /\ DOMAIN s = 1..N /\ w \in [1..N -> Nat]
  BY <1>1, PositionsOf
<1>3. /\ R.selectionCursor = 0 /\ R.selectionCumulative = 0 /\ R.encryptedWinnerCount = 0
      /\ winnerPredicate[r] = {} /\ agg = R.aggregateTwab
  BY DEF SelectionOf
<1>4. agg = Sum(w)
  BY <1>1, <1>3, PositionSum
<1>5. t = R.candidate % agg /\ agg # 0
  BY DEF TicketInv, TicketOf
<1> HIDE DEF R, s, N, w, t, agg
<1>6. t < agg
  <2> DEFINE k == R.candidate
  <2>1. k \in Nat /\ agg \in Nat /\ agg > 0 /\ t = k % agg
    BY <1>1, <1>5
  <2> HIDE DEF k
  <2> QED BY <2>1
<1>7. PICK h \in 1..N : /\ Holds(w, h, t) /\ w[h] > 0
                        /\ \A i \in 1..N : Holds(w, i, t) => i = h
  BY <1>1, <1>2, <1>4, <1>6, OneHolder
<1>8. ~(h <= 0) /\ 0 <= N
  BY <1>2
<1>9. Prefix(w, 0) = 0
  BY <1>2, PrefixType
<1> QED BY <1>2, <1>3, <1>7, <1>8, <1>9 DEF Scanned, R, s, N, w, t

\* The settlement of a round keeps its own selection.
LEMMA SettlementSelection ==
  ASSUME VaultShape, WeightInv, TicketInv, NEW r \in RoundIds, SettlementStep(r),
         SelectionOf(round[r], winnerPredicate[r], participants[r], PositionWeights(r))
  PROVE  SelectionOf(round'[r], winnerPredicate'[r], participants[r], PositionWeights(r))
<1> DEFINE P == round[r]
           X == round'[r]
           W == winnerPredicate[r]
           s == participants[r]
           w == PositionWeights(r)
<1>0. P \in Round /\ round \in [RoundIds -> Round]
      /\ winnerPredicate \in [RoundIds -> SUBSET Accounts]
  BY ShapeTypes
<1>1. CASE FinalizeAggregate(r)
  <2>1. /\ P.state = "AGGREGATE_PENDING" /\ X.state \in {"EMPTY", "AGGREGATE_FINALIZED"}
        /\ X.publicAggregateTwab = X.aggregateTwab
        /\ X.selectionCursor = P.selectionCursor /\ X.selectionCumulative = P.selectionCumulative
        /\ X.encryptedWinnerCount = P.encryptedWinnerCount
        /\ winnerPredicate' = winnerPredicate
    BY <1>0, <1>1 DEF FinalizeAggregate, OnlyRound, Round
  <2> HIDE DEF X
  <2> QED BY <2>1 DEF SelectionOf, X
<1>2. CASE \/ \E c \in 0..(RANDOM_DOMAIN - 1) : GenerateRandomCandidate(r, c)
           \/ \E k \in 1..Len(validityProofs[r]) : FinalizeCandidateValidity(r, k)
  <2>1. /\ P.state \in {"AGGREGATE_FINALIZED", "CANDIDATE_REJECTED", "CANDIDATE_VALIDITY_PENDING"}
        /\ X.state \in {"TICKET_ACCEPTED", "CANDIDATE_REJECTED", "CANDIDATE_VALIDITY_PENDING"}
        /\ X.publicAggregateTwab = P.publicAggregateTwab /\ X.aggregateTwab = P.aggregateTwab
        /\ X.selectionCursor = P.selectionCursor /\ X.selectionCumulative = P.selectionCumulative
        /\ X.encryptedWinnerCount = P.encryptedWinnerCount
        /\ winnerPredicate' = winnerPredicate
    <3> DEFINE Drawn(x) == [P EXCEPT !.candidate = x]
               Accepted(Y, k) == [Y EXCEPT !.acceptedTicket = k, !.state = "TICKET_ACCEPTED"]
               Waiting(Y) == [Y EXCEPT !.state = "CANDIDATE_VALIDITY_PENDING"]
               Rejected(Y) == [Y EXCEPT !.state = "CANDIDATE_REJECTED"]
               Alike(Y) ==
                 /\ Y.publicAggregateTwab = P.publicAggregateTwab
                 /\ Y.aggregateTwab = P.aggregateTwab
                 /\ Y.selectionCursor = P.selectionCursor
                 /\ Y.selectionCumulative = P.selectionCumulative
                 /\ Y.encryptedWinnerCount = P.encryptedWinnerCount
    <3>1. /\ P.state \in {"AGGREGATE_FINALIZED", "CANDIDATE_REJECTED",
                          "CANDIDATE_VALIDITY_PENDING"}
          /\ winnerPredicate' = winnerPredicate
      BY <1>2 DEF GenerateRandomCandidate, DrawAllowed, FinalizeCandidateValidity
    <3>2. ASSUME NEW c, GenerateRandomCandidate(r, c)
          PROVE  \/ round' = [round EXCEPT ![r] = Accepted(Drawn(c), c % P.publicAggregateTwab)]
                 \/ round' = [round EXCEPT ![r] = Waiting(Drawn(c))]
      BY <3>2 DEF GenerateRandomCandidate, OnlyRound
    <3>3. ASSUME NEW k, FinalizeCandidateValidity(r, k)
          PROVE  \/ round' = [round EXCEPT
                                ![r] = Accepted(P, P.candidate % P.publicAggregateTwab)]
                 \/ round' = [round EXCEPT ![r] = Rejected(P)]
      BY <3>3 DEF FinalizeCandidateValidity, OnlyRound
    <3>4. \/ \E x, k : X = Accepted(Drawn(x), k)
          \/ \E x : X = Waiting(Drawn(x))
          \/ \E k : X = Accepted(P, k)
          \/ X = Rejected(P)
      <4> HIDE DEF Drawn, Accepted, Waiting, Rejected
      <4>1. \A Y : round' = [round EXCEPT ![r] = Y] => X = Y
        BY <1>0
      <4>2. CASE \E c \in 0..(RANDOM_DOMAIN - 1) : GenerateRandomCandidate(r, c)
        BY <3>2, <4>1, <4>2
      <4>3. CASE \E k \in 1..Len(validityProofs[r]) : FinalizeCandidateValidity(r, k)
        BY <3>3, <4>1, <4>3
      <4> QED BY <1>2, <4>2, <4>3
    <3> HIDE DEF X, P
    <3>5. \A x, k : Alike(Accepted(Drawn(x), k)) /\ Accepted(Drawn(x), k).state = "TICKET_ACCEPTED"
      BY <1>0 DEF Round
    <3>6. \A x : Alike(Waiting(Drawn(x)))
                 /\ Waiting(Drawn(x)).state = "CANDIDATE_VALIDITY_PENDING"
      BY <1>0 DEF Round
    <3>7. \A k : Alike(Accepted(P, k)) /\ Accepted(P, k).state = "TICKET_ACCEPTED"
      BY <1>0 DEF Round
    <3>8. Alike(Rejected(P)) /\ Rejected(P).state = "CANDIDATE_REJECTED"
      BY <1>0 DEF Round
    <3> HIDE DEF Drawn, Accepted, Waiting, Rejected
    <3> QED BY <3>1, <3>4, <3>5, <3>6, <3>7, <3>8
  <2> HIDE DEF X
  <2> QED BY <2>1 DEF SelectionOf, X
<1>3. CASE \E n \in 1..MAX_CHUNK, p \in Progressors : ProcessSelection(r, n, p)
  <2>0. \A n \in 1..MAX_CHUNK : n \in Nat
    BY Configured
  <2>1. PICK n \in Nat, p \in Progressors : ProcessSelection(r, n, p)
    BY <1>3, <2>0
  <2>2. P.state \in {"TICKET_ACCEPTED", "WINNER_PROCESSING"} /\ Closed(r)
    BY <2>1 DEF ProcessSelection, Closed
  <2>3. Scanned(P, W, s, w) /\ P.publicAggregateTwab = P.aggregateTwab
    <3>1. CASE P.state = "TICKET_ACCEPTED"
      BY <3>1, ScanStarts DEF SelectionOf
    <3>2. CASE P.state = "WINNER_PROCESSING"
      BY <3>2 DEF SelectionOf
    <3> QED BY <2>2, <3>1, <3>2
  <2>4. Sum(w) = P.publicAggregateTwab
    BY <2>2, <2>3, PositionSum
  <2>5. /\ Scanned(X, winnerPredicate'[r], s, w)
        /\ X.state \in {"RECONCILIATION_PENDING", "WINNER_PROCESSING"}
        /\ X.publicAggregateTwab = P.publicAggregateTwab /\ X.aggregateTwab = P.aggregateTwab
        /\ X.state = "RECONCILIATION_PENDING" =>
             X.reconciliationValid /\ X.selectionCursor = Len(s)
    BY <2>1, <2>3, <2>4, SelectionScans
  <2>6. X.state = "RECONCILIATION_PENDING" =>
          \E h \in DOMAIN s : winnerPredicate'[r] = {s[h]} /\ w[h] > 0
    <3> SUFFICES ASSUME X.state = "RECONCILIATION_PENDING"
                 PROVE  \E h \in DOMAIN s : winnerPredicate'[r] = {s[h]} /\ w[h] > 0
      OBVIOUS
    <3>1. PICK h \in DOMAIN s :
            w[h] > 0 /\ winnerPredicate'[r] = IF h <= X.selectionCursor THEN {s[h]} ELSE {}
      BY <2>5 DEF Scanned
    <3>2. h <= X.selectionCursor
      BY <2>2, <2>5, PositionsOf
    <3> QED BY <3>1, <3>2
  <2> HIDE DEF X, P, w, s
  <2> QED BY <2>3, <2>5, <2>6 DEF SelectionOf, X, w, s
<1>4. CASE \E valid \in BOOLEAN : FinalizeSelectionReconciliation(r, valid)
  <2>1. /\ P.state = "RECONCILIATION_PENDING"
        /\ X.state \in {"READY_TO_ALLOCATE", "RECONCILIATION_FAILED"}
        /\ X.publicAggregateTwab = P.publicAggregateTwab /\ X.aggregateTwab = P.aggregateTwab
        /\ X.reconciliationValid = P.reconciliationValid
        /\ winnerPredicate' = winnerPredicate
    BY <1>0, <1>4 DEF FinalizeSelectionReconciliation, OnlyRound, Round
  <2> HIDE DEF X
  <2> QED BY <2>1 DEF SelectionOf, X
<1>5. CASE \E n \in 1..MAX_CHUNK, p \in Progressors : ProcessAllocation(r, n, p)
  <2>0. \A n \in 1..MAX_CHUNK : n \in Nat
    BY Configured
  <2>1. PICK M \in SUBSET Members(r), a \in Accounts, prize \in Nat, d \in Nat, cursor \in Nat :
          AllocationStep(r, M, a, prize, d, cursor)
    BY <1>5, <2>0, AllocationIs
  <2>2. /\ P.state \in {"READY_TO_ALLOCATE", "ALLOCATION_PROCESSING"}
        /\ X.state \in {"ALLOCATION_PROCESSING", "WINNINGS_ALLOCATED"}
        /\ X.publicAggregateTwab = P.publicAggregateTwab /\ X.aggregateTwab = P.aggregateTwab
        /\ X.reconciliationValid = P.reconciliationValid
        /\ winnerPredicate' = winnerPredicate
    BY <1>0, <2>1 DEF AllocationStep, Round
  <2> HIDE DEF X
  <2> QED BY <2>2 DEF SelectionOf, X
<1>6. CASE FinalizeSettlement(r) \/ RecoverFailedReconciliation(r) \/ SettleEmptyRound(r)
  <2>1. /\ P.state \in {"WINNINGS_ALLOCATED", "RECONCILIATION_FAILED", "EMPTY"}
        /\ X.state = "SETTLED"
        /\ X.publicAggregateTwab = P.publicAggregateTwab /\ X.aggregateTwab = P.aggregateTwab
    BY <1>0, <1>6 DEF FinalizeSettlement, OnlyRound, RecoverFailedReconciliation,
       SettleEmptyRound, RollPrizeForward, Round
  <2> HIDE DEF X
  <2> QED BY <2>1 DEF SelectionOf, X
<1> QED BY <1>1, <1>2, <1>3, <1>4, <1>5, <1>6 DEF SettlementStep

\* Every step keeps the selections.
LEMMA SelectionInvStep ==
  ASSUME VaultShape, WeightInv, TicketInv, SelectionInv, [Next]_vars
  PROVE  SelectionInv'
<1>0. /\ \A r \in RoundIds :
           SelectionOf(round[r], winnerPredicate[r], participants[r], PositionWeights(r))
      /\ activeRoundId \in RoundIds /\ activeRoundId \in Nat /\ RoundIds \subseteq Nat
  BY ShapeTypes, Configured DEF SelectionInv
<1>1. ASSUME NEW r \in RoundIds, ~Closed(r), SameRecord(round[r], round'[r]),
             winnerPredicate'[r] = winnerPredicate[r]
      PROVE  SelectionOf(round'[r], winnerPredicate'[r], participants'[r], PositionWeights(r)')
  <2>1. round[r].state \in {"UNINITIALIZED", "OPEN"}
    BY <1>1 DEF Closed
  <2>2. /\ round[r].selectionCursor = 0 /\ round[r].selectionCumulative = 0
        /\ round[r].encryptedWinnerCount = 0 /\ winnerPredicate[r] = {}
    BY <1>0, <2>1 DEF SelectionOf
  <2> QED BY <1>1, <2>1, <2>2, EarlySelection DEF SameRecord
<1>2. ASSUME NEW r \in RoundIds, Closed(r), SameRecord(round[r], round'[r]),
             winnerPredicate'[r] = winnerPredicate[r]
      PROVE  SelectionOf(round'[r], winnerPredicate'[r], participants'[r], PositionWeights(r)')
  <2>1. participants'[r] = participants[r] /\ PositionWeights(r)' = PositionWeights(r)
    BY <1>2, PositionsKept
  <2>2. SelectionOf(round'[r], winnerPredicate[r], participants[r], PositionWeights(r))
    BY <1>0, <1>2, SameSelection
  <2> QED BY <1>2, <2>1, <2>2
<1>3. CASE Tick \/ UserStep \/ UNCHANGED vars
  BY <1>1, <1>2, <1>3, UserRecords DEF SelectionInv
<1>4. CASE CloseRound
  <2> DEFINE q == activeRoundId + 1
  <2>1. /\ q \in RoundIds /\ round[activeRoundId].state = "OPEN"
        /\ round[activeRoundId].closesAt \in Nat
        /\ round'[activeRoundId].state = "AGGREGATE_PENDING"
        /\ round'[activeRoundId].selectionCursor = round[activeRoundId].selectionCursor
        /\ round'[activeRoundId].selectionCumulative = round[activeRoundId].selectionCumulative
        /\ round'[activeRoundId].encryptedWinnerCount = round[activeRoundId].encryptedWinnerCount
        /\ round'[q] = InitializeRound(round[activeRoundId].closesAt)
        /\ \A s \in RoundIds : s # activeRoundId /\ s # q => round'[s] = round[s]
        /\ winnerPredicate' = winnerPredicate
    BY <1>4, CloseRecords, ShapeTypes, RoundFields
  <2>2. q > activeRoundId
    BY <1>0
  <2> HIDE DEF q
  <2>3. ASSUME NEW r \in RoundIds
        PROVE  SelectionOf(round'[r], winnerPredicate'[r], participants'[r], PositionWeights(r)')
    <3>1. CASE r = activeRoundId
      <4>1. /\ round[r].selectionCursor = 0 /\ round[r].selectionCumulative = 0
            /\ round[r].encryptedWinnerCount = 0 /\ winnerPredicate[r] = {}
        BY <1>0, <2>1, <3>1 DEF SelectionOf
      <4> QED BY <2>1, <3>1, <4>1, EarlySelection
    <3>2. CASE r = q
      <4>1. round[r].state = "UNINITIALIZED"
        <5>1. round[r] = UninitializedRound
          BY <2>1, <2>2, <3>2 DEF VaultShape, RoundsInOrder
        <5> QED BY <5>1 DEF UninitializedRound
      <4>2. winnerPredicate[r] = {}
        BY <1>0, <4>1 DEF SelectionOf
      <4>3. /\ round'[r].state = "OPEN" /\ round'[r].selectionCursor = 0
            /\ round'[r].selectionCumulative = 0 /\ round'[r].encryptedWinnerCount = 0
        BY <2>1, <3>2 DEF InitializeRound, UninitializedRound
      <4> QED BY <2>1, <4>2, <4>3, EarlySelection
    <3>3. CASE r # activeRoundId /\ r # q
      <4>1. SameRecord(round[r], round'[r]) /\ winnerPredicate'[r] = winnerPredicate[r]
        BY <2>1, <3>3 DEF SameRecord
      <4> QED BY <1>1, <1>2, <4>1
    <3> QED BY <3>1, <3>2, <3>3
  <2> QED BY <2>3 DEF SelectionInv
<1>5. ASSUME NEW r \in RoundIds, SettlementStep(r) PROVE SelectionInv'
  <2>1. ASSUME NEW s \in RoundIds, s # r
        PROVE  SelectionOf(round'[s], winnerPredicate'[s], participants'[s], PositionWeights(s)')
    <3>1. SameRecord(round[s], round'[s]) /\ winnerPredicate'[s] = winnerPredicate[s]
      BY <1>5, <2>1, SettlementRecords
    <3> QED BY <1>1, <1>2, <3>1
  <2>2. SelectionOf(round'[r], winnerPredicate'[r], participants[r], PositionWeights(r))
    BY <1>0, <1>5, SettlementSelection
  <2>3. participants'[r] = participants[r] /\ PositionWeights(r)' = PositionWeights(r)
    BY <1>5, SettlementRecords, PositionsKept
  <2> QED BY <2>1, <2>2, <2>3 DEF SelectionInv
<1> QED BY <1>3, <1>4, <1>5 DEF Next

\* The invariant of the selection.
THEOREM SelectionInvariant == Spec => []SelectionInv
<1>1. Init => SelectionInv
  <2> SUFFICES ASSUME Init, NEW r \in RoundIds
               PROVE  SelectionOf(round[r], winnerPredicate[r], participants[r], PositionWeights(r))
    BY DEF SelectionInv
  <2>1. /\ round[r].state \in {"OPEN", "UNINITIALIZED"} /\ round[r].selectionCursor = 0
        /\ round[r].selectionCumulative = 0 /\ round[r].encryptedWinnerCount = 0
        /\ winnerPredicate[r] = {}
    BY DEF Init, InitializeRound, UninitializedRound
  <2> QED BY <2>1, EarlySelection
<1>2. VaultShape /\ WeightInv /\ TicketInv /\ SelectionInv /\ [Next]_vars => SelectionInv'
  BY SelectionInvStep
<1> QED BY <1>1, <1>2, VaultShapeInvariant, WeightInvariant, TicketInvariant, PTL DEF Spec

\* The passes of processSelection, however they are cut into chunks, end with
\* exactly one winner, a participant of positive weight, and with a cumulative
\* that is the aggregate: recoverFailedReconciliation is never needed because
\* of the vault's own arithmetic.
THEOREM SelectionAlwaysReconciles == Spec => []SelectionReconciles
<1>1. VaultShape /\ SelectionInv => SelectionReconciles
  <2> SUFFICES ASSUME VaultShape, SelectionInv, NEW r \in RoundIds,
                      round[r].state \in {"RECONCILIATION_PENDING", "RECONCILIATION_FAILED",
                                          "READY_TO_ALLOCATE", "ALLOCATION_PROCESSING",
                                          "WINNINGS_ALLOCATED"}
               PROVE  /\ round[r].reconciliationValid
                      /\ Cardinality(winnerPredicate[r]) = 1
                      /\ \A a \in winnerPredicate[r] : a \in Members(r) /\ RoundWeight(r, a) > 0
    BY DEF SelectionReconciles
  <2> DEFINE s == participants[r]
             w == PositionWeights(r)
  <2>1. SelectionOf(round[r], winnerPredicate[r], s, w)
    BY DEF SelectionInv
  <2>2. round[r].reconciliationValid
    BY <2>1 DEF SelectionOf
  <2>3. PICK h \in DOMAIN s : winnerPredicate[r] = {s[h]} /\ w[h] > 0
    BY <2>1 DEF SelectionOf
  <2>4. w[h] = RoundWeight(r, s[h]) /\ s[h] \in Members(r)
    BY DEF PositionWeights, Members
  <2>5. Cardinality({s[h]}) = 1
    BY FS_Singleton
  <2> QED BY <2>2, <2>3, <2>4, <2>5
<1> QED BY <1>1, VaultShapeInvariant, SelectionInvariant, PTL
=============================================================================
