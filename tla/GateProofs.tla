----------------------------- MODULE GateProofs -----------------------------
(***************************************************************************)
(* Proofs about the stage gates, for any number of processes, nonces,      *)
(* polls and disturbances: what the questions to git before a send say of  *)
(* the repository it leaves from; printed evidence is true of the chain;   *)
(* and a live task is authorized, which rests on the matcher of debug      *)
(* selectors being right for every pattern and namespace.                  *)
(***************************************************************************)
EXTENDS StageGates, FiniteSetTheorems, NaturalsInduction, TLAPS

-----------------------------------------------------------------------------
(* The stage gates. *)

GateTx == [nonce : Int, target : Int,
           call : [name : {"deployCounter", "deployProbe", "increment", "initialize", "verify"}, value : Int, by : Int]]

\* What the tools of one operator sign.
TxShape(id) ==
  /\ id \in GateTx
  /\ IF id.call.name \in {"deployCounter", "deployProbe"} THEN id.target = NoTarget ELSE id.target \in GateAddresses
  /\ id.call.name = "increment" => id.call.value = 1
  /\ id.call.name = "initialize" => id.call.value \in {SG2_EXPECTED_VALUE, OtherValue}
  /\ id.call.name = "verify" => id.call.value = SG2_EXPECTED_VALUE

GateContract == [kind : {"none", "counter", "probe"}, operator : {"none", "operator", "somebody"},
                 first : Seq(GateTx), count : Nat, cipher : Int, verified : Int]

\* What a transaction that succeeded has left in its contract c.
Left(id, c) ==
  /\ id.call.name = "deployCounter" => c.kind = "counter"
  /\ id.call.name = "deployProbe" => c.kind = "probe"
  /\ id.call.name = "increment" => c.kind = "counter" /\ c.count >= 1 /\ (c.first = <<id>> \/ c.count >= 2)
  /\ id.call.name = "initialize" => c.kind = "probe" /\ c.cipher = id.call.value /\ c.first = <<id>>
  /\ id.call.name = "verify" => c.kind = "probe" /\ c.cipher = id.call.value /\ c.verified = id.call.value

Height == FirstNonce + Cardinality(Mined)

\* The chain: nonces are mined in order, the address of a nonce to come has no code, and a
\* transaction of a gate is in the pool or in a block once.
ChainInv ==
  /\ IsFiniteSet(txs)
  /\ txs \subseteq [id : GateTx, status : {"pooled", "dropped", "success", "reverted"}]
  /\ \A t \in txs : TxShape(t.id)
  /\ \A t, u \in txs : t.id = u.id /\ t.id.call.by # OtherTool => t = u
  /\ \A t \in Mined : t.id.nonce < Height
  /\ contracts \in [GateAddresses -> GateContract]
  /\ \A a \in GateAddresses : a >= Height => contracts[a] = NoCode
  /\ \A t \in txs : t.status = "success" => Place(t.id) \in GateAddresses /\ Left(t.id, contracts[Place(t.id)])

Succeeded(id) == \E t \in txs : t.id = id /\ t.status = "success"
SentBy(p, commit, tree, id) == \E b \in broadcasts : b.id = id /\ b.by = p /\ b.commit = commit /\ b.tree = tree

\* A counter that was written keeps its first writer.
Written(id, c) == c.kind = "counter" /\ c.count >= 1 /\ c.first = <<id>>

\* Evidence e of the transaction id.
EvidenceFor(e, id) ==
  /\ e.event \in Deployments \cup Targeted /\ e.by \in Procs
  /\ id \in GateTx /\ e.id = <<id>> /\ id.call = TaskCall(e.by, e.event) /\ Place(id) = e.address /\ e.address \in GateAddresses
  /\ e.event \in Deployments => id.nonce = e.address
  /\ Succeeded(id) /\ SentBy(e.by, e.commit, e.tree, id)
  /\ e.event = "sg1:probe" => Written(id, contracts[e.address])

EvidenceOK(e) == e.event \in Preflights \/ EvidenceFor(e, e.id[1])

\* Where a task is: it has not signed yet, it has signed, its transaction is sent, it has succeeded.
Unsigned == {"context", "commit", "tree", "chain", "target", "input", "nonce", "estimate", "fund"}
Decided == {"rechain", "restate", "sign"}
Signed == {"head", "headtree", "status", "broadcast"}
Successful == {"code", "finalchain", "conclude"}
Live == {"hardhat"} \cup Unsigned \cup Decided \cup Signed \cup {"poll"} \cup Successful

GateProcess == [pc : {"idle", "failed", "passed"} \cup Live, task : {"none"} \cup Sg1Tasks \cup Sg2Tasks,
                address : Int, selector : Selectors \cup {<<>>}, commit : Nat, tree : Nat, current : Nat,
                seen : Nat, sampled : Nat, torn : SUBSET {"opening", "check"}, nonce : Int, cost : Int,
                id : Seq(GateTx), polls : Nat,
                capability : [action : {"none"} \cup Sg2Tasks, consumed : BOOLEAN, revoked : BOOLEAN]]

Signature(p, q) == Transaction(q.nonce, TaskCall(p, q.task), IF q.task \in Targeted THEN q.address ELSE NoTarget)

\* What process p, in state q, has done and what came of it.
ProcessOK(p, q) ==
  /\ q.pc \in Live <=> q.task # "none"
  /\ q.task \in Targeted => q.address \in GateAddresses
  /\ q.pc \in Decided \cup Signed \cup {"poll"} \cup Successful => q.task \notin Preflights
  /\ q.pc \in Signed \cup {"poll"} \cup Successful => q.id = <<Signature(p, q)>>
  /\ q.pc \in {"poll"} \cup Successful => SentBy(p, q.commit, q.tree, Signature(p, q))
  /\ q.pc \in Successful => Succeeded(Signature(p, q)) /\ (q.task \in Deployments => q.address = q.nonce)
  /\ q.pc = "conclude" => q.task \in Targeted

\* What it is allowed to do.
Authorized(q) ==
  /\ \A namespace \in Forbidden : q.pc \in Live => ~ Speaks(q.selector, namespace)
  /\ q.pc = "hardhat" => q.task \in Sg2Tasks
  /\ q.task \in Sg2Tasks => q.capability = [action |-> q.task, consumed |-> q.pc # "hardhat", revoked |-> FALSE]

GateRepo ==
  /\ repo \in [commit : Nat, trees : Seq(Nat), dirty : BOOLEAN, moves : Nat, version : Nat]
  /\ repo.commit \in DOMAIN repo.trees

GateInv ==
  /\ GateRepo
  /\ ChainInv
  /\ \A e \in evidence : EvidenceOK(e)
  /\ proc \in [Procs -> GateProcess]
  /\ \A p \in Procs : ProcessOK(p, proc[p])
-----------------------------------------------------------------------------
LEMMA GateEnded ==
  ASSUME NEW p, NEW point \in {"failed", "passed"}
  PROVE  Ended(point) \in GateProcess /\ ProcessOK(p, Ended(point))
<1>1. Ended(point) = [Idle EXCEPT !.pc = point] BY DEF Ended
<1>2. <<>> \in Seq(GateTx) /\ NoTarget \in Int
  BY DEF NoTarget
<1>3. Idle \in GateProcess /\ Idle.task = "none"
  BY <1>2 DEF Idle, GateProcess, NoCapability
<1>5. Ended(point) \in GateProcess /\ Ended(point).pc = point /\ Ended(point).task = "none"
  BY <1>1, <1>3 DEF GateProcess
<1>4. ProcessOK(p, Ended(point))
  BY <1>5 DEF ProcessOK, Live, Unsigned, Decided, Signed, Successful, Targeted, Deployments, Preflights
<1> QED BY <1>4, <1>5

LEMMA GateIdle ==
  ASSUME NEW p
  PROVE  Idle \in GateProcess /\ ProcessOK(p, Idle)
<1>2. <<>> \in Seq(GateTx) /\ NoTarget \in Int
  BY DEF NoTarget
<1>3. Idle \in GateProcess
  BY <1>2 DEF Idle, GateProcess, NoCapability
<1>4. ProcessOK(p, Idle)
  BY DEF Idle, ProcessOK, Live, Unsigned, Decided, Signed, Successful, Targeted, Deployments, Preflights
<1> QED BY <1>3, <1>4

(* What was true of a task or of evidence stays true while transactions that succeeded stay, what was   *)
(* sent stays sent, and a counter keeps its first writer.                                                *)
LEMMA GateKeeps ==
  ASSUME \A t \in txs : t.status = "success" => t \in txs',
         broadcasts \subseteq broadcasts',
         \A id : \A a \in GateAddresses : Written(id, contracts[a]) => Written(id, contracts'[a])
  PROVE  /\ \A id : Succeeded(id) => Succeeded(id)'
         /\ \A p, commit, tree, id : SentBy(p, commit, tree, id) => SentBy(p, commit, tree, id)'
         /\ \A e : EvidenceOK(e) => EvidenceOK(e)'
         /\ \A p, q : ProcessOK(p, q) => ProcessOK(p, q)'
<1>1. \A id : Succeeded(id) => Succeeded(id)'
  BY DEF Succeeded
<1>2. \A p, commit, tree, id : SentBy(p, commit, tree, id) => SentBy(p, commit, tree, id)'
  BY DEF SentBy
<1>3. \A e : EvidenceOK(e) => EvidenceOK(e)'
  <2> SUFFICES ASSUME NEW e, EvidenceOK(e) PROVE EvidenceOK(e)' OBVIOUS
  <2>1. CASE e.event \in Preflights BY <2>1 DEF EvidenceOK
  <2>2. CASE EvidenceFor(e, e.id[1])
    <3>1. Succeeded(e.id[1])' /\ SentBy(e.by, e.commit, e.tree, e.id[1])' BY <2>2, <1>1, <1>2 DEF EvidenceFor
    <3>2. e.event = "sg1:probe" => Written(e.id[1], contracts'[e.address]) BY <2>2 DEF EvidenceFor
    <3> QED BY <2>2, <3>1, <3>2 DEF EvidenceOK, EvidenceFor, Place
  <2> QED BY <2>1, <2>2 DEF EvidenceOK
<1>4. \A p, q : ProcessOK(p, q) => ProcessOK(p, q)'
  <2> SUFFICES ASSUME NEW p, NEW q, ProcessOK(p, q) PROVE ProcessOK(p, q)' OBVIOUS
  <2>1. Succeeded(Signature(p, q)) => Succeeded(Signature(p, q))' BY <1>1 DEF Signature, Transaction, TaskCall
  <2>2. SentBy(p, q.commit, q.tree, Signature(p, q)) => SentBy(p, q.commit, q.tree, Signature(p, q))' BY <1>2
  <2> QED BY <2>1, <2>2 DEF ProcessOK
<1> QED BY <1>1, <1>2, <1>3, <1>4

LEMMA GateChainKept ==
  ASSUME ChainInv, UNCHANGED <<txs, contracts>>
  PROVE  ChainInv'
<1>1. Mined' = Mined BY DEF Mined
<1>2. Height' = Height BY <1>1 DEF Height
<1> QED BY <1>1, <1>2 DEF ChainInv

(* A task goes on. *)
LEMMA GateGoesOn ==
  ASSUME GateInv, NEW p \in Procs, NEW next, next \in GateProcess, ProcessOK(p, next),
         proc' = [proc EXCEPT ![p] = next], UNCHANGED World
  PROVE  GateInv'
<1> USE DEF World
<1>1. GateRepo' BY DEF GateInv, GateRepo
<1>2. ChainInv' BY GateChainKept DEF GateInv
<1>3. /\ \A e : EvidenceOK(e) => EvidenceOK(e)'
      /\ \A o, q : ProcessOK(o, q) => ProcessOK(o, q)'
  BY GateKeeps
<1>4. \A e \in evidence' : EvidenceOK(e)' BY <1>3 DEF GateInv
<1>5. proc' \in [Procs -> GateProcess] BY DEF GateInv
<1>6. \A o \in Procs : ProcessOK(o, proc'[o])
  BY DEF GateInv
<1>7. \A o \in Procs : ProcessOK(o, proc[o])'
  <2> SUFFICES ASSUME NEW o \in Procs PROVE ProcessOK(o, proc[o])' OBVIOUS
  <2>1. PICK q : q = proc'[o] OBVIOUS
  <2>2. ProcessOK(o, q) BY <2>1, <1>6
  <2>3. ProcessOK(o, q)' BY <2>2, <1>3
  <2> QED BY <2>1, <2>3
<1> QED BY <1>1, <1>2, <1>4, <1>5, <1>7 DEF GateInv

LEMMA GateStepKept ==
  ASSUME GateInv, NEW p \in Procs, NEW ok, NEW next, ok => next \in GateProcess /\ ProcessOK(p, next),
         Step(p, ok, next), UNCHANGED World
  PROVE  GateInv'
<1>1. CASE ok BY <1>1, GateGoesOn DEF Step
<1>2. CASE ~ ok BY <1>2, GateGoesOn, GateEnded DEF Step
<1> QED BY <1>1, <1>2

(* The chain with a transaction of which the status changes, or a new one. *)
LEMMA GateHeight ==
  ASSUME ChainInv
  PROVE  /\ IsFiniteSet(Mined) /\ Cardinality(Mined) \in Nat /\ Height \in Nat /\ Height >= 3
         /\ IsFiniteSet(Pooled) /\ Cardinality(Pooled) \in Nat /\ PendingNonce \in Nat
<1>1. Mined \subseteq txs /\ Pooled \subseteq txs BY DEF Mined, Pooled
<1>2. IsFiniteSet(Mined) /\ IsFiniteSet(Pooled) BY <1>1, FS_Subset DEF ChainInv
<1>3. Cardinality(Mined) \in Nat /\ Cardinality(Pooled) \in Nat BY <1>2, FS_CardinalityType
<1> QED BY <1>2, <1>3 DEF Height, FirstNonce, PendingNonce

LEMMA GateStatus ==
  ASSUME ChainInv, NEW id
  PROVE  /\ StatusOf(id) = "unknown" <=> ~ \E t \in txs : t.id = id
         /\ id.call.by # OtherTool => (StatusOf(id) = "success" <=> Succeeded(id))
<1>1. CASE ~ \E t \in txs : t.id = id BY <1>1 DEF StatusOf, Succeeded
<1>2. CASE \E t \in txs : t.id = id
  <2>1. PICK u : u = CHOOSE t \in txs : t.id = id OBVIOUS
  <2>2. u \in txs /\ u.id = id BY <2>1, <1>2
  <2>3. StatusOf(id) = u.status BY <1>2, <2>1 DEF StatusOf
  <2>4. u.status \in {"pooled", "dropped", "success", "reverted"} BY <2>2 DEF ChainInv
  <2>5. ASSUME id.call.by # OtherTool PROVE \A t \in txs : t.id = id => t = u BY <2>2, <2>5 DEF ChainInv
  <2> QED BY <1>2, <2>2, <2>3, <2>4, <2>5 DEF Succeeded
<1> QED BY <1>1, <1>2

(* The pool takes a new transaction in the place of its rivals. *)
LEMMA GatePoolGrows ==
  ASSUME ChainInv, NEW id, TxShape(id), id.call.by # OtherTool => ~ \E t \in txs : t.id = id,
         NEW rivals \in SUBSET Pooled,
         txs' = {IF t \in rivals THEN [t EXCEPT !.status = "dropped"] ELSE t : t \in txs}
                  \cup {[id |-> id, status |-> "pooled"]},
         UNCHANGED contracts
  PROVE  ChainInv' /\ \A t \in txs : t.status = "success" => t \in txs'
<1> DEFINE drop(t) == IF t \in rivals THEN [t EXCEPT !.status = "dropped"] ELSE t
           rest == {drop(t) : t \in txs}
           fresh == [id |-> id, status |-> "pooled"]
           Tx == [id : GateTx, status : {"pooled", "dropped", "success", "reverted"}]
<1>0. txs' = rest \cup {fresh} OBVIOUS
<1>1. \A t \in txs : t \in Tx /\ TxShape(t.id) BY DEF ChainInv
<1>2. \A t \in txs : drop(t) \in Tx /\ drop(t).id = t.id
  BY <1>1
<1>3. \A t \in txs : drop(t).status \in {"success", "reverted"} \/ t.status \in {"success", "reverted"} => drop(t) = t
  BY <1>1 DEF Pooled
<1>4. fresh \in Tx /\ fresh.id = id /\ fresh.status = "pooled" BY DEF TxShape
<1>5. IsFiniteSet(txs')
  <2> DEFINE f == [t \in txs |-> drop(t)]
  <2>1. f \in Surjection(txs, rest) BY DEF Surjection
  <2>2. IsFiniteSet(rest) BY <2>1, FS_Surjection DEF ChainInv
  <2> HIDE DEF rest, fresh
  <2>3. IsFiniteSet(rest \cup {fresh}) BY <2>2, FS_AddElement
  <2> QED BY <1>0, <2>3
<1>6. \A t \in txs' : t \in Tx /\ TxShape(t.id)
  BY <1>0, <1>1, <1>2, <1>4
<1>7. \A t, u \in txs' : t.id = u.id /\ t.id.call.by # OtherTool => t = u
  <2> SUFFICES ASSUME NEW t \in txs', NEW u \in txs', t.id = u.id, t.id.call.by # OtherTool PROVE t = u
    OBVIOUS
  <2>1. CASE t = fresh \/ u = fresh
    <3>1. id.call.by # OtherTool /\ t.id = id /\ u.id = id BY <2>1, <1>4
    <3> QED BY <3>1, <1>0, <1>2
  <2>2. CASE t # fresh /\ u # fresh
    <3>1. PICK x \in txs, y \in txs : t = drop(x) /\ u = drop(y) BY <2>2, <1>0
    <3>2. x.id = y.id /\ x.id.call.by # OtherTool BY <3>1, <1>2
    <3>3. x = y BY <3>2 DEF ChainInv
    <3> QED BY <3>1, <3>3
  <2> QED BY <2>1, <2>2
<1>8. Mined' = Mined
  <2> DEFINE Final(t) == t.status \in {"success", "reverted"}
  <2> HIDE DEF fresh, drop
  <2>1. \A t \in txs : Final(t) => t \in txs' BY <1>0, <1>3
  <2>2. \A t \in txs' : Final(t) => t \in txs BY <1>0, <1>3, <1>4
  <2> QED BY <2>1, <2>2 DEF Mined
<1>9. Height' = Height BY <1>8 DEF Height
<1>10. \A t \in txs' : t.status = "success" => t \in txs
  BY <1>0, <1>3, <1>4
<1>11. \A t \in txs : t.status = "success" => t \in txs'
  BY <1>0, <1>3
<1>12. ChainInv'
  BY <1>5, <1>6, <1>7, <1>8, <1>9, <1>10 DEF ChainInv
<1> QED BY <1>11, <1>12

LEMMA GateForget ==
  ASSUME ChainInv, NEW t \in txs, t.status = "pooled",
         txs' = (txs \ {t}) \cup {[t EXCEPT !.status = "dropped"]}, UNCHANGED contracts
  PROVE  ChainInv' /\ \A u \in txs : u.status = "success" => u \in txs'
<1> DEFINE Tx == [id : GateTx, status : {"pooled", "dropped", "success", "reverted"}]
<1>1. PICK d : d = [t EXCEPT !.status = "dropped"] OBVIOUS
<1>2. d \in Tx /\ d.id = t.id /\ d.status = "dropped" BY <1>1 DEF ChainInv
<1>3. txs' = (txs \ {t}) \cup {d} BY <1>1
<1>4. IsFiniteSet(txs')
  <2>1. IsFiniteSet(txs \ {t}) BY FS_RemoveElement DEF ChainInv
  <2>2. IsFiniteSet((txs \ {t}) \cup {d}) BY <2>1, FS_AddElement
  <2> QED BY <2>2, <1>3
<1>5. \A u \in txs' : u \in Tx /\ TxShape(u.id) BY <1>2, <1>3 DEF ChainInv
<1>6. \A u, v \in txs' : u.id = v.id /\ u.id.call.by # OtherTool => u = v
  BY <1>2, <1>3 DEF ChainInv
<1>7. Mined' = Mined BY <1>2, <1>3 DEF Mined
<1>8. Height' = Height BY <1>7 DEF Height
<1>9. \A u \in txs' : u.status = "success" => u \in txs BY <1>2, <1>3
<1> QED BY <1>3, <1>4, <1>5, <1>6, <1>7, <1>8, <1>9 DEF ChainInv

(* What a call that does not revert makes of its contract, and what it leaves of other calls. *)
LEMMA GateEffect ==
  ASSUME NEW id, TxShape(id), NEW c \in GateContract, ~ Reverts(id.call, c),
         id.call.name \in {"increment", "initialize", "verify"}
  PROVE  /\ c.kind # "none" /\ Effect(id, c) \in GateContract /\ Left(id, Effect(id, c))
         /\ \A x : TxShape(x) /\ Left(x, c) => Left(x, Effect(id, c))
         /\ \A x : Written(x, c) => Written(x, Effect(id, c))
<1>0. PICK d : d = Effect(id, c) OBVIOUS
<1>1. <<id>> \in Seq(GateTx) /\ id.call.value \in Int BY DEF TxShape, GateTx
<1>2. CASE id.call.name = "increment"
  <2>1. c.kind = "counter" /\ id.call.value = 1 BY <1>2 DEF Reverts, TxShape
  <2>2. Effect(id, c) = [c EXCEPT !.count = @ + id.call.value, !.first = IF c.count = 0 THEN <<id>> ELSE @]
    BY <1>2 DEF Effect
  <2>3. PICK first : first = IF c.count = 0 THEN <<id>> ELSE c.first OBVIOUS
  <2>4. c.count \in Nat /\ c.first \in Seq(GateTx) BY DEF GateContract
  <2>5. first \in Seq(GateTx) BY <1>1, <2>3, <2>4
  <2>6. /\ d \in GateContract /\ d.kind = "counter" /\ d.count = c.count + 1 /\ d.first = first
    <3>1. PICK n \in Nat : n = c.count + 1 BY <2>4
    <3>2. d = [c EXCEPT !.count = n, !.first = first] BY <1>0, <2>1, <2>2, <2>3, <3>1 DEF GateContract
    <3> QED BY <2>1, <2>5, <3>1, <3>2 DEF GateContract
  <2>7. Left(id, d) BY <1>2, <2>3, <2>4, <2>6 DEF Left
  <2>8. \A x : TxShape(x) /\ Left(x, c) => Left(x, d)
    <3> SUFFICES ASSUME NEW x, TxShape(x), Left(x, c) PROVE Left(x, d) OBVIOUS
    <3>1. x.call.name \notin {"deployProbe", "initialize", "verify"} BY <2>1 DEF Left
    <3>2. x.call.name = "increment" => c.count >= 1 /\ (c.first = <<x>> \/ c.count >= 2) BY DEF Left
    <3> QED BY <3>1, <3>2, <2>3, <2>4, <2>6 DEF Left
  <2>9. \A x : Written(x, c) => Written(x, d) BY <2>3, <2>4, <2>6 DEF Written
  <2> QED BY <1>0, <2>1, <2>6, <2>7, <2>8, <2>9
<1>3. CASE id.call.name = "initialize"
  <2>1. c.kind = "probe" /\ c.cipher = 0 /\ id.call.value # 0
    BY <1>3 DEF Reverts, TxShape, SG2_EXPECTED_VALUE, OtherValue
  <2>2. Effect(id, c) = [c EXCEPT !.cipher = id.call.value, !.first = <<id>>] BY <1>3 DEF Effect
  <2>3. /\ d \in GateContract /\ d.kind = "probe" /\ d.cipher = id.call.value /\ d.first = <<id>>
    BY <1>0, <1>1, <2>1, <2>2 DEF GateContract
  <2>4. Left(id, d) BY <1>3, <2>3 DEF Left
  <2>5. \A x : TxShape(x) /\ Left(x, c) => Left(x, d)
    BY <2>1, <2>3 DEF Left, TxShape, SG2_EXPECTED_VALUE, OtherValue
  <2>6. \A x : Written(x, c) => Written(x, d) BY <2>1 DEF Written
  <2> QED BY <1>0, <2>1, <2>3, <2>4, <2>5, <2>6
<1>4. CASE id.call.name = "verify"
  <2>1. c.kind = "probe" /\ c.cipher = id.call.value /\ id.call.value = SG2_EXPECTED_VALUE
    BY <1>4 DEF Reverts, TxShape
  <2>2. Effect(id, c) = [c EXCEPT !.verified = id.call.value] BY <1>4 DEF Effect
  <2>3. /\ d \in GateContract /\ d.kind = "probe" /\ d.cipher = c.cipher /\ d.first = c.first
        /\ d.verified = id.call.value
    BY <1>0, <1>1, <2>1, <2>2 DEF GateContract
  <2>4. Left(id, d) BY <1>4, <2>1, <2>3 DEF Left
  <2>5. \A x : TxShape(x) /\ Left(x, c) => Left(x, d)
    BY <2>1, <2>3 DEF Left, TxShape
  <2>6. \A x : Written(x, c) => Written(x, d) BY <2>1 DEF Written
  <2> QED BY <1>0, <2>1, <2>3, <2>4, <2>5, <2>6
<1> QED BY <1>2, <1>3, <1>4

LEMMA GateFresh ==
  ASSUME NEW kind \in {"counter", "probe"}
  PROVE  /\ FreshContract(kind, "operator") \in GateContract /\ FreshContract(kind, "operator").kind = kind
         /\ FreshContract(kind, "somebody") \in GateContract
         /\ NoCode \in GateContract /\ NoCode.kind = "none"
<1>1. <<>> \in Seq(GateTx) OBVIOUS
<1>2. NoCode \in GateContract /\ NoCode.kind = "none" BY <1>1 DEF NoCode, GateContract
<1>3. ASSUME NEW operator \in {"operator", "somebody"}
      PROVE  FreshContract(kind, operator) \in GateContract /\ FreshContract(kind, operator).kind = kind
  <2>1. FreshContract(kind, operator) = [NoCode EXCEPT !.kind = kind, !.operator = operator] BY DEF FreshContract
  <2> QED BY <2>1, <1>2 DEF GateContract
<1> QED BY <1>2, <1>3

LEMMA GateMine ==
  ASSUME ChainInv, NEW t \in txs, Mine(t)
  PROVE  /\ ChainInv'
         /\ \A u \in txs : u.status = "success" => u \in txs'
         /\ \A id : \A a \in GateAddresses : Written(id, contracts[a]) => Written(id, contracts'[a])
<1> DEFINE Tx == [id : GateTx, status : {"pooled", "dropped", "success", "reverted"}]
           at == IF t.id.target \in GateAddresses THEN contracts[t.id.target] ELSE NoCode
           reverts == Reverts(t.id.call, at)
<1>1. PICK d : d = [t EXCEPT !.status = IF reverts THEN "reverted" ELSE "success"] OBVIOUS
<1>2. /\ t.status = "pooled" /\ t.id.nonce = Height /\ t.id.nonce <= MaxGateNonce
      /\ txs' = (txs \ {t}) \cup {d}
      /\ contracts' = IF reverts THEN contracts ELSE [contracts EXCEPT ![Place(t.id)] = Effect(t.id, @)]
  BY <1>1 DEF Mine, Height
<1>3. /\ d \in Tx /\ d.id = t.id /\ d.status = (IF reverts THEN "reverted" ELSE "success") BY <1>1 DEF ChainInv
<1> HIDE DEF reverts
<1>4. IsFiniteSet(txs')
  <2>1. IsFiniteSet(txs \ {t}) BY FS_RemoveElement DEF ChainInv
  <2>2. IsFiniteSet((txs \ {t}) \cup {d}) BY <2>1, FS_AddElement
  <2> QED BY <2>2, <1>2
<1>5. \A u \in txs' : u \in Tx /\ TxShape(u.id) BY <1>2, <1>3 DEF ChainInv
<1>6. \A u, v \in txs' : u.id = v.id /\ u.id.call.by # OtherTool => u = v
  BY <1>2, <1>3 DEF ChainInv
<1>7. Mined' = Mined \cup {d} BY <1>2, <1>3 DEF Mined
<1>8. Height' = Height + 1 /\ Height \in Nat
  <2>1. d \notin Mined
    <3>1. d.id.nonce = Height BY <1>2, <1>3
    <3> QED BY <3>1, GateHeight DEF ChainInv
  <2>2. IsFiniteSet(Mined) /\ Cardinality(Mined) \in Nat /\ Height \in Nat BY GateHeight
  <2>3. Cardinality(Mined \cup {d}) = Cardinality(Mined) + 1 BY <2>1, <2>2, FS_AddElement
  <2>4. Cardinality(Mined') = Cardinality(Mined) + 1 BY <2>3, <1>7
  <2> QED BY <2>2, <2>4 DEF Height, FirstNonce
<1>9. \A u \in Mined' : u.id.nonce < Height'
  <2> SUFFICES ASSUME NEW u \in Mined' PROVE u.id.nonce < Height' OBVIOUS
  <2>1. u.id.nonce \in Int BY <1>5 DEF Mined, GateTx
  <2>2. CASE u = d BY <2>2, <1>2, <1>3, <1>8
  <2>3. CASE u \in Mined BY <2>1, <2>3, <1>8 DEF ChainInv
  <2> QED BY <2>2, <2>3, <1>7
<1>10. TxShape(t.id) /\ contracts \in [GateAddresses -> GateContract] BY DEF ChainInv
<1> DEFINE place == Place(t.id)
<1>11. ASSUME ~ reverts
       PROVE  /\ place \in GateAddresses /\ place <= Height
              /\ Effect(t.id, contracts[place]) \in GateContract
              /\ Left(t.id, Effect(t.id, contracts[place]))
              /\ \A x : TxShape(x) /\ Left(x, contracts[place]) => Left(x, Effect(t.id, contracts[place]))
              /\ \A x : Written(x, contracts[place]) => Written(x, Effect(t.id, contracts[place]))
  <2>1. CASE t.id.call.name \in {"deployCounter", "deployProbe"}
    <3>1. place = Height /\ Height \in GateAddresses
      BY <2>1, <1>2, <1>8, <1>10 DEF TxShape, Place, GateAddresses, NoTarget
    <3>2. contracts[place] = NoCode BY <3>1, <1>8 DEF ChainInv
    <3>3. \A x : TxShape(x) => ~ Left(x, NoCode) BY GateFresh DEF Left, TxShape, GateTx
    <3>4. \A x : ~ Written(x, NoCode) BY GateFresh DEF Written
    <3>5. CASE t.id.call.name = "deployCounter"
      <4>1. Effect(t.id, contracts[place]) = FreshContract("counter", "operator") BY <3>5 DEF Effect
      <4>2. Left(t.id, FreshContract("counter", "operator")) BY <3>5, GateFresh DEF Left
      <4> QED BY <3>1, <3>2, <3>3, <3>4, <4>1, <4>2, GateFresh, <1>8
    <3>6. CASE t.id.call.name = "deployProbe"
      <4>1. Effect(t.id, contracts[place]) = FreshContract("probe", "operator") BY <3>6 DEF Effect
      <4>2. Left(t.id, FreshContract("probe", "operator")) BY <3>6, GateFresh DEF Left
      <4> QED BY <3>1, <3>2, <3>3, <3>4, <4>1, <4>2, GateFresh, <1>8
    <3> QED BY <2>1, <3>5, <3>6
  <2>2. CASE t.id.call.name \in {"increment", "initialize", "verify"}
    <3>1. place = t.id.target /\ place \in GateAddresses
      BY <2>2, <1>10 DEF TxShape, Place, GateAddresses, NoTarget
    <3>2. ~ Reverts(t.id.call, contracts[place]) /\ contracts[place] \in GateContract
      BY <1>11, <3>1, <1>10 DEF reverts
    <3>3. contracts[place].kind # "none" BY <2>2, <3>2, <1>10, GateEffect
    <3>4. ~ (place >= Height) BY <3>1, <3>3, GateFresh DEF ChainInv
    <3>5. place <= Height BY <3>1, <3>4, <1>8 DEF GateAddresses
    <3> QED BY <2>2, <3>1, <3>2, <3>5, <1>10, GateEffect
  <2> QED BY <2>1, <2>2, <1>10 DEF TxShape, GateTx
<1>12. contracts' \in [GateAddresses -> GateContract]
  BY <1>2, <1>10, <1>11
<1>13. \A a \in GateAddresses : a >= Height' => contracts'[a] = NoCode
  <2> SUFFICES ASSUME NEW a \in GateAddresses, a >= Height' PROVE contracts'[a] = NoCode OBVIOUS
  <2>0. a \in Int BY DEF GateAddresses
  <2>1. a >= Height /\ a # Height BY <2>0, <1>8
  <2>2. contracts[a] = NoCode BY <2>1 DEF ChainInv
  <2>3. ~ reverts => a # place
    <3> SUFFICES ASSUME ~ reverts, a = place PROVE FALSE OBVIOUS
    <3> HIDE DEF place
    <3>1. place <= Height BY <1>11
    <3> QED BY <3>1, <2>0, <2>1, <1>8
  <2> QED BY <2>2, <2>3, <1>2, <1>10
<1>14. \A u \in txs' : u.status = "success" => Place(u.id) \in GateAddresses /\ Left(u.id, contracts'[Place(u.id)])
  <2> SUFFICES ASSUME NEW u \in txs', u.status = "success"
               PROVE  Place(u.id) \in GateAddresses /\ Left(u.id, contracts'[Place(u.id)])
    OBVIOUS
  <2>1. CASE u = d
    <3>1. ~ reverts /\ u.id = t.id BY <2>1, <1>3
    <3> QED BY <3>1, <1>2, <1>10, <1>11
  <2>2. CASE u \in txs
    <3>1. Place(u.id) \in GateAddresses /\ Left(u.id, contracts[Place(u.id)]) /\ TxShape(u.id)
      BY <2>2 DEF ChainInv
    <3>2. CASE reverts BY <3>1, <3>2, <1>2
    <3>3. CASE ~ reverts
      <4>1. CASE Place(u.id) = place BY <4>1, <3>1, <3>3, <1>2, <1>10, <1>11
      <4>2. CASE Place(u.id) # place BY <4>2, <3>1, <3>3, <1>2, <1>10
      <4> QED BY <4>1, <4>2
    <3> QED BY <3>2, <3>3
  <2> QED BY <2>1, <2>2, <1>2
<1>15. ChainInv'
  BY <1>4, <1>5, <1>6, <1>9, <1>12, <1>13, <1>14 DEF ChainInv
<1>16. \A u \in txs : u.status = "success" => u \in txs' BY <1>2
<1>17. \A id : \A a \in GateAddresses : Written(id, contracts[a]) => Written(id, contracts'[a])
  <2> SUFFICES ASSUME NEW id, NEW a \in GateAddresses, Written(id, contracts[a]) PROVE Written(id, contracts'[a])
    OBVIOUS
  <2>1. CASE reverts BY <2>1, <1>2
  <2>2. CASE ~ reverts /\ a = place BY <2>2, <1>2, <1>10, <1>11
  <2>3. CASE ~ reverts /\ a # place BY <2>3, <1>2, <1>10
  <2> QED BY <2>1, <2>2, <2>3
<1> QED BY <1>15, <1>16, <1>17

-----------------------------------------------------------------------------
(* What a task is about to sign. *)
LEMMA GateSignature ==
  ASSUME NEW p \in Procs, NEW q \in GateProcess, ProcessOK(p, q), q.task # "none", q.task \notin Preflights
  PROVE  /\ TxShape(Signature(p, q)) /\ Signature(p, q) \in GateTx
         /\ Signature(p, q).call.by # OtherTool /\ Signature(p, q).nonce = q.nonce
         /\ q.task \in Targeted => Signature(p, q).target = q.address /\ q.address # NoTarget
         /\ q.task \in Deployments => Signature(p, q).target = NoTarget
         /\ q.task \in Targeted \/ q.task \in Deployments
         /\ Signature(p, q).call = TaskCall(p, q.task)
<1>1. p \in Int /\ p # OtherTool BY GateConfiguration DEF OtherTool
<1>2. q.nonce \in Int /\ q.address \in Int /\ q.task \in {"sg1:deploy", "sg1:probe", "sg2:deploy", "sg2:prepare", "sg2:verify"}
  BY DEF GateProcess, Preflights, Sg1Tasks, Sg2Tasks
<1>3. q.task \in Targeted => q.address \in GateAddresses /\ q.address # NoTarget
  BY DEF ProcessOK, GateAddresses, NoTarget
<1>4. PICK call : call = TaskCall(p, q.task) OBVIOUS
<1>5. PICK target : target = IF q.task \in Targeted THEN q.address ELSE NoTarget OBVIOUS
<1>6. Signature(p, q) = [nonce |-> q.nonce, call |-> call, target |-> target]
  BY <1>4, <1>5 DEF Signature, Transaction
<1>7. target \in Int BY <1>2, <1>5 DEF NoTarget
<1>8. CASE q.task = "sg1:deploy"
  <2>1. call = [name |-> "deployCounter", value |-> 0, by |-> Anybody] BY <1>4, <1>8 DEF TaskCall
  <2>2. target = NoTarget BY <1>5, <1>8 DEF Targeted
  <2> QED BY <2>1, <2>2, <1>2, <1>4, <1>6, <1>7, <1>8 DEF TxShape, GateTx, Targeted, Deployments, Anybody, OtherTool
<1>9. CASE q.task = "sg2:deploy"
  <2>1. call = [name |-> "deployProbe", value |-> 0, by |-> Anybody] BY <1>4, <1>9 DEF TaskCall
  <2>2. target = NoTarget BY <1>5, <1>9 DEF Targeted
  <2> QED BY <2>1, <2>2, <1>2, <1>4, <1>6, <1>7, <1>9 DEF TxShape, GateTx, Targeted, Deployments, Anybody, OtherTool
<1>10. CASE q.task = "sg1:probe"
  <2>1. call = [name |-> "increment", value |-> 1, by |-> p] BY <1>4, <1>10 DEF TaskCall
  <2>2. target = q.address /\ target \in GateAddresses /\ target # NoTarget BY <1>3, <1>5, <1>10 DEF Targeted
  <2> QED BY <2>1, <2>2, <1>1, <1>2, <1>4, <1>6, <1>7, <1>10 DEF TxShape, GateTx, Targeted, Deployments
<1>11. CASE q.task = "sg2:prepare"
  <2>1. call = [name |-> "initialize", value |-> SG2_EXPECTED_VALUE, by |-> p] BY <1>4, <1>11 DEF TaskCall
  <2>2. target = q.address /\ target \in GateAddresses /\ target # NoTarget BY <1>3, <1>5, <1>11 DEF Targeted
  <2> QED BY <2>1, <2>2, <1>1, <1>2, <1>4, <1>6, <1>7, <1>11 DEF TxShape, GateTx, Targeted, Deployments, SG2_EXPECTED_VALUE
<1>12. CASE q.task = "sg2:verify"
  <2>1. call = [name |-> "verify", value |-> SG2_EXPECTED_VALUE, by |-> Anybody] BY <1>4, <1>12 DEF TaskCall
  <2>2. target = q.address /\ target \in GateAddresses /\ target # NoTarget BY <1>3, <1>5, <1>12 DEF Targeted
  <2> QED BY <2>1, <2>2, <1>2, <1>4, <1>6, <1>7, <1>12
    DEF TxShape, GateTx, Targeted, Deployments, SG2_EXPECTED_VALUE, Anybody, OtherTool
<1> QED BY <1>2, <1>8, <1>9, <1>10, <1>11, <1>12

(* A task prints its evidence. *)
LEMMA GateEmits ==
  ASSUME GateInv, NEW p \in Procs, NEW event, NEW id, Emit(p, event, id),
         EvidenceOK([event |-> event, address |-> proc[p].address, id |-> id, commit |-> proc[p].commit,
                     tree |-> proc[p].tree, by |-> p]),
         UNCHANGED <<repo, rpc, txs, contracts, broadcasts, opening, disturbances>>
  PROVE  GateInv'
<1>1. GateRepo' BY DEF GateInv, GateRepo
<1>2. ChainInv' BY GateChainKept DEF GateInv
<1>3. /\ \A e : EvidenceOK(e) => EvidenceOK(e)'
      /\ \A o, q : ProcessOK(o, q) => ProcessOK(o, q)'
  BY GateKeeps
<1>4. \A e \in evidence' : EvidenceOK(e)
  BY DEF GateInv, Emit
<1>5. \A e \in evidence' : EvidenceOK(e)' BY <1>3, <1>4
<1>6. proc' = [proc EXCEPT ![p] = Ended("passed")] BY DEF Emit
<1>7. proc' \in [Procs -> GateProcess] BY <1>6, GateEnded DEF GateInv
<1>8. \A o \in Procs : ProcessOK(o, proc'[o])
  BY <1>6, GateEnded DEF GateInv
<1>9. \A o \in Procs : ProcessOK(o, proc[o])'
  <2> SUFFICES ASSUME NEW o \in Procs PROVE ProcessOK(o, proc[o])' OBVIOUS
  <2>1. PICK q : q = proc'[o] OBVIOUS
  <2>2. ProcessOK(o, q) BY <2>1, <1>8
  <2>3. ProcessOK(o, q)' BY <2>2, <1>3
  <2> QED BY <2>1, <2>3
<1> QED BY <1>1, <1>2, <1>5, <1>7, <1>9 DEF GateInv

(* The chain moves on by itself. *)
LEMMA GateChainMoves ==
  ASSUME GateInv, ChainInv', \A t \in txs : t.status = "success" => t \in txs',
         \A id : \A a \in GateAddresses : Written(id, contracts[a]) => Written(id, contracts'[a]),
         GateRepo', UNCHANGED <<proc, evidence, broadcasts>>
  PROVE  GateInv'
<1>3. /\ \A e : EvidenceOK(e) => EvidenceOK(e)'
      /\ \A o, q : ProcessOK(o, q) => ProcessOK(o, q)'
  BY GateKeeps
<1>4. \A e \in evidence' : EvidenceOK(e)' BY <1>3 DEF GateInv
<1>5. \A o \in Procs : ProcessOK(o, proc[o])'
  <2> SUFFICES ASSUME NEW o \in Procs PROVE ProcessOK(o, proc[o])' OBVIOUS
  <2>1. PICK q : q = proc[o] OBVIOUS
  <2>2. ProcessOK(o, q) BY <2>1 DEF GateInv
  <2>3. ProcessOK(o, q)' BY <2>2, <1>3
  <2> QED BY <2>1, <2>3
<1> QED BY <1>4, <1>5 DEF GateInv

(* Before it has signed a task has nothing to show for. *)
LEMMA GateUnsigned ==
  ASSUME NEW p, NEW q, q.pc \in {"hardhat"} \cup Unsigned, q.task # "none",
         q.task \in Targeted => q.address \in GateAddresses
  PROVE  ProcessOK(p, q)
<1>1. /\ q.pc \in Live
      /\ q.pc \notin Decided \cup Signed \cup {"poll"} \cup Successful
  BY DEF Live, Unsigned, Decided, Signed, Successful
<1>2. q.pc # "conclude" /\ q.pc \notin Signed \cup {"poll"} \cup Successful /\ q.pc \notin {"poll"} \cup Successful
      /\ q.pc \notin Successful
  BY <1>1 DEF Successful
<1> QED BY <1>1, <1>2 DEF ProcessOK

LEMMA GateDecided ==
  ASSUME NEW p, NEW q, q.pc \in Decided, q.task # "none", q.task \notin Preflights,
         q.task \in Targeted => q.address \in GateAddresses
  PROVE  ProcessOK(p, q)
<1>1. q.pc \in Live BY DEF Live
<1>2. q.pc # "conclude" /\ q.pc \notin Signed \cup {"poll"} \cup Successful /\ q.pc \notin {"poll"} \cup Successful
      /\ q.pc \notin Successful
  BY DEF Successful, Decided, Signed
<1> QED BY <1>1, <1>2 DEF ProcessOK

LEMMA GateTask ==
  ASSUME GateInv, NEW p \in Procs
  PROVE  /\ proc[p] \in GateProcess /\ ProcessOK(p, proc[p])
         /\ proc[p].pc \in Live => proc[p].task # "none"
         /\ proc[p].task \in Targeted => proc[p].address \in GateAddresses
         /\ proc[p].pc \in {"poll"} \cup Successful \cup Signed \cup Decided
              => proc[p].task # "none" /\ proc[p].task \notin Preflights
<1>1. proc[p] \in GateProcess /\ ProcessOK(p, proc[p]) BY DEF GateInv
<1> QED BY <1>1 DEF ProcessOK, Live

(* The steps of every task before its signature. *)
LEMMA GateEarlySteps ==
  ASSUME GateInv, NEW p \in Procs,
         \/ \E task \in Sg1Tasks, address \in Known \cup {NoTarget} : Sg1Start(p, task, address)
         \/ \E task \in Sg2Tasks, line \in CommandLines, verbose \in BOOLEAN : Sg2Direct(p, task, line, verbose)
         \/ \E task \in Sg2Tasks, address \in Known \cup {NoTarget}, selector \in Selectors, verbose \in BOOLEAN :
                Sg2Start(p, task, address, selector, verbose)
         \/ Sg2Dispatch(p)
         \/ OpenContext(p, TRUE) \/ OpenContext(p, ~ forbiddenDebugEnabled(proc[p].selector, Forbidden))
         \/ requireCleanRepository(p)
         \/ ConfirmChain(p) \/ Sg1CheckTarget(p) \/ Sg1Encrypt(p)
         \/ Sg2CheckTarget(p) \/ Sg2Encrypt(p) \/ Sg2PublicDecrypt(p)
         \/ ReadNonce(p) \/ Estimate(p)
  PROVE  GateInv'
<1> DEFINE q == proc[p]
<1>0. /\ q \in GateProcess
      /\ q.pc \in Live => q.task # "none"
      /\ q.task \in Targeted => q.address \in GateAddresses
      /\ UNCHANGED World
  BY GateTask DEF Sg1Start, Sg2Direct, Sg2Start, Sg2Dispatch, OpenContext, requireCleanRepository, ReadCommit, ReadTree,
     ConfirmChain, Sg1CheckTarget, Sg1Encrypt,
     Sg2CheckTarget, Sg2Encrypt, Sg2PublicDecrypt, ReadNonce, Estimate
<1>a. \A a \in Known \cup {NoTarget} : a \in Int BY DEF Known, NoTarget
<1>i. Idle \in GateProcess BY GateIdle
<1>1. ASSUME NEW task \in Sg1Tasks, NEW address \in Known \cup {NoTarget}, Sg1Start(p, task, address) PROVE GateInv'
  <2>1. PICK n : n = [Idle EXCEPT !.pc = "context", !.task = task, !.address = address] OBVIOUS
  <2>2. n \in GateProcess /\ n.pc = "context" /\ n.task = task /\ n.address = address
    BY <2>1, <1>a, <1>i DEF GateProcess, Live, Unsigned
  <2>3. task # "none" /\ (task \in Targeted => address \in GateAddresses) BY <1>1 DEF Sg1Start, Sg1Tasks
  <2>4. ProcessOK(p, n) BY <2>2, <2>3, GateUnsigned DEF Unsigned
  <2> QED BY <1>1, <2>1, <2>2, <2>4, GateGoesOn DEF Sg1Start
<1>2. ASSUME NEW task \in Sg2Tasks, NEW line \in CommandLines, NEW verbose \in BOOLEAN, Sg2Direct(p, task, line, verbose)
      PROVE GateInv'
  BY <1>2, GateGoesOn, GateEnded DEF Sg2Direct
<1>3. ASSUME NEW task \in Sg2Tasks, NEW address \in Known \cup {NoTarget}, NEW selector \in Selectors,
             NEW verbose \in BOOLEAN, Sg2Start(p, task, address, selector, verbose)
      PROVE GateInv'
  <2>1. PICK n : n = [[Idle EXCEPT !.task = task, !.address = address, !.selector = selector] EXCEPT
                        !.pc = "hardhat", !.capability = createLauncherSession(task)] OBVIOUS
  <2>c. createLauncherSession(task) \in [action : {"none"} \cup Sg2Tasks, consumed : BOOLEAN, revoked : BOOLEAN]
    BY DEF createLauncherSession
  <2>2. n \in GateProcess /\ n.pc = "hardhat" /\ n.task = task /\ n.address = address
    BY <2>1, <2>c, <1>a, <1>i DEF GateProcess, Live
  <2>3. CASE validateLaunchRequest(task, address, selector, verbose)
    <3>1. task # "none" /\ (task \in Targeted => address \in GateAddresses)
      BY <2>3 DEF validateLaunchRequest, Sg2Tasks
    <3>2. ProcessOK(p, n) BY <3>1, <2>2, GateUnsigned
    <3>3. proc' = [proc EXCEPT ![p] = n] BY <1>3, <2>1, <2>3 DEF Sg2Start
    <3> QED BY <3>2, <3>3, <2>2, <1>0, GateGoesOn
  <2>4. CASE ~ validateLaunchRequest(task, address, selector, verbose)
    <3>1. proc' = [proc EXCEPT ![p] = Ended("failed")] BY <1>3, <2>4 DEF Sg2Start
    <3> QED BY <3>1, <1>0, GateGoesOn, GateEnded
  <2> QED BY <2>3, <2>4
<1>4. CASE Sg2Dispatch(p)
  <2>1. PICK n : n = [GoTo(p, "context") EXCEPT !.capability.consumed = TRUE] OBVIOUS
  <2>2. PICK c : c = [q.capability EXCEPT !.consumed = TRUE] OBVIOUS
  <2>3. c \in [action : {"none"} \cup Sg2Tasks, consumed : BOOLEAN, revoked : BOOLEAN]
    BY <2>2, <1>0 DEF GateProcess
  <2>4. n = [q EXCEPT !.pc = "context", !.capability = c] BY <1>0, <2>1, <2>2 DEF GoTo, GateProcess
  <2>5. n \in GateProcess /\ n.pc = "context" /\ n.task = q.task /\ n.address = q.address
    BY <2>3, <2>4, <1>0 DEF GateProcess, Live, Unsigned
  <2>6. q.task # "none" BY <1>0, <1>4 DEF Sg2Dispatch, AtPoint, Live
  <2>7. ProcessOK(p, n) BY <2>5, <2>6, <1>0, GateUnsigned DEF Unsigned
  <2> QED BY <1>4, <1>0, <2>1, <2>5, <2>7, GateStepKept DEF Sg2Dispatch
<1>r. repo.commit \in Nat /\ repo.moves \in Nat /\ HeadTree \in Nat BY DEF GateInv, GateRepo, HeadTree
<1>5. ASSUME NEW quiet, OpenContext(p, quiet) PROVE GateInv'
  <2>1. PICK n : n = [GoTo(p, "commit") EXCEPT !.selector = <<>>] OBVIOUS
  <2>3. n \in GateProcess /\ n.pc = "commit" /\ n.task = q.task /\ n.address = q.address
    BY <2>1, <1>0 DEF GoTo, GateProcess, Live, Unsigned
  <2>4. q.task # "none" BY <1>0, <1>5 DEF OpenContext, AtPoint, Live, Unsigned
  <2>5. ProcessOK(p, n) BY <2>3, <2>4, <1>0, GateUnsigned DEF Unsigned
  <2> QED BY <1>5, <1>0, <2>1, <2>3, <2>5, GateStepKept DEF OpenContext
<1>c. CASE ReadCommit(p)
  <2>1. PICK n : n = [GoTo(p, "tree") EXCEPT !.commit = repo.commit, !.seen = repo.moves] OBVIOUS
  <2>3. n \in GateProcess /\ n.pc = "tree" /\ n.task = q.task /\ n.address = q.address
    BY <2>1, <1>r, <1>0 DEF GoTo, GateProcess, Live, Unsigned
  <2>4. q.task # "none" BY <1>0, <1>c DEF ReadCommit, AtPoint, Live, Unsigned
  <2>5. ProcessOK(p, n) BY <2>3, <2>4, <1>0, GateUnsigned DEF Unsigned
  <2> QED BY <1>c, <1>0, <2>1, <2>3, <2>5, GateStepKept DEF ReadCommit
<1>t. CASE ReadTree(p)
  <2>1. PICK n : n = [GoTo(p, "chain") EXCEPT !.tree = HeadTree, !.torn = Torn(p, "opening"), !.seen = 0] OBVIOUS
  <2>2. Torn(p, "opening") \in SUBSET {"opening", "check"} BY <1>0 DEF Torn, GateProcess
  <2>3. n \in GateProcess /\ n.pc = "chain" /\ n.task = q.task /\ n.address = q.address
    BY <2>1, <2>2, <1>r, <1>0 DEF GoTo, GateProcess, Live, Unsigned
  <2>4. q.task # "none" BY <1>0, <1>t DEF ReadTree, AtPoint, Live, Unsigned
  <2>5. ProcessOK(p, n) BY <2>3, <2>4, <1>0, GateUnsigned DEF Unsigned
  <2> QED BY <1>t, <1>0, <2>1, <2>3, <2>5, GateStepKept DEF ReadTree
<1>6. ASSUME NEW point \in Unsigned, NEW ok, q.pc \in Unsigned, Step(p, ok, GoTo(p, point)) PROVE GateInv'
  <2>1. PICK n : n = GoTo(p, point) OBVIOUS
  <2>3. n \in GateProcess /\ n.pc = point /\ n.task = q.task /\ n.address = q.address
    BY <2>1, <1>0 DEF GoTo, GateProcess, Live
  <2>4. q.task # "none" BY <1>0, <1>6 DEF Live
  <2>5. ProcessOK(p, n) BY <2>3, <2>4, <1>0, GateUnsigned
  <2> QED BY <1>6, <1>0, <2>1, <2>3, <2>5, GateStepKept
<1>7. CASE ConfirmChain(p)
  <2>1. (IF proc[p].task \in Targeted THEN "target" ELSE "nonce") \in Unsigned BY DEF Unsigned
  <2>2. q.pc \in Unsigned BY <1>7 DEF ConfirmChain, AtPoint, Unsigned
  <2> QED BY <1>7, <2>1, <2>2, <1>6 DEF ConfirmChain
<1>8. CASE Sg1CheckTarget(p) \/ Sg1Encrypt(p) \/ Sg2CheckTarget(p) \/ Sg2Encrypt(p) \/ Sg2PublicDecrypt(p)
  <2>1. q.pc \in Unsigned /\ "input" \in Unsigned /\ "nonce" \in Unsigned
    BY <1>8 DEF Sg1CheckTarget, Sg1Encrypt, Sg2CheckTarget, Sg2Encrypt, Sg2PublicDecrypt, AtPoint, Unsigned
  <2> QED BY <1>8, <2>1, <1>6 DEF Sg1CheckTarget, Sg1Encrypt, Sg2CheckTarget, Sg2Encrypt, Sg2PublicDecrypt
<1>9. CASE ReadNonce(p)
  <2>1. PICK n : n = [GoTo(p, "estimate") EXCEPT !.nonce = IF rpc = "sepolia" THEN PendingNonce ELSE 0] OBVIOUS
  <2>2. PICK nonce \in Int : nonce = IF rpc = "sepolia" THEN PendingNonce ELSE 0 BY GateHeight DEF GateInv
  <2>3. n \in GateProcess /\ n.pc = "estimate" /\ n.task = q.task /\ n.address = q.address
    BY <2>1, <2>2, <1>0 DEF GoTo, GateProcess, Live, Unsigned
  <2>4. q.task # "none" BY <1>0, <1>9 DEF ReadNonce, AtPoint, Live, Unsigned
  <2>5. ProcessOK(p, n) BY <2>3, <2>4, <1>0, GateUnsigned DEF Unsigned
  <2> QED BY <1>9, <1>0, <2>1, <2>3, <2>5, GateStepKept DEF ReadNonce
<1>10. CASE Estimate(p)
  <2>1. PICK gas \in {0, GasUsed} :
          Step(p, gas > 0 /\ ~ Reverts(TaskCall(p, proc[p].task), Contract(p)),
               [GoTo(p, "fund") EXCEPT !.cost = bufferedGasLimit(gas)])
    BY <1>10 DEF Estimate
  <2>2. bufferedGasLimit(gas) \in Int
    BY DEF bufferedGasLimit, GasUsed, BASIS_POINTS, GAS_BUFFER_BASIS_POINTS, MAX_GAS_BUFFER
  <2>3. PICK n : n = [GoTo(p, "fund") EXCEPT !.cost = bufferedGasLimit(gas)] OBVIOUS
  <2>4. n \in GateProcess /\ n.pc = "fund" /\ n.task = q.task /\ n.address = q.address
    BY <2>2, <2>3, <1>0 DEF GoTo, GateProcess, Live, Unsigned
  <2>5. q.task # "none" BY <1>0, <1>10 DEF Estimate, AtPoint, Live, Unsigned
  <2>6. ProcessOK(p, n) BY <2>4, <2>5, <1>0, GateUnsigned DEF Unsigned
  <2> QED BY <2>1, <2>3, <1>0, <2>4, <2>6, GateStepKept
<1> QED BY <1>1, <1>2, <1>3, <1>4, <1>5, <1>c, <1>t, <1>7, <1>8, <1>9, <1>10 DEF requireCleanRepository

(* The state of a task that has sent its transaction does not depend on where it is. *)
LEMMA GateSignatureKept ==
  ASSUME NEW p, NEW q, NEW n, n.task = q.task, n.nonce = q.nonce, n.task \in Targeted => n.address = q.address
  PROVE  Signature(p, n) = Signature(p, q)
BY DEF Signature

LEMMA GateMiddleSteps ==
  ASSUME GateInv, NEW p \in Procs,
         Fund(p) \/ Rechain(p) \/ Sg1Recheck(p) \/ Sg2Recheck(p) \/ Sign(p) \/ requireRepositoryIdentityUnchanged(p)
  PROVE  GateInv'
<1> DEFINE q == proc[p]
<1>0. /\ q \in GateProcess /\ ProcessOK(p, q)
      /\ q.pc \in Live => q.task # "none"
      /\ q.task \in Targeted => q.address \in GateAddresses
      /\ q.pc \in Decided \cup Signed => q.task # "none" /\ q.task \notin Preflights
      /\ UNCHANGED World
  BY GateTask DEF Fund, Rechain, Sg1Recheck, Sg2Recheck, Sign, requireRepositoryIdentityUnchanged, RereadCommit,
     CompareIdentity, SampleStatus
<1>1. ASSUME NEW point \in Decided, NEW ok, q.task # "none", q.task \notin Preflights, Step(p, ok, GoTo(p, point))
      PROVE GateInv'
  <2>1. PICK n : n = GoTo(p, point) OBVIOUS
  <2>2. n \in GateProcess /\ n.pc = point /\ n.task = q.task /\ n.address = q.address
    BY <2>1, <1>0 DEF GoTo, GateProcess, Live
  <2>3. ProcessOK(p, n) BY <2>2, <1>0, <1>1, GateDecided
  <2> QED BY <1>1, <1>0, <2>1, <2>2, <2>3, GateStepKept
<1>2. CASE Fund(p)
  <2>1. "rechain" \in Decided /\ q.task # "none" /\ q.task \notin Preflights
    BY <1>2, <1>0 DEF Fund, AtPoint, Decided, Live, Unsigned
  <2> QED BY <1>2, <2>1, <1>1 DEF Fund
<1>3. CASE Rechain(p)
  <2>1. (IF proc[p].task \in Targeted THEN "restate" ELSE "sign") \in Decided BY DEF Decided
  <2>2. q.task # "none" /\ q.task \notin Preflights BY <1>3, <1>0 DEF Rechain, AtPoint, Decided
  <2> QED BY <1>3, <2>1, <2>2, <1>1 DEF Rechain
<1>4. CASE Sg1Recheck(p) \/ Sg2Recheck(p)
  <2>1. "sign" \in Decided /\ q.task # "none" /\ q.task \notin Preflights
    BY <1>4, <1>0 DEF Sg1Recheck, Sg2Recheck, AtPoint, Decided
  <2> QED BY <1>4, <2>1, <1>1 DEF Sg1Recheck, Sg2Recheck
<1>5. CASE Sign(p)
  <2>1. q.task # "none" /\ q.task \notin Preflights BY <1>5, <1>0 DEF Sign, AtPoint, Decided
  <2>2. PICK n : n = [GoTo(p, "head") EXCEPT !.id = <<signExactTransaction(p)>>] OBVIOUS
  <2>3. signExactTransaction(p) = Signature(p, q) BY DEF signExactTransaction, Signature
  <2>4. Signature(p, q) \in GateTx BY <1>0, <2>1, GateSignature
  <2>5. PICK s \in GateTx : s = Signature(p, q) BY <2>4
  <2>6. <<s>> \in Seq(GateTx) OBVIOUS
  <2>7. n = [q EXCEPT !.pc = "head", !.id = <<s>>] BY <2>2, <2>3, <2>5, <1>0 DEF GoTo, GateProcess
  <2>8. n \in GateProcess /\ n.pc = "head" /\ n.id = <<s>> /\ n.task = q.task /\ n.nonce = q.nonce /\ n.address = q.address
    BY <2>6, <2>7, <1>0 DEF GateProcess, Live, Signed
  <2>9. Signature(p, n) = s BY <2>5, <2>8, GateSignatureKept
  <2>10. ProcessOK(p, n)
    BY <1>0, <2>1, <2>8, <2>9 DEF ProcessOK, Live, Successful, Decided, Signed
  <2> QED BY <1>5, <1>0, <2>2, <2>8, <2>10, GateStepKept DEF Sign
<1>6. ASSUME NEW n \in GateProcess, q.pc \in Signed, n.pc \in Signed, n.id = q.id, n.task = q.task, n.nonce = q.nonce,
             n.address = q.address
      PROVE  ProcessOK(p, n)
  <2>1. q.task # "none" /\ q.task \notin Preflights /\ q.id = <<Signature(p, q)>> BY <1>0, <1>6 DEF ProcessOK
  <2>2. Signature(p, n) = Signature(p, q) BY <1>6, GateSignatureKept
  <2> QED BY <2>1, <2>2, <1>0, <1>6 DEF ProcessOK, Live, Successful, Decided, Signed
<1>7. CASE RereadCommit(p)
  <2>1. PICK n : n = [GoTo(p, "headtree") EXCEPT !.current = repo.commit, !.seen = repo.moves] OBVIOUS
  <2>2. repo.commit \in Nat /\ repo.moves \in Nat BY DEF GateInv, GateRepo
  <2>3. /\ n \in GateProcess /\ n.pc = "headtree" /\ n.id = q.id /\ n.task = q.task /\ n.nonce = q.nonce
        /\ n.address = q.address
    BY <2>1, <2>2, <1>0 DEF GoTo, GateProcess, Live, Signed
  <2>4. q.pc \in Signed /\ n.pc \in Signed BY <1>7, <2>3 DEF RereadCommit, AtPoint, Signed
  <2> QED BY <1>7, <1>0, <1>6, <2>1, <2>3, <2>4, GateStepKept DEF RereadCommit
<1>8. CASE CompareIdentity(p)
  <2>1. PICK n : n = [GoTo(p, "status") EXCEPT !.torn = Torn(p, "check"), !.current = 0] OBVIOUS
  <2>2. Torn(p, "check") \in SUBSET {"opening", "check"} BY <1>0 DEF Torn, GateProcess
  <2>3. /\ n \in GateProcess /\ n.pc = "status" /\ n.id = q.id /\ n.task = q.task /\ n.nonce = q.nonce
        /\ n.address = q.address
    BY <2>1, <2>2, <1>0 DEF GoTo, GateProcess, Live, Signed
  <2>4. q.pc \in Signed /\ n.pc \in Signed BY <1>8, <2>3 DEF CompareIdentity, AtPoint, Signed
  <2> QED BY <1>8, <1>0, <1>6, <2>1, <2>3, <2>4, GateStepKept DEF CompareIdentity
<1>9. CASE SampleStatus(p)
  <2>1. PICK n : n = [GoTo(p, "broadcast") EXCEPT !.sampled = repo.version] OBVIOUS
  <2>2. repo.version \in Nat BY DEF GateInv, GateRepo
  <2>3. /\ n \in GateProcess /\ n.pc = "broadcast" /\ n.id = q.id /\ n.task = q.task /\ n.nonce = q.nonce
        /\ n.address = q.address
    BY <2>1, <2>2, <1>0 DEF GoTo, GateProcess, Live, Signed
  <2>4. q.pc \in Signed /\ n.pc \in Signed BY <1>9, <2>3 DEF SampleStatus, AtPoint, Signed
  <2> QED BY <1>9, <1>0, <1>6, <2>1, <2>3, <2>4, GateStepKept DEF SampleStatus
<1> QED BY <1>2, <1>3, <1>4, <1>5, <1>7, <1>8, <1>9 DEF requireRepositoryIdentityUnchanged

(* The bytes leave the machine. *)
LEMMA GateBroadcast ==
  ASSUME GateInv, NEW p \in Procs, Broadcast(p)
  PROVE  GateInv'
<1> DEFINE q == proc[p]
<1>0. /\ q \in GateProcess /\ ProcessOK(p, q) /\ ChainInv
      /\ q.task # "none" /\ q.task \notin Preflights /\ q.pc = "broadcast"
  BY GateTask DEF GateInv, Broadcast, AtPoint, Signed
<1>1. PICK s : s = Signature(p, q) OBVIOUS
<1>2. q.id = <<s>> /\ q.id[1] = s BY <1>0, <1>1 DEF ProcessOK, Signed
<1>3. TxShape(s) /\ s.call.by # OtherTool /\ s \in GateTx BY <1>0, <1>1, GateSignature
<1>4. PICK result \in NodeTakes(s) : txs' = result.pool /\ broadcastSignedTransaction(p, result)
  BY <1>2 DEF Broadcast
<1>5. ChainInv' /\ \A t \in txs : t.status = "success" => t \in txs'
  <2>1. CASE result.pool = txs
    <3>1. UNCHANGED <<txs, contracts>> BY <1>4, <2>1 DEF Broadcast
    <3> QED BY <3>1, <1>0, GateChainKept
  <2>2. CASE /\ StatusOf(s) = "unknown"
             /\ result.pool = {IF t \in {x \in Pooled : x.id.nonce = s.nonce} THEN [t EXCEPT !.status = "dropped"] ELSE t : t \in txs}
                                 \cup {[id |-> s, status |-> "pooled"]}
    <3>1. ~ \E t \in txs : t.id = s BY <2>2, <1>0, GateStatus
    <3>2. PICK rivals \in SUBSET Pooled : rivals = {x \in Pooled : x.id.nonce = s.nonce} OBVIOUS
    <3>3. txs' = {IF t \in rivals THEN [t EXCEPT !.status = "dropped"] ELSE t : t \in txs} \cup {[id |-> s, status |-> "pooled"]}
      BY <2>2, <3>2, <1>4
    <3>4. UNCHANGED contracts BY DEF Broadcast
    <3> QED BY <3>1, <3>3, <3>4, <1>0, <1>3, GatePoolGrows
  <2> QED BY <2>1, <2>2, <1>4 DEF NodeTakes
<1>s. PICK sent : sent = [id |-> q.id[1], by |-> p, commit |-> q.commit, tree |-> q.tree, seen |-> q.seen,
                       sampled |-> q.sampled, torn |-> q.torn, repo |-> repo] OBVIOUS
<1>t. sent.id = s /\ sent.by = p /\ sent.commit = q.commit /\ sent.tree = q.tree BY <1>s, <1>2
<1>6. broadcasts' = broadcasts \cup {sent} /\ UNCHANGED <<repo, contracts, evidence>> BY <1>s DEF Broadcast
<1>7. GateRepo' BY <1>6 DEF GateInv, GateRepo
<1>8. /\ \A e : EvidenceOK(e) => EvidenceOK(e)'
      /\ \A o, x : ProcessOK(o, x) => ProcessOK(o, x)'
  BY <1>5, <1>6, GateKeeps
<1>9. \A e \in evidence' : EvidenceOK(e)' BY <1>6, <1>8 DEF GateInv
<1>10. PICK n : n = [GoTo(p, "poll") EXCEPT !.polls = 0, !.seen = 0, !.sampled = 0, !.torn = {}] OBVIOUS
<1>11. /\ n \in GateProcess /\ n.pc = "poll" /\ n.task = q.task /\ n.nonce = q.nonce /\ n.address = q.address
       /\ n.commit = q.commit /\ n.tree = q.tree /\ n.id = q.id
  BY <1>0, <1>10 DEF GoTo, GateProcess, Live
<1>12. Signature(p, n) = s BY <1>1, <1>11, GateSignatureKept
<1>13. SentBy(p, n.commit, n.tree, s)' BY <1>t, <1>6, <1>11 DEF SentBy
<1>14. ProcessOK(p, n)'
  <2>1. (Signature(p, n))' = s BY <1>12 DEF Signature, TaskCall, Transaction
  <2>2. n.task \in Targeted => n.address \in GateAddresses BY <1>0, <1>11 DEF ProcessOK
  <2> QED BY <2>1, <2>2, <1>0, <1>2, <1>11, <1>12, <1>13 DEF ProcessOK, Live, Successful, Decided, Signed
<1>15. PICK m : m = (IF result.answer = "hash" THEN n ELSE Ended("failed")) OBVIOUS
<1>16. proc' = [proc EXCEPT ![p] = m] BY <1>4, <1>10, <1>15 DEF broadcastSignedTransaction, Step
<1>17. m \in GateProcess BY <1>11, <1>15, GateEnded
<1>18. ProcessOK(p, m)'
  <2>1. CASE m = n BY <2>1, <1>14
  <2>2. CASE m = Ended("failed")
    <3>1. ProcessOK(p, m) BY <2>2, GateEnded
    <3> QED BY <3>1, <1>8
  <2> QED BY <2>1, <2>2, <1>15
<1>19. proc' \in [Procs -> GateProcess] BY <1>16, <1>17 DEF GateInv
<1>20. \A o \in Procs : ProcessOK(o, proc[o])'
  <2> SUFFICES ASSUME NEW o \in Procs PROVE ProcessOK(o, proc[o])' OBVIOUS
  <2>1. CASE o = p
    <3>1. proc'[o] = m BY <2>1, <1>16 DEF GateInv
    <3> QED BY <2>1, <3>1, <1>18
  <2>2. CASE o # p
    <3>1. PICK x : x = proc[o] OBVIOUS
    <3>2. proc'[o] = x BY <2>2, <3>1, <1>16 DEF GateInv
    <3>3. ProcessOK(o, x)' BY <3>1, <1>8 DEF GateInv
    <3> QED BY <3>2, <3>3
  <2> QED BY <2>1, <2>2
<1> QED BY <1>5, <1>6, <1>7, <1>9, <1>19, <1>20 DEF GateInv

(* What a task reads of its receipt is true of its transaction. *)
LEMMA GateLateSteps ==
  ASSUME GateInv, NEW p \in Procs,
         \/ pollForTransactionReceipt(p) \/ TakeDeploymentReceipt(p) \/ TakeCallReceipt(p) \/ ConfirmCode(p)
         \/ FinalChain(p)
  PROVE  GateInv'
<1> DEFINE q == proc[p]
<1>0. /\ q \in GateProcess /\ ProcessOK(p, q) /\ ChainInv /\ UNCHANGED World
      /\ q.task # "none" /\ q.task \notin Preflights /\ q.pc \in {"poll"} \cup Successful
  BY GateTask DEF GateInv, pollForTransactionReceipt, TakeDeploymentReceipt, TakeCallReceipt, ConfirmCode, FinalChain,
     AtPoint, Successful
<1>1. PICK s : s = Signature(p, q) OBVIOUS
<1>2. q.id = <<s>> /\ q.id[1] = s /\ SentBy(p, q.commit, q.tree, s) /\ (q.task \in Targeted => q.address \in GateAddresses)
  BY <1>0, <1>1 DEF ProcessOK
<1>3. /\ s.call.by # OtherTool /\ s.nonce = q.nonce
      /\ q.task \in Targeted => s.target = q.address /\ q.address # NoTarget
      /\ q.task \in Deployments => s.target = NoTarget
  BY <1>0, <1>1, GateSignature
<1>4. StatusOf(s) = "success" => Succeeded(s) BY <1>0, <1>3, GateStatus
<1>5. ASSUME NEW n \in GateProcess, n.task = q.task, n.nonce = q.nonce, n.commit = q.commit, n.tree = q.tree, n.id = q.id,
             n.task \in Targeted => n.address = q.address, n.pc \in {"poll"} \cup Successful,
             n.pc \in Successful => Succeeded(s) /\ (n.task \in Deployments => n.address = n.nonce),
             n.pc = "conclude" => n.task \in Targeted
      PROVE  ProcessOK(p, n)
  <2>1. Signature(p, n) = s BY <1>1, <1>5, GateSignatureKept
  <2>2. n.pc \in Live BY <1>5 DEF Live
  <2> QED BY <2>1, <2>2, <1>0, <1>2, <1>5 DEF ProcessOK
<1>6. CASE pollForTransactionReceipt(p)
  <2>1. PICK n : n = [proc[p] EXCEPT !.polls = @ + 1] OBVIOUS
  <2>2. q.pc = "poll" /\ q.polls \in Nat BY <1>6, <1>0 DEF pollForTransactionReceipt, AtPoint, GateProcess
  <2>3. PICK k \in Nat : k = q.polls + 1 BY <2>2
  <2>4. n = [q EXCEPT !.polls = k] BY <2>1, <2>3
  <2>5. n \in GateProcess BY <2>4, <1>0 DEF GateProcess
  <2>6. n.task = q.task /\ n.nonce = q.nonce /\ n.commit = q.commit /\ n.tree = q.tree /\ n.id = q.id /\ n.address = q.address /\ n.pc = "poll"
    BY <2>4, <2>2, <1>0 DEF GateProcess
  <2>7. ProcessOK(p, n) BY <2>5, <2>6, <1>5 DEF Successful
  <2> QED BY <1>6, <1>0, <2>1, <2>5, <2>7, GateStepKept DEF pollForTransactionReceipt
<1>7. CASE TakeDeploymentReceipt(p)
  <2>1. PICK n : n = [GoTo(p, "code") EXCEPT !.address = Receipt(p).contractAddress, !.polls = 0] OBVIOUS
  <2>2. q.task \in Deployments BY <1>7 DEF TakeDeploymentReceipt
  <2>3. Receipt(p).contractAddress = q.nonce BY <2>2, <1>2, <1>3 DEF Receipt
  <2>4. n = [q EXCEPT !.pc = "code", !.address = q.nonce, !.polls = 0] BY <2>1, <2>3 DEF GoTo
  <2>5. /\ n \in GateProcess /\ n.task = q.task /\ n.nonce = q.nonce /\ n.commit = q.commit /\ n.tree = q.tree /\ n.id = q.id
        /\ n.address = q.nonce /\ n.pc = "code"
    BY <2>4, <1>0 DEF GateProcess, Live, Successful
  <2>6. ASSUME DeploymentReceiptAccepted(p, Receipt(p)) PROVE ProcessOK(p, n)
    <3>1. Succeeded(s) BY <2>6, <1>2, <1>4 DEF DeploymentReceiptAccepted, Receipt
    <3>2. n.task \notin Targeted BY <2>2, <2>5 DEF Targeted, Deployments
    <3> QED BY <3>1, <3>2, <2>5, <1>5 DEF Successful
  <2> QED BY <1>7, <1>0, <2>1, <2>5, <2>6, GateStepKept DEF TakeDeploymentReceipt
<1>8. ASSUME NEW point \in Successful, NEW ok, Step(p, ok, GoTo(p, point)),
             ok => Succeeded(s) /\ (q.task \in Deployments => q.address = q.nonce),
             ok /\ point = "conclude" => q.task \in Targeted
      PROVE  GateInv'
  <2>1. PICK n : n = GoTo(p, point) OBVIOUS
  <2>2. /\ n \in GateProcess /\ n.task = q.task /\ n.nonce = q.nonce /\ n.commit = q.commit /\ n.tree = q.tree /\ n.id = q.id
        /\ n.address = q.address /\ n.pc = point
    BY <2>1, <1>0 DEF GoTo, GateProcess, Live
  <2>3. ok => ProcessOK(p, n) BY <2>2, <1>5, <1>8
  <2> QED BY <1>8, <1>0, <2>1, <2>2, <2>3, GateStepKept
<1>9. CASE TakeCallReceipt(p)
  <2>1. requireSuccessfulCallReceipt(p, Receipt(p)) => Succeeded(s)
    BY <1>2, <1>4 DEF requireSuccessfulCallReceipt, Receipt
  <2>2. q.task \notin Deployments BY <1>9 DEF TakeCallReceipt, Targeted, Deployments
  <2>3. PICK n : n = [GoTo(p, "code") EXCEPT !.polls = 0] OBVIOUS
  <2>4. /\ n \in GateProcess /\ n.task = q.task /\ n.nonce = q.nonce /\ n.commit = q.commit /\ n.tree = q.tree
        /\ n.id = q.id /\ n.address = q.address /\ n.pc = "code"
    BY <2>3, <1>0 DEF GoTo, GateProcess, Live, Successful
  <2>5. requireSuccessfulCallReceipt(p, Receipt(p)) => ProcessOK(p, n)
    BY <2>1, <2>2, <2>4, <1>5 DEF Successful
  <2> QED BY <1>9, <1>0, <2>3, <2>4, <2>5, GateStepKept DEF TakeCallReceipt
<1>10. CASE ConfirmCode(p)
  <2>1. Succeeded(s) /\ (q.task \in Deployments => q.address = q.nonce)
    BY <1>10, <1>0, <1>1 DEF ProcessOK, ConfirmCode, AtPoint, Successful
  <2> QED BY <1>10, <2>1, <1>8 DEF ConfirmCode, Successful
<1>11. CASE FinalChain(p)
  <2>1. Succeeded(s) /\ (q.task \in Deployments => q.address = q.nonce)
    BY <1>11, <1>0, <1>1 DEF ProcessOK, FinalChain, AtPoint, Successful
  <2> QED BY <1>11, <2>1, <1>8 DEF FinalChain, Successful
<1> QED BY <1>6, <1>7, <1>9, <1>10, <1>11

(* The evidence of a task whose transaction has succeeded. *)
LEMMA GateEmission ==
  ASSUME GateInv, NEW p \in Procs,
         \/ PassPreflight(p) \/ EmitDeployment(p) \/ Sg1EmitProbe(p) \/ runSg2Prepare(p) \/ runSg2Verify(p)
  PROVE  GateInv'
<1> DEFINE q == proc[p]
<1>1. CASE PassPreflight(p)
  <2>1. PICK e : e = [event |-> q.task, address |-> q.address, id |-> <<>>, commit |-> q.commit, tree |-> q.tree, by |-> p] OBVIOUS
  <2>2. e.event \in Preflights BY <1>1, <2>1 DEF PassPreflight
  <2>3. EvidenceOK(e) BY <2>2 DEF EvidenceOK
  <2> QED BY <1>1, <2>1, <2>3, GateEmits DEF PassPreflight
<1>2. CASE EmitDeployment(p) \/ Sg1EmitProbe(p) \/ runSg2Prepare(p) \/ runSg2Verify(p)
  <2>0. /\ q \in GateProcess /\ ProcessOK(p, q) /\ ChainInv
        /\ q.task # "none" /\ q.task \notin Preflights /\ q.pc \in Successful
    BY <1>2, GateTask DEF GateInv, EmitDeployment, Sg1EmitProbe, runSg2Prepare, runSg2Verify, AtPoint, Successful
  <2>1. PICK s : s = Signature(p, q) OBVIOUS
  <2>2. /\ q.id = <<s>> /\ SentBy(p, q.commit, q.tree, s) /\ Succeeded(s)
        /\ q.task \in Deployments => q.address = q.nonce
        /\ q.task \in Targeted => q.address \in GateAddresses
        /\ q.pc = "conclude" => q.task \in Targeted
    BY <2>0, <2>1 DEF ProcessOK, Successful
  <2>3. /\ s.nonce = q.nonce /\ s \in GateTx /\ s.call = TaskCall(p, q.task)
        /\ q.task \in Targeted => s.target = q.address /\ q.address # NoTarget
        /\ q.task \in Deployments => s.target = NoTarget
        /\ q.task \in Targeted \/ q.task \in Deployments
    BY <2>0, <2>1, GateSignature
  <2>4. Place(s) = q.address BY <2>2, <2>3 DEF Place
  <2>5. Place(s) \in GateAddresses /\ Left(s, contracts[Place(s)]) BY <2>2, <2>0 DEF Succeeded, ChainInv
  <2>6. PICK e : e = [event |-> q.task, address |-> q.address, id |-> q.id, commit |-> q.commit, tree |-> q.tree, by |-> p] OBVIOUS
  <2>7. e.event = q.task /\ e.address = q.address /\ e.id = <<s>> /\ e.id[1] = s /\ e.commit = q.commit /\ e.tree = q.tree /\ e.by = p
    BY <2>6, <2>2
  <2>8. Sg1EmitProbe(p) => q.task = "sg1:probe" /\ q.pc = "conclude"
    BY <2>2, <2>0 DEF Sg1EmitProbe, Sg1, Gate, AtPoint, Sg1Tasks, Targeted
  <2>9. q.task = "sg1:probe" => Sg1EmitProbe(p)
    BY <1>2 DEF EmitDeployment, runSg2Prepare, runSg2Verify, Deployments
  <2>10. q.task = "sg1:probe" => Written(s, contracts[q.address])
    <3> SUFFICES ASSUME q.task = "sg1:probe" PROVE Written(s, contracts[q.address]) OBVIOUS
    <3>1. Contract(p).count = 1 BY <2>9 DEF Sg1EmitProbe
    <3>2. NoCode.count = 0 BY DEF NoCode
    <3>3. contracts[q.address].count = 1 BY <3>1, <3>2 DEF Contract
    <3>4. s.call.name = "increment" BY <2>3 DEF TaskCall
    <3> QED BY <3>3, <3>4, <2>4, <2>5 DEF Left, Written
  <2>11. EvidenceFor(e, s)
    BY <2>2, <2>3, <2>4, <2>5, <2>7, <2>10 DEF EvidenceFor
  <2>12. EvidenceOK(e) BY <2>7, <2>11 DEF EvidenceOK
  <2>13. Emit(p, q.task, q.id)
    BY <1>2, <2>8 DEF EmitDeployment, Sg1EmitProbe, runSg2Prepare, runSg2Verify
  <2>14. UNCHANGED <<repo, rpc, txs, contracts, broadcasts, opening, disturbances>>
    BY <1>2 DEF EmitDeployment, Sg1EmitProbe, runSg2Prepare, runSg2Verify
  <2> QED BY <2>6, <2>12, <2>13, <2>14, GateEmits
<1> QED BY <1>1, <1>2

LEMMA GateFailures ==
  ASSUME GateInv, NEW p \in Procs,
         \/ FailPreflight(p) \/ Sg1FailProbe(p) \/ Sg2FailConclusion(p) \/ RequestFails(p)
  PROVE  GateInv'
<1>1. Step(p, FALSE, proc[p]) /\ UNCHANGED World
  BY DEF FailPreflight, Sg1FailProbe, Sg2FailConclusion, RequestFails
<1> QED BY <1>1, GateStepKept

RepositoryMoves ==
  \/ Edit \/ Discard
  \/ \E tree \in Trees : Commit(tree)
  \/ \E commit \in DOMAIN repo.trees : Checkout(commit)

(* The repository keeps its commits, and says by its two numbers when HEAD, and when anything, has changed. *)
LEMMA RepositoryGrows ==
  ASSUME GateRepo, RepositoryMoves
  PROVE  /\ GateRepo'
         /\ repo'.moves >= repo.moves /\ repo'.version > repo.version
         /\ repo'.moves = repo.moves => repo'.commit = repo.commit
         /\ \A c \in DOMAIN repo.trees : c \in DOMAIN repo'.trees /\ repo'.trees[c] = repo.trees[c]
<1>0. /\ repo \in [commit : Nat, trees : Seq(Nat), dirty : BOOLEAN, moves : Nat, version : Nat]
      /\ repo.commit \in DOMAIN repo.trees
  BY DEF GateRepo
<1>1. PICK v \in Nat : v = repo.version + 1 BY <1>0
<1>2. PICK m \in Nat : m = repo.moves + 1 BY <1>0
<1>3. CASE Edit \/ Discard
  <2>1. PICK d \in BOOLEAN : repo' = [repo EXCEPT !.dirty = d, !.version = v]
    BY <1>1, <1>3, <1>0 DEF Edit, Discard
  <2>2. /\ repo' \in [commit : Nat, trees : Seq(Nat), dirty : BOOLEAN, moves : Nat, version : Nat]
        /\ repo'.commit = repo.commit /\ repo'.trees = repo.trees /\ repo'.moves = repo.moves /\ repo'.version = v
    BY <2>1, <1>0
  <2> QED BY <2>2, <1>0, <1>1 DEF GateRepo
<1>4. ASSUME NEW tree \in Trees, Commit(tree) PROVE
         /\ GateRepo'
         /\ repo'.moves >= repo.moves /\ repo'.version > repo.version
         /\ repo'.moves = repo.moves => repo'.commit = repo.commit
         /\ \A c \in DOMAIN repo.trees : c \in DOMAIN repo'.trees /\ repo'.trees[c] = repo.trees[c]
  <2>1. PICK trees : trees = Append(repo.trees, tree) OBVIOUS
  <2>2. tree \in Nat BY GateConfiguration
  <2>3. /\ trees \in Seq(Nat) /\ Len(repo.trees) + 1 \in DOMAIN trees /\ Len(repo.trees) + 1 \in Nat
        /\ \A c \in DOMAIN repo.trees : c \in DOMAIN trees /\ trees[c] = repo.trees[c]
    BY <2>1, <2>2, <1>0
  <2>4. repo' = [commit |-> Len(repo.trees) + 1, trees |-> trees, dirty |-> FALSE, moves |-> m, version |-> v]
    BY <1>4, <1>1, <1>2, <2>1 DEF Commit
  <2> QED BY <2>3, <2>4, <1>0, <1>1, <1>2 DEF GateRepo
<1>5. ASSUME NEW commit \in DOMAIN repo.trees, Checkout(commit) PROVE
         /\ GateRepo'
         /\ repo'.moves >= repo.moves /\ repo'.version > repo.version
         /\ repo'.moves = repo.moves => repo'.commit = repo.commit
         /\ \A c \in DOMAIN repo.trees : c \in DOMAIN repo'.trees /\ repo'.trees[c] = repo.trees[c]
  <2>1. commit \in Nat BY <1>0
  <2>2. repo' = [repo EXCEPT !.commit = commit, !.moves = m, !.version = v] BY <1>5, <1>1, <1>2 DEF Checkout
  <2>3. /\ repo' \in [commit : Nat, trees : Seq(Nat), dirty : BOOLEAN, moves : Nat, version : Nat]
        /\ repo'.commit = commit /\ repo'.trees = repo.trees /\ repo'.moves = m /\ repo'.version = v
    BY <2>1, <2>2, <1>0
  <2> QED BY <2>3, <1>0, <1>1, <1>2 DEF GateRepo
<1> QED BY <1>3, <1>4, <1>5 DEF RepositoryMoves

LEMMA GateEnvironmentStep ==
  ASSUME GateInv, GateEnvironment
  PROVE  GateInv'
<1>1. CASE RepositoryMoves \/ SwitchChain
  <2>1. UNCHANGED <<txs, contracts, proc, evidence, broadcasts>>
    BY <1>1 DEF RepositoryMoves, Edit, Discard, Commit, Checkout, SwitchChain
  <2>2. ChainInv' BY <2>1, GateChainKept DEF GateInv
  <2>3. GateRepo'
    <3>1. CASE RepositoryMoves BY <3>1, RepositoryGrows DEF GateInv
    <3>2. CASE SwitchChain BY <3>2 DEF GateInv, GateRepo, SwitchChain
    <3> QED BY <1>1, <3>1, <3>2
  <2> QED BY <2>1, <2>2, <2>3, GateChainMoves
<1>2. ASSUME NEW target \in {0, 1},
             Elsewhere(IF target = 0 THEN "increment" ELSE "initialize", IF target = 0 THEN 1 ELSE OtherValue, target)
      PROVE GateInv'
  <2> DEFINE name == IF target = 0 THEN "increment" ELSE "initialize"
             value == IF target = 0 THEN 1 ELSE OtherValue
  <2>1. PICK id : id = Transaction(PendingNonce, [name |-> name, value |-> value, by |-> OtherTool], target) OBVIOUS
  <2>2. PendingNonce \in Int BY GateHeight DEF GateInv
  <2>3. target \in GateAddresses BY GateConfiguration DEF GateAddresses
  <2>4. TxShape(id) /\ id.call.by = OtherTool
    BY <2>1, <2>2, <2>3 DEF TxShape, GateTx, Transaction, OtherTool, OtherValue
  <2>5. PICK rivals \in SUBSET Pooled : rivals = {} OBVIOUS
  <2>6. txs' = txs \cup {[id |-> id, status |-> "pooled"]} /\ UNCHANGED <<repo, contracts, proc, evidence, broadcasts>>
    BY <1>2, <2>1 DEF Elsewhere
  <2>7. txs' = {IF t \in rivals THEN [t EXCEPT !.status = "dropped"] ELSE t : t \in txs}
                 \cup {[id |-> id, status |-> "pooled"]}
    BY <2>5, <2>6
  <2>8. ChainInv' /\ \A t \in txs : t.status = "success" => t \in txs'
    BY <2>4, <2>6, <2>7, GatePoolGrows DEF GateInv
  <2> QED BY <2>6, <2>8, GateChainMoves DEF GateInv, GateRepo
<1>3. ASSUME NEW t \in txs, Mine(t) PROVE GateInv'
  <2>1. UNCHANGED <<repo, proc, evidence, broadcasts>> BY <1>3 DEF Mine
  <2> QED BY <1>3, <2>1, GateMine, GateChainMoves DEF GateInv, GateRepo
<1>4. ASSUME NEW t \in txs, Forget(t) PROVE GateInv'
  <2>1. UNCHANGED <<repo, contracts, proc, evidence, broadcasts>> BY <1>4 DEF Forget
  <2>2. ChainInv' /\ \A u \in txs : u.status = "success" => u \in txs'
    BY <1>4, <2>1, GateForget DEF Forget, GateInv
  <2> QED BY <2>1, <2>2, GateChainMoves DEF GateInv, GateRepo
<1> QED BY <1>1, <1>2, <1>3, <1>4 DEF GateEnvironment, RepositoryMoves

LEMMA GateStepStep ==
  ASSUME GateInv, NEW p \in Procs, GateStep(p)
  PROVE  GateInv'
<1>1. CASE Sg1Next(p)
  BY <1>1, GateEarlySteps, GateMiddleSteps, GateBroadcast, GateLateSteps, GateEmission, GateFailures
  DEF Sg1Next, Sg1OpenContext, Sg1ConfirmChain, Sg1Prepare, Sg1Fund, Sg1Preflight, Sg1Sign, Sg1Repository, Sg1Broadcast, Sg1Poll,
      Sg1Deploy, Sg1ProbeReceipt
<1>2. CASE Sg2Next(p)
  BY <1>2, GateEarlySteps, GateMiddleSteps, GateBroadcast, GateLateSteps, GateEmission, GateFailures
  DEF Sg2Next, Sg2OpenContext, Sg2ConfirmChain, Sg2PrepareTransaction, Sg2Fund, runSg2Preflight, Sg2Sign, Sg2Repository, Sg2Broadcast,
      Sg2Poll, runSg2Deploy, Sg2CallReceipt
<1>3. CASE RequestFails(p) BY <1>3, GateFailures
<1> QED BY <1>1, <1>2, <1>3 DEF GateStep

LEMMA GateInitInv ==
  ASSUME GateInit
  PROVE  GateInv
<1>1. txs = {} /\ evidence = {} /\ broadcasts = {} BY DEF GateInit
<1>2. Mined = {} BY <1>1 DEF Mined
<1>3. IsFiniteSet(txs) /\ Height = 3 BY <1>1, <1>2, FS_EmptySet DEF Height, FirstNonce
<1>4. contracts \in [GateAddresses -> GateContract] BY GateFresh DEF GateInit
<1>5. \A a \in GateAddresses : a >= 3 => contracts[a] = NoCode BY DEF GateInit, GateAddresses
<1>6. ChainInv BY <1>1, <1>2, <1>3, <1>4, <1>5 DEF ChainInv
<1>7. GateRepo
  <2>1. <<1, 2>> \in Seq(Nat) /\ 2 \in DOMAIN <<1, 2>> OBVIOUS
  <2> QED BY <2>1 DEF GateInit, GateRepo
<1>8. proc \in [Procs -> GateProcess] /\ \A p \in Procs : ProcessOK(p, proc[p])
  BY GateIdle DEF GateInit
<1> QED BY <1>1, <1>6, <1>7, <1>8 DEF GateInv

(* The invariant of the stage gates: what a task has in hand at each of its places is true of the chain, of    *)
(* what was sent and of the repository, whatever other tasks, tools and editors do meanwhile.                  *)
THEOREM GateInvariant == GateSpec => []GateInv
<1>1. GateInv /\ [GateNext]_gateVars => GateInv'
  <2> SUFFICES ASSUME GateInv, [GateNext]_gateVars PROVE GateInv' OBVIOUS
  <2>1. CASE GateEnvironment BY <2>1, GateEnvironmentStep
  <2>2. ASSUME NEW p \in Procs, GateStep(p) PROVE GateInv' BY <2>2, GateStepStep
  <2>3. CASE UNCHANGED gateVars
    <3>1. UNCHANGED <<repo, txs, contracts, proc, evidence, broadcasts>> BY <2>3 DEF gateVars
    <3>2. ChainInv' BY <3>1, GateChainKept DEF GateInv
    <3> QED BY <3>1, <3>2, GateChainMoves DEF GateInv, GateRepo
  <2> QED BY <2>1, <2>2, <2>3 DEF GateNext
<1> QED BY <1>1, GateInitInv, PTL DEF GateSpec

(* The repository a transaction leaves from. *)

\* From the reading of an identity to the send.
Identified == {"chain", "target", "input", "nonce", "estimate", "fund"} \cup Decided \cup Signed
Asking == {"tree", "headtree", "status", "broadcast"}

\* What the answers of git are worth at each place of a task in state q: the commit read is HEAD, the tree read
\* is HEAD's and the working tree is clean as long as the number that was noted with the answer is the present one.
Reading(q) ==
  /\ q.pc = "tree" =>
       q.commit \in DOMAIN repo.trees /\ q.seen <= repo.moves /\ (q.seen = repo.moves => q.commit = repo.commit)
  /\ q.pc = "headtree" => q.seen <= repo.moves /\ (q.seen = repo.moves => q.current = repo.commit)
  /\ q.pc \in {"status", "broadcast"} =>
       /\ q.seen <= repo.moves
       /\ q.seen = repo.moves => q.commit = repo.commit /\ q.tree = repo.trees[q.commit]
       /\ "check" \notin q.torn => q.tree = repo.trees[q.commit]
  /\ q.pc = "broadcast" => q.sampled <= repo.version /\ (q.sampled = repo.version => ~ repo.dirty)
  /\ q.pc \in Identified =>
       q.commit \in DOMAIN repo.trees /\ ("opening" \notin q.torn => q.tree = repo.trees[q.commit])

ReadingInv == (\A p \in Procs : Reading(proc[p])) /\ BroadcastFromCleanCommit

\* A step that asks git nothing: it keeps the identity it has, or has none.
Plain(q, n) ==
  /\ n.pc \notin Asking
  /\ n.pc \in Identified => q.pc \in Identified /\ n.commit = q.commit /\ n.tree = q.tree /\ n.torn = q.torn

LEMMA PlainReads ==
  ASSUME NEW q, NEW n, Reading(q), Plain(q, n)
  PROVE  Reading(n)
BY DEF Plain, Reading, Asking

(* An answer keeps what it is worth while others change the repository. *)
LEMMA ReadingKept ==
  ASSUME GateRepo, RepositoryMoves, NEW q \in GateProcess, Reading(q)
  PROVE  Reading(q)'
<1>1. /\ repo \in [commit : Nat, trees : Seq(Nat), dirty : BOOLEAN, moves : Nat, version : Nat]
      /\ repo' \in [commit : Nat, trees : Seq(Nat), dirty : BOOLEAN, moves : Nat, version : Nat]
      /\ repo'.moves >= repo.moves /\ repo'.version > repo.version
      /\ repo'.moves = repo.moves => repo'.commit = repo.commit
      /\ \A c \in DOMAIN repo.trees : c \in DOMAIN repo'.trees /\ repo'.trees[c] = repo.trees[c]
  BY RepositoryGrows DEF GateRepo
<1>2. q.seen \in Nat /\ q.sampled \in Nat BY DEF GateProcess
<1>3. q.pc \in {"status", "broadcast"} => q.pc \in Identified BY DEF Identified, Signed
<1>4. q.pc = "tree" => (q.commit \in DOMAIN repo.trees /\ q.seen <= repo.moves /\ (q.seen = repo.moves => q.commit = repo.commit))'
  BY <1>1, <1>2 DEF Reading
<1>5. q.pc = "headtree" => (q.seen <= repo.moves /\ (q.seen = repo.moves => q.current = repo.commit))'
  BY <1>1, <1>2 DEF Reading
<1>6. q.pc \in Identified =>
        (q.commit \in DOMAIN repo.trees /\ ("opening" \notin q.torn => q.tree = repo.trees[q.commit]))'
  BY <1>1 DEF Reading
<1>7. ASSUME q.pc \in {"status", "broadcast"}
      PROVE  (/\ q.seen <= repo.moves
              /\ q.seen = repo.moves => q.commit = repo.commit /\ q.tree = repo.trees[q.commit]
              /\ "check" \notin q.torn => q.tree = repo.trees[q.commit])'
  <2>1. q.commit \in DOMAIN repo.trees BY <1>3, <1>7 DEF Reading
  <2>2. repo'.trees[q.commit] = repo.trees[q.commit] BY <2>1, <1>1
  <2>3. q.seen = repo'.moves => q.seen = repo.moves BY <1>1, <1>2, <1>7 DEF Reading
  <2> QED BY <2>2, <2>3, <1>1, <1>2, <1>7 DEF Reading
<1>8. q.pc = "broadcast" => (q.sampled <= repo.version /\ (q.sampled = repo.version => ~ repo.dirty))'
  BY <1>1, <1>2 DEF Reading
<1> QED BY <1>4, <1>5, <1>6, <1>7, <1>8 DEF Reading

LEMMA PlainStep ==
  ASSUME NEW p \in Procs, NEW ok, NEW next, Step(p, ok, next), Plain(proc[p], next)
  PROVE  \E n : proc' = [proc EXCEPT ![p] = n] /\ Plain(proc[p], n)
<1>1. CASE ok BY <1>1 DEF Step
<1>2. CASE ~ ok
  <2>1. Ended("failed").pc = "failed" BY DEF Ended, Idle
  <2>2. Plain(proc[p], Ended("failed")) BY <2>1 DEF Plain, Asking, Identified, Decided, Signed
  <2> QED BY <1>2, <2>2 DEF Step
<1> QED BY <1>1, <1>2

(* Every step of a task but the five questions. *)
LEMMA PlainSteps ==
  ASSUME proc \in [Procs -> GateProcess], NEW p \in Procs,
         \/ \E task \in Sg1Tasks, address \in Known \cup {NoTarget} : Sg1Start(p, task, address)
         \/ \E task \in Sg2Tasks, line \in CommandLines, verbose \in BOOLEAN : Sg2Direct(p, task, line, verbose)
         \/ \E task \in Sg2Tasks, address \in Known \cup {NoTarget}, selector \in Selectors, verbose \in BOOLEAN :
                Sg2Start(p, task, address, selector, verbose)
         \/ Sg2Dispatch(p)
         \/ OpenContext(p, TRUE) \/ OpenContext(p, ~ forbiddenDebugEnabled(proc[p].selector, Forbidden))
         \/ ConfirmChain(p) \/ Sg1CheckTarget(p) \/ Sg1Encrypt(p)
         \/ Sg2CheckTarget(p) \/ Sg2Encrypt(p) \/ Sg2PublicDecrypt(p)
         \/ ReadNonce(p) \/ Estimate(p) \/ Fund(p) \/ Rechain(p) \/ Sg1Recheck(p) \/ Sg2Recheck(p) \/ Sign(p)
         \/ Broadcast(p) \/ pollForTransactionReceipt(p) \/ TakeDeploymentReceipt(p) \/ TakeCallReceipt(p)
         \/ ConfirmCode(p) \/ FinalChain(p)
         \/ PassPreflight(p) \/ EmitDeployment(p) \/ Sg1EmitProbe(p) \/ runSg2Prepare(p) \/ runSg2Verify(p)
         \/ FailPreflight(p) \/ Sg1FailProbe(p) \/ Sg2FailConclusion(p) \/ RequestFails(p)
  PROVE  \E n : proc' = [proc EXCEPT ![p] = n] /\ Plain(proc[p], n)
<1> DEFINE q == proc[p]
           Goal == \E n : proc' = [proc EXCEPT ![p] = n] /\ Plain(proc[p], n)
           Apart == {"idle", "failed", "passed", "hardhat", "context", "commit", "poll"} \cup Successful
           Kept == Identified \ Asking
<1>0. q \in GateProcess OBVIOUS
<1> USE DEF AtPoint
<1>a. ASSUME NEW n, n.pc \in Apart PROVE Plain(q, n)
  BY <1>a DEF Plain, Asking, Identified, Decided, Signed, Successful
<1>b. ASSUME NEW n, n.pc \in Kept, q.pc \in Kept, n.commit = q.commit, n.tree = q.tree, n.torn = q.torn PROVE Plain(q, n)
  BY <1>b DEF Plain
<1>k. \A point \in {"chain", "target", "input", "nonce", "estimate", "fund", "rechain", "restate", "sign", "head"} :
         point \in Kept
  BY DEF Asking, Identified, Decided, Signed, Kept
<1>e. Plain(q, Ended("failed")) /\ Plain(q, Ended("passed"))
  BY <1>a DEF Ended, Idle
<1> HIDE DEF Kept
<1>1. ASSUME NEW ok, NEW point \in Kept, q.pc \in Kept \ {"headtree"}, Step(p, ok, GoTo(p, point)), point # "head" PROVE Goal
  <2>1. PICK n : n = GoTo(p, point) OBVIOUS
  <2>2. n.pc = point /\ n.commit = q.commit /\ n.tree = q.tree /\ n.torn = q.torn BY <1>0, <2>1 DEF GoTo, GateProcess
  <2>3. Plain(q, n) BY <1>1, <1>b, <2>2
  <2> QED BY <1>1, <2>1, <2>3, PlainStep
<1>2. ASSUME NEW ok, NEW point \in Successful, Step(p, ok, GoTo(p, point)) PROVE Goal
  <2>1. PICK n : n = GoTo(p, point) OBVIOUS
  <2>2. n.pc = point BY <1>0, <2>1 DEF GoTo, GateProcess
  <2>3. Plain(q, n) BY <1>a, <2>2
  <2> QED BY <1>2, <2>1, <2>3, PlainStep
<1>3. CASE \/ ConfirmChain(p) \/ Sg1CheckTarget(p) \/ Sg1Encrypt(p) \/ Sg2CheckTarget(p) \/ Sg2Encrypt(p)
           \/ Sg2PublicDecrypt(p) \/ Fund(p) \/ Rechain(p) \/ Sg1Recheck(p) \/ Sg2Recheck(p)
  BY <1>1, <1>3, <1>k
  DEF ConfirmChain, Sg1CheckTarget, Sg1Encrypt, Sg2CheckTarget, Sg2Encrypt, Sg2PublicDecrypt, Fund, Rechain, Sg1Recheck,
      Sg2Recheck
<1>4. CASE \E task \in Sg1Tasks, address \in Known \cup {NoTarget} : Sg1Start(p, task, address)
  <2>1. PICK task \in Sg1Tasks, address \in Known \cup {NoTarget} : Sg1Start(p, task, address) BY <1>4
  <2>2. PICK n : n = [Idle EXCEPT !.pc = "context", !.task = task, !.address = address] OBVIOUS
  <2>3. n.pc = "context" BY <2>2 DEF Idle
  <2> QED BY <2>1, <2>2, <2>3, <1>a DEF Sg1Start
<1>5. CASE \E task \in Sg2Tasks, line \in CommandLines, verbose \in BOOLEAN : Sg2Direct(p, task, line, verbose)
  BY <1>5, <1>e DEF Sg2Direct
<1>6. CASE \E task \in Sg2Tasks, address \in Known \cup {NoTarget}, selector \in Selectors, verbose \in BOOLEAN :
              Sg2Start(p, task, address, selector, verbose)
  <2>1. PICK task \in Sg2Tasks, address \in Known \cup {NoTarget}, selector \in Selectors, verbose \in BOOLEAN :
          Sg2Start(p, task, address, selector, verbose)
    BY <1>6
  <2>2. PICK n : n = [[Idle EXCEPT !.task = task, !.address = address, !.selector = selector] EXCEPT
                        !.pc = "hardhat", !.capability = createLauncherSession(task)] OBVIOUS
  <2>3. n.pc = "hardhat" BY <2>2 DEF Idle
  <2>4. proc' = [proc EXCEPT ![p] = n] \/ proc' = [proc EXCEPT ![p] = Ended("failed")] BY <2>1, <2>2 DEF Sg2Start
  <2> QED BY <2>3, <2>4, <1>a, <1>e
<1>7. CASE Sg2Dispatch(p)
  <2>1. PICK n : n = [GoTo(p, "context") EXCEPT !.capability.consumed = TRUE] OBVIOUS
  <2>2. n.pc = "context" BY <1>0, <2>1 DEF GoTo, GateProcess
  <2> QED BY <1>7, <2>1, <2>2, <1>a, PlainStep DEF Sg2Dispatch
<1>8. ASSUME NEW quiet, OpenContext(p, quiet) PROVE Goal
  <2>1. PICK n : n = [GoTo(p, "commit") EXCEPT !.selector = <<>>] OBVIOUS
  <2>2. n.pc = "commit" BY <1>0, <2>1 DEF GoTo, GateProcess
  <2> QED BY <1>8, <2>1, <2>2, <1>a, PlainStep DEF OpenContext
<1>9. CASE ReadNonce(p)
  <2>1. PICK n : n = [GoTo(p, "estimate") EXCEPT !.nonce = IF rpc = "sepolia" THEN PendingNonce ELSE 0] OBVIOUS
  <2>2. n.pc = "estimate" /\ n.commit = q.commit /\ n.tree = q.tree /\ n.torn = q.torn
    BY <1>0, <2>1 DEF GoTo, GateProcess
  <2>3. Plain(q, n) BY <1>9, <1>b, <1>k, <2>2 DEF ReadNonce
  <2> QED BY <1>9, <2>1, <2>3, PlainStep DEF ReadNonce
<1>10. CASE Estimate(p)
  <2>1. PICK gas \in {0, GasUsed} :
          Step(p, gas > 0 /\ ~ Reverts(TaskCall(p, proc[p].task), Contract(p)),
               [GoTo(p, "fund") EXCEPT !.cost = bufferedGasLimit(gas)])
    BY <1>10 DEF Estimate
  <2>2. PICK n : n = [GoTo(p, "fund") EXCEPT !.cost = bufferedGasLimit(gas)] OBVIOUS
  <2>3. n.pc = "fund" /\ n.commit = q.commit /\ n.tree = q.tree /\ n.torn = q.torn
    BY <1>0, <2>2 DEF GoTo, GateProcess
  <2>4. Plain(q, n) BY <1>10, <1>b, <1>k, <2>3 DEF Estimate
  <2> QED BY <2>1, <2>2, <2>4, PlainStep
<1>11. CASE Sign(p)
  <2>1. PICK n : n = [GoTo(p, "head") EXCEPT !.id = <<signExactTransaction(p)>>] OBVIOUS
  <2>2. n.pc = "head" /\ n.commit = q.commit /\ n.tree = q.tree /\ n.torn = q.torn
    BY <1>0, <2>1 DEF GoTo, GateProcess
  <2>3. Plain(q, n) BY <1>11, <1>b, <1>k, <2>2 DEF Sign
  <2> QED BY <1>11, <2>1, <2>3, PlainStep DEF Sign
<1>12. CASE Broadcast(p)
  <2>1. PICK n : n = [GoTo(p, "poll") EXCEPT !.polls = 0, !.seen = 0, !.sampled = 0, !.torn = {}] OBVIOUS
  <2>2. n.pc = "poll" BY <1>0, <2>1 DEF GoTo, GateProcess
  <2>3. PICK ok : Step(p, ok, n) BY <1>12, <2>1 DEF Broadcast, broadcastSignedTransaction
  <2> QED BY <2>2, <2>3, <1>a, PlainStep
<1>13. CASE pollForTransactionReceipt(p)
  <2>1. PICK n : n = [proc[p] EXCEPT !.polls = @ + 1] OBVIOUS
  <2>2. n.pc = "poll" BY <1>13, <1>0, <2>1 DEF GateProcess, pollForTransactionReceipt
  <2> QED BY <1>13, <2>1, <2>2, <1>a, PlainStep DEF pollForTransactionReceipt
<1>14. CASE TakeDeploymentReceipt(p)
  <2>1. PICK n : n = [GoTo(p, "code") EXCEPT !.address = Receipt(p).contractAddress, !.polls = 0] OBVIOUS
  <2>2. n.pc = "code" BY <1>0, <2>1 DEF GoTo, GateProcess
  <2>3. Plain(q, n) BY <2>2, <1>a DEF Successful
  <2> QED BY <1>14, <2>1, <2>3, PlainStep DEF TakeDeploymentReceipt
<1>15. CASE TakeCallReceipt(p)
  <2>1. PICK n : n = [GoTo(p, "code") EXCEPT !.polls = 0] OBVIOUS
  <2>2. n.pc = "code" BY <1>0, <2>1 DEF GoTo, GateProcess
  <2>3. Plain(q, n) BY <2>2, <1>a DEF Successful
  <2> QED BY <1>15, <2>1, <2>3, PlainStep DEF TakeCallReceipt
<1>16. CASE ConfirmCode(p) \/ FinalChain(p)
  <2>1. "finalchain" \in Successful /\ "conclude" \in Successful BY DEF Successful
  <2> QED BY <1>16, <2>1, <1>2 DEF ConfirmCode, FinalChain
<1>17. CASE PassPreflight(p) \/ EmitDeployment(p) \/ Sg1EmitProbe(p) \/ runSg2Prepare(p) \/ runSg2Verify(p)
  BY <1>17, <1>e DEF PassPreflight, EmitDeployment, Sg1EmitProbe, runSg2Prepare, runSg2Verify, Emit
<1>18. CASE FailPreflight(p) \/ Sg1FailProbe(p) \/ Sg2FailConclusion(p) \/ RequestFails(p)
  <2>1. proc' = [proc EXCEPT ![p] = Ended("failed")]
    BY <1>18 DEF FailPreflight, Sg1FailProbe, Sg2FailConclusion, RequestFails, Step
  <2> QED BY <2>1, <1>e
<1> HIDE DEF Goal
<1> QED
  BY <1>3, <1>4, <1>5, <1>6, <1>7, <1>8, <1>9, <1>10, <1>11, <1>12, <1>13, <1>14, <1>15, <1>16, <1>17, <1>18 DEF Goal

(* The five questions. *)
LEMMA Questions ==
  ASSUME GateInv, NEW p \in Procs, Reading(proc[p]), requireCleanRepository(p) \/ requireRepositoryIdentityUnchanged(p)
  PROVE  \E n : proc' = [proc EXCEPT ![p] = n] /\ Reading(n)
<1> DEFINE q == proc[p]
           Goal == \E n : proc' = [proc EXCEPT ![p] = n] /\ Reading(n)
<1>0. /\ q \in GateProcess /\ GateRepo /\ repo.commit \in DOMAIN repo.trees
      /\ repo.moves \in Nat /\ repo.version \in Nat
  BY DEF GateInv, GateRepo
<1> USE DEF AtPoint
<1>e. Reading(Ended("failed"))
  BY DEF Ended, Idle, Reading, Identified, Decided, Signed
<1>s. ASSUME NEW ok, NEW n, Step(p, ok, n), ok => Reading(n) PROVE Goal
  BY <1>s, <1>e DEF Step
<1>1. CASE ReadCommit(p)
  <2>1. PICK n : n = [GoTo(p, "tree") EXCEPT !.commit = repo.commit, !.seen = repo.moves] OBVIOUS
  <2>2. n.pc = "tree" /\ n.commit = repo.commit /\ n.seen = repo.moves BY <1>0, <2>1 DEF GoTo, GateProcess
  <2>3. Reading(n) BY <1>0, <2>2 DEF Reading, Identified, Decided, Signed
  <2> QED BY <1>1, <2>1, <2>3, <1>s DEF ReadCommit
<1>2. CASE ReadTree(p)
  <2>1. PICK n : n = [GoTo(p, "chain") EXCEPT !.tree = HeadTree, !.torn = Torn(p, "opening"), !.seen = 0] OBVIOUS
  <2>2. n.pc = "chain" /\ n.commit = q.commit /\ n.tree = HeadTree /\ n.torn = Torn(p, "opening")
    BY <1>0, <2>1 DEF GoTo, GateProcess
  <2>3. q.commit \in DOMAIN repo.trees /\ (q.seen = repo.moves => q.commit = repo.commit) BY <1>2 DEF ReadTree, Reading
  <2>4. "opening" \notin n.torn => q.seen = repo.moves BY <2>2 DEF Torn
  <2>5. "opening" \notin n.torn => n.tree = repo.trees[n.commit] BY <2>2, <2>3, <2>4 DEF HeadTree
  <2>6. Reading(n) BY <2>2, <2>3, <2>5 DEF Reading
  <2> QED BY <1>2, <2>1, <2>6, <1>s DEF ReadTree
<1>3. CASE RereadCommit(p)
  <2>1. PICK n : n = [GoTo(p, "headtree") EXCEPT !.current = repo.commit, !.seen = repo.moves] OBVIOUS
  <2>2. /\ n.pc = "headtree" /\ n.current = repo.commit /\ n.seen = repo.moves
        /\ n.commit = q.commit /\ n.tree = q.tree /\ n.torn = q.torn
    BY <1>0, <2>1 DEF GoTo, GateProcess
  <2>3. q.pc \in Identified BY <1>3 DEF RereadCommit, Identified, Signed
  <2>4. Reading(n) BY <1>0, <2>2, <2>3 DEF Reading
  <2> QED BY <1>3, <2>1, <2>4, <1>s DEF RereadCommit
<1>4. CASE CompareIdentity(p)
  <2>1. PICK n : n = [GoTo(p, "status") EXCEPT !.torn = Torn(p, "check"), !.current = 0] OBVIOUS
  <2>2. /\ n.pc = "status" /\ n.seen = q.seen /\ n.commit = q.commit /\ n.tree = q.tree /\ n.torn = Torn(p, "check")
    BY <1>0, <2>1 DEF GoTo, GateProcess
  <2>3. q.pc \in Identified /\ q.pc = "headtree" BY <1>4 DEF CompareIdentity, Identified, Signed
  <2>4. /\ q.commit \in DOMAIN repo.trees /\ ("opening" \notin q.torn => q.tree = repo.trees[q.commit])
        /\ q.seen <= repo.moves /\ (q.seen = repo.moves => q.current = repo.commit)
    BY <2>3 DEF Reading
  <2>5. ASSUME IdentityUnchanged(p) PROVE Reading(n)
    <3>1. q.seen = repo.moves => q.commit = repo.commit /\ q.tree = repo.trees[q.commit]
      BY <2>4, <2>5 DEF IdentityUnchanged, HeadTree
    <3>2. "check" \notin n.torn => q.seen = repo.moves BY <2>2 DEF Torn
    <3>3. "opening" \notin n.torn => "opening" \notin q.torn BY <2>2 DEF Torn
    <3> QED BY <2>2, <2>4, <3>1, <3>2, <3>3 DEF Reading
  <2> QED BY <1>4, <2>1, <2>5, <1>s DEF CompareIdentity
<1>5. CASE SampleStatus(p)
  <2>1. PICK n : n = [GoTo(p, "broadcast") EXCEPT !.sampled = repo.version] OBVIOUS
  <2>2. /\ n.pc = "broadcast" /\ n.seen = q.seen /\ n.commit = q.commit /\ n.tree = q.tree /\ n.torn = q.torn
        /\ n.sampled = repo.version
    BY <1>0, <2>1 DEF GoTo, GateProcess
  <2>3. q.pc \in Identified /\ q.pc = "status" BY <1>5 DEF SampleStatus, Identified, Signed
  <2>4. ~ repo.dirty => Reading(n) BY <1>0, <2>2, <2>3 DEF Reading
  <2> QED BY <1>5, <2>1, <2>4, <1>s DEF SampleStatus
<1> QED BY <1>1, <1>2, <1>3, <1>4, <1>5 DEF requireCleanRepository, requireRepositoryIdentityUnchanged

LEMMA ReadingStep ==
  ASSUME GateInv, ReadingInv, NEW p \in Procs, GateStep(p)
  PROVE  ReadingInv'
<1>0. proc \in [Procs -> GateProcess] /\ Reading(proc[p]) BY DEF GateInv, ReadingInv
<1>1. \E n : proc' = [proc EXCEPT ![p] = n] /\ Reading(n)
  <2> DEFINE Goal == \E n : proc' = [proc EXCEPT ![p] = n] /\ Reading(n)
             Moved == \E n : proc' = [proc EXCEPT ![p] = n] /\ Plain(proc[p], n)
  <2>1. Moved => Goal BY <1>0, PlainReads
  <2> HIDE DEF Moved
  <2>2. ASSUME requireCleanRepository(p) \/ requireRepositoryIdentityUnchanged(p) PROVE Goal
    BY <1>0, <2>2, Questions
  <2> HIDE DEF Goal
  <2>3. ASSUME Sg1Next(p) PROVE Moved \/ Goal
    BY <1>0, <2>2, <2>3, PlainSteps
    DEF Moved, Sg1Next, Sg1OpenContext, Sg1ConfirmChain, Sg1Prepare, Sg1Fund, Sg1Preflight, Sg1Sign, Sg1Repository,
        Sg1Broadcast, Sg1Poll, Sg1Deploy, Sg1ProbeReceipt
  <2>4. ASSUME Sg2Next(p) PROVE Moved \/ Goal
    BY <1>0, <2>2, <2>4, PlainSteps
    DEF Moved, Sg2Next, Sg2OpenContext, Sg2ConfirmChain, Sg2PrepareTransaction, Sg2Fund, runSg2Preflight, Sg2Sign,
        Sg2Repository, Sg2Broadcast, Sg2Poll, runSg2Deploy, Sg2CallReceipt
  <2>5. ASSUME RequestFails(p) PROVE Moved BY <1>0, <2>5, PlainSteps DEF Moved
  <2> QED BY <2>1, <2>3, <2>4, <2>5 DEF GateStep, Goal
<1>2. /\ UNCHANGED repo
      /\ UNCHANGED broadcasts \/ Broadcast(p)
  BY DEF GateStep, Sg1Next, Sg2Next, World, Sg1Start, Sg2Direct, Sg2Start, Sg2Dispatch, Sg1OpenContext, Sg2OpenContext,
     OpenContext, Sg1ConfirmChain, Sg2ConfirmChain, ConfirmChain, Sg1CheckTarget, Sg2CheckTarget, Sg1Encrypt, Sg2Encrypt,
     Sg2PublicDecrypt, Sg1Prepare, Sg2PrepareTransaction, ReadNonce, Estimate, Sg1Fund, Sg2Fund, Fund, Sg1Preflight,
     runSg2Preflight, PassPreflight, FailPreflight, Sg1Recheck, Sg2Recheck, Sg1Sign, Sg2Sign, Sign, Sg1Repository,
     Sg2Repository, requireCleanRepository, requireRepositoryIdentityUnchanged, ReadCommit, ReadTree, RereadCommit,
     CompareIdentity, SampleStatus, Sg1Broadcast, Sg2Broadcast, Broadcast, Sg1Poll, Sg2Poll, pollForTransactionReceipt,
     Sg1Deploy, runSg2Deploy, Rechain, TakeDeploymentReceipt, EmitDeployment, Sg1ProbeReceipt, Sg2CallReceipt,
     TakeCallReceipt, ConfirmCode, FinalChain, Sg1EmitProbe, Sg1FailProbe, runSg2Prepare, runSg2Verify,
     Sg2FailConclusion, RequestFails
<1>3. \A o \in Procs : Reading(proc'[o]) BY <1>0, <1>1 DEF ReadingInv
<1>4. \A o \in Procs : Reading(proc[o])'
  <2> SUFFICES ASSUME NEW o \in Procs PROVE Reading(proc[o])' OBVIOUS
  <2> QED BY <1>2, <1>3 DEF Reading
<1>5. ASSUME Broadcast(p) PROVE BroadcastFromCleanCommit'
  <2> DEFINE q == proc[p]
             Clean(b) == /\ b.repo.moves = b.seen => b.repo.commit = b.commit /\ b.repo.trees[b.commit] = b.tree
                         /\ b.repo.version = b.sampled => ~ b.repo.dirty
                         /\ "opening" \notin b.torn \/ "check" \notin b.torn => b.repo.trees[b.commit] = b.tree
  <2>1. PICK sent : sent = [id |-> q.id[1], by |-> p, commit |-> q.commit, tree |-> q.tree, seen |-> q.seen,
                            sampled |-> q.sampled, torn |-> q.torn, repo |-> repo] OBVIOUS
  <2>2. /\ sent.commit = q.commit /\ sent.tree = q.tree /\ sent.seen = q.seen /\ sent.sampled = q.sampled
        /\ sent.torn = q.torn /\ sent.repo = repo
    BY <2>1
  <2>3. broadcasts' = broadcasts \cup {sent} BY <1>5, <2>1 DEF Broadcast
  <2>4. q.pc = "broadcast" /\ q.pc \in Identified BY <1>5 DEF Broadcast, AtPoint, Identified, Signed
  <2>5. Clean(sent) BY <1>0, <2>2, <2>4 DEF Reading
  <2>6. \A b \in broadcasts : Clean(b) BY DEF ReadingInv, BroadcastFromCleanCommit
  <2>7. \A b \in broadcasts' : Clean(b) BY <2>3, <2>5, <2>6
  <2> QED BY <2>7 DEF BroadcastFromCleanCommit
<1>6. ASSUME UNCHANGED broadcasts PROVE BroadcastFromCleanCommit'
  BY <1>6 DEF ReadingInv, BroadcastFromCleanCommit
<1> QED BY <1>2, <1>4, <1>5, <1>6 DEF ReadingInv

(* What the three questions to git guarantee of the repository a transaction leaves from, although nothing locks *)
(* it between the questions, and between the last of them and the send.                                          *)
THEOREM BroadcastsAreClean == GateSpec => []BroadcastFromCleanCommit
<1>1. GateInit => ReadingInv
  <2> SUFFICES ASSUME GateInit PROVE ReadingInv OBVIOUS
  <2>1. Reading(Idle) BY DEF Reading, Idle, Identified, Decided, Signed
  <2>2. broadcasts = {} /\ \A p \in Procs : proc[p] = Idle BY DEF GateInit
  <2> QED BY <2>1, <2>2 DEF ReadingInv, BroadcastFromCleanCommit
<1>2. GateInv /\ ReadingInv /\ [GateNext]_gateVars => ReadingInv'
  <2> SUFFICES ASSUME GateInv, ReadingInv, [GateNext]_gateVars PROVE ReadingInv' OBVIOUS
  <2>1. ASSUME NEW p \in Procs, GateStep(p) PROVE ReadingInv' BY <2>1, ReadingStep
  <2>2. ASSUME UNCHANGED <<repo, proc, broadcasts>> PROVE ReadingInv'
    <3>1. \A p \in Procs : Reading(proc[p])'
      <4> SUFFICES ASSUME NEW p \in Procs PROVE Reading(proc[p])' OBVIOUS
      <4> QED BY <2>2 DEF Reading, ReadingInv
    <3> QED BY <2>2, <3>1 DEF ReadingInv, BroadcastFromCleanCommit
  <2>3. CASE RepositoryMoves
    <3>1. UNCHANGED <<proc, broadcasts>> BY <2>3 DEF RepositoryMoves, Edit, Discard, Commit, Checkout
    <3>2. \A p \in Procs : Reading(proc[p])'
      <4> SUFFICES ASSUME NEW p \in Procs PROVE Reading(proc[p])' OBVIOUS
      <4>1. PICK q \in GateProcess : q = proc[p] BY DEF GateInv
      <4>2. Reading(q)' BY <2>3, <4>1, ReadingKept DEF GateInv, ReadingInv
      <4> QED BY <3>1, <4>1, <4>2
    <3> QED BY <3>1, <3>2 DEF ReadingInv, BroadcastFromCleanCommit
  <2>4. CASE SwitchChain BY <2>2, <2>4 DEF SwitchChain
  <2>5. CASE \E target \in {0, 1} : Elsewhere(IF target = 0 THEN "increment" ELSE "initialize",
                                              IF target = 0 THEN 1 ELSE OtherValue, target)
    BY <2>2, <2>5 DEF Elsewhere
  <2>6. CASE \E t \in txs : Mine(t) \/ Forget(t) BY <2>2, <2>6 DEF Mine, Forget
  <2>7. CASE UNCHANGED gateVars BY <2>2, <2>7 DEF gateVars
  <2> QED BY <2>1, <2>3, <2>4, <2>5, <2>6, <2>7 DEF GateNext, GateEnvironment, RepositoryMoves
<1>3. ReadingInv => BroadcastFromCleanCommit BY DEF ReadingInv
<1> QED BY <1>1, <1>2, <1>3, GateInvariant, PTL DEF GateSpec

-----------------------------------------------------------------------------
(* Whatever a gate has printed of a deployment, a probe, a preparation or a verification is true of the chain. *)
THEOREM GateEvidence == GateSpec => []GateEvidenceIsTrue
<1>1. ASSUME GateInv PROVE GateEvidenceIsTrue
  <2> SUFFICES ASSUME NEW e \in evidence, e.event \notin Preflights
               PROVE  /\ StatusOf(e.id[1]) = "success"
                      /\ \E b \in broadcasts : b.id = e.id[1] /\ b.by = e.by /\ b.commit = e.commit /\ b.tree = e.tree
                      /\ LET c == contracts[e.address] IN
                           CASE e.event = "sg1:deploy" -> c.kind = "counter" /\ e.address = e.id[1].nonce
                             [] e.event = "sg2:deploy" -> c.kind = "probe" /\ e.address = e.id[1].nonce
                             [] e.event = "sg1:probe" -> c.first = e.id
                             [] e.event = "sg2:prepare" -> c.first = e.id /\ c.cipher = SG2_EXPECTED_VALUE
                             [] e.event = "sg2:verify" -> c.cipher = SG2_EXPECTED_VALUE /\ c.verified = SG2_EXPECTED_VALUE
    BY DEF GateEvidenceIsTrue
  <2>1. PICK s : s = e.id[1] OBVIOUS
  <2>2. EvidenceFor(e, s) /\ ChainInv BY <1>1, <2>1 DEF GateInv, EvidenceOK
  <2>3. PICK call : call = TaskCall(e.by, e.event) OBVIOUS
  <2>4. /\ e.event \in Deployments \cup Targeted /\ e.by \in Procs /\ e.id = <<s>> /\ s.call = call
        /\ Place(s) = e.address /\ Succeeded(s) /\ SentBy(e.by, e.commit, e.tree, s)
        /\ e.event \in Deployments => s.nonce = e.address
        /\ e.event = "sg1:probe" => Written(s, contracts[e.address])
    BY <2>2, <2>3 DEF EvidenceFor
  <2>5. e.by # OtherTool BY <2>4, GateConfiguration DEF OtherTool
  <2>6. /\ call.by # OtherTool
        /\ e.event = "sg1:deploy" => call.name = "deployCounter"
        /\ e.event = "sg2:deploy" => call.name = "deployProbe"
        /\ e.event = "sg2:prepare" => call.name = "initialize" /\ call.value = SG2_EXPECTED_VALUE
        /\ e.event = "sg2:verify" => call.name = "verify" /\ call.value = SG2_EXPECTED_VALUE
    BY <2>3, <2>4, <2>5 DEF TaskCall, Deployments, Targeted, Anybody, OtherTool
  <2>7. StatusOf(s) = "success" BY <2>2, <2>4, <2>6, GateStatus
  <2>8. PICK c : c = contracts[e.address] OBVIOUS
  <2>9. Left(s, c) BY <2>2, <2>4, <2>8 DEF Succeeded, ChainInv
  <2>10. CASE e.event = "sg1:deploy"
    BY <2>10, <2>1, <2>4, <2>6, <2>7, <2>8, <2>9 DEF Left, SentBy, Deployments
  <2>11. CASE e.event = "sg2:deploy"
    BY <2>11, <2>1, <2>4, <2>6, <2>7, <2>8, <2>9 DEF Left, SentBy, Deployments
  <2>12. CASE e.event = "sg1:probe"
    BY <2>12, <2>1, <2>4, <2>7, <2>8 DEF Written, SentBy
  <2>13. CASE e.event = "sg2:prepare"
    BY <2>13, <2>1, <2>4, <2>6, <2>7, <2>8, <2>9 DEF Left, SentBy
  <2>14. CASE e.event = "sg2:verify"
    BY <2>14, <2>1, <2>4, <2>6, <2>7, <2>8, <2>9 DEF Left, SentBy
  <2> QED BY <2>4, <2>10, <2>11, <2>12, <2>13, <2>14 DEF Deployments, Targeted
<1> QED BY <1>1, GateInvariant, PTL
-----------------------------------------------------------------------------
(* Loops: what Iterate computes. *)

LEMMA LeastNumber ==
  ASSUME NEW T \in SUBSET Nat, T # {}
  PROVE  \E x \in T : \A y \in T : x <= y
<1> DEFINE R == {ss \in Nat \X Nat : ss[1] < ss[2]}
<1>1. IsWellFoundedOn(R, Nat)
  BY NatLessThanWellFounded DEF OpToRel
<1>2. PICK x \in T : \A y \in T : ~(<<y, x>> \in R)
  <2> HIDE DEF R
  <2> QED BY <1>1, WFMin, Zenon
<1>3. ASSUME NEW y \in T PROVE x <= y
  <2>1. <<y, x>> \notin R /\ y \in Nat /\ x \in Nat
    BY <1>2
  <2> QED BY <2>1
<1> QED BY <1>3

\* g are the first n iterations.
Unrolled(g, n, start, step, S) ==
  /\ g \in [0 .. n -> S] /\ g[0] = start
  /\ \A k \in 1 .. n : g[k] = step[g[k - 1]]

LEMMA UnrolledExists ==
  ASSUME NEW S, NEW start \in S, NEW step \in [S -> S], NEW n \in Nat
  PROVE  \E g : Unrolled(g, n, start, step, S)
<1> DEFINE Bad == {k \in Nat : ~ \E g : Unrolled(g, k, start, step, S)}
<1> SUFFICES Bad = {} OBVIOUS
<1> SUFFICES ASSUME Bad # {} PROVE FALSE OBVIOUS
<1>1. PICK k \in Bad : \A y \in Bad : k <= y BY LeastNumber
<1>2. CASE k = 0
  <2>1. Unrolled([i \in 0 .. 0 |-> start], 0, start, step, S) BY DEF Unrolled
  <2> QED BY <1>1, <1>2, <2>1
<1>3. CASE k # 0
  <2>1. k \in Nat /\ k - 1 \in Nat /\ k - 1 \notin Bad BY <1>1, <1>3
  <2>2. PICK g : Unrolled(g, k - 1, start, step, S) BY <2>1
  <2>3. PICK h : h = [i \in 0 .. k |-> IF i = k THEN step[g[k - 1]] ELSE g[i]] OBVIOUS
  <2>4. g \in [0 .. k - 1 -> S] BY <2>2 DEF Unrolled
  <2>5. h \in [0 .. k -> S] BY <2>1, <2>3, <2>4
  <2>6. h[0] = start BY <1>3, <2>1, <2>2, <2>3 DEF Unrolled
  <2>7. ASSUME NEW i \in 1 .. k PROVE h[i] = step[h[i - 1]]
    <3>1. h[i - 1] = g[i - 1] BY <2>1, <2>3
    <3>2. CASE i = k BY <3>1, <3>2, <2>3
    <3>3. CASE i # k
      <4>1. i \in 1 .. k - 1 BY <3>3, <2>1
      <4>2. h[i] = g[i] BY <3>3, <2>3
      <4> QED BY <4>1, <4>2, <3>1, <2>2 DEF Unrolled
    <3> QED BY <3>2, <3>3
  <2>8. Unrolled(h, k, start, step, S) BY <2>5, <2>6, <2>7 DEF Unrolled
  <2> QED BY <2>8, <1>1
<1> QED BY <1>2, <1>3

LEMMA UnrolledAgree ==
  ASSUME NEW S, NEW start, NEW step, NEW n \in Nat, NEW m \in Nat, NEW g, NEW h,
         Unrolled(g, n, start, step, S), Unrolled(h, m, start, step, S), n <= m
  PROVE  \A k \in 0 .. n : g[k] = h[k]
<1> DEFINE Bad == {k \in Nat : k <= n /\ g[k] # h[k]}
<1> SUFFICES Bad = {} OBVIOUS
<1> SUFFICES ASSUME Bad # {} PROVE FALSE OBVIOUS
<1>1. PICK k \in Bad : \A y \in Bad : k <= y BY LeastNumber
<1>2. k # 0 BY <1>1 DEF Unrolled
<1>3. k - 1 \in Nat /\ k - 1 \notin Bad /\ k \in 1 .. n /\ k \in 1 .. m BY <1>1, <1>2
<1>4. g[k - 1] = h[k - 1] BY <1>3
<1> QED BY <1>1, <1>3, <1>4 DEF Unrolled

(* A loop does what it says: the state after k iterations is a step from the one after k - 1. *)
LEMMA IterateSteps ==
  ASSUME NEW S, NEW start \in S, NEW step \in [S -> S]
  PROVE  /\ Iterate(start, step, 0) = start
         /\ \A k \in Nat \ {0} : Iterate(start, step, k) = step[Iterate(start, step, k - 1)]
<1> DEFINE body(f) == [k \in Nat |-> IF k = 0 THEN start ELSE step[f[k - 1]]]
           first(k) == CHOOSE g : Unrolled(g, k, start, step, S)
           all == [k \in Nat |-> first(k)[k]]
<1>1. \A k \in Nat : Unrolled(first(k), k, start, step, S) BY UnrolledExists
<1>2. all = body(all)
  <2> HIDE DEF first
  <2>1. all[0] = start BY <1>1 DEF Unrolled
  <2>2. ASSUME NEW k \in Nat, k # 0 PROVE all[k] = step[all[k - 1]]
    <3>1. k - 1 \in Nat /\ k - 1 <= k BY <2>2
    <3>2. first(k - 1)[k - 1] = first(k)[k - 1] BY <3>1, <1>1, UnrolledAgree
    <3>3. first(k)[k] = step[first(k)[k - 1]] BY <2>2, <1>1 DEF Unrolled
    <3> QED BY <3>1, <3>2, <3>3
  <2> QED BY <2>1, <2>2
<1> DEFINE after == CHOOSE f : f = body(f)
<1>3. after = body(after) 
  <2>1. \E f : f = body(f) BY <1>2
  <2> QED BY <2>1
<1>4. \A k : Iterate(start, step, k) = after[k] BY DEF Iterate
<1> HIDE DEF after
<1>5. after[0] = start BY <1>3
<1>6. \A k \in Nat \ {0} : after[k] = step[after[k - 1]] BY <1>3
<1> QED BY <1>4, <1>5, <1>6
-----------------------------------------------------------------------------
(* The matcher of selectors decides what a pattern means. *)

Places(pattern, namespace) == [1 .. Len(pattern) + 1 -> 1 .. Len(namespace) + 1]

\* The characters of the pattern from p on have the places at.
Aligned(pattern, namespace, p, at) ==
  \A i \in p .. Len(pattern) :
    IF pattern[i] = Star THEN at[i] <= at[i + 1] ELSE at[i + 1] = at[i] + 1 /\ pattern[i] = namespace[at[i]]

\* The pattern from p on stands for the namespace from n on.
Rest(pattern, namespace, p, n) ==
  \E at \in Places(pattern, namespace) :
    at[p] = n /\ at[Len(pattern) + 1] = Len(namespace) + 1 /\ Aligned(pattern, namespace, p, at)

LEMMA RestRange ==
  ASSUME NEW pattern \in Seq(STRING), NEW namespace \in Seq(STRING),
         NEW p \in 1 .. Len(pattern) + 1, NEW n, Rest(pattern, namespace, p, n)
  PROVE  n \in 1 .. Len(namespace) + 1
BY DEF Rest, Places

LEMMA RestStar ==
  ASSUME NEW pattern \in Seq(STRING), NEW namespace \in Seq(STRING),
         NEW p \in 1 .. Len(pattern), pattern[p] = Star, NEW n \in 1 .. Len(namespace) + 1
  PROVE  Rest(pattern, namespace, p, n) <=> \E k \in Nat : k >= n /\ Rest(pattern, namespace, p + 1, k)
<1> DEFINE P == Len(pattern)
           N == Len(namespace)
<1>0. P \in Nat /\ N \in Nat OBVIOUS
<1>1. ASSUME Rest(pattern, namespace, p, n)
      PROVE  \E k \in Nat : k >= n /\ Rest(pattern, namespace, p + 1, k)
  <2>1. PICK at \in Places(pattern, namespace) : at[p] = n /\ at[P + 1] = N + 1 /\ Aligned(pattern, namespace, p, at)
    BY <1>1 DEF Rest
  <2>2. at[p + 1] \in 1 .. N + 1 BY <1>0 DEF Places
  <2>3. at[p] <= at[p + 1] BY <2>1, <1>0 DEF Aligned
  <2>4. Aligned(pattern, namespace, p + 1, at) BY <2>1, <1>0 DEF Aligned
  <2>5. Rest(pattern, namespace, p + 1, at[p + 1]) BY <2>1, <2>4 DEF Rest
  <2> QED BY <2>1, <2>2, <2>3, <2>5
<1>2. ASSUME NEW k \in Nat, k >= n, Rest(pattern, namespace, p + 1, k)
      PROVE  Rest(pattern, namespace, p, n)
  <2>1. PICK at \in Places(pattern, namespace) : at[p + 1] = k /\ at[P + 1] = N + 1 /\ Aligned(pattern, namespace, p + 1, at)
    BY <1>2 DEF Rest
  <2>2. PICK to : to = [at EXCEPT ![p] = n] OBVIOUS
  <2>3. to \in Places(pattern, namespace) BY <2>2, <1>0 DEF Places
  <2>4. to[p] = n /\ \A i \in 1 .. P + 1 : i # p => to[i] = at[i] BY <2>2, <1>0 DEF Places
  <2>5. to[p + 1] = k /\ to[P + 1] = N + 1 BY <2>1, <2>4, <1>0
  <2>6. Aligned(pattern, namespace, p, to)
    <3> SUFFICES ASSUME NEW i \in p .. P
                 PROVE IF pattern[i] = Star THEN to[i] <= to[i + 1]
                       ELSE to[i + 1] = to[i] + 1 /\ pattern[i] = namespace[to[i]]
      BY DEF Aligned
    <3>1. CASE i = p BY <3>1, <2>4, <2>5, <1>2
    <3>2. CASE i # p
      <4>1. i \in p + 1 .. P BY <3>2, <1>0
      <4>2. to[i] = at[i] /\ to[i + 1] = at[i + 1] BY <4>1, <2>4, <1>0
      <4> QED BY <4>1, <4>2, <2>1 DEF Aligned
    <3> QED BY <3>1, <3>2
  <2> QED BY <2>3, <2>4, <2>5, <2>6 DEF Rest
<1> QED BY <1>1, <1>2

LEMMA RestCharacter ==
  ASSUME NEW pattern \in Seq(STRING), NEW namespace \in Seq(STRING),
         NEW p \in 1 .. Len(pattern), pattern[p] # Star, NEW n \in 1 .. Len(namespace) + 1
  PROVE  Rest(pattern, namespace, p, n) <=>
           n <= Len(namespace) /\ pattern[p] = namespace[n] /\ Rest(pattern, namespace, p + 1, n + 1)
<1> DEFINE P == Len(pattern)
           N == Len(namespace)
<1>0. P \in Nat /\ N \in Nat OBVIOUS
<1>1. ASSUME Rest(pattern, namespace, p, n)
      PROVE  n <= N /\ pattern[p] = namespace[n] /\ Rest(pattern, namespace, p + 1, n + 1)
  <2>1. PICK at \in Places(pattern, namespace) : at[p] = n /\ at[P + 1] = N + 1 /\ Aligned(pattern, namespace, p, at)
    BY <1>1 DEF Rest
  <2>2. at[p + 1] \in 1 .. N + 1 BY <1>0 DEF Places
  <2>3. at[p + 1] = n + 1 /\ pattern[p] = namespace[n] BY <2>1, <1>0 DEF Aligned
  <2>4. Aligned(pattern, namespace, p + 1, at) BY <2>1, <1>0 DEF Aligned
  <2>5. Rest(pattern, namespace, p + 1, n + 1) BY <2>1, <2>3, <2>4 DEF Rest
  <2>6. n <= N BY <2>2, <2>3, <1>0
  <2> QED BY <2>3, <2>5, <2>6
<1>2. ASSUME n <= N, pattern[p] = namespace[n], Rest(pattern, namespace, p + 1, n + 1)
      PROVE  Rest(pattern, namespace, p, n)
  <2>1. PICK at \in Places(pattern, namespace) : at[p + 1] = n + 1 /\ at[P + 1] = N + 1 /\ Aligned(pattern, namespace, p + 1, at)
    BY <1>2 DEF Rest
  <2>2. PICK to : to = [at EXCEPT ![p] = n] OBVIOUS
  <2>3. to \in Places(pattern, namespace) BY <2>2, <1>0 DEF Places
  <2>4. to[p] = n /\ \A i \in 1 .. P + 1 : i # p => to[i] = at[i] BY <2>2, <1>0 DEF Places
  <2>5. to[p + 1] = n + 1 /\ to[P + 1] = N + 1 BY <2>1, <2>4, <1>0
  <2>6. Aligned(pattern, namespace, p, to)
    <3> SUFFICES ASSUME NEW i \in p .. P
                 PROVE IF pattern[i] = Star THEN to[i] <= to[i + 1]
                       ELSE to[i + 1] = to[i] + 1 /\ pattern[i] = namespace[to[i]]
      BY DEF Aligned
    <3>1. CASE i = p BY <3>1, <2>4, <2>5, <1>2
    <3>2. CASE i # p
      <4>1. i \in p + 1 .. P BY <3>2, <1>0
      <4>2. to[i] = at[i] /\ to[i + 1] = at[i + 1] BY <4>1, <2>4, <1>0
      <4> QED BY <4>1, <4>2, <2>1 DEF Aligned
    <3> QED BY <3>1, <3>2
  <2> QED BY <2>3, <2>4, <2>5, <2>6 DEF Rest
<1> QED BY <1>1, <1>2

LEMMA RestEmptyPattern ==
  ASSUME NEW pattern \in Seq(STRING), NEW namespace \in Seq(STRING), NEW n,
         Rest(pattern, namespace, Len(pattern) + 1, n)
  PROVE  n = Len(namespace) + 1
BY DEF Rest

(* At the end of the namespace only stars may be left. *)
LEMMA RestAtEnd ==
  ASSUME NEW pattern \in Seq(STRING), NEW namespace \in Seq(STRING), NEW p \in 1 .. Len(pattern) + 1
  PROVE  Rest(pattern, namespace, p, Len(namespace) + 1) <=> \A i \in p .. Len(pattern) : pattern[i] = Star
<1> DEFINE P == Len(pattern)
           N == Len(namespace)
<1>0. P \in Nat /\ N \in Nat OBVIOUS
<1>1. ASSUME \A i \in p .. P : pattern[i] = Star PROVE Rest(pattern, namespace, p, N + 1)
  <2>1. PICK at : at = [i \in 1 .. P + 1 |-> N + 1] OBVIOUS
  <2>2. at \in Places(pattern, namespace) BY <2>1, <1>0 DEF Places
  <2>3. at[p] = N + 1 /\ at[P + 1] = N + 1 BY <2>1, <1>0
  <2>4. Aligned(pattern, namespace, p, at) BY <2>1, <1>0, <1>1 DEF Aligned
  <2> QED BY <2>2, <2>3, <2>4 DEF Rest
<1>2. ASSUME Rest(pattern, namespace, p, N + 1), NEW i \in p .. P, pattern[i] # Star PROVE FALSE
  <2>1. PICK at \in Places(pattern, namespace) : at[p] = N + 1 /\ at[P + 1] = N + 1 /\ Aligned(pattern, namespace, p, at)
    BY <1>2 DEF Rest
  <2>2. \A j \in 1 .. P + 1 : at[j] \in 1 .. N + 1 BY DEF Places
  <2> DEFINE Low == {j \in Nat : p <= j /\ j <= P + 1 /\ at[j] # N + 1}
  <2>3. Low = {}
    <3> SUFFICES ASSUME Low # {} PROVE FALSE OBVIOUS
    <3>1. PICK j \in Low : \A y \in Low : j <= y BY LeastNumber
    <3>2. j # p BY <3>1, <2>1
    <3>3. j - 1 \in p .. P /\ j - 1 \in Nat BY <3>1, <3>2, <1>0
    <3>4. at[j - 1] = N + 1 BY <3>1, <3>3, <1>0
    <3>5. at[j] \in 1 .. N + 1 /\ at[j] # N + 1 /\ (j - 1) + 1 = j BY <3>1, <2>2, <1>0
    <3>6. at[j - 1] <= at[j] \/ at[j] = at[j - 1] + 1
      BY <3>3, <3>5, <2>1 DEF Aligned
    <3> QED BY <3>4, <3>5, <3>6, <1>0
  <2>4. at[i] = N + 1 BY <2>3, <1>0
  <2>5. at[i + 1] = at[i] + 1 BY <1>2, <2>1 DEF Aligned
  <2>6. at[i + 1] \in 1 .. N + 1 BY <2>2, <1>0
  <2> QED BY <2>4, <2>5, <2>6, <1>0
<1> QED BY <1>1, <1>2

LEMMA DenotesIsRest ==
  ASSUME NEW pattern, NEW namespace
  PROVE  Denotes(pattern, namespace) <=> Rest(pattern, namespace, 1, 1)
BY DEF Denotes, Rest, Places, Aligned

LEMMA MatchStepType ==
  ASSUME NEW pattern, NEW namespace
  PROVE  MatchStep(namespace, pattern) \in [Cursors -> Cursors] /\ AtStart \in Cursors
<1>1. AtStart \in Cursors BY DEF AtStart, Cursors
<1>2. ASSUME NEW c \in Cursors PROVE MatchStep(namespace, pattern)[c] \in Cursors
  <2>1. c.n + 1 \in Nat /\ c.p + 1 \in Nat /\ c.star + 1 \in Nat /\ c.starMatch + 1 \in Nat BY DEF Cursors
  <2> QED BY <2>1 DEF MatchStep, Cursors
<1>3. DOMAIN MatchStep(namespace, pattern) = Cursors BY DEF MatchStep
<1>4. MatchStep(namespace, pattern) = [c \in Cursors |-> MatchStep(namespace, pattern)[c]] BY DEF MatchStep
<1> QED BY <1>1, <1>2, <1>4

\* What the loop knows: before any star the pattern stands or falls with what is left of both; after one, with
\* the places from starMatch on, of which the one under trial is the first and has come as far as p and n.
MatchInv(c, namespace, pattern) ==
  /\ c \in Cursors /\ c.n \in 1 .. Len(namespace) + 1 /\ c.p \in 1 .. Len(pattern) + 1 /\ c.starMatch <= c.n
  /\ c.failed => ~ Denotes(pattern, namespace)
  /\ ~ c.failed /\ c.star = 0 => (Denotes(pattern, namespace) <=> Rest(pattern, namespace, c.p, c.n))
  /\ ~ c.failed /\ c.star # 0 =>
       /\ c.star <= Len(pattern) /\ c.star < c.p /\ c.starMatch >= 1
       /\ Denotes(pattern, namespace) <=>
            \E k \in Nat : k >= c.starMatch /\ Rest(pattern, namespace, c.star + 1, k)
       /\ Rest(pattern, namespace, c.p, c.n) => Rest(pattern, namespace, c.star + 1, c.starMatch)
       /\ \A k \in Nat : k >= c.starMatch /\ Rest(pattern, namespace, c.star + 1, k) =>
                           Rest(pattern, namespace, c.p, k + (c.n - c.starMatch))

Running(c, namespace) == ~ c.failed /\ c.n <= Len(namespace)

LEMMA MatchKept ==
  ASSUME NEW pattern \in Seq(STRING), NEW namespace \in Seq(STRING), NEW c, MatchInv(c, namespace, pattern)
  PROVE  MatchInv(MatchStep(namespace, pattern)[c], namespace, pattern)
<1> DEFINE P == Len(pattern)
           N == Len(namespace)
           D == Denotes(pattern, namespace)
           R(p, n) == Rest(pattern, namespace, p, n)
<1>0. P \in Nat /\ N \in Nat OBVIOUS
<1>1. PICK d : d = MatchStep(namespace, pattern)[c] OBVIOUS
<1>2. c \in Cursors /\ c.n \in 1 .. N + 1 /\ c.p \in 1 .. P + 1 /\ c.starMatch <= c.n BY DEF MatchInv
<1>3. c.n \in Nat /\ c.p \in Nat /\ c.star \in Nat /\ c.starMatch \in Nat /\ c.failed \in BOOLEAN BY <1>2 DEF Cursors
<1>4. d = IF c.failed \/ c.n > N THEN c
          ELSE IF c.p <= P /\ pattern[c.p] = Star THEN [c EXCEPT !.p = @ + 1, !.star = c.p, !.starMatch = c.n]
          ELSE IF c.p <= P /\ pattern[c.p] = namespace[c.n] THEN [c EXCEPT !.n = @ + 1, !.p = @ + 1]
          ELSE IF c.star /= 0 THEN [c EXCEPT !.n = c.starMatch + 1, !.p = c.star + 1, !.starMatch = @ + 1]
          ELSE [c EXCEPT !.failed = TRUE]
  BY <1>1, <1>2 DEF MatchStep
<1>5. d \in Cursors BY <1>1, <1>2, MatchStepType
<1>s. ~ c.failed /\ c.star # 0 =>
       /\ c.star <= P /\ c.star < c.p /\ c.starMatch >= 1
       /\ D <=> \E k \in Nat : k >= c.starMatch /\ R(c.star + 1, k)
       /\ R(c.p, c.n) => R(c.star + 1, c.starMatch)
       /\ \A k \in Nat : k >= c.starMatch /\ R(c.star + 1, k) => R(c.p, k + (c.n - c.starMatch))
  BY DEF MatchInv
<1>t. ~ c.failed /\ c.star # 0 => c.star <= P /\ c.star < c.p /\ c.starMatch >= 1 BY DEF MatchInv
<1>n. ~ c.failed /\ c.star = 0 => (D <=> R(c.p, c.n)) BY DEF MatchInv
<1> HIDE DEF D, R
<1>6. CASE c.failed \/ c.n > N
  BY <1>1, <1>4, <1>6
<1>7. CASE ~ c.failed /\ c.n <= N /\ c.p <= P /\ pattern[c.p] = Star
  <2>1. d.n = c.n /\ d.p = c.p + 1 /\ d.star = c.p /\ d.starMatch = c.n /\ d.failed = c.failed
    BY <1>2, <1>4, <1>7 DEF Cursors
  <2>2. R(c.p, c.n) <=> \E k \in Nat : k >= c.n /\ R(c.p + 1, k)
    BY <1>0, <1>2, <1>3, <1>7, RestStar DEF R
  <2>3. D <=> R(c.p, c.n)
    <3>1. CASE c.star = 0 BY <3>1, <1>7, <1>n
    <3>2. CASE c.star # 0
      <4>1. R(c.p, c.n) => D BY <3>2, <1>3, <1>7, <1>s
      <4>2. ASSUME D PROVE R(c.p, c.n)
        <5>1. PICK k \in Nat : k >= c.starMatch /\ R(c.star + 1, k) BY <4>2, <3>2, <1>7, <1>s
        <5>2. PICK m : m = k + (c.n - c.starMatch) OBVIOUS
        <5>3. m >= c.n /\ m \in Nat BY <5>1, <5>2, <1>2, <1>3
        <5>4. R(c.p, m) BY <5>1, <5>2, <3>2, <1>7, <1>s
        <5>5. m \in 1 .. N + 1 BY <5>4, <1>2, RestRange DEF R
        <5>6. PICK j \in Nat : j >= m /\ R(c.p + 1, j) BY <5>4, <5>5, <1>0, <1>2, <1>3, <1>7, RestStar DEF R
        <5>7. j >= c.n BY <5>3, <5>6, <1>3
        <5> QED BY <5>6, <5>7, <2>2
      <4> QED BY <4>1, <4>2
    <3> QED BY <3>1, <3>2
  <2>4. \A k \in Nat : k + (c.n - c.n) = k BY <1>3
  <2>5. d.n \in 1 .. N + 1 /\ d.p \in 1 .. P + 1 /\ d.starMatch <= d.n /\ d.star <= P /\ d.star < d.p /\ d.starMatch >= 1
        /\ ~ d.failed /\ d.star # 0
    BY <2>1, <1>0, <1>2, <1>3, <1>7
  <2> QED BY <2>1, <2>2, <2>3, <2>4, <2>5, <1>1, <1>5 DEF MatchInv, D, R
<1>8. CASE ~ c.failed /\ c.n <= N /\ c.p <= P /\ pattern[c.p] # Star /\ pattern[c.p] = namespace[c.n]
  <2>1. d.n = c.n + 1 /\ d.p = c.p + 1 /\ d.star = c.star /\ d.starMatch = c.starMatch /\ d.failed = c.failed
    BY <1>2, <1>4, <1>8 DEF Cursors
  <2>2. R(c.p, c.n) <=> R(c.p + 1, c.n + 1)
    BY <1>0, <1>2, <1>3, <1>8, RestCharacter DEF R
  <2>3. d.n \in 1 .. N + 1 /\ d.p \in 1 .. P + 1 /\ d.starMatch <= d.n
    <3> HIDE DEF N, P
    <3>1. \A i, j \in Nat : i <= j => i + 1 \in 1 .. j + 1 OBVIOUS
    <3>2. c.n + 1 \in 1 .. N + 1 /\ c.p + 1 \in 1 .. P + 1 BY <3>1, <1>0, <1>3, <1>8
    <3>3. c.starMatch <= c.n + 1 BY <1>2, <1>3
    <3> QED BY <2>1, <3>2, <3>3
  <2>4. CASE c.star = 0
    <3>1. D <=> R(d.p, d.n) BY <2>1, <2>2, <2>4, <1>8, <1>n
    <3> QED BY <2>1, <2>3, <2>4, <3>1, <1>1, <1>5, <1>8 DEF MatchInv, D, R
  <2>5. CASE c.star # 0
    <3>1. D <=> \E k \in Nat : k >= d.starMatch /\ R(d.star + 1, k) BY <2>1, <2>5, <1>8, <1>s
    <3>2. R(d.p, d.n) => R(d.star + 1, d.starMatch) BY <2>1, <2>2, <2>5, <1>8, <1>s
    <3>3. ASSUME NEW k \in Nat, k >= d.starMatch, R(d.star + 1, k) PROVE R(d.p, k + (d.n - d.starMatch))
      <4>1. PICK m : m = k + (c.n - c.starMatch) OBVIOUS
      <4>2. m + 1 = k + (d.n - d.starMatch)
        <5>1. m + 1 = k + ((c.n + 1) - c.starMatch) BY <4>1, <1>3
        <5> QED BY <5>1, <2>1
      <4>3. R(c.p, m) BY <4>1, <3>3, <2>1, <2>5, <1>8, <1>s
      <4>4. m \in 1 .. N + 1 BY <4>3, <1>2, RestRange DEF R
      <4>5. R(c.p + 1, m + 1) BY <4>3, <4>4, <1>0, <1>2, <1>3, <1>8, RestCharacter DEF R
      <4> QED BY <4>2, <4>5, <2>1
    <3>4. d.star <= P /\ d.star < d.p /\ d.starMatch >= 1 BY <2>1, <2>5, <1>3, <1>8, <1>s
    <3> QED BY <2>1, <2>3, <2>5, <3>1, <3>2, <3>3, <3>4, <1>1, <1>5, <1>8 DEF MatchInv, D, R
  <2> QED BY <2>4, <2>5
<1>9. CASE ~ c.failed /\ c.n <= N /\ (c.p > P \/ (pattern[c.p] # Star /\ pattern[c.p] # namespace[c.n]))
  <2>1. ~ R(c.p, c.n)
    <3>1. CASE c.p > P
      <4>1. c.p = P + 1 BY <3>1, <1>0, <1>2
      <4> QED BY <4>1, <1>0, <1>2, <1>3, <1>9, RestEmptyPattern DEF R
    <3>2. CASE c.p <= P BY <3>2, <1>0, <1>2, <1>3, <1>9, RestCharacter DEF R
    <3> QED BY <3>1, <3>2, <1>0, <1>3
  <2>2. CASE c.star # 0
    <3>1. d.n = c.starMatch + 1 /\ d.p = c.star + 1 /\ d.star = c.star /\ d.starMatch = c.starMatch + 1 /\ d.failed = c.failed
      BY <2>2, <1>0, <1>2, <1>3, <1>4, <1>9 DEF Cursors
    <3>2. ~ R(c.star + 1, c.starMatch)
      <4>1. c.starMatch + (c.n - c.starMatch) = c.n BY <1>3
      <4> QED BY <4>1, <2>1, <2>2, <1>3, <1>9, <1>s
    <3>3. D <=> \E k \in Nat : k >= d.starMatch /\ R(d.star + 1, k)
      <4>1. \A k \in Nat : k >= c.starMatch /\ R(c.star + 1, k) => k >= c.starMatch + 1
        BY <3>2, <1>3
      <4>2. \A k \in Nat : k >= c.starMatch + 1 => k >= c.starMatch BY <1>3
      <4> QED BY <4>1, <4>2, <3>1, <2>2, <1>9, <1>s
    <3>4. \A k \in Nat : k + (d.n - d.starMatch) = k BY <3>1, <1>3
    <3>5. /\ d.n \in 1 .. N + 1 /\ d.p \in 1 .. P + 1 /\ d.starMatch <= d.n
          /\ d.star <= P /\ d.star < d.p /\ d.starMatch >= 1
      <4> HIDE DEF N, P
      <4>1. c.star <= P /\ c.starMatch >= 1 /\ c.n <= N BY <2>2, <1>9, <1>t
      <4>0. \A i, j \in Nat : i <= j => i + 1 \in 1 .. j + 1 OBVIOUS
      <4>m. c.starMatch <= N BY <4>1, <1>0, <1>2, <1>3
      <4>2. c.starMatch + 1 \in 1 .. N + 1 /\ c.star + 1 \in 1 .. P + 1 BY <4>0, <4>1, <4>m, <1>0, <1>3
      <4> QED BY <4>1, <4>2, <3>1, <1>3
    <3> QED BY <3>1, <3>3, <3>4, <3>5, <2>2, <1>1, <1>5, <1>9 DEF MatchInv, D, R
  <2>3. CASE c.star = 0
    <3>1. d.n = c.n /\ d.p = c.p /\ d.star = c.star /\ d.starMatch = c.starMatch /\ d.failed = TRUE
      BY <2>3, <1>0, <1>2, <1>3, <1>4, <1>9 DEF Cursors
    <3>2. ~ D BY <2>1, <2>3, <1>9, <1>n
    <3> QED BY <3>1, <3>2, <1>1, <1>2, <1>5 DEF MatchInv, D, R
  <2> QED BY <2>2, <2>3
<1> QED BY <1>0, <1>3, <1>6, <1>7, <1>8, <1>9

Progress(c, pattern) == c.starMatch * (Len(pattern) + 2) + c.p

LEMMA ProductGrows ==
  ASSUME NEW a \in Nat, NEW b \in Nat, NEW w \in Nat, a <= b
  PROVE  a * w \in Nat /\ b * w \in Nat /\ a * w <= b * w /\ (a + 1) * w = a * w + w
<1>1. PICK e \in Nat : b = a + e
  <2>1. b - a \in Nat /\ b = a + (b - a) OBVIOUS
  <2> QED BY <2>1
<1>2. e * w \in Nat /\ a * w \in Nat OBVIOUS
<1>3. b * w = a * w + e * w BY <1>1
<1>4. (a + 1) * w = a * w + w OBVIOUS
<1> QED BY <1>2, <1>3, <1>4

LEMMA MatchProgresses ==
  ASSUME NEW pattern \in Seq(STRING), NEW namespace \in Seq(STRING), NEW c, MatchInv(c, namespace, pattern),
         Running(MatchStep(namespace, pattern)[c], namespace)
  PROVE  /\ Running(c, namespace)
         /\ Progress(MatchStep(namespace, pattern)[c], pattern) >= Progress(c, pattern) + 1
<1> DEFINE P == Len(pattern)
           N == Len(namespace)
           W == P + 2
<1>0. P \in Nat /\ N \in Nat /\ W \in Nat OBVIOUS
<1>1. PICK d : d = MatchStep(namespace, pattern)[c] OBVIOUS
<1>2. c \in Cursors /\ c.n \in 1 .. N + 1 /\ c.p \in 1 .. P + 1 /\ c.starMatch <= c.n BY DEF MatchInv
<1>3. c.n \in Nat /\ c.p \in Nat /\ c.star \in Nat /\ c.starMatch \in Nat /\ c.failed \in BOOLEAN BY <1>2 DEF Cursors
<1>4. d = IF c.failed \/ c.n > N THEN c
          ELSE IF c.p <= P /\ pattern[c.p] = Star THEN [c EXCEPT !.p = @ + 1, !.star = c.p, !.starMatch = c.n]
          ELSE IF c.p <= P /\ pattern[c.p] = namespace[c.n] THEN [c EXCEPT !.n = @ + 1, !.p = @ + 1]
          ELSE IF c.star /= 0 THEN [c EXCEPT !.n = c.starMatch + 1, !.p = c.star + 1, !.starMatch = @ + 1]
          ELSE [c EXCEPT !.failed = TRUE]
  BY <1>1, <1>2 DEF MatchStep
<1>d. d.n \in Nat BY <1>1, <1>2, MatchStepType DEF Cursors
<1>5. ~ d.failed /\ ~ (d.n > N) BY <1>0, <1>1, <1>d DEF Running
<1>6. ~ c.failed /\ ~ (c.n > N)
  BY <1>4, <1>5
<1>7. Running(c, namespace) BY <1>0, <1>3, <1>6 DEF Running
<1> DEFINE m == c.starMatch * W
<1>8. m \in Nat /\ (c.starMatch + 1) * W = m + W /\ c.n * W \in Nat /\ m <= c.n * W
  BY <1>0, <1>2, <1>3, ProductGrows
<1>9. CASE c.p <= P /\ pattern[c.p] = Star
  <2>1. d.p = c.p + 1 /\ d.starMatch = c.n BY <1>2, <1>4, <1>6, <1>9 DEF Cursors
  <2>2. c.n * W + (c.p + 1) >= (m + c.p) + 1
    <3> HIDE DEF m, W
    <3> QED BY <1>0, <1>3, <1>8
  <2> QED BY <2>1, <2>2, <1>1, <1>7 DEF Progress
<1>10. CASE c.p <= P /\ pattern[c.p] # Star /\ pattern[c.p] = namespace[c.n]
  <2>1. d.p = c.p + 1 /\ d.starMatch = c.starMatch BY <1>2, <1>4, <1>6, <1>10 DEF Cursors
  <2>2. m + (c.p + 1) >= (m + c.p) + 1
    <3> HIDE DEF m, W
    <3> QED BY <1>0, <1>3, <1>8
  <2> QED BY <2>1, <2>2, <1>1, <1>7 DEF Progress
<1>11. CASE ~ (c.p <= P /\ (pattern[c.p] = Star \/ pattern[c.p] = namespace[c.n]))
  <2>1. c.star # 0
    <3> SUFFICES ASSUME c.star = 0 PROVE FALSE OBVIOUS
    <3>1. d = [c EXCEPT !.failed = TRUE] BY <1>4, <1>6, <1>11
    <3> QED BY <3>1, <1>2, <1>5 DEF Cursors
  <2>2. d = [c EXCEPT !.n = c.starMatch + 1, !.p = c.star + 1, !.starMatch = @ + 1] BY <2>1, <1>4, <1>6, <1>11
  <2>3. d.p = c.star + 1 /\ d.starMatch = c.starMatch + 1 BY <2>2, <1>2 DEF Cursors
  <2>4. (m + W) + (c.star + 1) >= (m + c.p) + 1
    <3>1. c.p <= W BY <1>0, <1>2
    <3>2. m \in Nat BY <1>8
    <3> HIDE DEF m, W
    <3> QED BY <3>1, <3>2, <1>0, <1>3
  <2> QED BY <2>3, <2>4, <1>1, <1>7, <1>8 DEF Progress
<1> QED BY <1>9, <1>10, <1>11

LEMMA MatchBounded ==
  ASSUME NEW pattern \in Seq(STRING), NEW namespace \in Seq(STRING), NEW c, MatchInv(c, namespace, pattern),
         Running(c, namespace)
  PROVE  Progress(c, pattern) \in Nat /\ Progress(c, pattern) <= Iterations(namespace, pattern)
<1> DEFINE P == Len(pattern)
           N == Len(namespace)
           W == P + 2
<1>0. P \in Nat /\ N \in Nat /\ W \in Nat OBVIOUS
<1>1. c \in Cursors /\ c.n \in 1 .. N + 1 /\ c.p \in 1 .. P + 1 /\ c.starMatch <= c.n /\ c.n <= N BY DEF MatchInv, Running
<1>2. c.n \in Nat /\ c.p \in Nat /\ c.starMatch \in Nat BY <1>1 DEF Cursors
<1>3. c.starMatch <= N + 1 /\ N + 1 \in Nat /\ c.p <= W BY <1>0, <1>1, <1>2
<1>4. c.starMatch * W \in Nat /\ c.starMatch * W <= (N + 1) * W /\ (N + 1) * W \in Nat /\ ((N + 1) + 1) * W = (N + 1) * W + W
  <2> HIDE DEF W, N
  <2>1. ((N + 1) + 1) * W = (N + 1) * W + W BY <1>0, <1>3, ProductGrows
  <2> QED BY <2>1, <1>0, <1>2, <1>3, ProductGrows
<1>5. (N + 1) + 1 = N + 2 BY <1>0
<1>6. c.starMatch * W + c.p \in Nat /\ c.starMatch * W + c.p <= (N + 2) * W
  <2>1. PICK x \in Nat, y \in Nat : x = c.starMatch * W /\ y = (N + 1) * W BY <1>4
  <2>2. x <= y /\ (N + 2) * W = y + W BY <2>1, <1>4, <1>5
  <2> HIDE DEF W, N
  <2>3. x + c.p \in Nat /\ x + c.p <= y + W BY <2>2, <1>0, <1>2, <1>3
  <2> QED BY <2>1, <2>2, <2>3
<1> QED BY <1>6 DEF Progress, Iterations

(* The matcher of the launcher decides what a pattern means, for every pattern and every namespace: however *)
(* often it goes back to the last star, it misses no way to place one, and it stops.                         *)
THEOREM MatcherIsCorrect ==
  ASSUME NEW pattern \in Seq(STRING), NEW namespace \in Seq(STRING)
  PROVE  debugPatternMatches(namespace, pattern) <=> Denotes(pattern, namespace)
<1> DEFINE P == Len(pattern)
           N == Len(namespace)
           after(k) == Iterate(AtStart, MatchStep(namespace, pattern), k)
           Sound(k) == /\ MatchInv(after(k), namespace, pattern)
                       /\ Running(after(k), namespace) => Progress(after(k), pattern) >= k + 1
<1>0. P \in Nat /\ N \in Nat OBVIOUS
<1>1. after(0) = AtStart /\ \A k \in Nat \ {0} : after(k) = MatchStep(namespace, pattern)[after(k - 1)]
  BY MatchStepType, IterateSteps
<1>2. Sound(0)
  <2>1. AtStart.n = 1 /\ AtStart.p = 1 /\ AtStart.star = 0 /\ AtStart.starMatch = 0 /\ AtStart.failed = FALSE
    BY DEF AtStart
  <2>2. MatchInv(AtStart, namespace, pattern)
    BY <2>1, <1>0, MatchStepType, DenotesIsRest DEF MatchInv
  <2>3. 0 * (P + 2) = 0 BY <1>0
  <2>4. Progress(AtStart, pattern) = 1 BY <2>1, <2>3 DEF Progress
  <2> QED BY <1>1, <2>2, <2>4
<1> HIDE DEF after
<1>3. ASSUME NEW k \in Nat, Sound(k) PROVE Sound(k + 1)
  <2>1. after(k + 1) = MatchStep(namespace, pattern)[after(k)]
    <3>1. k + 1 \in Nat \ {0} /\ (k + 1) - 1 = k OBVIOUS
    <3> QED BY <3>1, <1>1
  <2>2. MatchInv(after(k + 1), namespace, pattern) BY <2>1, <1>3, MatchKept
  <2>3. ASSUME Running(after(k + 1), namespace) PROVE Progress(after(k + 1), pattern) >= (k + 1) + 1
    <3>1. Running(after(k), namespace) /\ Progress(after(k + 1), pattern) >= Progress(after(k), pattern) + 1
      BY <2>1, <2>3, <1>3, MatchProgresses
    <3>2. PICK x \in Nat : x = Progress(after(k), pattern) BY <3>1, <1>3, MatchBounded
    <3>3. PICK y \in Nat : y = Progress(after(k + 1), pattern) BY <2>2, <2>3, MatchBounded
    <3>4. x >= k + 1 /\ y >= x + 1 BY <3>1, <3>2, <3>3, <1>3
    <3>5. y >= (k + 1) + 1 BY <3>4
    <3> QED BY <3>3, <3>5
  <2> QED BY <2>2, <2>3
<1>4. \A k \in Nat : Sound(k)
  <2> DEFINE Bad == {k \in Nat : ~ Sound(k)}
  <2> HIDE DEF Sound
  <2> SUFFICES ASSUME Bad # {} PROVE FALSE OBVIOUS
  <2>1. PICK k \in Bad : \A y \in Bad : k <= y BY LeastNumber
  <2>2. k # 0 /\ k \in Nat BY <2>1, <1>2
  <2>3. k - 1 \in Nat /\ (k - 1) + 1 = k BY <2>2
  <2>4. Sound(k - 1) BY <2>1, <2>3
  <2> QED BY <2>1, <2>3, <2>4, <1>3
<1>5. Iterations(namespace, pattern) \in Nat
  <2>1. N + 2 \in Nat /\ P + 2 \in Nat BY <1>0
  <2> QED BY <2>1 DEF Iterations
<1>6. PICK c : c = after(Iterations(namespace, pattern)) OBVIOUS
<1>7. MatchInv(c, namespace, pattern) BY <1>4, <1>5, <1>6
<1>8. ~ Running(c, namespace)
  <2> SUFFICES ASSUME Running(c, namespace) PROVE FALSE OBVIOUS
  <2>1. PICK x \in Nat : x = Progress(c, pattern) BY <1>7, MatchBounded
  <2>2. PICK y \in Nat : y = Iterations(namespace, pattern) BY <1>5
  <2>3. x <= y BY <2>1, <2>2, <1>7, MatchBounded
  <2>4. x >= y + 1 BY <2>1, <2>2, <1>4, <1>6
  <2> QED BY <2>3, <2>4
<1>9. debugPatternMatches(namespace, pattern) <=> Accepts(c, namespace, pattern)
  BY <1>6 DEF debugPatternMatches, after
<1>10. CASE c.failed BY <1>10, <1>7, <1>9 DEF MatchInv, Accepts
<1>11. CASE ~ c.failed
  <2>1. c.n = N + 1 /\ c.p \in 1 .. P + 1 /\ c.starMatch \in Nat /\ c.starMatch <= c.n
    BY <1>0, <1>7, <1>8, <1>11 DEF MatchInv, Running, Cursors
  <2>2. Accepts(c, namespace, pattern) <=> Rest(pattern, namespace, c.p, N + 1)
    BY <2>1, <1>0, <1>11, RestAtEnd DEF Accepts
  <2>3. CASE c.star = 0 BY <2>1, <2>2, <2>3, <1>7, <1>9, <1>11 DEF MatchInv
  <2>4. CASE c.star # 0
    <3>1. /\ Denotes(pattern, namespace) <=> \E k \in Nat : k >= c.starMatch /\ Rest(pattern, namespace, c.star + 1, k)
          /\ Rest(pattern, namespace, c.p, c.n) => Rest(pattern, namespace, c.star + 1, c.starMatch)
          /\ \A k \in Nat : k >= c.starMatch /\ Rest(pattern, namespace, c.star + 1, k) =>
                           Rest(pattern, namespace, c.p, k + (c.n - c.starMatch))
      BY <2>4, <1>7, <1>11 DEF MatchInv
    <3>2. ASSUME Rest(pattern, namespace, c.p, N + 1) PROVE Denotes(pattern, namespace)
      BY <3>1, <3>2, <2>1
    <3>3. ASSUME Denotes(pattern, namespace) PROVE Rest(pattern, namespace, c.p, N + 1)
      <4>1. PICK k \in Nat : k >= c.starMatch /\ Rest(pattern, namespace, c.star + 1, k) BY <3>1, <3>3
      <4>2. PICK m : m = k + (c.n - c.starMatch) OBVIOUS
      <4>3. Rest(pattern, namespace, c.p, m) BY <3>1, <4>1, <4>2
      <4>4. m \in 1 .. N + 1 BY <4>3, <2>1, RestRange
      <4>5. m = N + 1 BY <4>1, <4>2, <4>4, <2>1, <1>0
      <4> QED BY <4>3, <4>5
    <3> QED BY <3>2, <3>3, <2>2, <1>9
  <2> QED BY <2>3, <2>4
<1> QED BY <1>10, <1>11

(* What the launcher looks for in a selector is what the selector lets speak. *)
LEMMA EnabledIsSpeaking ==
  ASSUME NEW selector \in Seq(Seq(STRING) \ {<<>>}), NEW namespace \in Seq(STRING)
  PROVE  debugNamespaceEnabled(selector, namespace) <=> Speaks(selector, namespace)
<1>1. ASSUME NEW x \in Exclusions(selector) PROVE x \in Seq(STRING)
  <2>1. PICK i \in DOMAIN selector : x = Tail(selector[i]) BY <1>1 DEF Exclusions
  <2>2. selector[i] \in Seq(STRING) /\ selector[i] # <<>> OBVIOUS
  <2> QED BY <2>1, <2>2
<1>2. ASSUME NEW x \in Inclusions(selector) PROVE x \in Seq(STRING)
  <2>1. PICK i \in DOMAIN selector : x = selector[i] BY <1>2 DEF Inclusions
  <2> QED BY <2>1
<1>3. \A x \in Exclusions(selector) : debugPatternMatches(namespace, x) <=> Denotes(x, namespace)
  BY <1>1, MatcherIsCorrect
<1>4. \A x \in Inclusions(selector) : debugPatternMatches(namespace, x) <=> Denotes(x, namespace)
  BY <1>2, MatcherIsCorrect
<1> QED BY <1>3, <1>4 DEF debugNamespaceEnabled, Speaks

LEMMA SilentSelectors ==
  /\ \A selector \in Selectors : ~ forbiddenDebugEnabled(selector, Forbidden)
       => \A namespace \in Forbidden : ~ Speaks(selector, namespace)
  /\ \A namespace : ~ Speaks(<<>>, namespace)
<1>1. ASSUME NEW selector \in Selectors, ~ forbiddenDebugEnabled(selector, Forbidden), NEW namespace \in Forbidden
      PROVE  ~ Speaks(selector, namespace)
  <2>1. selector \in Seq(Seq(STRING) \ {<<>>}) /\ namespace \in Seq(STRING) BY GateConfiguration
  <2>2. ~ debugNamespaceEnabled(selector, namespace) BY <1>1 DEF forbiddenDebugEnabled
  <2> QED BY <2>1, <2>2, EnabledIsSpeaking
<1>2. ASSUME NEW namespace PROVE ~ Speaks(<<>>, namespace)
  <2>1. Inclusions(<<>>) = {} BY DEF Inclusions
  <2> QED BY <2>1 DEF Speaks
<1> QED BY <1>1, <1>2

-----------------------------------------------------------------------------
(* From one place to the next a task keeps its name and its capability, and its selector or none. *)
Onward(q, n) ==
  \/ n \in {Ended("failed"), Ended("passed")}
  \/ /\ q.pc \in Live \ {"hardhat"} /\ n.pc \in Live \ {"hardhat"}
     /\ n.task = q.task /\ n.capability = q.capability /\ n.selector \in {q.selector, <<>>}

LEMMA AuthorizedEnded ==
  ASSUME NEW point \in {"failed", "passed"}
  PROVE  Authorized(Ended(point))
<1>1. Ended(point).pc = point /\ Ended(point).task = "none" BY DEF Ended, Idle
<1> QED BY <1>1 DEF Authorized, Live, Unsigned, Decided, Signed, Successful, Sg2Tasks

LEMMA AuthorizedOnward ==
  ASSUME NEW q, NEW n, Authorized(q), Onward(q, n)
  PROVE  Authorized(n)
<1>1. CASE n \in {Ended("failed"), Ended("passed")} BY <1>1, AuthorizedEnded
<1>2. CASE /\ q.pc \in Live \ {"hardhat"} /\ n.pc \in Live \ {"hardhat"}
           /\ n.task = q.task /\ n.capability = q.capability /\ n.selector \in {q.selector, <<>>}
  <2>1. \A namespace \in Forbidden : ~ Speaks(n.selector, namespace) BY <1>2, SilentSelectors DEF Authorized
  <2>2. n.task \in Sg2Tasks => n.capability = [action |-> n.task, consumed |-> TRUE, revoked |-> FALSE]
    BY <1>2 DEF Authorized
  <2> QED BY <1>2, <2>1, <2>2 DEF Authorized
<1> QED BY <1>1, <1>2 DEF Onward

LEMMA OnwardStep ==
  ASSUME NEW p \in Procs, NEW ok, NEW next, Step(p, ok, next), Onward(proc[p], next)
  PROVE  \E n : proc' = [proc EXCEPT ![p] = n] /\ Onward(proc[p], n)
<1>1. CASE ok BY <1>1 DEF Step
<1>2. CASE ~ ok BY <1>2 DEF Step, Onward
<1> QED BY <1>1, <1>2

LEMMA OnwardGoTo ==
  ASSUME proc \in [Procs -> GateProcess], NEW p \in Procs, proc[p].pc \in Live \ {"hardhat"}, NEW point \in Live \ {"hardhat"}
  PROVE  Onward(proc[p], GoTo(p, point))
<1>1. proc[p] \in GateProcess OBVIOUS
<1>2. PICK n : n = GoTo(p, point) OBVIOUS
<1>3. n.pc = point /\ n.task = proc[p].task /\ n.capability = proc[p].capability /\ n.selector = proc[p].selector
  BY <1>1, <1>2 DEF GoTo, GateProcess
<1> QED BY <1>2, <1>3 DEF Onward

(* Every step of a task but its start and its dispatch. *)
LEMMA OnwardSteps ==
  ASSUME proc \in [Procs -> GateProcess], NEW p \in Procs,
         \/ OpenContext(p, TRUE) \/ OpenContext(p, ~ forbiddenDebugEnabled(proc[p].selector, Forbidden))
         \/ requireCleanRepository(p) \/ requireRepositoryIdentityUnchanged(p)
         \/ ConfirmChain(p) \/ Sg1CheckTarget(p) \/ Sg1Encrypt(p)
         \/ Sg2CheckTarget(p) \/ Sg2Encrypt(p) \/ Sg2PublicDecrypt(p)
         \/ ReadNonce(p) \/ Estimate(p) \/ Fund(p) \/ Rechain(p) \/ Sg1Recheck(p) \/ Sg2Recheck(p) \/ Sign(p)
         \/ Broadcast(p) \/ pollForTransactionReceipt(p) \/ TakeDeploymentReceipt(p) \/ TakeCallReceipt(p)
         \/ ConfirmCode(p) \/ FinalChain(p)
         \/ PassPreflight(p) \/ EmitDeployment(p) \/ Sg1EmitProbe(p) \/ runSg2Prepare(p) \/ runSg2Verify(p)
         \/ FailPreflight(p) \/ Sg1FailProbe(p) \/ Sg2FailConclusion(p) \/ RequestFails(p)
  PROVE  \E n : proc' = [proc EXCEPT ![p] = n] /\ Onward(proc[p], n)
<1> DEFINE q == proc[p]
           Goal == \E n : proc' = [proc EXCEPT ![p] = n] /\ Onward(proc[p], n)
           Open == Live \ {"hardhat"}
<1>0. q \in GateProcess OBVIOUS
<1> USE DEF AtPoint
<1>o. /\ \A point \in {"context", "commit", "tree", "chain", "target", "input", "nonce", "estimate", "fund", "rechain",
                    "restate", "sign", "head", "headtree", "status", "broadcast", "poll", "code", "finalchain", "conclude"} : point \in Open
  BY DEF Live, Unsigned, Decided, Signed, Successful
<1> HIDE DEF Open
<1>1. ASSUME NEW quiet, OpenContext(p, quiet) PROVE Goal
  <2>1. PICK n : n = [GoTo(p, "commit") EXCEPT !.selector = <<>>] OBVIOUS
  <2>2. n.pc = "commit" /\ n.task = q.task /\ n.capability = q.capability /\ n.selector = <<>>
    BY <1>0, <2>1 DEF GoTo, GateProcess
  <2>3. Onward(q, n) BY <1>1, <1>o, <2>2 DEF Onward, OpenContext, Open
  <2> QED BY <1>1, <2>1, <2>3, OnwardStep DEF OpenContext
<1>2. ASSUME NEW ok, NEW point \in Open, q.pc \in Open, Step(p, ok, GoTo(p, point)) PROVE Goal
  BY <1>2, OnwardGoTo, OnwardStep DEF Open
<1>3. CASE \/ ConfirmChain(p) \/ Sg1CheckTarget(p) \/ Sg1Encrypt(p) \/ Sg2CheckTarget(p) \/ Sg2Encrypt(p)
           \/ Sg2PublicDecrypt(p)
  BY <1>2, <1>3, <1>o DEF ConfirmChain, Sg1CheckTarget, Sg1Encrypt, Sg2CheckTarget, Sg2Encrypt, Sg2PublicDecrypt
<1>4. CASE Fund(p) \/ Rechain(p) \/ Sg1Recheck(p) \/ Sg2Recheck(p) \/ ConfirmCode(p) \/ FinalChain(p)
  BY <1>2, <1>4, <1>o DEF Fund, Rechain, Sg1Recheck, Sg2Recheck, ConfirmCode, FinalChain
<1>5. CASE ReadNonce(p)
  <2>1. PICK nonce : nonce = IF rpc = "sepolia" THEN PendingNonce ELSE 0 OBVIOUS
  <2>2. PICK n : n = [GoTo(p, "estimate") EXCEPT !.nonce = nonce] OBVIOUS
  <2>3. n.pc = "estimate" /\ n.task = q.task /\ n.capability = q.capability /\ n.selector = q.selector
    BY <1>0, <2>2 DEF GoTo, GateProcess
  <2>4. Onward(q, n) BY <1>5, <1>o, <2>3 DEF Onward, ReadNonce, Open
  <2> QED BY <1>5, <2>1, <2>2, <2>4, OnwardStep DEF ReadNonce
<1>6. CASE Estimate(p)
  <2>1. PICK gas \in {0, GasUsed} :
          Step(p, gas > 0 /\ ~ Reverts(TaskCall(p, proc[p].task), Contract(p)),
               [GoTo(p, "fund") EXCEPT !.cost = bufferedGasLimit(gas)])
    BY <1>6 DEF Estimate
  <2>2. PICK n : n = [GoTo(p, "fund") EXCEPT !.cost = bufferedGasLimit(gas)] OBVIOUS
  <2>3. n.pc = "fund" /\ n.task = q.task /\ n.capability = q.capability /\ n.selector = q.selector
    BY <1>0, <2>2 DEF GoTo, GateProcess
  <2>4. Onward(q, n) BY <1>6, <1>o, <2>3 DEF Onward, Estimate, Open
  <2> QED BY <2>1, <2>2, <2>4, OnwardStep
<1>7. CASE Sign(p)
  <2>2. PICK n : n = [GoTo(p, "head") EXCEPT !.id = <<signExactTransaction(p)>>] OBVIOUS
  <2>3. n.pc = "head" /\ n.task = q.task /\ n.capability = q.capability /\ n.selector = q.selector
    BY <1>0, <2>2 DEF GoTo, GateProcess
  <2>4. Onward(q, n) BY <1>7, <1>o, <2>3 DEF Onward, Sign, Open
  <2> QED BY <1>7, <2>2, <2>4, OnwardStep DEF Sign
<1>8. CASE Broadcast(p)
  <2>1. PICK n : n = [GoTo(p, "poll") EXCEPT !.polls = 0, !.seen = 0, !.sampled = 0, !.torn = {}] OBVIOUS
  <2>2. n.pc = "poll" /\ n.task = q.task /\ n.capability = q.capability /\ n.selector = q.selector
    BY <1>0, <2>1 DEF GoTo, GateProcess
  <2>3. Onward(q, n) BY <1>8, <1>o, <2>2 DEF Onward, Broadcast, Open
  <2>4. PICK ok : Step(p, ok, n) BY <1>8, <2>1 DEF Broadcast, broadcastSignedTransaction
  <2> QED BY <2>3, <2>4, OnwardStep
<1>9. CASE pollForTransactionReceipt(p)
  <2>1. PICK polls : polls = q.polls + 1 OBVIOUS
  <2>2. PICK n : n = [q EXCEPT !.polls = polls] OBVIOUS
  <2>3. n.pc = q.pc /\ n.task = q.task /\ n.capability = q.capability /\ n.selector = q.selector
    BY <1>0, <2>2 DEF GateProcess
  <2>4. Onward(q, n) BY <1>9, <1>o, <2>3 DEF Onward, pollForTransactionReceipt, Open
  <2>5. Step(p, proc[p].polls + 1 < MaxPolls, n) BY <1>9, <2>1, <2>2 DEF pollForTransactionReceipt
  <2> QED BY <2>4, <2>5, OnwardStep
<1>10. CASE TakeDeploymentReceipt(p)
  <2>2. PICK n : n = [GoTo(p, "code") EXCEPT !.address = Receipt(p).contractAddress, !.polls = 0] OBVIOUS
  <2>3. n.pc = "code" /\ n.task = q.task /\ n.capability = q.capability /\ n.selector = q.selector
    BY <1>0, <2>2 DEF GoTo, GateProcess
  <2>4. Onward(q, n) BY <1>10, <1>o, <2>3 DEF Onward, TakeDeploymentReceipt, Open
  <2> QED BY <1>10, <2>2, <2>4, OnwardStep DEF TakeDeploymentReceipt
<1>c. CASE TakeCallReceipt(p)
  <2>2. PICK n : n = [GoTo(p, "code") EXCEPT !.polls = 0] OBVIOUS
  <2>3. n.pc = "code" /\ n.task = q.task /\ n.capability = q.capability /\ n.selector = q.selector
    BY <1>0, <2>2 DEF GoTo, GateProcess
  <2>4. Onward(q, n) BY <1>c, <1>o, <2>3 DEF Onward, TakeCallReceipt, Open
  <2> QED BY <1>c, <2>2, <2>4, OnwardStep DEF TakeCallReceipt
<1>g. CASE requireCleanRepository(p) \/ requireRepositoryIdentityUnchanged(p)
  <2>1. CASE ReadCommit(p)
    <3>1. PICK n : n = [GoTo(p, "tree") EXCEPT !.commit = repo.commit, !.seen = repo.moves] OBVIOUS
    <3>2. n.pc = "tree" /\ n.task = q.task /\ n.capability = q.capability /\ n.selector = q.selector
      BY <1>0, <3>1 DEF GoTo, GateProcess
    <3>3. Onward(q, n) BY <2>1, <1>o, <3>2 DEF Onward, ReadCommit, Open
    <3> QED BY <2>1, <3>1, <3>3, OnwardStep DEF ReadCommit
  <2>2. CASE ReadTree(p)
    <3>1. PICK n : n = [GoTo(p, "chain") EXCEPT !.tree = HeadTree, !.torn = Torn(p, "opening"), !.seen = 0] OBVIOUS
    <3>2. n.pc = "chain" /\ n.task = q.task /\ n.capability = q.capability /\ n.selector = q.selector
      BY <1>0, <3>1 DEF GoTo, GateProcess
    <3>3. Onward(q, n) BY <2>2, <1>o, <3>2 DEF Onward, ReadTree, Open
    <3> QED BY <2>2, <3>1, <3>3, OnwardStep DEF ReadTree
  <2>3. CASE RereadCommit(p)
    <3>1. PICK n : n = [GoTo(p, "headtree") EXCEPT !.current = repo.commit, !.seen = repo.moves] OBVIOUS
    <3>2. n.pc = "headtree" /\ n.task = q.task /\ n.capability = q.capability /\ n.selector = q.selector
      BY <1>0, <3>1 DEF GoTo, GateProcess
    <3>3. Onward(q, n) BY <2>3, <1>o, <3>2 DEF Onward, RereadCommit, Open
    <3> QED BY <2>3, <3>1, <3>3, OnwardStep DEF RereadCommit
  <2>4. CASE CompareIdentity(p)
    <3>1. PICK n : n = [GoTo(p, "status") EXCEPT !.torn = Torn(p, "check"), !.current = 0] OBVIOUS
    <3>2. n.pc = "status" /\ n.task = q.task /\ n.capability = q.capability /\ n.selector = q.selector
      BY <1>0, <3>1 DEF GoTo, GateProcess
    <3>3. Onward(q, n) BY <2>4, <1>o, <3>2 DEF Onward, CompareIdentity, Open
    <3> QED BY <2>4, <3>1, <3>3, OnwardStep DEF CompareIdentity
  <2>5. CASE SampleStatus(p)
    <3>1. PICK n : n = [GoTo(p, "broadcast") EXCEPT !.sampled = repo.version] OBVIOUS
    <3>2. n.pc = "broadcast" /\ n.task = q.task /\ n.capability = q.capability /\ n.selector = q.selector
      BY <1>0, <3>1 DEF GoTo, GateProcess
    <3>3. Onward(q, n) BY <2>5, <1>o, <3>2 DEF Onward, SampleStatus, Open
    <3> QED BY <2>5, <3>1, <3>3, OnwardStep DEF SampleStatus
  <2> QED BY <1>g, <2>1, <2>2, <2>3, <2>4, <2>5 DEF requireCleanRepository, requireRepositoryIdentityUnchanged
<1>11. CASE PassPreflight(p) \/ EmitDeployment(p) \/ Sg1EmitProbe(p) \/ runSg2Prepare(p) \/ runSg2Verify(p)
  BY <1>11 DEF PassPreflight, EmitDeployment, Sg1EmitProbe, runSg2Prepare, runSg2Verify, Emit, Onward
<1>12. CASE FailPreflight(p) \/ Sg1FailProbe(p) \/ Sg2FailConclusion(p) \/ RequestFails(p)
  <2>1. proc' = [proc EXCEPT ![p] = Ended("failed")]
    BY <1>12 DEF FailPreflight, Sg1FailProbe, Sg2FailConclusion, RequestFails, Step
  <2> QED BY <2>1 DEF Onward
<1> HIDE DEF Goal
<1> QED BY <1>1, <1>3, <1>4, <1>5, <1>6, <1>7, <1>8, <1>9, <1>10, <1>11, <1>12, <1>c, <1>g DEF Goal

(* A task is started and dispatched. *)
LEMMA AuthorizedStarts ==
  ASSUME proc \in [Procs -> GateProcess], NEW p \in Procs, Authorized(proc[p]),
         \/ \E task \in Sg1Tasks, address \in Known \cup {NoTarget} : Sg1Start(p, task, address)
         \/ \E task \in Sg2Tasks, line \in CommandLines, verbose \in BOOLEAN : Sg2Direct(p, task, line, verbose)
         \/ \E task \in Sg2Tasks, address \in Known \cup {NoTarget}, selector \in Selectors, verbose \in BOOLEAN :
                Sg2Start(p, task, address, selector, verbose)
         \/ Sg2Dispatch(p)
  PROVE  \E n : proc' = [proc EXCEPT ![p] = n] /\ Authorized(n)
<1> DEFINE q == proc[p]
           Goal == \E n : proc' = [proc EXCEPT ![p] = n] /\ Authorized(n)
<1>0. q \in GateProcess OBVIOUS
<1>1. ASSUME NEW task \in Sg1Tasks, NEW address \in Known \cup {NoTarget}, Sg1Start(p, task, address) PROVE Goal
  <2>1. PICK n : n = [Idle EXCEPT !.pc = "context", !.task = task, !.address = address] OBVIOUS
  <2>2. n.pc = "context" /\ n.task = task /\ n.selector = <<>> BY <2>1 DEF Idle
  <2>3. Authorized(n) BY <2>2, SilentSelectors DEF Authorized, Sg1Tasks, Sg2Tasks
  <2> QED BY <1>1, <2>1, <2>3 DEF Sg1Start
<1>2. ASSUME NEW task \in Sg2Tasks, NEW line \in CommandLines, NEW verbose \in BOOLEAN, Sg2Direct(p, task, line, verbose)
      PROVE Goal
  BY <1>2, AuthorizedEnded DEF Sg2Direct
<1>3. ASSUME NEW task \in Sg2Tasks, NEW address \in Known \cup {NoTarget}, NEW selector \in Selectors,
             NEW verbose \in BOOLEAN, Sg2Start(p, task, address, selector, verbose)
      PROVE Goal
  <2>1. PICK n : n = [[Idle EXCEPT !.task = task, !.address = address, !.selector = selector] EXCEPT
                        !.pc = "hardhat", !.capability = createLauncherSession(task)] OBVIOUS
  <2>2. n.pc = "hardhat" /\ n.task = task /\ n.selector = selector /\ n.capability = createLauncherSession(task)
    BY <2>1 DEF Idle
  <2>3. CASE validateLaunchRequest(task, address, selector, verbose)
    <3>1. ~ forbiddenDebugEnabled(selector, Forbidden)
      BY <2>3 DEF validateLaunchRequest, requireSafePreBootstrapEnvironment
    <3>2. Authorized(n) BY <2>2, <3>1, SilentSelectors DEF Authorized, createLauncherSession
    <3>3. proc' = [proc EXCEPT ![p] = n] BY <1>3, <2>1, <2>3 DEF Sg2Start
    <3> QED BY <3>2, <3>3
  <2>4. CASE ~ validateLaunchRequest(task, address, selector, verbose)
    <3>1. proc' = [proc EXCEPT ![p] = Ended("failed")] BY <1>3, <2>4 DEF Sg2Start
    <3> QED BY <3>1, AuthorizedEnded
  <2> QED BY <2>3, <2>4
<1>4. CASE Sg2Dispatch(p)
  <2>0. q.pc = "hardhat" /\ q.pc \in Live BY <1>4 DEF Sg2Dispatch, AtPoint, Live
  <2>1. PICK n : n = [GoTo(p, "context") EXCEPT !.capability.consumed = TRUE] OBVIOUS
  <2>2. PICK c : c = [q.capability EXCEPT !.consumed = TRUE] OBVIOUS
  <2>4. n = [q EXCEPT !.pc = "context", !.capability = c] BY <1>0, <2>1, <2>2 DEF GoTo, GateProcess
  <2>5. n.pc = "context" /\ n.task = q.task /\ n.selector = q.selector /\ n.capability = c
    BY <2>4, <1>0 DEF GateProcess
  <2>6. q.task \in Sg2Tasks /\ q.capability = [action |-> q.task, consumed |-> FALSE, revoked |-> FALSE]
    BY <2>0 DEF Authorized
  <2>7. c = [action |-> q.task, consumed |-> TRUE, revoked |-> FALSE]
    <3>1. q.capability \in [action : {"none"} \cup Sg2Tasks, consumed : BOOLEAN, revoked : BOOLEAN] BY <1>0 DEF GateProcess
    <3>2. c \in [action : {"none"} \cup Sg2Tasks, consumed : BOOLEAN, revoked : BOOLEAN] BY <2>2, <3>1
    <3>3. c.action = q.capability.action /\ c.consumed = TRUE /\ c.revoked = q.capability.revoked BY <2>2, <3>1
    <3>4. q.capability.action = q.task /\ q.capability.revoked = FALSE BY <2>6
    <3> QED BY <3>2, <3>3, <3>4
  <2>8. Authorized(n) BY <2>0, <2>5, <2>7 DEF Authorized
  <2>9. CASE LoadHardhat(p) /\ consumeDispatchCapability(proc[p].capability, proc[p].task)
    BY <1>4, <2>1, <2>8, <2>9 DEF Sg2Dispatch, Step
  <2>10. CASE ~ (LoadHardhat(p) /\ consumeDispatchCapability(proc[p].capability, proc[p].task))
    <3>1. proc' = [proc EXCEPT ![p] = Ended("failed")] BY <1>4, <2>10 DEF Sg2Dispatch, Step
    <3> QED BY <3>1, AuthorizedEnded
  <2> QED BY <2>9, <2>10
<1> HIDE DEF Goal
<1> QED BY <1>1, <1>2, <1>3, <1>4 DEF Goal

AuthorizedInv == proc \in [Procs -> GateProcess] /\ \A p \in Procs : Authorized(proc[p])

(* A live SG-2 task runs under the capability that was made for it, used once, and no selector that lets a forbidden *)
(* namespace speak, by what patterns mean, has come past the launcher.                                               *)
THEOREM LiveIsAlwaysAuthorized == GateSpec => []LiveIsAuthorized
<1>1. GateInit => AuthorizedInv
  <2> SUFFICES ASSUME GateInit PROVE AuthorizedInv OBVIOUS
  <2>1. Idle.pc = "idle" /\ Idle.task = "none" BY DEF Idle
  <2>2. Authorized(Idle)
    BY <2>1 DEF Authorized, Live, Unsigned, Decided, Signed, Successful, Sg2Tasks
  <2> QED BY <2>2, GateIdle DEF GateInit, AuthorizedInv
<1>2. GateInv' /\ AuthorizedInv /\ [GateNext]_gateVars => AuthorizedInv'
  <2> SUFFICES ASSUME GateInv', AuthorizedInv, [GateNext]_gateVars PROVE AuthorizedInv' OBVIOUS
  <2>0. proc' \in [Procs -> GateProcess] BY DEF GateInv
  <2>1. ASSUME NEW p \in Procs, NEW n, proc' = [proc EXCEPT ![p] = n], Authorized(n) PROVE AuthorizedInv'
    <3>1. \A o \in Procs : Authorized(proc'[o]) BY <2>1 DEF AuthorizedInv
    <3>2. \A o \in Procs : Authorized(proc[o])'
      <4> SUFFICES ASSUME NEW o \in Procs PROVE Authorized(proc[o])' OBVIOUS
      <4> QED BY <3>1 DEF Authorized
    <3> QED BY <2>0, <3>2 DEF AuthorizedInv
  <2>2. ASSUME UNCHANGED proc PROVE AuthorizedInv' BY <2>2 DEF AuthorizedInv, Authorized
  <2>3. CASE GateEnvironment
    <3>1. UNCHANGED proc BY <2>3 DEF GateEnvironment, Edit, Discard, Commit, Checkout, SwitchChain, Elsewhere, Mine, Forget
    <3> QED BY <3>1, <2>2
  <2>4. CASE UNCHANGED gateVars BY <2>4, <2>2 DEF gateVars
  <2>5. ASSUME NEW p \in Procs, GateStep(p) PROVE AuthorizedInv'
    <3>1. proc \in [Procs -> GateProcess] /\ Authorized(proc[p]) BY DEF AuthorizedInv
    <3> DEFINE Moved == \E n : proc' = [proc EXCEPT ![p] = n] /\ Onward(proc[p], n)
               Started == \E n : proc' = [proc EXCEPT ![p] = n] /\ Authorized(n)
    <3>2. Moved \/ Started
      <4> HIDE DEF Moved, Started
      <4>1. ASSUME Sg1Next(p) PROVE Moved \/ Started
        BY <3>1, <4>1, OnwardSteps, AuthorizedStarts
        DEF Moved, Started, Sg1Next, Sg1OpenContext, Sg1ConfirmChain, Sg1Prepare, Sg1Fund, Sg1Preflight, Sg1Sign,
            Sg1Repository, Sg1Broadcast, Sg1Poll, Sg1Deploy, Sg1ProbeReceipt
      <4>2. ASSUME Sg2Next(p) PROVE Moved \/ Started
        BY <3>1, <4>2, OnwardSteps, AuthorizedStarts
        DEF Moved, Started, Sg2Next, Sg2OpenContext, Sg2ConfirmChain, Sg2PrepareTransaction, Sg2Fund, runSg2Preflight,
            Sg2Sign, Sg2Repository, Sg2Broadcast, Sg2Poll, runSg2Deploy, Sg2CallReceipt
      <4>3. ASSUME RequestFails(p) PROVE Moved \/ Started BY <3>1, <4>3, OnwardSteps DEF Moved
      <4> QED BY <2>5, <4>1, <4>2, <4>3 DEF GateStep
    <3>3. Started BY <3>1, <3>2, AuthorizedOnward
    <3> QED BY <3>3, <2>1
  <2> QED BY <2>3, <2>4, <2>5 DEF GateNext
<1>3. AuthorizedInv => LiveIsAuthorized
  <2> SUFFICES ASSUME AuthorizedInv, NEW p \in Procs
               PROVE  /\ \A namespace \in Forbidden :
                           proc[p].pc \notin {"idle", "failed", "passed"} => ~ Speaks(proc[p].selector, namespace)
                      /\ proc[p].task \in Sg2Tasks /\ proc[p].pc /= "hardhat" =>
                           proc[p].capability = [action |-> proc[p].task, consumed |-> TRUE, revoked |-> FALSE]
    BY DEF LiveIsAuthorized
  <2>1. Authorized(proc[p]) /\ proc[p] \in GateProcess BY DEF AuthorizedInv
  <2>2. proc[p].pc \notin {"idle", "failed", "passed"} => proc[p].pc \in Live BY <2>1 DEF GateProcess
  <2> QED BY <2>1, <2>2 DEF Authorized
<1> QED BY <1>1, <1>2, <1>3, GateInvariant, PTL DEF GateSpec
=============================================================================
