--------------------------- MODULE AddMoneyProofs ---------------------------
(***************************************************************************)
(* What the transaction flows of the page keep true, for any number of     *)
(* operations, writes, searches and records, any amounts and any balances  *)
(* of the account: the stored history never contradicts the chain, and     *)
(* money moves in the order of the flow, however often the page is loaded  *)
(* again in between.                                                       *)
(***************************************************************************)
EXTENDS AddMoney, NaturalsInduction, WellFoundedInduction, TLAPS

-----------------------------------------------------------------------------
(* The invariant. *)

FlowKinds == {"add-money", "withdraw-savings", "withdraw-winnings", "prize-enable", "prize-disable",
              "entry-top-up", "entry-withdraw", "claim-refund", "claim-reward"}
FlowFields == {"op", "kind", "amount", "resume", "phase", "todo", "hash", "hashes", "writes",
               "confirmed", "last"}
RecordFields == {"op", "id", "kind", "stage", "hash", "ostage"}
TxFields == {"op", "c", "status", "known"}

Values(s) == {s[i] : i \in DOMAIN s}
IsSequence(s) == s \in Seq(Values(s))

\* The transactions are those of the account in the order in which they were signed.
TxsInv ==
  /\ IsSequence(txs)
  /\ \A h \in DOMAIN txs :
       DOMAIN txs[h] = TxFields /\ txs[h].status \in {"pending", "success", "reverted"}

\* Transaction g of operation o has made available what call c spends.
MadeBy(g, o, c) ==
  /\ txs[g].op = o /\ txs[g].c.call \in Predecessor[c.call]
  /\ txs[g].c.amount = c.amount /\ Status(g) = "success"

\* What call c of operation o spends is available.
Backed(o, c) == c.call \in DOMAIN Predecessor => \E g \in DOMAIN txs : MadeBy(g, o, c)

\* A hash is that of a write of the operation, at that stage.
HashOf(o, hash, stage) ==
  /\ hash \in DOMAIN txs /\ txs[hash].op = o
  /\ addMoneyStageForWrite(txs[hash].c.call) = stage

\* A record names a write of its operation, and what it says of it is true.
RecordOK(r) ==
  /\ DOMAIN r = RecordFields
  /\ r.hash # 0 => /\ HashOf(r.op, r.hash, r.ostage)
                   /\ r.stage = "complete" => Status(r.hash) = "success"
                   /\ r.stage = "failed" => Status(r.hash) = "reverted"

StoreInv == IsSequence(store) /\ \A r \in Values(store) : RecordOK(r)

\* Of two writes in a row the first makes available what the second spends.
InSteps(todo) ==
  /\ IsSequence(todo)
  /\ \A i \in 1 .. Len(todo) - 1 :
       todo[i + 1].call \in DOMAIN Predecessor =>
         todo[i].call \in Predecessor[todo[i + 1].call] /\ todo[i].amount = todo[i + 1].amount

\* What a flow has signed last and what it has still to do, by its place.
FlowOK(f) ==
  /\ DOMAIN f = FlowFields
  /\ f.kind \in FlowKinds /\ f.resume \in {"none", "wrap", "save"}
  /\ f.phase \in {"session", "read", "simulate", "sign", "wait", "verify"}
  /\ f.hash # 0 => HashOf(f.op, f.hash, f.last)
  /\ f.phase \in {"session", "read"} =>
       /\ f.hash = 0
       /\ f.resume = "save" => Backed(f.op, Call("save", f.amount))
  /\ f.phase \notin {"session", "read"} => InSteps(f.todo)
  /\ f.phase \in {"simulate", "sign", "verify"} /\ f.hash # 0 => Status(f.hash) = "success"
  /\ f.phase \in {"wait", "verify"} => f.hash # 0 /\ txs[f.hash].c = Head(f.todo)
  /\ f.phase \in {"sign", "wait", "verify"} => f.todo # <<>>
  /\ f.phase \in {"simulate", "sign"} /\ f.todo # <<>> => Backed(f.op, Head(f.todo))

\* A search and what it finds are about a write of the operation that is resumed.
SearchOK(s) ==
  /\ s.stage \in {"wrap", "save"}
  /\ s.hash \in DOMAIN txs /\ txs[s.hash].op = s.op
  /\ s.stage = "save" => txs[s.hash].c.call = "wrap"

RecoveryOK(r) ==
  /\ r.stage \in {"wrap", "save"}
  /\ r.stage = "save" => Backed(r.op, Call("save", r.amount))

PageInv ==
  /\ \A f \in flows : FlowOK(f)
  /\ \A s \in searches : SearchOK(s)
  /\ \A r \in recovery : RecoveryOK(r)

\* The inductive invariant.
FlowInv ==
  /\ TxsInv
  /\ StepsInOrder
  /\ StoreInv
  /\ PageInv

-----------------------------------------------------------------------------
(* Sequences. *)

LEMMA LeastPlace ==
  ASSUME NEW T \in SUBSET Nat, T # {}
  PROVE  \E x \in T : \A y \in T : x <= y
<1> DEFINE R == {ss \in Nat \X Nat : ss[1] < ss[2]}
<1>1. IsWellFoundedOn(R, Nat)
  BY NatLessThanWellFounded DEF OpToRel
<1>2. PICK x \in T : \A y \in T : ~(<<y, x>> \in R)
  <2> HIDE DEF R
  <2> QED BY <1>1, WFMin, Zenon
<1>3. ASSUME NEW y \in T PROVE x <= y
  <2>1. <<y, x>> \notin R /\ y \in Nat /\ x \in Nat
    BY <1>2
  <2> QED BY <2>1
<1> QED BY <1>3

LEMMA SequenceOfValues ==
  ASSUME NEW S, NEW s \in Seq(S)
  PROVE  IsSequence(s) /\ Values(s) \subseteq S /\ DOMAIN s = 1 .. Len(s) /\ Len(s) \in Nat
BY DEF IsSequence, Values

\* One place more of the list.
OneMore(list, r, i, before) ==
  IF list[i].op = r.op /\ list[i].id = r.id THEN before ELSE Append(before, list[i])

\* g are the lists of what is kept of the first k places.
KeptUpTo(list, r, S, g, k) ==
  /\ g \in [0 .. k -> Seq(S)] /\ g[0] = <<>>
  /\ \A i \in 1 .. k : g[i] = OneMore(list, r, i, g[i - 1])

LEMMA OneMoreType ==
  ASSUME NEW S, NEW list \in Seq(S), NEW r, NEW i \in 1 .. Len(list), NEW q \in Seq(S)
  PROVE  OneMore(list, r, i, q) \in Seq(S)
BY DEF OneMore

LEMMA KeptExists ==
  ASSUME NEW S, NEW list \in Seq(S), NEW r, NEW n \in Nat, n <= Len(list)
  PROVE  \E g : KeptUpTo(list, r, S, g, n)
<1> DEFINE Bad == {k \in Nat : k <= n /\ ~ \E g : KeptUpTo(list, r, S, g, k)}
<1> SUFFICES Bad = {}
  <2>1. n <= n OBVIOUS
  <2> QED BY <2>1
<1> SUFFICES ASSUME Bad # {} PROVE FALSE OBVIOUS
<1>1. PICK k \in Bad : \A y \in Bad : k <= y BY LeastPlace
<1>2. CASE k = 0
  <2>1. KeptUpTo(list, r, S, [i \in 0 .. 0 |-> <<>>], 0) BY DEF KeptUpTo
  <2> QED BY <1>1, <1>2, <2>1
<1>3. CASE k # 0
  <2>0. Len(list) \in Nat OBVIOUS
  <2>1. k \in Nat /\ k - 1 \in Nat /\ k - 1 \notin Bad /\ k <= n BY <1>1, <1>3
  <2>2. PICK g : KeptUpTo(list, r, S, g, k - 1) BY <2>1
  <2>3. PICK h : h = [i \in 0 .. k |-> IF i = k THEN OneMore(list, r, k, g[k - 1]) ELSE g[i]] OBVIOUS
  <2>4. g \in [0 .. k - 1 -> Seq(S)] BY <2>2 DEF KeptUpTo
  <2>5. OneMore(list, r, k, g[k - 1]) \in Seq(S)
    <3>1. k \in 1 .. Len(list) BY <2>0, <2>1, <1>3
    <3>2. g[k - 1] \in Seq(S) BY <2>1, <2>4
    <3> QED BY <3>1, <3>2, OneMoreType
  <2>6. h \in [0 .. k -> Seq(S)] BY <2>1, <2>3, <2>4, <2>5
  <2>7. h[0] = <<>> BY <1>3, <2>1, <2>2, <2>3 DEF KeptUpTo
  <2>8. ASSUME NEW i \in 1 .. k PROVE h[i] = OneMore(list, r, i, h[i - 1])
    <3>1. h[i - 1] = g[i - 1] BY <2>1, <2>3
    <3>2. CASE i = k BY <3>1, <3>2, <2>3
    <3>3. CASE i # k
      <4>1. i \in 1 .. k - 1 BY <3>3, <2>1
      <4>2. h[i] = g[i] BY <3>3, <2>3
      <4> QED BY <4>1, <4>2, <3>1, <2>2 DEF KeptUpTo
    <3> QED BY <3>2, <3>3
  <2>9. KeptUpTo(list, r, S, h, k) BY <2>6, <2>7, <2>8 DEF KeptUpTo
  <2> QED BY <2>9, <1>1
<1> QED BY <1>2, <1>3

LEMMA OthersAreThere ==
  ASSUME NEW S, NEW list \in Seq(S), NEW r
  PROVE  Others(list, r) \in Seq(S)
<1> DEFINE body(g) == [i \in 0 .. Len(list) |-> IF i = 0 THEN <<>> ELSE OneMore(list, r, i, g[i - 1])]
           upTo == CHOOSE f : f = body(f)
<1>1. PICK n \in Nat : n = Len(list) OBVIOUS
<1>0. n <= Len(list) BY <1>1
<1>2. PICK g : KeptUpTo(list, r, S, g, n) BY <1>0, KeptExists
<1>3. g = body(g)
  <2>1. ASSUME NEW i \in 0 .. n PROVE g[i] = IF i = 0 THEN <<>> ELSE OneMore(list, r, i, g[i - 1])
    BY <1>2 DEF KeptUpTo
  <2>2. g \in [0 .. n -> Seq(S)] BY <1>2 DEF KeptUpTo
  <2> QED BY <2>1, <2>2, <1>1
<1>4. upTo = body(upTo)
  <2>1. \E f : f = body(f) BY <1>3
  <2> QED BY <2>1
<1>5. Others(list, r) = upTo[n] BY <1>1 DEF Others, OneMore
<1> HIDE DEF upTo
<1>6. upTo[0] = <<>> BY <1>1, <1>4
<1>7. \A i \in 1 .. n : upTo[i] = OneMore(list, r, i, upTo[i - 1]) BY <1>1, <1>4
<1> DEFINE Bad == {k \in Nat : k <= n /\ upTo[k] \notin Seq(S)}
<1>8. Bad = {}
  <2> SUFFICES ASSUME Bad # {} PROVE FALSE OBVIOUS
  <2>1. PICK k \in Bad : \A y \in Bad : k <= y BY LeastPlace
  <2>2. k # 0
    <3>1. upTo[0] \in Seq(S) BY <1>6
    <3> QED BY <2>1, <3>1
  <2>3. k - 1 \in Nat /\ k - 1 \notin Bad /\ k \in 1 .. n BY <2>1, <2>2, <1>1
  <2>4. upTo[k - 1] \in Seq(S) BY <2>3
  <2>5. upTo[k] \in Seq(S) BY <2>3, <2>4, <1>1, <1>7, OneMoreType
  <2> QED BY <2>5, <2>1
<1> QED BY <1>5, <1>8

(* The list after a record is stored has that record and records it had before. *)
LEMMA PersistKeeps ==
  ASSUME NEW list, IsSequence(list), NEW r
  PROVE  /\ IsSequence(persistSafeTransaction(list, r))
         /\ Values(persistSafeTransaction(list, r)) \subseteq Values(list) \cup {r}
<1> DEFINE S == Values(list) \cup {r}
           kept == <<r>> \o Others(list, r)
           m == IF Len(kept) < RECORDS THEN Len(kept) ELSE RECORDS
<1>1. list \in Seq(S) BY DEF IsSequence
<1>2. Others(list, r) \in Seq(S) BY <1>1, OthersAreThere
<1>3. kept \in Seq(S) /\ Len(kept) \in Nat BY <1>2
<1>4. m \in Nat /\ m <= Len(kept) BY <1>3, FlowConfiguration
<1> HIDE DEF S, kept, m
<1>5. SubSeq(kept, 1, m) \in Seq(S) BY <1>3, <1>4
<1>6. persistSafeTransaction(list, r) = SubSeq(kept, 1, m) BY DEF persistSafeTransaction, kept, m
<1> QED BY <1>5, <1>6, SequenceOfValues DEF S

-----------------------------------------------------------------------------
(* What the chain does to what is known of it. *)

\* Transactions are added and decided, once.
TxsGo ==
  \A h \in DOMAIN txs :
    /\ h \in DOMAIN txs' /\ txs'[h].op = txs[h].op /\ txs'[h].c = txs[h].c
    /\ txs[h].status # "pending" => txs'[h].status = txs[h].status

LEMMA BackedKept ==
  ASSUME TxsGo, NEW o, NEW c, Backed(o, c)
  PROVE  Backed(o, c)'
BY DEF TxsGo, Backed, MadeBy, Status

LEMMA HashKept ==
  ASSUME TxsGo, NEW o, NEW hash, NEW stage, HashOf(o, hash, stage)
  PROVE  HashOf(o, hash, stage)'
BY DEF TxsGo, HashOf

LEMMA StatusKept ==
  ASSUME TxsGo, NEW h \in DOMAIN txs, Status(h) # "pending"
  PROVE  Status(h)' = Status(h)
BY DEF TxsGo, Status

LEMMA RecordKept ==
  ASSUME TxsGo, NEW r, RecordOK(r)
  PROVE  RecordOK(r)'
<1>1. CASE r.hash = 0 BY <1>1 DEF RecordOK
<1>2. CASE r.hash # 0
  <2>1. HashOf(r.op, r.hash, r.ostage) /\ HashOf(r.op, r.hash, r.ostage)' /\ r.hash \in DOMAIN txs
    BY <1>2, HashKept DEF RecordOK, HashOf
  <2> QED BY <1>2, <2>1, StatusKept DEF RecordOK
<1> QED BY <1>1, <1>2

LEMMA FlowKept ==
  ASSUME TxsGo, NEW f, FlowOK(f)
  PROVE  FlowOK(f)'
<1>1. f.hash # 0 => f.hash \in DOMAIN txs BY DEF FlowOK, HashOf
<1>2. f.hash # 0 => HashOf(f.op, f.hash, f.last)' BY HashKept DEF FlowOK
<1>3. f.phase \in {"session", "read"} /\ f.resume = "save" => Backed(f.op, Call("save", f.amount))'
  BY BackedKept DEF FlowOK
<1>4. f.phase \in {"simulate", "sign", "verify"} /\ f.hash # 0 => Status(f.hash)' = "success"
  BY <1>1, StatusKept DEF FlowOK
<1>5. f.phase \in {"wait", "verify"} => f.hash # 0 /\ txs'[f.hash].c = Head(f.todo)
  BY <1>1 DEF FlowOK, TxsGo
<1>6. f.phase \in {"simulate", "sign"} /\ f.todo # <<>> => Backed(f.op, Head(f.todo))'
  BY BackedKept DEF FlowOK
<1> QED BY <1>2, <1>3, <1>4, <1>5, <1>6 DEF FlowOK

LEMMA SearchKept ==
  ASSUME TxsGo, NEW s, SearchOK(s)
  PROVE  SearchOK(s)'
BY DEF TxsGo, SearchOK

LEMMA RecoveryKept ==
  ASSUME TxsGo, NEW r, RecoveryOK(r)
  PROVE  RecoveryOK(r)'
BY BackedKept DEF RecoveryOK

(* A step that stores at most one record, true, and whose flows, searches and recovery are right. *)
LEMMA StoreKept ==
  ASSUME StoreInv, TxsGo, NEW r, RecordOK(r)', store' = persistSafeTransaction(store, r)
  PROVE  StoreInv'
<1>1. IsSequence(store') /\ Values(store') \subseteq Values(store) \cup {r}
  BY PersistKeeps DEF StoreInv
<1>2. ASSUME NEW x \in Values(store') PROVE RecordOK(x)'
  <2>1. CASE x = r BY <2>1
  <2>2. CASE x \in Values(store) BY <2>2, RecordKept DEF StoreInv
  <2> QED BY <1>1, <2>1, <2>2
<1>3. IsSequence(store)' /\ Values(store)' = Values(store') BY <1>1 DEF IsSequence, Values
<1> QED BY <1>2, <1>3 DEF StoreInv

LEMMA SameStore ==
  ASSUME StoreInv, TxsGo, UNCHANGED store
  PROVE  StoreInv'
<1>1. IsSequence(store)' /\ Values(store)' = Values(store) BY DEF StoreInv, IsSequence, Values
<1>2. ASSUME NEW x \in Values(store) PROVE RecordOK(x)' BY RecordKept DEF StoreInv
<1> QED BY <1>1, <1>2 DEF StoreInv

LEMMA SameTxs ==
  ASSUME FlowInv, UNCHANGED txs
  PROVE  TxsInv' /\ StepsInOrder' /\ TxsGo
BY DEF FlowInv, TxsInv, StepsInOrder, TxsGo, Status, IsSequence, Values

LEMMA PageKept ==
  ASSUME PageInv, TxsGo,
         \A f \in flows' : f \in flows \/ FlowOK(f)',
         \A s \in searches' : s \in searches \/ SearchOK(s)',
         \A r \in recovery' : r \in recovery \/ RecoveryOK(r)'
  PROVE  PageInv'
<1>1. \A f \in flows' : FlowOK(f)' BY FlowKept DEF PageInv
<1>2. \A s \in searches' : SearchOK(s)' BY SearchKept DEF PageInv
<1>3. \A r \in recovery' : RecoveryOK(r)' BY RecoveryKept DEF PageInv
<1> QED BY <1>1, <1>2, <1>3 DEF PageInv

(* A block decides a transaction; what it spends is not what it makes available. *)
LEMMA MineKeeps ==
  ASSUME FlowInv, NEW h \in DOMAIN txs, Mine(h)
  PROVE  FlowInv'
<1>1. PICK status \in {"success", "reverted"} : txs' = [txs EXCEPT ![h].status = status]
  <2>1. CASE Executes(ledger, txs[h].c) BY <2>1 DEF Mine
  <2>2. CASE ~Executes(ledger, txs[h].c) BY <2>2 DEF Mine
  <2> QED BY <2>1, <2>2
<1>2. IsSequence(txs) /\ Len(txs) \in Nat /\ DOMAIN txs = 1 .. Len(txs)
  BY SequenceOfValues DEF FlowInv, TxsInv, IsSequence
<1>3. /\ DOMAIN txs' = DOMAIN txs
      /\ \A g \in DOMAIN txs : g # h => txs'[g] = txs[g]
      /\ txs'[h] = [txs[h] EXCEPT !.status = status]
  BY <1>1, <1>2
<1>4. DOMAIN txs[h] = TxFields /\ txs[h].status = "pending" BY DEF FlowInv, TxsInv, Mine, Status
<1>5. /\ txs'[h].op = txs[h].op /\ txs'[h].c = txs[h].c /\ txs'[h].status = status
      /\ DOMAIN txs'[h] = TxFields
  BY <1>3, <1>4 DEF TxFields
<1>6. TxsGo BY <1>3, <1>4, <1>5 DEF TxsGo
<1>7. TxsInv'
  <2>1. txs' \in Seq(Values(txs) \cup {txs'[h]})
    <3>1. ASSUME NEW g \in 1 .. Len(txs) PROVE txs'[g] \in Values(txs) \cup {txs'[h]}
      BY <1>2, <1>3 DEF Values
    <3>2. txs' = [g \in 1 .. Len(txs) |-> txs'[g]] BY <1>1, <1>2
    <3>3. PICK X : X = Values(txs) \cup {txs'[h]} OBVIOUS
    <3>4. txs' \in [1 .. Len(txs) -> X] BY <3>1, <3>2, <3>3
    <3>5. txs' \in Seq(X) BY <1>2, <3>4
    <3> QED BY <3>3, <3>5
  <2>2. IsSequence(txs') BY <2>1, SequenceOfValues
  <2>3. ASSUME NEW g \in DOMAIN txs'
        PROVE  DOMAIN txs'[g] = TxFields /\ txs'[g].status \in {"pending", "success", "reverted"}
    <3>1. CASE g = h BY <3>1, <1>5
    <3>2. CASE g # h BY <3>2, <1>3 DEF FlowInv, TxsInv
    <3> QED BY <3>1, <3>2
  <2> QED BY <2>2, <2>3 DEF TxsInv, IsSequence, Values
<1>8. StepsInOrder'
  <2> SUFFICES ASSUME NEW k \in DOMAIN txs', txs'[k].c.call \in DOMAIN Predecessor
               PROVE  \E g \in 1 .. k - 1 : /\ txs'[g].op = txs'[k].op
                                            /\ txs'[g].c.call \in Predecessor[txs'[k].c.call]
                                            /\ txs'[g].c.amount = txs'[k].c.amount
                                            /\ txs'[g].status = "success"
    BY DEF StepsInOrder, Predecessor, Status
  <2>1. k \in DOMAIN txs /\ txs'[k].c = txs[k].c /\ txs'[k].op = txs[k].op BY <1>3, <1>6 DEF TxsGo
  <2>2. PICK g \in 1 .. k - 1 : /\ txs[g].op = txs[k].op
                                /\ txs[g].c.call \in Predecessor[txs[k].c.call]
                                /\ txs[g].c.amount = txs[k].c.amount
                                /\ txs[g].status = "success"
    BY <2>1 DEF FlowInv, StepsInOrder, Status
  <2>3. g \in DOMAIN txs BY <2>1, <1>2
  <2> QED BY <2>1, <2>2, <2>3, <1>6 DEF TxsGo
<1>9. StoreInv' /\ PageInv'
  <2>1. UNCHANGED <<store, flows, searches, recovery>> BY DEF Mine, pageVars
  <2> QED BY <2>1, <1>6, SameStore, PageKept DEF FlowInv
<1> QED BY <1>7, <1>8, <1>9 DEF FlowInv

(* A flow that is about to sign has what its write spends. *)
LEMMA SendKeeps ==
  ASSUME FlowInv, NEW f \in flows, f.phase = "sign", NEW known, txs' = Sent(f, known)
  PROVE  /\ TxsInv' /\ StepsInOrder' /\ TxsGo
         /\ Len(txs) + 1 \in DOMAIN txs' /\ Len(txs) + 1 # 0
         /\ txs'[Len(txs) + 1].op = f.op /\ txs'[Len(txs) + 1].c = Head(f.todo)
<1>1. IsSequence(txs) /\ Len(txs) \in Nat /\ DOMAIN txs = 1 .. Len(txs)
  BY SequenceOfValues DEF FlowInv, TxsInv, IsSequence
<1>2. PICK t : t = [op |-> f.op, c |-> Head(f.todo), status |-> "pending", known |-> known] OBVIOUS
<1>3. txs' = Append(txs, t) BY <1>2 DEF Sent
<1>4. PICK n \in Nat : n = Len(txs) BY <1>1
<1>5. PICK X : X = Values(txs) \cup {t} OBVIOUS
<1>6. txs \in Seq(X) /\ t \in X BY <1>1, <1>5 DEF IsSequence
<1>7. /\ DOMAIN txs' = 1 .. n + 1 /\ txs'[n + 1] = t
      /\ \A g \in 1 .. n : txs'[g] = txs[g]
  BY <1>3, <1>4, <1>6
<1>8. TxsInv'
  <2>1. txs' \in Seq(X) BY <1>3, <1>6
  <2>2. IsSequence(txs') BY <2>1, SequenceOfValues
  <2>3. ASSUME NEW g \in DOMAIN txs'
        PROVE  DOMAIN txs'[g] = TxFields /\ txs'[g].status \in {"pending", "success", "reverted"}
    <3>1. CASE g = n + 1 BY <3>1, <1>2, <1>7 DEF TxFields
    <3>2. CASE g # n + 1
      <4>1. g \in 1 .. n BY <3>2, <1>7
      <4> QED BY <4>1, <1>1, <1>4, <1>7 DEF FlowInv, TxsInv
    <3> QED BY <3>1, <3>2
  <2> QED BY <2>2, <2>3 DEF TxsInv, IsSequence, Values
<1>9. TxsGo BY <1>1, <1>4, <1>7 DEF TxsGo
<1>10. StepsInOrder'
  <2> SUFFICES ASSUME NEW k \in DOMAIN txs', txs'[k].c.call \in DOMAIN Predecessor
               PROVE  \E g \in 1 .. k - 1 : /\ txs'[g].op = txs'[k].op
                                            /\ txs'[g].c.call \in Predecessor[txs'[k].c.call]
                                            /\ txs'[g].c.amount = txs'[k].c.amount
                                            /\ txs'[g].status = "success"
    BY DEF StepsInOrder, Predecessor, Status
  <2>1. CASE k = n + 1
    <3>1. Backed(f.op, Head(f.todo)) BY DEF FlowInv, PageInv, FlowOK
    <3>2. txs'[k].c = Head(f.todo) /\ txs'[k].op = f.op BY <2>1, <1>2, <1>7
    <3>3. PICK g \in DOMAIN txs : MadeBy(g, f.op, Head(f.todo)) BY <3>1, <3>2 DEF Backed
    <3>4. g \in 1 .. k - 1 /\ txs'[g] = txs[g] BY <2>1, <1>1, <1>4, <1>7
    <3> QED BY <3>2, <3>3, <3>4 DEF MadeBy, Status
  <2>2. CASE k # n + 1
    <3>1. k \in 1 .. n /\ txs'[k] = txs[k] BY <2>2, <1>7
    <3>2. PICK g \in 1 .. k - 1 : /\ txs[g].op = txs[k].op
                                  /\ txs[g].c.call \in Predecessor[txs[k].c.call]
                                  /\ txs[g].c.amount = txs[k].c.amount
                                  /\ txs[g].status = "success"
      BY <3>1, <1>1, <1>4 DEF FlowInv, StepsInOrder, Status
    <3>3. g \in 1 .. n BY <3>1, <1>4
    <3> QED BY <3>1, <3>2, <3>3, <1>7
  <2> QED BY <2>1, <2>2
<1> QED BY <1>2, <1>4, <1>7, <1>8, <1>9, <1>10

(* A step that sends nothing and stores at most one record. *)
LEMMA QuietKeeps ==
  ASSUME FlowInv, UNCHANGED txs,
         UNCHANGED store \/ \E r : RecordOK(r) /\ store' = persistSafeTransaction(store, r),
         \A f \in flows' : f \in flows \/ FlowOK(f),
         \A s \in searches' : s \in searches \/ SearchOK(s),
         \A r \in recovery' : r \in recovery \/ RecoveryOK(r)
  PROVE  FlowInv'
<1>1. TxsInv' /\ StepsInOrder' /\ TxsGo BY SameTxs
<1>2. StoreInv'
  <2>1. CASE UNCHANGED store BY <2>1, <1>1, SameStore DEF FlowInv
  <2>2. CASE ~UNCHANGED store
    <3>1. PICK r : RecordOK(r) /\ store' = persistSafeTransaction(store, r) BY <2>2
    <3>2. RecordOK(r)' BY <3>1, <1>1, RecordKept
    <3> QED BY <3>1, <3>2, <1>1, StoreKept DEF FlowInv
  <2> QED BY <2>1, <2>2
<1>3. PageInv'
  <2>1. \A f \in flows' : f \in flows \/ FlowOK(f)' BY <1>1, FlowKept
  <2>2. \A s \in searches' : s \in searches \/ SearchOK(s)' BY <1>1, SearchKept
  <2>3. \A r \in recovery' : r \in recovery \/ RecoveryOK(r)' BY <1>1, RecoveryKept
  <2> QED BY <1>1, <2>1, <2>2, <2>3, PageKept DEF FlowInv
<1> QED BY <1>1, <1>2, <1>3 DEF FlowInv

-----------------------------------------------------------------------------
(* What the flows have to do. *)

LEMMA CallsOrder ==
  ASSUME NEW x, NEW a
  PROVE  /\ Call(x, a).call = x /\ Call(x, a).amount = a
         /\ DOMAIN Predecessor = {"save", "unwrap", "finalizeUnwrap"}
         /\ Predecessor["save"] = {"wrap"} /\ Predecessor["unwrap"] = {"withdraw", "withdrawWinnings"}
         /\ Predecessor["finalizeUnwrap"] = {"unwrap"}
BY DEF Call, Predecessor

\* The first of two writes makes available what the second spends.
Follows(a, b) ==
  b.call \in DOMAIN Predecessor => a.call \in Predecessor[b.call] /\ a.amount = b.amount

LEMMA StepsOf ==
  ASSUME NEW S, NEW todo \in Seq(S),
         \A i \in 1 .. Len(todo) - 1 : Follows(todo[i], todo[i + 1])
  PROVE  InSteps(todo)
BY SequenceOfValues DEF InSteps, Follows

LEMMA ShortSteps ==
  ASSUME NEW S, NEW todo \in Seq(S), Len(todo) \in {0, 1}
  PROVE  InSteps(todo)
<1>1. 1 .. Len(todo) - 1 = {} OBVIOUS
<1> QED BY <1>1, StepsOf

LEMMA TwoSteps ==
  ASSUME NEW S, NEW todo \in Seq(S), Len(todo) = 2, Follows(todo[1], todo[2])
  PROVE  InSteps(todo)
<1>1. \A i \in 1 .. Len(todo) - 1 : Follows(todo[i], todo[i + 1]) OBVIOUS
<1> QED BY <1>1, StepsOf

LEMMA ThreeSteps ==
  ASSUME NEW S, NEW todo \in Seq(S), Len(todo) = 3, Follows(todo[1], todo[2]), Follows(todo[2], todo[3])
  PROVE  InSteps(todo)
<1>1. ASSUME NEW i \in 1 .. Len(todo) - 1 PROVE Follows(todo[i], todo[i + 1])
  <2>1. CASE i = 1 BY <2>1
  <2>2. CASE i = 2 BY <2>2
  <2> QED BY <2>1, <2>2
<1> QED BY <1>1, StepsOf

\* A list of writes that needs nothing before it.
Fresh(todo) == InSteps(todo) /\ (todo # <<>> => Head(todo).call \notin DOMAIN Predecessor)

LEMMA FreshWhen ==
  ASSUME NEW S, NEW todo \in Seq(S), InSteps(todo),
         Len(todo) >= 1 => todo[1].call \notin DOMAIN Predecessor
  PROVE  Fresh(todo)
<1>1. ASSUME todo # <<>> PROVE Len(todo) >= 1 /\ Head(todo) = todo[1] BY <1>1
<1> QED BY <1>1 DEF Fresh

LEMMA NoPlan == Fresh(<<>>)
<1>1. <<>> \in Seq({}) /\ Len(<<>>) = 0 OBVIOUS
<1>2. PICK q : q = <<>> OBVIOUS
<1>3. q \in Seq({}) /\ Len(q) = 0 BY <1>1, <1>2
<1>4. InSteps(q)
  <2>1. Len(q) \in {0, 1} BY <1>3
  <2> QED BY <1>3, <2>1, ShortSteps
<1> QED BY <1>2, <1>4 DEF Fresh

LEMMA OneStep ==
  ASSUME NEW a
  PROVE  InSteps(<<a>>) /\ <<a>> # <<>> /\ Head(<<a>>) = a
<1>1. <<a>> \in Seq({a}) /\ Len(<<a>>) = 1 OBVIOUS
<1>2. PICK q : q = <<a>> OBVIOUS
<1>3. q \in Seq({a}) /\ Len(q) = 1 BY <1>1, <1>2
<1>4. InSteps(q)
  <2>1. Len(q) \in {0, 1} BY <1>3
  <2> QED BY <1>3, <2>1, ShortSteps
<1> QED BY <1>2, <1>4

LEMMA AddPlan ==
  ASSUME NEW l, NEW amount
  PROVE  Fresh(addV2Money(l, amount))
<1>1. PICK ap, wr, sv : ap = Call("approve", amount) /\ wr = Call("wrap", amount) /\ sv = Call("save", amount)
  OBVIOUS
<1>2. /\ ap.call = "approve" /\ wr.call = "wrap" /\ sv.call = "save"
      /\ wr.amount = amount /\ sv.amount = amount
  BY <1>1, CallsOrder
<1>3. PICK S : S = {ap, wr, sv} OBVIOUS
<1>4. <<ap>> \in Seq(S) /\ <<>> \in Seq(S) /\ <<wr, sv>> \in Seq(S) BY <1>3
<1>5. CASE l.allowance < amount
  <2>1. PICK q : q = <<ap>> \o <<wr, sv>> OBVIOUS
  <2>2. q = addV2Money(l, amount) BY <1>1, <1>5, <2>1 DEF addV2Money
  <2>3. q \in Seq(S) /\ Len(q) = 3 /\ q[1] = ap /\ q[2] = wr /\ q[3] = sv BY <2>1, <1>4
  <2>6. Follows(q[1], q[2]) /\ Follows(q[2], q[3]) BY <2>3, <1>2, CallsOrder DEF Follows
  <2>4. InSteps(q) BY <2>3, <2>6, ThreeSteps
  <2>5. Fresh(q) BY <2>3, <2>4, <1>2, FreshWhen, CallsOrder
  <2> QED BY <2>2, <2>5
<1>6. CASE ~(l.allowance < amount)
  <2>1. PICK q : q = <<>> \o <<wr, sv>> OBVIOUS
  <2>2. q = addV2Money(l, amount) BY <1>1, <1>6, <2>1 DEF addV2Money
  <2>3. q \in Seq(S) /\ Len(q) = 2 /\ q[1] = wr /\ q[2] = sv BY <2>1, <1>4
  <2>6. Follows(q[1], q[2]) BY <2>3, <1>2, CallsOrder DEF Follows
  <2>4. InSteps(q) BY <2>3, <2>6, TwoSteps
  <2>5. Fresh(q) BY <2>3, <2>4, <1>2, FreshWhen, CallsOrder
  <2> QED BY <2>2, <2>5
<1> QED BY <1>5, <1>6

LEMMA WithdrawPlan ==
  ASSUME NEW call \in {"withdraw", "withdrawWinnings"}, NEW amount
  PROVE  Fresh(withdrawV2Asset(call, amount))
<1>1. PICK wd, un, fu : /\ wd = Call(call, amount) /\ un = Call("unwrap", amount)
                        /\ fu = Call("finalizeUnwrap", amount)
  OBVIOUS
<1>2. /\ wd.call = call /\ un.call = "unwrap" /\ fu.call = "finalizeUnwrap"
      /\ wd.amount = amount /\ un.amount = amount /\ fu.amount = amount
  BY <1>1, CallsOrder
<1>3. PICK S : S = {wd, un, fu} OBVIOUS
<1>4. PICK q : q = <<wd, un, fu>> OBVIOUS
<1>5. q = withdrawV2Asset(call, amount) BY <1>1, <1>4 DEF withdrawV2Asset
<1>6. q \in Seq(S) /\ Len(q) = 3 /\ q[1] = wd /\ q[2] = un /\ q[3] = fu BY <1>3, <1>4
<1>9. Follows(q[1], q[2]) /\ Follows(q[2], q[3]) BY <1>6, <1>2, CallsOrder DEF Follows
<1>7. InSteps(q) BY <1>6, <1>9, ThreeSteps
<1>8. Fresh(q) BY <1>6, <1>7, <1>2, FreshWhen, CallsOrder
<1> QED BY <1>5, <1>8

LEMMA EnablePlan ==
  ASSUME NEW l
  PROVE  Fresh(enableV2PrizeSavings(l))
<1>1. PICK dc, on : dc = Call("depositCredit", BOND_AMOUNT * Draws - l.credit) /\ on = Call("autoOn", 0)
  OBVIOUS
<1>2. dc.call = "depositCredit" /\ on.call = "autoOn" BY <1>1, CallsOrder
<1>3. PICK S : S = {dc, on} OBVIOUS
<1>4. <<dc>> \in Seq(S) /\ <<>> \in Seq(S) /\ <<on>> \in Seq(S) BY <1>3
<1>5. CASE l.auto
  <2>1. enableV2PrizeSavings(l) = <<>> BY <1>5 DEF enableV2PrizeSavings
  <2> QED BY <2>1, NoPlan
<1>6. CASE ~l.auto /\ l.credit < BOND_AMOUNT * Draws
  <2>1. PICK q : q = <<dc>> \o <<on>> OBVIOUS
  <2>2. q = enableV2PrizeSavings(l) BY <1>1, <1>6, <2>1 DEF enableV2PrizeSavings
  <2>3. q \in Seq(S) /\ Len(q) = 2 /\ q[1] = dc /\ q[2] = on BY <2>1, <1>4
  <2>6. Follows(q[1], q[2]) BY <2>3, <1>2, CallsOrder DEF Follows
  <2>4. InSteps(q) BY <2>3, <2>6, TwoSteps
  <2>5. Fresh(q) BY <2>3, <2>4, <1>2, FreshWhen, CallsOrder
  <2> QED BY <2>2, <2>5
<1>7. CASE ~l.auto /\ ~(l.credit < BOND_AMOUNT * Draws)
  <2>1. PICK q : q = <<>> \o <<on>> OBVIOUS
  <2>2. q = enableV2PrizeSavings(l) BY <1>1, <1>7, <2>1 DEF enableV2PrizeSavings
  <2>3. q \in Seq(S) /\ Len(q) = 1 /\ q[1] = on BY <2>1, <1>4
  <2>4. InSteps(q)
    <3>1. Len(q) \in {0, 1} BY <2>3
    <3> QED BY <2>3, <3>1, ShortSteps
  <2>5. Fresh(q) BY <2>3, <2>4, <1>2, FreshWhen, CallsOrder
  <2> QED BY <2>2, <2>5
<1> QED BY <1>5, <1>6, <1>7

LEMMA OnePlan ==
  ASSUME NEW x, NEW a, x \notin {"save", "unwrap", "finalizeUnwrap"}
  PROVE  Fresh(<<Call(x, a)>>)
BY CallsOrder, OneStep DEF Fresh

(* What a flow plans is in order, and its first write has what it spends. *)
LEMMA PlanInOrder ==
  ASSUME NEW f, FlowOK(f), f.phase = "read"
  PROVE  InSteps(Plan(f)) /\ (Plan(f) # <<>> => Backed(f.op, Head(Plan(f))))
<1>1. CASE Fresh(Plan(f)) BY <1>1 DEF Fresh, Backed
<1>2. CASE f.kind = "add-money" /\ f.resume = "save"
  <2>1. Plan(f) = <<Call("save", f.amount)>> BY <1>2 DEF Plan, resumeV2AddMoney
  <2> QED BY <1>2, <2>1, OneStep DEF FlowOK
<1>3. CASE f.kind = "add-money" /\ f.resume # "save"
  <2>1. f.resume \in {"none", "wrap"} BY <1>3 DEF FlowOK
  <2>2. Plan(f) = addV2Money(ledger, f.amount) BY <1>3, <2>1 DEF Plan, resumeV2AddMoney
  <2> QED BY <2>2, <1>1, AddPlan
<1>4. CASE f.kind \in {"withdraw-savings", "withdraw-winnings"}
  <2>1. \E call \in {"withdraw", "withdrawWinnings"} : Plan(f) = withdrawV2Asset(call, f.amount)
    BY <1>4 DEF Plan
  <2> QED BY <2>1, <1>1, WithdrawPlan
<1>5. CASE f.kind = "prize-enable"
  <2>1. Plan(f) = enableV2PrizeSavings(ledger) BY <1>5 DEF Plan
  <2> QED BY <2>1, <1>1, EnablePlan
<1>6. CASE f.kind = "prize-disable"
  <2>1. Plan(f) = <<Call("autoOff", 0)>> \/ Plan(f) = <<>> BY <1>6 DEF Plan
  <2>2. Fresh(<<>>) BY NoPlan
  <2>3. Fresh(<<Call("autoOff", 0)>>) BY OnePlan
  <2> QED BY <2>1, <2>2, <2>3, <1>1
<1>7. CASE f.kind \in {"entry-top-up", "entry-withdraw", "claim-refund", "claim-reward"}
  <2>1. \E x \in {"depositCredit", "withdrawCredit", "claimRefund", "claimReward"}, a \in {0, f.amount} :
          Plan(f) = <<Call(x, a)>>
    BY <1>7 DEF Plan
  <2> QED BY <2>1, <1>1, OnePlan
<1> QED BY <1>2, <1>3, <1>4, <1>5, <1>6, <1>7 DEF FlowOK, FlowKinds

LEMMA RestInSteps ==
  ASSUME NEW todo, InSteps(todo), todo # <<>>
  PROVE  /\ InSteps(Tail(todo))
         /\ Tail(todo) # <<>> => Follows(Head(todo), Head(Tail(todo)))
<1>1. PICK S : todo \in Seq(S) BY DEF InSteps, IsSequence
<1>2. PICK q : q = Tail(todo) OBVIOUS
<1>3. PICK n \in Nat : n = Len(todo) /\ n >= 1 BY <1>1
<1>4. q \in Seq(S) /\ Len(q) = n - 1 /\ (\A i \in 1 .. n - 1 : q[i] = todo[i + 1]) /\ Head(todo) = todo[1]
  BY <1>1, <1>2, <1>3
<1>5. \A i \in 1 .. n - 1 : Follows(todo[i], todo[i + 1]) BY <1>3 DEF InSteps, Follows
<1>6. ASSUME NEW i \in 1 .. Len(q) - 1 PROVE Follows(q[i], q[i + 1])
  <2>1. i \in 1 .. n - 1 /\ i + 1 \in 1 .. n - 1 BY <1>3, <1>4
  <2>2. q[i] = todo[i + 1] /\ q[i + 1] = todo[(i + 1) + 1] BY <2>1, <1>4
  <2> QED BY <2>1, <2>2, <1>5
<1>7. InSteps(q) BY <1>4, <1>6, StepsOf
<1>8. ASSUME q # <<>> PROVE Follows(Head(todo), Head(q))
  <2>1. Len(q) >= 1 /\ Head(q) = q[1] BY <1>4, <1>8
  <2>2. 1 \in 1 .. n - 1 BY <2>1, <1>3, <1>4
  <2>3. q[1] = todo[1 + 1] BY <2>2, <1>4
  <2>4. Follows(todo[1], todo[1 + 1]) BY <2>2, <1>5
  <2> QED BY <2>1, <2>3, <2>4, <1>4
<1> QED BY <1>2, <1>7, <1>8

-----------------------------------------------------------------------------
(* The steps of a flow. *)

\* A record without a hash says nothing of the chain.
LEMMA SilentRecord ==
  ASSUME NEW f, NEW id, NEW stage, NEW ostage
  PROVE  RecordOK(Record(f, id, stage, 0, ostage))
BY DEF RecordOK, Record, RecordFields

\* A record of the hash a flow has in hand.
LEMMA FlowRecord ==
  ASSUME NEW f, FlowOK(f), NEW id, NEW stage,
         stage = "complete" => f.hash = 0 \/ Status(f.hash) = "success",
         stage = "failed" => f.hash = 0 \/ Status(f.hash) = "reverted"
  PROVE  RecordOK(Record(f, id, stage, f.hash, f.last))
BY DEF RecordOK, Record, RecordFields, FlowOK

LEMMA FailKeeps ==
  ASSUME FlowInv, NEW f, NEW ostage, NEW h, Fail(f, ostage, h),
         RecordOK(Record(f, -1, "failed", h, ostage))
  PROVE  FlowInv'
<1>1. UNCHANGED txs /\ store' = persistSafeTransaction(store, Record(f, -1, "failed", h, ostage))
  BY DEF Fail
<1>2. flows' \subseteq flows /\ UNCHANGED <<searches, recovery>> BY DEF Fail
<1> QED BY <1>1, <1>2, QuietKeeps

\* A flow goes on, and nothing is sent.
LEMMA BecomesKeeps ==
  ASSUME FlowInv, NEW f, NEW g, FlowOK(g), Becomes(f, g), UNCHANGED <<txs, searches, recovery>>,
         UNCHANGED store \/ \E r : RecordOK(r) /\ store' = persistSafeTransaction(store, r)
  PROVE  FlowInv'
<1>1. \A x \in flows' : x \in flows \/ FlowOK(x) BY DEF Becomes
<1> QED BY <1>1, QuietKeeps

LEMMA SessionKeeps ==
  ASSUME FlowInv, NEW f \in flows, Session(f)
  PROVE  FlowInv'
<1> DEFINE g == [f EXCEPT !.phase = "read"]
<1>1. FlowOK(f) /\ f.phase = "session" BY DEF FlowInv, PageInv, Session
<1>2. FlowOK(g) BY <1>1 DEF FlowOK, FlowFields
<1>3. Becomes(f, g) /\ UNCHANGED <<txs, searches, recovery>> BY DEF Session
<1>4. UNCHANGED store \/ store' = persistSafeTransaction(store, Record(f, 0, "wallet", 0, "none"))
  BY DEF Session
<1> HIDE DEF g
<1> QED BY <1>2, <1>3, <1>4, SilentRecord, BecomesKeeps

LEMMA ReadsKeeps ==
  ASSUME FlowInv, NEW f \in flows, Reads(f)
  PROVE  FlowInv'
<1> DEFINE g == [f EXCEPT !.todo = Plan(f), !.phase = "simulate"]
<1>1. FlowOK(f) /\ f.phase = "read" /\ f.hash = 0 BY DEF FlowInv, PageInv, Reads, FlowOK
<1>2. InSteps(Plan(f)) /\ (Plan(f) # <<>> => Backed(f.op, Head(Plan(f)))) BY <1>1, PlanInOrder
<1>3. DOMAIN f = FlowFields BY <1>1 DEF FlowOK
<1>4. /\ DOMAIN g = FlowFields /\ g.todo = Plan(f) /\ g.phase = "simulate" /\ g.hash = 0
      /\ g.op = f.op /\ g.kind = f.kind /\ g.resume = f.resume
  BY <1>1, <1>3 DEF FlowFields
<1>5. Becomes(f, g) /\ UNCHANGED <<txs, searches, recovery, store>> BY DEF Reads
<1> HIDE DEF g
<1>6. FlowOK(g) BY <1>1, <1>2, <1>4 DEF FlowOK
<1> QED BY <1>5, <1>6, BecomesKeeps

LEMMA SimulatesKeeps ==
  ASSUME FlowInv, NEW f \in flows, Simulates(f)
  PROVE  FlowInv'
<1> DEFINE g == [f EXCEPT !.phase = "sign"]
<1>1. FlowOK(f) /\ f.phase = "simulate" /\ f.todo # <<>> BY DEF FlowInv, PageInv, Simulates
<1>2. FlowOK(g) BY <1>1 DEF FlowOK, FlowFields
<1>3. Becomes(f, g) /\ UNCHANGED <<txs, searches, recovery, store>> BY DEF Simulates
<1> HIDE DEF g
<1> QED BY <1>2, <1>3, BecomesKeeps

LEMMA SignsKeeps ==
  ASSUME FlowInv, NEW f \in flows, Signs(f)
  PROVE  FlowInv'
<1>1. PICK h, stage, g :
        /\ h = Len(txs) + 1 /\ stage = addMoneyStageForWrite(Head(f.todo).call)
        /\ g = [f EXCEPT !.phase = "wait", !.hash = h, !.hashes = @ \cup {h}, !.writes = @ + 1,
                         !.last = stage]
        /\ txs' = Sent(f, TRUE)
        /\ store' = persistSafeTransaction(store, Record(f, g.writes, confirmingStage(stage), h, stage))
        /\ Becomes(f, g)
  BY DEF Signs
<1>2. FlowOK(f) /\ f.phase = "sign" BY DEF FlowInv, PageInv, Signs
<1>3. /\ TxsInv' /\ StepsInOrder' /\ TxsGo
      /\ h \in DOMAIN txs' /\ h # 0 /\ txs'[h].op = f.op /\ txs'[h].c = Head(f.todo)
  BY <1>1, <1>2, SendKeeps
<1>4. HashOf(f.op, h, stage)' BY <1>1, <1>3 DEF HashOf
<1>5. DOMAIN f = FlowFields BY <1>2 DEF FlowOK
<1>6. /\ DOMAIN g = FlowFields /\ g.phase = "wait" /\ g.hash = h /\ g.last = stage
      /\ g.op = f.op /\ g.kind = f.kind /\ g.resume = f.resume /\ g.todo = f.todo
  BY <1>1, <1>5 DEF FlowFields
<1>7. FlowOK(g)' BY <1>2, <1>3, <1>4, <1>6 DEF FlowOK
<1>8. RecordOK(Record(f, g.writes, confirmingStage(stage), h, stage))'
  <2>1. confirmingStage(stage) \notin {"complete", "failed"} BY DEF confirmingStage
  <2> QED BY <2>1, <1>4 DEF RecordOK, Record, RecordFields
<1>9. StoreInv' BY <1>1, <1>3, <1>8, StoreKept DEF FlowInv
<1>10. PageInv'
  <2>1. \A x \in flows' : x \in flows \/ FlowOK(x)' BY <1>1, <1>7 DEF Becomes
  <2>2. UNCHANGED <<searches, recovery>> BY DEF Signs
  <2> QED BY <2>1, <2>2, <1>3, PageKept DEF FlowInv
<1> QED BY <1>3, <1>9, <1>10 DEF FlowInv

LEMMA ReceivesKeeps ==
  ASSUME FlowInv, NEW f \in flows, Receives(f)
  PROVE  FlowInv'
<1> DEFINE g == [f EXCEPT !.phase = "verify", !.confirmed = @ \cup ({f.last} \ {"none"})]
<1>1. FlowOK(f) /\ f.phase = "wait" /\ Status(f.hash) = "success" BY DEF FlowInv, PageInv, Receives
<1>2. FlowOK(g) BY <1>1 DEF FlowOK, FlowFields
<1>3. Becomes(f, g) /\ UNCHANGED <<txs, searches, recovery>> BY DEF Receives
<1>4. store' = persistSafeTransaction(store, Record(f, f.writes, "complete", f.hash, f.last))
  BY DEF Receives
<1>5. RecordOK(Record(f, f.writes, "complete", f.hash, f.last)) BY <1>1, FlowRecord
<1> HIDE DEF g
<1> QED BY <1>2, <1>3, <1>4, <1>5, BecomesKeeps

LEMMA VerifiesKeeps ==
  ASSUME FlowInv, NEW f \in flows, Verifies(f)
  PROVE  FlowInv'
<1>1. FlowOK(f) /\ f.phase = "verify" BY DEF FlowInv, PageInv, Verifies
<1>2. CASE Verified(f)
  <2> DEFINE g == [f EXCEPT !.todo = Tail(@), !.phase = "simulate"]
  <2>1. Becomes(f, g) /\ UNCHANGED <<txs, searches, recovery, store>> BY <1>2 DEF Verifies
  <2>2. DOMAIN f = FlowFields BY <1>1 DEF FlowOK
  <2>3. /\ DOMAIN g = FlowFields /\ g.phase = "simulate" /\ g.hash = f.hash /\ g.last = f.last
        /\ g.op = f.op /\ g.kind = f.kind /\ g.resume = f.resume /\ g.todo = Tail(f.todo)
    BY <2>2 DEF FlowFields
  <2> HIDE DEF g
  <2>4. /\ f.hash # 0 /\ HashOf(f.op, f.hash, f.last) /\ Status(f.hash) = "success"
        /\ txs[f.hash].c = Head(f.todo) /\ f.todo # <<>> /\ InSteps(f.todo)
    BY <1>1 DEF FlowOK
  <2>5. InSteps(g.todo) BY <2>3, <2>4, RestInSteps
  <2>6. ASSUME g.todo # <<>> PROVE Backed(f.op, Head(g.todo))
    <3>1. Follows(Head(f.todo), Head(g.todo)) BY <2>3, <2>4, <2>6, RestInSteps
    <3>2. f.hash \in DOMAIN txs /\ txs[f.hash].op = f.op BY <2>4 DEF HashOf
    <3> QED BY <2>4, <3>1, <3>2 DEF Follows, Backed, MadeBy
  <2>7. FlowOK(g) BY <1>1, <2>3, <2>4, <2>5, <2>6 DEF FlowOK
  <2> QED BY <2>1, <2>7, BecomesKeeps
<1>3. CASE ~Verified(f)
  <2>1. Fail(f, f.last, 0) BY <1>3 DEF Verifies
  <2> QED BY <2>1, SilentRecord, FailKeeps
<1> QED BY <1>2, <1>3

LEMMA FinishesKeeps ==
  ASSUME FlowInv, NEW f \in flows, Finishes(f)
  PROVE  FlowInv'
<1>1. FlowOK(f) /\ f.phase = "simulate" BY DEF FlowInv, PageInv, Finishes
<1>2. PICK id : store' = persistSafeTransaction(store, Record(f, id, "complete", f.hash, f.last))
  BY DEF Finishes
<1>3. f.hash = 0 \/ Status(f.hash) = "success" BY <1>1 DEF FlowOK
<1>4. RecordOK(Record(f, id, "complete", f.hash, f.last)) BY <1>1, <1>3, FlowRecord
<1>5. flows' \subseteq flows /\ UNCHANGED <<txs, searches>> BY DEF Finishes
<1>6. recovery' \subseteq recovery BY DEF Finishes
<1> QED BY <1>2, <1>4, <1>5, <1>6, QuietKeeps

LEMMA FlowStepKeeps ==
  ASSUME FlowInv, NEW f \in flows, FlowStep(f)
  PROVE  FlowInv'
<1>1. CASE ReceivesRevert(f)
  <2>1. FlowOK(f) /\ Status(f.hash) = "reverted" /\ Fail(f, f.last, f.hash)
    BY <1>1 DEF FlowInv, PageInv, ReceivesRevert
  <2>2. RecordOK(Record(f, -1, "failed", f.hash, f.last)) BY <2>1, FlowRecord
  <2> QED BY <2>1, <2>2, FailKeeps
<1> QED BY <1>1, SessionKeeps, ReadsKeeps, SimulatesKeeps, SignsKeeps, ReceivesKeeps, VerifiesKeeps,
           FinishesKeeps DEF FlowStep

-----------------------------------------------------------------------------
(* Faults, the user and the page's timers. *)

LEMMA FaultKeeps ==
  ASSUME FlowInv, Fault
  PROVE  FlowInv'
<1>1. ASSUME NEW f \in flows, SessionRefused(f) PROVE FlowInv'
  <2>1. flows' \subseteq flows /\ UNCHANGED <<txs, store, searches, recovery>> BY <1>1 DEF SessionRefused
  <2> QED BY <2>1, QuietKeeps
<1>2. ASSUME NEW f \in flows, ReadsFail(f) \/ WriteRefused(f) \/ VerifyFails(f) PROVE FlowInv'
  <2>1. \E ostage : Fail(f, ostage, 0) BY <1>2 DEF ReadsFail, WriteRefused, VerifyFails
  <2> QED BY <2>1, SilentRecord, FailKeeps
<1>3. ASSUME NEW f \in flows, ReceiptUnknown(f) PROVE FlowInv'
  <2>1. FlowOK(f) BY DEF FlowInv, PageInv
  <2>2. confirmingStage(f.last) \notin {"complete", "failed"} BY DEF confirmingStage
  <2>3. RecordOK(Record(f, f.writes, confirmingStage(f.last), f.hash, f.last)) BY <2>1, <2>2, FlowRecord
  <2>4. /\ store' = persistSafeTransaction(store, Record(f, f.writes, confirmingStage(f.last), f.hash, f.last))
        /\ flows' \subseteq flows /\ UNCHANGED <<txs, searches, recovery>>
    BY <1>3 DEF ReceiptUnknown
  <2> QED BY <2>3, <2>4, QuietKeeps
<1>4. ASSUME NEW s \in searches, NotFound(s) PROVE FlowInv'
  <2>1. /\ searches' \subseteq searches /\ recovery' = {}
        /\ UNCHANGED <<txs, store, flows>>
    BY <1>4 DEF NotFound
  <2> QED BY <2>1, QuietKeeps
<1>5. CASE Reload
  <2>1. recovery' = {} /\ flows' = {} /\ searches' = {} /\ UNCHANGED store BY <1>5 DEF Reload
  <2>2. TxsInv' /\ StepsInOrder' /\ TxsGo
    <3>1. CASE txs' = txs BY <3>1, SameTxs
    <3>2. CASE txs' # txs
      <4>1. PICK f \in flows : f.phase = "sign" /\ txs' = Sent(f, FALSE) BY <1>5, <3>2 DEF Reload
      <4> QED BY <4>1, SendKeeps
    <3> QED BY <3>1, <3>2
  <2>3. StoreInv' BY <2>1, <2>2, SameStore DEF FlowInv
  <2>4. PageInv' BY <2>1 DEF PageInv
  <2> QED BY <2>2, <2>3, <2>4 DEF FlowInv
<1> QED BY <1>1, <1>2, <1>3, <1>4, <1>5 DEF Fault

LEMMA SubmitKeeps ==
  ASSUME FlowInv, NEW kind \in Kinds, NEW amount, Submit(kind, amount)
  PROVE  FlowInv'
<1>1. UNCHANGED <<txs, store, recovery, searches>> BY DEF Submit
<1>2. CASE kind = "add-money" /\ recovery # {}
  <2>1. PICK r \in recovery : r.amount = amount /\ flows' = flows \cup {ResumedFlow(r)}
    BY <1>2 DEF Submit
  <2>2. RecoveryOK(r) BY DEF FlowInv, PageInv
  <2>3. PICK g : g = ResumedFlow(r) OBVIOUS
  <2>4. /\ DOMAIN g = FlowFields /\ g.op = r.op /\ g.kind = "add-money" /\ g.amount = r.amount
        /\ g.resume = r.stage /\ g.phase = "session" /\ g.hash = 0
    BY <2>3 DEF ResumedFlow, NewFlow, FlowFields
  <2>5. FlowOK(g) BY <2>2, <2>4 DEF FlowOK, RecoveryOK, FlowKinds
  <2>6. \A f \in flows' : f \in flows \/ FlowOK(f) BY <2>1, <2>3, <2>5
  <2> QED BY <1>1, <2>6, QuietKeeps
<1>3. CASE ~(kind = "add-money" /\ recovery # {})
  <2>1. flows' = flows \cup {NewFlow(kind, amount)} BY <1>3 DEF Submit
  <2>2. PICK g : g = NewFlow(kind, amount) OBVIOUS
  <2>3. /\ DOMAIN g = FlowFields /\ g.kind = kind /\ g.resume = "none" /\ g.phase = "session"
        /\ g.hash = 0
    BY <2>2 DEF NewFlow, FlowFields
  <2>4. kind \in FlowKinds BY FlowConfiguration DEF FlowKinds
  <2>5. FlowOK(g) BY <2>3, <2>4 DEF FlowOK
  <2>6. \A f \in flows' : f \in flows \/ FlowOK(f) BY <2>1, <2>2, <2>5
  <2> QED BY <1>1, <2>6, QuietKeeps
<1> QED BY <1>2, <1>3

(* The receipt of a stored hash: the record says of it what it is. *)
LEMMA ReconcileKeeps ==
  ASSUME FlowInv, NEW r \in UnresolvedRecords, Reconcile(r)
  PROVE  FlowInv'
<1>1. PICK i \in DOMAIN store : r = store[i] /\ r.hash # 0
  BY DEF UnresolvedRecords, UnresolvedPlaces, isUnresolvedV2Transaction
<1>2. RecordOK(r) BY <1>1 DEF FlowInv, StoreInv, Values
<1>3. Status(r.hash) \in {"success", "reverted"}
  BY <1>1, <1>2 DEF RecordOK, HashOf, FlowInv, TxsInv, Status, Reconcile
<1>4. PICK q : q = [r EXCEPT !.stage = IF Status(r.hash) = "success" THEN "complete" ELSE "failed"] OBVIOUS
<1>5. RecordOK(q) BY <1>2, <1>3, <1>4 DEF RecordOK, RecordFields
<1>6. store' = persistSafeTransaction(store, q) /\ UNCHANGED <<txs, recovery, flows, searches>>
  BY <1>4 DEF Reconcile
<1> QED BY <1>5, <1>6, QuietKeeps

(* The records of a checkpoint are those of one operation. *)
LEMMA CheckpointIsOne ==
  ASSUME FlowInv, NEW i \in Checkpoint, NEW j \in Checkpoint
  PROVE  /\ i \in DOMAIN store /\ j \in DOMAIN store
         /\ store[i].op = store[j].op
<1> DEFINE places == {k \in DOMAIN store : store[k].kind = "add-money"}
<1>1. DOMAIN store \subseteq Nat
  <2>1. DOMAIN store = 1 .. Len(store) BY SequenceOfValues DEF FlowInv, StoreInv, IsSequence
  <2>2. Len(store) \in Nat BY SequenceOfValues DEF FlowInv, StoreInv, IsSequence
  <2> QED BY <2>1, <2>2
<1>2. PICK m \in Newest(places) : store[i].op = store[m].op BY DEF Checkpoint
<1>3. PICK n \in Newest(places) : store[j].op = store[n].op BY DEF Checkpoint
<1>4. m = n
  <2>1. m \in places /\ n \in places /\ m <= n /\ n <= m BY DEF Newest
  <2>2. m \in Nat /\ n \in Nat BY <2>1, <1>1
  <2> QED BY <2>1, <2>2
<1> QED BY <1>2, <1>3, <1>4 DEF Checkpoint

LEMMA ConfirmedIsTrue ==
  ASSUME FlowInv, NEW stage, NEW h \in ConfirmedHash(Checkpoint, stage)
  PROVE  \E j \in Checkpoint : HashOf(store[j].op, h, stage)
<1>1. PICK j \in Checkpoint : store[j].ostage = stage /\ store[j].hash = h /\ h # 0
  BY DEF ConfirmedHash, latestForStage, Newest
<1>2. RecordOK(store[j]) BY <1>1 DEF FlowInv, StoreInv, Values, Checkpoint
<1> QED BY <1>1, <1>2 DEF RecordOK

LEMMA SearchKeeps ==
  ASSUME FlowInv, Search
  PROVE  FlowInv'
<1>1. UNCHANGED <<txs, store, recovery, flows>> BY DEF Search
<1> DEFINE approval == ConfirmedHash(Checkpoint, "approval")
           wrap == ConfirmedHash(Checkpoint, "wrap")
<1>2. ASSUME NEW s \in searches', s \notin searches
      PROVE  \E i \in Newest(Checkpoint), h \in IF wrap # {} THEN wrap ELSE approval :
               /\ s.op = store[i].op /\ s.hash = h
               /\ s.stage = IF wrap # {} THEN "save" ELSE "wrap"
  BY <1>2 DEF Search
<1>3. ASSUME NEW s \in searches', s \notin searches PROVE SearchOK(s)
  <2>1. PICK i \in Newest(Checkpoint), h \in IF wrap # {} THEN wrap ELSE approval :
          /\ s.op = store[i].op /\ s.hash = h
          /\ s.stage = IF wrap # {} THEN "save" ELSE "wrap"
    BY <1>2, <1>3
  <2>2. i \in Checkpoint BY DEF Newest
  <2>3. CASE wrap # {}
    <3>1. PICK j \in Checkpoint : HashOf(store[j].op, h, "wrap") BY <2>1, <2>3, ConfirmedIsTrue
    <3>2. store[j].op = s.op BY <2>1, <2>2, <3>1, CheckpointIsOne
    <3>3. addMoneyStageForWrite(txs[h].c.call) = "wrap" BY <3>1 DEF HashOf
    <3>4. txs[h].c.call = "wrap" BY <3>3 DEF addMoneyStageForWrite
    <3> QED BY <2>1, <2>3, <3>1, <3>2, <3>4 DEF SearchOK, HashOf
  <2>4. CASE wrap = {}
    <3>1. PICK j \in Checkpoint : HashOf(store[j].op, h, "approval") BY <2>1, <2>4, ConfirmedIsTrue
    <3>2. store[j].op = s.op BY <2>1, <2>2, <3>1, CheckpointIsOne
    <3> QED BY <2>1, <2>4, <3>1, <3>2 DEF SearchOK, HashOf
  <2> QED BY <2>3, <2>4
<1> QED BY <1>1, <1>3, QuietKeeps

(* What a search has found can be resumed: its wrap has succeeded, for the amount that is saved. *)
LEMMA FoundKeeps ==
  ASSUME FlowInv, NEW s \in searches, Found(s)
  PROVE  FlowInv'
<1>1. SearchOK(s) /\ Status(s.hash) = "success" BY DEF FlowInv, PageInv, Found
<1>2. PICK r : r = [op |-> s.op, stage |-> s.stage, amount |-> txs[s.hash].c.amount,
                    hashes |-> s.hashes, confirmed |-> s.confirmed]
  OBVIOUS
<1>3. r.op = s.op /\ r.stage = s.stage /\ r.amount = txs[s.hash].c.amount BY <1>2
<1>4. ASSUME s.stage = "save" PROVE Backed(s.op, Call("save", r.amount))
  <2>1. MadeBy(s.hash, s.op, Call("save", r.amount))
    BY <1>1, <1>3, <1>4, CallsOrder DEF SearchOK, MadeBy
  <2> QED BY <1>1, <2>1 DEF Backed, SearchOK
<1>5. RecoveryOK(r) BY <1>1, <1>3, <1>4 DEF RecoveryOK, SearchOK
<1>6. recovery' = {r} /\ searches' \subseteq searches /\ UNCHANGED <<txs, store, flows>>
  BY <1>2 DEF Found
<1> QED BY <1>5, <1>6, QuietKeeps

LEMMA NextKeeps ==
  ASSUME FlowInv, [Next]_vars
  PROVE  FlowInv'
<1>1. CASE SubmitRefused
  <2>1. UNCHANGED <<txs, store, recovery, flows, searches>> BY <1>1 DEF SubmitRefused
  <2> QED BY <2>1, QuietKeeps
<1>2. CASE UserStep /\ ~SubmitRefused BY <1>2, SubmitKeeps DEF UserStep
<1>3. CASE PageStep
  <2>1. CASE Announce
    <3>1. UNCHANGED <<txs, store, recovery, flows, searches>> BY <2>1 DEF Announce
    <3> QED BY <3>1, QuietKeeps
  <2> QED BY <1>3, <2>1, FlowStepKeeps, ReconcileKeeps, SearchKeeps, FoundKeeps DEF PageStep
<1>4. CASE ChainStep BY <1>4, MineKeeps DEF ChainStep
<1>5. CASE UNCHANGED vars
  <2>1. UNCHANGED <<txs, store, recovery, flows, searches>> BY <1>5 DEF vars, pageVars
  <2> QED BY <2>1, QuietKeeps
<1> QED BY <1>1, <1>2, <1>3, <1>4, <1>5, FaultKeeps DEF Next

LEMMA InitInv == Init => FlowInv
<1> SUFFICES ASSUME Init PROVE FlowInv OBVIOUS
<1>1. txs = <<>> /\ store = <<>> /\ recovery = {} /\ flows = {} /\ searches = {} BY DEF Init
<1>2. <<>> \in Seq({}) /\ DOMAIN <<>> = {} OBVIOUS
<1>3. IsSequence(<<>>) /\ Values(<<>>) = {} BY <1>2, SequenceOfValues
<1>4. TxsInv BY <1>1, <1>2, <1>3 DEF TxsInv
<1>5. StepsInOrder BY <1>1, <1>2 DEF StepsInOrder
<1>6. StoreInv BY <1>1, <1>3 DEF StoreInv
<1>7. PageInv BY <1>1 DEF PageInv
<1> QED BY <1>4, <1>5, <1>6, <1>7 DEF FlowInv

(* The inductive invariant of the page's flows (runAction, writeV2, discoverAddMoneyRecovery):     *)
(* what is stored, under way, searched for and offered for resumption agrees with the chain.      *)
THEOREM FlowInvariant == Spec => []FlowInv
<1>1. FlowInv /\ [Next]_vars => FlowInv' BY NextKeeps
<1> QED BY <1>1, InitInv, PTL DEF Spec

(* The history in local storage (persistSafeTransaction) never contradicts the chain: a write it   *)
(* calls complete has succeeded, a hash it calls failed has reverted, through every reload,        *)
(* unanswered receipt and late reconciliation.                                                     *)
THEOREM HistoryIsTrue == Spec => []RecordsAreTrue
<1>1. FlowInv => RecordsAreTrue
  BY DEF FlowInv, StoreInv, RecordOK, RecordsAreTrue, Values
<1> QED BY <1>1, FlowInvariant, PTL

(* Money moves in the order of the flow: addV2Money, its resumption and withdrawV2Asset sign a     *)
(* write that spends what an earlier one makes available only after that one has succeeded, for    *)
(* the same operation and amount.                                                                  *)
THEOREM MoneyMovesInOrder == Spec => []StepsInOrder
<1>1. FlowInv => StepsInOrder BY DEF FlowInv
<1> QED BY <1>1, FlowInvariant, PTL
=============================================================================
