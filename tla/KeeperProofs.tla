---------------------------- MODULE KeeperProofs ----------------------------
(***************************************************************************)
(* What the keeper's journal promises, for every lifecycle, every number   *)
(* of confirmations and of attempts: nothing of the keeper's reaches the   *)
(* network that is not in the journal, at most one attempt waits for its   *)
(* outcome, what is called reconciled is executed in the final chain, and  *)
(* a resolved attempt is never touched again.                              *)
(*                                                                         *)
(* The properties are not inductive: what the process holds in its local   *)
(* variables between two of its steps decides what it may write next.      *)
(* WorkInv says it, place by place: between planning and persisting the    *)
(* journal has no unresolved attempt; from persisting to recording the     *)
(* transaction in hand is that of the last, still unresolved attempt;      *)
(* while it reconciles, the entry in hand is the one unresolved attempt,   *)
(* and a success it has read is in the final chain, which only grows.      *)
(***************************************************************************)
EXTENDS Keeper, FiniteSetTheorems, FunctionTheorems, SequenceTheorems, TLAPS

\* The transactions of a journal.
TransactionsOf(attempts) == {attempts[k].tx : k \in 1..Len(attempts)}

\* The local variables of the process.
Work == [entry : Nat, waiting : BOOLEAN, receipt : {"none", "shallow", "success", "failure"},
         required : BOOLEAN, action : SUBSET Action, tx : SUBSET Transaction, sent : BOOLEAN]

\* The chain, the journal and the process are of their types.
KeeperTypes ==
  /\ final \in Block
  /\ recent \in Seq(Block)
  /\ journal \in Seq(Attempt)
  /\ signed \in Nat
  /\ work \in Work

\* Every receipt of a block is of a transaction of T.
ReceiptsOf(block, T) == \A r \in block.receipts : r.tx \in T

\* Whatever the network has of the keeper, pending or mined, is in the journal.
NetworkInv ==
  /\ mempool \subseteq TransactionsOf(journal)
  /\ unseen \subseteq TransactionsOf(journal)
  /\ ReceiptsOf(final, TransactionsOf(journal))
  /\ \A k \in 1..Len(recent) : ReceiptsOf(recent[k], TransactionsOf(journal))

\* At most one attempt is unresolved.
OneUnresolved == \A j, k \in Unresolved : j = k

Places == {"idle", "outstanding", "receipt", "snapshot", "conclude", "plan", "simulate", "sign",
           "persist", "broadcast", "record", "down"}

\* What the process holds in hand at each of its places.
WorkInv ==
  /\ pc \in Places
  /\ pc \in {"plan", "simulate", "sign", "persist"} => Unresolved = {}
  /\ pc \in {"simulate", "sign"} => \E a \in work.action : work.action = {a}
  /\ pc = "persist" => \E t \in work.tx : work.tx = {t}
  /\ pc \in {"broadcast", "record"} =>
       /\ Len(journal) \in Unresolved
       /\ work.tx = {journal[Len(journal)].tx}
  /\ pc \in {"receipt", "snapshot", "conclude"} => work.entry \in Unresolved
  /\ pc \in {"snapshot", "conclude"} /\ work.receipt = "success" =>
       [tx |-> journal[work.entry].tx, ok |-> TRUE] \in final.receipts

KeeperInv ==
  /\ KeeperTypes
  /\ NetworkInv
  /\ OneUnresolved
  /\ WorkInv
  /\ ReconciledIsFinal

\* A resolved attempt is never touched again, and no status leaves the history of
\* an attempt: the journal is a record of what happened, whatever crashes.
RecordKept ==
  \A k \in 1..Len(journal) :
    /\ k \in 1..Len(journal')
    /\ journal'[k].tx = journal[k].tx
    /\ journal[k].history \subseteq journal'[k].history
    /\ k \notin Unresolved => journal'[k] = journal[k]

-----------------------------------------------------------------------------
\* A set of natural numbers has a least one: what stands in for induction here.
LEMMA LeastNatural ==
  ASSUME NEW T \in SUBSET Nat, T # {}
  PROVE  \E x \in T : \A y \in T : x <= y
<1> DEFINE R == {ss \in Nat \X Nat : ss[1] < ss[2]}
<1>1. IsWellFoundedOn(R, Nat)
  BY NatLessThanWellFounded DEF OpToRel
<1>2. PICK x \in T : \A y \in T : ~(<<y, x>> \in R)
  <2> HIDE DEF R
  <2> QED BY <1>1, WFMin, Zenon
<1>3. ASSUME NEW y \in T PROVE x <= y
  <2>1. <<y, x>> \notin R /\ y \in Nat /\ x \in Nat
    BY <1>2
  <2> QED BY <2>1
<1> QED BY <1>3

-----------------------------------------------------------------------------
(* The chain. *)

\* The head of the chain is a block.
LEMMA HeadIsBlock ==
  ASSUME final \in Block, recent \in Seq(Block)
  PROVE  HeadBlock \in Block /\ HeadBlock.state \in ChainState
<1>1. CASE recent = <<>>
  BY <1>1 DEF HeadBlock, Block
<1>2. CASE recent # <<>>
  <2>1. Len(recent) \in 1..Len(recent)
    BY <1>2
  <2>2. recent[Len(recent)] \in Block
    BY <2>1, ElementOfSeq
  <2> QED BY <1>2, <2>2 DEF HeadBlock, Block
<1> QED BY <1>1, <1>2

\* A call that the vault executes leads to a state of the vault.
LEMMA AfterIsState ==
  ASSUME NEW state \in ChainState, NEW action, Executes(action, state)
  PROVE  After(action, state) \in ChainState
<1> DEFINE N == Len(Lifecycle)
<1>1. N \in Nat
  BY KeeperConfiguration
<1>2. state.pos \in 1..(N + 1) /\ state.active \in Nat /\ state.due \in BOOLEAN
      /\ state = [pos |-> state.pos, active |-> state.active, due |-> state.due]
  BY DEF ChainState
<1>3. CASE action.kind = "close-round"
  <2>1. After(action, state) = [pos |-> state.pos, active |-> state.active + 1, due |-> FALSE]
    BY <1>2, <1>3 DEF After
  <2> QED BY <1>2, <2>1 DEF ChainState
<1>4. CASE action.kind # "close-round"
  <2>1. After(action, state) = [pos |-> state.pos + 1, active |-> state.active, due |-> state.due]
    BY <1>2, <1>4 DEF After
  <2>2. state.pos <= N
    BY <1>4 DEF Executes
  <2>3. state.pos + 1 \in 1..(N + 1)
    BY <1>1, <1>2, <2>2
  <2> QED BY <1>2, <2>1, <2>3 DEF ChainState
<1> QED BY <1>3, <1>4

\* A new block keeps the chain a chain; the final receipts only grow, and no
\* receipt appears that neither the chain nor the block had.
LEMMA ExtendKeeps ==
  ASSUME final \in Block, recent \in Seq(Block),
         NEW state \in ChainState, NEW receipts \in SUBSET Receipt, NEW T,
         ReceiptsOf(final, T), \A k \in 1..Len(recent) : ReceiptsOf(recent[k], T),
         \A r \in receipts : r.tx \in T,
         Extend(state, receipts)
  PROVE  /\ final' \in Block /\ recent' \in Seq(Block)
         /\ final.receipts \subseteq final'.receipts
         /\ ReceiptsOf(final', T)
         /\ \A k \in 1..Len(recent') : ReceiptsOf(recent'[k], T)
<1> DEFINE b == [state |-> state, receipts |-> receipts]
           blocks == Append(recent, b)
<1>1. b \in Block /\ ReceiptsOf(b, T)
  BY DEF Block, ReceiptsOf
<1> HIDE DEF b
<1>2. /\ blocks \in Seq(Block) /\ Len(blocks) = Len(recent) + 1 /\ Len(recent) \in Nat
      /\ \A k \in 1..Len(recent) : blocks[k] = recent[k]
      /\ blocks[Len(recent) + 1] = b
  BY <1>1, AppendProperties, LenProperties
<1> HIDE DEF blocks
<1>3. \A k \in 1..Len(blocks) : ReceiptsOf(blocks[k], T) /\ blocks[k] \in Block
  <2> TAKE k \in 1..Len(blocks)
  <2>1. CASE k = Len(recent) + 1
    BY <1>1, <1>2, <2>1
  <2>2. CASE k # Len(recent) + 1
    <3>1. k \in 1..Len(recent)
      BY <1>2, <2>2
    <3>2. recent[k] \in Block
      BY <3>1, ElementOfSeq
    <3> QED BY <1>2, <3>1, <3>2
  <2> QED BY <2>1, <2>2
<1>4. CASE Len(blocks) < CONFIRMATIONS
  <2>1. recent' = blocks /\ final' = final
    BY <1>4 DEF Extend, blocks, b
  <2> QED BY <1>2, <1>3, <2>1
<1>5. CASE ~(Len(blocks) < CONFIRMATIONS)
  <2>1. /\ recent' = Tail(blocks)
        /\ final' = [state |-> blocks[1].state,
                     receipts |-> final.receipts \cup blocks[1].receipts]
    BY <1>5 DEF Extend, blocks, b
  <2>2. blocks[1] \in Block /\ ReceiptsOf(blocks[1], T)
    BY <1>2, <1>3
  <2>3. final' \in Block /\ final.receipts \subseteq final'.receipts
    BY <2>1, <2>2 DEF Block
  <2>4. ReceiptsOf(final', T)
    BY <2>1, <2>2 DEF ReceiptsOf
  <2>5. /\ Tail(blocks) \in Seq(Block) /\ Len(Tail(blocks)) = Len(recent)
        /\ \A k \in 1..Len(recent) : Tail(blocks)[k] = blocks[k + 1]
    BY <1>2, HeadTailProperties
  <2>6. \A k \in 1..Len(recent') : ReceiptsOf(recent'[k], T)
    BY <1>2, <1>3, <2>1, <2>5
  <2> QED BY <2>1, <2>3, <2>4, <2>5, <2>6
<1> QED BY <1>4, <1>5

-----------------------------------------------------------------------------
(* The journal. *)

\* A mapping of a finite set has finitely many values, at most as many as arguments.
LEMMA ImageIsFinite ==
  ASSUME NEW S, IsFiniteSet(S), NEW f, f = [x \in S |-> f[x]]
  PROVE  LET T == {f[x] : x \in S}
         IN  IsFiniteSet(T) /\ Cardinality(T) <= Cardinality(S)
<1> DEFINE T == {f[x] : x \in S}
<1>1. f \in [S -> T]
  OBVIOUS
<1>2. \A t \in T : \E x \in S : f[x] = t
  OBVIOUS
<1>3. f \in Surjection(S, T)
  BY <1>1, <1>2 DEF Surjection
<1> HIDE DEF T
<1>4. IsFiniteSet(T) /\ Cardinality(T) <= Cardinality(S)
  BY <1>3, FS_Surjection
<1> QED BY <1>4 DEF T

\* A journal has finitely many transactions, all of them transactions.
LEMMA TransactionsFinite ==
  ASSUME NEW j \in Seq(Attempt)
  PROVE  IsFiniteSet(TransactionsOf(j)) /\ TransactionsOf(j) \subseteq Transaction
<1> DEFINE S == 1..Len(j)
           f == [k \in S |-> j[k].tx]
<1>1. Len(j) \in Nat
  BY LenProperties
<1>2. IsFiniteSet(S)
  BY <1>1, FS_Interval
<1>3. TransactionsOf(j) = {f[x] : x \in S}
  BY DEF TransactionsOf
<1>4. f = [x \in S |-> f[x]]
  OBVIOUS
<1>5. ASSUME NEW k \in 1..Len(j) PROVE j[k].tx \in Transaction
  <2>1. j[k] \in Attempt
    BY <1>5, ElementOfSeq
  <2> QED BY <2>1 DEF Attempt
<1>6. TransactionsOf(j) \subseteq Transaction
  BY <1>5 DEF TransactionsOf
<1> HIDE DEF f, S
<1>7. IsFiniteSet({f[x] : x \in S})
  BY <1>2, <1>4, ImageIsFinite
<1> QED BY <1>3, <1>6, <1>7

\* The receipts of the chain are finitely many, of transactions of the journal.
LEMMA MinedIsFinite ==
  ASSUME KeeperTypes, NetworkInv
  PROVE  /\ IsFiniteSet(Mined) /\ Cardinality(Mined) \in Nat
         /\ IsFiniteSet(mempool) /\ Cardinality(mempool) \in Nat
         /\ mempool \subseteq Transaction /\ unseen \subseteq Transaction
         /\ \A r \in Mined : r.tx \in TransactionsOf(journal)
<1> DEFINE T == TransactionsOf(journal)
           P == T \X BOOLEAN
           f == [p \in P |-> [tx |-> p[1], ok |-> p[2]]]
<1>1. IsFiniteSet(T) /\ T \subseteq Transaction
  BY TransactionsFinite DEF KeeperTypes
<1>2. \A r \in Mined : r \in Receipt /\ r.tx \in T
  <2> TAKE r \in Mined
  <2>1. CASE r \in final.receipts
    BY <2>1 DEF KeeperTypes, Block, NetworkInv, ReceiptsOf
  <2>2. ASSUME NEW k \in 1..Len(recent), r \in recent[k].receipts
        PROVE  r \in Receipt /\ r.tx \in T
    <3>1. recent[k] \in Block
      BY ElementOfSeq DEF KeeperTypes
    <3> QED BY <2>2, <3>1 DEF Block, NetworkInv, ReceiptsOf
  <2> QED BY <2>1, <2>2 DEF Mined, Shallow
<1>3. \A r \in Mined : \E p \in P : r = f[p]
  <2> TAKE r \in Mined
  <2>1. r = [tx |-> r.tx, ok |-> r.ok] /\ r.ok \in BOOLEAN /\ r.tx \in T
    BY <1>2 DEF Receipt
  <2>2. <<r.tx, r.ok>> \in P
    BY <2>1
  <2>3. f[<<r.tx, r.ok>>] = r
    BY <2>1, <2>2
  <2> QED BY <2>2, <2>3
<1>4. IsFiniteSet(P)
  <2>1. IsFiniteSet(BOOLEAN)
    <3>1. IsFiniteSet({TRUE}) /\ IsFiniteSet({FALSE})
      BY FS_Singleton
    <3>2. IsFiniteSet({TRUE} \cup {FALSE})
      BY <3>1, FS_Union
    <3>3. {TRUE} \cup {FALSE} = BOOLEAN
      OBVIOUS
    <3> QED BY <3>2, <3>3
  <2> HIDE DEF T
  <2> QED BY <1>1, <2>1, FS_Product
<1>5. f = [p \in P |-> f[p]]
  OBVIOUS
<1> HIDE DEF f, P
<1>6. IsFiniteSet({f[p] : p \in P})
  BY <1>4, <1>5, ImageIsFinite
<1>7. Mined \in SUBSET {f[p] : p \in P}
  BY <1>3
<1>8. IsFiniteSet(Mined)
  BY <1>6, <1>7, FS_Subset
<1>9. mempool \in SUBSET T /\ unseen \subseteq T
  BY DEF NetworkInv
<1>10. IsFiniteSet(mempool)
  BY <1>1, <1>9, FS_Subset
<1> QED BY <1>1, <1>2, <1>8, <1>9, <1>10, FS_CardinalityType

\* The account's pending nonce exists: among one more candidates than there are
\* pending transactions one is unused, and the least of those has only used ones
\* before it.
LEMMA PendingNonceIsNatural ==
  ASSUME KeeperTypes, NetworkInv
  PROVE  PendingNonce \in Nat
<1> DEFINE f == [t \in mempool |-> t.nonce]
           used == {t.nonce : t \in mempool}
           count == Cardinality(Mined)
           C == count..(count + Cardinality(mempool))
           free == {n \in C : n \notin used}
<1>1. /\ count \in Nat /\ Cardinality(mempool) \in Nat /\ IsFiniteSet(mempool)
  BY MinedIsFinite
<1>2. used = {f[t] : t \in mempool} /\ f = [t \in mempool |-> f[t]]
  OBVIOUS
<1>3. IsFiniteSet(used) /\ Cardinality(used) <= Cardinality(mempool)
  <2> HIDE DEF f, used
  <2> QED BY <1>1, <1>2, ImageIsFinite
<1> HIDE DEF used, count
<1>4. IsFiniteSet(C) /\ Cardinality(C) = Cardinality(mempool) + 1
  <2>1. count \in Int /\ count + Cardinality(mempool) \in Int /\ ~(count > count + Cardinality(mempool))
    BY <1>1
  <2>2. IsFiniteSet(C) /\ Cardinality(C) = ((count + Cardinality(mempool)) - count) + 1
    BY <2>1, FS_Interval
  <2> QED BY <1>1, <2>2
<1>5. free # {}
  <2> SUFFICES ASSUME free = {} PROVE FALSE
    OBVIOUS
  <2>1. C \in SUBSET used
    OBVIOUS
  <2> HIDE DEF C
  <2>2. Cardinality(C) <= Cardinality(used)
    BY <1>3, <2>1, FS_Subset
  <2>3. Cardinality(used) \in Nat
    BY <1>3, FS_CardinalityType
  <2> QED BY <1>1, <1>3, <1>4, <2>2, <2>3
<1>6. free \in SUBSET Nat
  BY <1>1
<1>7. PICK n \in free : \A m \in free : n <= m
  <2> HIDE DEF free
  <2> QED BY <1>5, <1>6, LeastNatural
<1>8. \A m \in count..(n - 1) : m \in used
  <2> TAKE m \in count..(n - 1)
  <2>1. m \in C /\ ~(n <= m)
    BY <1>1, <1>7
  <2> QED BY <1>7, <2>1
<1>9. PendingNonce \in C
  BY <1>7, <1>8 DEF PendingNonce, used, count
<1> QED BY <1>1, <1>9

\* put with a status: the attempt gets it, keeps its transaction and its history,
\* and no other attempt changes.
LEMMA PutUpdates ==
  ASSUME journal \in Seq(Attempt), NEW k \in 1..Len(journal), NEW status \in JournalStatus,
         Put(k, status)
  PROVE  /\ journal' \in Seq(Attempt) /\ Len(journal') = Len(journal)
         /\ journal'[k].status = status
         /\ journal'[k].history = journal[k].history \cup {status}
         /\ \A i \in 1..Len(journal) : i # k => journal'[i] = journal[i]
         /\ \A i \in 1..Len(journal) : journal'[i].tx = journal[i].tx
         /\ TransactionsOf(journal') = TransactionsOf(journal)
<1> DEFINE old == journal[k]
           h == old.history \cup {status}
           e == [old EXCEPT !.status = status, !.history = h]
<1>1. old \in Attempt
  BY ElementOfSeq
<1>2. h \in SUBSET JournalStatus
  BY <1>1 DEF Attempt
<1>3. journal' = [journal EXCEPT ![k] = e]
  BY DEF Put
<1>4. e \in Attempt /\ e.tx = old.tx /\ e.status = status /\ e.history = h
  <2> HIDE DEF old, h
  <2> QED BY <1>1, <1>2 DEF Attempt
<1> HIDE DEF e
<1>5. /\ journal' \in Seq(Attempt) /\ Len(journal') = Len(journal)
      /\ \A i \in 1..Len(journal) : journal'[i] = IF i = k THEN e ELSE journal[i]
  BY <1>3, <1>4, ExceptSeq
<1>6. \A i \in 1..Len(journal) : journal'[i].tx = journal[i].tx
  BY <1>4, <1>5
<1>7. TransactionsOf(journal') = TransactionsOf(journal)
  BY <1>5, <1>6 DEF TransactionsOf
<1> QED BY <1>4, <1>5, <1>6, <1>7

\* A journalled attempt is the last one; the others stay as they are.
LEMMA AppendJournals ==
  ASSUME journal \in Seq(Attempt), NEW e \in Attempt, journal' = Append(journal, e)
  PROVE  /\ journal' \in Seq(Attempt) /\ Len(journal') = Len(journal) + 1
         /\ Len(journal) \in Nat
         /\ journal'[Len(journal')] = e
         /\ \A i \in 1..Len(journal) : i \in 1..Len(journal') /\ journal'[i] = journal[i]
         /\ TransactionsOf(journal) \subseteq TransactionsOf(journal')
<1>1. /\ journal' \in Seq(Attempt) /\ Len(journal') = Len(journal) + 1
      /\ Len(journal) \in Nat
      /\ journal'[Len(journal')] = e
      /\ \A i \in 1..Len(journal) : journal'[i] = journal[i]
  BY AppendProperties, LenProperties
<1>2. \A i \in 1..Len(journal) : i \in 1..Len(journal')
  BY <1>1
<1>3. TransactionsOf(journal) \subseteq TransactionsOf(journal')
  BY <1>1, <1>2 DEF TransactionsOf
<1> QED BY <1>1, <1>2, <1>3

\* The verdict on an unresolved attempt is a status; it is reconciled only after a
\* successful receipt.
LEMMA VerdictIs ==
  ASSUME NEW status \in unresolvedStatuses, NEW receipt, NEW required, NEW known, NEW old
  PROVE  /\ Verdict(status, receipt, required, known, old) \in JournalStatus
         /\ Verdict(status, receipt, required, known, old) = "reconciled" => receipt = "success"
  BY DEF Verdict, unresolvedStatuses, JournalStatus

\* What is said of every unresolved attempt of a journal depends on it alone.
LEMMA UnresolvedKept ==
  ASSUME UNCHANGED journal
  PROVE  /\ Unresolved' = Unresolved
         /\ TransactionsOf(journal') = TransactionsOf(journal)
         /\ OneUnresolved => OneUnresolved'
  BY DEF Unresolved, TransactionsOf, OneUnresolved

-----------------------------------------------------------------------------
(* The chain's steps keep the invariant. *)

\* A step of the chain leaves the journal and the process alone: it need only keep
\* the chain a chain, its final receipts and the network within the journal.
LEMMA ChainKeeps ==
  ASSUME KeeperInv, UNCHANGED <<journal, signed, pc, work>>,
         final' \in Block, recent' \in Seq(Block),
         final.receipts \subseteq final'.receipts,
         mempool' \subseteq TransactionsOf(journal), unseen' \subseteq TransactionsOf(journal),
         ReceiptsOf(final', TransactionsOf(journal)),
         \A k \in 1..Len(recent') : ReceiptsOf(recent'[k], TransactionsOf(journal))
  PROVE  KeeperInv'
<1>1. Unresolved' = Unresolved /\ TransactionsOf(journal') = TransactionsOf(journal)
      /\ OneUnresolved'
  BY UnresolvedKept DEF KeeperInv
<1>2. KeeperTypes'
  BY DEF KeeperInv, KeeperTypes
<1>3. NetworkInv'
  BY <1>1 DEF NetworkInv
<1>4. WorkInv'
  BY <1>1 DEF KeeperInv, WorkInv
<1>5. ReconciledIsFinal'
  BY DEF KeeperInv, ReconciledIsFinal
<1> QED BY <1>1, <1>2, <1>3, <1>4, <1>5 DEF KeeperInv

\* A new block with receipts of journalled transactions.
LEMMA MineKeeps ==
  ASSUME KeeperInv, NEW state \in ChainState, NEW receipts \in SUBSET Receipt,
         \A r \in receipts : r.tx \in TransactionsOf(journal),
         Extend(state, receipts), UNCHANGED <<journal, signed, pc, work>>,
         mempool' \subseteq mempool, unseen' \subseteq unseen
  PROVE  KeeperInv'
<1> DEFINE T == TransactionsOf(journal)
<1>1. /\ final \in Block /\ recent \in Seq(Block)
      /\ ReceiptsOf(final, T) /\ \A k \in 1..Len(recent) : ReceiptsOf(recent[k], T)
      /\ mempool' \subseteq T /\ unseen' \subseteq T
  BY DEF KeeperInv, KeeperTypes, NetworkInv
<1> HIDE DEF T
<1>2. /\ final' \in Block /\ recent' \in Seq(Block)
      /\ final.receipts \subseteq final'.receipts
      /\ ReceiptsOf(final', T)
      /\ \A k \in 1..Len(recent') : ReceiptsOf(recent'[k], T)
  <2>1. \A r \in receipts : r.tx \in T
    BY DEF T
  <2> QED BY <1>1, <2>1, ExtendKeeps
<1> QED BY <1>1, <1>2, ChainKeeps DEF T

\* Empty blocks, a round that falls due, and calls of others.
LEMMA OthersKeep ==
  ASSUME KeeperInv, MineEmpty \/ MineDue \/ MineExternal
  PROVE  KeeperInv'
<1>1. /\ HeadBlock.state \in ChainState
      /\ UNCHANGED <<journal, signed, pc, work, mempool, unseen>>
  BY HeadIsBlock DEF KeeperInv, KeeperTypes, MineEmpty, MineDue, MineExternal, journalVars, processVars
<1>2. PICK state \in ChainState : Extend(state, {})
  <2>1. CASE MineEmpty
    BY <1>1, <2>1 DEF MineEmpty
  <2>2. CASE MineDue
    <3> DEFINE s == HeadBlock.state
               d == [s EXCEPT !.due = TRUE]
    <3>1. d \in ChainState
      <4> HIDE DEF s
      <4>1. s \in ChainState
        BY <1>1 DEF s
      <4> QED BY <4>1 DEF ChainState
    <3>2. Extend(d, {})
      BY <2>2 DEF MineDue
    <3> HIDE DEF d
    <3> QED BY <3>1, <3>2
  <2>3. CASE MineExternal
    <3>1. PICK action : /\ Executes(action, HeadBlock.state)
                        /\ Extend(After(action, HeadBlock.state), {})
      BY <2>3 DEF MineExternal
    <3>2. After(action, HeadBlock.state) \in ChainState
      BY <1>1, <3>1, AfterIsState
    <3> QED BY <3>1, <3>2
  <2> QED BY <2>1, <2>2, <2>3
<1>3. {} \in SUBSET Receipt /\ \A r \in {} : r.tx \in TransactionsOf(journal)
  OBVIOUS
<1> QED BY <1>1, <1>2, <1>3, MineKeeps

\* A transaction of the keeper in a block: it was pending, so it is in the journal.
LEMMA MineKeeperKeeps ==
  ASSUME KeeperInv, MineKeeper
  PROVE  KeeperInv'
<1>1. /\ HeadBlock.state \in ChainState
      /\ UNCHANGED <<journal, signed, pc, work>>
  BY HeadIsBlock DEF KeeperInv, KeeperTypes, MineKeeper, journalVars, processVars
<1> DEFINE ok(tx) == Executes(tx.action, HeadBlock.state)
           state(tx) == IF ok(tx) THEN After(tx.action, HeadBlock.state) ELSE HeadBlock.state
<1>2. PICK tx \in mempool \cup unseen :
        /\ Extend(state(tx), {[tx |-> tx, ok |-> ok(tx)]})
        /\ mempool' \subseteq mempool /\ unseen' \subseteq unseen
  BY DEF MineKeeper
<1>3. tx \in TransactionsOf(journal) /\ tx \in Transaction
  BY MinedIsFinite DEF KeeperInv, NetworkInv
<1>4. state(tx) \in ChainState
  BY <1>1, AfterIsState
<1>5. ok(tx) \in BOOLEAN
  <2>1. HeadBlock.state.due \in BOOLEAN
    BY <1>1 DEF ChainState
  <2>2. CASE tx.action.kind = "close-round"
    BY <2>1, <2>2 DEF Executes
  <2>3. CASE tx.action.kind # "close-round"
    BY <2>3 DEF Executes
  <2> QED BY <2>2, <2>3
<1> HIDE DEF ok, state
<1>6. /\ {[tx |-> tx, ok |-> ok(tx)]} \in SUBSET Receipt
      /\ \A r \in {[tx |-> tx, ok |-> ok(tx)]} : r.tx \in TransactionsOf(journal)
  BY <1>3, <1>5 DEF Receipt
<1> QED BY <1>1, <1>2, <1>4, <1>6, MineKeeps

\* A reorganisation gives its transactions back to the network, which had them.
LEMMA ReorgKeeps ==
  ASSUME KeeperInv, Reorg
  PROVE  KeeperInv'
<1> DEFINE T == TransactionsOf(journal)
           dropped == {r.tx : r \in recent[Len(recent)].receipts}
<1>1. /\ final \in Block /\ recent \in Seq(Block) /\ recent # <<>>
      /\ mempool \subseteq T /\ unseen \subseteq T /\ ReceiptsOf(final, T)
      /\ \A k \in 1..Len(recent) : ReceiptsOf(recent[k], T)
      /\ recent' = SubSeq(recent, 1, Len(recent) - 1)
      /\ UNCHANGED <<final, journal, signed, pc, work>>
  BY DEF KeeperInv, KeeperTypes, NetworkInv, Reorg, journalVars, processVars
<1>2. /\ Len(recent) \in Nat /\ Len(recent) \in 1..Len(recent)
  BY <1>1
<1>3. /\ recent' \in Seq(Block) /\ Len(recent') = Len(recent) - 1
      /\ \A k \in 1..(Len(recent) - 1) : recent'[k] = recent[k]
  <2> DEFINE n == Len(recent) - 1
             q == SubSeq(recent, 1, n)
  <2>1. n \in Int /\ 1 \in Int /\ n \in Nat /\ n <= Len(recent)
    BY <1>2
  <2> HIDE DEF n
  <2>2. \A i \in 1..n : recent[i] \in Block
    BY <1>1, <1>2, <2>1, ElementOfSeq
  <2>3. /\ q \in Seq(Block) /\ Len(q) = IF 1 <= n THEN (n - 1) + 1 ELSE 0
        /\ \A i \in 1..((n - 1) + 1) : q[i] = recent[(1 + i) - 1]
    BY <2>1, <2>2, SubSeqProperties
  <2>4. q \in Seq(Block) /\ Len(q) = n /\ \A i \in 1..n : q[i] = recent[i]
    BY <2>1, <2>3
  <2> QED BY <1>1, <2>4 DEF n
<1>4. \A k \in 1..Len(recent') : ReceiptsOf(recent'[k], T)
  BY <1>1, <1>2, <1>3
<1>5. dropped \subseteq T
  BY <1>1, <1>2 DEF ReceiptsOf
<1>6. mempool' \subseteq T /\ unseen' \subseteq T
  BY <1>1, <1>5 DEF Reorg
<1> HIDE DEF T
<1>7. final' \in Block /\ final.receipts \subseteq final'.receipts /\ ReceiptsOf(final', T)
  BY <1>1
<1> QED BY <1>1, <1>3, <1>4, <1>6, <1>7, ChainKeeps DEF T

\* A transaction that nodes lose sight of, or see again, stays where the network is.
LEMMA SightKeeps ==
  ASSUME KeeperInv, Evict \/ Reappear
  PROVE  KeeperInv'
<1> DEFINE T == TransactionsOf(journal)
<1>1. /\ final' \in Block /\ recent' \in Seq(Block)
      /\ mempool \subseteq T /\ unseen \subseteq T /\ ReceiptsOf(final', T)
      /\ \A k \in 1..Len(recent') : ReceiptsOf(recent'[k], T)
      /\ UNCHANGED <<final, recent, journal, signed, pc, work>>
  BY DEF KeeperInv, KeeperTypes, NetworkInv, Evict, Reappear, journalVars, processVars
<1>2. mempool' \subseteq T /\ unseen' \subseteq T
  BY <1>1 DEF Evict, Reappear
<1>3. final.receipts \subseteq final'.receipts
  BY <1>1
<1> HIDE DEF T
<1> QED BY <1>1, <1>2, <1>3, ChainKeeps DEF T

-----------------------------------------------------------------------------
(* The process's steps keep the invariant. *)

\* Nothing in hand is something the process may hold.
LEMMA NoWorkIsWork == NoWork \in Work
  BY DEF NoWork, Work

\* A step that only moves the process, and what it may broadcast from its journal.
LEMMA LocalKeeps ==
  ASSUME KeeperInv, UNCHANGED <<final, recent, journal>>,
         mempool' \subseteq TransactionsOf(journal), unseen' \subseteq TransactionsOf(journal),
         signed' \in Nat, work' \in Work, WorkInv'
  PROVE  KeeperInv'
<1>1. TransactionsOf(journal') = TransactionsOf(journal) /\ OneUnresolved'
  BY UnresolvedKept DEF KeeperInv
<1>2. KeeperTypes' /\ ReconciledIsFinal'
  BY DEF KeeperInv, KeeperTypes, ReconciledIsFinal
<1>3. NetworkInv'
  BY <1>1 DEF KeeperInv, NetworkInv
<1> QED BY <1>1, <1>2, <1>3 DEF KeeperInv

\* The process may stop anywhere: at rest it holds nothing that the journal needs.
LEMMA RestKeeps ==
  ASSUME KeeperInv, UNCHANGED <<chainVars, journal, signed>>,
         pc' \in {"idle", "outstanding", "down"}, work' \in Work
  PROVE  KeeperInv'
<1>1. WorkInv'
  BY DEF WorkInv, Places
<1>2. /\ mempool' \subseteq TransactionsOf(journal) /\ unseen' \subseteq TransactionsOf(journal)
      /\ signed' \in Nat /\ UNCHANGED <<final, recent, journal>>
  BY DEF KeeperInv, KeeperTypes, NetworkInv, chainVars
<1> QED BY <1>1, <1>2, LocalKeeps

\* A crash, a restart and a poll that is given up.
LEMMA StopsKeep ==
  ASSUME KeeperInv, Crash \/ Restart \/ PollFails
  PROVE  KeeperInv'
<1>1. /\ UNCHANGED <<chainVars, journal, signed>> /\ pc' \in {"idle", "outstanding", "down"}
      /\ work' = NoWork \/ work' = work
  BY DEF Crash, Restart, PollFails, journalVars
<1>2. work' \in Work
  BY <1>1, NoWorkIsWork DEF KeeperInv, KeeperTypes
<1> QED BY <1>1, <1>2, RestKeeps

\* The process moves on without touching the chain or the journal.
LEMMA MoveKeeps ==
  ASSUME KeeperInv, UNCHANGED <<chainVars, journal>>, signed' \in Nat, work' \in Work, WorkInv'
  PROVE  KeeperInv'
<1>1. /\ mempool' \subseteq TransactionsOf(journal) /\ unseen' \subseteq TransactionsOf(journal)
      /\ UNCHANGED <<final, recent, journal>>
  BY DEF KeeperInv, NetworkInv, chainVars
<1> QED BY <1>1, LocalKeeps

\* reconcileOutstanding takes the one unresolved attempt in hand.
LEMMA OutstandingKeeps ==
  ASSUME KeeperInv, ReconcileOutstanding
  PROVE  KeeperInv'
<1>1. UNCHANGED <<chainVars, journal, signed>> /\ signed' \in Nat /\ Unresolved' = Unresolved
      /\ Len(journal) \in Nat
  BY LenProperties, UnresolvedKept DEF KeeperInv, KeeperTypes, ReconcileOutstanding, journalVars
<1>2. CASE Unresolved = {}
  <2>1. pc' = "plan" /\ work' = NoWork
    BY <1>2 DEF ReconcileOutstanding
  <2>2. WorkInv'
    BY <1>1, <1>2, <2>1 DEF WorkInv, Places
  <2> QED BY <1>1, <2>1, <2>2, NoWorkIsWork, MoveKeeps
<1>3. CASE Unresolved # {}
  <2> DEFINE e == CHOOSE k \in Unresolved : \A j \in Unresolved : k <= j
  <2>1. \E k \in Unresolved : \A j \in Unresolved : k <= j
    <3>1. PICK k \in Unresolved : TRUE
      BY <1>3
    <3>2. \A j \in Unresolved : j = k
      BY <3>1 DEF KeeperInv, OneUnresolved
    <3>3. k \in Int
      BY DEF Unresolved
    <3> QED BY <3>1, <3>2, <3>3
  <2>2. e \in Unresolved
    BY <2>1
  <2>3. e \in Nat
    BY <1>1, <2>2 DEF Unresolved
  <2>4. pc' = "receipt" /\ work' = [NoWork EXCEPT !.entry = e]
    BY <1>3 DEF ReconcileOutstanding
  <2> HIDE DEF e
  <2>5. work' \in Work /\ work'.entry = e
    BY <2>3, <2>4 DEF NoWork, Work
  <2>6. WorkInv'
    BY <1>1, <2>2, <2>4, <2>5 DEF WorkInv, Places
  <2> QED BY <1>1, <2>5, <2>6, MoveKeeps
<1> QED BY <1>2, <1>3

\* getReceipt: a success is read from the final chain.
LEMMA ReceiptKeeps ==
  ASSUME KeeperInv, ReadReceipt
  PROVE  KeeperInv'
<1> DEFINE t == journal[work.entry].tx
           v == ReceiptView(t)
<1>1. /\ UNCHANGED <<chainVars, journal, signed>> /\ signed' \in Nat /\ Unresolved' = Unresolved
      /\ pc = "receipt" /\ pc' = "snapshot" /\ work' = [work EXCEPT !.receipt = v]
      /\ work \in Work /\ UNCHANGED final
  BY UnresolvedKept DEF KeeperInv, KeeperTypes, ReadReceipt, journalVars, chainVars
<1>2. v \in {"none", "shallow", "success", "failure"}
  BY DEF ReceiptView
<1>3. v = "success" => [tx |-> t, ok |-> TRUE] \in final.receipts
  BY DEF ReceiptView
<1> HIDE DEF v
<1>4. work' \in Work /\ work'.entry = work.entry /\ work'.receipt = v
  BY <1>1, <1>2 DEF Work
<1>5. WorkInv'
  BY <1>1, <1>3, <1>4 DEF KeeperInv, WorkInv, Places
<1> QED BY <1>1, <1>4, <1>5, MoveKeeps

\* readSnapshot keeps the entry and the receipt in hand.
LEMMA SnapshotKeeps ==
  ASSUME KeeperInv, ReadSnapshot
  PROVE  KeeperInv'
<1> DEFINE v == IsActionRequired(journal[work.entry].tx.action, HeadBlock.state)
<1>1. /\ UNCHANGED <<chainVars, journal, signed>> /\ signed' \in Nat /\ Unresolved' = Unresolved
      /\ pc = "snapshot" /\ pc' = "conclude" /\ work' = [work EXCEPT !.required = v]
      /\ work \in Work /\ UNCHANGED final
  BY UnresolvedKept DEF KeeperInv, KeeperTypes, ReadSnapshot, journalVars, chainVars
<1>2. v \in BOOLEAN
  <2> DEFINE a == journal[work.entry].tx.action
             s == HeadBlock.state
  <2>1. s.due \in BOOLEAN
    BY HeadIsBlock DEF KeeperInv, KeeperTypes, ChainState
  <2> HIDE DEF a, s
  <2>2. CASE a.kind = "close-round"
    <3>1. IsActionRequired(a, s) \in BOOLEAN
      BY <2>1, <2>2 DEF IsActionRequired
    <3> QED BY <3>1 DEF a, s
  <2>3. CASE a.kind # "close-round"
    <3>1. IsActionRequired(a, s) \in BOOLEAN
      BY <2>3 DEF IsActionRequired
    <3> QED BY <3>1 DEF a, s
  <2> QED BY <2>2, <2>3
<1> HIDE DEF v
<1>3. work' \in Work /\ work'.entry = work.entry /\ work'.receipt = work.receipt
  BY <1>1, <1>2 DEF Work
<1>4. WorkInv'
  BY <1>1, <1>3 DEF KeeperInv, WorkInv, Places
<1> QED BY <1>1, <1>3, <1>4, MoveKeeps

\* Planning: one action at most is in hand.
LEMMA PlanKeeps ==
  ASSUME KeeperInv, Plan
  PROVE  KeeperInv'
<1> DEFINE A == {a \in PlanNextAction(HeadBlock.state) :
                   \A k \in Unresolved : journal[k].tx.action # a}
<1>1. /\ UNCHANGED <<chainVars, journal, signed>> /\ signed' \in Nat /\ Unresolved' = Unresolved
      /\ pc = "plan" /\ Unresolved = {}
      /\ HeadBlock.state \in ChainState
  BY UnresolvedKept, HeadIsBlock DEF KeeperInv, KeeperTypes, WorkInv, Plan, journalVars
<1>2. CASE A = {}
  <2>1. pc' = "idle" /\ work' = NoWork
    BY <1>2 DEF Plan
  <2> QED BY <1>1, <2>1, NoWorkIsWork, RestKeeps
<1>3. CASE A # {}
  <2>1. pc' = "simulate" /\ work' = [NoWork EXCEPT !.action = A]
    BY <1>3 DEF Plan
  <2>2. PICK a : A = {a}
    BY <1>3 DEF PlanNextAction
  <2>3. A \subseteq Action
    BY <1>1 DEF PlanNextAction, Action, ChainState
  <2> HIDE DEF A
  <2>4. work' \in Work /\ work'.action = A
    BY <2>1, <2>3 DEF NoWork, Work
  <2>5. \E x \in work'.action : work'.action = {x}
    BY <2>2, <2>4
  <2>6. WorkInv'
    BY <1>1, <2>1, <2>5 DEF WorkInv, Places
  <2> QED BY <1>1, <2>4, <2>6, MoveKeeps
<1> QED BY <1>2, <1>3

\* Simulating: the action stays in hand, or the poll ends.
LEMMA SimulateKeeps ==
  ASSUME KeeperInv, Simulate
  PROVE  KeeperInv'
<1>1. /\ UNCHANGED <<chainVars, journal, signed>> /\ signed' \in Nat /\ Unresolved' = Unresolved
      /\ pc = "simulate" /\ work \in Work
  BY UnresolvedKept DEF KeeperInv, KeeperTypes, Simulate, journalVars
<1>2. CASE pc' = "sign" /\ work' = work
  <2>1. WorkInv'
    BY <1>1, <1>2 DEF KeeperInv, WorkInv, Places
  <2> QED BY <1>1, <1>2, <2>1, MoveKeeps
<1>3. CASE pc' = "idle" /\ work' = NoWork
  BY <1>1, <1>3, NoWorkIsWork, RestKeeps
<1> QED BY <1>2, <1>3 DEF Simulate

\* Signing: one transaction is in hand, with a nonce that exists.
LEMMA SignKeeps ==
  ASSUME KeeperInv, Sign
  PROVE  KeeperInv'
<1> DEFINE X == {[hash |-> signed', action |-> a, nonce |-> PendingNonce] : a \in work.action}
<1>1. /\ UNCHANGED <<chainVars, journal>> /\ Unresolved' = Unresolved /\ Unresolved = {}
      /\ pc = "sign" /\ pc' = "persist" /\ work' = [NoWork EXCEPT !.tx = X]
      /\ work \in Work /\ signed \in Nat /\ signed' = signed + 1
      /\ \E a \in work.action : work.action = {a}
  BY UnresolvedKept DEF KeeperInv, KeeperTypes, WorkInv, Sign, journalVars
<1>2. signed' \in Nat /\ PendingNonce \in Nat
  BY <1>1, PendingNonceIsNatural DEF KeeperInv
<1>3. PICK a \in Action : work.action = {a}
  BY <1>1 DEF Work
<1>4. X = {[hash |-> signed', action |-> a, nonce |-> PendingNonce]} /\ X \subseteq Transaction
  BY <1>2, <1>3 DEF Transaction
<1>5. \E t \in X : X = {t}
  BY <1>4
<1> HIDE DEF X
<1>6. work' \in Work /\ work'.tx = X
  BY <1>1, <1>4 DEF NoWork, Work
<1>7. WorkInv'
  BY <1>1, <1>5, <1>6 DEF WorkInv, Places
<1> QED BY <1>1, <1>2, <1>6, <1>7, MoveKeeps

\* put on the one unresolved attempt: whatever it becomes, no other is unresolved,
\* and it becomes reconciled only if its success is final.
LEMMA PutKeeps ==
  ASSUME KeeperInv, NEW k \in Unresolved, NEW status \in JournalStatus, Put(k, status),
         status = "reconciled" => [tx |-> journal[k].tx, ok |-> TRUE] \in final.receipts,
         UNCHANGED <<chainVars, signed>>, work' \in Work, WorkInv'
  PROVE  KeeperInv'
<1>1. journal \in Seq(Attempt) /\ k \in 1..Len(journal)
  BY DEF KeeperInv, KeeperTypes, Unresolved
<1>2. /\ journal' \in Seq(Attempt) /\ Len(journal') = Len(journal)
      /\ journal'[k].status = status
      /\ \A i \in 1..Len(journal) : i # k => journal'[i] = journal[i]
      /\ \A i \in 1..Len(journal) : journal'[i].tx = journal[i].tx
      /\ TransactionsOf(journal') = TransactionsOf(journal)
  BY <1>1, PutUpdates
<1>3. KeeperTypes'
  BY <1>2 DEF KeeperInv, KeeperTypes, chainVars
<1>4. NetworkInv'
  BY <1>2 DEF KeeperInv, NetworkInv, chainVars
<1>5. OneUnresolved'
  <2>1. Unresolved' \subseteq {k}
    <3> SUFFICES ASSUME NEW i \in 1..Len(journal), i # k, journal'[i].status \in unresolvedStatuses
                 PROVE  FALSE
      BY <1>2 DEF Unresolved
    <3>1. i \in Unresolved
      BY <1>2 DEF Unresolved
    <3> QED BY <3>1 DEF KeeperInv, OneUnresolved
  <2> QED BY <2>1 DEF OneUnresolved
<1>6. ReconciledIsFinal'
  <2> SUFFICES ASSUME NEW i \in 1..Len(journal), journal'[i].status = "reconciled"
               PROVE  [tx |-> journal[i].tx, ok |-> TRUE] \in final.receipts
    BY <1>2 DEF ReconciledIsFinal, chainVars
  <2>1. CASE i = k
    BY <1>2, <2>1
  <2>2. CASE i # k
    BY <1>2, <2>2 DEF KeeperInv, ReconciledIsFinal
  <2> QED BY <2>1, <2>2
<1> QED BY <1>3, <1>4, <1>5, <1>6 DEF KeeperInv

\* The end of reconcileEntry.
LEMMA ConcludeKeeps ==
  ASSUME KeeperInv, Conclude
  PROVE  KeeperInv'
<1> DEFINE k == work.entry
           attempt == journal[k]
           known == attempt.tx \in mempool \cup {r.tx : r \in Mined}
           old == attempt.tx.hash \in aged
           status == Verdict(attempt.status, work.receipt, work.required, known, old)
<1>1. /\ pc = "conclude" /\ k \in Unresolved /\ k \in Nat /\ work \in Work
      /\ attempt.status \in unresolvedStatuses
      /\ journal \in Seq(Attempt) /\ k \in 1..Len(journal)
      /\ work.receipt = "success" => [tx |-> attempt.tx, ok |-> TRUE] \in final.receipts
  BY DEF KeeperInv, KeeperTypes, WorkInv, Unresolved, Conclude
<1>2. Put(k, status) /\ UNCHANGED <<chainVars, signed>>
  BY DEF Conclude
<1>3. status \in JournalStatus /\ (status = "reconciled" => work.receipt = "success")
  <2> HIDE DEF known, old, attempt
  <2> QED BY <1>1, VerdictIs
<1>4. status = "reconciled" => [tx |-> journal[k].tx, ok |-> TRUE] \in final.receipts
  BY <1>1, <1>3
<1>5. \/ /\ pc' = "receipt" /\ status \in {"submitted", "confirmed"}
         /\ work' = [work EXCEPT !.receipt = "none", !.required = FALSE]
      \/ pc' \in {"idle", "outstanding"} /\ work' = NoWork
  BY DEF Conclude
<1> HIDE DEF status
<1>6. CASE pc' \in {"idle", "outstanding"} /\ work' = NoWork
  <2>1. WorkInv' /\ work' \in Work
    BY <1>6, NoWorkIsWork DEF WorkInv, Places
  <2> QED BY <1>1, <1>2, <1>3, <1>4, <2>1, PutKeeps
<1>7. CASE /\ pc' = "receipt" /\ status \in {"submitted", "confirmed"}
           /\ work' = [work EXCEPT !.receipt = "none", !.required = FALSE]
  <2>1. work' \in Work /\ work'.entry = k
    BY <1>1, <1>7 DEF Work
  <2>2. Len(journal') = Len(journal) /\ journal'[k].status = status
    BY <1>1, <1>2, <1>3, PutUpdates
  <2>3. k \in Unresolved'
    BY <1>1, <1>7, <2>2 DEF Unresolved, unresolvedStatuses
  <2>4. WorkInv'
    BY <1>7, <2>1, <2>3 DEF WorkInv, Places
  <2> QED BY <1>1, <1>2, <1>3, <1>4, <2>1, <2>4, PutKeeps
<1> QED BY <1>5, <1>6, <1>7

\* Persisting: the transaction in hand becomes the last attempt, the only one
\* unresolved, before any node can have it.
LEMMA PersistKeeps ==
  ASSUME KeeperInv, Persist
  PROVE  KeeperInv'
<1>1. /\ pc = "persist" /\ pc' = "broadcast" /\ UNCHANGED <<chainVars, signed, work>>
      /\ journal \in Seq(Attempt) /\ work \in Work /\ Unresolved = {}
      /\ \E t \in work.tx : work.tx = {t}
  BY DEF KeeperInv, KeeperTypes, WorkInv, Persist
<1>2. PICK t \in work.tx :
        journal' = Append(journal, [tx |-> t, status |-> "prepared", history |-> {"prepared"}])
  BY DEF Persist
<1>3. work.tx = {t} /\ t \in Transaction
  BY <1>1 DEF Work
<1> DEFINE e == [tx |-> t, status |-> "prepared", history |-> {"prepared"}]
<1>4. e \in Attempt /\ e.tx = t /\ e.status = "prepared"
  BY <1>3 DEF Attempt, JournalStatus
<1>5. journal' = Append(journal, e)
  BY <1>2
<1> HIDE DEF e
<1>6. /\ journal' \in Seq(Attempt) /\ Len(journal') = Len(journal) + 1 /\ Len(journal) \in Nat
      /\ journal'[Len(journal')] = e
      /\ \A i \in 1..Len(journal) : i \in 1..Len(journal') /\ journal'[i] = journal[i]
      /\ TransactionsOf(journal) \subseteq TransactionsOf(journal')
  BY <1>1, <1>4, <1>5, AppendJournals
<1>7. Unresolved' = {Len(journal')}
  <2>1. Len(journal') \in Unresolved'
    BY <1>4, <1>6 DEF Unresolved, unresolvedStatuses
  <2>2. ASSUME NEW i \in Unresolved', i # Len(journal') PROVE FALSE
    <3>1. i \in 1..Len(journal)
      BY <1>6, <2>2 DEF Unresolved
    <3>2. i \in Unresolved
      BY <1>6, <2>2, <3>1 DEF Unresolved
    <3> QED BY <1>1, <3>2
  <2> QED BY <2>1, <2>2
<1>8. KeeperTypes'
  BY <1>1, <1>6 DEF KeeperInv, KeeperTypes, chainVars
<1>9. NetworkInv'
  BY <1>1, <1>6 DEF KeeperInv, NetworkInv, ReceiptsOf, chainVars
<1>10. OneUnresolved'
  BY <1>7 DEF OneUnresolved
<1>11. WorkInv'
  BY <1>1, <1>3, <1>4, <1>6, <1>7 DEF WorkInv, Places
<1>12. ReconciledIsFinal'
  <2> SUFFICES ASSUME NEW i \in 1..Len(journal'), journal'[i].status = "reconciled"
               PROVE  [tx |-> journal'[i].tx, ok |-> TRUE] \in final.receipts
    BY <1>1 DEF ReconciledIsFinal, chainVars
  <2>1. i # Len(journal')
    BY <1>4, <1>6
  <2>2. i \in 1..Len(journal) /\ journal'[i] = journal[i]
    BY <1>6, <2>1
  <2> QED BY <2>2 DEF KeeperInv, ReconciledIsFinal
<1> QED BY <1>8, <1>9, <1>10, <1>11, <1>12 DEF KeeperInv

\* Broadcasting, however it ends: the network gets at most the last attempt's
\* transaction.
LEMMA BroadcastKeeps ==
  ASSUME KeeperInv, Broadcast \/ BroadcastThrows \/ BroadcastRefused
  PROVE  KeeperInv'
<1> DEFINE T == TransactionsOf(journal)
<1>1. /\ pc = "broadcast" /\ pc' = "record" /\ UNCHANGED <<final, recent, journal, signed>>
      /\ work \in Work /\ signed' \in Nat /\ Unresolved' = Unresolved
      /\ Len(journal) \in Unresolved /\ work.tx = {journal[Len(journal)].tx}
      /\ mempool \subseteq T /\ unseen \subseteq T
  BY UnresolvedKept DEF KeeperInv, KeeperTypes, WorkInv, NetworkInv, Broadcast, BroadcastThrows,
                        BroadcastRefused, journalVars, chainVars
<1>2. work.tx \subseteq T
  BY <1>1 DEF Unresolved, TransactionsOf
<1>3. mempool' \subseteq T /\ unseen' \subseteq T
  BY <1>1, <1>2 DEF Broadcast, BroadcastThrows, BroadcastRefused, chainVars
<1>4. work' \in Work /\ work'.tx = work.tx
  <2>1. work' = work \/ work' = [work EXCEPT !.sent = TRUE]
    BY DEF Broadcast, BroadcastThrows, BroadcastRefused
  <2> QED BY <1>1, <2>1 DEF Work
<1>5. WorkInv'
  BY <1>1, <1>4 DEF WorkInv, Places
<1> QED BY <1>1, <1>3, <1>4, <1>5, LocalKeeps

\* Recording the outcome of the broadcast on the last attempt.
LEMMA RecordKeeps ==
  ASSUME KeeperInv, Record
  PROVE  KeeperInv'
<1> DEFINE k == Len(journal)
           status == IF work.sent THEN "submitted" ELSE "unknown"
<1>1. /\ pc = "record" /\ k \in Unresolved /\ journal \in Seq(Attempt)
      /\ k \in 1..Len(journal) /\ k \in Nat
      /\ Put(k, status) /\ UNCHANGED <<chainVars, signed>>
  BY LenProperties DEF KeeperInv, KeeperTypes, WorkInv, Record, Unresolved
<1>2. status \in JournalStatus /\ status # "reconciled" /\ status \in unresolvedStatuses
  BY DEF JournalStatus, unresolvedStatuses
<1>3. \/ pc' = "receipt" /\ work' = [NoWork EXCEPT !.entry = k, !.waiting = TRUE]
      \/ pc' = "idle" /\ work' = NoWork
  BY DEF Record
<1> HIDE DEF k, status
<1>4. CASE pc' = "idle" /\ work' = NoWork
  <2>1. WorkInv' /\ work' \in Work
    BY <1>4, NoWorkIsWork DEF WorkInv, Places
  <2> QED BY <1>1, <1>2, <2>1, PutKeeps
<1>5. CASE pc' = "receipt" /\ work' = [NoWork EXCEPT !.entry = k, !.waiting = TRUE]
  <2>1. work' \in Work /\ work'.entry = k
    BY <1>1, <1>5 DEF NoWork, Work
  <2>2. Len(journal') = Len(journal) /\ journal'[k].status = status
    BY <1>1, <1>2, PutUpdates
  <2>3. k \in Unresolved'
    BY <1>1, <1>2, <2>2 DEF Unresolved
  <2>4. WorkInv'
    BY <1>5, <2>1, <2>3 DEF WorkInv, Places
  <2> QED BY <1>1, <1>2, <2>1, <2>4, PutKeeps
<1> QED BY <1>3, <1>4, <1>5

\* Time that passes, and nothing at all.
LEMMA IdleKeeps ==
  ASSUME KeeperInv, Age \/ UNCHANGED keeperVars
  PROVE  KeeperInv'
<1>1. /\ UNCHANGED <<final, recent, mempool, unseen, journal, signed, pc, work>>
  BY DEF Age, keeperVars, chainVars, journalVars, processVars
<1>2. /\ final' \in Block /\ recent' \in Seq(Block)
      /\ final.receipts \subseteq final'.receipts
      /\ mempool' \subseteq TransactionsOf(journal) /\ unseen' \subseteq TransactionsOf(journal)
      /\ ReceiptsOf(final', TransactionsOf(journal))
      /\ \A k \in 1..Len(recent') : ReceiptsOf(recent'[k], TransactionsOf(journal))
  BY <1>1 DEF KeeperInv, KeeperTypes, NetworkInv
<1> QED BY <1>1, <1>2, ChainKeeps

-----------------------------------------------------------------------------
(* The theorems. *)

\* Whatever the chain, the network, other callers and crashes do, the process
\* holds in hand only what its journal accounts for.
THEOREM KeeperInvariant == KeeperSpec => []KeeperInv
<1>1. KeeperInit => KeeperInv
  <2> SUFFICES ASSUME KeeperInit PROVE KeeperInv
    OBVIOUS
  <2>1. Len(journal) = 0 /\ journal \in Seq(Attempt) /\ recent \in Seq(Block) /\ Len(recent) = 0
    BY EmptySeq DEF KeeperInit
  <2>2. final \in Block
    <3>1. Len(Lifecycle) \in Nat
      BY KeeperConfiguration
    <3> QED BY <3>1 DEF KeeperInit, Block, ChainState
  <2>3. KeeperTypes
    BY <2>1, <2>2, NoWorkIsWork DEF KeeperInit, KeeperTypes
  <2>4. Unresolved = {}
    BY <2>1 DEF Unresolved
  <2>5. NetworkInv
    BY <2>1 DEF KeeperInit, NetworkInv, ReceiptsOf
  <2>6. OneUnresolved /\ WorkInv /\ ReconciledIsFinal
    BY <2>1, <2>4 DEF KeeperInit, OneUnresolved, WorkInv, Places, ReconciledIsFinal
  <2> QED BY <2>3, <2>5, <2>6 DEF KeeperInv
<1>2. KeeperInv /\ [KeeperNext]_keeperVars => KeeperInv'
  <2> SUFFICES ASSUME KeeperInv, [KeeperNext]_keeperVars PROVE KeeperInv'
    OBVIOUS
  <2>1. CASE RunStep
    BY <2>1, OutstandingKeeps, ReceiptKeeps, SnapshotKeeps, ConcludeKeeps, PlanKeeps, SimulateKeeps,
       SignKeeps, PersistKeeps, BroadcastKeeps, RecordKeeps, StopsKeep DEF RunStep
  <2>2. CASE FaultStep
    BY <2>2, StopsKeep, BroadcastKeeps, SightKeeps, ReorgKeeps DEF FaultStep
  <2>3. CASE ChainStep
    BY <2>3, OthersKeep, MineKeeperKeeps, SightKeeps, IdleKeeps DEF ChainStep
  <2>4. CASE UNCHANGED keeperVars
    BY <2>4, IdleKeeps
  <2> QED BY <2>1, <2>2, <2>3, <2>4 DEF KeeperNext
<1> QED BY <1>1, <1>2, PTL DEF KeeperSpec

\* "Persists one permissionless lifecycle action, broadcasts once, and reconciles
\* its hash": nothing of the keeper's is on the network that its journal lacks, and
\* at most one attempt waits for its outcome, wherever the process died.
THEOREM BroadcastsAreJournalled == KeeperSpec => []BroadcastIsJournalled
<1>1. KeeperInv => BroadcastIsJournalled
  <2> SUFFICES ASSUME KeeperInv PROVE BroadcastIsJournalled
    OBVIOUS
  <2>1. final \in Block /\ journal \in Seq(Attempt)
    BY DEF KeeperInv, KeeperTypes
  <2>2. mempool \cup unseen \cup {r.tx : r \in Mined} \subseteq TransactionsOf(journal)
    BY MinedIsFinite DEF KeeperInv, NetworkInv
  <2>3. \A tx \in mempool \cup unseen \cup {r.tx : r \in Mined} :
          \E k \in 1..Len(journal) : journal[k].tx = tx
    BY <2>2 DEF TransactionsOf
  <2> DEFINE U == {k \in 1..Len(journal) :
                     journal[k].status \notin {"reconciled", "obsolete", "reorged"}}
  <2>4. U \subseteq Unresolved
    <3> SUFFICES ASSUME NEW k \in 1..Len(journal),
                        journal[k].status \notin {"reconciled", "obsolete", "reorged"}
                 PROVE  journal[k].status \in unresolvedStatuses
      BY DEF Unresolved
    <3>1. journal[k] \in Attempt
      BY <2>1, ElementOfSeq
    <3> QED BY <3>1 DEF Attempt, JournalStatus, unresolvedStatuses
  <2> HIDE DEF U
  <2>5. Cardinality(U) <= 1
    <3>1. CASE U = {}
      BY <3>1, FS_EmptySet
    <3>2. CASE U # {}
      <4>1. PICK k \in U : TRUE
        BY <3>2
      <4>2. U = {k}
        BY <2>4, <4>1 DEF KeeperInv, OneUnresolved
      <4>3. Cardinality({k}) = 1
        BY FS_Singleton
      <4> QED BY <4>2, <4>3
    <3> QED BY <3>1, <3>2
  <2> QED BY <2>1, <2>3, <2>5 DEF BroadcastIsJournalled, U
<1> QED BY <1>1, KeeperInvariant, PTL

\* What the journal calls reconciled is executed in the final chain, for every
\* depth of confirmations, however the chain moved between the reads of a poll.
THEOREM ReconciledStaysFinal == KeeperSpec => []ReconciledIsFinal
<1>1. KeeperInv => ReconciledIsFinal
  BY DEF KeeperInv
<1> QED BY <1>1, KeeperInvariant, PTL

\* The journal is a record: a step never touches a resolved attempt, never replaces
\* a transaction and never drops a status from a history.
THEOREM JournalIsARecord == KeeperSpec => [][RecordKept]_keeperVars
<1>1. ASSUME KeeperInv, KeeperNext PROVE RecordKept
  <2>1. journal \in Seq(Attempt)
    BY <1>1 DEF KeeperInv, KeeperTypes
  <2>2. ASSUME NEW k \in Unresolved, NEW status \in JournalStatus, Put(k, status)
        PROVE  RecordKept
    <3>1. k \in 1..Len(journal)
      BY DEF Unresolved
    <3>2. /\ Len(journal') = Len(journal)
          /\ journal'[k].history = journal[k].history \cup {status}
          /\ \A i \in 1..Len(journal) : i # k => journal'[i] = journal[i]
          /\ \A i \in 1..Len(journal) : journal'[i].tx = journal[i].tx
      BY <2>1, <2>2, <3>1, PutUpdates
    <3> QED BY <3>2 DEF RecordKept
  <2>3. CASE Conclude
    <3> DEFINE attempt == journal[work.entry]
               known == attempt.tx \in mempool \cup {r.tx : r \in Mined}
               old == attempt.tx.hash \in aged
               status == Verdict(attempt.status, work.receipt, work.required, known, old)
    <3>1. work.entry \in Unresolved /\ Put(work.entry, status)
      BY <1>1, <2>3 DEF KeeperInv, WorkInv, Conclude
    <3>2. attempt.status \in unresolvedStatuses
      BY <3>1 DEF Unresolved
    <3>3. status \in JournalStatus
      <4> HIDE DEF attempt, known, old
      <4> QED BY <3>2, VerdictIs
    <3> HIDE DEF status
    <3> QED BY <2>2, <3>1, <3>3
  <2>4. CASE Record
    <3> DEFINE status == IF work.sent THEN "submitted" ELSE "unknown"
    <3>1. Len(journal) \in Unresolved /\ Put(Len(journal), status)
      BY <1>1, <2>4 DEF KeeperInv, WorkInv, Record
    <3>2. status \in JournalStatus
      BY DEF JournalStatus
    <3> HIDE DEF status
    <3> QED BY <2>2, <3>1, <3>2
  <2>5. CASE Persist
    <3>1. PICK t \in work.tx :
            journal' = Append(journal, [tx |-> t, status |-> "prepared", history |-> {"prepared"}])
      BY <2>5 DEF Persist
    <3> DEFINE e == [tx |-> t, status |-> "prepared", history |-> {"prepared"}]
    <3>2. t \in Transaction
      BY <1>1 DEF KeeperInv, KeeperTypes, Work
    <3>3. e \in Attempt
      BY <3>2 DEF Attempt, JournalStatus
    <3>4. journal' = Append(journal, e)
      BY <3>1
    <3> HIDE DEF e
    <3>5. \A i \in 1..Len(journal) : i \in 1..Len(journal') /\ journal'[i] = journal[i]
      BY <2>1, <3>3, <3>4, AppendJournals
    <3> QED BY <3>5 DEF RecordKept
  <2>6. CASE UNCHANGED journal
    BY <2>6 DEF RecordKept
  <2>7. Conclude \/ Record \/ Persist \/ UNCHANGED journal
    BY <1>1 DEF KeeperNext, RunStep, FaultStep, ChainStep, ReconcileOutstanding, ReadReceipt,
       ReadSnapshot, Plan, Simulate, Sign, Broadcast, BroadcastRefused, BroadcastThrows, Restart,
       Crash, PollFails, Evict, Reorg, MineEmpty, MineDue, MineExternal, MineKeeper, Reappear, Age,
       journalVars
  <2> QED BY <2>3, <2>4, <2>5, <2>6, <2>7
<1>2. KeeperInv /\ [KeeperNext]_keeperVars => [RecordKept]_keeperVars
  BY <1>1
<1> QED BY <1>2, KeeperInvariant, PTL DEF KeeperSpec
=============================================================================
