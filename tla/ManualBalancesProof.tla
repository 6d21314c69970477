-------------------------- MODULE ManualBalancesProof --------------------------
(***************************************************************************)
(* ManualBalances implements BalanceBook, for any requests, databases,      *)
(* owners and symbols that satisfy ManualBalancesAssumption: a request of   *)
(* many round trips, whose transaction shares rows and assets with those of *)
(* other requests, takes effect at once or not at all.  A PUT leaves what   *)
(* it asks, as the columns store it, but where another request or a merge   *)
(* has changed it meanwhile, and fails with 500 only for a cause.           *)
(***************************************************************************)
EXTENDS ManualBalances, TLAPS, FiniteSetTheorems, SequenceTheorems

------------------------------------------------------------------------------
(* The inductive invariant.  Its parts speak of a session q, the committed  *)
(* assets as, the committed balances bs and the next asset id n.            *)

Fields == {"op", "wallet", "pc", "i", "asset", "newAssets", "writes", "updates",
           "inserts", "queue", "next", "moved"}

IsSession(q) ==
  /\ Fields \subseteq DOMAIN q
  /\ q.wallet \in DOMAIN Owner
  /\ q.pc \in {"load", "asset", "balance", "find", "flush"}

Seen(q, as) == Over(q.newAssets, as)
Rows(q) == PutOf(q).rows

(* What a body asks of the columns of a balance, once they are rounded.     *)
Cells == [Columns -> Values \cup {TooLarge}]

(* A new asset is about to be inserted.                                     *)
Adding(q) ==
  /\ q.pc = "flush" /\ q.next = "balance" /\ q.queue # <<>>
  /\ Head(q.queue) = [kind |-> "asset", key |-> KeyOf(ItemOf(q)), id |-> q.asset]

(* What is staged or queued is about assets the transaction sees, and brings *)
(* them what the body asks for: a column it leaves alone is not refused.    *)
Wanted(q, as) == {a \in DOMAIN Seen(q, as) : Seen(q, as)[a] \in DOMAIN Rows(q)}
Statements(q, as) ==
  {s \in [kind : {"update", "insert"}, row : {q.wallet} \X Wanted(q, as),
          to : Cells, columns : SUBSET Columns] :
     /\ s.to = Rows(q)[Seen(q, as)[s.row[2]]]
     /\ \A c \in Columns \ s.columns : s.to[c] # TooLarge}

(* What a PUT has written is what it asks for, in the columns it changes.   *)
GoodWrite(q, as, bs, p) ==
  \E a \in Wanted(q, as) :
    /\ p = <<q.wallet, a>>
    /\ q.writes[p] \in Balance /\ Rows(q)[Seen(q, as)[a]] \in Balance
    /\ IF p \in DOMAIN bs
         THEN \A c \in Columns : q.writes[p][c] \in {bs[p][c], Rows(q)[Seen(q, as)[a]][c]}
         ELSE q.writes[p] = Rows(q)[Seen(q, as)[a]]

IsPut(q, as, bs) ==
  /\ q.op = "put" /\ q.pc # "find"
  /\ "items" \in DOMAIN q /\ q.items \in Seq(Item)
  /\ \E x \in Requests : x.op = "put" /\ x.wallet = q.wallet /\ x.items = q.items
  /\ IF q.pc = "load" THEN q.i = 1 ELSE Distinct(q.items)
  /\ q.pc = "flush" => q.next \in {"balance", "end"}
  /\ q.updates \subseteq Statements(q, as) /\ IsFiniteSet(q.updates)
  /\ q.inserts \in Seq(Statements(q, as))
  /\ \/ Adding(q) /\ Tail(q.queue) \in Seq(Statements(q, as))
     \/ q.queue \in Seq(Statements(q, as))
  /\ (q.pc = "asset" \/ q.pc = "balance" \/ (q.pc = "flush" /\ q.next = "balance"))
       => q.i \in 1 .. Len(q.items)
  /\ (q.pc = "balance" \/ (q.pc = "flush" /\ q.next = "balance" /\ ~Adding(q)))
       => q.asset \in DOMAIN Seen(q, as) /\ Seen(q, as)[q.asset] = KeyOf(ItemOf(q))
  /\ Adding(q) => \A a \in DOMAIN q.newAssets : q.newAssets[a] # KeyOf(ItemOf(q))
  /\ \A p \in DOMAIN q.writes : GoodWrite(q, as, bs, p)

IsDelete(q, bs) ==
  /\ q.op = "delete" /\ q.pc \in {"load", "find", "flush"}
  /\ q.pc = "flush" => q.next = "end"
  /\ q.queue \in {<<>>, <<[kind |-> "delete", row |-> <<q.wallet, q.asset>>]>>}
  /\ DOMAIN q.newAssets = {}
  /\ \A p \in DOMAIN q.writes :
       p = <<q.wallet, q.asset>> /\ p \in DOMAIN bs /\ q.writes[p] = Gone

(* An asset has one id, in the table and in what a transaction adds to it.  *)
Names(q, as) == \A a, b \in DOMAIN Seen(q, as) : Seen(q, as)[a] = Seen(q, as)[b] => a = b

NewIds(q) == DOMAIN q.newAssets \cup (IF Adding(q) THEN {q.asset} ELSE {})

Good(q, as, bs, n) ==
  /\ IsSession(q)
  /\ Names(q, as)
  /\ \A a \in NewIds(q) : a \in Nat /\ a < n /\ a \notin DOMAIN as
  /\ Adding(q) => q.asset \notin DOMAIN q.newAssets
  /\ IsPut(q, as, bs) \/ IsDelete(q, bs)

(* Two transactions write neither one row nor one asset.                    *)
Apart(q, s) ==
  /\ NewIds(q) \cap NewIds(s) = {}
  /\ \A a \in DOMAIN q.newAssets, b \in DOMAIN s.newAssets : q.newAssets[a] # s.newAssets[b]
  /\ DOMAIN q.writes \cap DOMAIN s.writes = {}

(* A transaction has only written in wallets that there are.                *)
Alive(q, ws) == \A p \in DOMAIN q.writes : p[1] \in ws

TablesInv ==
  /\ nextId \in Nat /\ wallets \subseteq DOMAIN Owner
  /\ \A a \in DOMAIN assets : a \in Nat /\ a < nextId
  /\ \A a, b \in DOMAIN assets : assets[a] = assets[b] => a = b
  /\ DOMAIN balances \subseteq wallets \X (DOMAIN assets)
  /\ \A p \in DOMAIN balances : balances[p] \in Balance

MInv ==
  /\ reqs = [r \in Slots |-> reqs[r]]
  /\ TablesInv
  /\ \A r \in Active : Good(reqs[r], assets, balances, nextId)
  /\ \A r, s \in Active : r # s => Apart(reqs[r], reqs[s])
  /\ \A r \in Active : Alive(reqs[r], wallets)

------------------------------------------------------------------------------
(* Sequences and functions *)

LEMMA Narrow ==
  ASSUME NEW T, NEW S, NEW t \in Seq(T), \A i \in 1 .. Len(t) : t[i] \in S
  PROVE  t \in Seq(S)
<1>1. Len(t) \in Nat /\ t \in [1 .. Len(t) -> T]  BY LenProperties
<1>2. t \in [1 .. Len(t) -> S]  BY <1>1
<1> QED  BY <1>1, <1>2, SeqDef

(* The queue of a flush holds what was staged, after a new asset if any.    *)
LEMMA Queues ==
  ASSUME NEW S, NEW updates \in SUBSET S, IsFiniteSet(updates), NEW inserts \in Seq(S)
  PROVE  /\ \A queue \in FlushQueues(<<>>, updates, inserts) : queue \in Seq(S)
         /\ \A x : \A queue \in FlushQueues(<<x>>, updates, inserts) :
              queue # <<>> /\ Head(queue) = x /\ Tail(queue) \in Seq(S)
<1>1. ASSUME NEW q \in ByKey(updates) PROVE q \in Seq(S)
  <2> DEFINE n == Cardinality(updates)
  <2>1. q \in [1 .. n -> updates]  BY DEF ByKey, SetToSeqs
  <2>2. n \in Nat  BY FS_CardinalityType
  <2>3. q \in [1 .. n -> S]  BY <2>1
  <2> HIDE DEF n
  <2> QED  BY <2>2, <2>3, SeqDef
<1>2. ASSUME NEW queue \in FlushQueues(<<>>, updates, inserts) PROVE queue \in Seq(S)
  <2>1. PICK q \in ByKey(updates) : queue = <<>> \o q \o inserts
    BY DEF FlushQueues
  <2>2. q \in Seq(S) /\ <<>> \in Seq(S)  BY <1>1, EmptySeq
  <2>3. <<>> \o q \in Seq(S)  BY <2>2, ConcatProperties
  <2> QED  BY <2>1, <2>3, ConcatProperties
<1>3. ASSUME NEW x, NEW queue \in FlushQueues(<<x>>, updates, inserts)
      PROVE  queue # <<>> /\ Head(queue) = x /\ Tail(queue) \in Seq(S)
  <2> DEFINE T == S \cup {x}
  <2>1. PICK q \in ByKey(updates) : queue = <<x>> \o q \o inserts
    BY DEF FlushQueues
  <2>2. q \in Seq(S)  BY <1>1
  <2>3. q \in Seq(T) /\ inserts \in Seq(T) /\ <<x>> \in Seq(T)
    BY <2>2, SeqMonotonic
  <2>4. Len(<<x>>) = 1 /\ <<x>>[1] = x  OBVIOUS
  <2>5. /\ \A i \in 1 .. Len(q) : q[i] \in S
        /\ \A i \in 1 .. Len(inserts) : inserts[i] \in S
        /\ Len(q) \in Nat /\ Len(inserts) \in Nat
    BY <2>2, ElementOfSeq, LenProperties
  <2> DEFINE h == <<x>> \o q
  <2>6. /\ h \in Seq(T) /\ Len(h) = 1 + Len(q)
        /\ \A i \in 1 .. 1 + Len(q) : h[i] = IF i <= 1 THEN x ELSE q[i - 1]
    <3> HIDE DEF T
    <3>1. /\ h \in Seq(T) /\ Len(h) = Len(<<x>>) + Len(q)
          /\ \A i \in 1 .. Len(<<x>>) + Len(q) : h[i] = IF i <= Len(<<x>>) THEN <<x>>[i] ELSE q[i - Len(<<x>>)]
      BY <2>3, ConcatProperties
    <3>2. ASSUME NEW i \in 1 .. 1 + Len(q) PROVE h[i] = IF i <= 1 THEN x ELSE q[i - 1]
      <4>1. h[i] = IF i <= 1 THEN <<x>>[i] ELSE q[i - 1]  BY <2>4, <3>1, <3>2
      <4>2. CASE i <= 1
        <5>1. i = 1  BY <4>2, <2>5
        <5> QED  BY <2>4, <4>1, <5>1
      <4> QED  BY <4>1, <4>2
    <3> QED  BY <2>4, <3>1, <3>2
  <2> HIDE DEF h, T
  <2>7. /\ queue \in Seq(T) /\ Len(queue) = Len(h) + Len(inserts)
        /\ \A i \in 1 .. Len(h) + Len(inserts) :
             queue[i] = IF i <= Len(h) THEN h[i] ELSE inserts[i - Len(h)]
    <3>1. queue = h \o inserts  BY <2>1 DEF h
    <3>2. inserts \in Seq(T) /\ h \in Seq(T)  BY <2>3, <2>6
    <3>3. /\ h \o inserts \in Seq(T) /\ Len(h \o inserts) = Len(h) + Len(inserts)
          /\ \A i \in 1 .. Len(h) + Len(inserts) :
               (h \o inserts)[i] = IF i <= Len(h) THEN h[i] ELSE inserts[i - Len(h)]
      BY <3>2, ConcatProperties
    <3> QED  BY <3>1, <3>3
  <2>8. Len(queue) \in Nat /\ Len(queue) >= 1 /\ queue # <<>> /\ queue[1] = x
    <3>1. Len(h) \in Nat /\ Len(h) >= 1 /\ 1 <= Len(h) /\ h[1] = x
      BY <2>5, <2>6
    <3>2. Len(queue) \in Nat /\ Len(queue) >= 1 /\ queue[1] = x
      BY <2>5, <2>7, <3>1
    <3> QED  BY <3>2, EmptySeq
  <2>9. \A i \in 2 .. Len(queue) : queue[i] \in S
    <3> SUFFICES ASSUME NEW i \in 2 .. Len(queue) PROVE queue[i] \in S
      OBVIOUS
    <3>1. CASE i <= Len(h)
      <4>1. i - 1 \in 1 .. Len(q)  BY <2>5, <2>6, <2>7, <3>1
      <4>2. queue[i] = q[i - 1]  BY <2>5, <2>6, <2>7, <3>1
      <4> QED  BY <2>5, <4>1, <4>2
    <3>2. CASE ~ i <= Len(h)
      <4>1. i - Len(h) \in 1 .. Len(inserts)  BY <2>5, <2>6, <2>7, <3>2
      <4>2. queue[i] = inserts[i - Len(h)]  BY <2>5, <2>6, <2>7, <3>2
      <4> QED  BY <2>5, <4>1, <4>2
    <3> QED  BY <3>1, <3>2
  <2>10. Head(queue) = x  BY <2>7, <2>8
  <2>11. /\ Tail(queue) \in Seq(T) /\ Len(Tail(queue)) = Len(queue) - 1
         /\ \A i \in 1 .. Len(Tail(queue)) : Tail(queue)[i] = queue[i + 1]
    BY <2>7, <2>8, HeadTailProperties
  <2>12. \A i \in 1 .. Len(Tail(queue)) : Tail(queue)[i] \in S
    BY <2>8, <2>9, <2>11
  <2> QED  BY <2>8, <2>10, <2>11, <2>12, Narrow
<1> QED  BY <1>2, <1>3

------------------------------------------------------------------------------
(* Sessions *)

LEMMA SameBody ==
  ASSUME NEW q, NEW q2, NEW as, q2.wallet = q.wallet, q2.items = q.items
  PROVE  /\ PutOf(q2) = PutOf(q) /\ Rows(q2) = Rows(q)
         /\ q2.newAssets = q.newAssets =>
              /\ Seen(q2, as) = Seen(q, as) /\ Wanted(q2, as) = Wanted(q, as)
              /\ Statements(q2, as) = Statements(q, as)
<1>1. PutOf(q2) = PutOf(q)  BY DEF PutOf, Items
<1>2. Rows(q2) = Rows(q)  BY <1>1 DEF Rows
<1>3. ASSUME q2.newAssets = q.newAssets
      PROVE  /\ Seen(q2, as) = Seen(q, as) /\ Wanted(q2, as) = Wanted(q, as)
             /\ Statements(q2, as) = Statements(q, as)
  BY <1>2, <1>3 DEF Seen, Wanted, Statements
<1> QED  BY <1>1, <1>2, <1>3

LEMMA NotAdding ==
  ASSUME NEW q, NEW as, q.queue \in Seq(Statements(q, as))
  PROVE  ~Adding(q)
<1>1. q.queue # <<>> => Head(q.queue) \in Statements(q, as)  BY HeadTailProperties
<1>2. \A s \in Statements(q, as) : s.kind \in {"update", "insert"}  BY DEF Statements
<1>3. Adding(q) => q.queue # <<>> /\ Head(q.queue).kind = "asset"  BY DEF Adding
<1> QED  BY <1>1, <1>2, <1>3

(* What the body asks of an asset is the row of the item that names it.     *)
LEMMA RowsAre ==
  ASSUME NEW q, q.items \in Seq(Item), Distinct(q.items), NEW i \in 1 .. Len(q.items)
  PROVE  /\ KeyOf(q.items[i]) \in DOMAIN Rows(q)
         /\ Rows(q)[KeyOf(q.items[i])] = RowOf(q.items[i])
<1> DEFINE k == KeyOf(q.items[i])
           y == CHOOSE x \in Items(q) : KeyOf(x) = k
<1>1. DOMAIN q.items = 1 .. Len(q.items)  BY LenProperties
<1>2. q.items[i] \in Items(q)  BY <1>1 DEF Items
<1>3. y \in Items(q) /\ KeyOf(y) = k  BY <1>2
<1>4. y = q.items[i]
  <2>1. PICK j \in DOMAIN q.items : y = q.items[j]  BY <1>3 DEF Items
  <2>2. j = i  BY <1>1, <1>3, <2>1 DEF Distinct
  <2> QED  BY <2>1, <2>2
<1>5. Rows(q) = [x \in {KeyOf(z) : z \in Items(q)} |->
                   RowOf(CHOOSE z \in Items(q) : KeyOf(z) = x)]
  BY DEF Rows, PutOf
<1>6. k \in DOMAIN Rows(q) /\ Rows(q)[k] = RowOf(y)  BY <1>2, <1>5
<1> QED  BY <1>4, <1>6

LEMMA RowsType ==
  ASSUME NEW q, q.items \in Seq(Item), NEW k \in DOMAIN Rows(q)
  PROVE  /\ Rows(q)[k] \in Cells
         /\ (\A c \in Columns : Rows(q)[k][c] # TooLarge) => Rows(q)[k] \in Balance
<1>1. \A x \in Items(q) : x \in Item
  BY LenProperties, ElementOfSeq DEF Items
<1>2. Rows(q) = [x \in {KeyOf(z) : z \in Items(q)} |->
                   RowOf(CHOOSE z \in Items(q) : KeyOf(z) = x)]
  BY DEF Rows, PutOf
<1> DEFINE y == CHOOSE x \in Items(q) : KeyOf(x) = k
<1>3. PICK z \in Items(q) : KeyOf(z) = k  BY <1>2
<1>4. y \in Item  BY <1>1, <1>3
<1>5. Rows(q)[k] = RowOf(y)  BY <1>2, <1>3
<1> HIDE DEF y
<1>6. RowOf(y) = [c \in Columns |-> Stored[c][y[c]]]  BY DEF RowOf
<1>7. \A c \in Columns : y[c] \in Values  BY <1>4 DEF Item, Columns
<1>8. \A c \in Columns : Stored[c][y[c]] \in Values \cup {TooLarge}
  BY <1>7, ManualBalancesAssumption
<1>9. ASSUME \A c \in Columns : RowOf(y)[c] # TooLarge PROVE RowOf(y) \in Balance
  <2>1. RowOf(y) \in [Columns -> Values]  BY <1>6, <1>8, <1>9
  <2>2. \A c \in Columns : Stored[c][RowOf(y)[c]] = RowOf(y)[c]
    BY <1>6, <1>7, <1>9, ManualBalancesAssumption
  <2> QED  BY <2>1, <2>2 DEF Balance
<1> QED  BY <1>5, <1>6, <1>8, <1>9 DEF Cells

------------------------------------------------------------------------------
(* Steps of a session *)

(* What a session keeps to itself, and off from what others hold.           *)
Fits(q, r) == Alive(q, wallets) /\ \A s \in Active \ {r} : Apart(q, reqs[s])

(* One slot moves on; the tables stay.                                      *)
LEMMA SlotStep ==
  ASSUME MInv, NEW r \in Slots, NEW q, reqs' = [reqs EXCEPT ![r] = q],
         UNCHANGED tables, nextId' \in {nextId, nextId + 1},
         q.pc \notin {"idle", "read", "done"} =>
           Good(q, assets, balances, nextId') /\ Fits(q, r)
  PROVE  MInv'
<1> USE DEF tables, Fits
<1>1. reqs' = [s \in Slots |-> reqs'[s]] /\ reqs'[r] = q
      /\ \A s \in Slots \ {r} : reqs'[s] = reqs[s]
  BY DEF MInv
<1>2. TablesInv' /\ nextId \in Nat /\ nextId <= nextId'  BY DEF MInv, TablesInv
<1>3. \A s \in Active' : s = r \/ s \in Active \ {r}  BY <1>1 DEF Active
<1>4. r \in Active' => q.pc \notin {"idle", "read", "done"}  BY <1>1 DEF Active
<1>5. \A s \in Active \ {r} : Good(reqs[s], assets, balances, nextId')
  <2> SUFFICES ASSUME NEW s \in Active \ {r} PROVE Good(reqs[s], assets, balances, nextId')
    OBVIOUS
  <2>1. Good(reqs[s], assets, balances, nextId)  BY DEF MInv
  <2>2. \A a \in Nat : a < nextId => a < nextId'  BY <1>2
  <2> QED  BY <2>1, <2>2 DEF Good
<1>6. \A s \in Active' : Good(reqs'[s], assets', balances', nextId')
  BY <1>1, <1>3, <1>4, <1>5 DEF Active
<1>7. \A s, t \in Active' : s # t => Apart(reqs'[s], reqs'[t])
  <2> SUFFICES ASSUME NEW s \in Active', NEW t \in Active', s # t
               PROVE  Apart(reqs'[s], reqs'[t])
    OBVIOUS
  <2>1. CASE s # r /\ t # r
    BY <1>1, <1>3, <2>1 DEF MInv, Active
  <2>2. CASE s = r
    BY <1>1, <1>3, <1>4, <2>2 DEF Active
  <2>3. CASE t = r
    <3>1. Apart(q, reqs[s]) /\ reqs'[s] = reqs[s] /\ reqs'[t] = q
      BY <1>1, <1>3, <1>4, <2>3 DEF Active
    <3> QED  BY <3>1 DEF Apart
  <2> QED  BY <2>1, <2>2, <2>3
<1>8. \A s \in Active' : Alive(reqs'[s], wallets')  BY <1>1, <1>3, <1>4 DEF MInv, Active
<1> QED  BY <1>1, <1>2, <1>6, <1>7, <1>8 DEF MInv

LEMMA FailStep ==
  ASSUME MInv, NEW r \in Slots, NEW code, Fail(r, code), UNCHANGED <<tables, nextId>>
  PROVE  MInv'
  BY SlotStep DEF Fail, Done

(* What a session that writes nothing new need not show again.              *)
LEMMA StillApart ==
  ASSUME MInv, NEW r \in Active, NEW q, q.newAssets = reqs[r].newAssets,
         q.writes = reqs[r].writes, NewIds(q) \subseteq NewIds(reqs[r]) \cup {nextId}
  PROVE  Fits(q, r)
<1>3. Alive(q, wallets)  BY DEF MInv, Alive
<1> SUFFICES ASSUME NEW s \in Active \ {r} PROVE Apart(q, reqs[s])
  BY <1>3 DEF Fits
<1>1. Apart(reqs[r], reqs[s]) /\ Good(reqs[s], assets, balances, nextId) /\ nextId \in Nat
  BY DEF MInv, TablesInv
<1>2. nextId \notin NewIds(reqs[s])  BY <1>1 DEF Good
<1> QED  BY <1>1, <1>2 DEF Apart

LEMMA StartStep ==
  ASSUME MInv, NEW r \in Slots, NEW x \in Requests, Start(r, x)
  PROVE  MInv'
<1> DEFINE fresh == [pc |-> "load", i |-> 1, asset |-> Null, newAssets |-> Nothing,
                     writes |-> Nothing, updates |-> {}, inserts |-> <<>>, queue |-> <<>>,
                     next |-> Null, moved |-> {}]
           q == Over(x, fresh)
<1>1. reqs' = [reqs EXCEPT ![r] = q] /\ UNCHANGED <<tables, nextId>>
  BY DEF Start
<1>2. /\ x.wallet \in DOMAIN Owner
      /\ \/ /\ DOMAIN x = {"op", "user", "wallet", "items"}
            /\ x.op = "put" /\ x.items \in Seq(Item)
         \/ DOMAIN x = {"op", "user", "wallet", "asset"} /\ x.op = "delete"
  BY ManualBalancesAssumption
<1>3. DOMAIN fresh = {"pc", "i", "asset", "newAssets", "writes", "updates", "inserts",
                      "queue", "next", "moved"}
      /\ fresh.pc = "load" /\ fresh.i = 1 /\ fresh.newAssets = Nothing
      /\ fresh.writes = Nothing /\ fresh.updates = {} /\ fresh.inserts = <<>>
      /\ fresh.queue = <<>>
  OBVIOUS
<1> HIDE DEF fresh
<1>4. /\ DOMAIN q = DOMAIN x \cup DOMAIN fresh
      /\ q.op = x.op /\ q.wallet = x.wallet /\ (x.op = "put" => q.items = x.items)
      /\ q.pc = "load" /\ q.i = 1 /\ q.newAssets = Nothing
      /\ q.writes = Nothing /\ q.updates = {} /\ q.inserts = <<>> /\ q.queue = <<>>
  BY <1>2, <1>3 DEF Over
<1> HIDE DEF q
<1>5. IsSession(q)  BY <1>2, <1>3, <1>4 DEF IsSession, Fields
<1>6. DOMAIN Nothing = {}  BY DEF Nothing
<1>7. ~Adding(q) /\ NewIds(q) = {}  BY <1>4, <1>6 DEF Adding, NewIds
<1>8. Names(q, assets)
  <2>1. Seen(q, assets) = [a \in DOMAIN assets |-> assets[a]]  BY <1>4, <1>6 DEF Seen, Over
  <2> QED  BY <2>1 DEF Names, MInv, TablesInv
<1>9. IsPut(q, assets, balances) \/ IsDelete(q, balances)
  <2>1. CASE x.op = "put"
    <3>1. q.queue \in Seq(Statements(q, assets)) /\ q.inserts \in Seq(Statements(q, assets))
      BY <1>4, EmptySeq
    <3>2. IsFiniteSet(q.updates) /\ q.updates = {}  BY <1>4, FS_EmptySet
    <3>3. "items" \in DOMAIN q /\ q.items \in Seq(Item)  BY <1>2, <1>4, <2>1
    <3> QED  BY <1>2, <1>4, <1>6, <1>7, <2>1, <3>1, <3>2, <3>3 DEF IsPut
  <2>2. CASE x.op = "delete"
    BY <1>4, <1>6, <2>2 DEF IsDelete
  <2> QED  BY <1>2, <2>1, <2>2
<1>10. Good(q, assets, balances, nextId)  BY <1>5, <1>7, <1>8, <1>9 DEF Good
<1>11. Fits(q, r)  BY <1>4, <1>6, <1>7 DEF Fits, Alive, Apart
<1> QED  BY <1>1, <1>10, <1>11, SlotStep

LEMMA LoadStep ==
  ASSUME MInv, NEW r \in Slots, Load(r)
  PROVE  MInv'
<1> DEFINE q == reqs[r]
           q2 == [q EXCEPT !.pc = IF q.op = "put" THEN "asset" ELSE "find"]
<1>1. r \in Active /\ q.pc = "load" /\ UNCHANGED <<tables, nextId>>
  BY DEF Load, Active
<1>2. Good(q, assets, balances, nextId)  BY <1>1 DEF MInv
<1>3. CASE \E code : Fail(r, code)  BY <1>1, <1>3, FailStep
<1>4. CASE /\ reqs' = [reqs EXCEPT ![r] = q2]
           /\ q.op = "put" => Distinct(q.items) /\ q.items # <<>>
  <2>1. /\ DOMAIN q2 = DOMAIN q /\ q2.op = q.op /\ q2.wallet = q.wallet /\ q2.i = q.i
        /\ "items" \in DOMAIN q => q2.items = q.items
        /\ q2.newAssets = q.newAssets /\ q2.writes = q.writes /\ q2.updates = q.updates
        /\ q2.inserts = q.inserts /\ q2.queue = q.queue /\ q2.asset = q.asset
        /\ q2.pc = IF q.op = "put" THEN "asset" ELSE "find"
    BY <1>2 DEF Good, IsSession, Fields
  <2> HIDE DEF q2
  <2>2. ~Adding(q) /\ ~Adding(q2)  BY <1>1, <2>1 DEF Adding
  <2>3. IsPut(q2, assets, balances) \/ IsDelete(q2, balances)
    <3>1. CASE IsPut(q, assets, balances)
      <4>1. q2.items = q.items /\ q.items \in Seq(Item)  BY <2>1, <3>1 DEF IsPut
      <4>2. 1 \in 1 .. Len(q.items)
        BY <1>4, <3>1, <4>1, EmptySeq DEF IsPut
      <4>3. /\ Seen(q2, assets) = Seen(q, assets) /\ Wanted(q2, assets) = Wanted(q, assets)
            /\ Statements(q2, assets) = Statements(q, assets) /\ Rows(q2) = Rows(q)
        BY <2>1, <4>1, SameBody
      <4> QED
        BY <1>1, <1>4, <2>1, <2>2, <3>1, <4>1, <4>2, <4>3 DEF IsPut, GoodWrite
    <3>2. CASE IsDelete(q, balances)
      BY <1>1, <2>1, <3>2 DEF IsDelete
    <3> QED  BY <1>2, <3>1, <3>2 DEF Good
  <2>4. NewIds(q2) = NewIds(q)  BY <2>1, <2>2 DEF NewIds
  <2>5. Seen(q2, assets) = Seen(q, assets)  BY <2>1 DEF Seen
  <2>6. IsSession(q2)  BY <1>2, <2>1 DEF Good, IsSession
  <2>7. Good(q2, assets, balances, nextId)
    BY <1>2, <2>1, <2>2, <2>3, <2>4, <2>5, <2>6 DEF Good, Names
  <2>8. Fits(q2, r)  BY <1>1, <2>1, <2>4, StillApart
  <2> QED  BY <1>1, <1>4, <2>7, <2>8, SlotStep
<1> QED
  <2>1. (\E code : Fail(r, code)) \/ (reqs' = [reqs EXCEPT ![r] = q2] /\ (q.op = "put" => Distinct(q.items) /\ q.items # <<>>))
    BY DEF Load
  <2> QED  BY <1>3, <1>4, <2>1

LEMMA Flushed ==
  ASSUME NEW q, IsSession(q), NEW next, NEW queue
  PROVE  LET q2 == Flushing(q, next, queue)
         IN  /\ DOMAIN q2 = DOMAIN q
             /\ q2.pc = "flush" /\ q2.next = next /\ q2.queue = queue
             /\ q2.updates = {} /\ q2.inserts = <<>>
             /\ \A f \in DOMAIN q \ {"pc", "next", "queue", "updates", "inserts"} : q2[f] = q[f]
<1> DEFINE q2 == Flushing(q, next, queue)
<1>1. {"pc", "next", "queue", "updates", "inserts"} \subseteq DOMAIN q
  BY DEF IsSession, Fields
<1>2. q2 = [q EXCEPT !.pc = "flush", !.next = next, !.queue = queue, !.updates = {},
                     !.inserts = <<>>]
  BY DEF Flushing
<1> HIDE DEF q2
<1>3. DOMAIN q2 = DOMAIN q /\ q2.pc = "flush" /\ q2.next = next /\ q2.queue = queue
  BY <1>1, <1>2
<1>4. q2.updates = {} /\ q2.inserts = <<>>  BY <1>1, <1>2
<1>5. \A f \in DOMAIN q \ {"pc", "next", "queue", "updates", "inserts"} : q2[f] = q[f]
  BY <1>1, <1>2
<1> QED  BY <1>3, <1>4, <1>5 DEF q2

LEMMA FindAssetStep ==
  ASSUME MInv, NEW r \in Slots, FindAsset(r)
  PROVE  MInv'
<1> DEFINE q == reqs[r]
           key == KeyOf(ItemOf(q))
           new == [kind |-> "asset", key |-> key, id |-> nextId]
<1>1. r \in Active /\ q.pc = "asset" /\ UNCHANGED tables
  BY DEF FindAsset, Active
<1>2. Good(q, assets, balances, nextId)  BY <1>1 DEF MInv
<1>3. IsPut(q, assets, balances) /\ ~Adding(q) /\ IsSession(q)
  BY <1>1, <1>2 DEF Good, IsDelete, Adding
<1>4. /\ "items" \in DOMAIN q /\ q.items \in Seq(Item) /\ Distinct(q.items)
      /\ q.i \in 1 .. Len(q.items) /\ q.queue \in Seq(Statements(q, assets))
      /\ q.updates \in SUBSET Statements(q, assets) /\ IsFiniteSet(q.updates)
      /\ q.inserts \in Seq(Statements(q, assets))
  BY <1>1, <1>3 DEF IsPut
<1>5. nextId \in Nat /\ \A a \in DOMAIN assets : a \in Nat /\ a < nextId
  BY DEF MInv, TablesInv
<1>6. SeenAssets(r) = Seen(q, assets)  BY DEF SeenAssets, Seen
<1>7. CASE \E a \in DOMAIN Seen(q, assets) :
             /\ Seen(q, assets)[a] = key
             /\ reqs' = [reqs EXCEPT ![r].pc = "balance", ![r].asset = a] /\ UNCHANGED nextId
  <2>1. PICK a \in DOMAIN Seen(q, assets) :
          /\ Seen(q, assets)[a] = key
          /\ reqs' = [reqs EXCEPT ![r].pc = "balance", ![r].asset = a] /\ UNCHANGED nextId
    BY <1>7
  <2> DEFINE q2 == [q EXCEPT !.pc = "balance", !.asset = a]
  <2>2. reqs' = [reqs EXCEPT ![r] = q2]  BY <2>1 DEF MInv
  <2>3. /\ DOMAIN q2 = DOMAIN q /\ q2.pc = "balance" /\ q2.asset = a
        /\ \A f \in DOMAIN q \ {"pc", "asset"} : q2[f] = q[f]
    BY <1>3 DEF IsSession, Fields
  <2> HIDE DEF q2
  <2>4. /\ q2.op = q.op /\ q2.wallet = q.wallet /\ q2.items = q.items /\ q2.i = q.i
        /\ q2.newAssets = q.newAssets /\ q2.writes = q.writes /\ q2.updates = q.updates
        /\ q2.inserts = q.inserts /\ q2.queue = q.queue
    BY <1>3, <1>4, <2>3 DEF IsSession, Fields
  <2>5. ~Adding(q2)  BY <2>3 DEF Adding
  <2>6. /\ Seen(q2, assets) = Seen(q, assets) /\ Wanted(q2, assets) = Wanted(q, assets)
        /\ Statements(q2, assets) = Statements(q, assets) /\ Rows(q2) = Rows(q)
    BY <2>4, SameBody
  <2>7. KeyOf(ItemOf(q2)) = key  BY <2>4 DEF ItemOf
  <2>8. IsPut(q2, assets, balances)
    BY <1>1, <1>3, <2>1, <2>3, <2>4, <2>5, <2>6, <2>7 DEF IsPut, GoodWrite
  <2>9. NewIds(q2) = NewIds(q)  BY <1>3, <2>4, <2>5 DEF NewIds
  <2>10. IsSession(q2)  BY <1>3, <2>3, <2>4 DEF IsSession
  <2>11. Good(q2, assets, balances, nextId)
    BY <1>2, <2>5, <2>6, <2>8, <2>9, <2>10 DEF Good, Names
  <2>12. Fits(q2, r)  BY <1>1, <2>4, <2>9, StillApart
  <2> QED  BY <1>1, <2>1, <2>2, <2>11, <2>12, SlotStep
<1>8. CASE /\ \A a \in DOMAIN Seen(q, assets) : Seen(q, assets)[a] # key
           /\ nextId' = nextId + 1
           /\ \E queue \in FlushQueues(<<new>>, q.updates, q.inserts) :
                reqs' = [reqs EXCEPT ![r] = [Flushing(q, "balance", queue) EXCEPT !.asset = nextId]]
  <2>1. PICK queue \in FlushQueues(<<new>>, q.updates, q.inserts) :
          reqs' = [reqs EXCEPT ![r] = [Flushing(q, "balance", queue) EXCEPT !.asset = nextId]]
    BY <1>8
  <2>2. queue # <<>> /\ Head(queue) = new /\ Tail(queue) \in Seq(Statements(q, assets))
    BY <1>4, Queues
  <2> DEFINE q1 == Flushing(q, "balance", queue)
             q2 == [q1 EXCEPT !.asset = nextId]
  <2>3. /\ DOMAIN q1 = DOMAIN q /\ q1.pc = "flush" /\ q1.next = "balance"
        /\ q1.queue = queue /\ q1.updates = {} /\ q1.inserts = <<>>
        /\ \A f \in DOMAIN q \ {"pc", "next", "queue", "updates", "inserts"} : q1[f] = q[f]
    BY <1>3, Flushed
  <2> HIDE DEF q1
  <2>4. /\ DOMAIN q2 = DOMAIN q /\ q2.asset = nextId
        /\ \A f \in DOMAIN q \ {"asset"} : q2[f] = q1[f]
    BY <1>3, <2>3 DEF IsSession, Fields
  <2>5. reqs' = [reqs EXCEPT ![r] = q2]  BY <2>1 DEF q1
  <2> HIDE DEF q2
  <2>6. /\ q2.op = q.op /\ q2.wallet = q.wallet /\ q2.items = q.items /\ q2.i = q.i
        /\ q2.newAssets = q.newAssets /\ q2.writes = q.writes
    BY <1>3, <1>4, <2>3, <2>4 DEF IsSession, Fields
  <2>7. /\ q2.pc = "flush" /\ q2.next = "balance" /\ q2.queue = queue /\ q2.updates = {}
        /\ q2.inserts = <<>>
    BY <1>3, <2>3, <2>4 DEF IsSession, Fields
  <2>8. KeyOf(ItemOf(q2)) = key  BY <2>6 DEF ItemOf
  <2>9. Adding(q2)  BY <2>2, <2>4, <2>7, <2>8 DEF Adding
  <2>10. /\ Seen(q2, assets) = Seen(q, assets) /\ Wanted(q2, assets) = Wanted(q, assets)
         /\ Statements(q2, assets) = Statements(q, assets) /\ Rows(q2) = Rows(q)
    BY <2>6, SameBody
  <2>11. \A a \in DOMAIN q.newAssets : q.newAssets[a] # key
    BY <1>8 DEF Seen, Over
  <2>12. q2.inserts \in Seq(Statements(q2, assets)) /\ IsFiniteSet(q2.updates)
    BY <2>7, EmptySeq, FS_EmptySet
  <2>13. IsPut(q2, assets, balances)
    <3>1. \A p \in DOMAIN q2.writes : GoodWrite(q2, assets, balances, p)
      BY <1>3, <2>6, <2>10 DEF IsPut, GoodWrite
    <3>2. "items" \in DOMAIN q2  BY <1>4, <2>3, <2>4
    <3>3. \E x \in Requests : x.op = "put" /\ x.wallet = q2.wallet /\ x.items = q2.items
      BY <1>3, <2>6 DEF IsPut
    <3>4. Adding(q2) /\ Tail(q2.queue) \in Seq(Statements(q2, assets))
      BY <2>2, <2>7, <2>9, <2>10
    <3> QED
      BY <1>1, <1>3, <1>4, <2>6, <2>7, <2>8, <2>11, <2>12, <3>1, <3>2, <3>3, <3>4 DEF IsPut
  <2>14. NewIds(q2) = NewIds(q) \cup {nextId} /\ NewIds(q) = DOMAIN q.newAssets
    BY <1>3, <2>4, <2>6, <2>9 DEF NewIds
  <2>15. IsSession(q2)  BY <1>3, <2>4, <2>6, <2>7 DEF IsSession
  <2>16. nextId \notin DOMAIN assets /\ nextId \notin DOMAIN q.newAssets
    BY <1>2, <1>5, <2>14 DEF Good
  <2>17. \A a \in NewIds(q2) : a \in Nat /\ a < nextId' /\ a \notin DOMAIN assets
    <3>1. \A a \in NewIds(q) : a \in Nat /\ a < nextId /\ a \notin DOMAIN assets
      BY <1>2 DEF Good
    <3> QED  BY <1>5, <1>8, <2>14, <2>16, <3>1
  <2>18. Good(q2, assets, balances, nextId')
    BY <1>2, <2>4, <2>6, <2>10, <2>13, <2>15, <2>16, <2>17 DEF Good, Names
  <2>19. Fits(q2, r)  BY <1>1, <2>6, <2>14, StillApart
  <2> QED  BY <1>1, <1>8, <2>5, <2>18, <2>19, SlotStep
<1> QED
  <2>1. \/ \E a \in DOMAIN Seen(q, assets) :
             /\ Seen(q, assets)[a] = key
             /\ reqs' = [reqs EXCEPT ![r].pc = "balance", ![r].asset = a] /\ UNCHANGED nextId
        \/ /\ \A a \in DOMAIN Seen(q, assets) : Seen(q, assets)[a] # key
           /\ nextId' = nextId + 1
           /\ \E queue \in FlushQueues(<<new>>, q.updates, q.inserts) :
                reqs' = [reqs EXCEPT ![r] = [Flushing(q, "balance", queue) EXCEPT !.asset = nextId]]
    BY <1>6 DEF FindAsset
  <2> QED  BY <1>7, <1>8, <2>1

(* What the look at one balance stages.                                     *)
LEMMA Staged ==
  ASSUME NEW q, NEW as, NEW bs, IsPut(q, as, bs), q.pc # "load", q.i \in 1 .. Len(q.items),
         q.asset \in DOMAIN Seen(q, as), Seen(q, as)[q.asset] = KeyOf(ItemOf(q)),
         NEW k \in {"update", "insert"}, NEW cs \in SUBSET Columns,
         \A c \in Columns \ cs : RowOf(ItemOf(q))[c] # TooLarge
  PROVE  [kind |-> k, row |-> <<q.wallet, q.asset>>, to |-> RowOf(ItemOf(q)), columns |-> cs]
           \in Statements(q, as)
<1>1. q.items \in Seq(Item) /\ Distinct(q.items)  BY DEF IsPut
<1>2. /\ KeyOf(q.items[q.i]) \in DOMAIN Rows(q)
      /\ Rows(q)[KeyOf(q.items[q.i])] = RowOf(q.items[q.i])
  BY <1>1, RowsAre
<1>3. RowOf(q.items[q.i]) \in Cells  BY <1>1, <1>2, RowsType
<1>4. ItemOf(q) = q.items[q.i]  BY DEF ItemOf
<1>5. q.asset \in Wanted(q, as) /\ RowOf(ItemOf(q)) = Rows(q)[Seen(q, as)[q.asset]]
  BY <1>2, <1>4 DEF Wanted
<1>6. RowOf(ItemOf(q)) \in Cells  BY <1>3, <1>4
<1> QED  BY <1>5, <1>6 DEF Statements

(* What a transaction of a PUT sees of the rows.                            *)
LEMMA SeenRow ==
  ASSUME MInv, NEW r \in Slots, NEW p \in DOMAIN SeenRows(r)
  PROVE  /\ p \in DOMAIN reqs[r].writes => SeenRows(r)[p] = reqs[r].writes[p]
         /\ p \notin DOMAIN reqs[r].writes =>
              p \in DOMAIN balances /\ SeenRows(r)[p] = balances[p]
         /\ IsPut(reqs[r], assets, balances) => SeenRows(r)[p] \in Balance
<1>1. /\ p \in DOMAIN reqs[r].writes => SeenRows(r)[p] = reqs[r].writes[p]
      /\ p \notin DOMAIN reqs[r].writes =>
           p \in DOMAIN balances /\ SeenRows(r)[p] = balances[p]
  BY DEF SeenRows, Over
<1>2. ASSUME IsPut(reqs[r], assets, balances), p \in DOMAIN reqs[r].writes
      PROVE  reqs[r].writes[p] \in Balance
  BY <1>2 DEF IsPut, GoodWrite
<1> QED  BY <1>1, <1>2 DEF MInv, TablesInv

(* A column that is as the body asks is not refused.                        *)
LEMMA UnchangedFits ==
  ASSUME NEW old \in Balance, NEW item, NEW c \in Columns \ Changed(old, item)
  PROVE  RowOf(item)[c] = old[c] /\ old[c] # TooLarge
<1>1. old[c] = item[c] /\ Stored[c][old[c]] = old[c] /\ old[c] \in Values
  BY DEF Balance, Changed
<1>2. RowOf(item)[c] = Stored[c][item[c]]  BY DEF RowOf
<1> QED  BY <1>1, <1>2, ManualBalancesAssumption

LEMMA FindBalanceStep ==
  ASSUME MInv, NEW r \in Slots, FindBalance(r)
  PROVE  MInv'
<1> DEFINE q == reqs[r]
           p == <<q.wallet, q.asset>>
           row == RowOf(ItemOf(q))
           known == p \in DOMAIN SeenRows(r)
           columns == IF known THEN Changed(SeenRows(r)[p], ItemOf(q)) ELSE Columns
           change == [kind |-> IF known THEN "update" ELSE "insert",
                      row |-> p, to |-> row, columns |-> columns]
           updates == IF known /\ columns # {} THEN q.updates \cup {change} ELSE q.updates
           inserts == IF known THEN q.inserts ELSE Append(q.inserts, change)
           found == [q EXCEPT !.moved = @ \ {<<"row", p>>}]
<1>1. /\ r \in Active /\ UNCHANGED <<tables, nextId>>
      /\ q.pc = "balance" \/ (q.pc = "flush" /\ q.queue = <<>> /\ q.next = "balance")
  BY DEF FindBalance, At, Active
<1>2. Good(q, assets, balances, nextId)  BY <1>1 DEF MInv
<1>3. IsPut(q, assets, balances) /\ ~Adding(q) /\ IsSession(q)
  BY <1>1, <1>2 DEF Good, IsDelete, Adding
<1>4. /\ "items" \in DOMAIN q /\ q.items \in Seq(Item) /\ Distinct(q.items)
      /\ q.i \in 1 .. Len(q.items) /\ q.queue \in Seq(Statements(q, assets))
      /\ q.updates \in SUBSET Statements(q, assets) /\ IsFiniteSet(q.updates)
      /\ q.inserts \in Seq(Statements(q, assets))
      /\ q.asset \in DOMAIN Seen(q, assets) /\ Seen(q, assets)[q.asset] = KeyOf(ItemOf(q))
  BY <1>1, <1>3 DEF IsPut
<1>5. columns \in SUBSET Columns /\ \A c \in Columns \ columns : row[c] # TooLarge
  <2>1. CASE known
    <3>1. SeenRows(r)[p] \in Balance  BY <1>3, <2>1, SeenRow
    <3> QED  BY <2>1, <3>1, UnchangedFits DEF Changed
  <2> QED  BY <2>1
<1> DEFINE k == IF known THEN "update" ELSE "insert"
<1>6. k \in {"update", "insert"}  OBVIOUS
<1> HIDE DEF known, columns
<1>7. change \in Statements(q, assets)
  <2> HIDE DEF k
  <2> SUFFICES [kind |-> k, row |-> p, to |-> row, columns |-> columns]
                 \in Statements(q, assets)
    BY DEF k
  <2> QED  BY <1>1, <1>3, <1>4, <1>5, <1>6, Staged
<1> HIDE DEF change
<1>8. updates \in SUBSET Statements(q, assets) /\ IsFiniteSet(updates)
  BY <1>4, <1>7, FS_AddElement
<1>9. inserts \in Seq(Statements(q, assets))  BY <1>4, <1>7, AppendProperties
<1> HIDE DEF updates, inserts
<1>10. /\ DOMAIN found = DOMAIN q /\ \A f \in DOMAIN q \ {"moved"} : found[f] = q[f]
       /\ IsSession(found)
  BY <1>3 DEF IsSession, Fields
<1> HIDE DEF found
<1>11. CASE /\ q.i # Len(q.items)
            /\ reqs' = [reqs EXCEPT ![r] = [found EXCEPT !.pc = "asset", !.i = @ + 1,
                                              !.updates = updates, !.inserts = inserts]]
  <2> DEFINE q2 == [found EXCEPT !.pc = "asset", !.i = found.i + 1,
                                 !.updates = updates, !.inserts = inserts]
  <2>1. reqs' = [reqs EXCEPT ![r] = q2]  BY <1>11
  <2>2. /\ DOMAIN q2 = DOMAIN q /\ q2.pc = "asset" /\ q2.i = q.i + 1
        /\ q2.updates = updates /\ q2.inserts = inserts
        /\ \A f \in DOMAIN q \ {"moved", "pc", "i", "updates", "inserts"} : q2[f] = q[f]
    BY <1>3, <1>10 DEF IsSession, Fields
  <2> HIDE DEF q2
  <2>3. /\ q2.op = q.op /\ q2.wallet = q.wallet /\ q2.items = q.items
        /\ q2.newAssets = q.newAssets /\ q2.writes = q.writes /\ q2.queue = q.queue
    BY <1>3, <1>4, <2>2 DEF IsSession, Fields
  <2>4. ~Adding(q2)  BY <2>2 DEF Adding
  <2>5. /\ Seen(q2, assets) = Seen(q, assets) /\ Wanted(q2, assets) = Wanted(q, assets)
        /\ Statements(q2, assets) = Statements(q, assets) /\ Rows(q2) = Rows(q)
    BY <2>3, SameBody
  <2>6. q.i + 1 \in 1 .. Len(q.items)  BY <1>4, <1>11, LenProperties
  <2>7. IsPut(q2, assets, balances)
    <3>1. \A x \in DOMAIN q2.writes : GoodWrite(q2, assets, balances, x)
      BY <1>3, <2>3, <2>5 DEF IsPut, GoodWrite
    <3>2. \E x \in Requests : x.op = "put" /\ x.wallet = q2.wallet /\ x.items = q2.items
      BY <1>3, <2>3 DEF IsPut
    <3> QED
      BY <1>1, <1>3, <1>4, <1>8, <1>9, <2>2, <2>3, <2>4, <2>5, <2>6, <3>1, <3>2 DEF IsPut
  <2>8. NewIds(q2) = NewIds(q)  BY <1>3, <2>3, <2>4 DEF NewIds
  <2>9. IsSession(q2)  BY <1>3, <2>2, <2>3 DEF IsSession
  <2>10. Good(q2, assets, balances, nextId)
    BY <1>2, <2>4, <2>5, <2>7, <2>8, <2>9 DEF Good, Names
  <2>11. Fits(q2, r)  BY <1>1, <2>3, <2>8, StillApart
  <2> QED  BY <1>1, <2>1, <2>10, <2>11, SlotStep
<1>12. CASE \E queue \in FlushQueues(<<>>, updates, inserts) :
              reqs' = [reqs EXCEPT ![r] = Flushing(found, "end", queue)]
  <2>1. PICK queue \in FlushQueues(<<>>, updates, inserts) :
          reqs' = [reqs EXCEPT ![r] = Flushing(found, "end", queue)]
    BY <1>12
  <2>2. queue \in Seq(Statements(q, assets))  BY <1>8, <1>9, Queues
  <2> DEFINE q2 == Flushing(found, "end", queue)
  <2>3. /\ DOMAIN q2 = DOMAIN found /\ q2.pc = "flush" /\ q2.next = "end"
        /\ q2.queue = queue /\ q2.updates = {} /\ q2.inserts = <<>>
        /\ \A f \in DOMAIN found \ {"pc", "next", "queue", "updates", "inserts"} : q2[f] = found[f]
    BY <1>10, Flushed
  <2>4. reqs' = [reqs EXCEPT ![r] = q2]  BY <2>1
  <2> HIDE DEF q2
  <2>5. /\ q2.op = q.op /\ q2.wallet = q.wallet /\ q2.items = q.items /\ q2.i = q.i
        /\ q2.newAssets = q.newAssets /\ q2.writes = q.writes /\ "items" \in DOMAIN q2
    BY <1>3, <1>4, <1>10, <2>3 DEF IsSession, Fields
  <2>6. ~Adding(q2)  BY <2>3 DEF Adding
  <2>7. /\ Seen(q2, assets) = Seen(q, assets) /\ Wanted(q2, assets) = Wanted(q, assets)
        /\ Statements(q2, assets) = Statements(q, assets) /\ Rows(q2) = Rows(q)
    BY <2>5, SameBody
  <2>8. q2.inserts \in Seq(Statements(q2, assets)) /\ IsFiniteSet(q2.updates)
    BY <2>3, EmptySeq, FS_EmptySet
  <2>9. IsPut(q2, assets, balances)
    <3>1. \A x \in DOMAIN q2.writes : GoodWrite(q2, assets, balances, x)
      BY <1>3, <2>5, <2>7 DEF IsPut, GoodWrite
    <3>2. \E x \in Requests : x.op = "put" /\ x.wallet = q2.wallet /\ x.items = q2.items
      BY <1>3, <2>5 DEF IsPut
    <3>3. q2.queue \in Seq(Statements(q2, assets))  BY <2>2, <2>3, <2>7
    <3> QED
      BY <1>1, <1>3, <1>4, <2>3, <2>5, <2>6, <2>8, <3>1, <3>2, <3>3 DEF IsPut
  <2>10. NewIds(q2) = NewIds(q)  BY <1>3, <2>5, <2>6 DEF NewIds
  <2>11. IsSession(q2)  BY <1>3, <1>10, <2>3, <2>5 DEF IsSession
  <2>12. Good(q2, assets, balances, nextId)
    BY <1>2, <2>6, <2>7, <2>9, <2>10, <2>11 DEF Good, Names
  <2>13. Fits(q2, r)  BY <1>1, <2>5, <2>10, StillApart
  <2> QED  BY <1>1, <2>4, <2>12, <2>13, SlotStep
<1> QED
  <2>1. \/ /\ q.i # Len(q.items)
           /\ reqs' = [reqs EXCEPT ![r] = [found EXCEPT !.pc = "asset", !.i = @ + 1,
                                             !.updates = updates, !.inserts = inserts]]
        \/ \E queue \in FlushQueues(<<>>, updates, inserts) :
             reqs' = [reqs EXCEPT ![r] = Flushing(found, "end", queue)]
    BY DEF FindBalance, found, updates, inserts, change, known, columns
  <2> QED  BY <1>11, <1>12, <2>1

LEMMA FindRowStep ==
  ASSUME MInv, NEW r \in Slots, FindRow(r)
  PROVE  MInv'
<1> DEFINE q == reqs[r]
           p == <<q.wallet, q.asset>>
           queue == <<[kind |-> "delete", row |-> p]>>
           q2 == Flushing(q, "end", queue)
<1>1. r \in Active /\ q.pc = "find" /\ UNCHANGED <<tables, nextId>>
  BY DEF FindRow, Active
<1>2. Good(q, assets, balances, nextId)  BY <1>1 DEF MInv
<1>3. IsDelete(q, balances) /\ ~Adding(q) /\ IsSession(q)
  BY <1>1, <1>2 DEF Good, IsPut, Adding
<1>4. CASE Fail(r, 404)  BY <1>1, <1>4, FailStep
<1>5. CASE reqs' = [reqs EXCEPT ![r] = q2]
  <2>1. /\ DOMAIN q2 = DOMAIN q /\ q2.pc = "flush" /\ q2.next = "end" /\ q2.queue = queue
        /\ \A f \in DOMAIN q \ {"pc", "next", "queue", "updates", "inserts"} : q2[f] = q[f]
    BY <1>3, Flushed
  <2> HIDE DEF q2
  <2>2. /\ q2.op = q.op /\ q2.wallet = q.wallet /\ q2.asset = q.asset
        /\ q2.newAssets = q.newAssets /\ q2.writes = q.writes
    BY <1>3, <2>1 DEF IsSession, Fields
  <2>3. ~Adding(q2)  BY <2>1 DEF Adding
  <2>4. Seen(q2, assets) = Seen(q, assets)  BY <2>2 DEF Seen
  <2>5. IsDelete(q2, balances)  BY <1>3, <2>1, <2>2 DEF IsDelete
  <2>6. NewIds(q2) = NewIds(q)  BY <1>3, <2>2, <2>3 DEF NewIds
  <2>7. IsSession(q2)  BY <1>3, <2>1, <2>2 DEF IsSession
  <2>8. Good(q2, assets, balances, nextId)
    BY <1>2, <2>3, <2>4, <2>5, <2>6, <2>7 DEF Good, Names
  <2>9. Fits(q2, r)  BY <1>1, <2>2, <2>6, StillApart
  <2> QED  BY <1>1, <1>5, <2>8, <2>9, SlotStep
<1> QED  BY <1>4, <1>5 DEF FindRow

------------------------------------------------------------------------------
(* Statements *)

(* A transaction that sees more assets, over a table whose rows it has      *)
(* written are as they were, still writes what it should.                   *)
LEMMA Grown ==
  ASSUME NEW q, NEW as, NEW bs, NEW q2, NEW as2, NEW bs2,
         q2.wallet = q.wallet, Rows(q2) = Rows(q),
         DOMAIN Seen(q, as) \subseteq DOMAIN Seen(q2, as2),
         \A a \in DOMAIN Seen(q, as) : Seen(q2, as2)[a] = Seen(q, as)[a]
  PROVE  /\ Statements(q, as) \subseteq Statements(q2, as2)
         /\ \A p : (/\ GoodWrite(q, as, bs, p) /\ q2.writes[p] = q.writes[p]
                    /\ p \in DOMAIN bs <=> p \in DOMAIN bs2
                    /\ p \in DOMAIN bs => bs2[p] = bs[p])
                     => GoodWrite(q2, as2, bs2, p)
<1>1. Wanted(q, as) \subseteq Wanted(q2, as2)  BY DEF Wanted
<1>2. \A a \in Wanted(q, as) : Rows(q2)[Seen(q2, as2)[a]] = Rows(q)[Seen(q, as)[a]]
  BY DEF Wanted
<1>3. Statements(q, as) \subseteq Statements(q2, as2)
  <2> SUFFICES ASSUME NEW s \in Statements(q, as) PROVE s \in Statements(q2, as2)
    OBVIOUS
  <2>1. s \in [kind : {"update", "insert"}, row : {q.wallet} \X Wanted(q, as),
               to : Cells, columns : SUBSET Columns]
        /\ s.to = Rows(q)[Seen(q, as)[s.row[2]]]
        /\ \A c \in Columns \ s.columns : s.to[c] # TooLarge
    BY DEF Statements
  <2>2. s.row[2] \in Wanted(q, as) /\ s.row \in {q2.wallet} \X Wanted(q2, as2)
    BY <1>1, <2>1
  <2> QED  BY <1>2, <2>1, <2>2 DEF Statements
<1>4. ASSUME NEW p, GoodWrite(q, as, bs, p), q2.writes[p] = q.writes[p],
             p \in DOMAIN bs <=> p \in DOMAIN bs2, p \in DOMAIN bs => bs2[p] = bs[p]
      PROVE  GoodWrite(q2, as2, bs2, p)
  BY <1>1, <1>2, <1>4 DEF GoodWrite
<1> QED  BY <1>3, <1>4

(* Nobody else holds what the statement of a request that may go on is      *)
(* about.                                                                   *)
LEMMA Unheld ==
  ASSUME NEW r \in Slots, WaitsFor(r) = {}, reqs[r].pc = "flush", reqs[r].queue # <<>>,
         ~Overflows(Statement(r))
  PROVE  \A s \in Active \ {r} : Resource(Statement(r)) \notin Locked(s)
  BY DEF WaitsFor, Locking, Executing

LEMMA InsertAssetStep ==
  ASSUME MInv, NEW r \in Slots, reqs[r].pc = "flush", reqs[r].queue # <<>>,
         WaitsFor(r) = {}, InsertAsset(r, Statement(r)), UNCHANGED <<tables, nextId>>
  PROVE  MInv'
<1> DEFINE q == reqs[r]
           s == Statement(r)
           key == KeyOf(ItemOf(q))
           q2 == [q EXCEPT !.queue = Tail(q.queue), !.newAssets = Assign(q.newAssets, s.id, s.key)]
<1>1. r \in Active /\ s.kind = "asset"  BY DEF Active, InsertAsset
<1>2. Good(q, assets, balances, nextId)  BY <1>1 DEF MInv
<1>3. IsPut(q, assets, balances) /\ Adding(q) /\ IsSession(q)
      /\ Tail(q.queue) \in Seq(Statements(q, assets))
  <2>1. ~IsDelete(q, balances)
    <3>1. q.queue = <<[kind |-> "delete", row |-> <<q.wallet, q.asset>>]>> =>
            Head(q.queue).kind = "delete"
      OBVIOUS
    <3> QED  BY <1>1, <3>1 DEF IsDelete, Statement
  <2>2. IsPut(q, assets, balances) /\ IsSession(q)  BY <1>2, <2>1 DEF Good
  <2>3. q.queue \notin Seq(Statements(q, assets))
    <3>1. q.queue \in Seq(Statements(q, assets)) => Head(q.queue) \in Statements(q, assets)
      BY HeadTailProperties
    <3>2. \A x \in Statements(q, assets) : x.kind \in {"update", "insert"}  BY DEF Statements
    <3> QED  BY <1>1, <3>1, <3>2 DEF Statement
  <2> QED  BY <2>2, <2>3 DEF IsPut
<1>4. s = [kind |-> "asset", key |-> key, id |-> q.asset] /\ s.id = q.asset /\ s.key = key
  BY <1>3 DEF Adding, Statement
<1>5. CASE Fail(r, 500)  BY <1>5, FailStep
<1>6. CASE ~SymbolTaken(key) /\ reqs' = [reqs EXCEPT ![r] = q2]
  <2>1. /\ DOMAIN q2 = DOMAIN q /\ q2.queue = Tail(q.queue)
        /\ q2.newAssets = Assign(q.newAssets, q.asset, key)
        /\ \A f \in DOMAIN q \ {"queue", "newAssets"} : q2[f] = q[f]
    BY <1>3, <1>4 DEF IsSession, Fields
  <2> HIDE DEF q2, s
  <2>2. "items" \in DOMAIN q /\ q.i \in 1 .. Len(q.items) /\ q.op = "put"
        /\ q.next = "balance" /\ q.pc = "flush" /\ Distinct(q.items)
    BY <1>3 DEF IsPut, Adding
  <2>3. /\ q2.op = q.op /\ q2.wallet = q.wallet /\ q2.items = q.items /\ q2.i = q.i
        /\ q2.asset = q.asset /\ q2.pc = q.pc /\ q2.next = q.next /\ q2.writes = q.writes
        /\ q2.updates = q.updates /\ q2.inserts = q.inserts
    BY <1>3, <2>1, <2>2 DEF IsSession, Fields
  <2>4. q.asset \notin DOMAIN assets /\ q.asset \notin DOMAIN q.newAssets
    BY <1>2, <1>3 DEF Good, NewIds
  <2>5. /\ DOMAIN q2.newAssets = DOMAIN q.newAssets \cup {q.asset}
        /\ q2.newAssets[q.asset] = key
        /\ \A a \in DOMAIN q.newAssets : q2.newAssets[a] = q.newAssets[a]
    <3> DEFINE f == q.newAssets
               x == q.asset
    <3>1. q2.newAssets = Assign(f, x, key) /\ x \notin DOMAIN f  BY <2>1, <2>4
    <3> HIDE DEF f, x, key
    <3>2. /\ DOMAIN Assign(f, x, key) = DOMAIN f \cup {x}
          /\ Assign(f, x, key)[x] = key
          /\ \A z \in DOMAIN f \ {x} : Assign(f, x, key)[z] = f[z]
      BY DEF Assign, Over
    <3>3. \A z \in DOMAIN f : q2.newAssets[z] = f[z]  BY <3>1, <3>2
    <3> QED  BY <3>1, <3>2, <3>3 DEF f, x
  <2>6. /\ DOMAIN Seen(q2, assets) = DOMAIN Seen(q, assets) \cup {q.asset}
        /\ Seen(q2, assets)[q.asset] = key
        /\ \A a \in DOMAIN Seen(q, assets) : Seen(q2, assets)[a] = Seen(q, assets)[a]
    BY <2>4, <2>5 DEF Seen, Over
  <2>7. Rows(q2) = Rows(q)  BY <2>3, SameBody
  <2>8. /\ Statements(q, assets) \subseteq Statements(q2, assets)
        /\ \A p : GoodWrite(q, assets, balances, p) => GoodWrite(q2, assets, balances, p)
    <3>1. /\ DOMAIN Seen(q, assets) \subseteq DOMAIN Seen(q2, assets)
          /\ \A a \in DOMAIN Seen(q, assets) : Seen(q2, assets)[a] = Seen(q, assets)[a]
      BY <2>6
    <3> HIDE DEF q
    <3> QED  BY <2>3, <2>7, <3>1, Grown
  <2>9. /\ Tail(q.queue) \in Seq(Statements(q2, assets))
        /\ q2.updates \subseteq Statements(q2, assets) /\ IsFiniteSet(q2.updates)
        /\ q2.inserts \in Seq(Statements(q2, assets))
    BY <1>3, <2>3, <2>8, SeqMonotonic DEF IsPut
  <2>10. ~Adding(q2)  BY <2>1, <2>9, NotAdding
  <2>11. KeyOf(ItemOf(q2)) = key  BY <2>3 DEF ItemOf
  <2>12. IsPut(q2, assets, balances)
    <3>1. \A p \in DOMAIN q2.writes : GoodWrite(q2, assets, balances, p)
      BY <1>3, <2>3, <2>8 DEF IsPut
    <3>2. \E x \in Requests : x.op = "put" /\ x.wallet = q2.wallet /\ x.items = q2.items
      BY <1>3, <2>3 DEF IsPut
    <3>3. "items" \in DOMAIN q2 /\ q2.items \in Seq(Item)  BY <1>3, <2>1, <2>2, <2>3 DEF IsPut
    <3> QED
      BY <2>1, <2>2, <2>3, <2>6, <2>9, <2>10, <2>11, <3>1, <3>2, <3>3 DEF IsPut
  <2>13. NewIds(q2) = NewIds(q)  BY <1>3, <2>5, <2>10 DEF NewIds
  <2>14. Names(q2, assets)
    <3>1. \A a \in DOMAIN Seen(q, assets) : Seen(q, assets)[a] # key
      <4>1. \A a \in DOMAIN q.newAssets : q.newAssets[a] # key  BY <1>3 DEF IsPut
      <4>2. \A a \in DOMAIN assets : assets[a] # key  BY <1>6 DEF SymbolTaken
      <4> QED  BY <4>1, <4>2 DEF Seen, Over
    <3> QED  BY <1>2, <2>6, <3>1 DEF Good, Names
  <2>15. IsSession(q2)  BY <1>3, <2>1, <2>3 DEF IsSession
  <2>16. Good(q2, assets, balances, nextId)
    BY <1>2, <2>10, <2>12, <2>13, <2>14, <2>15 DEF Good
  <2>17. ASSUME NEW t \in Active \ {r} PROVE Apart(q2, reqs[t])
    <3>1. Apart(q, reqs[t])  BY <1>1 DEF MInv
    <3>2. <<"asset", key>> \notin Locked(t)
      <4>1. Resource(Statement(r)) = <<"asset", key>>  BY <1>4 DEF Resource, s
      <4>2. Statement(r).kind = "asset"  BY <1>1 DEF s
      <4>3. ~Overflows(Statement(r))  BY <4>2 DEF Overflows
      <4> QED  BY <4>1, <4>3, Unheld
    <3>3. \A b \in DOMAIN reqs[t].newAssets : reqs[t].newAssets[b] # key
      BY <3>2 DEF Locked
    <3>4. \A a \in DOMAIN q2.newAssets, b \in DOMAIN reqs[t].newAssets :
             q2.newAssets[a] # reqs[t].newAssets[b]
      BY <2>5, <3>1, <3>3 DEF Apart
    <3> QED  BY <2>3, <2>13, <3>1, <3>4 DEF Apart
  <2>18. Fits(q2, r)
    <3>1. Alive(q2, wallets)  BY <1>1, <2>3 DEF MInv, Alive
    <3> QED  BY <2>17, <3>1 DEF Fits
  <2> QED  BY <1>6, <2>16, <2>18, SlotStep
<1> QED
  <2>1. reqs' = [reqs EXCEPT ![r].queue = Tail(@), ![r].newAssets = Assign(@, s.id, s.key)]
          => reqs' = [reqs EXCEPT ![r] = q2]
    BY DEF MInv
  <2> QED  BY <1>4, <1>5, <1>6, <2>1 DEF InsertAsset

(* What a statement that is not refused writes is a row.                    *)
LEMMA Storable ==
  ASSUME NEW q, NEW as, q.items \in Seq(Item), NEW s \in Statements(q, as),
         s.kind \in {"update", "insert"}, ~Overflows(s)
  PROVE  s.to \in Balance
<1>1. /\ s.row[2] \in Wanted(q, as) /\ s.to = Rows(q)[Seen(q, as)[s.row[2]]]
      /\ \A c \in Columns \ s.columns : s.to[c] # TooLarge
  BY DEF Statements
<1>2. \A c \in Columns : s.to[c] # TooLarge  BY <1>1 DEF Overflows
<1>3. Seen(q, as)[s.row[2]] \in DOMAIN Rows(q)  BY <1>1 DEF Wanted
<1> QED  BY <1>1, <1>2, <1>3, RowsType

(* A PUT writes one row, which nobody else holds.                           *)
LEMMA WriteStep ==
  ASSUME MInv, NEW r \in Slots, reqs[r].pc = "flush", reqs[r].queue # <<>>,
         WaitsFor(r) = {}, Statement(r) \in Statements(reqs[r], assets),
         IsPut(reqs[r], assets, balances), ~Overflows(Statement(r)),
         Statement(r).row[1] \in wallets, NEW row \in Balance,
         LET p == Statement(r).row
             to == Statement(r).to
         IN  IF p \in DOMAIN balances
               THEN \A c \in Columns : row[c] \in {balances[p][c], to[c]}
               ELSE row = to,
         Written(r, Statement(r).row, row), UNCHANGED <<tables, nextId>>
  PROVE  MInv'
<1> DEFINE q == reqs[r]
           s == Statement(r)
           p == s.row
           q2 == [q EXCEPT !.queue = Tail(q.queue), !.writes = Assign(q.writes, p, row)]
<1>1. r \in Active  BY DEF Active
<1>2. Good(q, assets, balances, nextId) /\ IsSession(q)  BY <1>1 DEF MInv, Good
<1>3. /\ s \in [kind : {"update", "insert"}, row : {q.wallet} \X Wanted(q, assets),
                to : Cells, columns : SUBSET Columns]
      /\ s.to = Rows(q)[Seen(q, assets)[p[2]]]
      /\ \A c \in Columns \ s.columns : s.to[c] # TooLarge
  BY DEF Statements
<1>4. p[2] \in Wanted(q, assets) /\ p = <<q.wallet, p[2]>>  BY <1>3
<1>5. ~Adding(q)
  <2>1. Adding(q) => Head(q.queue).kind = "asset"  BY DEF Adding
  <2> QED  BY <1>3, <2>1 DEF Statement
<1>6. q.queue \in Seq(Statements(q, assets)) /\ Tail(q.queue) \in Seq(Statements(q, assets))
  <2>1. q.queue \in Seq(Statements(q, assets))  BY <1>5 DEF IsPut
  <2> QED  BY <2>1, HeadTailProperties
<1>19. s.to \in Balance /\ p[1] \in wallets
  <2>1. q.items \in Seq(Item) /\ s.kind \in {"update", "insert"}  BY <1>3 DEF IsPut
  <2> QED  BY <2>1, Storable
<1>7. reqs' = [reqs EXCEPT ![r] = q2]  BY DEF Written, MInv
<1>8. /\ DOMAIN q2 = DOMAIN q /\ q2.queue = Tail(q.queue)
      /\ q2.writes = Assign(q.writes, p, row)
      /\ \A f \in DOMAIN q \ {"queue", "writes"} : q2[f] = q[f]
  BY <1>2 DEF IsSession, Fields
<1> HIDE DEF q2, p, s
<1>9. /\ "items" \in DOMAIN q
      /\ q2.op = q.op /\ q2.wallet = q.wallet /\ q2.items = q.items /\ q2.i = q.i
      /\ q2.asset = q.asset /\ q2.pc = q.pc /\ q2.next = q.next
      /\ q2.newAssets = q.newAssets /\ q2.updates = q.updates /\ q2.inserts = q.inserts
  BY <1>2, <1>8 DEF IsPut, IsSession, Fields
<1>10. /\ DOMAIN q2.writes = DOMAIN q.writes \cup {p} /\ q2.writes[p] = row
       /\ \A x \in DOMAIN q.writes \ {p} : q2.writes[x] = q.writes[x]
  BY <1>8 DEF Assign, Over
<1>11. /\ Seen(q2, assets) = Seen(q, assets) /\ Wanted(q2, assets) = Wanted(q, assets)
       /\ Statements(q2, assets) = Statements(q, assets) /\ Rows(q2) = Rows(q)
  BY <1>9, SameBody
<1>12. ~Adding(q2)  BY <1>6, <1>8, <1>11, NotAdding
<1>13. \A x \in DOMAIN q2.writes : GoodWrite(q2, assets, balances, x)
  <2>1. GoodWrite(q2, assets, balances, p)
    <3>1. IF p \in DOMAIN balances
            THEN \A c \in Columns : row[c] \in {balances[p][c], s.to[c]}
            ELSE row = s.to
      BY DEF p, s
    <3> QED  BY <1>3, <1>4, <1>9, <1>10, <1>11, <1>19, <3>1 DEF GoodWrite
  <2>2. \A x \in DOMAIN q.writes \ {p} : GoodWrite(q2, assets, balances, x)
    BY <1>9, <1>10, <1>11 DEF IsPut, GoodWrite
  <2> QED  BY <1>10, <2>1, <2>2
<1>14. IsPut(q2, assets, balances)
  <2>1. \E x \in Requests : x.op = "put" /\ x.wallet = q2.wallet /\ x.items = q2.items
    BY <1>9 DEF IsPut
  <2>2. q2.queue \in Seq(Statements(q2, assets))  BY <1>6, <1>8, <1>11
  <2>3. KeyOf(ItemOf(q2)) = KeyOf(ItemOf(q))  BY <1>9 DEF ItemOf
  <2> QED  BY <1>5, <1>8, <1>9, <1>11, <1>12, <1>13, <2>1, <2>2, <2>3 DEF IsPut
<1>15. NewIds(q2) = NewIds(q)  BY <1>5, <1>9, <1>12 DEF NewIds
<1>16. IsSession(q2)  BY <1>2, <1>8, <1>9 DEF IsSession
<1>17. Good(q2, assets, balances, nextId)
  BY <1>2, <1>11, <1>12, <1>14, <1>15, <1>16 DEF Good, Names
<1>18. ASSUME NEW t \in Active \ {r} PROVE Apart(q2, reqs[t])
  <2>1. Apart(q, reqs[t])  BY <1>1 DEF MInv
  <2>2. Resource(Statement(r)) = <<"row", p>>
    <3>1. s.kind # "asset"  BY <1>3 DEF p
    <3> QED  BY <3>1 DEF Resource, s, p
  <2>3. p \notin DOMAIN reqs[t].writes  BY <2>2, Unheld DEF Locked
  <2> QED  BY <1>9, <1>10, <1>15, <2>1, <2>3 DEF Apart
<1>20. Fits(q2, r)
  <2>1. Alive(q2, wallets)  BY <1>1, <1>10, <1>19 DEF MInv, Alive
  <2> QED  BY <1>18, <2>1 DEF Fits
<1> QED  BY <1>7, <1>17, <1>20, SlotStep

(* The session that executes a statement about rows of a PUT.               *)
LEMMA RowStatement ==
  ASSUME MInv, NEW r \in Slots, reqs[r].pc = "flush", reqs[r].queue # <<>>,
         Statement(r).kind \in {"update", "insert"}
  PROVE  IsPut(reqs[r], assets, balances) /\ Statement(r) \in Statements(reqs[r], assets)
<1> DEFINE q == reqs[r]
<1>1. Good(q, assets, balances, nextId)  BY DEF MInv, Active
<1>2. ~IsDelete(q, balances)
  <2>1. q.queue = <<[kind |-> "delete", row |-> <<q.wallet, q.asset>>]>> =>
          Head(q.queue).kind = "delete"
    OBVIOUS
  <2> QED  BY <2>1 DEF IsDelete, Statement
<1>3. IsPut(q, assets, balances)  BY <1>1, <1>2 DEF Good
<1>4. ~Adding(q)
  <2>1. Adding(q) => Head(q.queue).kind = "asset"  BY DEF Adding
  <2> QED  BY <2>1 DEF Statement
<1>5. q.queue \in Seq(Statements(q, assets))  BY <1>3, <1>4 DEF IsPut
<1> QED  BY <1>3, <1>5, HeadTailProperties DEF Statement

LEMMA UpdateRowStep ==
  ASSUME MInv, NEW r \in Slots, reqs[r].pc = "flush", reqs[r].queue # <<>>,
         WaitsFor(r) = {}, UpdateRow(r, Statement(r)), UNCHANGED <<tables, nextId>>
  PROVE  MInv'
<1> DEFINE q == reqs[r]
           s == Statement(r)
           p == s.row
           old == SeenRows(r)[p]
           row == [c \in Columns |-> IF c \in s.columns THEN s.to[c] ELSE old[c]]
<1>1. s.kind = "update" /\ ~Overflows(s)  BY DEF UpdateRow
<1>2. IsPut(q, assets, balances) /\ s \in Statements(q, assets)  BY <1>1, RowStatement
<1>3. /\ s.to \in Balance /\ s.to = Rows(q)[Seen(q, assets)[p[2]]]
      /\ p[2] \in Wanted(q, assets) /\ p = <<q.wallet, p[2]>>
  BY <1>1, <1>2, Storable DEF Statements, IsPut
<1>4. CASE Fail(r, 500)  BY <1>4, FailStep
<1>5. CASE p \in DOMAIN SeenRows(r) /\ Written(r, p, row)
  <2>1. /\ old \in Balance
        /\ IF p \in DOMAIN balances
             THEN \A c \in Columns : old[c] \in {balances[p][c], s.to[c]}
             ELSE old = s.to
    <3>1. CASE p \in DOMAIN q.writes
      <4>1. old = q.writes[p]  BY <1>5, <3>1, SeenRow
      <4>2. GoodWrite(q, assets, balances, p)  BY <1>2, <3>1 DEF IsPut
      <4>3. PICK a \in Wanted(q, assets) :
              /\ p = <<q.wallet, a>> /\ q.writes[p] \in Balance
              /\ IF p \in DOMAIN balances
                   THEN \A c \in Columns :
                          q.writes[p][c] \in {balances[p][c], Rows(q)[Seen(q, assets)[a]][c]}
                   ELSE q.writes[p] = Rows(q)[Seen(q, assets)[a]]
        BY <4>2 DEF GoodWrite
      <4>4. a = p[2]  BY <4>3
      <4> QED  BY <1>3, <4>1, <4>3, <4>4
    <3>2. CASE p \notin DOMAIN q.writes
      BY <1>5, <3>2, SeenRow DEF MInv, TablesInv
    <3> QED  BY <3>1, <3>2
  <2>4. p[1] \in wallets
    <3>1. CASE p \in DOMAIN q.writes  BY <3>1 DEF MInv, Alive, Active
    <3>2. CASE p \notin DOMAIN q.writes
      <4>1. p \in DOMAIN balances  BY <1>5, <3>2, SeenRow
      <4> QED  BY <4>1 DEF MInv, TablesInv
    <3> QED  BY <3>1, <3>2
  <2> HIDE DEF old
  <2>2. row \in Balance
    <3>1. row = [c \in Columns |-> row[c]]
          /\ \A c \in Columns : row[c] = s.to[c] \/ row[c] = old[c]
      OBVIOUS
    <3>2. \A c \in Columns : /\ s.to[c] \in Values /\ Stored[c][s.to[c]] = s.to[c]
                             /\ old[c] \in Values /\ Stored[c][old[c]] = old[c]
      BY <1>3, <2>1 DEF Balance
    <3> HIDE DEF row, s
    <3>3. \A c \in Columns : row[c] \in Values /\ Stored[c][row[c]] = row[c]
      BY <3>1, <3>2
    <3> QED  BY <3>1, <3>3 DEF Balance
  <2>3. IF p \in DOMAIN balances
          THEN \A c \in Columns : row[c] \in {balances[p][c], s.to[c]}
          ELSE row = s.to
    <3>1. CASE p \in DOMAIN balances  BY <2>1, <3>1
    <3>2. CASE p \notin DOMAIN balances
      <4>1. \A c \in Columns : row[c] = s.to[c]  BY <2>1, <3>2
      <4>2. s.to = [c \in Columns |-> s.to[c]] /\ row = [c \in Columns |-> row[c]]
        BY <1>3 DEF Balance
      <4> HIDE DEF row, s
      <4>3. row = s.to  BY <4>1, <4>2
      <4> QED  BY <3>2, <4>3
    <3> QED  BY <3>1, <3>2
  <2> HIDE DEF row
  <2> QED  BY <1>1, <1>2, <1>5, <2>2, <2>3, <2>4, WriteStep
<1> QED  BY <1>4, <1>5 DEF UpdateRow

LEMMA InsertRowStep ==
  ASSUME MInv, NEW r \in Slots, reqs[r].pc = "flush", reqs[r].queue # <<>>,
         WaitsFor(r) = {}, InsertRow(r, Statement(r)), UNCHANGED <<tables, nextId>>
  PROVE  MInv'
<1> DEFINE s == Statement(r)
<1>1. s.kind = "insert" /\ ~Overflows(s)  BY DEF InsertRow
<1>2. IsPut(reqs[r], assets, balances) /\ s \in Statements(reqs[r], assets)
  BY <1>1, RowStatement
<1>3. s.to \in Balance  BY <1>1, <1>2, Storable DEF IsPut
<1>4. CASE Fail(r, 500)  BY <1>4, FailStep
<1>5. CASE /\ s.row \notin DOMAIN SeenRows(r) /\ s.row[1] \in wallets
           /\ Written(r, s.row, s.to)
  <2>1. s.row \notin DOMAIN balances  BY <1>5 DEF SeenRows, Over
  <2> QED  BY <1>1, <1>2, <1>3, <1>5, <2>1, WriteStep
<1> QED  BY <1>4, <1>5 DEF InsertRow

LEMMA DeleteRowStep ==
  ASSUME MInv, NEW r \in Slots, reqs[r].pc = "flush", reqs[r].queue # <<>>,
         WaitsFor(r) = {}, DeleteRow(r, Statement(r)), UNCHANGED <<tables, nextId>>
  PROVE  MInv'
<1> DEFINE q == reqs[r]
           s == Statement(r)
           p == <<q.wallet, q.asset>>
           writes == IF p \in DOMAIN balances THEN Assign(q.writes, p, Gone) ELSE q.writes
           q2 == [q EXCEPT !.queue = Tail(q.queue), !.writes = writes]
<1>1. r \in Active /\ s.kind = "delete"  BY DEF Active, DeleteRow
<1>2. Good(q, assets, balances, nextId) /\ IsSession(q)  BY <1>1 DEF MInv, Good
<1>3. ~IsPut(q, assets, balances)
  <2>1. Adding(q) => s.kind = "asset"  BY DEF Adding, Statement
  <2>2. q.queue \in Seq(Statements(q, assets)) => s.kind \in {"update", "insert"}
    <3>1. q.queue \in Seq(Statements(q, assets)) => s \in Statements(q, assets)
      BY HeadTailProperties DEF Statement
    <3> QED  BY <3>1 DEF Statements
  <2> QED  BY <1>1, <2>1, <2>2 DEF IsPut
<1>4. IsDelete(q, balances)  BY <1>2, <1>3 DEF Good
<1>5. s = [kind |-> "delete", row |-> p] /\ s.row = p /\ Tail(q.queue) = <<>>
  <2>1. q.queue = <<[kind |-> "delete", row |-> p]>>  BY <1>4 DEF IsDelete
  <2> QED  BY <2>1 DEF Statement
<1>6. reqs' = [reqs EXCEPT ![r] = q2]
  <2>1. CASE p \in DOMAIN balances
    BY <1>5, <2>1 DEF DeleteRow, Written, MInv
  <2>2. CASE p \notin DOMAIN balances
    <3>1. reqs' = [reqs EXCEPT ![r].queue = Tail(@)]  BY <1>5, <2>2 DEF DeleteRow
    <3>2. q2 = [q EXCEPT !.queue = Tail(q.queue)]  BY <1>2, <2>2 DEF IsSession, Fields
    <3> QED  BY <3>1, <3>2 DEF MInv
  <2> QED  BY <2>1, <2>2
<1>7. /\ DOMAIN q2 = DOMAIN q /\ q2.queue = <<>> /\ q2.writes = writes
      /\ \A f \in DOMAIN q \ {"queue", "writes"} : q2[f] = q[f]
  BY <1>2, <1>5 DEF IsSession, Fields
<1> HIDE DEF q2, s
<1>8. /\ q2.op = q.op /\ q2.wallet = q.wallet /\ q2.asset = q.asset /\ q2.pc = q.pc
      /\ q2.next = q.next /\ q2.newAssets = q.newAssets
  BY <1>2, <1>7 DEF IsSession, Fields
<1>9. /\ DOMAIN writes \subseteq DOMAIN q.writes \cup {p}
      /\ \A x \in DOMAIN writes : x = p /\ x \in DOMAIN balances /\ writes[x] = Gone
  <2>1. \A x \in DOMAIN q.writes : x = p /\ x \in DOMAIN balances /\ q.writes[x] = Gone
    BY <1>4 DEF IsDelete
  <2> QED  BY <2>1 DEF Assign, Over
<1> HIDE DEF writes
<1>10. ~Adding(q2) /\ ~Adding(q)
  BY <1>4, <1>8 DEF Adding, IsDelete
<1>11. IsDelete(q2, balances)  BY <1>4, <1>7, <1>8, <1>9 DEF IsDelete
<1>12. NewIds(q2) = NewIds(q)  BY <1>8, <1>10 DEF NewIds
<1>13. Seen(q2, assets) = Seen(q, assets)  BY <1>8 DEF Seen
<1>14. IsSession(q2)  BY <1>2, <1>7, <1>8 DEF IsSession
<1>15. Good(q2, assets, balances, nextId)
  BY <1>2, <1>10, <1>11, <1>12, <1>13, <1>14 DEF Good, Names
<1>16. ASSUME NEW t \in Active \ {r} PROVE Apart(q2, reqs[t])
  <2>1. Apart(q, reqs[t])  BY <1>1 DEF MInv
  <2>2. Resource(Statement(r)) = <<"row", p>>  BY <1>5 DEF Resource, s
  <2>4. ~Overflows(Statement(r))  BY <1>5 DEF Overflows, s
  <2>3. p \notin DOMAIN reqs[t].writes  BY <2>2, <2>4, Unheld DEF Locked
  <2> QED  BY <1>7, <1>8, <1>9, <1>12, <2>1, <2>3 DEF Apart
<1>17. Fits(q2, r)
  <2>1. Alive(q2, wallets)  BY <1>7, <1>9 DEF MInv, TablesInv, Alive
  <2> QED  BY <1>16, <2>1 DEF Fits
<1> QED  BY <1>6, <1>15, <1>17, SlotStep

------------------------------------------------------------------------------
(* Commits *)

(* The request that commits, and what it has done to the tables.            *)
LEMMA Committed ==
  ASSUME MInv, NEW r \in Slots, Commit(r)
  PROVE  /\ r \in Active /\ Good(reqs[r], assets, balances, nextId)
         /\ ~Adding(reqs[r]) /\ NewIds(reqs[r]) = DOMAIN reqs[r].newAssets
         /\ assets' = Seen(reqs[r], assets)
         /\ DOMAIN assets' = DOMAIN assets \cup DOMAIN reqs[r].newAssets
         /\ \A a \in DOMAIN assets : assets'[a] = assets[a]
         /\ \A a \in DOMAIN reqs[r].newAssets : assets'[a] = reqs[r].newAssets[a]
         /\ \A p : p \notin DOMAIN reqs[r].writes =>
              /\ p \in DOMAIN balances' <=> p \in DOMAIN balances
              /\ p \in DOMAIN balances => balances'[p] = balances[p]
         /\ IsPut(reqs[r], assets, balances) => \A p \in DOMAIN reqs[r].writes :
              p \in DOMAIN balances' /\ balances'[p] = reqs[r].writes[p]
         /\ IsDelete(reqs[r], balances) => \A p \in DOMAIN reqs[r].writes :
              p \notin DOMAIN balances'
<1> DEFINE q == reqs[r]
           rows == SeenRows(r)
<1>1. q.pc \in {"flush", "end"} /\ (q.pc = "flush" => q.queue = <<>>) /\ r \in Active
  BY DEF Commit, At, Active
<1>2. Good(q, assets, balances, nextId)  BY <1>1 DEF MInv
<1>3. ~Adding(q) /\ NewIds(q) = DOMAIN q.newAssets
  BY <1>1 DEF Adding, NewIds
<1>4. /\ assets' = Seen(q, assets)
      /\ balances' = [p \in {x \in DOMAIN rows : rows[x] # Gone} |-> rows[p]]
  BY DEF Commit, SeenAssets, Seen
<1>5. /\ DOMAIN rows = DOMAIN q.writes \cup DOMAIN balances
      /\ \A p \in DOMAIN q.writes : rows[p] = q.writes[p]
      /\ \A p \in DOMAIN balances \ DOMAIN q.writes : rows[p] = balances[p]
  BY DEF SeenRows, Over
<1>6. Gone \notin Balance  BY ManualBalancesAssumption DEF Balance
<1>7. /\ DOMAIN assets' = DOMAIN assets \cup DOMAIN q.newAssets
      /\ \A a \in DOMAIN assets : assets'[a] = assets[a]
      /\ \A a \in DOMAIN q.newAssets : assets'[a] = q.newAssets[a]
  <2>1. \A a \in DOMAIN q.newAssets : a \notin DOMAIN assets
    BY <1>2, <1>3 DEF Good
  <2> QED  BY <1>4, <2>1 DEF Seen, Over
<1> HIDE DEF rows
<1>8. ASSUME NEW p, p \notin DOMAIN q.writes
      PROVE  /\ p \in DOMAIN balances' <=> p \in DOMAIN balances
             /\ p \in DOMAIN balances => balances'[p] = balances[p]
  BY <1>4, <1>5, <1>6, <1>8 DEF MInv, TablesInv
<1>9. ASSUME IsPut(q, assets, balances), NEW p \in DOMAIN q.writes
      PROVE  p \in DOMAIN balances' /\ balances'[p] = q.writes[p]
  <2>1. q.writes[p] \in Balance  BY <1>9 DEF IsPut, GoodWrite
  <2> QED  BY <1>4, <1>5, <1>6, <2>1
<1>10. ASSUME IsDelete(q, balances), NEW p \in DOMAIN q.writes PROVE p \notin DOMAIN balances'
  <2>1. q.writes[p] = Gone  BY <1>10 DEF IsDelete
  <2> QED  BY <1>4, <1>5, <2>1
<1> QED  BY <1>1, <1>2, <1>3, <1>4, <1>7, <1>8, <1>9, <1>10

LEMMA CommittedTables ==
  ASSUME MInv, NEW r \in Slots, Commit(r)
  PROVE  TablesInv'
<1> DEFINE q == reqs[r]
<1>1. nextId' = nextId /\ wallets' = wallets /\ TablesInv  BY DEF Commit, MInv
<1>2. \A a \in DOMAIN assets' : a \in Nat /\ a < nextId'
  BY <1>1, Committed DEF TablesInv, Good
<1>3. \A a, b \in DOMAIN assets' : assets'[a] = assets'[b] => a = b
  BY Committed DEF Good, Names
<1>4. ASSUME NEW p \in DOMAIN balances'
      PROVE  p \in wallets \X (DOMAIN assets') /\ balances'[p] \in Balance
  <2>1. CASE p \notin DOMAIN q.writes
    <3>1. p \in DOMAIN balances /\ balances'[p] = balances[p]  BY <1>4, <2>1, Committed
    <3> QED  BY <1>1, <3>1, Committed DEF TablesInv
  <2>2. CASE p \in DOMAIN q.writes
    <3>1. IsPut(q, assets, balances)  BY <1>4, <2>2, Committed DEF Good
    <3>2. GoodWrite(q, assets, balances, p) /\ balances'[p] = q.writes[p]
      BY <2>2, <3>1, Committed DEF IsPut
    <3>3. p[1] \in wallets /\ Wanted(q, assets) \subseteq DOMAIN assets'
      BY <2>2, Committed DEF MInv, Alive, Wanted
    <3> QED  BY <3>2, <3>3 DEF GoodWrite
  <2> QED  BY <2>1, <2>2
<1> QED  BY <1>1, <1>2, <1>3, <1>4 DEF TablesInv

(* The transactions of the others go on.                                    *)
LEMMA CommittedOthers ==
  ASSUME MInv, NEW r \in Slots, Commit(r), NEW t \in Active \ {r}, NEW t2,
         DOMAIN t2 = DOMAIN reqs[t],
         \A f \in DOMAIN reqs[t] \ {"moved"} : t2[f] = reqs[t][f]
  PROVE  /\ Good(t2, assets', balances', nextId')
         /\ NewIds(t2) = NewIds(reqs[t])
         /\ t2.newAssets = reqs[t].newAssets /\ t2.writes = reqs[t].writes
         /\ t2.pc = reqs[t].pc
<1> DEFINE q == reqs[r]
           u == reqs[t]
<1>1. Good(u, assets, balances, nextId) /\ IsSession(u)  BY DEF MInv, Good
<1>2. Apart(q, u)  BY Committed DEF MInv
<1>3. /\ t2.op = u.op /\ t2.wallet = u.wallet /\ t2.i = u.i /\ t2.asset = u.asset
      /\ t2.pc = u.pc /\ t2.next = u.next /\ t2.newAssets = u.newAssets
      /\ t2.writes = u.writes /\ t2.updates = u.updates /\ t2.inserts = u.inserts
      /\ t2.queue = u.queue /\ ("items" \in DOMAIN u => t2.items = u.items)
  BY <1>1 DEF IsSession, Fields
<1>4. Adding(u) => IsPut(u, assets, balances)  BY <1>1 DEF Good, IsDelete, Adding
<1>5. "items" \in DOMAIN u => KeyOf(ItemOf(t2)) = KeyOf(ItemOf(u))  BY <1>3 DEF ItemOf
<1>6. Adding(t2) <=> Adding(u)
  <2>1. CASE IsPut(u, assets, balances)
    <3>1. KeyOf(ItemOf(t2)) = KeyOf(ItemOf(u))  BY <1>5, <2>1 DEF IsPut
    <3> QED  BY <1>3, <3>1 DEF Adding
  <2>2. CASE IsDelete(u, balances)
    BY <1>3, <2>2 DEF Adding, IsDelete
  <2> QED  BY <1>1, <2>1, <2>2 DEF Good
<1>7. NewIds(t2) = NewIds(u)  BY <1>3, <1>6 DEF NewIds
<1>8. /\ DOMAIN Seen(u, assets) \subseteq DOMAIN Seen(t2, assets')
      /\ \A a \in DOMAIN Seen(u, assets) : Seen(t2, assets')[a] = Seen(u, assets)[a]
  BY <1>3, Committed DEF Seen, Over
<1>9. \A a \in NewIds(u) : a \in Nat /\ a < nextId' /\ a \notin DOMAIN assets'
  <2>1. nextId' = nextId  BY DEF Commit
  <2>2. \A a \in NewIds(u) : a \in Nat /\ a < nextId /\ a \notin DOMAIN assets
    BY <1>1 DEF Good
  <2>3. \A a \in NewIds(u) : a \notin DOMAIN q.newAssets
    BY <1>2, Committed DEF Apart
  <2> QED  BY <2>1, <2>2, <2>3, Committed
<1>10. Names(t2, assets')
  <2> DEFINE S == Seen(t2, assets')
  <2>1. DOMAIN S = DOMAIN u.newAssets \cup DOMAIN assets \cup DOMAIN q.newAssets
    BY <1>3, Committed DEF Seen, Over
  <2>2. \A a \in DOMAIN u.newAssets : S[a] = u.newAssets[a]
    BY <1>3 DEF Seen, Over
  <2>0. /\ DOMAIN assets' = DOMAIN assets \cup DOMAIN q.newAssets
        /\ \A a \in DOMAIN assets : assets'[a] = assets[a]
        /\ \A a \in DOMAIN q.newAssets : assets'[a] = q.newAssets[a]
    BY Committed
  <2>3. \A a \in DOMAIN u.newAssets : a \notin DOMAIN assets /\ a \notin DOMAIN q.newAssets
    BY <1>9, <2>0 DEF NewIds
  <2>4. \A a \in DOMAIN assets : S[a] = assets[a]
    BY <1>3, <2>3, Committed DEF Seen, Over
  <2>5. \A a \in DOMAIN q.newAssets : S[a] = q.newAssets[a]
    BY <1>3, <2>0, <2>3 DEF Seen, Over
  <2>6. \A a, b \in DOMAIN u.newAssets \cup DOMAIN assets : S[a] = S[b] => a = b
    <3>1. Names(u, assets)  BY <1>1 DEF Good
    <3>2. DOMAIN Seen(u, assets) = DOMAIN u.newAssets \cup DOMAIN assets
      BY DEF Seen, Over
    <3> QED  BY <1>8, <3>1, <3>2 DEF Names
  <2>7. \A a, b \in DOMAIN q.newAssets \cup DOMAIN assets : S[a] = S[b] => a = b
    <3>1. Names(q, assets) /\ Seen(q, assets) = assets'  BY Committed DEF Good
    <3>2. DOMAIN assets' = DOMAIN q.newAssets \cup DOMAIN assets
          /\ \A a \in DOMAIN assets' : S[a] = assets'[a]
      BY <2>4, <2>5, Committed
    <3> QED  BY <3>1, <3>2 DEF Names
  <2>8. \A a \in DOMAIN q.newAssets, b \in DOMAIN u.newAssets : S[a] # S[b]
    BY <1>2, <2>2, <2>5 DEF Apart
  <2> HIDE DEF S
  <2>9. \A a, b \in DOMAIN S : S[a] = S[b] => a = b  BY <2>1, <2>6, <2>7, <2>8
  <2> QED  BY <2>9 DEF Names, S
<1>11. \A p \in DOMAIN u.writes :
         /\ p \in DOMAIN balances <=> p \in DOMAIN balances'
         /\ p \in DOMAIN balances => balances'[p] = balances[p]
  <2>1. \A p \in DOMAIN u.writes : p \notin DOMAIN q.writes  BY <1>2 DEF Apart
  <2> QED  BY <2>1, Committed
<1>12. IsPut(t2, assets', balances') \/ IsDelete(t2, balances')
  <2>1. CASE IsPut(u, assets, balances)
    <3>1. "items" \in DOMAIN u /\ t2.items = u.items  BY <1>3, <2>1 DEF IsPut
    <3>2. Rows(t2) = Rows(u)  BY <1>3, <3>1 DEF Rows, PutOf, Items
    <3>3. /\ Statements(u, assets) \subseteq Statements(t2, assets')
          /\ \A p \in DOMAIN u.writes :
               GoodWrite(u, assets, balances, p) => GoodWrite(t2, assets', balances', p)
      <4> HIDE DEF u
      <4>1. /\ Statements(u, assets) \subseteq Statements(t2, assets')
            /\ \A p : (/\ GoodWrite(u, assets, balances, p) /\ t2.writes[p] = u.writes[p]
                       /\ p \in DOMAIN balances <=> p \in DOMAIN balances'
                       /\ p \in DOMAIN balances => balances'[p] = balances[p])
                        => GoodWrite(t2, assets', balances', p)
        BY <1>3, <1>8, <3>2, Grown
      <4> QED  BY <1>3, <1>11, <4>1
    <3>4. /\ t2.updates \subseteq Statements(t2, assets') /\ IsFiniteSet(t2.updates)
          /\ t2.inserts \in Seq(Statements(t2, assets'))
      BY <1>3, <2>1, <3>3, SeqMonotonic DEF IsPut
    <3>5. \/ Adding(t2) /\ Tail(t2.queue) \in Seq(Statements(t2, assets'))
          \/ t2.queue \in Seq(Statements(t2, assets'))
      BY <1>3, <1>6, <2>1, <3>3, SeqMonotonic DEF IsPut
    <3>6. \A p \in DOMAIN t2.writes : GoodWrite(t2, assets', balances', p)
      BY <1>3, <2>1, <3>3 DEF IsPut
    <3>7. KeyOf(ItemOf(t2)) = KeyOf(ItemOf(u))  BY <1>5, <3>1
    <3>8. \E x \in Requests : x.op = "put" /\ x.wallet = t2.wallet /\ x.items = t2.items
      BY <1>3, <2>1, <3>1 DEF IsPut
    <3>9. IsPut(t2, assets', balances')
      BY <1>3, <1>6, <1>8, <2>1, <3>1, <3>4, <3>5, <3>6, <3>7, <3>8 DEF IsPut
    <3> QED  BY <3>9
  <2>2. CASE IsDelete(u, balances)
    <3>1. IsDelete(t2, balances')  BY <1>3, <1>11, <2>2 DEF IsDelete
    <3> QED  BY <3>1
  <2> QED  BY <1>1, <2>1, <2>2 DEF Good
<1>13. IsSession(t2)  BY <1>1, <1>3 DEF IsSession
<1>14. Adding(t2) => t2.asset \notin DOMAIN t2.newAssets  BY <1>1, <1>3, <1>6 DEF Good
<1>15. Good(t2, assets', balances', nextId')
  BY <1>7, <1>9, <1>10, <1>12, <1>13, <1>14 DEF Good
<1> QED  BY <1>3, <1>7, <1>15

LEMMA CommitStep ==
  ASSUME MInv, NEW r \in Slots, Commit(r)
  PROVE  MInv'
<1> DEFINE with(s) == [reqs[s] EXCEPT !.moved = reqs[s].moved \cup Locked(r)]
<1>1. /\ reqs' = [s \in Slots |-> reqs'[s]]
      /\ reqs'[r].pc \in {"read", "done"}
      /\ \A s \in Active \ {r} : reqs'[s] = with(s)
      /\ \A s \in Slots \ Active : s # r => reqs'[s] = reqs[s]
  BY DEF Commit, Done, Active
<1>2. ASSUME NEW s \in Active \ {r}
      PROVE  /\ DOMAIN with(s) = DOMAIN reqs[s]
             /\ \A f \in DOMAIN reqs[s] \ {"moved"} : with(s)[f] = reqs[s][f]
  OBVIOUS
<1> HIDE DEF with
<1>3. Active' \subseteq Active \ {r}  BY <1>1 DEF Active
<1>4. ASSUME NEW s \in Active \ {r}
      PROVE  /\ Good(reqs'[s], assets', balances', nextId')
             /\ NewIds(reqs'[s]) = NewIds(reqs[s])
             /\ reqs'[s].newAssets = reqs[s].newAssets /\ reqs'[s].writes = reqs[s].writes
  <2>1. reqs'[s] = with(s)  BY <1>1
  <2> QED  BY <1>2, <2>1, CommittedOthers
<1>5. \A s, t \in Active' : s # t => Apart(reqs'[s], reqs'[t])
  <2> SUFFICES ASSUME NEW s \in Active', NEW t \in Active', s # t
               PROVE  Apart(reqs'[s], reqs'[t])
    OBVIOUS
  <2>1. s \in Active \ {r} /\ t \in Active \ {r} /\ Apart(reqs[s], reqs[t])
    BY <1>3 DEF MInv
  <2> QED  BY <1>4, <2>1 DEF Apart
<1>6. TablesInv'  BY CommittedTables
<1>7. \A s \in Active' : Alive(reqs'[s], wallets')
  BY <1>3, <1>4 DEF Commit, MInv, Alive
<1> QED  BY <1>1, <1>3, <1>4, <1>5, <1>6, <1>7 DEF MInv

------------------------------------------------------------------------------
(* Merges *)

(* A session goes on over balances that are as they were where it wrote.    *)
LEMMA Undisturbed ==
  ASSUME NEW u, NEW as, NEW bs, NEW n, Good(u, as, bs, n), NEW t, DOMAIN t = DOMAIN u,
         \A f \in DOMAIN u \ {"moved"} : t[f] = u[f],
         NEW bs2, \A p \in DOMAIN u.writes : /\ p \in DOMAIN bs <=> p \in DOMAIN bs2
                                             /\ p \in DOMAIN bs => bs2[p] = bs[p]
  PROVE  /\ Good(t, as, bs2, n) /\ NewIds(t) = NewIds(u)
         /\ t.newAssets = u.newAssets /\ t.writes = u.writes
<1>1. /\ t.op = u.op /\ t.wallet = u.wallet /\ t.i = u.i /\ t.asset = u.asset
      /\ t.pc = u.pc /\ t.next = u.next /\ t.newAssets = u.newAssets
      /\ t.writes = u.writes /\ t.updates = u.updates /\ t.inserts = u.inserts
      /\ t.queue = u.queue /\ ("items" \in DOMAIN u => t.items = u.items)
  BY DEF Good, IsSession, Fields
<1>2. Adding(u) => IsPut(u, as, bs)  BY DEF Good, IsDelete, Adding
<1>3. "items" \in DOMAIN u => KeyOf(ItemOf(t)) = KeyOf(ItemOf(u))  BY <1>1 DEF ItemOf
<1>4. Adding(t) <=> Adding(u)
  <2>1. CASE IsPut(u, as, bs)
    BY <1>1, <1>3, <2>1 DEF Adding, IsPut
  <2>2. CASE IsDelete(u, bs)
    BY <1>1, <2>2 DEF Adding, IsDelete
  <2> QED  BY <2>1, <2>2 DEF Good
<1>5. NewIds(t) = NewIds(u)  BY <1>1, <1>4 DEF NewIds
<1>6. Seen(t, as) = Seen(u, as)  BY <1>1 DEF Seen
<1>7. IsPut(t, as, bs2) \/ IsDelete(t, bs2)
  <2>1. CASE IsPut(u, as, bs)
    <3>1. "items" \in DOMAIN u /\ t.items = u.items  BY <1>1, <2>1 DEF IsPut
    <3>2. /\ Seen(t, as) = Seen(u, as) /\ Wanted(t, as) = Wanted(u, as)
          /\ Statements(t, as) = Statements(u, as) /\ Rows(t) = Rows(u)
      BY <1>1, <3>1, SameBody
    <3>3. \A p \in DOMAIN t.writes : GoodWrite(t, as, bs2, p)
      <4>1. \A p \in DOMAIN u.writes : GoodWrite(u, as, bs, p)  BY <2>1 DEF IsPut
      <4>2. \A p : (/\ GoodWrite(u, as, bs, p) /\ t.writes[p] = u.writes[p]
                    /\ p \in DOMAIN bs <=> p \in DOMAIN bs2
                    /\ p \in DOMAIN bs => bs2[p] = bs[p])
                    => GoodWrite(t, as, bs2, p)
        BY <1>1, <3>2, Grown
      <4> QED  BY <1>1, <4>1, <4>2
    <3>4. \E x \in Requests : x.op = "put" /\ x.wallet = t.wallet /\ x.items = t.items
      BY <1>1, <2>1, <3>1 DEF IsPut
    <3>5. KeyOf(ItemOf(t)) = KeyOf(ItemOf(u))  BY <1>3, <3>1
    <3>6. IsPut(t, as, bs2)
      BY <1>1, <1>4, <2>1, <3>1, <3>2, <3>3, <3>4, <3>5 DEF IsPut
    <3> QED  BY <3>6
  <2>2. CASE IsDelete(u, bs)
    <3>1. \A p \in DOMAIN u.writes :
            p = <<u.wallet, u.asset>> /\ p \in DOMAIN bs2 /\ u.writes[p] = Gone
      BY <2>2 DEF IsDelete
    <3>2. \A p \in DOMAIN t.writes :
            p = <<t.wallet, t.asset>> /\ p \in DOMAIN bs2 /\ t.writes[p] = Gone
      BY <1>1, <3>1
    <3>3. IsDelete(t, bs2)  BY <1>1, <2>2, <3>2 DEF IsDelete
    <3> QED  BY <3>3
  <2> QED  BY <2>1, <2>2 DEF Good
<1>8. IsSession(t)  BY <1>1 DEF Good, IsSession
<1> QED  BY <1>1, <1>4, <1>5, <1>6, <1>7, <1>8 DEF Good, Names

(* What a merge does to the tables and to the sessions.                     *)
LEMMA MergeDoes ==
  ASSUME MInv, NEW u, Merge(u)
  PROVE  /\ reqs' = [s \in Slots |-> reqs'[s]] /\ Active' = Active
         /\ UNCHANGED <<assets, nextId>> /\ wallets' = wallets \ WalletsOf(u)
         /\ \A p : p \in DOMAIN balances' <=> p \in DOMAIN balances /\ p[1] \notin WalletsOf(u)
         /\ \A p \in DOMAIN balances' : balances'[p] = balances[p]
         /\ \A s \in Slots \ Active : reqs'[s] = reqs[s]
         /\ \A s \in Active :
              /\ DOMAIN reqs'[s] = DOMAIN reqs[s]
              /\ \A f \in DOMAIN reqs[s] \ {"moved"} : reqs'[s][f] = reqs[s][f]
              /\ reqs'[s].moved = reqs[s].moved
                   \cup {<<"row", p>> : p \in {x \in DOMAIN balances : x[1] \in WalletsOf(u)}}
                   \cup {<<"wallet", w>> : w \in WalletsOf(u)}
              /\ \A p \in DOMAIN reqs[s].writes : p[1] \notin WalletsOf(u)
<1> DEFINE gone == {x \in DOMAIN balances : x[1] \in WalletsOf(u)}
           more == {<<"row", p>> : p \in gone} \cup {<<"wallet", w>> : w \in WalletsOf(u)}
           with(s) == [reqs[s] EXCEPT !.moved = reqs[s].moved \cup more]
<1>1. /\ UNCHANGED <<assets, nextId>> /\ wallets' = wallets \ WalletsOf(u)
      /\ balances' = [p \in DOMAIN balances \ gone |-> balances[p]]
      /\ \A r \in Active : WrittenOf(r, u) = {}
  BY DEF Merge
<1>2. reqs' = [s \in Slots |-> IF s \in Active THEN with(s) ELSE reqs[s]]
  <2>1. \A s : with(s) = [reqs[s] EXCEPT !.moved = @ \cup {<<"row", p>> : p \in gone}
                            \cup {<<"wallet", w>> : w \in WalletsOf(u)}]
    OBVIOUS
  <2> HIDE DEF with
  <2> QED  BY <2>1 DEF Merge
<1> HIDE DEF more
<1>3. ASSUME NEW s \in Active
      PROVE  /\ DOMAIN with(s) = DOMAIN reqs[s] /\ with(s).pc = reqs[s].pc
             /\ \A f \in DOMAIN reqs[s] \ {"moved"} : with(s)[f] = reqs[s][f]
             /\ with(s).moved = reqs[s].moved \cup more
  <2>1. {"pc", "moved"} \subseteq DOMAIN reqs[s]  BY DEF MInv, Good, IsSession, Fields
  <2> QED  BY <2>1
<1> HIDE DEF with
<1>4. Active \subseteq Slots  BY DEF Active
<1>5. Active' = Active
  <2>1. \A s \in Slots : s \in Active' <=> reqs'[s].pc \notin {"idle", "read", "done"}
    BY DEF Active
  <2>2. \A s \in Slots : s \in Active <=> reqs[s].pc \notin {"idle", "read", "done"}
    BY DEF Active
  <2>3. \A s \in Slots : reqs'[s].pc = reqs[s].pc  BY <1>2, <1>3
  <2>4. Active' \subseteq Slots  BY DEF Active
  <2> QED  BY <1>4, <2>1, <2>2, <2>3, <2>4
<1>6. ASSUME NEW s \in Active, NEW p \in DOMAIN reqs[s].writes PROVE p[1] \notin WalletsOf(u)
  BY <1>1 DEF WrittenOf, WalletsOf
<1>7. /\ \A p : p \in DOMAIN balances' <=> p \in DOMAIN balances /\ p[1] \notin WalletsOf(u)
      /\ \A p \in DOMAIN balances' : balances'[p] = balances[p]
  BY <1>1
<1>8. ASSUME NEW s \in Active
      PROVE  /\ DOMAIN reqs'[s] = DOMAIN reqs[s]
             /\ \A f \in DOMAIN reqs[s] \ {"moved"} : reqs'[s][f] = reqs[s][f]
             /\ reqs'[s].moved = reqs[s].moved \cup more
  BY <1>2, <1>3, <1>4
<1>9. reqs' = [s \in Slots |-> reqs'[s]] /\ \A s \in Slots \ Active : reqs'[s] = reqs[s]
  BY <1>2
<1> QED  BY <1>1, <1>5, <1>6, <1>7, <1>8, <1>9 DEF more

LEMMA MergeStep ==
  ASSUME MInv, NEW u, Merge(u)
  PROVE  MInv'
<1>1. ASSUME NEW s \in Active
      PROVE  /\ Good(reqs'[s], assets', balances', nextId')
             /\ NewIds(reqs'[s]) = NewIds(reqs[s])
             /\ reqs'[s].newAssets = reqs[s].newAssets /\ reqs'[s].writes = reqs[s].writes
             /\ Alive(reqs'[s], wallets')
  <2>1. Good(reqs[s], assets, balances, nextId) /\ Alive(reqs[s], wallets)  BY DEF MInv
  <2>2. /\ DOMAIN reqs'[s] = DOMAIN reqs[s]
        /\ \A f \in DOMAIN reqs[s] \ {"moved"} : reqs'[s][f] = reqs[s][f]
        /\ \A p \in DOMAIN reqs[s].writes : p[1] \notin WalletsOf(u)
        /\ UNCHANGED <<assets, nextId>> /\ wallets' = wallets \ WalletsOf(u)
        /\ \A p : p \in DOMAIN balances' <=> p \in DOMAIN balances /\ p[1] \notin WalletsOf(u)
        /\ \A p \in DOMAIN balances' : balances'[p] = balances[p]
    BY MergeDoes
  <2>3. \A p \in DOMAIN reqs[s].writes : /\ p \in DOMAIN balances <=> p \in DOMAIN balances'
                                         /\ p \in DOMAIN balances => balances'[p] = balances[p]
    BY <2>2
  <2>4. /\ Good(reqs'[s], assets, balances', nextId) /\ NewIds(reqs'[s]) = NewIds(reqs[s])
        /\ reqs'[s].newAssets = reqs[s].newAssets /\ reqs'[s].writes = reqs[s].writes
    BY <2>1, <2>2, <2>3, Undisturbed
  <2> QED  BY <2>1, <2>2, <2>4 DEF Alive
<1>2. reqs' = [s \in Slots |-> reqs'[s]] /\ Active' = Active  BY MergeDoes
<1>3. \A s, t \in Active' : s # t => Apart(reqs'[s], reqs'[t])
  <2> SUFFICES ASSUME NEW s \in Active', NEW t \in Active', s # t
               PROVE  Apart(reqs'[s], reqs'[t])
    OBVIOUS
  <2>1. s \in Active /\ t \in Active /\ Apart(reqs[s], reqs[t])  BY <1>2 DEF MInv
  <2> QED  BY <1>1, <2>1 DEF Apart
<1>4. TablesInv'
  <2>1. /\ UNCHANGED <<assets, nextId>> /\ wallets' = wallets \ WalletsOf(u)
        /\ \A p : p \in DOMAIN balances' <=> p \in DOMAIN balances /\ p[1] \notin WalletsOf(u)
        /\ \A p \in DOMAIN balances' : balances'[p] = balances[p]
    BY MergeDoes
  <2>2. ASSUME NEW p \in DOMAIN balances'
        PROVE  p \in wallets' \X (DOMAIN assets') /\ balances'[p] \in Balance
    BY <2>1 DEF MInv, TablesInv
  <2> QED  BY <2>1, <2>2 DEF MInv, TablesInv
<1> QED  BY <1>1, <1>2, <1>3, <1>4 DEF MInv

------------------------------------------------------------------------------
(* The invariant *)

LEMMA InitInv == Init => MInv
<1> SUFFICES ASSUME Init PROVE MInv
  OBVIOUS
<1>1. Active = {} /\ reqs = [r \in Slots |-> reqs[r]]  BY DEF Init, Active, Idle
<1>2. PICK d \in Databases : assets = d.assets /\ balances = d.balances  BY DEF Init
<1>3. /\ IsFiniteSet(DOMAIN assets)
      /\ DOMAIN assets = 1 .. Cardinality(DOMAIN assets)
      /\ \A a, b \in DOMAIN assets : assets[a] = assets[b] => a = b
      /\ DOMAIN balances \subseteq wallets \X (DOMAIN assets) /\ wallets = DOMAIN Owner
      /\ \A p \in DOMAIN balances : balances[p] \in Balance
  BY <1>2, ManualBalancesAssumption DEF Init
<1> DEFINE n == Cardinality(DOMAIN assets)
<1>4. n \in Nat /\ nextId = n + 1  BY <1>3, FS_CardinalityType DEF Init
<1>5. DOMAIN assets = 1 .. n  BY <1>3
<1> HIDE DEF n
<1>6. nextId \in Nat /\ \A a \in DOMAIN assets : a \in Nat /\ a < nextId
  BY <1>4, <1>5
<1> QED  BY <1>1, <1>3, <1>6 DEF MInv, TablesInv

LEMMA NextStep == MInv /\ [Next]_vars => MInv'
<1> SUFFICES ASSUME MInv, [Next]_vars PROVE MInv'
  OBVIOUS
<1>1. ASSUME NEW r \in Slots, NEW q \in Requests, Start(r, q) PROVE MInv'
  BY <1>1, StartStep
<1>2. ASSUME NEW r \in Slots, Step(r) PROVE MInv'
  <2>1. CASE Load(r)  BY <2>1, LoadStep
  <2>2. CASE FindAsset(r)  BY <2>2, FindAssetStep
  <2>3. CASE FindBalance(r)  BY <2>3, FindBalanceStep
  <2>4. CASE FindRow(r)  BY <2>4, FindRowStep
  <2>5. CASE Execute(r)
    BY <2>5, InsertAssetStep, UpdateRowStep, InsertRowStep, DeleteRowStep, FailStep
       DEF Execute, Executing, Refuse
  <2>6. CASE BreakCircle(r)  BY <2>6, FailStep DEF BreakCircle
  <2>7. CASE Commit(r)  BY <2>7, CommitStep
  <2>8. CASE ReadBack(r)
    <3>1. PICK code : reqs' = [reqs EXCEPT ![r] = Done(code)] /\ UNCHANGED <<tables, nextId>>
      BY <2>8 DEF ReadBack, MInv
    <3> QED  BY <3>1, FailStep DEF Fail
  <2> QED  BY <1>2, <2>1, <2>2, <2>3, <2>4, <2>5, <2>6, <2>7, <2>8 DEF Step
<1>3. CASE UNCHANGED vars
  BY <1>3 DEF vars, MInv, TablesInv, Active
<1>4. ASSUME NEW u \in Merged, Merge(u) PROVE MInv'  BY <1>4, MergeStep
<1> QED  BY <1>1, <1>2, <1>3, <1>4 DEF Next

LEMMA Invariance == Spec => []MInv
BY InitInv, NextStep, PTL DEF Spec

------------------------------------------------------------------------------
(* The book *)

BookOf(as, bs, ws) ==
  [w \in ws |->
     LET mine == {p \in DOMAIN bs : p[1] = w}
     IN  [k \in {as[p[2]] : p \in mine} |-> bs[CHOOSE p \in mine : as[p[2]] = k]]]

(* Both tables hold together.                                               *)
Sound(as, bs) ==
  /\ \A a, b \in DOMAIN as : as[a] = as[b] => a = b
  /\ DOMAIN bs \subseteq (DOMAIN Owner) \X (DOMAIN as)

(* The page of wallet w: one row is the balance of one asset.               *)
IsPage(B, as, bs, w) ==
  /\ B = [k \in DOMAIN B |-> B[k]]
  /\ \A k \in DOMAIN B : \E a \in DOMAIN as : <<w, a>> \in DOMAIN bs /\ as[a] = k
  /\ \A a \in DOMAIN as : <<w, a>> \in DOMAIN bs =>
       as[a] \in DOMAIN B /\ B[as[a]] = bs[<<w, a>>]

LEMMA BookRows ==
  ASSUME NEW as, NEW bs, Sound(as, bs), NEW ws, NEW w \in ws
  PROVE  IsPage(BookOf(as, bs, ws)[w], as, bs, w)
<1> USE DEF Sound
<1> DEFINE mine == {p \in DOMAIN bs : p[1] = w}
           keys == {as[p[2]] : p \in mine}
           row(k) == bs[CHOOSE p \in mine : as[p[2]] = k]
           page == [k \in keys |-> row(k)]
<1>1. BookOf(as, bs, ws)[w] = page  BY DEF BookOf
<1> HIDE DEF keys, row
<1>2. page = [k \in DOMAIN page |-> page[k]] /\ DOMAIN page = keys  OBVIOUS
<1>3. \A k \in DOMAIN page : page[k] = row(k)  OBVIOUS
<1> HIDE DEF page
<1>4. ASSUME NEW p \in mine PROVE p[2] \in DOMAIN as /\ p = <<w, p[2]>>
  <2>1. p \in (DOMAIN Owner) \X (DOMAIN as)  BY <1>4
  <2>2. p[1] = w  BY <1>4
  <2> HIDE DEF mine
  <2>3. p[2] \in DOMAIN as  BY <2>1
  <2>4. p = <<p[1], p[2]>>  BY <2>1
  <2> QED  BY <2>2, <2>3, <2>4
<1>5. ASSUME NEW a, <<w, a>> \in DOMAIN bs
      PROVE  \E p \in mine : p = <<w, a>> /\ p[2] = a
  <2>1. PICK p \in DOMAIN bs : p = <<w, a>>  BY <1>5
  <2>2. p[1] = w /\ p[2] = a  BY <2>1
  <2>3. p \in mine  BY <2>2
  <2> QED  BY <2>1, <2>2, <2>3
<1> HIDE DEF mine
<1>6. ASSUME NEW a \in DOMAIN as, <<w, a>> \in DOMAIN bs
      PROVE  as[a] \in DOMAIN page /\ page[as[a]] = bs[<<w, a>>]
  <2>1. PICK z \in mine : z = <<w, a>> /\ z[2] = a  BY <1>5, <1>6
  <2>2. as[a] \in DOMAIN page
    <3>1. as[z[2]] \in keys  BY DEF keys
    <3> QED  BY <1>2, <2>1, <3>1
  <2> DEFINE p == CHOOSE x \in mine : as[x[2]] = as[a]
  <2>3. p \in mine /\ as[p[2]] = as[a]  BY <2>1
  <2>4. page[as[a]] = bs[p]  BY <1>3, <2>2 DEF row
  <2> HIDE DEF p
  <2>5. p[2] = a  BY <1>4, <1>6, <2>3
  <2>6. p = <<w, a>>
    <3>1. p = <<w, p[2]>>  BY <1>4, <2>3
    <3> QED  BY <2>5, <3>1
  <2> QED  BY <2>2, <2>4, <2>6
<1>7. ASSUME NEW k \in DOMAIN page
      PROVE  \E a \in DOMAIN as : <<w, a>> \in DOMAIN bs /\ as[a] = k
  <2>1. PICK p \in mine : k = as[p[2]]  BY <1>2 DEF keys
  <2>2. p \in DOMAIN bs  BY DEF mine
  <2>3. p[2] \in DOMAIN as /\ p = <<w, p[2]>>  BY <1>4
  <2>4. <<w, p[2]>> \in DOMAIN bs  BY <2>2, <2>3
  <2> WITNESS p[2] \in DOMAIN as
  <2> QED  BY <2>1, <2>4
<1>8. IsPage(page, as, bs, w)  BY <1>2, <1>6, <1>7 DEF IsPage
<1> QED  BY <1>1, <1>8

(* In wallet w, assets are added and the balances of the assets X alone     *)
(* change.                                                                  *)
Untouched(as, bs, as2, bs2, w, X) ==
  /\ DOMAIN as \subseteq DOMAIN as2 /\ \A a \in DOMAIN as : as2[a] = as[a]
  /\ X \subseteq DOMAIN as2
  /\ \A a \in DOMAIN as2 \ X :
       /\ <<w, a>> \in DOMAIN bs2 <=> <<w, a>> \in DOMAIN bs
       /\ <<w, a>> \in DOMAIN bs => bs2[<<w, a>>] = bs[<<w, a>>]

(* Its page keeps the rest.                                                 *)
KeepsPage(B, B2, as2, X) ==
  /\ \A k : (\A a \in X : as2[a] # k) =>
       /\ k \in DOMAIN B2 <=> k \in DOMAIN B
       /\ k \in DOMAIN B => B2[k] = B[k]
  /\ X = {} => B2 = B

LEMMA Pages ==
  ASSUME NEW as, NEW bs, NEW as2, NEW bs2, NEW w, NEW X, NEW B, NEW B2,
         Sound(as, bs), IsPage(B, as, bs, w), IsPage(B2, as2, bs2, w),
         Untouched(as, bs, as2, bs2, w, X)
  PROVE  KeepsPage(B, B2, as2, X)
<1>1. ASSUME NEW a, <<w, a>> \in DOMAIN bs PROVE a \in DOMAIN as
  BY <1>1 DEF Sound
<1>2. ASSUME NEW k \in DOMAIN B, \A a \in X : as2[a] # k
      PROVE  k \in DOMAIN B2 /\ B2[k] = B[k]
  <2>1. PICK a \in DOMAIN as : <<w, a>> \in DOMAIN bs /\ as[a] = k  BY DEF IsPage
  <2>2. a \in DOMAIN as2 \ X /\ as2[a] = k  BY <1>2, <2>1 DEF Untouched
  <2>3. <<w, a>> \in DOMAIN bs2 /\ bs2[<<w, a>>] = bs[<<w, a>>]
    BY <2>1, <2>2 DEF Untouched
  <2>4. as[a] \in DOMAIN B /\ B[as[a]] = bs[<<w, a>>]  BY <2>1 DEF IsPage
  <2>5. as2[a] \in DOMAIN B2 /\ B2[as2[a]] = bs2[<<w, a>>]  BY <2>2, <2>3 DEF IsPage
  <2> QED  BY <2>1, <2>2, <2>3, <2>4, <2>5
<1>3. ASSUME NEW k \in DOMAIN B2, \A a \in X : as2[a] # k
      PROVE  k \in DOMAIN B
  <2>1. PICK a \in DOMAIN as2 : <<w, a>> \in DOMAIN bs2 /\ as2[a] = k  BY DEF IsPage
  <2>2. <<w, a>> \in DOMAIN bs  BY <1>3, <2>1 DEF Untouched
  <2>3. a \in DOMAIN as /\ as[a] = k  BY <1>1, <2>1, <2>2 DEF Untouched
  <2> QED  BY <2>2, <2>3 DEF IsPage
<1>4. ASSUME X = {} PROVE B2 = B
  <2>1. DOMAIN B2 = DOMAIN B /\ \A k \in DOMAIN B : B2[k] = B[k]
    BY <1>2, <1>3, <1>4
  <2> QED  BY <2>1 DEF IsPage
<1> QED  BY <1>2, <1>3, <1>4 DEF KeepsPage

LEMMA BookIs ==
  /\ Book = BookOf(assets, balances, wallets) /\ Book' = BookOf(assets', balances', wallets')
  /\ Book = [v \in wallets |-> Book[v]] /\ Book' = [v \in wallets' |-> Book'[v]]
BY DEF Book, BookOf

(* What a commit writes, it writes in the request's own wallet, whose page  *)
(* keeps the rest, as all others do.                                        *)
WrittenAssets(r) == {a \in DOMAIN assets' : <<reqs[r].wallet, a>> \in DOMAIN reqs[r].writes}

LEMMA CommittedPages ==
  ASSUME MInv, NEW r \in Slots, Commit(r)
  PROVE  /\ wallets' = wallets
         /\ Sound(assets, balances) /\ Sound(assets', balances')
         /\ \A v \in wallets : IsPage(Book[v], assets, balances, v)
         /\ \A v \in wallets : IsPage(Book'[v], assets', balances', v)
         /\ \A v \in wallets : v # reqs[r].wallet => Book'[v] = Book[v]
         /\ reqs[r].wallet \in wallets =>
              KeepsPage(Book[reqs[r].wallet], Book'[reqs[r].wallet], assets', WrittenAssets(r))
         /\ reqs[r].wallet \notin wallets => WrittenAssets(r) = {}
<1> DEFINE q == reqs[r]
           w == q.wallet
           X == WrittenAssets(r)
<1>1. Sound(assets, balances) /\ Sound(assets', balances')
  BY CommittedTables DEF MInv, TablesInv, Sound
<1>2. wallets' = wallets /\ DOMAIN assets \subseteq DOMAIN assets'
      /\ \A a \in DOMAIN assets : assets'[a] = assets[a]
  BY Committed DEF Commit
<1>3. \A p : p \notin DOMAIN q.writes =>
        /\ p \in DOMAIN balances' <=> p \in DOMAIN balances
        /\ p \in DOMAIN balances => balances'[p] = balances[p]
  BY Committed
<1>4. ASSUME NEW p \in DOMAIN q.writes PROVE \E b : p = <<w, b>>
  <2>1. Good(q, assets, balances, nextId)  BY Committed
  <2>2. CASE IsPut(q, assets, balances)
    <3>1. GoodWrite(q, assets, balances, p)  BY <2>2 DEF IsPut
    <3> QED  BY <3>1 DEF GoodWrite
  <2>3. CASE IsDelete(q, balances)
    <3>1. p = <<w, q.asset>>  BY <2>3 DEF IsDelete
    <3> QED  BY <3>1
  <2> QED  BY <2>1, <2>2, <2>3 DEF Good
<1>5. ASSUME NEW v \in wallets
      PROVE  IsPage(Book[v], assets, balances, v) /\ IsPage(Book'[v], assets', balances', v)
  <2>1. /\ IsPage(BookOf(assets, balances, wallets)[v], assets, balances, v)
        /\ IsPage(BookOf(assets', balances', wallets)[v], assets', balances', v)
    BY <1>1, BookRows
  <2> QED  BY <1>2, <2>1, BookIs
<1>6. ASSUME NEW v \in wallets, v # w PROVE Book'[v] = Book[v]
  <2>1. \A a : <<v, a>> \notin DOMAIN q.writes  BY <1>4, <1>6
  <2>2. Untouched(assets, balances, assets', balances', v, {})
    BY <1>2, <1>3, <2>1 DEF Untouched
  <2>3. KeepsPage(Book[v], Book'[v], assets', {})  BY <1>1, <1>5, <2>2, Pages
  <2> QED  BY <2>3 DEF KeepsPage
<1>7. ASSUME w \in wallets PROVE KeepsPage(Book[w], Book'[w], assets', X)
  <2>1. \A a \in DOMAIN assets' \ X : <<w, a>> \notin DOMAIN q.writes  BY DEF WrittenAssets
  <2>2. X \subseteq DOMAIN assets'  BY DEF WrittenAssets
  <2>3. Untouched(assets, balances, assets', balances', w, X)
    BY <1>2, <1>3, <2>1, <2>2 DEF Untouched
  <2> QED  BY <1>1, <1>2, <1>5, <1>7, <2>3, Pages
<1>8. ASSUME w \notin wallets PROVE X = {}
  <2>1. \A p \in DOMAIN q.writes : p[1] \in wallets  BY Committed DEF MInv, Alive
  <2> QED  BY <1>8, <2>1 DEF WrittenAssets
<1> QED  BY <1>1, <1>2, <1>5, <1>6, <1>7, <1>8

(* The commit of a PUT is a PUT of the book: of the assets it has written,  *)
(* in the columns it has changed.  One that has written nothing changes     *)
(* nothing, and its wallet may have gone.                                   *)
LEMMA NothingWritten ==
  ASSUME MInv, NEW r \in Slots, Commit(r), reqs[r].wallet \notin wallets
  PROVE  UNCHANGED Book
<1>1. \A v \in wallets : Book'[v] = Book[v]  BY CommittedPages
<1>2. wallets' = wallets  BY CommittedPages
<1> QED  BY <1>1, <1>2, BookIs

LEMMA PutCommits ==
  ASSUME MInv, NEW r \in Slots, Commit(r), IsPut(reqs[r], assets, balances),
         reqs[r].wallet \in wallets
  PROVE  \E x \in Requests : x.op = "put" /\ Abstract!Put(PutOf(x))
<1> DEFINE q == reqs[r]
           w == q.wallet
           X == WrittenAssets(r)
           P == PutOf(q)
           S == {assets'[a] : a \in X}
           old == Book[w]
           new == Book'[w]
           keep == [k \in S |-> {c \in Columns : new[k][c] = old[k][c]}]
           page == [k \in DOMAIN old \cup S |->
                      IF k \notin S THEN old[k]
                      ELSE IF k \in DOMAIN old
                        THEN [c \in Columns |-> IF c \in keep[k] THEN old[k][c]
                                                ELSE P.rows[k][c]]
                      ELSE P.rows[k]]
<1>1. PICK x \in Requests : x.op = "put" /\ x.wallet = w /\ x.items = q.items
  BY DEF IsPut
<1>2. PutOf(x) = P /\ P.wallet = w /\ Rows(q) = P.rows
  BY <1>1 DEF PutOf, Items, Rows
<1>3. /\ w \in wallets /\ wallets' = wallets
      /\ IsPage(old, assets, balances, w) /\ IsPage(new, assets', balances', w)
      /\ \A v \in wallets : v # w => Book'[v] = Book[v]
      /\ KeepsPage(old, new, assets', X)
      /\ Sound(assets', balances')
  BY CommittedPages
<1>4. DOMAIN assets \subseteq DOMAIN assets' /\ \A a \in DOMAIN assets : assets'[a] = assets[a]
  BY Committed
<1>5. Seen(q, assets) = assets'  BY Committed
<1>6. \A p \in DOMAIN q.writes : p \in DOMAIN balances' /\ balances'[p] = q.writes[p]
  BY Committed
<1>7. ASSUME NEW a \in X
      PROVE  /\ assets'[a] \in DOMAIN P.rows
             /\ assets'[a] \in DOMAIN new
             /\ P.rows[assets'[a]] \in Balance
             /\ new[assets'[a]] \in [Columns -> Values]
             /\ IF assets'[a] \in DOMAIN old
                  THEN \A c \in Columns : new[assets'[a]][c] \in
                                            {old[assets'[a]][c], P.rows[assets'[a]][c]}
                  ELSE new[assets'[a]] = P.rows[assets'[a]]
  <2> DEFINE p == <<w, a>>
             k == assets'[a]
  <2>1. p \in DOMAIN q.writes /\ a \in DOMAIN assets'  BY DEF WrittenAssets
  <2>2. GoodWrite(q, assets, balances, p)  BY <2>1 DEF IsPut
  <2>3. PICK b \in Wanted(q, assets) :
          /\ p = <<w, b>> /\ q.writes[p] \in [Columns -> Values]
          /\ Rows(q)[Seen(q, assets)[b]] \in Balance
          /\ IF p \in DOMAIN balances
               THEN \A c \in Columns :
                      q.writes[p][c] \in {balances[p][c], Rows(q)[Seen(q, assets)[b]][c]}
               ELSE q.writes[p] = Rows(q)[Seen(q, assets)[b]]
    BY <2>2 DEF GoodWrite, Balance
  <2>4. b = a  BY <2>3
  <2>5. k \in DOMAIN P.rows /\ Rows(q)[Seen(q, assets)[b]] = P.rows[k]
    BY <1>2, <1>5, <2>3, <2>4 DEF Wanted
  <2>6. k \in DOMAIN new /\ new[k] = q.writes[p]
    BY <1>3, <1>6, <2>1 DEF IsPage
  <2>7. k \in DOMAIN old <=> p \in DOMAIN balances
    <3>1. ASSUME k \in DOMAIN old PROVE p \in DOMAIN balances
      <4>1. PICK d \in DOMAIN assets : <<w, d>> \in DOMAIN balances /\ assets[d] = k
        BY <1>3, <3>1 DEF IsPage
      <4>2. d = a  BY <1>3, <1>4, <2>1, <4>1 DEF Sound
      <4> QED  BY <4>1, <4>2
    <3>2. ASSUME p \in DOMAIN balances PROVE k \in DOMAIN old
      <4>1. a \in DOMAIN assets  BY <3>2 DEF MInv, TablesInv
      <4> QED  BY <1>3, <1>4, <3>2, <4>1 DEF IsPage
    <3> QED  BY <3>1, <3>2
  <2>8. k \in DOMAIN old => old[k] = balances[p]
    <3> SUFFICES ASSUME k \in DOMAIN old PROVE old[k] = balances[p]
      OBVIOUS
    <3>1. p \in DOMAIN balances  BY <2>7
    <3>2. a \in DOMAIN assets  BY <3>1 DEF MInv, TablesInv
    <3> QED  BY <1>3, <1>4, <3>1, <3>2 DEF IsPage
  <2> HIDE DEF p, k
  <2> QED  BY <2>3, <2>5, <2>6, <2>7, <2>8 DEF k
<1> HIDE DEF q, w, X, P, old, new
<1>8. S \in SUBSET {k \in DOMAIN P.rows : P.rows[k] \in Balance}  BY <1>7
<1>9. keep \in [S -> SUBSET Columns]  OBVIOUS
<1>10. \A k \in S : keep[k] = {c \in Columns : new[k][c] = old[k][c]}  OBVIOUS
<1>11. \A k : k \notin S =>
         /\ k \in DOMAIN new <=> k \in DOMAIN old
         /\ k \in DOMAIN old => new[k] = old[k]
  BY <1>3 DEF KeepsPage
<1>12. \A k \in S :
         /\ k \in DOMAIN new
         /\ new[k] \in [Columns -> Values]
         /\ IF k \in DOMAIN old
              THEN \A c \in Columns : new[k][c] \in {old[k][c], P.rows[k][c]}
              ELSE new[k] = P.rows[k]
  BY <1>7
<1> HIDE DEF S, keep
<1>13. new = page
  <2>1. DOMAIN new = DOMAIN old \cup S  BY <1>11, <1>12
  <2>2. ASSUME NEW k \in S, k \in DOMAIN old
        PROVE  new[k] = [c \in Columns |-> IF c \in keep[k] THEN old[k][c] ELSE P.rows[k][c]]
    <3>1. \A c \in Columns : new[k][c] = IF c \in keep[k] THEN old[k][c] ELSE P.rows[k][c]
      BY <1>10, <1>12, <2>2
    <3>2. new[k] \in [Columns -> Values]  BY <1>12
    <3> QED  BY <3>1, <3>2
  <2>3. \A k \in DOMAIN new : new[k] = page[k]  BY <1>11, <1>12, <2>1, <2>2
  <2>4. new = [k \in DOMAIN new |-> new[k]]  BY <1>3 DEF IsPage
  <2>5. page = [k \in DOMAIN old \cup S |-> page[k]]  OBVIOUS
  <2> HIDE DEF page
  <2> QED  BY <2>1, <2>3, <2>4, <2>5
<1> HIDE DEF page
<1>14. Book' = [Book EXCEPT ![w] = page]
  <2>1. /\ Book = [v \in wallets |-> Book[v]]
        /\ Book' = [v \in wallets |-> Book'[v]]
    BY <1>3, BookIs
  <2>2. \A v \in wallets : Book'[v] = IF v = w THEN page ELSE Book[v]
    BY <1>3, <1>13 DEF new
  <2> QED  BY <1>3, <2>1, <2>2
<1>15. Abstract!Put(P)
  <2>1. page = [k \in DOMAIN Book[P.wallet] \cup S |->
                  IF k \notin S THEN Book[P.wallet][k]
                  ELSE IF k \in DOMAIN Book[P.wallet]
                    THEN Abstract!PutRow(Book[P.wallet][k], P.rows[k], keep[k])
                  ELSE P.rows[k]]
    BY <1>2 DEF page, old, Abstract!PutRow
  <2>2. Book' = [Book EXCEPT ![P.wallet] = page]  BY <1>2, <1>14
  <2>3. P.wallet \in DOMAIN Book  BY <1>2, <1>3 DEF Book
  <2> QED  BY <1>8, <1>9, <2>1, <2>2, <2>3 DEF Abstract!Put
<1> QED  BY <1>1, <1>2, <1>15

(* The commit of a DELETE removes the balance it has found, or nothing.     *)
LEMMA DeleteCommits ==
  ASSUME MInv, NEW r \in Slots, Commit(r), IsDelete(reqs[r], balances)
  PROVE  \/ UNCHANGED Book
         \/ \E w \in DOMAIN Book : \E k \in DOMAIN Book[w] : Abstract!Remove(w, k)
<1> DEFINE q == reqs[r]
           w == q.wallet
           X == WrittenAssets(r)
           old == Book[w]
           new == Book'[w]
<1> SUFFICES ASSUME w \in wallets
             PROVE  \/ UNCHANGED Book
                    \/ \E v \in DOMAIN Book : \E k \in DOMAIN Book[v] : Abstract!Remove(v, k)
  BY NothingWritten
<1>1. /\ w \in wallets /\ wallets' = wallets
      /\ IsPage(old, assets, balances, w) /\ IsPage(new, assets', balances', w)
      /\ \A v \in wallets : v # w => Book'[v] = Book[v]
      /\ KeepsPage(old, new, assets', X)
      /\ Sound(assets', balances')
  BY CommittedPages
<1>2. DOMAIN assets \subseteq DOMAIN assets' /\ \A a \in DOMAIN assets : assets'[a] = assets[a]
  BY Committed
<1>3. /\ Book = [v \in wallets |-> Book[v]]
      /\ Book' = [v \in wallets |-> Book'[v]]
  BY <1>1, BookIs
<1>4. CASE X = {}
  <2>1. new = old  BY <1>1, <1>4 DEF KeepsPage
  <2>2. \A v \in wallets : Book'[v] = Book[v]  BY <1>1, <2>1
  <2> QED  BY <1>3, <2>2
<1>5. CASE X # {}
  <2>1. PICK a \in X : TRUE  BY <1>5
  <2> DEFINE p == <<w, a>>
             k == assets[a]
  <2>2. p \in DOMAIN q.writes  BY <2>1 DEF WrittenAssets
  <2>3. p \in DOMAIN balances /\ p = <<w, q.asset>>  BY <2>2 DEF IsDelete
  <2>4. a = q.asset  BY <2>3
  <2>5. p \notin DOMAIN balances'  BY <2>2, Committed
  <2>6. a \in DOMAIN assets  BY <2>3 DEF MInv, TablesInv
  <2>7. assets'[a] = k /\ a \in DOMAIN assets'  BY <1>2, <2>6
  <2>8. k \in DOMAIN old  BY <1>1, <2>3, <2>6 DEF IsPage
  <2>9. k \notin DOMAIN new
    <3> SUFFICES ASSUME k \in DOMAIN new PROVE FALSE
      OBVIOUS
    <3>1. PICK b \in DOMAIN assets' : <<w, b>> \in DOMAIN balances' /\ assets'[b] = k
      BY <1>1 DEF IsPage
    <3>2. b = a  BY <1>1, <2>7, <3>1 DEF Sound
    <3> QED  BY <2>5, <3>1, <3>2
  <2>10. \A b \in X : b = a
    <3> SUFFICES ASSUME NEW b \in X PROVE b = a
      OBVIOUS
    <3>1. <<w, b>> = <<w, q.asset>>  BY DEF WrittenAssets, IsDelete
    <3> QED  BY <2>4, <3>1
  <2>11. \A j : j # k => /\ j \in DOMAIN new <=> j \in DOMAIN old
                         /\ j \in DOMAIN old => new[j] = old[j]
    BY <1>1, <2>7, <2>10 DEF KeepsPage
  <2> HIDE DEF q, w, X, old, new, p, k
  <2>12. new = [j \in DOMAIN old \ {k} |-> old[j]]
    <3>1. DOMAIN new = DOMAIN old \ {k}  BY <2>9, <2>11
    <3>2. \A j \in DOMAIN new : new[j] = old[j]  BY <2>11, <3>1
    <3>3. new = [j \in DOMAIN new |-> new[j]]  BY <1>1 DEF IsPage
    <3> QED  BY <3>1, <3>2, <3>3
  <2>13. Book' = [Book EXCEPT ![w] = [j \in DOMAIN old \ {k} |-> old[j]]]
    <3>1. \A v \in wallets : Book'[v] = IF v = w THEN new ELSE Book[v]
      BY <1>1 DEF new
    <3> HIDE DEF new
    <3> QED  BY <1>1, <1>3, <2>12, <3>1
  <2>14. Abstract!Remove(w, k)  BY <2>8, <2>13 DEF Abstract!Remove, old
  <2>15. w \in DOMAIN Book  BY <1>1, <1>3
  <2> QED  BY <2>8, <2>14, <2>15 DEF old
<1> QED  BY <1>4, <1>5

(* A merge takes its user's pages out of the book.                          *)
LEMMA MergeDrops ==
  ASSUME MInv, NEW u, Merge(u)
  PROVE  Abstract!Drop(WalletsOf(u))
<1>1. /\ UNCHANGED assets /\ wallets' = wallets \ WalletsOf(u)
      /\ \A p : p \in DOMAIN balances' <=> p \in DOMAIN balances /\ p[1] \notin WalletsOf(u)
      /\ \A p \in DOMAIN balances' : balances'[p] = balances[p]
  BY MergeDoes
<1>2. Sound(assets, balances) /\ Sound(assets', balances')
  BY MergeStep DEF MInv, TablesInv, Sound
<1>3. ASSUME NEW v \in wallets' PROVE Book'[v] = Book[v]
  <2>1. v \in wallets /\ v \notin WalletsOf(u)  BY <1>1
  <2>2. IsPage(BookOf(assets, balances, wallets)[v], assets, balances, v)
    BY <1>2, <2>1, BookRows
  <2>3. IsPage(BookOf(assets', balances', wallets')[v], assets', balances', v)
    BY <1>2, BookRows
  <2>4. IsPage(Book[v], assets, balances, v) /\ IsPage(Book'[v], assets', balances', v)
    BY <2>2, <2>3, BookIs
  <2>5. \A a : <<v, a>> \in DOMAIN balances' <=> <<v, a>> \in DOMAIN balances
    BY <1>1, <2>1
  <2>6. Untouched(assets, balances, assets', balances', v, {})
    BY <1>1, <2>5 DEF Untouched
  <2>7. KeepsPage(Book[v], Book'[v], assets', {})  BY <1>2, <2>4, <2>6, Pages
  <2> QED  BY <2>7 DEF KeepsPage
<1>4. Book' = [v \in wallets' |-> Book'[v]] /\ DOMAIN Book = wallets  BY BookIs
<1> QED  BY <1>1, <1>3, <1>4 DEF Abstract!Drop

LEMMA BookStep == MInv /\ [Next]_vars => [Abstract!Next]_Book
<1> SUFFICES ASSUME MInv, [Next]_vars PROVE [Abstract!Next]_Book
  OBVIOUS
<1>1. CASE UNCHANGED tables  BY <1>1 DEF Book, tables
<1>2. ASSUME NEW r \in Slots, Commit(r) PROVE [Abstract!Next]_Book
  <2>1. IsPut(reqs[r], assets, balances) \/ IsDelete(reqs[r], balances)
    BY <1>2, Committed DEF Good
  <2>2. CASE IsPut(reqs[r], assets, balances)
    BY <1>2, <2>2, PutCommits, NothingWritten DEF Abstract!Next
  <2>3. CASE IsDelete(reqs[r], balances)
    BY <1>2, <2>3, DeleteCommits DEF Abstract!Next
  <2> QED  BY <2>1, <2>2, <2>3
<1>3. ASSUME NEW r \in Slots, Step(r) PROVE Commit(r) \/ UNCHANGED tables
  BY <1>3 DEF Step, Load, FindAsset, FindBalance, FindRow, Execute, BreakCircle, ReadBack
<1>4. ASSUME NEW r \in Slots, NEW q \in Requests, Start(r, q)
      PROVE  UNCHANGED tables
  BY <1>4 DEF Start
<1>5. CASE UNCHANGED vars  BY <1>1, <1>5 DEF vars, tables
<1>6. ASSUME NEW u \in Merged, Merge(u) PROVE [Abstract!Next]_Book
  BY <1>6, MergeDrops DEF Abstract!Next
<1> QED  BY <1>1, <1>2, <1>3, <1>4, <1>5, <1>6 DEF Next

(* The detailed program implements the book.  What the requests do to assets *)
(* and balances in many round trips, some of them waiting for each other or *)
(* ended by the database, is for the book a PUT at once, a removal at once, *)
(* or nothing, each in the wallet of the request alone; what a merge does   *)
(* to them is to take the wallets of one user out of the book.              *)
THEOREM Implements == Spec => BookSpec
<1>1. Init => Abstract!Init
  BY BookIs DEF Abstract!Init, Book, Init
<1> QED  BY <1>1, BookStep, Invariance, PTL DEF Spec, BookSpec, Abstract!Spec

------------------------------------------------------------------------------
(* What a PUT keeps, for the promises it makes to its client.               *)

(* The items looked up so far, and what is left to execute for them.        *)
Processed(q) ==
  IF q.pc = "flush" /\ q.next = "end" THEN DOMAIN q.items ELSE 1 .. q.i - 1

Rest(q) == IF Adding(q) THEN Tail(q.queue) ELSE q.queue
Members(t) == {t[j] : j \in DOMAIN t}
Left(q) == q.updates \cup Members(q.inserts) \cup Members(Rest(q))

(* One statement for one row, staged or queued.                             *)
OnePerRow(t) == \A i, j \in DOMAIN t : t[i].row = t[j].row => i = j
OneEach(updates, inserts) ==
  /\ \A s, t \in updates : s.row = t.row => s = t
  /\ OnePerRow(inserts)
  /\ \A s \in updates, t \in Members(inserts) : s.row # t.row

Single(q) ==
  /\ OneEach(q.updates, q.inserts) /\ OnePerRow(Rest(q))
  /\ IF q.pc = "flush" THEN q.updates = {} /\ q.inserts = <<>> ELSE q.queue = <<>>

(* The row of an item, and the rows looked up so far.                       *)
IsFor(q, as, i, a) == a \in DOMAIN Seen(q, as) /\ Seen(q, as)[a] = KeyOf(q.items[i])
Looked(q, as, p) ==
  \E i \in Processed(q) : \E a \in DOMAIN Seen(q, as) : IsFor(q, as, i, a) /\ p = <<q.wallet, a>>

(* Another request has committed a change of the row after the look at it.  *)
Moved(q, p) == <<"row", p>> \in q.moved

(* A statement finds the row as the look did, unless the row was moved.     *)
Foreseen(q, bs, s) ==
  /\ s.row \notin DOMAIN q.writes /\ s.columns # {}
  /\ \/ Moved(q, s.row)
     \/ s.kind = "insert" /\ s.row \notin DOMAIN bs
     \/ /\ s.kind = "update" /\ s.row \in DOMAIN bs
        /\ \A c \in Columns \ s.columns : bs[s.row][c] = s.to[c]

(* A row is written, was found as asked, or has a statement left.           *)
Served(q, bs, p, row) ==
  \/ /\ p \in DOMAIN q.writes
     /\ \/ q.writes[p] = row
        \/ Moved(q, p) /\ \E c \in Columns : q.writes[p][c] = row[c]
  \/ /\ p \notin DOMAIN q.writes
     /\ Moved(q, p) \/ (p \in DOMAIN bs /\ bs[p] = row)
  \/ \E s \in Left(q) : s.row = p

ServedItem(q, as, bs, i) ==
  \E a \in DOMAIN Seen(q, as) :
    IsFor(q, as, i, a) /\ Served(q, bs, <<q.wallet, a>>, RowOf(q.items[i]))

(* An asset to be added that is there by now was committed by another one.  *)
Beaten(q, as) ==
  Adding(q) /\ (\E a \in DOMAIN as : as[a] = KeyOf(ItemOf(q)))
    => <<"asset", KeyOf(ItemOf(q))>> \in q.moved

MovedKnown(q, as) == \A p : Moved(q, p) => p[2] \in DOMAIN as

Kept(q, as, bs) ==
  /\ Single(q) /\ Beaten(q, as) /\ MovedKnown(q, as)
  /\ \A s \in Left(q) : Looked(q, as, s.row) /\ Foreseen(q, bs, s)
  /\ \A p \in DOMAIN q.writes : Looked(q, as, p)
  /\ \A i \in Processed(q) : ServedItem(q, as, bs, i)

KInv == \A r \in Active : reqs[r].op = "put" => Kept(reqs[r], assets, balances)

------------------------------------------------------------------------------
(* What is left                                                             *)

(* A flush has one statement for each that was staged.                      *)
LEMMA Scheduled ==
  ASSUME NEW S, NEW updates \in SUBSET S, IsFiniteSet(updates), NEW inserts \in Seq(S),
         OneEach(updates, inserts), NEW q \in ByKey(updates)
  PROVE  /\ q \o inserts \in Seq(S) /\ OnePerRow(q \o inserts)
         /\ Members(q \o inserts) = updates \cup Members(inserts)
<1> DEFINE n == Cardinality(updates)
           m == Len(inserts)
           t == q \o inserts
<1>1. /\ q \in [1 .. n -> updates] /\ \A i, j \in 1 .. n : i # j => q[i] # q[j]
      /\ n \in Nat
  BY FS_CardinalityType DEF ByKey, SetToSeqs
<1>2. \A s \in updates : \E i \in 1 .. n : q[i] = s
  <2>1. q \in Injection(1 .. n, updates)
    BY <1>1 DEF Injection, IsInjective
  <2>2. IsFiniteSet(1 .. n) /\ Cardinality(1 .. n) = n
    BY <1>1, FS_Interval
  <2>3. q \in Surjection(1 .. n, updates)
    BY <2>1, <2>2, FS_Injection
  <2> QED BY <2>3 DEF Surjection
<1> HIDE DEF n
<1>3. q \in Seq(S) /\ Len(q) = n
  <2>1. q \in [1 .. n -> S] BY <1>1
  <2>2. q \in Seq(S) BY <1>1, <2>1, SeqDef
  <2>3. DOMAIN q = 1 .. Len(q) /\ DOMAIN q = 1 .. n /\ Len(q) \in Nat
    BY <1>1, <2>2, LenProperties
  <2> QED BY <1>1, <2>2, <2>3
<1>4. /\ m \in Nat /\ DOMAIN inserts = 1 .. m /\ \A j \in 1 .. m : inserts[j] \in S
  BY LenProperties, ElementOfSeq
<1> HIDE DEF m
<1>5. /\ t \in Seq(S) /\ Len(t) = n + m
      /\ \A i \in 1 .. n + m : t[i] = IF i <= n THEN q[i] ELSE inserts[i - n]
  BY <1>3, ConcatProperties DEF m
<1> HIDE DEF t
<1>6. DOMAIN t = 1 .. n + m
  BY <1>5, LenProperties
<1>7. \A i \in 1 .. n : i \in DOMAIN t /\ t[i] = q[i]
  BY <1>1, <1>4, <1>5, <1>6
<1>8. \A j \in 1 .. m : n + j \in DOMAIN t /\ t[n + j] = inserts[j]
  <2> SUFFICES ASSUME NEW j \in 1 .. m PROVE n + j \in DOMAIN t /\ t[n + j] = inserts[j]
    OBVIOUS
  <2>1. n + j \in 1 .. n + m /\ ~ (n + j <= n) /\ (n + j) - n = j
    BY <1>1, <1>4
  <2>2. t[n + j] = inserts[(n + j) - n] BY <1>5, <2>1
  <2> QED BY <1>6, <2>1, <2>2
<1>9. \A i \in DOMAIN t : i \in 1 .. n \/ \E j \in 1 .. m : i = n + j
  <2> SUFFICES ASSUME NEW i \in 1 .. n + m, i \notin 1 .. n PROVE \E j \in 1 .. m : i = n + j
    BY <1>6
  <2>1. i - n \in 1 .. m /\ i = n + (i - n) BY <1>1, <1>4
  <2> QED BY <2>1
<1>10. Members(t) = updates \cup Members(inserts)
  <2>1. \A i \in DOMAIN t : t[i] \in updates \cup Members(inserts)
    <3> SUFFICES ASSUME NEW i \in DOMAIN t PROVE t[i] \in updates \cup Members(inserts)
      OBVIOUS
    <3>1. CASE i \in 1 .. n
      <4>1. t[i] = q[i] /\ q[i] \in updates BY <1>1, <1>7, <3>1
      <4> QED BY <4>1
    <3>2. ASSUME NEW j \in 1 .. m, i = n + j PROVE t[i] \in Members(inserts)
      <4>1. t[i] = inserts[j] /\ j \in DOMAIN inserts BY <1>4, <1>8, <3>2
      <4> QED BY <4>1 DEF Members
    <3> QED BY <1>9, <3>1, <3>2
  <2>2. \A s \in updates : \E i \in DOMAIN t : t[i] = s BY <1>2, <1>7
  <2>3. \A s \in Members(inserts) : \E i \in DOMAIN t : t[i] = s
    BY <1>4, <1>8 DEF Members
  <2> QED BY <2>1, <2>2, <2>3 DEF Members
<1>11. OnePerRow(t)
  <2> SUFFICES ASSUME NEW i \in DOMAIN t, NEW j \in DOMAIN t, t[i].row = t[j].row PROVE i = j
    BY DEF OnePerRow
  <2>1. CASE i \in 1 .. n /\ j \in 1 .. n
    <3>1. q[i] \in updates /\ q[j] \in updates /\ q[i].row = q[j].row
      BY <1>1, <1>7, <2>1
    <3>2. q[i] = q[j] BY <3>1 DEF OneEach
    <3> QED BY <1>1, <2>1, <3>2
  <2>2. ASSUME NEW k \in 1 .. n, NEW l \in 1 .. m PROVE t[k].row # t[n + l].row
    <3>1. q[k] \in updates /\ inserts[l] \in Members(inserts)
      BY <1>1, <1>4 DEF Members
    <3>2. q[k].row # inserts[l].row BY <3>1 DEF OneEach
    <3> QED BY <1>7, <1>8, <3>2
  <2>3. ASSUME NEW k \in 1 .. m, NEW l \in 1 .. m, t[n + k].row = t[n + l].row PROVE k = l
    <3>1. inserts[k].row = inserts[l].row BY <1>8, <2>3
    <3> QED BY <1>4, <3>1 DEF OneEach, OnePerRow
  <2> QED BY <1>9, <2>1, <2>2, <2>3
<1> QED BY <1>5, <1>10, <1>11 DEF t

(* A flush executes the statement it has put in front.                      *)
LEMMA TailOfConcat ==
  ASSUME NEW T, NEW t \in Seq(T), NEW x \in T
  PROVE  Tail(<<x>> \o t) = t
<1> DEFINE h == <<x>> \o t
<1>0. <<x>> \in Seq(T) /\ Len(<<x>>) = 1 OBVIOUS
<1>1. /\ h \in Seq(T) /\ Len(h) = 1 + Len(t)
      /\ \A i \in 1 .. 1 + Len(t) : h[i] = IF i <= 1 THEN <<x>>[i] ELSE t[i - 1]
  BY <1>0, ConcatProperties
<1>2. Len(t) \in Nat BY LenProperties
<1> HIDE DEF h
<1>3. h # <<>> BY <1>1, <1>2, EmptySeq
<1>4. /\ Tail(h) \in Seq(T) /\ Len(Tail(h)) = Len(h) - 1
      /\ \A i \in 1 .. Len(Tail(h)) : Tail(h)[i] = h[i + 1]
  BY <1>1, <1>3, HeadTailProperties
<1>5. Len(Tail(h)) = Len(t) BY <1>1, <1>2, <1>4
<1>6. ASSUME NEW i \in 1 .. Len(t) PROVE Tail(h)[i] = t[i]
  <2>1. i + 1 \in 1 .. 1 + Len(t) /\ ~ (i + 1 <= 1) /\ (i + 1) - 1 = i BY <1>2
  <2>2. h[i + 1] = t[(i + 1) - 1] BY <1>1, <2>1
  <2> QED BY <1>4, <1>5, <2>1, <2>2
<1> QED BY <1>4, <1>5, <1>6, SeqEqual DEF h

(* A flush leaves what was staged, and nothing else, in its queue.          *)
LEMMA Queued ==
  ASSUME NEW S, NEW updates \in SUBSET S, IsFiniteSet(updates), NEW inserts \in Seq(S),
         OneEach(updates, inserts)
  PROVE  /\ \A queue \in FlushQueues(<<>>, updates, inserts) :
              OnePerRow(queue) /\ Members(queue) = updates \cup Members(inserts)
         /\ \A x : \A queue \in FlushQueues(<<x>>, updates, inserts) :
              /\ OnePerRow(Tail(queue))
              /\ Members(Tail(queue)) = updates \cup Members(inserts)
<1>1. ASSUME NEW q \in ByKey(updates) PROVE q \in Seq(S)
  <2> DEFINE n == Cardinality(updates)
  <2>1. q \in [1 .. n -> updates] BY DEF ByKey, SetToSeqs
  <2>2. n \in Nat BY FS_CardinalityType
  <2>3. q \in [1 .. n -> S] BY <2>1
  <2> HIDE DEF n
  <2> QED BY <2>2, <2>3, SeqDef
<1>2. ASSUME NEW queue \in FlushQueues(<<>>, updates, inserts)
      PROVE  OnePerRow(queue) /\ Members(queue) = updates \cup Members(inserts)
  <2>1. PICK q \in ByKey(updates) : queue = <<>> \o q \o inserts BY DEF FlushQueues
  <2>2. <<>> \o q = q BY <1>1, ConcatEmptySeq
  <2>3. queue = q \o inserts BY <2>1, <2>2
  <2> QED BY <2>3, Scheduled
<1>3. ASSUME NEW x, NEW queue \in FlushQueues(<<x>>, updates, inserts)
      PROVE  /\ OnePerRow(Tail(queue))
             /\ Members(Tail(queue)) = updates \cup Members(inserts)
  <2> DEFINE T == S \cup {x}
  <2>1. PICK q \in ByKey(updates) : queue = <<x>> \o q \o inserts BY DEF FlushQueues
  <2>2. q \in Seq(T) /\ inserts \in Seq(T) /\ <<x>> \in Seq(T) /\ x \in T
    BY <1>1, SeqMonotonic
  <2> HIDE DEF T
  <2>3. queue = <<x>> \o (q \o inserts) BY <2>1, <2>2, ConcatAssociative
  <2>4. q \o inserts \in Seq(T) BY <2>2, ConcatProperties
  <2>5. Tail(queue) = q \o inserts BY <2>2, <2>3, <2>4, TailOfConcat
  <2>6. /\ OnePerRow(q \o inserts)
        /\ Members(q \o inserts) = updates \cup Members(inserts)
    BY Scheduled
  <2> QED BY <2>5, <2>6
<1> QED BY <1>2, <1>3

(* A statement leaves the queue when it is executed.                        *)
LEMMA TailMembers ==
  ASSUME NEW S, NEW t \in Seq(S), t # <<>>, OnePerRow(t)
  PROVE  /\ OnePerRow(Tail(t)) /\ Members(t) = Members(Tail(t)) \cup {Head(t)}
         /\ \A s \in Members(Tail(t)) : s.row # Head(t).row
<1> DEFINE u == Tail(t)
<1>1. /\ u \in Seq(S) /\ Len(u) = Len(t) - 1
      /\ \A i \in 1 .. Len(u) : u[i] = t[i + 1]
  BY HeadTailProperties
<1>2. Len(t) \in Nat \ {0} /\ DOMAIN t = 1 .. Len(t) /\ DOMAIN u = 1 .. Len(t) - 1
  BY <1>1, EmptySeq, LenProperties
<1>3. Head(t) = t[1] OBVIOUS
<1> HIDE DEF u
<1>4. \A i \in DOMAIN u : i + 1 \in DOMAIN t /\ u[i] = t[i + 1] /\ i + 1 # 1
  BY <1>1, <1>2
<1>5. 1 \in DOMAIN t /\ \A i \in DOMAIN t : i = 1 \/ i - 1 \in DOMAIN u
  BY <1>2
<1>6. OnePerRow(u)
  <2> SUFFICES ASSUME NEW i \in DOMAIN u, NEW j \in DOMAIN u, u[i].row = u[j].row PROVE i = j
    BY DEF OnePerRow
  <2>1. t[i + 1].row = t[j + 1].row BY <1>4
  <2>2. i + 1 = j + 1 BY <1>4, <2>1 DEF OnePerRow
  <2> QED BY <1>2, <2>2
<1>7. \A s \in Members(u) : s.row # t[1].row
  BY <1>4, <1>5 DEF Members, OnePerRow
<1>8. Members(t) = Members(u) \cup {t[1]}
  <2>1. \A s \in Members(u) : s \in Members(t) BY <1>4 DEF Members
  <2>2. \A i \in DOMAIN t : i = 1 \/ t[i] \in Members(u)
    <3> SUFFICES ASSUME NEW i \in DOMAIN t, i # 1 PROVE t[i] \in Members(u)
      OBVIOUS
    <3>1. i - 1 \in DOMAIN u /\ (i - 1) + 1 = i BY <1>2, <1>5
    <3>2. u[i - 1] = t[i] BY <1>4, <3>1
    <3> QED BY <3>1, <3>2 DEF Members
  <2>3. t[1] \in Members(t) BY <1>5 DEF Members
  <2>4. \A s \in Members(t) : s = t[1] \/ s \in Members(u) BY <2>2 DEF Members
  <2> QED BY <2>1, <2>3, <2>4
<1> QED BY <1>3, <1>6, <1>7, <1>8 DEF u

(* A statement is staged.                                                   *)
LEMMA AppendMembers ==
  ASSUME NEW S, NEW t \in Seq(S), NEW x \in S, OnePerRow(t),
         \A s \in Members(t) : s.row # x.row
  PROVE  OnePerRow(Append(t, x)) /\ Members(Append(t, x)) = Members(t) \cup {x}
<1> DEFINE u == Append(t, x)
<1>1. /\ u \in Seq(S) /\ Len(u) = Len(t) + 1 /\ u[Len(t) + 1] = x
      /\ \A i \in 1 .. Len(t) : u[i] = t[i]
  BY AppendProperties
<1>2. Len(t) \in Nat /\ DOMAIN t = 1 .. Len(t) /\ DOMAIN u = 1 .. Len(t) + 1
  BY <1>1, LenProperties
<1> HIDE DEF u
<1>3. /\ \A i \in DOMAIN t : i \in DOMAIN u /\ u[i] = t[i] /\ u[i].row # x.row
      /\ \A i \in DOMAIN u : i \in DOMAIN t \/ (i = Len(t) + 1 /\ u[i] = x)
      /\ Len(t) + 1 \in DOMAIN u
  BY <1>1, <1>2 DEF Members
<1>4. OnePerRow(u)
  <2> SUFFICES ASSUME NEW i \in DOMAIN u, NEW j \in DOMAIN u, u[i].row = u[j].row PROVE i = j
    BY DEF OnePerRow
  <2> QED BY <1>3 DEF OnePerRow
<1>5. Members(u) = Members(t) \cup {x}
  BY <1>1, <1>3 DEF Members
<1> QED BY <1>4, <1>5 DEF u

------------------------------------------------------------------------------
(* Sessions that keep their promises *)

(* What a session keeps when what it sees of the assets grows and nothing   *)
(* changes in the rows but where it is moved.                               *)
Carries(q, as, bs, q2, as2, bs2) ==
  /\ q2.wallet = q.wallet /\ q2.items = q.items /\ q2.writes = q.writes
  /\ Processed(q2) = Processed(q) /\ Left(q2) = Left(q)
  /\ \A a \in DOMAIN Seen(q, as) :
       a \in DOMAIN Seen(q2, as2) /\ Seen(q2, as2)[a] = Seen(q, as)[a]
  /\ \A p : Moved(q, p) => Moved(q2, p)
  /\ \A p : \/ Moved(q2, p)
            \/ /\ p \in DOMAIN bs2 <=> p \in DOMAIN bs
               /\ p \in DOMAIN bs => bs2[p] = bs[p]

(* A session keeps its part when another one commits, or when an asset is   *)
(* added: rows and assets may change only where the session has them as     *)
(* moved.                                                                   *)
LEMMA KeptGrown ==
  ASSUME NEW q, NEW as, NEW bs, NEW q2, NEW as2, NEW bs2, Kept(q, as, bs),
         Carries(q, as, bs, q2, as2, bs2),
         Single(q2), Beaten(q2, as2), MovedKnown(q2, as2)
  PROVE  Kept(q2, as2, bs2)
<1>1. \A i, a : IsFor(q, as, i, a) => IsFor(q2, as2, i, a)
  BY DEF Carries, IsFor
<1>2. \A p : Looked(q, as, p) => Looked(q2, as2, p)
  BY <1>1 DEF Carries, Looked, IsFor
<1>3. \A s \in Left(q) : Foreseen(q, bs, s) => Foreseen(q2, bs2, s)
  BY DEF Carries, Foreseen
<1>4. \A p, row : Served(q, bs, p, row) => Served(q2, bs2, p, row)
  BY DEF Carries, Served
<1>5. \A i \in Processed(q) : ServedItem(q, as, bs, i) => ServedItem(q2, as2, bs2, i)
  BY <1>1, <1>4 DEF Carries, ServedItem, IsFor
<1>6. /\ \A s \in Left(q2) : Looked(q2, as2, s.row) /\ Foreseen(q2, bs2, s)
      /\ \A p \in DOMAIN q2.writes : Looked(q2, as2, p)
      /\ \A i \in Processed(q2) : ServedItem(q2, as2, bs2, i)
  BY <1>2, <1>3, <1>5 DEF Carries, Kept
<1> QED BY <1>6 DEF Kept

(* The balance looked up next was not looked up before.                     *)
LEMMA Unlooked ==
  ASSUME NEW q, NEW as, NEW bs, Kept(q, as, bs), Names(q, as), Distinct(q.items),
         q.items \in Seq(Item), q.i \in 1 .. Len(q.items), Processed(q) = 1 .. q.i - 1,
         IsFor(q, as, q.i, q.asset)
  PROVE  /\ <<q.wallet, q.asset>> \notin DOMAIN q.writes
         /\ \A s \in Left(q) : s.row # <<q.wallet, q.asset>>
         /\ \A i \in Processed(q) : ~ IsFor(q, as, i, q.asset)
<1> DEFINE p == <<q.wallet, q.asset>>
<1>1. DOMAIN q.items = 1 .. Len(q.items) /\ Len(q.items) \in Nat BY LenProperties
<1>2. \A i \in Processed(q) : i \in DOMAIN q.items /\ q.i \in DOMAIN q.items /\ i # q.i
  BY <1>1
<1>3. \A i \in Processed(q) : ~ IsFor(q, as, i, q.asset)
  BY <1>2 DEF IsFor, Distinct
<1>4. ~ Looked(q, as, p)
  <2> SUFFICES ASSUME NEW i \in Processed(q), NEW a \in DOMAIN Seen(q, as),
                      IsFor(q, as, i, a), p = <<q.wallet, a>>
               PROVE  FALSE
    BY DEF Looked
  <2>1. a = q.asset OBVIOUS
  <2> QED BY <1>3, <2>1
<1> QED BY <1>3, <1>4 DEF Kept

(* The look at a balance stages what is left for it, or finds it as asked.  *)
LEMMA LookedUp ==
  ASSUME NEW q, NEW as, NEW bs, NEW q2, NEW new, Kept(q, as, bs), Names(q, as),
         Distinct(q.items), q.items \in Seq(Item), q.i \in 1 .. Len(q.items),
         Processed(q) = 1 .. q.i - 1, IsFor(q, as, q.i, q.asset),
         q2.wallet = q.wallet, q2.items = q.items, q2.writes = q.writes,
         Seen(q2, as) = Seen(q, as), Processed(q2) = Processed(q) \cup {q.i},
         q2.moved = q.moved \ {<<"row", <<q.wallet, q.asset>> >>},
         Left(q2) = Left(q) \cup new,
         \A s \in new : s.row = <<q.wallet, q.asset>> /\ Foreseen(q2, bs, s),
         \/ new # {}
         \/ /\ <<q.wallet, q.asset>> \in DOMAIN bs
            /\ bs[<<q.wallet, q.asset>>] = RowOf(q.items[q.i]),
         ~ Adding(q2), Single(q2)
  PROVE  Kept(q2, as, bs)
<1> DEFINE p == <<q.wallet, q.asset>>
<1>1. /\ p \notin DOMAIN q.writes /\ \A s \in Left(q) : s.row # p
      /\ \A i \in Processed(q) : ~ IsFor(q, as, i, q.asset)
  BY Unlooked
<1>2. \A i, a : IsFor(q2, as, i, a) <=> IsFor(q, as, i, a)
  BY DEF IsFor
<1>3. /\ \A x : Looked(q, as, x) => Looked(q2, as, x)
      /\ Looked(q2, as, p)
  BY <1>2 DEF Looked, IsFor
<1>4. \A x : x # p => (Moved(q2, x) <=> Moved(q, x))
  BY DEF Moved
<1>5. \A s \in Left(q) : Foreseen(q, bs, s) => Foreseen(q2, bs, s)
  BY <1>1, <1>4 DEF Foreseen
<1>6. \A s \in Left(q2) : Looked(q2, as, s.row) /\ Foreseen(q2, bs, s)
  BY <1>3, <1>5 DEF Kept
<1>7. \A x \in DOMAIN q2.writes : Looked(q2, as, x)
  BY <1>3 DEF Kept
<1>8. ASSUME NEW i \in Processed(q) PROVE ServedItem(q2, as, bs, i)
  <2>1. PICK a \in DOMAIN Seen(q, as) :
          IsFor(q, as, i, a) /\ Served(q, bs, <<q.wallet, a>>, RowOf(q.items[i]))
    BY DEF Kept, ServedItem
  <2>2. a # q.asset BY <1>1, <2>1
  <2>3. <<q.wallet, a>> # p BY <2>2
  <2>4. Served(q2, bs, <<q.wallet, a>>, RowOf(q.items[i]))
    BY <1>4, <2>1, <2>3 DEF Served
  <2> QED BY <1>2, <2>1, <2>4 DEF ServedItem
<1>9. ServedItem(q2, as, bs, q.i)
  <2>1. Served(q2, bs, p, RowOf(q.items[q.i])) BY <1>1 DEF Served
  <2> QED BY <1>2, <2>1 DEF ServedItem, IsFor
<1>10. Beaten(q2, as) BY DEF Beaten
<1>11. MovedKnown(q2, as) BY DEF MovedKnown, Moved, Kept
<1> QED BY <1>6, <1>7, <1>8, <1>9, <1>10, <1>11 DEF Kept

(* A statement writes the row it is for.                                    *)
LEMMA Wrote ==
  ASSUME NEW q, NEW as, NEW bs, NEW q2, NEW s, Kept(q, as, bs),
         q.items \in Seq(Item), Distinct(q.items), Processed(q) \subseteq 1 .. Len(q.items),
         s.to = Rows(q)[Seen(q, as)[s.row[2]]],
         q2.wallet = q.wallet, q2.items = q.items, q2.moved = q.moved,
         Seen(q2, as) = Seen(q, as), Processed(q2) = Processed(q),
         s \in Left(q), Left(q) = Left(q2) \cup {s}, \A t \in Left(q2) : t.row # s.row,
         DOMAIN q2.writes = DOMAIN q.writes \cup {s.row},
         \A p \in DOMAIN q.writes \ {s.row} : q2.writes[p] = q.writes[p],
         \/ q2.writes[s.row] = s.to
         \/ Moved(q, s.row) /\ \E c \in Columns : q2.writes[s.row][c] = s.to[c],
         ~ Adding(q2), Single(q2)
  PROVE  Kept(q2, as, bs)
<1>1. s.row \notin DOMAIN q.writes /\ Looked(q, as, s.row)
  BY DEF Kept, Foreseen
<1>2. \A i, a : IsFor(q2, as, i, a) <=> IsFor(q, as, i, a)
  BY DEF IsFor
<1>3. \A x : Looked(q2, as, x) <=> Looked(q, as, x)
  BY <1>2 DEF Looked
<1>4. \A x : Moved(q2, x) <=> Moved(q, x)
  BY DEF Moved
<1>5. \A t \in Left(q2) : Foreseen(q, bs, t) => Foreseen(q2, bs, t)
  BY <1>4 DEF Foreseen
<1>6. \A t \in Left(q2) : Looked(q2, as, t.row) /\ Foreseen(q2, bs, t)
  BY <1>3, <1>5 DEF Kept
<1>7. \A x \in DOMAIN q2.writes : Looked(q2, as, x)
  BY <1>1, <1>3 DEF Kept
<1>8. ASSUME NEW i \in Processed(q2) PROVE ServedItem(q2, as, bs, i)
  <2>1. PICK a \in DOMAIN Seen(q, as) :
          IsFor(q, as, i, a) /\ Served(q, bs, <<q.wallet, a>>, RowOf(q.items[i]))
    BY DEF Kept, ServedItem
  <2> DEFINE p == <<q.wallet, a>>
             row == RowOf(q.items[i])
  <2>2. CASE p = s.row
    <3>1. s.row[2] = a BY <2>2
    <3>2. s.to = row BY <2>1, <3>1, RowsAre DEF IsFor
    <3>3. p \in DOMAIN q2.writes BY <2>2
    <3>4. Served(q2, bs, p, row) BY <1>4, <2>2, <3>2, <3>3 DEF Served
    <3> QED BY <1>2, <2>1, <3>4 DEF ServedItem
  <2>3. CASE p # s.row
    <3>1. p \in DOMAIN q2.writes <=> p \in DOMAIN q.writes BY <2>3
    <3>2. p \in DOMAIN q.writes => q2.writes[p] = q.writes[p] BY <2>3
    <3>3. (\E t \in Left(q) : t.row = p) => \E t \in Left(q2) : t.row = p BY <2>3
    <3>4. Served(q, bs, p, row) BY <2>1
    <3> HIDE DEF p, row
    <3>5. Served(q2, bs, p, row) BY <1>4, <3>1, <3>2, <3>3, <3>4 DEF Served
    <3> QED BY <1>2, <2>1, <3>5 DEF ServedItem, p, row
  <2> QED BY <2>2, <2>3
<1>9. Beaten(q2, as) BY DEF Beaten
<1>10. MovedKnown(q2, as) BY <1>4 DEF MovedKnown, Kept
<1> QED BY <1>6, <1>7, <1>8, <1>9, <1>10 DEF Kept

(* One slot moves on; the tables stay.                                      *)
LEMMA SlotKept ==
  ASSUME MInv, KInv, NEW r \in Slots, NEW q, reqs' = [reqs EXCEPT ![r] = q],
         UNCHANGED tables,
         q.pc \notin {"idle", "read", "done"} /\ q.op = "put" => Kept(q, assets, balances)
  PROVE  KInv'
<1>1. reqs'[r] = q /\ \A s \in Slots \ {r} : reqs'[s] = reqs[s]
  BY DEF MInv
<1>2. \A s \in Active' : s = r \/ s \in Active \ {r} BY <1>1 DEF Active
<1>3. r \in Active' => q.pc \notin {"idle", "read", "done"} BY <1>1 DEF Active
<1> QED BY <1>1, <1>2, <1>3 DEF KInv, Active, tables

(* A request that fails is no session any more.                             *)
LEMMA FailKept ==
  ASSUME MInv, KInv, NEW r \in Slots, NEW code, Fail(r, code), UNCHANGED tables
  PROVE  KInv'
  BY SlotKept DEF Fail, Done

------------------------------------------------------------------------------
(* Steps that keep them *)

(* Nothing is staged at the start and after a flush.                        *)
LEMMA NoMembers == Members(<<>>) = {} /\ OnePerRow(<<>>) /\ OneEach({}, <<>>)
BY DEF Members, OnePerRow, OneEach

(* A session starts with nothing looked up, staged or written.              *)
LEMMA StartKept ==
  ASSUME MInv, KInv, NEW r \in Slots, NEW x \in Requests, Start(r, x)
  PROVE  KInv'
<1> DEFINE fresh == [pc |-> "load", i |-> 1, asset |-> Null, newAssets |-> Nothing,
                     writes |-> Nothing, updates |-> {}, inserts |-> <<>>, queue |-> <<>>,
                     next |-> Null, moved |-> {}]
           q == Over(x, fresh)
<1>1. reqs' = [reqs EXCEPT ![r] = q] /\ UNCHANGED <<tables, nextId>>
  BY DEF Start
<1>2. \/ DOMAIN x = {"op", "user", "wallet", "items"}
      \/ DOMAIN x = {"op", "user", "wallet", "asset"}
  BY ManualBalancesAssumption
<1>3. DOMAIN fresh = {"pc", "i", "asset", "newAssets", "writes", "updates", "inserts",
                      "queue", "next", "moved"}
      /\ fresh.pc = "load" /\ fresh.i = 1 /\ fresh.writes = Nothing /\ fresh.updates = {}
      /\ fresh.inserts = <<>> /\ fresh.queue = <<>> /\ fresh.moved = {}
  OBVIOUS
<1> HIDE DEF fresh
<1>4. /\ q.pc = "load" /\ q.i = 1 /\ q.writes = Nothing /\ q.updates = {}
      /\ q.inserts = <<>> /\ q.queue = <<>> /\ q.moved = {}
  BY <1>2, <1>3 DEF Over
<1> HIDE DEF q
<1>5. ~ Adding(q) /\ Rest(q) = <<>> /\ DOMAIN q.writes = {} /\ Processed(q) = {}
  BY <1>4 DEF Adding, Rest, Nothing, Processed
<1>6. Left(q) = {} /\ Single(q)
  BY <1>4, <1>5, NoMembers DEF Left, Single
<1>7. Beaten(q, assets) /\ MovedKnown(q, assets)
  BY <1>4, <1>5 DEF Beaten, MovedKnown, Moved
<1>8. Kept(q, assets, balances) BY <1>5, <1>6, <1>7 DEF Kept
<1> QED BY <1>1, <1>8, SlotKept

(* The load looks up the wallet and no item yet.                            *)
LEMMA LoadKept ==
  ASSUME MInv, KInv, NEW r \in Slots, Load(r)
  PROVE  KInv'
<1> DEFINE q == reqs[r]
           q2 == [q EXCEPT !.pc = IF q.op = "put" THEN "asset" ELSE "find"]
<1>1. r \in Active /\ q.pc = "load" /\ UNCHANGED <<tables, nextId>>
  BY DEF Load, Active
<1>2. Good(q, assets, balances, nextId) /\ IsSession(q) BY <1>1 DEF MInv, Good
<1>3. CASE \E code : Fail(r, code) BY <1>1, <1>3, FailKept
<1>4. CASE reqs' = [reqs EXCEPT ![r] = q2]
  <2>1. /\ q2.op = q.op /\ q2.pc = IF q.op = "put" THEN "asset" ELSE "find"
        /\ \A f \in DOMAIN q \ {"pc"} : q2[f] = q[f]
    BY <1>2 DEF IsSession, Fields
  <2> HIDE DEF q2
  <2>2. ASSUME q.op = "put" PROVE Kept(q2, assets, balances)
    <3>1. Kept(q, assets, balances) /\ "items" \in DOMAIN q
      BY <1>1, <1>2, <2>2 DEF KInv, Good, IsPut, IsDelete
    <3>2. /\ q2.wallet = q.wallet /\ q2.items = q.items /\ q2.i = q.i /\ q2.writes = q.writes
          /\ q2.updates = q.updates /\ q2.inserts = q.inserts /\ q2.queue = q.queue
          /\ q2.newAssets = q.newAssets /\ q2.moved = q.moved /\ q2.pc = "asset"
      BY <1>2, <2>1, <2>2, <3>1 DEF IsSession, Fields
    <3>3. ~ Adding(q) /\ ~ Adding(q2) BY <1>1, <3>2 DEF Adding
    <3>4. Rest(q2) = Rest(q) BY <3>2, <3>3 DEF Rest
    <3>5. Left(q2) = Left(q) /\ Processed(q2) = Processed(q) /\ Seen(q2, assets) = Seen(q, assets)
      BY <1>1, <3>2, <3>4 DEF Left, Processed, Seen
    <3>6. Carries(q, assets, balances, q2, assets, balances)
      BY <3>2, <3>5 DEF Carries, Moved
    <3>7. Single(q2) BY <1>1, <3>1, <3>2, <3>4 DEF Kept, Single
    <3>8. Beaten(q2, assets) /\ MovedKnown(q2, assets)
      BY <3>1, <3>2, <3>3 DEF Beaten, MovedKnown, Moved, Kept
    <3> HIDE DEF q
    <3> QED BY <3>1, <3>6, <3>7, <3>8, KeptGrown
  <2> QED BY <1>1, <1>4, <2>1, <2>2, SlotKept
<1> QED
  <2>1. (\E code : Fail(r, code)) \/ reqs' = [reqs EXCEPT ![r] = q2] BY DEF Load
  <2> QED BY <1>3, <1>4, <2>1

(* The lookup of an asset finds it, or queues its insert.                   *)
LEMMA FindAssetKept ==
  ASSUME MInv, KInv, NEW r \in Slots, FindAsset(r)
  PROVE  KInv'
<1> DEFINE q == reqs[r]
           key == KeyOf(ItemOf(q))
           new == [kind |-> "asset", key |-> key, id |-> nextId]
<1>1. r \in Active /\ q.pc = "asset" /\ UNCHANGED tables
  BY DEF FindAsset, Active
<1>2. Good(q, assets, balances, nextId) BY <1>1 DEF MInv
<1>3. IsPut(q, assets, balances) /\ ~ Adding(q) /\ IsSession(q) /\ q.op = "put"
  BY <1>1, <1>2 DEF Good, IsPut, IsDelete, Adding
<1>4. /\ "items" \in DOMAIN q
      /\ q.updates \in SUBSET Statements(q, assets) /\ IsFiniteSet(q.updates)
      /\ q.inserts \in Seq(Statements(q, assets))
  BY <1>3 DEF IsPut
<1>5. Kept(q, assets, balances) /\ Single(q) /\ q.queue = <<>> /\ Rest(q) = <<>>
  BY <1>1, <1>3 DEF KInv, Kept, Single, Rest
<1>6. Left(q) = q.updates \cup Members(q.inserts) BY <1>5, NoMembers DEF Left
<1>7. CASE \E a : reqs' = [reqs EXCEPT ![r].pc = "balance", ![r].asset = a]
  <2>1. PICK a : reqs' = [reqs EXCEPT ![r].pc = "balance", ![r].asset = a] BY <1>7
  <2> DEFINE q2 == [q EXCEPT !.pc = "balance", !.asset = a]
  <2>2. reqs' = [reqs EXCEPT ![r] = q2] BY <2>1 DEF MInv
  <2>3. q2.pc = "balance" /\ \A f \in DOMAIN q \ {"pc", "asset"} : q2[f] = q[f]
    BY <1>3 DEF IsSession, Fields
  <2> HIDE DEF q2
  <2>4. /\ q2.wallet = q.wallet /\ q2.items = q.items /\ q2.i = q.i /\ q2.writes = q.writes
        /\ q2.updates = q.updates /\ q2.inserts = q.inserts /\ q2.queue = q.queue
        /\ q2.newAssets = q.newAssets /\ q2.moved = q.moved
    BY <1>3, <1>4, <2>3 DEF IsSession, Fields
  <2>5. ~ Adding(q2) /\ Rest(q2) = Rest(q) BY <1>3, <2>3, <2>4 DEF Adding, Rest
  <2>6. Left(q2) = Left(q) /\ Processed(q2) = Processed(q) /\ Seen(q2, assets) = Seen(q, assets)
    BY <1>1, <2>3, <2>4, <2>5 DEF Left, Processed, Seen
  <2>7. Carries(q, assets, balances, q2, assets, balances)
    BY <2>4, <2>6 DEF Carries, Moved
  <2>8. Single(q2) BY <1>1, <1>5, <2>3, <2>4, <2>5 DEF Single
  <2>9. Beaten(q2, assets) /\ MovedKnown(q2, assets)
    BY <1>5, <2>4, <2>5 DEF Beaten, MovedKnown, Moved, Kept
  <2> HIDE DEF q
  <2>10. Kept(q2, assets, balances) BY <1>5, <2>7, <2>8, <2>9, KeptGrown
  <2> QED BY <1>1, <2>2, <2>10, SlotKept
<1>8. CASE /\ \A a \in DOMAIN SeenAssets(r) : SeenAssets(r)[a] # key
           /\ \E queue \in FlushQueues(<<new>>, q.updates, q.inserts) :
                reqs' = [reqs EXCEPT ![r] = [Flushing(q, "balance", queue) EXCEPT !.asset = nextId]]
  <2>1. PICK queue \in FlushQueues(<<new>>, q.updates, q.inserts) :
          reqs' = [reqs EXCEPT ![r] = [Flushing(q, "balance", queue) EXCEPT !.asset = nextId]]
    BY <1>8
  <2>2. queue # <<>> /\ Head(queue) = new BY <1>4, Queues
  <2>3. /\ OnePerRow(Tail(queue))
        /\ Members(Tail(queue)) = q.updates \cup Members(q.inserts)
    BY <1>4, <1>5, Queued DEF Single
  <2> DEFINE q1 == Flushing(q, "balance", queue)
             q2 == [q1 EXCEPT !.asset = nextId]
  <2>4. /\ DOMAIN q1 = DOMAIN q /\ q1.pc = "flush" /\ q1.next = "balance"
        /\ q1.queue = queue /\ q1.updates = {} /\ q1.inserts = <<>>
        /\ \A f \in DOMAIN q \ {"pc", "next", "queue", "updates", "inserts"} : q1[f] = q[f]
    BY <1>3, Flushed
  <2> HIDE DEF q1
  <2>5. q2.asset = nextId /\ \A f \in DOMAIN q \ {"asset"} : q2[f] = q1[f]
    BY <1>3, <2>4 DEF IsSession, Fields
  <2>6. reqs' = [reqs EXCEPT ![r] = q2] BY <2>1 DEF q1
  <2> HIDE DEF q2
  <2>7. /\ q2.wallet = q.wallet /\ q2.items = q.items /\ q2.i = q.i /\ q2.writes = q.writes
        /\ q2.newAssets = q.newAssets /\ q2.moved = q.moved
    BY <1>3, <1>4, <2>4, <2>5 DEF IsSession, Fields
  <2>8. /\ q2.pc = "flush" /\ q2.next = "balance" /\ q2.queue = queue
        /\ q2.updates = {} /\ q2.inserts = <<>>
    BY <1>3, <2>4, <2>5 DEF IsSession, Fields
  <2>9. KeyOf(ItemOf(q2)) = key BY <2>7 DEF ItemOf
  <2>10. Adding(q2) /\ Rest(q2) = Tail(queue)
    BY <2>2, <2>5, <2>8, <2>9 DEF Adding, Rest
  <2>11. Left(q2) = Left(q) /\ Single(q2)
    BY <1>6, <2>3, <2>8, <2>10, NoMembers DEF Left, Single
  <2>12. Processed(q2) = Processed(q) /\ Seen(q2, assets) = Seen(q, assets)
    BY <1>1, <2>7, <2>8 DEF Processed, Seen
  <2>13. Carries(q, assets, balances, q2, assets, balances)
    BY <2>7, <2>11, <2>12 DEF Carries, Moved
  <2>14. Beaten(q2, assets) /\ MovedKnown(q2, assets)
    <3>1. \A a \in DOMAIN assets : assets[a] # key
      <4> SUFFICES ASSUME NEW a \in DOMAIN assets, assets[a] = key PROVE FALSE
        OBVIOUS
      <4>1. a \notin DOMAIN q.newAssets BY <1>2 DEF Good, NewIds
      <4>2. a \in DOMAIN SeenAssets(r) /\ SeenAssets(r)[a] = assets[a]
        BY <4>1 DEF SeenAssets, Over
      <4> QED BY <1>8, <4>2
    <3> QED BY <1>5, <2>7, <2>9, <3>1 DEF Beaten, MovedKnown, Moved, Kept
  <2> HIDE DEF q
  <2>15. Kept(q2, assets, balances) BY <1>5, <2>11, <2>13, <2>14, KeptGrown
  <2> QED BY <1>1, <2>6, <2>15, SlotKept
<1> QED
  <2>1. \/ \E a : reqs' = [reqs EXCEPT ![r].pc = "balance", ![r].asset = a]
        \/ /\ \A a \in DOMAIN SeenAssets(r) : SeenAssets(r)[a] # key
           /\ \E queue \in FlushQueues(<<new>>, q.updates, q.inserts) :
                reqs' = [reqs EXCEPT ![r] = [Flushing(q, "balance", queue) EXCEPT !.asset = nextId]]
    BY DEF FindAsset
  <2> QED BY <1>7, <1>8, <2>1

(* The lookup of a row stages what makes it as asked.                       *)
LEMMA FindBalanceKept ==
  ASSUME MInv, KInv, NEW r \in Slots, FindBalance(r)
  PROVE  KInv'
<1> DEFINE q == reqs[r]
           p == <<q.wallet, q.asset>>
           row == RowOf(ItemOf(q))
           known == p \in DOMAIN SeenRows(r)
           columns == IF known THEN Changed(SeenRows(r)[p], ItemOf(q)) ELSE Columns
           change == [kind |-> IF known THEN "update" ELSE "insert",
                      row |-> p, to |-> row, columns |-> columns]
           updates == IF known /\ columns # {} THEN q.updates \cup {change} ELSE q.updates
           inserts == IF known THEN q.inserts ELSE Append(q.inserts, change)
           found == [q EXCEPT !.moved = @ \ {<<"row", p>>}]
           new == IF known /\ columns = {} THEN {} ELSE {change}
<1>1. /\ r \in Active /\ UNCHANGED <<tables, nextId>>
      /\ q.pc = "balance" \/ (q.pc = "flush" /\ q.queue = <<>> /\ q.next = "balance")
  BY DEF FindBalance, At, Active
<1>2. Good(q, assets, balances, nextId) BY <1>1 DEF MInv
<1>3. IsPut(q, assets, balances) /\ ~ Adding(q) /\ IsSession(q) /\ Names(q, assets)
      /\ q.op = "put"
  BY <1>1, <1>2 DEF Good, IsPut, IsDelete, Adding
<1>4. /\ "items" \in DOMAIN q /\ q.items \in Seq(Item) /\ Distinct(q.items)
      /\ q.i \in 1 .. Len(q.items)
      /\ q.updates \in SUBSET Statements(q, assets) /\ IsFiniteSet(q.updates)
      /\ q.inserts \in Seq(Statements(q, assets))
      /\ q.asset \in DOMAIN Seen(q, assets) /\ Seen(q, assets)[q.asset] = KeyOf(ItemOf(q))
  BY <1>1, <1>3 DEF IsPut
<1>5. Kept(q, assets, balances) /\ Single(q) /\ q.queue = <<>> /\ Rest(q) = <<>>
  BY <1>1, <1>3 DEF KInv, Kept, Single, Rest
<1>6. /\ Left(q) = q.updates \cup Members(q.inserts) /\ Processed(q) = 1 .. q.i - 1
      /\ ItemOf(q) = q.items[q.i] /\ IsFor(q, assets, q.i, q.asset)
  BY <1>1, <1>4, <1>5, NoMembers DEF Left, Processed, ItemOf, IsFor
<1>7. p \notin DOMAIN q.writes /\ \A s \in Left(q) : s.row # p
  <2> HIDE DEF q
  <2> QED BY <1>3, <1>4, <1>5, <1>6, Unlooked
<1>8. /\ known <=> p \in DOMAIN balances
      /\ known => SeenRows(r)[p] = balances[p]
  BY <1>7 DEF SeenRows, Over
<1>9. row = [c \in Columns |-> row[c]] BY DEF RowOf
<1>10. /\ columns \subseteq Columns /\ (~ known => columns = Columns)
       /\ known => \A c \in Columns \ columns : balances[p][c] = row[c]
       /\ \A c \in Columns \ columns : row[c] # TooLarge
  <2>1. CASE known
    <3>1. balances[p] \in Balance /\ columns = Changed(balances[p], ItemOf(q))
      BY <1>8, <2>1 DEF MInv, TablesInv
    <3>2. \A c \in Columns \ columns : row[c] = balances[p][c] /\ balances[p][c] # TooLarge
      BY <3>1, UnchangedFits
    <3>3. columns \subseteq Columns BY <3>1 DEF Changed
    <3> HIDE DEF row, columns, p, known
    <3> QED BY <2>1, <3>2, <3>3
  <2>2. CASE ~ known BY <2>2
  <2> QED BY <2>1, <2>2
<1>11. known /\ columns = {} => p \in DOMAIN balances /\ balances[p] = row
  <2> SUFFICES ASSUME known, columns = {} PROVE balances[p] = row
    BY <1>8
  <2>1. p \in DOMAIN balances /\ balances[p] \in [Columns -> Values]
    BY <1>8 DEF MInv, TablesInv, Balance
  <2>2. \A c \in Columns : balances[p][c] = row[c] BY <1>10
  <2> HIDE DEF row, p
  <2> QED BY <1>9, <2>1, <2>2
<1>12. /\ change.row = p /\ change.to = row /\ change.columns = columns
       /\ change.kind = IF known THEN "update" ELSE "insert"
  OBVIOUS
<1>13. change \in Statements(q, assets)
  <2> DEFINE k == IF known THEN "update" ELSE "insert"
  <2>1. k \in {"update", "insert"} /\ columns \in SUBSET Columns BY <1>10
  <2> SUFFICES [kind |-> k, row |-> p, to |-> row, columns |-> columns]
                 \in Statements(q, assets)
    OBVIOUS
  <2>2. \A c \in Columns \ columns : RowOf(ItemOf(q))[c] # TooLarge BY <1>10
  <2> HIDE DEF k, columns
  <2> QED BY <1>1, <1>3, <1>4, <2>1, <2>2, Staged
<1> HIDE DEF change
<1>14. columns # {} \/ known BY <1>10 DEF Columns
<1> HIDE DEF known, columns
<1>15. /\ updates \in SUBSET Statements(q, assets) /\ IsFiniteSet(updates)
       /\ inserts \in Seq(Statements(q, assets))
  BY <1>4, <1>13, FS_AddElement, AppendProperties
<1>16. /\ OneEach(updates, inserts)
       /\ updates \cup Members(inserts) = Left(q) \cup new
  <2>1. OneEach(q.updates, q.inserts) /\ OnePerRow(q.inserts) BY <1>5 DEF Single, OneEach
  <2>2. \A s \in Members(q.inserts) : s.row # change.row BY <1>6, <1>7, <1>12
  <2>3. \A s \in q.updates : s.row # change.row BY <1>6, <1>7, <1>12
  <2>4. CASE known
    <3>1. inserts = q.inserts /\ updates = q.updates \cup new BY <2>4
    <3>2. \A s, t \in updates : s.row = t.row => s = t
      BY <2>1, <2>3, <3>1 DEF OneEach
    <3>3. \A s \in updates, t \in Members(inserts) : s.row # t.row
      BY <2>1, <2>2, <3>1 DEF OneEach
    <3> HIDE DEF new, inserts, updates
    <3> QED BY <1>6, <2>1, <3>1, <3>2, <3>3 DEF OneEach
  <2>5. CASE ~ known
    <3>1. inserts = Append(q.inserts, change) /\ updates = q.updates /\ new = {change}
      BY <2>5
    <3>2. OnePerRow(inserts) /\ Members(inserts) = Members(q.inserts) \cup {change}
      BY <1>4, <1>13, <2>1, <2>2, <3>1, AppendMembers
    <3> HIDE DEF new, inserts, updates
    <3> QED BY <1>6, <2>1, <2>3, <3>1, <3>2 DEF OneEach
  <2> QED BY <2>4, <2>5
<1> HIDE DEF updates, inserts
<1>17. /\ DOMAIN found = DOMAIN q /\ \A f \in DOMAIN q \ {"moved"} : found[f] = q[f]
       /\ found.moved = q.moved \ {<<"row", p>>} /\ IsSession(found)
  BY <1>3 DEF IsSession, Fields
<1> HIDE DEF found
<1>18. ASSUME NEW q2, q2.wallet = q.wallet, q2.items = q.items, q2.writes = q.writes,
              q2.newAssets = q.newAssets, q2.moved = q.moved \ {<<"row", p>>},
              Processed(q2) = Processed(q) \cup {q.i}, Left(q2) = Left(q) \cup new,
              ~ Adding(q2), Single(q2)
       PROVE  Kept(q2, assets, balances)
  <2>1. Seen(q2, assets) = Seen(q, assets) BY <1>18 DEF Seen
  <2>2. \A s \in new : s.row = p /\ Foreseen(q2, balances, s)
    <3> SUFFICES ASSUME new = {change} PROVE Foreseen(q2, balances, change)
      BY <1>12
    <3>1. columns # {} BY <1>14
    <3> QED BY <1>7, <1>8, <1>10, <1>12, <1>18, <3>1 DEF Foreseen
  <2>3. new # {} \/ (p \in DOMAIN balances /\ balances[p] = RowOf(q.items[q.i]))
    BY <1>6, <1>11
  <2> HIDE DEF q, new
  <2> QED BY <1>3, <1>4, <1>5, <1>6, <1>18, <2>1, <2>2, <2>3, LookedUp DEF p
<1> HIDE DEF new
<1>19. CASE /\ q.i # Len(q.items)
            /\ reqs' = [reqs EXCEPT ![r] = [found EXCEPT !.pc = "asset", !.i = @ + 1,
                                              !.updates = updates, !.inserts = inserts]]
  <2> DEFINE q2 == [found EXCEPT !.pc = "asset", !.i = found.i + 1,
                                 !.updates = updates, !.inserts = inserts]
  <2>1. reqs' = [reqs EXCEPT ![r] = q2] BY <1>19
  <2>2. /\ DOMAIN q2 = DOMAIN q /\ q2.pc = "asset" /\ q2.i = q.i + 1
        /\ q2.updates = updates /\ q2.inserts = inserts
        /\ q2.moved = found.moved
        /\ \A f \in DOMAIN q \ {"moved", "pc", "i", "updates", "inserts"} : q2[f] = q[f]
    BY <1>3, <1>17 DEF IsSession, Fields
  <2> HIDE DEF q2
  <2>3. /\ q2.wallet = q.wallet /\ q2.items = q.items /\ q2.newAssets = q.newAssets
        /\ q2.writes = q.writes /\ q2.queue = q.queue
    BY <1>3, <1>4, <2>2 DEF IsSession, Fields
  <2>4. ~ Adding(q2) /\ Rest(q2) = <<>> BY <1>5, <2>2, <2>3 DEF Adding, Rest
  <2>5. Left(q2) = Left(q) \cup new BY <1>16, <2>2, <2>4, NoMembers DEF Left
  <2>6. Processed(q2) = Processed(q) \cup {q.i}
    <3>1. Processed(q2) = 1 .. (q.i + 1) - 1 BY <2>2 DEF Processed
    <3>2. q.i \in Nat /\ q.i >= 1 BY <1>4, LenProperties
    <3> HIDE DEF q
    <3> QED BY <1>6, <3>1, <3>2
  <2>7. Single(q2) BY <1>5, <1>16, <2>2, <2>3, <2>4, NoMembers DEF Single
  <2>8. Kept(q2, assets, balances) BY <1>17, <1>18, <2>2, <2>3, <2>4, <2>5, <2>6, <2>7
  <2> QED BY <1>1, <2>1, <2>8, SlotKept
<1>20. CASE /\ q.i = Len(q.items)
            /\ \E queue \in FlushQueues(<<>>, updates, inserts) :
                 reqs' = [reqs EXCEPT ![r] = Flushing(found, "end", queue)]
  <2>1. PICK queue \in FlushQueues(<<>>, updates, inserts) :
          reqs' = [reqs EXCEPT ![r] = Flushing(found, "end", queue)]
    BY <1>20
  <2>2. OnePerRow(queue) /\ Members(queue) = updates \cup Members(inserts)
    BY <1>15, <1>16, Queued
  <2> DEFINE q2 == Flushing(found, "end", queue)
  <2>3. /\ DOMAIN q2 = DOMAIN found /\ q2.pc = "flush" /\ q2.next = "end"
        /\ q2.queue = queue /\ q2.updates = {} /\ q2.inserts = <<>>
        /\ \A f \in DOMAIN found \ {"pc", "next", "queue", "updates", "inserts"} : q2[f] = found[f]
    BY <1>17, Flushed
  <2>4. reqs' = [reqs EXCEPT ![r] = q2] BY <2>1
  <2> HIDE DEF q2
  <2>5. /\ q2.wallet = q.wallet /\ q2.items = q.items /\ q2.newAssets = q.newAssets
        /\ q2.writes = q.writes /\ q2.moved = found.moved
    BY <1>3, <1>4, <1>17, <2>3 DEF IsSession, Fields
  <2>6. ~ Adding(q2) /\ Rest(q2) = queue BY <2>3 DEF Adding, Rest
  <2>7. Left(q2) = Left(q) \cup new BY <1>16, <2>2, <2>3, <2>6, NoMembers DEF Left
  <2>8. Processed(q2) = Processed(q) \cup {q.i}
    <3>1. Processed(q2) = DOMAIN q.items BY <2>3, <2>5 DEF Processed
    <3>2. Len(q.items) \in Nat /\ DOMAIN q.items = 1 .. Len(q.items) BY <1>4, LenProperties
    <3>3. q.i = Len(q.items) /\ q.i >= 1 BY <1>4, <1>20
    <3> HIDE DEF q
    <3> QED BY <1>6, <3>1, <3>2, <3>3
  <2>9. Single(q2) BY <2>2, <2>3, <2>6, NoMembers DEF Single
  <2>10. Kept(q2, assets, balances) BY <1>17, <1>18, <2>5, <2>6, <2>7, <2>8, <2>9
  <2> QED BY <1>1, <2>4, <2>10, SlotKept
<1> QED
  <2>1. \/ /\ q.i # Len(q.items)
           /\ reqs' = [reqs EXCEPT ![r] = [found EXCEPT !.pc = "asset", !.i = @ + 1,
                                             !.updates = updates, !.inserts = inserts]]
        \/ /\ q.i = Len(q.items)
           /\ \E queue \in FlushQueues(<<>>, updates, inserts) :
                reqs' = [reqs EXCEPT ![r] = Flushing(found, "end", queue)]
    BY DEF FindBalance, found, updates, inserts, change, known, columns
  <2> QED BY <1>19, <1>20, <2>1

(* The lookup of a DELETE is none of a PUT.                                 *)
LEMMA FindRowKept ==
  ASSUME MInv, KInv, NEW r \in Slots, FindRow(r)
  PROVE  KInv'
<1> DEFINE q == reqs[r]
           q2 == Flushing(q, "end", <<[kind |-> "delete", row |-> <<q.wallet, q.asset>>]>>)
<1>1. r \in Active /\ q.pc = "find" /\ UNCHANGED <<tables, nextId>>
  BY DEF FindRow, Active
<1>2. q.op = "delete" /\ IsSession(q) BY <1>1 DEF MInv, Good, IsPut, IsDelete
<1>3. CASE Fail(r, 404) BY <1>1, <1>3, FailKept
<1>4. CASE reqs' = [reqs EXCEPT ![r] = q2]
  <2>1. q2.op = q.op BY <1>2, Flushed DEF IsSession, Fields
  <2> QED BY <1>1, <1>2, <1>4, <2>1, SlotKept
<1> QED BY <1>3, <1>4 DEF FindRow

------------------------------------------------------------------------------
(* Statements that keep them *)

(* Only a PUT inserts an asset, the one its session is adding.              *)
LEMMA InsertsNew ==
  ASSUME MInv, NEW r \in Slots, reqs[r].pc = "flush", reqs[r].queue # <<>>,
         Statement(r).kind = "asset"
  PROVE  /\ IsPut(reqs[r], assets, balances) /\ Adding(reqs[r]) /\ IsSession(reqs[r])
         /\ Tail(reqs[r].queue) \in Seq(Statements(reqs[r], assets))
<1> DEFINE q == reqs[r]
<1>1. Good(q, assets, balances, nextId) BY DEF MInv, Active
<1>2. ~ IsDelete(q, balances)
  <2>1. q.queue = <<[kind |-> "delete", row |-> <<q.wallet, q.asset>>]>> =>
          Head(q.queue).kind = "delete"
    OBVIOUS
  <2> QED BY <2>1 DEF IsDelete, Statement
<1>3. IsPut(q, assets, balances) /\ IsSession(q) BY <1>1, <1>2 DEF Good
<1>4. q.queue \notin Seq(Statements(q, assets))
  <2>1. q.queue \in Seq(Statements(q, assets)) => Head(q.queue) \in Statements(q, assets)
    BY HeadTailProperties
  <2>2. \A x \in Statements(q, assets) : x.kind \in {"update", "insert"} BY DEF Statements
  <2> QED BY <2>1, <2>2 DEF Statement
<1> QED BY <1>3, <1>4 DEF IsPut

(* A new asset is no one else's, or another one has committed it.           *)
LEMMA InsertAssetKept ==
  ASSUME MInv, KInv, NEW r \in Slots, reqs[r].pc = "flush", reqs[r].queue # <<>>,
         WaitsFor(r) = {}, InsertAsset(r, Statement(r)), UNCHANGED <<tables, nextId>>
  PROVE  KInv'
<1> DEFINE q == reqs[r]
           s == Statement(r)
           q2 == [q EXCEPT !.queue = Tail(q.queue), !.newAssets = Assign(q.newAssets, s.id, s.key)]
<1>1. r \in Active /\ s.kind = "asset" BY DEF Active, InsertAsset
<1>2. Good(q, assets, balances, nextId) BY <1>1 DEF MInv
<1>3. IsPut(q, assets, balances) /\ Adding(q) /\ IsSession(q) /\ q.op = "put"
      /\ Tail(q.queue) \in Seq(Statements(q, assets))
  BY <1>1, <1>2, InsertsNew DEF IsPut
<1>4. CASE Fail(r, 500) BY <1>4, FailKept
<1>5. CASE reqs' = [reqs EXCEPT ![r] = q2]
  <2>1. s.id = q.asset /\ s.id \notin DOMAIN q.newAssets /\ s.id \notin DOMAIN assets
    BY <1>2, <1>3 DEF Adding, Statement, Good, NewIds
  <2>2. /\ q2.queue = Tail(q.queue) /\ q2.newAssets = Assign(q.newAssets, s.id, s.key)
        /\ \A f \in DOMAIN q \ {"queue", "newAssets"} : q2[f] = q[f]
    BY <1>3 DEF IsSession, Fields
  <2> HIDE DEF q2
  <2>3. /\ q2.op = q.op /\ q2.pc = q.pc /\ q2.next = q.next /\ q2.i = q.i
        /\ q2.wallet = q.wallet /\ q2.items = q.items /\ q2.writes = q.writes
        /\ q2.moved = q.moved /\ q2.updates = q.updates /\ q2.inserts = q.inserts
    BY <1>3, <2>2 DEF IsSession, Fields, IsPut
  <2>4. Kept(q, assets, balances) /\ Single(q) BY <1>1, <1>3 DEF KInv, Kept
  <2>5. /\ \A a \in DOMAIN Seen(q, assets) :
             a \in DOMAIN Seen(q2, assets) /\ Seen(q2, assets)[a] = Seen(q, assets)[a]
    BY <2>1, <2>2 DEF Seen, Over, Assign
  <2>6. ~ Adding(q2)
    <3>1. Tail(q.queue) # <<>> => Head(Tail(q.queue)) \in Statements(q, assets)
      BY <1>3, HeadTailProperties
    <3>2. \A x \in Statements(q, assets) : x.kind \in {"update", "insert"} BY DEF Statements
    <3>3. Adding(q2) => q2.queue # <<>> /\ Head(q2.queue).kind = "asset" BY DEF Adding
    <3> QED BY <2>2, <3>1, <3>2, <3>3
  <2>7. Rest(q2) = Rest(q) BY <1>3, <2>2, <2>6 DEF Rest
  <2>8. Left(q2) = Left(q) /\ Processed(q2) = Processed(q)
    BY <2>3, <2>7 DEF Left, Processed
  <2>9. Carries(q, assets, balances, q2, assets, balances)
    BY <2>3, <2>5, <2>8 DEF Carries, Moved
  <2>10. Single(q2) BY <2>3, <2>4, <2>7 DEF Single
  <2>11. Beaten(q2, assets) /\ MovedKnown(q2, assets)
    BY <2>3, <2>4, <2>6 DEF Beaten, MovedKnown, Moved, Kept
  <2> HIDE DEF q
  <2>12. Kept(q2, assets, balances) BY <2>4, <2>9, <2>10, <2>11, KeptGrown
  <2> QED BY <1>5, <2>12, SlotKept
<1> QED
  <2>1. reqs' = [reqs EXCEPT ![r].queue = Tail(@), ![r].newAssets = Assign(@, s.id, s.key)]
          => reqs' = [reqs EXCEPT ![r] = q2]
    BY DEF MInv
  <2> QED BY <1>4, <1>5, <2>1 DEF InsertAsset

(* A statement for a row at the head of a queue, and what is left after it. *)
LEMMA HeadLeft ==
  ASSUME MInv, KInv, NEW r \in Slots, reqs[r].pc = "flush", reqs[r].queue # <<>>,
         Statement(r).kind \in {"update", "insert"}
  PROVE  /\ IsPut(reqs[r], assets, balances) /\ Kept(reqs[r], assets, balances)
         /\ Statement(r) \in Statements(reqs[r], assets) /\ Statement(r) \in Left(reqs[r])
         /\ reqs[r].updates = {} /\ reqs[r].inserts = <<>>
         /\ Left(reqs[r]) = Members(Tail(reqs[r].queue)) \cup {Statement(r)}
         /\ OnePerRow(Tail(reqs[r].queue))
         /\ \A t \in Members(Tail(reqs[r].queue)) : t.row # Statement(r).row
         /\ Tail(reqs[r].queue) \in Seq(Statements(reqs[r], assets))
<1> DEFINE q == reqs[r]
<1>1. IsPut(q, assets, balances) /\ Statement(r) \in Statements(q, assets) /\ q.op = "put"
  BY RowStatement DEF IsPut
<1>2. Kept(q, assets, balances) /\ Single(q) BY <1>1 DEF KInv, Kept, Active
<1>3. ~ Adding(q)
  <2>1. Adding(q) => Head(q.queue).kind = "asset" BY DEF Adding
  <2> QED BY <2>1 DEF Statement
<1>4. q.queue \in Seq(Statements(q, assets)) BY <1>1, <1>3 DEF IsPut
<1>5. q.updates = {} /\ q.inserts = <<>> /\ Rest(q) = q.queue /\ OnePerRow(q.queue)
  BY <1>2, <1>3 DEF Single, Rest
<1>6. Left(q) = Members(q.queue) BY <1>5, NoMembers DEF Left
<1>7. /\ OnePerRow(Tail(q.queue)) /\ Members(q.queue) = Members(Tail(q.queue)) \cup {Head(q.queue)}
      /\ \A t \in Members(Tail(q.queue)) : t.row # Head(q.queue).row
  BY <1>4, <1>5, TailMembers
<1>8. Tail(q.queue) \in Seq(Statements(q, assets)) BY <1>4, HeadTailProperties
<1> QED BY <1>1, <1>2, <1>5, <1>6, <1>7, <1>8 DEF Statement

(* A statement writes the row that it is the only one about.                *)
LEMMA WriteKept ==
  ASSUME MInv, KInv, NEW r \in Slots, reqs[r].pc = "flush", reqs[r].queue # <<>>,
         Statement(r).kind \in {"update", "insert"}, NEW row,
         Written(r, Statement(r).row, row), UNCHANGED <<tables, nextId>>,
         \/ row = Statement(r).to
         \/ /\ Moved(reqs[r], Statement(r).row)
            /\ \E c \in Columns : row[c] = Statement(r).to[c]
  PROVE  KInv'
<1> DEFINE q == reqs[r]
           s == Statement(r)
           q2 == [q EXCEPT !.queue = Tail(q.queue), !.writes = Assign(q.writes, s.row, row)]
<1>1. /\ IsPut(q, assets, balances) /\ Kept(q, assets, balances)
      /\ s \in Statements(q, assets) /\ s \in Left(q)
      /\ q.updates = {} /\ q.inserts = <<>>
      /\ Left(q) = Members(Tail(q.queue)) \cup {s} /\ OnePerRow(Tail(q.queue))
      /\ \A t \in Members(Tail(q.queue)) : t.row # s.row
      /\ Tail(q.queue) \in Seq(Statements(q, assets))
  BY HeadLeft
<1>2. IsSession(q) BY DEF MInv, Good, Active
<1>3. /\ q.items \in Seq(Item) /\ Distinct(q.items) /\ "items" \in DOMAIN q
      /\ q.next \in {"balance", "end"} /\ (q.next = "balance" => q.i \in 1 .. Len(q.items))
  BY <1>1 DEF IsPut
<1>4. Processed(q) \subseteq 1 .. Len(q.items)
  <2>1. DOMAIN q.items = 1 .. Len(q.items) /\ Len(q.items) \in Nat BY <1>3, LenProperties
  <2>2. CASE q.next = "end" BY <2>1, <2>2 DEF Processed
  <2>3. CASE q.next = "balance"
    <3>1. Processed(q) = 1 .. q.i - 1 BY <2>3 DEF Processed
    <3> HIDE DEF q
    <3> QED BY <1>3, <2>1, <2>3, <3>1
  <2> QED BY <1>3, <2>2, <2>3
<1>5. s.to = Rows(q)[Seen(q, assets)[s.row[2]]]
  BY <1>1 DEF Statements
<1>6. reqs' = [reqs EXCEPT ![r] = q2] BY DEF Written, MInv
<1>7. /\ q2.queue = Tail(q.queue) /\ q2.writes = Assign(q.writes, s.row, row)
      /\ \A f \in DOMAIN q \ {"queue", "writes"} : q2[f] = q[f]
  BY <1>2 DEF IsSession, Fields
<1> HIDE DEF q2
<1>8. /\ q2.op = q.op /\ q2.pc = q.pc /\ q2.next = q.next /\ q2.i = q.i
      /\ q2.wallet = q.wallet /\ q2.items = q.items /\ q2.moved = q.moved
      /\ q2.updates = q.updates /\ q2.inserts = q.inserts /\ q2.newAssets = q.newAssets
  BY <1>2, <1>3, <1>7 DEF IsSession, Fields
<1> HIDE DEF s
<1>9. /\ DOMAIN q2.writes = DOMAIN q.writes \cup {s.row} /\ q2.writes[s.row] = row
      /\ \A p \in DOMAIN q.writes \ {s.row} : q2.writes[p] = q.writes[p]
  BY <1>7 DEF Assign, Over
<1>10. Processed(q2) = Processed(q) /\ Seen(q2, assets) = Seen(q, assets)
  BY <1>8 DEF Processed, Seen
<1>11. ~ Adding(q2)
  <2>1. q2.queue # <<>> => Head(q2.queue) \in Statements(q, assets)
    BY <1>1, <1>7, HeadTailProperties
  <2>2. \A x \in Statements(q, assets) : x.kind \in {"update", "insert"} BY DEF Statements
  <2>3. Adding(q2) => q2.queue # <<>> /\ Head(q2.queue).kind = "asset" BY DEF Adding
  <2> QED BY <2>1, <2>2, <2>3
<1>12. Rest(q2) = Tail(q.queue) BY <1>7, <1>11 DEF Rest
<1>13. Left(q2) = Members(Tail(q.queue)) BY <1>1, <1>8, <1>12, NoMembers DEF Left
<1>14. Single(q2) BY <1>1, <1>8, <1>12, NoMembers DEF Single
<1>15. row = s.to \/ (Moved(q, s.row) /\ \E c \in Columns : row[c] = s.to[c])
  BY DEF s
<1> HIDE DEF q
<1>16. Kept(q2, assets, balances)
  <2>1. Left(q) = Left(q2) \cup {s} /\ \A t \in Left(q2) : t.row # s.row
    BY <1>1, <1>13 DEF s
  <2>2. \/ q2.writes[s.row] = s.to
        \/ Moved(q, s.row) /\ \E c \in Columns : q2.writes[s.row][c] = s.to[c]
    BY <1>9, <1>15
  <2>3. Kept(q, assets, balances) /\ s \in Left(q) BY <1>1 DEF s
  <2> QED
    BY <1>3, <1>4, <1>5, <1>8, <1>9, <1>10, <1>11, <1>14, <2>1, <2>2, <2>3, Wrote
<1> QED BY <1>6, <1>16, SlotKept

(* An update writes what the item asks, or what a conflict left of it.      *)
LEMMA UpdateRowKept ==
  ASSUME MInv, KInv, NEW r \in Slots, reqs[r].pc = "flush", reqs[r].queue # <<>>,
         WaitsFor(r) = {}, UpdateRow(r, Statement(r)), UNCHANGED <<tables, nextId>>
  PROVE  KInv'
<1> DEFINE q == reqs[r]
           s == Statement(r)
           p == s.row
           old == SeenRows(r)[p]
           row == [c \in Columns |-> IF c \in s.columns THEN s.to[c] ELSE old[c]]
<1>1. s.kind = "update" BY DEF UpdateRow
<1>2. /\ s \in Statements(q, assets) /\ s \in Left(q) /\ Kept(q, assets, balances)
  BY <1>1, HeadLeft
<1>3. s.to = [c \in Columns |-> s.to[c]] /\ s.columns \subseteq Columns
  BY <1>2 DEF Statements, Cells
<1>4. Foreseen(q, balances, s) BY <1>2 DEF Kept
<1>5. CASE Fail(r, 500) BY <1>5, FailKept
<1>6. CASE p \in DOMAIN SeenRows(r) /\ Written(r, p, row)
  <2>1. p \notin DOMAIN q.writes /\ s.columns # {} BY <1>4 DEF Foreseen
  <2>2. old = balances[p] BY <1>6, <2>1, SeenRow
  <2>3. Moved(q, p) \/ \A c \in Columns \ s.columns : old[c] = s.to[c]
    BY <1>1, <1>4, <2>2 DEF Foreseen
  <2> HIDE DEF old
  <2>4. \A c \in Columns : row[c] = IF c \in s.columns THEN s.to[c] ELSE old[c] OBVIOUS
  <2>5. \E c \in Columns : row[c] = s.to[c] BY <1>3, <2>1
  <2>6. (\A c \in Columns \ s.columns : old[c] = s.to[c]) => row = s.to BY <1>3
  <2> HIDE DEF row
  <2>7. row = s.to \/ (Moved(q, p) /\ \E c \in Columns : row[c] = s.to[c])
    BY <2>3, <2>5, <2>6
  <2> QED BY <1>1, <1>6, <2>7, WriteKept
<1> QED BY <1>5, <1>6 DEF UpdateRow

(* An insert writes the row as the item asks.                               *)
LEMMA InsertRowKept ==
  ASSUME MInv, KInv, NEW r \in Slots, reqs[r].pc = "flush", reqs[r].queue # <<>>,
         WaitsFor(r) = {}, InsertRow(r, Statement(r)), UNCHANGED <<tables, nextId>>
  PROVE  KInv'
<1>1. CASE Fail(r, 500) BY <1>1, FailKept
<1>2. CASE Written(r, Statement(r).row, Statement(r).to)
  <2>1. Statement(r).kind \in {"update", "insert"} BY DEF InsertRow
  <2> QED BY <1>2, <2>1, WriteKept
<1> QED BY <1>1, <1>2 DEF InsertRow

(* A PUT queues no delete.                                                  *)
LEMMA DeleteRowKept ==
  ASSUME MInv, KInv, NEW r \in Slots, reqs[r].pc = "flush", reqs[r].queue # <<>>,
         WaitsFor(r) = {}, DeleteRow(r, Statement(r)), UNCHANGED <<tables, nextId>>
  PROVE  KInv'
<1> DEFINE q == reqs[r]
           s == Statement(r)
<1>1. r \in Active /\ s.kind = "delete" BY DEF Active, DeleteRow
<1>2. Good(q, assets, balances, nextId) /\ IsSession(q) BY <1>1 DEF MInv, Good
<1>3. ~ IsPut(q, assets, balances)
  <2>1. Adding(q) => s.kind = "asset" BY DEF Adding, Statement
  <2>2. q.queue \in Seq(Statements(q, assets)) => s.kind \in {"update", "insert"}
    <3>1. q.queue \in Seq(Statements(q, assets)) => s \in Statements(q, assets)
      BY HeadTailProperties DEF Statement
    <3> QED BY <3>1 DEF Statements
  <2> QED BY <1>1, <2>1, <2>2 DEF IsPut
<1>4. q.op = "delete" BY <1>2, <1>3 DEF Good, IsDelete
<1>5. PICK q2 : reqs' = [reqs EXCEPT ![r] = q2] /\ q2.op = q.op
  <2>1. CASE Written(r, s.row, Gone)
    <3> DEFINE q3 == [q EXCEPT !.queue = Tail(q.queue), !.writes = Assign(q.writes, s.row, Gone)]
    <3>1. reqs' = [reqs EXCEPT ![r] = q3] BY <2>1 DEF Written, MInv
    <3>2. q3.op = q.op BY <1>2 DEF IsSession, Fields
    <3> QED BY <3>1, <3>2
  <2>2. CASE reqs' = [reqs EXCEPT ![r].queue = Tail(@)]
    <3> DEFINE q3 == [q EXCEPT !.queue = Tail(q.queue)]
    <3>1. reqs' = [reqs EXCEPT ![r] = q3] BY <2>2 DEF MInv
    <3>2. q3.op = q.op BY <1>2 DEF IsSession, Fields
    <3> QED BY <3>1, <3>2
  <2> QED BY <2>1, <2>2 DEF DeleteRow
<1> QED BY <1>4, <1>5, SlotKept

------------------------------------------------------------------------------
(* Commits that keep them *)

(* What a commit does to the others: they see more assets, and a row that   *)
(* it has changed is moved.                                                 *)
LEMMA CommitMoves ==
  ASSUME MInv, NEW r \in Slots, Commit(r), NEW t \in Active \ {r}, reqs[t].op = "put",
         Kept(reqs[t], assets, balances), NEW t2,
         DOMAIN t2 = DOMAIN reqs[t],
         \A f \in DOMAIN reqs[t] \ {"moved"} : t2[f] = reqs[t][f],
         t2.moved = reqs[t].moved \cup Locked(r)
  PROVE  Kept(t2, assets', balances')
<1> DEFINE q == reqs[r]
           u == reqs[t]
<1>1. Good(u, assets, balances, nextId) /\ IsSession(u) /\ "items" \in DOMAIN u
  BY DEF MInv, Good, IsPut, IsDelete
<1>2. /\ t2.wallet = u.wallet /\ t2.i = u.i /\ t2.asset = u.asset /\ t2.items = u.items
      /\ t2.pc = u.pc /\ t2.next = u.next /\ t2.newAssets = u.newAssets
      /\ t2.writes = u.writes /\ t2.updates = u.updates /\ t2.inserts = u.inserts
      /\ t2.queue = u.queue
  BY <1>1 DEF IsSession, Fields
<1>3. KeyOf(ItemOf(t2)) = KeyOf(ItemOf(u)) BY <1>2 DEF ItemOf
<1>4. Adding(t2) <=> Adding(u) BY <1>2, <1>3 DEF Adding
<1>5. Rest(t2) = Rest(u) BY <1>2, <1>4 DEF Rest
<1>6. Left(t2) = Left(u) /\ Processed(t2) = Processed(u)
  BY <1>2, <1>5 DEF Left, Processed
<1>7. \A a \in DOMAIN Seen(u, assets) :
        a \in DOMAIN Seen(t2, assets') /\ Seen(t2, assets')[a] = Seen(u, assets)[a]
  BY <1>2, Committed DEF Seen, Over
<1>8. \A p : p \in DOMAIN q.writes => <<"row", p>> \in Locked(r)
  BY DEF Locked
<1>9. \A p : \/ Moved(t2, p)
             \/ /\ p \in DOMAIN balances' <=> p \in DOMAIN balances
                /\ p \in DOMAIN balances => balances'[p] = balances[p]
  <2> SUFFICES ASSUME NEW p, p \notin DOMAIN q.writes
               PROVE  /\ p \in DOMAIN balances' <=> p \in DOMAIN balances
                      /\ p \in DOMAIN balances => balances'[p] = balances[p]
    BY <1>8 DEF Moved
  <2> QED BY Committed
<1>10. Carries(u, assets, balances, t2, assets', balances')
  BY <1>2, <1>6, <1>7, <1>9 DEF Carries, Moved
<1>11. Single(t2) BY <1>2, <1>5 DEF Kept, Single
<1>12. Beaten(t2, assets')
  <2> DEFINE key == KeyOf(ItemOf(u))
  <2> SUFFICES ASSUME Adding(u), NEW a \in DOMAIN assets', assets'[a] = key
               PROVE  <<"asset", key>> \in t2.moved
    BY <1>3, <1>4 DEF Beaten
  <2>1. CASE a \in DOMAIN assets
    <3>1. assets[a] = key BY <2>1, Committed
    <3> QED BY <2>1, <3>1 DEF Kept, Beaten
  <2>2. CASE a \in DOMAIN q.newAssets
    <3>1. q.newAssets[a] = key BY <2>2, Committed
    <3> QED BY <2>2, <3>1 DEF Locked
  <2> QED BY <2>1, <2>2, Committed
<1>13. MovedKnown(t2, assets')
  <2> SUFFICES ASSUME NEW p, Moved(t2, p) PROVE p[2] \in DOMAIN assets'
    BY DEF MovedKnown
  <2>1. CASE Moved(u, p)
    BY <2>1, Committed DEF Kept, MovedKnown
  <2>2. CASE <<"row", p>> \in Locked(r)
    <3>1. p \in DOMAIN q.writes BY <2>2 DEF Locked
    <3>2. CASE IsPut(q, assets, balances)
      <4>1. PICK a \in Wanted(q, assets) : p = <<q.wallet, a>>
        BY <3>1, <3>2 DEF IsPut, GoodWrite
      <4> QED BY <4>1, Committed DEF Wanted
    <3>3. CASE IsDelete(q, balances)
      <4>1. p \in DOMAIN balances BY <3>1, <3>3 DEF IsDelete
      <4>2. p \in wallets \X (DOMAIN assets) BY <4>1 DEF MInv, TablesInv
      <4> QED BY <4>2, Committed
    <3> QED BY <3>2, <3>3, Committed DEF Good
  <2> QED BY <2>1, <2>2 DEF Moved
<1> HIDE DEF u
<1> QED BY <1>10, <1>11, <1>12, <1>13, KeptGrown DEF u

(* A commit marks, in the sessions that are left, what it has changed.      *)
LEMMA CommitKept ==
  ASSUME MInv, KInv, NEW r \in Slots, Commit(r)
  PROVE  KInv'
<1> DEFINE with(s) == [reqs[s] EXCEPT !.moved = reqs[s].moved \cup Locked(r)]
<1>1. /\ reqs'[r].pc \in {"read", "done"}
      /\ \A s \in Active \ {r} : reqs'[s] = with(s)
      /\ \A s \in Slots \ Active : s # r => reqs'[s] = reqs[s]
  BY DEF Commit, Done, Active
<1>2. Active' \subseteq Active \ {r} BY <1>1 DEF Active
<1>3. ASSUME NEW s \in Active', reqs'[s].op = "put"
      PROVE  Kept(reqs'[s], assets', balances')
  <2>1. s \in Active \ {r} /\ reqs'[s] = with(s) BY <1>1, <1>2
  <2>2. IsSession(reqs[s]) BY <2>1 DEF MInv, Good
  <2>3. /\ DOMAIN with(s) = DOMAIN reqs[s]
        /\ \A f \in DOMAIN reqs[s] \ {"moved"} : with(s)[f] = reqs[s][f]
        /\ with(s).moved = reqs[s].moved \cup Locked(r)
    BY <2>2 DEF IsSession, Fields
  <2>4. reqs[s].op = "put" BY <1>3, <2>1, <2>2, <2>3 DEF IsSession, Fields
  <2>5. Kept(reqs[s], assets, balances) BY <2>1, <2>4 DEF KInv
  <2> HIDE DEF with
  <2>6. Kept(with(s), assets', balances') BY <2>1, <2>3, <2>4, <2>5, CommitMoves
  <2> QED BY <2>1, <2>6
<1> QED BY <1>3 DEF KInv

(* A merge marks, in the sessions there are, what it has deleted.           *)
LEMMA MergeKept ==
  ASSUME MInv, KInv, NEW u, Merge(u)
  PROVE  KInv'
<1> SUFFICES ASSUME NEW s \in Active', reqs'[s].op = "put"
             PROVE  Kept(reqs'[s], assets', balances')
  BY DEF KInv
<1> DEFINE q == reqs[s]
           q2 == reqs'[s]
<1>1. /\ s \in Active /\ assets' = assets
      /\ \A p : p \in DOMAIN balances' <=> p \in DOMAIN balances /\ p[1] \notin WalletsOf(u)
      /\ \A p \in DOMAIN balances' : balances'[p] = balances[p]
      /\ \A f \in DOMAIN q \ {"moved"} : q2[f] = q[f]
      /\ q2.moved = q.moved
           \cup {<<"row", p>> : p \in {x \in DOMAIN balances : x[1] \in WalletsOf(u)}}
           \cup {<<"wallet", w>> : w \in WalletsOf(u)}
  BY MergeDoes
<1>2. Good(q, assets, balances, nextId) /\ IsSession(q) BY <1>1 DEF MInv, Good
<1>3. /\ q2.wallet = q.wallet /\ q2.i = q.i /\ q2.asset = q.asset
      /\ q2.pc = q.pc /\ q2.next = q.next /\ q2.newAssets = q.newAssets
      /\ q2.writes = q.writes /\ q2.updates = q.updates /\ q2.inserts = q.inserts
      /\ q2.queue = q.queue /\ q2.op = q.op
  BY <1>1, <1>2 DEF IsSession, Fields
<1>4. "items" \in DOMAIN q /\ q.op = "put" BY <1>2, <1>3 DEF Good, IsPut, IsDelete
<1>5. q2.items = q.items BY <1>1, <1>4
<1>6. Kept(q, assets, balances) BY <1>1, <1>4 DEF KInv
<1>7. \A p : Moved(q2, p) <=> Moved(q, p) \/ (p \in DOMAIN balances /\ p[1] \in WalletsOf(u))
  <2>1. \A p : <<"row", p>> \in {<<"row", x>> : x \in {y \in DOMAIN balances : y[1] \in WalletsOf(u)}}
                 <=> p \in DOMAIN balances /\ p[1] \in WalletsOf(u)
    OBVIOUS
  <2>2. \A p, w : <<"row", p>> # <<"wallet", w>> OBVIOUS
  <2> HIDE DEF q, q2
  <2> QED BY <1>1, <2>1, <2>2 DEF Moved
<1>8. \A x : x \in q.moved => x \in q2.moved BY <1>1
<1> HIDE DEF q, q2
<1>9. KeyOf(ItemOf(q2)) = KeyOf(ItemOf(q)) BY <1>3, <1>5 DEF ItemOf
<1>10. Adding(q2) <=> Adding(q) BY <1>3, <1>9 DEF Adding
<1>11. Rest(q2) = Rest(q) BY <1>3, <1>10 DEF Rest
<1>12. Left(q2) = Left(q) /\ Processed(q2) = Processed(q) /\ Seen(q2, assets) = Seen(q, assets)
  BY <1>3, <1>5, <1>11 DEF Left, Processed, Seen
<1>13. Carries(q, assets, balances, q2, assets, balances')
  BY <1>1, <1>3, <1>5, <1>7, <1>12 DEF Carries
<1>14. Single(q2) BY <1>3, <1>6, <1>11 DEF Kept, Single
<1>15. Beaten(q2, assets) BY <1>6, <1>8, <1>9, <1>10 DEF Kept, Beaten
<1>16. MovedKnown(q2, assets) BY <1>6, <1>7 DEF Kept, MovedKnown, MInv, TablesInv
<1> QED BY <1>1, <1>6, <1>13, <1>14, <1>15, <1>16, KeptGrown DEF q2

------------------------------------------------------------------------------
(* What a PUT promises its client *)

(* Every step keeps it, one action at a time.                               *)
LEMMA NextKept == MInv /\ KInv /\ [Next]_vars => KInv'
<1> SUFFICES ASSUME MInv, KInv, [Next]_vars PROVE KInv'
  OBVIOUS
<1>1. ASSUME NEW r \in Slots, NEW q \in Requests, Start(r, q) PROVE KInv'
  BY <1>1, StartKept
<1>2. ASSUME NEW r \in Slots, Step(r) PROVE KInv'
  <2>1. CASE Load(r)  BY <2>1, LoadKept
  <2>2. CASE FindAsset(r)  BY <2>2, FindAssetKept
  <2>3. CASE FindBalance(r)  BY <2>3, FindBalanceKept
  <2>4. CASE FindRow(r)  BY <2>4, FindRowKept
  <2>5. CASE Execute(r)
    BY <2>5, InsertAssetKept, UpdateRowKept, InsertRowKept, DeleteRowKept, FailKept
       DEF Execute, Executing, Refuse
  <2>6. CASE BreakCircle(r)  BY <2>6, FailKept DEF BreakCircle
  <2>7. CASE Commit(r)  BY <2>7, CommitKept
  <2>8. CASE ReadBack(r)
    <3>1. PICK code : reqs' = [reqs EXCEPT ![r] = Done(code)] /\ UNCHANGED <<tables, nextId>>
      BY <2>8 DEF ReadBack, MInv
    <3> QED  BY <3>1, FailKept DEF Fail
  <2> QED  BY <1>2, <2>1, <2>2, <2>3, <2>4, <2>5, <2>6, <2>7, <2>8 DEF Step
<1>3. CASE UNCHANGED vars  BY <1>3 DEF vars, KInv, Active
<1>4. ASSUME NEW u \in Merged, Merge(u) PROVE KInv'  BY <1>4, MergeKept
<1> QED  BY <1>1, <1>2, <1>3, <1>4 DEF Next

(* A session goes on, about the same wallet; one that has loaded it had it. *)
GoesOn(r) ==
  /\ reqs'[r].pc \in {"asset", "balance", "find", "flush"}
  /\ reqs'[r].wallet = reqs[r].wallet
  /\ \A w : <<"wallet", w>> \in reqs[r].moved => <<"wallet", w>> \in reqs'[r].moved
  /\ reqs[r].pc = "load" => reqs[r].wallet \in wallets
  /\ wallets' = wallets

LEMMA OwnStep ==
  ASSUME MInv, NEW r \in Slots, Step(r)
  PROVE  \/ Commit(r) \/ ReadBack(r) \/ BreakCircle(r)
         \/ Execute(r) /\ Fail(r, 500)
         \/ \E code \in {400, 404, 422} : Fail(r, code)
         \/ GoesOn(r)
<1>1. reqs = [s \in Slots |-> reqs[s]] BY DEF MInv
<1>2. r \in Active => IsSession(reqs[r]) BY DEF MInv, Good
<1>3. ASSUME r \in Active, reqs[r].pc # "load", UNCHANGED tables, NEW q,
             reqs' = [reqs EXCEPT ![r] = q],
             q.pc \in {"asset", "balance", "find", "flush"},
             q.wallet = reqs[r].wallet,
             \A w : <<"wallet", w>> \in reqs[r].moved => <<"wallet", w>> \in q.moved
      PROVE  GoesOn(r)
  BY <1>1, <1>3 DEF GoesOn, tables
<1>4. CASE Load(r)
  <2>1. r \in Active /\ reqs[r].pc = "load" /\ UNCHANGED tables BY <1>4 DEF Load, Active
  <2>2. \/ Fail(r, 422) \/ Fail(r, 404) \/ Fail(r, 400)
        \/ /\ reqs[r].wallet \in wallets
           /\ reqs' = [reqs EXCEPT ![r].pc = IF reqs[r].op = "put" THEN "asset" ELSE "find"]
    BY <1>4 DEF Load
  <2>3. ASSUME reqs[r].wallet \in wallets, NEW x \in {"asset", "find"},
               reqs' = [reqs EXCEPT ![r].pc = x]
        PROVE  GoesOn(r)
    <3>1. reqs'[r] = [reqs[r] EXCEPT !.pc = x] BY <1>1, <2>3
    <3>2. reqs'[r].pc = x /\ reqs'[r].wallet = reqs[r].wallet /\ reqs'[r].moved = reqs[r].moved
      BY <1>2, <2>1, <3>1 DEF IsSession, Fields
    <3> QED BY <2>1, <2>3, <3>2 DEF GoesOn, tables
  <2> QED BY <2>2, <2>3
<1>5. CASE FindAsset(r)
  <2>1. r \in Active /\ reqs[r].pc # "load" /\ UNCHANGED tables BY <1>5 DEF FindAsset, Active
  <2>2. CASE \E a : reqs' = [reqs EXCEPT ![r].pc = "balance", ![r].asset = a]
    <3>1. PICK a : reqs' = [reqs EXCEPT ![r].pc = "balance", ![r].asset = a] BY <2>2
    <3> DEFINE q == [reqs[r] EXCEPT !.pc = "balance", !.asset = a]
    <3>2. reqs' = [reqs EXCEPT ![r] = q] BY <1>1, <3>1
    <3>3. q.pc = "balance" /\ q.wallet = reqs[r].wallet /\ q.moved = reqs[r].moved
      BY <1>2, <2>1 DEF IsSession, Fields
    <3> HIDE DEF q
    <3> QED BY <1>3, <2>1, <3>2, <3>3
  <2>3. CASE \E queue :
               reqs' = [reqs EXCEPT
                 ![r] = [Flushing(reqs[r], "balance", queue) EXCEPT !.asset = nextId]]
    <3>1. PICK queue :
            reqs' = [reqs EXCEPT
              ![r] = [Flushing(reqs[r], "balance", queue) EXCEPT !.asset = nextId]]
      BY <2>3
    <3> DEFINE f == Flushing(reqs[r], "balance", queue)
               q == [f EXCEPT !.asset = nextId]
    <3>2. /\ DOMAIN f = DOMAIN reqs[r] /\ f.pc = "flush"
          /\ \A g \in DOMAIN reqs[r] \ {"pc", "next", "queue", "updates", "inserts"} :
               f[g] = reqs[r][g]
      BY <1>2, <2>1, Flushed
    <3>3. reqs' = [reqs EXCEPT ![r] = q] BY <3>1
    <3> HIDE DEF f
    <3>4. q.pc = "flush" /\ q.wallet = reqs[r].wallet /\ q.moved = reqs[r].moved
      BY <1>2, <2>1, <3>2 DEF IsSession, Fields
    <3> HIDE DEF q
    <3> QED BY <1>3, <2>1, <3>3, <3>4
  <2> QED BY <1>5, <2>2, <2>3 DEF FindAsset
<1>6. CASE FindBalance(r)
  <2>1. r \in Active /\ reqs[r].pc # "load" /\ UNCHANGED tables
    BY <1>6 DEF FindBalance, At, Active
  <2> DEFINE row == <<reqs[r].wallet, reqs[r].asset>>
             found == [reqs[r] EXCEPT !.moved = @ \ {<<"row", row>>}]
  <2>2. /\ IsSession(found) /\ DOMAIN found = DOMAIN reqs[r] /\ found.wallet = reqs[r].wallet
        /\ found.moved = reqs[r].moved \ {<<"row", row>>}
    BY <1>2, <2>1 DEF IsSession, Fields
  <2>3. \/ \E queue : reqs' = [reqs EXCEPT ![r] = Flushing(found, "end", queue)]
        \/ \E i, up, ins : reqs' = [reqs EXCEPT ![r] =
             [found EXCEPT !.pc = "asset", !.i = i, !.updates = up, !.inserts = ins]]
    BY <1>6 DEF FindBalance
  <2> HIDE DEF found
  <2>4. \A w : <<"wallet", w>> \in reqs[r].moved => <<"wallet", w>> \in found.moved
    BY <2>2
  <2>5. CASE \E queue : reqs' = [reqs EXCEPT ![r] = Flushing(found, "end", queue)]
    <3>1. PICK queue : reqs' = [reqs EXCEPT ![r] = Flushing(found, "end", queue)] BY <2>5
    <3> DEFINE q == Flushing(found, "end", queue)
    <3>2. /\ q.pc = "flush"
          /\ \A g \in DOMAIN found \ {"pc", "next", "queue", "updates", "inserts"} :
               q[g] = found[g]
      BY <2>2, Flushed
    <3>3. reqs' = [reqs EXCEPT ![r] = q] BY <3>1
    <3> HIDE DEF q
    <3>4. q.wallet = reqs[r].wallet /\ q.moved = found.moved
      BY <2>2, <3>2 DEF IsSession, Fields
    <3> QED BY <1>3, <2>1, <2>4, <3>2, <3>3, <3>4
  <2>6. CASE \E i, up, ins : reqs' = [reqs EXCEPT ![r] =
               [found EXCEPT !.pc = "asset", !.i = i, !.updates = up, !.inserts = ins]]
    <3>1. PICK i, up, ins : reqs' = [reqs EXCEPT ![r] =
               [found EXCEPT !.pc = "asset", !.i = i, !.updates = up, !.inserts = ins]]
      BY <2>6
    <3> DEFINE q == [found EXCEPT !.pc = "asset", !.i = i, !.updates = up, !.inserts = ins]
    <3>2. q.pc = "asset" /\ q.wallet = found.wallet /\ q.moved = found.moved
      BY <2>2 DEF IsSession, Fields
    <3>3. reqs' = [reqs EXCEPT ![r] = q] BY <3>1
    <3> HIDE DEF q
    <3> QED BY <1>3, <2>1, <2>2, <2>4, <3>2, <3>3
  <2> QED BY <2>3, <2>5, <2>6
<1>7. CASE FindRow(r)
  <2>1. r \in Active /\ reqs[r].pc # "load" /\ UNCHANGED tables BY <1>7 DEF FindRow, Active
  <2>2. \/ Fail(r, 404)
        \/ \E queue : reqs' = [reqs EXCEPT ![r] = Flushing(reqs[r], "end", queue)]
    BY <1>7 DEF FindRow
  <2>3. CASE \E queue : reqs' = [reqs EXCEPT ![r] = Flushing(reqs[r], "end", queue)]
    <3>1. PICK queue : reqs' = [reqs EXCEPT ![r] = Flushing(reqs[r], "end", queue)] BY <2>3
    <3> DEFINE q == Flushing(reqs[r], "end", queue)
    <3>2. /\ q.pc = "flush"
          /\ \A g \in DOMAIN reqs[r] \ {"pc", "next", "queue", "updates", "inserts"} :
               q[g] = reqs[r][g]
      BY <1>2, <2>1, Flushed
    <3>3. reqs' = [reqs EXCEPT ![r] = q] BY <3>1
    <3> HIDE DEF q
    <3>4. q.wallet = reqs[r].wallet /\ q.moved = reqs[r].moved
      BY <1>2, <2>1, <3>2 DEF IsSession, Fields
    <3> QED BY <1>3, <2>1, <3>2, <3>3, <3>4
  <2> QED BY <2>2, <2>3
<1>8. CASE Execute(r)
  <2>1. r \in Active /\ reqs[r].pc = "flush" /\ UNCHANGED tables
    BY <1>8 DEF Execute, Executing, Active
  <2>2. ASSUME NEW q, reqs' = [reqs EXCEPT ![r] = q],
               \A g \in DOMAIN reqs[r] \ {"queue", "newAssets", "writes"} : q[g] = reqs[r][g]
        PROVE  GoesOn(r)
    <3>1. q.pc = "flush" /\ q.wallet = reqs[r].wallet /\ q.moved = reqs[r].moved
      BY <1>2, <2>1, <2>2 DEF IsSession, Fields
    <3> QED BY <1>3, <2>1, <2>2, <3>1
  <2>3. ASSUME NEW p, NEW row, Written(r, p, row) PROVE GoesOn(r)
    <3> DEFINE q == [reqs[r] EXCEPT !.queue = Tail(@), !.writes = Assign(@, p, row)]
    <3>1. reqs' = [reqs EXCEPT ![r] = q] BY <1>1, <2>3 DEF Written
    <3>2. \A g \in DOMAIN reqs[r] \ {"queue", "newAssets", "writes"} : q[g] = reqs[r][g]
      OBVIOUS
    <3> HIDE DEF q
    <3> QED BY <2>2, <3>1, <3>2
  <2>4. CASE InsertAsset(r, Statement(r))
    <3> DEFINE s == Statement(r)
               q == [reqs[r] EXCEPT !.queue = Tail(@), !.newAssets = Assign(@, s.id, s.key)]
    <3>1. Fail(r, 500) \/ reqs' = [reqs EXCEPT ![r] = q] BY <1>1, <2>4 DEF InsertAsset
    <3>2. \A g \in DOMAIN reqs[r] \ {"queue", "newAssets", "writes"} : q[g] = reqs[r][g]
      OBVIOUS
    <3> HIDE DEF q
    <3> QED BY <1>8, <2>2, <3>1, <3>2
  <2>5. CASE UpdateRow(r, Statement(r)) BY <1>8, <2>3, <2>5 DEF UpdateRow
  <2>6. CASE InsertRow(r, Statement(r)) BY <1>8, <2>3, <2>6 DEF InsertRow
  <2>7. CASE DeleteRow(r, Statement(r))
    <3> DEFINE q == [reqs[r] EXCEPT !.queue = Tail(@)]
    <3>1. CASE reqs' = [reqs EXCEPT ![r].queue = Tail(@)]
      <4>1. reqs' = [reqs EXCEPT ![r] = q] BY <1>1, <3>1
      <4>2. \A g \in DOMAIN reqs[r] \ {"queue", "newAssets", "writes"} : q[g] = reqs[r][g]
        OBVIOUS
      <4> HIDE DEF q
      <4> QED BY <2>2, <4>1, <4>2
    <3> QED BY <2>3, <2>7, <3>1 DEF DeleteRow
  <2>8. CASE Refuse(r, Statement(r)) BY <1>8, <2>8 DEF Refuse
  <2> QED BY <1>8, <2>4, <2>5, <2>6, <2>7, <2>8 DEF Execute
<1> QED BY <1>4, <1>5, <1>6, <1>7, <1>8 DEF Step

(* The step of another one at most marks what it has changed.               *)
LEMMA OtherStep ==
  ASSUME MInv, NEW r \in Slots, NEW s \in Slots, s # r, Step(s)
  PROVE  /\ reqs'[r].pc = reqs[r].pc /\ wallets' = wallets
         /\ r \in Active => /\ reqs'[r].wallet = reqs[r].wallet
                            /\ reqs[r].moved \subseteq reqs'[r].moved
<1>1. reqs = [t \in Slots |-> reqs[t]] BY DEF MInv
<1>2. CASE Commit(s)
  <2>1. r \in Active => reqs'[r] = [reqs[r] EXCEPT !.moved = @ \cup Locked(s)]
    BY <1>2 DEF Commit
  <2>2. r \notin Active => reqs'[r] = reqs[r] BY <1>2 DEF Commit
  <2>3. r \in Active => IsSession(reqs[r]) BY DEF MInv, Good
  <2>4. r \in Active => /\ reqs'[r].pc = reqs[r].pc /\ reqs'[r].wallet = reqs[r].wallet
                        /\ reqs[r].moved \subseteq reqs'[r].moved
    BY <2>1, <2>3 DEF IsSession, Fields
  <2>5. wallets' = wallets BY <1>2 DEF Commit
  <2> QED BY <2>2, <2>4, <2>5
<1>3. CASE ~ Commit(s)
  <2>1. (\E q : reqs' = [reqs EXCEPT ![s] = q]) /\ wallets' = wallets
    BY <1>1, <1>3
       DEF Step, Load, FindAsset, FindBalance, FindRow, Execute, InsertAsset, UpdateRow,
           InsertRow, DeleteRow, Refuse, BreakCircle, ReadBack, Fail, Written, tables
  <2>2. reqs'[r] = reqs[r] BY <1>1, <2>1
  <2> QED BY <2>1, <2>2
<1> QED BY <1>2, <1>3

(* A request that has come to slot r starts there, and leaves the others.   *)
LEMMA Starts ==
  ASSUME MInv, NEW r \in Slots, NEW s \in Slots, NEW q \in Requests, Start(s, q)
  PROVE  /\ s # r => reqs'[r] = reqs[r]
         /\ s = r => reqs'[r].pc = "load"
         /\ wallets' = wallets
<1>1. reqs = [t \in Slots |-> reqs[t]] BY DEF MInv
<1>2. CASE s # r BY <1>1, <1>2 DEF Start, tables
<1>3. CASE s = r
  <2> DEFINE fresh == [pc |-> "load", i |-> 1, asset |-> Null, newAssets |-> Nothing,
                       writes |-> Nothing, updates |-> {}, inserts |-> <<>>,
                       queue |-> <<>>, next |-> Null, moved |-> {}]
  <2>1. reqs'[r] = Over(q, fresh) /\ wallets' = wallets BY <1>1, <1>3 DEF Start, tables
  <2>2. "pc" \notin DOMAIN q BY ManualBalancesAssumption
  <2>3. "pc" \in DOMAIN fresh /\ fresh.pc = "load" OBVIOUS
  <2> HIDE DEF fresh
  <2>4. Over(q, fresh).pc = "load" BY <2>2, <2>3 DEF Over
  <2> QED BY <1>3, <2>1, <2>4
<1> QED BY <1>2, <1>3

(* A session that has loaded its wallet has it still, or a merge has marked *)
(* it as gone.                                                              *)
Housed(q, ws) == q.pc = "load" \/ q.wallet \in ws \/ <<"wallet", q.wallet>> \in q.moved
HInv == \A r \in Active : Housed(reqs[r], wallets)

LEMMA NextHoused == MInv /\ HInv /\ [Next]_vars => HInv'
<1> SUFFICES ASSUME MInv, HInv, [Next]_vars, NEW r \in Active'
             PROVE  Housed(reqs'[r], wallets')
  BY DEF HInv
<1>1. r \in Slots /\ reqs'[r].pc \notin {"idle", "read", "done"} BY DEF Active
<1>2. ASSUME NEW s \in Slots, NEW q \in Requests, Start(s, q)
      PROVE  Housed(reqs'[r], wallets')
  <2>1. CASE s = r
    <3>1. reqs'[r].pc = "load" BY <1>1, <1>2, <2>1, Starts
    <3> QED BY <3>1 DEF Housed
  <2>2. CASE s # r
    <3>1. reqs'[r] = reqs[r] /\ wallets' = wallets BY <1>1, <1>2, <2>2, Starts
    <3> QED BY <1>1, <3>1 DEF HInv, Active
  <2> QED BY <2>1, <2>2
<1>3. ASSUME NEW s \in Slots, s # r, Step(s) PROVE Housed(reqs'[r], wallets')
  <2>1. /\ reqs'[r].pc = reqs[r].pc /\ wallets' = wallets
        /\ r \in Active => /\ reqs'[r].wallet = reqs[r].wallet
                           /\ reqs[r].moved \subseteq reqs'[r].moved
    BY <1>1, <1>3, OtherStep
  <2>2. r \in Active BY <1>1, <2>1 DEF Active
  <2>3. Housed(reqs[r], wallets) BY <2>2 DEF HInv
  <2> QED BY <2>1, <2>2, <2>3 DEF Housed
<1>4. ASSUME Step(r) PROVE Housed(reqs'[r], wallets')
  <2>1. GoesOn(r)
    <3>1. \A code : Fail(r, code) => reqs'[r].pc = "done" BY <1>1 DEF Fail, Done, MInv
    <3>2. Commit(r) => reqs'[r].pc \in {"read", "done"} BY <1>1 DEF Commit, Done
    <3>3. ReadBack(r) => reqs'[r].pc = "done" BY <1>1 DEF ReadBack, Done, MInv
    <3>4. BreakCircle(r) => reqs'[r].pc = "done" BY <3>1 DEF BreakCircle
    <3> QED BY <1>1, <1>4, <3>1, <3>2, <3>3, <3>4, OwnStep
  <2>2. r \in Active
    <3>1. ~ ReadBack(r)
      BY <1>1, <2>1 DEF GoesOn, ReadBack, Done, MInv
    <3>2. BreakCircle(r) => r \in Active BY DEF BreakCircle, InCircle
    <3>3. \A pc : At(r, pc) => reqs[r].pc \in {pc, "flush"} BY DEF At
    <3> QED
      BY <1>1, <1>4, <3>1, <3>2, <3>3
         DEF Step, Load, FindAsset, FindBalance, FindRow, Execute, Executing, Commit, Active
  <2>3. Housed(reqs[r], wallets) BY <2>2 DEF HInv
  <2> QED BY <2>1, <2>3 DEF Housed, GoesOn
<1>5. ASSUME NEW u, Merge(u) PROVE Housed(reqs'[r], wallets')
  <2>1. r \in Active BY <1>5, MergeDoes
  <2>2. /\ \A f \in DOMAIN reqs[r] \ {"moved"} : reqs'[r][f] = reqs[r][f]
        /\ reqs'[r].moved = reqs[r].moved
             \cup {<<"row", p>> : p \in {x \in DOMAIN balances : x[1] \in WalletsOf(u)}}
             \cup {<<"wallet", w>> : w \in WalletsOf(u)}
        /\ wallets' = wallets \ WalletsOf(u)
    BY <1>5, <2>1, MergeDoes
  <2>3. IsSession(reqs[r]) /\ Housed(reqs[r], wallets) BY <2>1 DEF MInv, Good, HInv
  <2>4. reqs'[r].pc = reqs[r].pc /\ reqs'[r].wallet = reqs[r].wallet
    BY <2>2, <2>3 DEF IsSession, Fields
  <2> QED BY <2>2, <2>3, <2>4 DEF Housed
<1>6. CASE UNCHANGED vars BY <1>6 DEF vars, HInv, Active
<1> QED BY <1>2, <1>3, <1>4, <1>5, <1>6 DEF Next

(* What the two promises rest on holds in every state.                      *)
LEMMA KeptInvariance == Spec => [](MInv /\ KInv /\ HInv)
<1>1. Init => KInv /\ HInv BY DEF Init, KInv, HInv, Active, Idle
<1> QED BY <1>1, InitInv, NextStep, NextKept, NextHoused, PTL DEF Spec

(* Who commits, and who answers.                                            *)
LEMMA Answering ==
  ASSUME MInv, [Next]_vars, NEW r \in Slots
  PROVE  /\ reqs[r].pc # "read" /\ reqs'[r].pc = "read" => Commit(r) /\ reqs[r].op = "put"
         /\ Answers(r, 500) => BreakCircle(r) \/ (Execute(r) /\ Fail(r, 500))
<1>1. reqs = [s \in Slots |-> reqs[s]] BY DEF MInv
<1>2. \A code : Fail(r, code) => reqs'[r].pc = "done" /\ reqs'[r].code = code
  BY <1>1 DEF Fail, Done
<1>3. Commit(r) => \/ reqs[r].op = "put" /\ reqs'[r].pc = "read"
                   \/ reqs'[r].pc = "done" /\ reqs'[r].code = 204
  BY DEF Commit, Done
<1>4. ReadBack(r) => reqs'[r].pc = "done" /\ reqs'[r].code \in {200, 404}
  BY <1>1 DEF ReadBack, Done
<1>5. CASE Step(r)
  <2>1. GoesOn(r) => reqs'[r].pc \notin {"read", "done"} BY DEF GoesOn
  <2>2. BreakCircle(r) => reqs'[r].pc = "done" BY <1>2 DEF BreakCircle
  <2> QED BY <1>2, <1>3, <1>4, <1>5, <2>1, <2>2, OwnStep DEF Answers
<1>6. CASE ~ Step(r)
  <2>1. reqs'[r].pc = reqs[r].pc \/ reqs'[r].pc = "load"
    <3>1. ASSUME NEW s \in Slots, NEW q \in Requests, Start(s, q)
          PROVE  reqs'[r].pc = reqs[r].pc \/ reqs'[r].pc = "load"
      BY <3>1, Starts
    <3>2. ASSUME NEW s \in Slots, Step(s) PROVE reqs'[r].pc = reqs[r].pc
      BY <1>6, <3>2, OtherStep
    <3>3. ASSUME NEW u, Merge(u) PROVE reqs'[r].pc = reqs[r].pc
      <4>1. r \notin Active => reqs'[r] = reqs[r] BY <3>3, MergeDoes
      <4>2. r \in Active => IsSession(reqs[r]) /\ "pc" \in DOMAIN reqs[r]
        BY DEF MInv, Good, IsSession, Fields
      <4>3. r \in Active => reqs'[r].pc = reqs[r].pc BY <3>3, <4>2, MergeDoes
      <4> QED BY <4>1, <4>3
    <3>4. CASE UNCHANGED vars BY <3>4 DEF vars
    <3> QED BY <3>1, <3>2, <3>3, <3>4 DEF Next
  <2> QED BY <2>1 DEF Answers
<1> QED BY <1>5, <1>6

(* With nothing left to execute, every item is written or was found as      *)
(* asked.                                                                   *)
LEMMA LeavesWhatItAsked ==
  ASSUME MInv, KInv, [Next]_vars, NEW r \in Slots,
         reqs[r].pc # "read", reqs'[r].pc = "read", NEW i \in DOMAIN reqs[r].items
  PROVE  \E a \in DOMAIN assets' :
           LET p == <<reqs[r].wallet, a>>
           IN  /\ assets'[a] = KeyOf(reqs[r].items[i])
               /\ \/ p \in DOMAIN balances' /\ balances'[p] = RowOf(reqs[r].items[i])
                  \/ <<"row", p>> \in reqs[r].moved /\ p \notin DOMAIN reqs[r].writes
                  \/ /\ <<"row", p>> \in reqs[r].moved
                     /\ \E c \in Columns : balances'[p][c] = RowOf(reqs[r].items[i])[c]
<1> DEFINE q == reqs[r]
           row == RowOf(q.items[i])
<1>1. Commit(r) /\ q.op = "put" BY Answering
<1>2. r \in Active /\ Good(q, assets, balances, nextId) /\ assets' = Seen(q, assets)
  BY <1>1, Committed
<1>3. IsPut(q, assets, balances) /\ IsSession(q) BY <1>1, <1>2 DEF Good, IsDelete
<1>4. Kept(q, assets, balances) /\ Single(q) BY <1>1, <1>2 DEF KInv, Kept
<1>5. q.pc = "flush" /\ q.queue = <<>> /\ q.next = "end"
  BY <1>1, <1>3 DEF Commit, At, IsSession
<1>6. Processed(q) = DOMAIN q.items /\ Left(q) = {}
  <2>1. Rest(q) = <<>> BY <1>5 DEF Rest, Adding
  <2> QED BY <1>4, <1>5, <2>1, NoMembers DEF Processed, Left, Single
<1>7. PICK a \in DOMAIN Seen(q, assets) :
        IsFor(q, assets, i, a) /\ Served(q, balances, <<q.wallet, a>>, row)
  BY <1>4, <1>6 DEF Kept, ServedItem
<1> DEFINE p == <<q.wallet, a>>
<1>8. a \in DOMAIN assets' /\ assets'[a] = KeyOf(q.items[i])
  BY <1>2, <1>7 DEF IsFor
<1>9. \/ /\ p \in DOMAIN q.writes
         /\ \/ q.writes[p] = row
            \/ <<"row", p>> \in q.moved /\ \E c \in Columns : q.writes[p][c] = row[c]
      \/ /\ p \notin DOMAIN q.writes
         /\ <<"row", p>> \in q.moved \/ (p \in DOMAIN balances /\ balances[p] = row)
  BY <1>6, <1>7 DEF Served, Moved
<1>10. p \in DOMAIN q.writes => p \in DOMAIN balances' /\ balances'[p] = q.writes[p]
  BY <1>1, <1>3, Committed
<1>11. p \notin DOMAIN q.writes =>
         /\ p \in DOMAIN balances' <=> p \in DOMAIN balances
         /\ p \in DOMAIN balances => balances'[p] = balances[p]
  <2>1. \A x : x \notin DOMAIN q.writes =>
          /\ x \in DOMAIN balances' <=> x \in DOMAIN balances
          /\ x \in DOMAIN balances => balances'[x] = balances[x]
    BY <1>1, Committed
  <2> HIDE DEF q
  <2> QED BY <2>1
<1> HIDE DEF row
<1>12. \/ p \in DOMAIN balances' /\ balances'[p] = row
       \/ <<"row", p>> \in q.moved /\ p \notin DOMAIN q.writes
       \/ <<"row", p>> \in q.moved /\ \E c \in Columns : balances'[p][c] = row[c]
  BY <1>9, <1>10, <1>11
<1> QED BY <1>8, <1>12 DEF row

(* A PUT that commits leaves every balance as it asked, to the digits its   *)
(* columns keep, but where another request or a merge has changed or        *)
(* removed the balance after the look at it; and even there it has written  *)
(* the columns that it found different.                                     *)
THEOREM PutsLeaveWhatTheyAsk == Spec => PutLeavesWhatItAsked
<1>1. MInv /\ KInv /\ [Next]_vars =>
        [\A r \in Slots :
           (reqs[r].pc # "read" /\ reqs'[r].pc = "read") =>
             \A i \in DOMAIN reqs[r].items :
               \E a \in DOMAIN assets' :
                 LET p == <<reqs[r].wallet, a>>
                 IN  /\ assets'[a] = KeyOf(reqs[r].items[i])
                     /\ \/ p \in DOMAIN balances' /\ balances'[p] = RowOf(reqs[r].items[i])
                        \/ /\ <<"row", p>> \in reqs[r].moved
                           /\ p \notin DOMAIN reqs[r].writes
                        \/ /\ <<"row", p>> \in reqs[r].moved
                           /\ \E c \in Columns :
                                balances'[p][c] = RowOf(reqs[r].items[i])[c]]_vars
  BY LeavesWhatItAsked
<1> QED BY <1>1, KeptInvariance, PTL DEF Spec, PutLeavesWhatItAsked

(* What a flush has looked up are items of the body.                        *)
LEMMA LookedItem ==
  ASSUME NEW q, NEW as, NEW bs, IsPut(q, as, bs), q.pc = "flush", NEW i \in Processed(q)
  PROVE  i \in 1 .. Len(q.items)
<1>1. DOMAIN q.items = 1 .. Len(q.items) /\ Len(q.items) \in Nat
  BY LenProperties DEF IsPut
<1>2. CASE q.next = "end" BY <1>1, <1>2 DEF Processed
<1>3. CASE q.next = "balance"
  <2>1. q.i \in 1 .. Len(q.items) /\ Processed(q) = 1 .. q.i - 1
    BY <1>3 DEF IsPut, Processed
  <2> QED BY <1>1, <2>1
<1> QED BY <1>2, <1>3 DEF IsPut

(* A row that is looked up and moved is one of an item.                     *)
LEMMA MovedRow ==
  ASSUME MInv, NEW r \in Active, reqs[r].op = "put", Kept(reqs[r], assets, balances),
         reqs[r].pc = "flush", NEW p, Looked(reqs[r], assets, p), Moved(reqs[r], p)
  PROVE  \E i \in DOMAIN reqs[r].items :
           p \in RowsOf(r, KeyOf(reqs[r].items[i])) /\ <<"row", p>> \in reqs[r].moved
<1> DEFINE q == reqs[r]
<1>1. Good(q, assets, balances, nextId) /\ IsPut(q, assets, balances)
  BY DEF MInv, Good, IsDelete
<1>2. PICK i \in Processed(q), a \in DOMAIN Seen(q, assets) :
        IsFor(q, assets, i, a) /\ p = <<q.wallet, a>>
  BY DEF Looked
<1>3. i \in DOMAIN q.items
  <2>1. DOMAIN q.items = 1 .. Len(q.items) BY <1>1, LenProperties DEF IsPut
  <2>2. i \in 1 .. Len(q.items) BY <1>1, <1>2, LookedItem
  <2> QED BY <2>1, <2>2
<1>4. a \in DOMAIN assets
  <2>1. p[2] \in DOMAIN assets BY DEF Kept, MovedKnown
  <2> QED BY <1>2, <2>1
<1>5. assets[a] = KeyOf(q.items[i])
  <2>1. a \notin DOMAIN q.newAssets BY <1>1, <1>4 DEF Good, NewIds
  <2> QED BY <1>2, <1>4, <2>1 DEF IsFor, Seen, Over
<1> QED BY <1>2, <1>3, <1>4, <1>5 DEF RowsOf, Moved

(* A value that does not fit is one that an item asks for.                  *)
LEMMA TooLargeAsked ==
  ASSUME MInv, KInv, NEW r \in Slots, Executing(r), Overflows(Statement(r))
  PROVE  /\ reqs[r].op = "put"
         /\ \E i \in DOMAIN reqs[r].items : \E c \in Columns : RowOf(reqs[r].items[i])[c] = TooLarge
<1> DEFINE q == reqs[r]
           s == Statement(r)
<1>1. q.pc = "flush" /\ q.queue # <<>> /\ s.kind \in {"update", "insert"}
  BY DEF Executing, Overflows
<1>2. /\ IsPut(q, assets, balances) /\ Kept(q, assets, balances)
      /\ s \in Statements(q, assets) /\ s \in Left(q)
  BY <1>1, HeadLeft
<1>3. q.items \in Seq(Item) /\ Distinct(q.items) /\ q.op = "put" BY <1>1, <1>2 DEF IsPut
<1>4. DOMAIN q.items = 1 .. Len(q.items) /\ Len(q.items) \in Nat BY <1>3, LenProperties
<1>5. PICK i \in Processed(q), a \in DOMAIN Seen(q, assets) :
        IsFor(q, assets, i, a) /\ s.row = <<q.wallet, a>>
  BY <1>2 DEF Kept, Looked
<1>6. i \in 1 .. Len(q.items) BY <1>1, <1>2, <1>5, LookedItem
<1>7. s.row[2] = a BY <1>5
<1>8. s.to = RowOf(q.items[i])
  <2>1. s.to = Rows(q)[Seen(q, assets)[s.row[2]]] BY <1>2 DEF Statements
  <2>2. Rows(q)[KeyOf(q.items[i])] = RowOf(q.items[i]) BY <1>3, <1>6, RowsAre
  <2> QED BY <1>5, <1>7, <2>1, <2>2 DEF IsFor
<1>9. PICK c \in s.columns : s.to[c] = TooLarge BY DEF Overflows
<1>10. c \in Columns BY <1>2, <1>9 DEF Statements
<1> QED BY <1>3, <1>4, <1>6, <1>8, <1>9, <1>10

(* A statement fails only on a row or an asset that has moved, on a wallet  *)
(* that is gone, or on a value that does not fit.                           *)
LEMMA OnlyForACause ==
  ASSUME MInv, KInv, HInv, [Next]_vars, NEW r \in Slots, Answers(r, 500)
  PROVE  \/ InCircle(r)
         \/ /\ reqs[r].op = "put"
            /\ \/ <<"wallet", reqs[r].wallet>> \in reqs[r].moved
               \/ \E i \in DOMAIN reqs[r].items :
                    LET item == reqs[r].items[i]
                    IN  \/ \E c \in Columns : RowOf(item)[c] = TooLarge
                        \/ <<"asset", KeyOf(item)>> \in reqs[r].moved
                        \/ \E p \in RowsOf(r, KeyOf(item)) : <<"row", p>> \in reqs[r].moved
<1> DEFINE q == reqs[r]
           s == Statement(r)
<1>1. BreakCircle(r) \/ (Execute(r) /\ Fail(r, 500)) BY Answering
<1>2. CASE BreakCircle(r) BY <1>2 DEF BreakCircle
<1>3. CASE Execute(r) /\ Fail(r, 500)
  <2>1. r \in Active /\ q.pc = "flush" /\ q.queue # <<>> BY <1>3 DEF Execute, Executing, Active
  <2>2. Good(q, assets, balances, nextId) /\ IsSession(q) BY <2>1 DEF MInv, Good
  <2>3. ~ (reqs' = [reqs EXCEPT ![r].queue = Tail(@)]) /\ \A p, row : ~ Written(r, p, row)
    <3>1. reqs'[r].pc = "done" BY DEF Answers
    <3>2. ASSUME reqs' = [reqs EXCEPT ![r].queue = Tail(@)] PROVE FALSE
      BY <2>1, <2>2, <3>1, <3>2 DEF IsSession, Fields, MInv
    <3>3. ASSUME NEW p, NEW row, Written(r, p, row) PROVE FALSE
      BY <2>1, <2>2, <3>1, <3>3 DEF IsSession, Fields, MInv, Written
    <3> QED BY <3>2, <3>3
  <2>4. CASE InsertAsset(r, s)
    <3>1. s.kind = "asset" BY <2>4 DEF InsertAsset
    <3>2. IsPut(q, assets, balances) /\ Adding(q) BY <2>1, <3>1, InsertsNew
    <3>3. SymbolTaken(s.key)
      <4> SUFFICES ASSUME ~ SymbolTaken(s.key) PROVE FALSE
        OBVIOUS
      <4>1. reqs' = [reqs EXCEPT ![r].queue = Tail(@), ![r].newAssets = Assign(@, s.id, s.key)]
        BY <2>4 DEF InsertAsset
      <4>2. reqs'[r].pc = "flush" BY <2>1, <2>2, <4>1 DEF IsSession, Fields, MInv
      <4> QED BY <4>2 DEF Answers
    <3>4. s.key = KeyOf(ItemOf(q)) BY <3>2 DEF Adding, Statement
    <3>5. q.op = "put" /\ q.i \in DOMAIN q.items
      BY <3>2, LenProperties DEF IsPut, Adding
    <3>6. <<"asset", KeyOf(q.items[q.i])>> \in q.moved
      BY <2>1, <3>2, <3>3, <3>4, <3>5 DEF KInv, Kept, Beaten, SymbolTaken, ItemOf
    <3> QED BY <3>5, <3>6
  <2>5. ASSUME s.kind \in {"update", "insert"},
               s.kind = "update" => s.row \notin DOMAIN SeenRows(r),
               s.kind = "insert" => s.row \in DOMAIN SeenRows(r)
        PROVE  /\ q.op = "put"
               /\ \E i \in DOMAIN q.items :
                    \E p \in RowsOf(r, KeyOf(q.items[i])) : <<"row", p>> \in q.moved
    <3>1. IsPut(q, assets, balances) /\ Kept(q, assets, balances) /\ s \in Left(q)
      BY <2>1, <2>5, HeadLeft
    <3>2. Looked(q, assets, s.row) /\ Foreseen(q, balances, s) BY <3>1 DEF Kept
    <3>3. Moved(q, s.row)
      BY <2>5, <3>2 DEF Foreseen, SeenRows, Over
    <3> QED BY <2>1, <3>1, <3>2, <3>3, MovedRow DEF IsPut
  <2>6. CASE UpdateRow(r, s)
    <3>1. s.kind = "update" /\ s.row \notin DOMAIN SeenRows(r) BY <2>3, <2>6 DEF UpdateRow
    <3> QED BY <2>5, <3>1
  <2>7. CASE InsertRow(r, s)
    <3>1. s.kind = "insert" /\ (s.row \in DOMAIN SeenRows(r) \/ s.row[1] \notin wallets)
      BY <2>3, <2>7 DEF InsertRow
    <3>2. CASE s.row \in DOMAIN SeenRows(r) BY <2>5, <3>1, <3>2
    <3>3. CASE s.row[1] \notin wallets
      <4>1. IsPut(q, assets, balances) /\ s \in Statements(q, assets) BY <2>1, <3>1, HeadLeft
      <4>2. s.row[1] = q.wallet /\ q.op = "put" BY <4>1 DEF Statements, IsPut
      <4>3. Housed(q, wallets) BY <2>1 DEF HInv
      <4> QED BY <2>1, <3>3, <4>2, <4>3 DEF Housed
    <3> QED BY <3>1, <3>2, <3>3
  <2>8. ~ DeleteRow(r, s) BY <2>3 DEF DeleteRow
  <2>9. CASE Refuse(r, s) BY <1>3, <2>9, TooLargeAsked DEF Execute, Refuse
  <2> QED BY <1>3, <2>4, <2>6, <2>7, <2>8, <2>9 DEF Execute
<1> QED BY <1>1, <1>2, <1>3

(* A request fails with 500 only for a cause: it waited in a circle, its    *)
(* wallet went with a merge, it asks for a value too large for its column,  *)
(* or another one committed a change of an asset or a balance it is about.  *)
THEOREM FailuresHaveACause == Spec => FailsOnlyForACause
<1>1. MInv /\ KInv /\ HInv /\ [Next]_vars =>
        [\A r \in Slots :
           Answers(r, 500) =>
             \/ InCircle(r)
             \/ /\ reqs[r].op = "put"
                /\ \/ <<"wallet", reqs[r].wallet>> \in reqs[r].moved
                   \/ \E i \in DOMAIN reqs[r].items :
                        LET item == reqs[r].items[i]
                        IN  \/ \E c \in Columns : RowOf(item)[c] = TooLarge
                            \/ <<"asset", KeyOf(item)>> \in reqs[r].moved
                            \/ \E p \in RowsOf(r, KeyOf(item)) : <<"row", p>> \in reqs[r].moved]_vars
  BY OnlyForACause
<1> QED BY <1>1, KeptInvariance, PTL DEF Spec, FailsOnlyForACause

==============================================================================
