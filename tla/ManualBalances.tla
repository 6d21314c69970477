--------------------------- MODULE ManualBalances ---------------------------
(***************************************************************************)
(* PUT /wallets/{id}/balances and DELETE /wallets/{id}/balances/{asset}     *)
(* (services/manual_balance.py, services/asset.py) over a session that      *)
(* flushes only when told to, and PostgreSQL at READ COMMITTED.             *)
(*                                                                         *)
(* A transaction keeps what it wrote to itself and locked until it ends.    *)
(* An INSERT of a unique key waits for whoever has it locked, as an UPDATE  *)
(* or DELETE of a row does; the database ends one transaction of a circle   *)
(* of waiting ones.  Assets are created here alone and never deleted.       *)
(* Wallets go, with their balances, when a merge deletes their user: the    *)
(* cascade of telegram_link_email's DELETE, of which this module has what   *)
(* the balances see of it.                                                  *)
(***************************************************************************)
EXTENDS Integers, Sequences, SequencesExt, FiniteSets

CONSTANTS
  MaxRequests,  \* bound: how many requests there are
  Requests,   \* op, user, wallet, and items (PUT) or asset (DELETE)
  Owner,      \* of each wallet
  Kind,       \* of each wallet: "manual" or "evm"
  Fold,       \* the asset a symbol and chain mean, after normalisation
  Values,     \* amounts and prices
  Stored,     \* what a column keeps of a value: Numeric rounds it, or refuses it
  Databases,  \* assets and balances there may be at first
  Merged,     \* bound: users that may be merged into another
  TooLarge, Gone, Null

Slots == 1 .. MaxRequests

Columns == {"amount", "price"}
Item == [symbol : DOMAIN Fold, amount : Values, price : Values]

(* A row of manual_balances: values that its columns keep as they are.      *)
Balance == {row \in [Columns -> Values] : \A c \in Columns : Stored[c][row[c]] = row[c]}

ASSUME ManualBalancesAssumption ==
  /\ MaxRequests \in Nat
  /\ \A q \in Requests :
       /\ q.wallet \in DOMAIN Owner
       /\ \/ /\ DOMAIN q = {"op", "user", "wallet", "items"}
             /\ q.op = "put" /\ q.items \in Seq(Item)
          \/ DOMAIN q = {"op", "user", "wallet", "asset"} /\ q.op = "delete"
  /\ \A d \in Databases :
       /\ IsFiniteSet(DOMAIN d.assets)
       /\ DOMAIN d.assets = 1 .. Cardinality(DOMAIN d.assets)
       /\ \A a, b \in DOMAIN d.assets : d.assets[a] = d.assets[b] => a = b
       /\ DOMAIN d.balances \subseteq (DOMAIN Owner) \X (DOMAIN d.assets)
       /\ \A p \in DOMAIN d.balances : d.balances[p] \in Balance
  /\ Stored \in [Columns -> [Values -> Values \cup {TooLarge}]]
  /\ TooLarge \notin Values
  /\ \A c \in Columns, v \in Values :
       Stored[c][v] # TooLarge => Stored[c][Stored[c][v]] = Stored[c][v]
  /\ Gone \notin [Columns -> Values]

VARIABLES
  assets,    \* of each id: chain and symbol, as one key
  balances,  \* of each <<wallet, asset id>>: amount and price
  nextId,    \* the sequence of asset ids
  reqs,      \* of each slot: its request, its session and its transaction
  wallets    \* the wallets there are

vars == <<assets, balances, nextId, reqs, wallets>>
tables == <<assets, balances, wallets>>

Nothing == [x \in {} |-> x]

Idle == [op |-> "none", pc |-> "idle"]

Init ==
  /\ \E d \in Databases : assets = d.assets /\ balances = d.balances
  /\ nextId = Cardinality(DOMAIN assets) + 1
  /\ reqs = [r \in Slots |-> Idle]
  /\ wallets = DOMAIN Owner

(* A request with a transaction that has something to keep.                 *)
Active == {r \in Slots : reqs[r].pc \notin {"idle", "read", "done"}}

------------------------------------------------------------------------------
(* Sessions and transactions *)

Over(f, g) == [x \in DOMAIN f \cup DOMAIN g |-> IF x \in DOMAIN f THEN f[x] ELSE g[x]]
Assign(f, x, y) == Over([z \in {x} |-> y], f)

(* What transaction r sees, and what others wait for.                       *)
SeenAssets(r) == Over(reqs[r].newAssets, assets)
SeenRows(r) == Over(reqs[r].writes, balances)
Locked(r) ==
  {<<"asset", reqs[r].newAssets[a]>> : a \in DOMAIN reqs[r].newAssets}
    \cup {<<"row", p>> : p \in DOMAIN reqs[r].writes}

(* The statement a flush or a DELETE is at, and the key or row it is about. *)
Statement(r) == Head(reqs[r].queue)
Resource(s) == IF s.kind = "asset" THEN <<"asset", s.key>> ELSE <<"row", s.row>>

(* A value that does not fit its column fails before anything is locked.    *)
Overflows(s) ==
  s.kind \in {"update", "insert"} /\ \E c \in s.columns : s.to[c] = TooLarge

Executing(r) == reqs[r].pc = "flush" /\ reqs[r].queue # <<>>
Locking(r) == Executing(r) /\ ~ Overflows(Statement(r))

WaitsFor(r) ==
  IF Locking(r)
    THEN {s \in Active \ {r} : Resource(Statement(r)) \in Locked(s)} ELSE {}

(* What a transaction has written in the wallets of a user.                 *)
WrittenOf(r, u) == {p \in DOMAIN reqs[r].writes : Owner[p[1]] = u}

(* A merge deletes users, wallets and rows before it commits.  Any may be   *)
(* under way at any time, have deleted the wallet or the row that r is      *)
(* about, and wait for s, which has written a row of the same user: not one *)
(* it has inserted in that very wallet, which could not be deleted then.    *)
WaitsByMerge(r, s) ==
  /\ Locking(r) /\ Statement(r).kind # "asset"
  /\ LET w == Statement(r).row[1]
     IN  /\ w \in wallets /\ Owner[w] \in Merged
         /\ \E p \in WrittenOf(s, Owner[w]) :
              p \in DOMAIN balances \/ (Statement(r).kind = "insert" /\ p[1] # w)

MayWaitFor(r, s) == s \in WaitsFor(r) \/ WaitsByMerge(r, s)

InCircle(r) ==
  \E C \in SUBSET Active :
    /\ r \in C
    /\ \A s \in C : (\E t \in C : MayWaitFor(s, t)) /\ (\E t \in C : MayWaitFor(t, s))

Done(code) == [op |-> "none", pc |-> "done", code |-> code]

(* Faulty variant: the session is never closed.                             *)
FailKeepsLocks(r, code) == reqs' = [reqs EXCEPT ![r].pc = "closing"]

(* An answer without a commit closes the session, which rolls back.         *)
Fail(r, code) == reqs' = [reqs EXCEPT ![r] = Done(code)]

(* Work left to the flush: the rows to update in the order of their keys,   *)
(* then the rows to insert in the order they were added; a new asset first. *)
ByKey(updates) ==
  {q \in SetToSeqs(updates) : \A i, j \in DOMAIN q : i < j => q[i].row[2] <= q[j].row[2]}
FlushQueues(new, updates, inserts) == {new \o q \o inserts : q \in ByKey(updates)}

Flushing(q, next, queue) ==
  [q EXCEPT !.pc = "flush", !.next = next, !.queue = queue, !.updates = {}, !.inserts = <<>>]

(* A flush that has no statement left goes on where it was called.          *)
At(r, pc) ==
  \/ reqs[r].pc = pc
  \/ reqs[r].pc = "flush" /\ reqs[r].queue = <<>> /\ reqs[r].next = pc

------------------------------------------------------------------------------
(* Requests, numbered as they come *)

Start(r, q) ==
  /\ reqs[r].pc = "idle" /\ \A s \in 1 .. r - 1 : reqs[s].pc # "idle"
  /\ reqs' = [reqs EXCEPT
                ![r] = Over(q, [pc |-> "load", i |-> 1, asset |-> Null,
                                newAssets |-> Nothing, writes |-> Nothing,
                                updates |-> {}, inserts |-> <<>>, queue |-> <<>>,
                                next |-> Null, moved |-> {}])]
  /\ UNCHANGED <<tables, nextId>>

KeyOf(item) == Fold[item.symbol]

(* Numeric(38, 18) and Numeric(20, 8) of the Decimals asked for.            *)
RowOf(item) == [c \in Columns |-> Stored[c][item[c]]]

(* Faulty variant: an asset may be named twice.                             *)
AcceptDuplicates(items) == TRUE

(* reject_duplicate_assets                                                  *)
Distinct(items) ==
  \A i, j \in DOMAIN items : KeyOf(items[i]) = KeyOf(items[j]) => i = j

(* The schema, the owned wallet (401 once its user is gone with it), its    *)
(* kind and the empty list.                                                 *)
Load(r) ==
  /\ reqs[r].pc = "load"
  /\ LET q == reqs[r]
         put == q.op = "put"
     IN  \/ /\ put /\ ~ Distinct(q.items)
            /\ Fail(r, 422)
         \/ /\ put => Distinct(q.items)
            /\ IF q.wallet \notin wallets \/ Owner[q.wallet] # q.user THEN Fail(r, 404)
               ELSE IF Kind[q.wallet] # "manual" \/ (put /\ q.items = <<>>)
                 THEN Fail(r, 400)
               ELSE reqs' = [reqs EXCEPT ![r].pc = IF put THEN "asset" ELSE "find"]
  /\ UNCHANGED <<tables, nextId>>

ItemOf(q) == q.items[q.i]

(* get_or_create_manual_asset: an asset that is not there is inserted by a  *)
(* flush, and everything staged so far is written with it.                  *)
FindAsset(r) ==
  /\ reqs[r].pc = "asset"
  /\ LET q == reqs[r]
         key == KeyOf(ItemOf(q))
         new == [kind |-> "asset", key |-> key, id |-> nextId]
         found == {a \in DOMAIN SeenAssets(r) : SeenAssets(r)[a] = key}
     IN  \/ \E a \in found : /\ reqs' = [reqs EXCEPT ![r].pc = "balance", ![r].asset = a]
                             /\ UNCHANGED nextId
         \/ /\ found = {}
            /\ \E queue \in FlushQueues(<<new>>, q.updates, q.inserts) :
                 reqs' = [reqs EXCEPT ![r] = [Flushing(q, "balance", queue) EXCEPT !.asset = nextId]]
            /\ nextId' = nextId + 1
  /\ UNCHANGED tables

(* Faulty variant: only the amount is compared.                             *)
ChangedAmount(old, item) == {"amount"} \cap {c \in Columns : old[c] # item[c]}

(* The columns an assignment changes: the value that was read is compared   *)
(* with the one asked for, before it is rounded; a column that is the same  *)
(* is not written.                                                          *)
Changed(old, item) == {c \in Columns : old[c] # item[c]}

(* The balance is looked up, and an update or an insert staged; after the   *)
(* last item session.commit() flushes.                                      *)
FindBalance(r) ==
  /\ At(r, "balance")
  /\ LET q == reqs[r]
         p == <<q.wallet, q.asset>>
         last == q.i = Len(q.items)
         row == RowOf(ItemOf(q))
         known == p \in DOMAIN SeenRows(r)
         columns == IF known THEN Changed(SeenRows(r)[p], ItemOf(q)) ELSE Columns
         change == [kind |-> IF known THEN "update" ELSE "insert",
                    row |-> p, to |-> row, columns |-> columns]
         updates == IF known /\ columns # {} THEN q.updates \cup {change} ELSE q.updates
         inserts == IF known THEN q.inserts ELSE Append(q.inserts, change)
         found == [q EXCEPT !.moved = @ \ {<<"row", p>>}]
     IN  IF last
           THEN \E queue \in FlushQueues(<<>>, updates, inserts) :
                  reqs' = [reqs EXCEPT ![r] = Flushing(found, "end", queue)]
           ELSE reqs' = [reqs EXCEPT ![r] = [found EXCEPT !.pc = "asset", !.i = @ + 1,
                                               !.updates = updates, !.inserts = inserts]]
  /\ UNCHANGED <<tables, nextId>>

(* DELETE: the balance is looked up, then deleted by the flush of a commit. *)
FindRow(r) ==
  /\ reqs[r].pc = "find"
  /\ LET p == <<reqs[r].wallet, reqs[r].asset>>
     IN  IF p \notin DOMAIN balances THEN Fail(r, 404)
         ELSE LET queue == <<[kind |-> "delete", row |-> p]>>
              IN  reqs' = [reqs EXCEPT ![r] = Flushing(reqs[r], "end", queue)]
  /\ UNCHANGED <<tables, nextId>>

------------------------------------------------------------------------------
(* Statements *)

Written(r, p, row) ==
  reqs' = [reqs EXCEPT ![r].queue = Tail(@), ![r].writes = Assign(@, p, row)]

(* uq_assets_chain_symbol_manual                                            *)
SymbolTaken(key) == \E a \in DOMAIN assets : assets[a] = key

InsertAsset(r, s) ==
  /\ s.kind = "asset"
  /\ IF SymbolTaken(s.key) THEN Fail(r, 500)
     ELSE reqs' = [reqs EXCEPT ![r].queue = Tail(@),
                               ![r].newAssets = Assign(@, s.id, s.key)]

(* An UPDATE that finds no row is a StaleDataError.                         *)
UpdateRow(r, s) ==
  /\ s.kind = "update" /\ ~ Overflows(s)
  /\ IF s.row \notin DOMAIN SeenRows(r) THEN Fail(r, 500)
     ELSE Written(r, s.row,
                  [c \in Columns |-> IF c \in s.columns THEN s.to[c]
                                     ELSE SeenRows(r)[s.row][c]])

(* The key of the row, and the foreign key to the wallet.                   *)
InsertRow(r, s) ==
  /\ s.kind = "insert" /\ ~ Overflows(s)
  /\ IF s.row \in DOMAIN SeenRows(r) \/ s.row[1] \notin wallets THEN Fail(r, 500)
     ELSE Written(r, s.row, s.to)

(* Faulty variant: the asset's balance in every wallet is deleted.          *)
DeleteInAllWallets(r, s) ==
  /\ s.kind = "delete"
  /\ reqs' = [reqs EXCEPT
                ![r].queue = Tail(@),
                ![r].writes = [p \in {x \in DOMAIN balances : x[2] = s.row[2]} |-> Gone]]

(* A DELETE that finds no row is a warning.                                 *)
DeleteRow(r, s) ==
  /\ s.kind = "delete"
  /\ IF s.row \in DOMAIN balances THEN Written(r, s.row, Gone)
     ELSE reqs' = [reqs EXCEPT ![r].queue = Tail(@)]

(* numeric field overflow                                                   *)
Refuse(r, s) == Overflows(s) /\ Fail(r, 500)

Execute(r) ==
  /\ Executing(r)
  /\ WaitsFor(r) = {}
  /\ \/ InsertAsset(r, Statement(r))
     \/ UpdateRow(r, Statement(r))
     \/ InsertRow(r, Statement(r))
     \/ DeleteRow(r, Statement(r))
     \/ Refuse(r, Statement(r))
  /\ UNCHANGED <<tables, nextId>>

(* The database ends a transaction of a circle of waiting ones.             *)
BreakCircle(r) ==
  /\ InCircle(r)
  /\ Fail(r, 500)
  /\ UNCHANGED <<tables, nextId>>

(* COMMIT, which the others' transactions see from now on.                  *)
Commit(r) ==
  /\ At(r, "end")
  /\ assets' = SeenAssets(r)
  /\ balances' = LET rows == SeenRows(r)
                 IN  [p \in {x \in DOMAIN rows : rows[x] # Gone} |-> rows[p]]
  /\ reqs' = [s \in Slots |->
                IF s = r
                  THEN IF reqs[r].op = "put"
                         THEN [op |-> "put", pc |-> "read", wallet |-> reqs[r].wallet]
                         ELSE Done(204)
                ELSE IF s \in Active
                  THEN [reqs[s] EXCEPT !.moved = @ \cup Locked(r)]
                ELSE reqs[s]]
  /\ UNCHANGED <<nextId, wallets>>

(* After its commit a PUT reads the wallet again.                           *)
ReadBack(r) ==
  /\ reqs[r].pc = "read"
  /\ reqs' = [reqs EXCEPT ![r] = Done(IF @.wallet \in wallets THEN 200 ELSE 404)]
  /\ UNCHANGED <<tables, nextId>>

------------------------------------------------------------------------------
(* The commit of a merge, which deletes the wallets of its user.  It has    *)
(* waited for all who have written in them.                                 *)

WalletsOf(u) == {w \in DOMAIN Owner : Owner[w] = u}

Merge(u) ==
  /\ WalletsOf(u) \cap wallets # {}
  /\ \A r \in Active : WrittenOf(r, u) = {}
  /\ wallets' = wallets \ WalletsOf(u)
  /\ LET gone == {p \in DOMAIN balances : p[1] \in WalletsOf(u)}
     IN  /\ balances' = [p \in DOMAIN balances \ gone |-> balances[p]]
         /\ reqs' = [s \in Slots |->
                       IF s \in Active
                         THEN [reqs[s] EXCEPT !.moved = @ \cup {<<"row", p>> : p \in gone}
                                                \cup {<<"wallet", w>> : w \in WalletsOf(u)}]
                       ELSE reqs[s]]
  /\ UNCHANGED <<assets, nextId>>

Step(r) ==
  \/ Load(r) \/ FindAsset(r) \/ FindBalance(r) \/ FindRow(r)
  \/ Execute(r) \/ BreakCircle(r) \/ Commit(r) \/ ReadBack(r)

Next ==
  \/ \E r \in Slots : Step(r) \/ \E q \in Requests : Start(r, q)
  \/ \E u \in Merged : Merge(u)

(* The event loop runs the requests, and the database the statements that   *)
(* nothing blocks: as requests are finite, no more is asked than that some  *)
(* step is taken while one can be.  A request that waits for a merge is one *)
(* that has not come to its statement yet; none waits for ever.             *)
Spec == Init /\ [][Next]_vars /\ WF_vars(\E r \in Slots : Step(r))

------------------------------------------------------------------------------
(* Properties *)

RowsOf(r, key) ==
  {<<reqs[r].wallet, a>> : a \in {b \in DOMAIN assets : assets[b] = key}}

Answers(r, code) ==
  reqs[r].pc # "done" /\ reqs'[r].pc = "done" /\ reqs'[r].code = code

(* A PUT that commits leaves every balance as it asked, to the digits its   *)
(* columns keep.  Only one that another request or a merge changed or       *)
(* removed after this one had looked it up may differ, and only in columns  *)
(* this one had found as it wants them.                                     *)
PutLeavesWhatItAsked ==
  [][\A r \in Slots :
       (reqs[r].pc # "read" /\ reqs'[r].pc = "read") =>
         \A i \in DOMAIN reqs[r].items :
           \E a \in DOMAIN assets' :
             LET p == <<reqs[r].wallet, a>>
             IN  /\ assets'[a] = KeyOf(reqs[r].items[i])
                 /\ \/ p \in DOMAIN balances' /\ balances'[p] = RowOf(reqs[r].items[i])
                    \/ /\ <<"row", p>> \in reqs[r].moved
                       /\ p \notin DOMAIN reqs[r].writes
                    \/ /\ <<"row", p>> \in reqs[r].moved
                       /\ \E c \in Columns :
                            balances'[p][c] = RowOf(reqs[r].items[i])[c]]_vars

(* A request fails with 500 only for a cause: it waited in a circle; its    *)
(* wallet was deleted after it had loaded it; it asks for a value too large *)
(* for its column; or another one committed a change of an asset or a       *)
(* balance it is about.  (A DELETE only fails in a circle.)                 *)
FailsOnlyForACause ==
  [][\A r \in Slots :
       Answers(r, 500) =>
         \/ InCircle(r)
         \/ /\ reqs[r].op = "put"
            /\ \/ <<"wallet", reqs[r].wallet>> \in reqs[r].moved
               \/ \E i \in DOMAIN reqs[r].items :
                    LET item == reqs[r].items[i]
                    IN  \/ \E c \in Columns : RowOf(item)[c] = TooLarge
                        \/ <<"asset", KeyOf(item)>> \in reqs[r].moved
                        \/ \E p \in RowsOf(r, KeyOf(item)) : <<"row", p>> \in reqs[r].moved]_vars

(* Whoever waits for whom, every request that has come is answered: again   *)
(* and again there is none that is not, and no answer is taken back.        *)
RequestsEnd == []<>(\A r \in Slots : reqs[r].pc \in {"idle", "done"})

(* The balances by asset implement the book: requests take effect at once   *)
(* or not at all, on their own wallet and assets only, and merges take      *)
(* whole wallets out of it, for good.                                       *)
Items(q) == {q.items[i] : i \in DOMAIN q.items}
PutOf(q) ==
  [wallet |-> q.wallet,
   rows |-> [k \in {KeyOf(x) : x \in Items(q)} |->
               RowOf(CHOOSE x \in Items(q) : KeyOf(x) = k)]]

Book ==
  [w \in wallets |->
     LET mine == {p \in DOMAIN balances : p[1] = w}
     IN  [k \in {assets[p[2]] : p \in mine} |->
            balances[CHOOSE p \in mine : assets[p[2]] = k]]]

Abstract == INSTANCE BalanceBook
              WITH Wallets <- DOMAIN Owner, Columns <- Columns, Rows <- Balance,
                   Merges <- {WalletsOf(u) : u \in Merged}, book <- Book,
                   Puts <- {PutOf(q) : q \in {x \in Requests : x.op = "put"}}

BookSpec == Abstract!Spec

==============================================================================
