----------------------------- MODULE BalanceBook -----------------------------
(***************************************************************************)
(* What the manual balances promise: a book of balances per wallet, where a *)
(* PUT takes effect at once, a DELETE takes one balance away, a merge takes *)
(* all wallets of a user, and nothing else ever changes.  A PUT does not    *)
(* promise every item nor every column: it leaves alone what it had found   *)
(* as it wants it, and by the time it takes effect another request may have *)
(* changed or removed that.                                                 *)
(***************************************************************************)
CONSTANTS
  Wallets,
  Puts,    \* bodies a client may send: wallet, rows by asset
  Columns, \* of a balance: amount and price
  Rows,    \* what a balance may be
  Merges   \* sets of wallets that go together

VARIABLE book  \* of each wallet there is: its balances by asset

PutRow(old, row, keep) == [c \in Columns |-> IF c \in keep THEN old[c] ELSE row[c]]

Put(p) ==
  LET mine == book[p.wallet]
      storable == {k \in DOMAIN p.rows : p.rows[k] \in Rows}
  IN  /\ p.wallet \in DOMAIN book
      /\ \E S \in SUBSET storable : \E keep \in [S -> SUBSET Columns] :
          book' = [book EXCEPT
                   ![p.wallet] = [k \in DOMAIN mine \cup S |->
                                    IF k \notin S THEN mine[k]
                                    ELSE IF k \in DOMAIN mine
                                      THEN PutRow(mine[k], p.rows[k], keep[k])
                                    ELSE p.rows[k]]]

Remove(w, k) ==
  /\ k \in DOMAIN book[w]
  /\ book' = [book EXCEPT ![w] = [j \in DOMAIN book[w] \ {k} |-> book[w][j]]]

Drop(W) == book' = [w \in DOMAIN book \ W |-> book[w]]

Init == DOMAIN book = Wallets
Next ==
  \/ \E p \in Puts : Put(p)
  \/ \E w \in DOMAIN book : \E k \in DOMAIN book[w] : Remove(w, k)
  \/ \E W \in Merges : Drop(W)

Spec == Init /\ [][Next]_book

==============================================================================
