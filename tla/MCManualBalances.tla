-------------------------- MODULE MCManualBalances --------------------------
(* Small instance of ManualBalances for TLC. *)
EXTENDS ManualBalances

MCOwner == [w \in {1, 2, 3} |-> "me"]
MCKind == [w \in {1, 2, 3} |-> IF w = 3 THEN "evm" ELSE "manual"]
MCFold == [s \in {"EUR", "eur", "USD"} |-> IF s = "eur" THEN "EUR" ELSE s]

Ask(symbol, amount, price) == [symbol |-> symbol, amount |-> amount, price |-> price]
Put(user, w, items) == [op |-> "put", user |-> user, wallet |-> w, items |-> items]
Delete(w, a) == [op |-> "delete", user |-> "me", wallet |-> w, asset |-> a]

(* One digit: 3 is rounded to 2, and 9 does not fit.                        *)
MCValues == {1, 2, 3, 9, Null}
MCStored ==
  [c \in Columns |->
     [v \in MCValues |-> IF v = 3 THEN 2 ELSE IF v = 9 THEN TooLarge ELSE v]]

MCRequests ==
  {Put("me", 1, <<Ask("EUR", 3, Null), Ask("USD", 1, Null)>>),
   Put("me", 1, <<Ask("USD", 2, 1), Ask("eur", 1, 2)>>),
   Put("me", 2, <<Ask("USD", 1, Null)>>), Put("me", 2, <<Ask("EUR", 2, 9)>>),
   Put("me", 1, <<Ask("EUR", 1, 1), Ask("eur", 2, 1)>>),
   Put("me", 3, <<Ask("EUR", 1, 1)>>), Put("you", 1, <<Ask("EUR", 1, 1)>>),
   Delete(1, 1)}

Row(amount, price) == [amount |-> amount, price |-> price]

MCDatabases ==
  {[assets |-> <<>>, balances |-> [p \in {} |-> Null]],
   [assets |-> <<"EUR", "USD">>,
    balances |-> [p \in {<<1, 1>>, <<1, 2>>, <<2, 1>>} |-> Row(1, 1)]]}

==============================================================================
