----------------------------- MODULE MCPortfolio -----------------------------
(* Small instances of Portfolio for TLC. *)
EXTENDS Portfolio

MCFold == [n \in {"c1", "c2", "manual", "ETH", "TOK", "EUR", "x", "X"} |->
             IF n = "X" THEN "x" ELSE n]

Asset(type, chain, symbol, contract) ==
  [type |-> type, chain |-> chain, symbol |-> symbol, contract |-> contract]

Eth == Asset("native", "c1", "ETH", Null)
Tok(contract) == Asset("erc20", "c1", "TOK", contract)
Eur == Asset("manual", "manual", "EUR", Null)

Held(asset, amount, value, price, source) ==
  [asset |-> asset, amount |-> amount, value |-> value, price |-> price, source |-> source]

Chain(chain, status, balances) == [chain |-> chain, status |-> status, balances |-> balances]

Good == [status |-> "success", total |-> 3, parts |->
           {Chain("c1", "success", {Held(Eth, 1, 2, 2, "coingecko"),
                                    Held(Tok("x"), 1, 1, 1, "coingecko"),
                                    Held(Tok("X"), 0, 0, Null, Null)})}]
Bad == [status |-> "partial_success", total |-> 1, parts |->
          {Chain("c1", "success", {Held(Tok("X"), 1, 1, 1, "coingecko")}),
           Chain("c2", "failed", {})}]
Unpriced == [status |-> "success", total |-> 0, parts |->
               {Chain("c1", "success", {Held(Tok("x"), 1, 0, Null, Null)})}]
Half == [status |-> "partial_success", total |-> 1, parts |->
            {Chain("c1", "success", {Held(Eth, 1, 1, 1, "coingecko")}),
             Chain("c2", "partial", {})}]
Franc == [status |-> "success", total |-> 1, parts |->
            {Chain("c1", "success", {Held(Eur, 1, 1, 1, "frankfurter")})}]
Lost == [status |-> "failed", total |-> 0, parts |-> {Chain("c1", "failed", {})}]

MCContents == {Good, Bad}

Book == {Held(Eur, 2, 0, 1, Null)}
MCBooks == {Book, {}}

Evm(u, a, g, at) == [user |-> u, kind |-> "evm", address |-> a, active |-> TRUE,
                     group |-> g, addrAt |-> at]
Cash(u) == [user |-> u, kind |-> "manual", address |-> Null, active |-> TRUE,
            group |-> Null, addrAt |-> 0]

MCGroups == [g \in {1, 2} |-> IF g = 1 THEN "me" ELSE "other"]

Run(created, finished, status) ==
  [user |-> "me", scope |-> "all", target |-> Null, status |-> status,
   created |-> created, finished |-> finished]
Snap(w, run, at, c) ==
  [wallet |-> w, run |-> run, finished |-> at, status |-> c.status,
   total |-> c.total, parts |-> c.parts, key |-> IF w = 1 THEN "a" ELSE "b"]
Elsewhere(s) == [s EXCEPT !.key = "z"]
Old(w, at) == [wallet |-> w, at |-> at, total |-> 2, balances |->
                 {Held(Tok("x"), 1, 2, Null, Null)}]

Db(second, rs, ss, ls, books) ==
  [wallets |-> <<Evm("me", "a", 1, 0), second, Evm("other", "c", 2, 0)>>,
   runs |-> rs, snaps |-> ss, legacy |-> ls, manual |-> books,
   lastId |-> 4, now |-> 6, patches |-> [w \in 1 .. 3 |-> {}]]

Second == Evm("me", "b", Null, 0)
NoBooks == [w \in {} |-> {}]
OneBook == [w \in {2} |-> Book]

(* A day apart, each side of each wallet good or not.                       *)
Apart(second, first, others) ==
  Db(second, <<Run(1, 2, "success"), Run(5, 6, "partial_success")>>,
     <<Snap(1, 1, 2, first[1]), others[1], Snap(1, 2, 6, first[2]), others[2]>>, <<>>, NoBooks)

Compared ==
  {Apart(Second, p, <<Snap(2, 1, 2, Good), Snap(2, 2, 6, Good)>>)
     : p \in {<<Good, Good>>, <<Unpriced, Good>>, <<Good, Bad>>, <<Good, Franc>>}}

(* The second wallet had another address a day ago: patched in between, or  *)
(* while the first run was created.                                         *)
Patched ==
  {[Apart([Second EXCEPT !.addrAt = stamp], <<Good, Good>>,
          <<Elsewhere(Snap(2, 1, 1, Good)), Snap(2, 2, 5, Good)>>)
      EXCEPT !.patches[2] = {[from |-> "z", stamp |-> stamp, commit |-> commit]}]
     : <<stamp, commit>> \in {<<4, 4>>, <<1, 2>>}}

(* Snapshots, legacy rows and manual balances side by side; a run at work.  *)
Mixed ==
  {Db(Cash("me"), <<Run(3, 4, "success"), Run(6, Null, "running")>>,
      <<Snap(1, 1, at, Good)>>, <<Old(1, 2), Old(1, 5)>>, b)
     : <<at, b>> \in {<<4, OneBook>>, <<3, NoBooks>>}}
  \cup {Db(Cash("me"), <<>>, <<>>, <<Old(1, 5)>>, OneBook),
        Db(Cash("me"), <<Run(5, 6, "partial_success")>>, <<Snap(1, 1, 6, Half)>>, <<>>, NoBooks),
        Db(Second, <<Run(6, Null, "running")>>, <<Snap(1, 1, 6, Bad)>>, <<Old(2, 5)>>, NoBooks)}

(* Values before and inside a window, legacy rows before the first new one. *)
Charted ==
  {Db(Second, <<Run(p[1], p[1], "partial_success"), Run(5, 5, "success")>>,
      <<Snap(1, 1, p[1], Good), Snap(2, 2, 5, Unpriced), Snap(2, 1, p[1], Lost)>>,
      <<Old(1, p[2]), Old(2, p[3]), Old(2, 5)>>, NoBooks)
     : p \in {<<1, 0, 1>>, <<3, 2, 3>>, <<4, 3, 1>>, <<5, 3, 2>>}}

MCDatabases == Compared \cup Patched \cup Mixed \cup Charted

Paid(price) == [symbol |-> "BTC", amount |-> 1, price |-> price,
                value |-> IF price = Null THEN 0 ELSE price]
MCExchanges ==
  {[status |-> "not_configured", age |-> Null, assets |-> {}],
   [status |-> "timeout", age |-> Null, assets |-> {}],
   [status |-> "success", age |-> 0, assets |-> {}],
   [status |-> "success", age |-> 3, assets |-> {Paid(1)}],
   [status |-> "success", age |-> 0, assets |-> {Paid(Null)}]}

Scope(mode, groups, ungrouped) == [mode |-> mode, groups |-> groups, ungrouped |-> ungrouped]
MCScopes == {Scope("all", {}, FALSE), Scope("selection", {1}, FALSE),
             Scope("selection", {}, TRUE), Scope("selection", {1, 2}, FALSE)}

Query(w, g) == [wallet |-> w, group |-> g, days |-> 3]
MCQueries == {Query(Null, Null), Query(1, Null), Query(3, Null), Query(Null, 1), Query(Null, 2)}

Target(scope, target) == [scope |-> scope, target |-> target]
MCTargets == {Target("all", Null), Target("wallet", 1), Target("wallet", 3),
              Target("group", 1), Target("group", 2)}

MCFailures == {[kind |-> "timeout", status |-> 0], [kind |-> "status", status |-> 404]}

==============================================================================
