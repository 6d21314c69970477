--------------------------- MODULE PortfolioHistory ---------------------------
(***************************************************************************)
(* GET /portfolio/history (and GET /portfolio): the values of one wallet,   *)
(* of a group or of all wallets over the last days, each wallet's latest    *)
(* value carried forward to the times at which another wallet has one.      *)
(***************************************************************************)
EXTENDS PortfolioSummary, Sequences, SequencesExt

CONSTANTS
  Queries  \* what a client may ask: wallet, group (either may be Null), days

ASSUME QueriesAssumption == \A q \in Queries : q.days \in Nat

HistoryStatuses == {"success"}

(* Rows of the two snapshot tables in one form; new tells them apart.       *)
NewRow(s) == [wallet |-> snaps[s].wallet, at |-> Observed(s), total |-> snaps[s].total,
              new |-> 1, id |-> s]
OldRow(l) == [wallet |-> legacy[l].wallet, at |-> legacy[l].at, total |-> legacy[l].total,
              new |-> 0, id |-> l]

NewRows(W) == {NewRow(s) : s \in UNION {SnapsOf(w, HistoryStatuses) : w \in W}}
OldRows(W) == {OldRow(l) : l \in {m \in DOMAIN legacy : legacy[m].wallet \in W}}

(* Rows of one table never share an id, so this is a total order.           *)
Later(x, y) ==
  \/ x.at > y.at
  \/ x.at = y.at /\ (x.new > y.new \/ (x.new = y.new /\ x.id > y.id))

LastOf(R) == CHOOSE x \in R : \A y \in R \ {x} : Later(x, y)

------------------------------------------------------------------------------
(* "Pass either wallet_id or group_id, not both" is a 422.                  *)
StartHistory(q) ==
  /\ q.wallet = Null \/ q.group = Null
  /\ Start("history",
           IF q.wallet # Null THEN "ownWallet"
           ELSE IF q.group # Null THEN "ownGroup" ELSE "wallets",
           [query |-> q])

HistoryOwnWallet ==
  /\ At("history", "ownWallet")
  /\ IF OwnWallet(req.query.wallet) THEN Then("wallets", NoLocals) ELSE Fail(404)

HistoryOwnGroup ==
  /\ At("history", "ownGroup")
  /\ IF GroupOwner[req.query.group] = Me THEN Then("wallets", NoLocals) ELSE Fail(404)

(* The wallets of a query: a wallet asked for by id may be inactive, the    *)
(* others are active and counted once per address.                          *)
HistoryWallets(q) ==
  LET mine == {w \in ActiveOf(Me) : q.group = Null \/ wallets[w].group = q.group}
      Same(v, w) == /\ wallets[v].kind = "evm" /\ wallets[w].kind = "evm"
                    /\ wallets[w].address # Null
                    /\ wallets[v].address = wallets[w].address
  IN  IF q.wallet # Null THEN {q.wallet} \cap {w \in DOMAIN wallets : wallets[w].user = Me}
      ELSE {w \in mine : \A v \in mine : Same(v, w) => w <= v}

NoPoints == [code |-> 200, points |-> {}]

HistoryScope ==
  /\ At("history", "wallets")
  /\ LET W == HistoryWallets(req.query)
     IN  IF W = {} THEN Then("done", [answer |-> NoPoints])
         ELSE Then("rows", [wallets |-> W, since |-> now - req.query.days])

(* Faulty variant: legacy rows are kept beside the new ones.                *)
KeptAlways(row, first) == TRUE

(* A legacy row counts while the wallet had no new snapshot.                *)
Kept(row, first) == row.wallet \notin DOMAIN first \/ row.at < first[row.wallet]

FirstNew(W) ==
  LET R == NewRows(W)
  IN  [w \in {x.wallet : x \in R} |-> Min({x.at : x \in {y \in R : y.wallet = w}})]

Seeds(R) == [w \in {x.wallet : x \in R} |-> LastOf({x \in R : x.wallet = w})]

(* The loop over rows sorted by time and wallet: balances starts from the   *)
(* seeds, every row replaces its wallet's balance, and every distinct time  *)
(* yields a point with the sum.                                             *)
Carried(R, seeds) ==
  LET times == {x.at : x \in R}
      Balances[t \in times \cup {Null}] ==
        IF t = Null THEN [w \in DOMAIN seeds |-> seeds[w].total]
        ELSE LET before == {u \in times : u < t}
                 prior == Balances[IF before = {} THEN Null ELSE Max(before)]
                 here == Seeds({x \in R : x.at = t})
             IN  With([w \in DOMAIN here |-> here[w].total], prior)
  IN  {<<t, SumFunction(Balances[t])>> : t \in times}

------------------------------------------------------------------------------
(* What the answer ought to be, from the rows N and O of one state.         *)

Eligible(N, O) ==
  N \cup {x \in O : ~ \E y \in N : y.wallet = x.wallet /\ y.at <= x.at}

ValueAt(E, w, t) ==
  LET R == {x \in E : x.wallet = w /\ x.at <= t}
  IN  IF R = {} THEN 0 ELSE LastOf(R).total

Point(x) == <<x.at, x.total, x.new, x.id>>

Reference(q, W, E, since) ==
  LET R == {x \in E : x.at >= since}
  IN  IF q.wallet # Null THEN {Point(x) : x \in R}
      ELSE {<<t, SumFunction([w \in W |-> ValueAt(E, w, t)])>> : t \in {x.at : x \in R}}

------------------------------------------------------------------------------
(* The statements *)

HistoryRows ==
  /\ At("history", "rows")
  /\ Then("first",
          [rows |-> {x \in NewRows(req.wallets) : x.at >= req.since},
           expected |-> Reference(req.query, req.wallets,
                                  Eligible(NewRows(req.wallets), OldRows(req.wallets)),
                                  req.since)])

HistoryFirst ==
  /\ At("history", "first")
  /\ Then("old", [first |-> FirstNew(req.wallets)])

HistoryOld ==
  /\ At("history", "old")
  /\ LET kept == {x \in OldRows(req.wallets) : x.at >= req.since /\ Kept(x, req.first)}
         all == req.rows \cup kept
     IN  IF req.query.wallet # Null
           THEN Then("done", [answer |-> [code |-> 200, points |-> {Point(x) : x \in all}]])
           ELSE Then("seeds", [rows |-> all])

HistorySeeds ==
  /\ At("history", "seeds")
  /\ Then("oldSeeds", [seeds |-> Seeds({x \in NewRows(req.wallets) : x.at < req.since})])

(* The latest legacy row before the window, if it is later than the seed.   *)
HistoryOldSeeds ==
  /\ At("history", "oldSeeds")
  /\ LET old == Seeds({x \in OldRows(req.wallets) :
                         x.at < req.since /\ Kept(x, req.first)})
         wins == {w \in DOMAIN old :
                    w \notin DOMAIN req.seeds \/ old[w].at > req.seeds[w].at}
         seeds == With([w \in wins |-> old[w]], req.seeds)
     IN  Then("done", [answer |-> [code |-> 200, points |-> Carried(req.rows, seeds)]])

HistoryStep ==
  \/ \E q \in Queries : StartHistory(q)
  \/ HistoryOwnWallet \/ HistoryOwnGroup \/ HistoryScope \/ HistoryRows
  \/ HistoryFirst \/ HistoryOld \/ HistorySeeds \/ HistoryOldSeeds

==============================================================================
