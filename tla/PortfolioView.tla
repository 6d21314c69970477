---------------------------- MODULE PortfolioView ----------------------------
(***************************************************************************)
(* What a wallet is worth and how far that can be trusted: the statements  *)
(* of build_wallet_balance_info, the data health of a set of wallets and of *)
(* one wallet (services/wallet_view.py, services/portfolio_health.py), and  *)
(* the exchange's part of it (services/exchange_portfolio.py).              *)
(***************************************************************************)
EXTENDS PortfolioTables

------------------------------------------------------------------------------
(* build_wallet_balance_info: six statements over the ids in req.wallets.   *)

InfoSteps == {"latest", "meta", "assets", "legacy", "legacyAssets", "manual"}

(* _latest_wallet_snapshot_ids                                              *)
LatestSnapshots(W) ==
  LET Readable(w) == {s \in SnapsOf(w, ReadStatuses) : CurrentRevision(s)}
  IN  [w \in {v \in W : Readable(v) # {}} |-> TopRow(Readable(w), CreatedAt)]

(* _latest_legacy_snapshots                                                 *)
LatestLegacy(W) ==
  LET Rows(w) == {l \in DOMAIN legacy : /\ legacy[l].wallet = w
                                        /\ w \in DOMAIN wallets
                                        /\ legacy[l].at >= wallets[w].addrAt}
      Taken(l) == legacy[l].at
  IN  [w \in {v \in W : Rows(v) # {}} |->
         LET l == TopRow(Rows(w), Taken)
         IN  [id |-> l, total |-> legacy[l].total, at |-> legacy[l].at]]

ReadLatest ==
  /\ req.pc = "latest"
  /\ Then("meta", [latest |-> LatestSnapshots(req.wallets)])

Chosen == {req.latest[w] : w \in DOMAIN req.latest}

(* _load_snapshot_meta and _load_snapshot_assets                            *)
ReadMeta ==
  /\ req.pc = "meta"
  /\ Then("assets", [meta |-> [s \in Chosen \cap DOMAIN snaps |->
                                 [total |-> snaps[s].total, at |-> Observed(s)]]])

ReadAssets ==
  /\ req.pc = "assets"
  /\ Then("legacy", [assets |-> [s \in Chosen |-> BalancesOf({s})]])

ReadLegacy ==
  /\ req.pc = "legacy"
  /\ Then("legacyAssets",
          [legacy |-> LatestLegacy(req.wallets \ DOMAIN req.latest)])

(* _load_legacy_snapshot_assets: the price is worked back from the value.   *)
LegacyBalances(l) ==
  IF l \notin DOMAIN legacy THEN {}
  ELSE {<<<<"legacy", l>>,
          [b EXCEPT !.price = IF b.amount = 0 THEN Null ELSE b.value \div b.amount,
                    !.source = Null]>> : b \in legacy[l].balances}

ReadLegacyAssets ==
  /\ req.pc = "legacyAssets"
  /\ Then("manual", [legacyAssets |->
                       [w \in DOMAIN req.legacy |-> LegacyBalances(req.legacy[w].id)]])

ManualValue(b) == IF b.price = Null THEN 0 ELSE b.amount * b.price

ManualBalances(w) ==
  IF w \notin DOMAIN manual THEN {}
  ELSE {<<<<"manual", w>>, [b EXCEPT !.value = ManualValue(b)]>> : b \in manual[w]}

(* A chosen snapshot without its meta row is a KeyError.                    *)
Missing == ~ Chosen \subseteq DOMAIN req.meta

(* _load_manual_assets, and the end of build_wallet_balance_info            *)
ReadManual(next) ==
  /\ req.pc = "manual"
  /\ IF Missing
       THEN Fail(500)
       ELSE Then(next, [manual |-> [w \in req.wallets |-> ManualBalances(w)]])

SumValues(B) == SumFunction([x \in B |-> x[2].value])

(* _WalletBalanceInfo of a wallet, from the locals of a request.            *)
Info(r, w) ==
  IF w \in DOMAIN r.latest THEN
    [source |-> "latest_snapshot", balance |-> r.meta[r.latest[w]].total,
     at |-> r.meta[r.latest[w]].at, assets |-> r.assets[r.latest[w]],
     snap |-> r.latest[w], old |-> Null]
  ELSE IF w \in DOMAIN r.legacy THEN
    [source |-> "latest_snapshot", balance |-> r.legacy[w].total,
     at |-> r.legacy[w].at, assets |-> r.legacyAssets[w],
     snap |-> Null, old |-> r.legacy[w].id]
  ELSE IF r.rows[w].kind = "manual" /\ r.manual[w] # {} THEN
    [source |-> "manual", balance |-> SumValues(r.manual[w]), at |-> Null,
     assets |-> r.manual[w], snap |-> Null, old |-> Null]
  ELSE [source |-> "none", balance |-> 0, at |-> Null, assets |-> {},
        snap |-> Null, old |-> Null]

Infos(r) == [w \in r.wallets |-> Info(r, w)]

SnapsIn(infos) == {infos[w].snap : w \in DOMAIN infos} \ {Null}

------------------------------------------------------------------------------
(* Health *)

Freshness(at, t) ==
  IF at = Null THEN "unknown"
  ELSE IF t - at <= Fresh THEN "fresh"
  ELSE IF t - at <= Stale THEN "aging" ELSE "stale"

Sources == {"coingecko", "frankfurter", "manual", "static_dev", "unknown"}
Normalized(source) == IF source \in Sources THEN source ELSE "unknown"

(* The state of a set of counted prices.                                    *)
QualityState(sources, priced, total) ==
  IF total = 0 THEN "unknown"
  ELSE IF priced < total THEN "incomplete"
  ELSE IF "static_dev" \in sources THEN "estimated"
  ELSE IF "unknown" \in sources THEN "unknown" ELSE "complete"

(* portfolio_price_quality: balances of zero do not count.                  *)
PriceQuality(B) ==
  LET relevant == {x \in B : x[2].amount # 0}
      sources == {Normalized(x[2].source) : x \in relevant}
      priced == Cardinality({x \in relevant : x[2].price # Null})
  IN  [state |-> QualityState(sources, priced, Cardinality(relevant)),
       sources |-> sources, priced |-> priced, total |-> Cardinality(relevant)]

(* Balances that no snapshot row carries a price source for.                *)
Sourced(info) ==
  {<<x[1], [x[2] EXCEPT !.source = IF info.source = "manual" THEN "manual" ELSE Null]>>
     : x \in info.assets}

(* One entry per chain with an unsuccessful row.                            *)
ChainIssues(rows) ==
  {LET of == {x \in rows : x[2].chain = c}
   IN  [chain |-> c, wallets |-> Cardinality({x[1] : x \in of}),
        status |-> IF \E x \in of : x[2].status = "failed" THEN "failed"
                   ELSE (CHOOSE x \in of : TRUE)[2].status]
     : c \in {x[2].chain : x \in rows}}

(* Faulty variant: any unsuccessful chain makes the job retryable.          *)
RetryableAny(rows) ==
  LET jobs == {x[2].run : x \in rows}
  IN  IF Cardinality(jobs) = 1 THEN CHOOSE r \in jobs : TRUE ELSE Null

(* retryable_job_id: the one run all failed chains belong to.               *)
RetryableJob(rows) ==
  LET jobs == {x[2].run : x \in {y \in rows : y[2].status = "failed"}}
  IN  IF Cardinality(jobs) = 1 THEN CHOOSE r \in jobs : TRUE ELSE Null

(* Faulty variant: the newest date.                                         *)
MaxOrNull(S) == IF S = {} THEN Null ELSE Max(S)

(* as_of: the oldest of the dates that are known.                           *)
MinOrNull(S) == IF S = {} THEN Null ELSE Min(S)

HealthState(issues, quality, refreshing, missing, freshness) ==
  IF issues # {} \/ quality \in {"estimated", "incomplete"} THEN "partial"
  ELSE IF refreshing THEN "updating"
  ELSE IF missing THEN "partial"
  ELSE IF freshness = "stale" THEN "stale" ELSE "fresh"

(* build_portfolio_data_health, from infos and the rows of its statements.  *)
DataHealth(infos, refreshing, issues, balances, t) ==
  LET W == DOMAIN infos
      dates == {infos[w].at : w \in W} \ {Null}
      unread == {w \in W : infos[w].snap = Null}
      quality == PriceQuality(balances \cup UNION {Sourced(infos[w]) : w \in unread})
      asOf == MinOrNull(dates)
      freshness == Freshness(asOf, t)
      missing == {w \in W : infos[w].source = "none"}
  IN  [state |-> HealthState(issues, quality.state, refreshing, missing # {}, freshness),
       freshness |-> freshness, asOf |-> asOf, total |-> Cardinality(W),
       missing |-> Cardinality(missing), refreshing |-> refreshing,
       retry |-> RetryableJob(issues), issues |-> ChainIssues(issues),
       quality |-> quality]

(* The end of build_wallet_detail_summary.                                  *)
DetailHealth(info, refreshing, issues, balances, t) ==
  LET quality == PriceQuality(IF info.snap # Null THEN balances ELSE Sourced(info))
      freshness == Freshness(info.at, t)
  IN  [state |-> HealthState(issues, quality.state, refreshing,
                             info.source = "none", freshness),
       freshness |-> freshness, quality |-> quality]

------------------------------------------------------------------------------
(* The exchange's positions: assets is a set of priced or unpriced ones.    *)

Configured(ex) == ex.status # "not_configured"
ExchangeTotal(ex) == SumFunction([a \in ex.assets |-> a.value])

ExchangeState(ex, t) ==
  IF \E a \in ex.assets : a.price = Null THEN "partial"
  ELSE IF Freshness(ex.asOf, t) = "stale" THEN "stale" ELSE "fresh"

(* Faulty variant: the state of the wallets is forgotten.                   *)
MergedStateAnew(h, ex, freshness, t) ==
  IF ExchangeState(ex, t) = "partial" THEN "partial"
  ELSE IF h.refreshing THEN "updating"
  ELSE IF freshness = "stale" THEN "stale" ELSE "fresh"

MergedState(h, ex, freshness, t) ==
  IF h.state = "partial" \/ ExchangeState(ex, t) = "partial" THEN "partial"
  ELSE IF h.refreshing THEN "updating"
  ELSE IF freshness = "stale" THEN "stale" ELSE "fresh"

(* Neither quality.sources nor anything after it keeps "frankfurter".       *)
MergedQuality(quality, ex) ==
  LET priced == {a \in ex.assets : a.price # Null}
      sources == quality.sources
                   \cup (IF priced # {} THEN {"coingecko"} ELSE {})
                   \cup (IF priced # ex.assets THEN {"unknown"} ELSE {})
      counted == quality.priced + Cardinality(priced)
      total == quality.total + Cardinality(ex.assets)
  IN  [state |-> QualityState(sources, counted, total),
       sources |-> sources \cap {"coingecko", "manual", "static_dev", "unknown"},
       priced |-> counted, total |-> total]

(* _merge_exchange_health changes the health of the wallets in place.       *)
MergeExchange(h, ex, t) ==
  IF ~ Configured(ex) THEN h
  ELSE IF ex.status # "success" THEN [h EXCEPT !.state = "partial"]
  ELSE LET asOf == MinOrNull({h.asOf, ex.asOf} \ {Null})
           freshness == Freshness(asOf, t)
       IN  [h EXCEPT !.asOf = asOf, !.freshness = freshness,
                     !.quality = MergedQuality(h.quality, ex),
                     !.state = MergedState(h, ex, freshness, t)]

==============================================================================
