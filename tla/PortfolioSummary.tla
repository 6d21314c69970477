--------------------------- MODULE PortfolioSummary ---------------------------
(***************************************************************************)
(* GET /portfolio/summary with its 24 hour change, GET /portfolio/allocation *)
(* and GET /wallets/{id}/summary, statement by statement.                   *)
(***************************************************************************)
EXTENDS PortfolioView

CONSTANTS
  Exchanges,  \* answers of fetch_exchange_portfolio: status, age, assets
  Scopes,     \* scopes a client may ask the allocation for
  Visible,    \* ALLOCATION_VISIBLE_ASSETS
  Fold        \* what lower(), upper() and strip() make of a name

(* fetch_exchange_portfolio lists assets only with an answer that is valid. *)
ASSUME ExchangesAssumption ==
  \A x \in Exchanges : /\ IsFiniteSet(x.assets)
                       /\ \A a \in x.assets : a.value \in Int
                       /\ x.status = "success" \/ x.assets = {}
                       /\ x.age = Null \/ x.age \in Int

ASSUME AllocationAssumption == Visible \in Nat /\ Null \notin Sources

NotAsked == [status |-> "not_configured", asOf |-> Null, assets |-> {}]

(* get_current_user refuses the token of a user who is gone.                *)
Start(op, pc, locals) ==
  /\ req.pc = "idle"
  /\ req' = With(IF gone THEN [op |-> op, pc |-> "done", answer |-> [code |-> 401]]
                 ELSE [op |-> op, pc |-> pc], locals)
  /\ UNCHANGED <<world, offer>>

ReadWallets(W, next) ==
  Then(next, [wallets |-> W, rows |-> Keep(wallets, W)])

(* run_in_threadpool(fetch_exchange_portfolio)                              *)
AskExchange(next) ==
  \E x \in Exchanges :
    Then(next, [ex |-> [status |-> x.status, assets |-> x.assets,
                        asOf |-> IF x.age = Null THEN Null ELSE now - x.age]])

------------------------------------------------------------------------------
(* GET /portfolio/summary *)

StartSummary == Start("summary", "wallets", NoLocals)

SummaryWallets == At("summary", "wallets") /\ ReadWallets(CanonicalWallets(Me), "latest")

SummaryExchange == At("summary", "exchange") /\ AskExchange("refresh")

Refreshing(u) == \E r \in DOMAIN runs : runs[r].user = u /\ runs[r].status \in ActiveStatuses

SummaryRefresh ==
  /\ At("summary", "refresh")
  /\ Then("issues", [refreshing |-> Refreshing(Me)])

SummaryIssues ==
  /\ req.op \in {"summary", "detail"} /\ req.pc = "issues"
  /\ Then("prices", [issues |-> Unfinished(SnapsIn(Infos(req)))])

SummaryTotal(r) ==
  SumFunction([w \in r.wallets |-> Info(r, w).balance]) + ExchangeTotal(r.ex)

Answered(total, health, change) ==
  [answer |-> [code |-> 200, total |-> total, health |-> health, change |-> change]]

Result(status, reasons) == [status |-> status, reasons |-> reasons]

(* Why the change has no counterpart in the past, if it has none.           *)
NoCounterpart(infos, ex) ==
  IF ex.assets # {} THEN {"current_source_has_no_historical_counterpart"}
  ELSE IF infos = NoLocals THEN {"no_wallets"}
  ELSE IF \E w \in DOMAIN infos : infos[w].snap = Null
    THEN {"current_source_has_no_historical_counterpart"}
  ELSE {}

(* The last statement of the health, the merge with the exchange, and the   *)
(* first checks of _portfolio_change_24h.                                   *)
SummaryPrices ==
  /\ At("summary", "prices")
  /\ LET infos == Infos(req)
         own == DataHealth(infos, req.refreshing, req.issues,
                           BalancesOf(SnapsIn(infos)), now)
         health == MergeExchange(own, req.ex, now)
         none == NoCounterpart(infos, req.ex)
     IN  IF none # {}
           THEN Then("done", With([at |-> now], Answered(SummaryTotal(req), health,
                                                         Result("unavailable", none))))
           ELSE Then("current", [health |-> health, at |-> now])

Span(times) == Max(times) - Min(times)

CurrentReasons(rows, times) ==
  {reason \in {"current_snapshot_missing", "current_snapshot_partial",
               "current_chain_issues", "current_price_quality",
               "current_data_not_fresh", "current_observation_skew"} :
     CASE reason = "current_snapshot_missing" -> Cardinality(rows) # Cardinality(req.wallets)
       [] reason = "current_snapshot_partial" -> \E s \in rows : snaps[s].status # "success"
       [] reason = "current_chain_issues" -> req.health.issues # {}
       [] reason = "current_price_quality" -> req.health.quality.state # "complete"
       [] reason = "current_data_not_fresh" ->
            req.health.state \in {"partial", "stale"} \/ req.health.freshness # "fresh"
       [] reason = "current_observation_skew" ->
            times # {} /\ (req.at - Min(times) > Fresh \/ Span(times) > Fresh)}

SummaryCurrent ==
  /\ At("summary", "current")
  /\ LET rows == SnapsIn(Infos(req)) \cap DOMAIN snaps
         reasons == CurrentReasons(rows, {Observed(s) : s \in rows})
     IN  IF reasons # {}
           THEN Then("done", Answered(SummaryTotal(req), req.health,
                                      Result("incomplete", reasons)))
           ELSE Then("baseline", NoLocals)

Cutoff == req.at - Day

(* Faulty variant: a baseline of whatever address the wallet had.           *)
BaselinesOfAnyAddress(w) ==
  {s \in SnapsOf(w, {"success"}) : Observed(s) \in Cutoff - Fresh .. Cutoff}

(* The rows the baseline of a wallet is chosen from.                        *)
Baselines(w) ==
  {s \in SnapsOf(w, {"success"}) :
     Observed(s) \in Cutoff - Fresh .. Cutoff /\ CurrentRevision(s)}

SummaryBaseline ==
  /\ At("summary", "baseline")
  /\ LET found == {w \in req.wallets : Baselines(w) # {}}
         reason == IF \E w \in req.wallets : req.rows[w].addrAt > Cutoff
                     THEN "wallet_address_changed" ELSE "baseline_missing"
     IN  IF found # req.wallets
           THEN Then("done", Answered(SummaryTotal(req), req.health,
                                      Result("unavailable", {reason})))
           ELSE Then("baseIssues",
                     [base |-> [w \in found |-> TopRow(Baselines(w), Observed)],
                      starts |-> [w \in found |->
                        LET s == TopRow(Baselines(w), Observed)
                        IN  [total |-> snaps[s].total, at |-> Observed(s)]]])

BaseSnaps == {req.base[w] : w \in DOMAIN req.base}

SummaryBaseIssues ==
  /\ At("summary", "baseIssues")
  /\ Then("basePrices", [broken |-> Unfinished(BaseSnaps) # {}])

SummaryBasePrices ==
  /\ At("summary", "basePrices")
  /\ LET times == {req.starts[w].at : w \in req.wallets}
         start == SumFunction([w \in req.wallets |-> req.starts[w].total])
         reasons ==
           (IF req.broken THEN {"baseline_chain_issues"} ELSE {})
             \cup (IF PriceQuality(BalancesOf(BaseSnaps)).state # "complete"
                     THEN {"baseline_price_quality"} ELSE {})
             \cup (IF Span(times) > Fresh THEN {"baseline_observation_skew"} ELSE {})
         change == IF reasons # {} THEN Result("incomplete", reasons)
                   ELSE IF start = 0 THEN Result("unavailable", {"baseline_zero"})
                   ELSE Result("complete", {})
     IN  Then("done", Answered(SummaryTotal(req), req.health, change))

------------------------------------------------------------------------------
(* GET /portfolio/allocation *)

ValidScope(scope) ==
  IF scope.mode = "all" THEN scope.groups = {} /\ ~ scope.ungrouped
  ELSE scope.groups # {} \/ scope.ungrouped

StartAllocation(scope) ==
  /\ ValidScope(scope)
  /\ Start("allocation", IF scope.groups = {} THEN "wallets" ELSE "groups",
           [scope |-> scope, ex |-> NotAsked])

OwnedGroups(groups) == \A g \in groups : GroupOwner[g] = Me

AllocationGroups ==
  /\ At("allocation", "groups")
  /\ IF OwnedGroups(req.scope.groups) THEN Then("wallets", NoLocals) ELSE Fail(404)

ScopeWallets(scope) ==
  IF scope.mode = "all" THEN CanonicalWallets(Me)
  ELSE {w \in CanonicalWallets(Me) : InScope(w, scope.groups, scope.ungrouped)}

AllocationWallets ==
  /\ At("allocation", "wallets")
  /\ ReadWallets(ScopeWallets(req.scope),
                 IF req.scope.mode = "all" THEN "exchange" ELSE "latest")

AllocationExchange == At("allocation", "exchange") /\ AskExchange("latest")

(* _allocation_asset_key                                                    *)
AllocationKey(a) ==
  IF a.type = "erc20" /\ a.contract # Null
    THEN <<"evm", Fold[a.chain], Fold[a.contract]>>
  ELSE IF a.type = "manual" \/ a.chain = "manual" THEN <<"manual", Fold[a.symbol]>>
  ELSE IF a.type = "native" \/ a.contract = Null
    THEN <<"native", Fold[a.chain], Fold[a.symbol]>>
  ELSE <<a.type, Fold[a.chain], Fold[a.contract]>>

Typed(a) == [a EXCEPT !.type = IF a.contract = Null THEN "native" ELSE "erc20"]
AsManual(a) == [a EXCEPT !.type = "manual", !.contract = Null]

(* A call of add_asset: what was counted, its key and its value.            *)
Share(kind, x, asset) == <<<<kind, x>>, AllocationKey(asset), x[2].value>>
ExchangeShare(a) == <<<<"exchange", a>>, <<"exchange", a.symbol>>, a.value>>

SnapShares(B) == {Share("snapshot", x, x[2].asset) : x \in B}
OldShares(B) == {Share("legacy", x, Typed(x[2].asset)) : x \in B}
BookShares(B) == {Share("manual", x, AsManual(x[2].asset)) : x \in B}
ExchangeShares(ex) ==
  IF ex.status = "success" THEN {ExchangeShare(a) : a \in ex.assets} ELSE {}

(* Faulty variant: every manual wallet adds its manual balances.            *)
SharesCountedTwice(r, balances, old) ==
  LET cash == {w \in r.wallets : r.rows[w].kind = "manual"}
  IN  SnapShares(balances) \cup OldShares(old) \cup ExchangeShares(r.ex)
        \cup BookShares(UNION {ManualBalances(w) : w \in cash})

(* Manual balances count only for wallets without any snapshot.             *)
AllShares(r, balances, old) ==
  LET infos == Infos(r)
      unread == {w \in r.wallets : infos[w].snap = Null /\ infos[w].old = Null}
  IN  SnapShares(balances) \cup OldShares(old) \cup ExchangeShares(r.ex)
        \cup BookShares(UNION {infos[w].assets : w \in unread})

(* _allocation_quality, over what add_asset observed.                       *)
Observation(s) ==
  LET kind == s[1][1]
      x == s[1][2]
  IN  CASE kind = "snapshot" -> x
        [] kind = "legacy" -> <<x[1], [x[2] EXCEPT !.source = "unknown"]>>
        [] kind = "manual" -> <<x[1], [x[2] EXCEPT !.source = "manual"]>>
        [] kind = "exchange" ->
             <<<<kind, x.symbol>>,
               [amount |-> x.amount, price |-> x.price, value |-> x.value,
                asset |-> [type |-> kind, chain |-> kind, symbol |-> x.symbol,
                           contract |-> Null],
                source |-> IF x.price # Null THEN "coingecko" ELSE "unknown"]>>

AllocationQuality(S) ==
  LET quality == PriceQuality({Observation(s) : s \in S})
  IN  IF S = {} THEN [quality EXCEPT !.state = "empty"] ELSE quality

ValueOf(S) == SumFunction([s \in S |-> s[3]])
KeysOf(S) == {s[2] : s \in S}
KeyValue(S, k) == ValueOf({s \in S : s[2] = k})

AllocationBalances ==
  /\ At("allocation", "balances")
  /\ Then("oldBalances", [balances |-> BalancesOf(SnapsIn(Infos(req)))])

OldBalances(ids) == UNION {LegacyBalances(l) : l \in ids}

(* sorted() keeps the order of equal values, which no statement fixes.      *)
AllocationOld ==
  /\ At("allocation", "oldBalances")
  /\ LET infos == Infos(req)
         ids == {infos[w].old : w \in req.wallets} \ {Null}
         S == AllShares(req, req.balances, OldBalances(ids))
         Value(k) == KeyValue(S, k)
     IN  \E top \in kSubset(Min({Visible, Cardinality(KeysOf(S))}), KeysOf(S)) :
           /\ \A k \in top, j \in KeysOf(S) \ top : Value(k) >= Value(j)
           /\ Then("done",
                   [answer |->
                      [code |-> 200, total |-> ValueOf(S),
                       quality |-> AllocationQuality(S),
                       items |-> [k \in top |-> Value(k)],
                       other |-> SumFunction([k \in KeysOf(S) \ top |-> Value(k)])]])

------------------------------------------------------------------------------
(* GET /wallets/{wallet_id}/summary *)

StartDetail(w) == Start("detail", "wallets", [wallet |-> w, ex |-> NotAsked])

OwnWallet(w) == w \in DOMAIN wallets /\ wallets[w].user = Me

DetailWallet ==
  /\ At("detail", "wallets")
  /\ IF OwnWallet(req.wallet) THEN ReadWallets({req.wallet}, "latest") ELSE Fail(404)

DetailPrices ==
  /\ At("detail", "prices")
  /\ Then("refresh", [balances |-> BalancesOf(SnapsIn(Infos(req)))])

(* The runs that will collect this wallet.                                  *)
RefreshingWallet(row, w) ==
  \E r \in DOMAIN runs :
    /\ runs[r].user = row.user /\ runs[r].status \in ActiveStatuses
    /\ \/ runs[r].scope = "all"
       \/ runs[r].scope = "wallet" /\ runs[r].target = w
       \/ runs[r].scope = "group" /\ row.group # Null /\ runs[r].target = row.group

DetailRefresh ==
  /\ At("detail", "refresh")
  /\ LET w == req.wallet
         info == Info(req, w)
     IN  Then("done",
              Answered(info.balance,
                       DetailHealth(info, RefreshingWallet(req.rows[w], w),
                                    req.issues, req.balances, now), Null))

------------------------------------------------------------------------------
(* build_wallet_balance_info goes on where its caller waits for it.         *)
AfterInfo ==
  [op \in {"summary", "allocation", "detail"} |->
     CASE op = "summary" -> "exchange" [] op = "allocation" -> "balances"
       [] op = "detail" -> "issues"]

InfoStep ==
  \/ ReadLatest
  \/ ReadMeta
  \/ ReadAssets
  \/ ReadLegacy
  \/ ReadLegacyAssets
  \/ req.pc = "manual" /\ ReadManual(AfterInfo[req.op])

SummaryStep ==
  \/ StartSummary \/ SummaryWallets \/ SummaryExchange \/ SummaryRefresh
  \/ SummaryIssues \/ SummaryPrices \/ SummaryCurrent \/ SummaryBaseline
  \/ SummaryBaseIssues \/ SummaryBasePrices

AllocationStep ==
  \/ \E scope \in Scopes : StartAllocation(scope)
  \/ AllocationGroups \/ AllocationWallets \/ AllocationExchange
  \/ AllocationBalances \/ AllocationOld

DetailStep ==
  \/ \E w \in DOMAIN wallets : StartDetail(w)
  \/ DetailWallet \/ DetailPrices \/ DetailRefresh

==============================================================================
