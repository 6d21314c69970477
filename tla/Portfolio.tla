------------------------------ MODULE Portfolio ------------------------------
(***************************************************************************)
(* The portfolio endpoints and the snapshot jobs together: one request of   *)
(* Me at a time over tables that others keep changing, and what holds of    *)
(* the answers.                                                             *)
(***************************************************************************)
EXTENDS SnapshotJobs

(* The client keeps the job a summary offers and may ask for its retry.     *)
Finish ==
  /\ req.pc = "done"
  /\ req' = [op |-> "none", pc |-> "idle"]
  /\ offer' = IF req.op = "summary" /\ req.answer.code = 200
                THEN req.answer.health.retry ELSE Null
  /\ UNCHANGED world

PInit == Init0
PNext == Environment \/ InfoStep \/ SummaryStep \/ AllocationStep \/ DetailStep
           \/ HistoryStep \/ JobStep \/ Finish

PSpec == PInit /\ [][PNext]_pVars

------------------------------------------------------------------------------
(* The statements of build_wallet_balance_info at one instant.              *)
ViewNow(W) ==
  LET latest == LatestSnapshots(W)
      S == {latest[w] : w \in DOMAIN latest}
      old == LatestLegacy(W \ DOMAIN latest)
  IN  [wallets |-> W, rows |-> Keep(wallets, W), latest |-> latest, legacy |-> old,
       meta |-> [s \in S |-> [total |-> snaps[s].total, at |-> Observed(s)]],
       assets |-> [s \in S |-> BalancesOf({s})],
       legacyAssets |-> [w \in DOMAIN old |-> LegacyBalances(old[w].id)],
       manual |-> [w \in W |-> ManualBalances(w)], ex |-> NotAsked]

(* The allocation, its statements at one instant.                           *)
SharesNow(r) ==
  LET infos == Infos(r)
  IN  AllShares(r, BalancesOf(SnapsIn(infos)),
                OldBalances({infos[w].old : w \in r.wallets} \ {Null}))

AllocationTotal(r) == ValueOf(SharesNow(r))

Done(op) == At(op, "done") /\ req.answer.code = 200

------------------------------------------------------------------------------
(* Properties *)

(* The tables stay well formed and refer to each other, and whatever a      *)
(* refresh or a retry creates is a run over the user's own wallets, groups  *)
(* and runs.                                                                *)
PTypeOK ==
  /\ \A w \in DOMAIN wallets : wallets[w].user \in Users /\ wallets[w].addrAt <= now
  /\ \A r \in DOMAIN runs : runs[r].user \in Users /\ runs[r].status \in Statuses
  /\ \A s \in DOMAIN snaps : /\ snaps[s].wallet \in DOMAIN wallets
                             /\ snaps[s].run \in DOMAIN runs
  /\ \A l \in DOMAIN legacy : legacy[l].wallet \in DOMAIN wallets
  /\ DOMAIN manual \subseteq DOMAIN wallets
  /\ now \in 0 .. MaxNow /\ changes \in 0 .. MaxChanges
  /\ offer = Null \/ offer \in Nat
  /\ req.op = "none" <=> req.pc = "idle"
  /\ \A r \in DOMAIN runs :
       LET u == runs[r].user
           t == runs[r].target
       IN  /\ runs[r].scope = "wallet" /\ t \in DOMAIN wallets => wallets[t].user = u
           /\ runs[r].scope = "group" => GroupOwner[t] = u
           /\ runs[r].scope = "failed_chains" => runs[t].user = u

(* A 24 hour change is called complete only if it compares, wallet by       *)
(* wallet, two values of one address, both from complete collections with   *)
(* every balance priced, a day apart within the tolerance: whatever is      *)
(* published, patched or deactivated between the statements that choose the *)
(* current values, the baselines and their qualities.  The one exception is *)
(* a run created between the stamp of a PATCH (wallets.py:364) and its      *)
(* commit: it counts as one of the new address and may have read the old.   *)
CompleteIsComparable ==
  Done("summary") /\ req.answer.change.status = "complete" =>
    /\ DOMAIN req.base = req.wallets /\ DOMAIN req.latest = req.wallets
    /\ \A w \in req.wallets :
         LET s == req.base[w]
             e == req.latest[w]
         IN  s \in DOMAIN snaps /\ e \in DOMAIN snaps =>
               /\ \/ snaps[s].key = snaps[e].key
                  \/ \E x \in {s, e} : Raced(patches[w], CreatedAt(x))
               /\ \A x \in {s, e} :
                    /\ \A part \in snaps[x].parts : part.status = "success"
                    /\ \A b \in BalancesOf({x}) : b[2].amount # 0 => b[2].price # Null
               /\ req.at - Observed(e) <= Fresh
               /\ Observed(e) - Observed(s) \in Day - Fresh .. Day + Fresh

(* A summary whose health is "fresh" rests on no wallet without a value, on *)
(* no failed chain, on no unpriced holding, on nothing older than the stale *)
(* threshold, on no exchange that failed to answer, and was read while no   *)
(* refresh ran; the merge with the exchange's health loses none of this.    *)
FreshHasNoGap ==
  Done("summary") /\ req.answer.health.state = "fresh" =>
    /\ ~ req.refreshing
    /\ req.ex.status \in {"not_configured", "success"}
    /\ \A a \in req.ex.assets : a.price # Null
    /\ \A w \in req.wallets :
         LET info == Info(req, w)
         IN  /\ info.source # "none"
             /\ info.snap \in DOMAIN snaps =>
                  /\ \A part \in snaps[info.snap].parts : part.status = "success"
                  /\ \A b \in BalancesOf({info.snap}) :
                       b[2].amount # 0 => b[2].price # Null
             /\ info.at # Null => req.at - info.at <= Stale

(* The health of a portfolio without exchange or refresh is the worst of    *)
(* the healths its wallets show on their own pages, which another function  *)
(* computes.  It depends on the tables alone, so it is looked at when no    *)
(* request is under way.                                                    *)
HealthIsWorstOfWallets ==
  req.pc = "idle" =>
  LET W == CanonicalWallets(Me)
      infos == Infos(ViewNow(W))
      Rows(S) == Unfinished(S)
      Own(w) == LET S == SnapsIn([v \in {w} |-> infos[v]])
                IN  DetailHealth(infos[w], FALSE, Rows(S), BalancesOf(S), now).state
      own == {Own(w) : w \in W}
      S == SnapsIn(infos)
      whole == DataHealth(infos, FALSE, Rows(S), BalancesOf(S), now).state
  IN  whole = IF "partial" \in own THEN "partial"
              ELSE IF "stale" \in own THEN "stale" ELSE "fresh"

(* The summary and the allocation, which add up different rows, agree on    *)
(* the total and on the quality of its prices; the selections by group and  *)
(* without group share it out; and an answered allocation loses nothing to  *)
(* its remainder.                                                           *)
TotalsAgree ==
  /\ req.pc = "idle" =>
     LET all == ViewNow(CanonicalWallets(Me))
         Part(groups, ungrouped) ==
           AllocationTotal(ViewNow(ScopeWallets([mode |-> "selection", groups |-> groups,
                                                 ungrouped |-> ungrouped])))
         infos == Infos(all)
         S == SnapsIn(infos)
         quality == DataHealth(infos, FALSE, Unfinished(S), BalancesOf(S), now).quality
     IN  /\ AllocationTotal(all) = SummaryTotal(all)
         /\ SharesNow(all) # {} => AllocationQuality(SharesNow(all)) = quality
         /\ SummaryTotal(all) = Part({}, TRUE)
              + SumFunction([g \in {h \in DOMAIN GroupOwner : GroupOwner[h] = Me} |->
                              Part({g}, FALSE)])
  /\ Done("allocation") =>
       LET a == req.answer
       IN  /\ a.total = a.other + SumFunction(a.items)
           /\ Cardinality(DOMAIN a.items) <= Visible

(* A history answer is the history of one instant, its five statements      *)
(* notwithstanding: every value the wallets had inside the window at its    *)
(* time, older values carried forward, a legacy value only where no newer   *)
(* collection exists; unless the user is merged away while it is read.      *)
HistoryOfOneInstant ==
  Done("history") /\ ~ gone /\ "expected" \in DOMAIN req => req.answer.points = req.expected

(* A job the summary offers for a retry is one the retry endpoint takes: it *)
(* is the user's, has a failed chain, and is refused only while it runs.    *)
RetryOfferHolds ==
  At("retry", "done") /\ req.job = offer /\ ~ gone =>
    /\ req.answer.code # 404
    /\ "why" \in DOMAIN req.answer =>
         req.answer.why = "not ready" /\ req.answer.status \in ActiveStatuses

==============================================================================
