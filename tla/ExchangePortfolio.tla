-------------------------- MODULE ExchangePortfolio --------------------------
(***************************************************************************)
(* What asks the price cache, in threads of one pool: the exchange's part   *)
(* of a portfolio (services/exchange_portfolio.py), which prices a user's   *)
(* positions one by one, and the live lookup of a chain                     *)
(* (get_native_price_usd_cached).                                           *)
(***************************************************************************)
EXTENDS PriceCache, FiniteSets

CONSTANTS
  CoinIds,     \* EXCHANGE_COIN_IDS: a function from symbol to coin
  NativeIds,   \* NATIVE_CG_ID: a function from chain to coin
  Chains,      \* chains asked for, in NATIVE_CG_ID or not
  Replies,     \* of the exchange service: kind, status, body
  User,        \* the user asked for
  NotFinite,   \* the instants at which CoinGecko answers NaN or infinity
  MaxRequests  \* bound: requests of all threads

ASSUME ExchangeAssumption ==
  /\ \A s \in DOMAIN CoinIds : CoinIds[s] \in Coins
  /\ \A c \in DOMAIN NativeIds : NativeIds[c] \in Coins
  /\ MaxRequests \in Nat

VARIABLES
  reqs,  \* of each thread: what it answers, and how far it is
  count  \* how many requests were taken

exVars == <<cacheVars, reqs, count>>

Idle == [op |-> "none", pc |-> "idle"]

ExInit ==
  /\ CacheInit
  /\ reqs = [t \in Threads |-> Idle]
  /\ count = 0

Request(t, r) ==
  /\ reqs[t].pc = "idle" /\ count < MaxRequests
  /\ count' = count + 1
  /\ reqs' = [reqs EXCEPT ![t] = r]

(* get_native_price_usd_cached: a chain without a coin is worth nothing.    *)
StartNative(t, chain) ==
  IF chain \in DOMAIN NativeIds
    THEN /\ Request(t, [op |-> "native", pc |-> "waiting", position |-> chain])
         /\ Begin(t, NativeIds[chain])
    ELSE /\ Request(t, [op |-> "native", pc |-> "done", answer |-> 0])
         /\ UNCHANGED cacheVars

(* "knew": the coins that had a price when the request began.               *)
StartExchange(t) ==
  /\ Request(t, [op |-> "exchange", pc |-> "reply",
                 knew |-> {c \in Coins : price[c] # None}])
  /\ UNCHANGED cacheVars

Assets(balances) == {b.asset : b \in balances}

(* The checks of the payload beyond its schema; balances is a set of the    *)
(* entries, so two of one asset differ in their amounts.                    *)
Validated(body) ==
  /\ body.user = User
  /\ body.created <= body.completed
  /\ Cardinality(Assets(body.balances)) = Cardinality(body.balances)
  /\ \A b \in body.balances : b.total = b.free + b.locked

StatusOf(r) ==
  CASE r.kind = "not_configured" -> "not_configured"
    [] r.kind = "timeout" -> "timeout"
    [] r.kind = "error" -> "unavailable"
    [] r.kind = "status" /\ r.status = 404 -> "not_found"
    [] r.kind = "status" /\ r.status # 404 -> "unavailable"
    [] r.kind = "malformed" -> "invalid_response"
    [] r.kind = "body" -> IF Validated(r.body) THEN "success" ELSE "invalid_response"

(* The request to the exchange service.                                     *)
Reply(t, r) ==
  /\ reqs[t].op = "exchange" /\ reqs[t].pc = "reply"
  /\ reqs' = [reqs EXCEPT
                ![t] = IF StatusOf(r) = "success"
                         THEN [op |-> "exchange", pc |-> "next", knew |-> reqs[t].knew,
                               todo |-> r.body.balances, assets |-> {}]
                         ELSE [op |-> "exchange", pc |-> "done", status |-> StatusOf(r)]]
  /\ UNCHANGED <<cacheVars, count>>

(* A price that is not finite is cached like any other, but no position has *)
(* it; given: what the cache answered, for the property below.              *)
Priced(b, p) ==
  [symbol |-> b.asset, amount |-> b.total, given |-> p,
   price |-> IF p \in NotFinite THEN None ELSE p]

(* One turn of the loop over the balances: a coin is priced, anything else  *)
(* is kept without a price.                                                 *)
NextAsset(t, b) ==
  /\ reqs[t].op = "exchange" /\ reqs[t].pc = "next" /\ b \in reqs[t].todo
  /\ \/ /\ b.asset \in DOMAIN CoinIds
        /\ Begin(t, CoinIds[b.asset])
        /\ reqs' = [reqs EXCEPT ![t] = [op |-> "exchange", pc |-> "waiting",
                                        knew |-> @.knew, todo |-> @.todo,
                                        assets |-> @.assets, position |-> b]]
     \/ /\ b.asset \notin DOMAIN CoinIds
        /\ reqs' = [reqs EXCEPT ![t] = [op |-> "exchange", pc |-> "next", knew |-> @.knew,
                                        todo |-> @.todo \ {b},
                                        assets |-> @.assets \cup {Priced(b, None)}]]
        /\ UNCHANGED cacheVars
  /\ UNCHANGED count

(* The price, or None for an exception, ends the call.                      *)
GotPrice(t) ==
  /\ reqs[t].pc = "waiting"
  /\ Return(t)
  /\ reqs' = [reqs EXCEPT
                ![t] = IF @.op = "native"
                         THEN [op |-> "native", pc |-> "done", answer |-> calls[t].cached]
                         ELSE [op |-> "exchange", pc |-> "next", knew |-> @.knew,
                               todo |-> @.todo \ {@.position},
                               assets |-> @.assets
                                          \cup {Priced(@.position, calls[t].cached)}]]
  /\ UNCHANGED count

Success(t) ==
  /\ reqs[t].op = "exchange" /\ reqs[t].pc = "next" /\ reqs[t].todo = {}
  /\ reqs' = [reqs EXCEPT ![t] = [op |-> "exchange", pc |-> "done", knew |-> @.knew,
                                  assets |-> @.assets, status |-> "success"]]
  /\ UNCHANGED <<cacheVars, count>>

Answer(t) ==
  /\ reqs[t].pc = "done"
  /\ reqs' = [reqs EXCEPT ![t] = Idle]
  /\ UNCHANGED <<cacheVars, count>>

ExStep(t) ==
  \/ CallStep(t) /\ UNCHANGED <<reqs, count>>
  \/ \E r \in Replies : Reply(t, r)
  \/ reqs[t].pc = "next" /\ \E b \in reqs[t].todo : NextAsset(t, b)
  \/ GotPrice(t)
  \/ Success(t)
  \/ Answer(t)

ExNext ==
  \/ \E t \in Threads :
       \/ \E chain \in Chains : StartNative(t, chain)
       \/ StartExchange(t)
       \/ ExStep(t)
  \/ Tick /\ UNCHANGED <<reqs, count>>

(* Threads run, requests.get has a timeout, and the lock goes to somebody   *)
(* who waits; with finitely many requests everyone gets it in the end.      *)
ExSpec == ExInit /\ [][ExNext]_exVars /\ \A t \in Threads : WF_exVars(ExStep(t))

------------------------------------------------------------------------------
(* Properties *)

(* A position of a successful answer is left without a price only if its    *)
(* coin had none when the request began, or CoinGecko gave one that is not  *)
(* finite: failing fetches lose no price.                                   *)
KnownCoinsPriced ==
  \A t \in Threads :
    reqs[t].op = "exchange" /\ reqs[t].pc = "done" /\ reqs[t].status = "success" =>
      \A a \in reqs[t].assets :
        a.symbol \in DOMAIN CoinIds /\ CoinIds[a.symbol] \in reqs[t].knew =>
          a.price # None \/ a.given \in NotFinite

(* Every request is answered, although all wait for one lock during HTTP    *)
(* calls, and some fail.                                                    *)
RequestsReturn == \A t \in Threads : reqs[t].pc # "idle" ~> reqs[t].pc = "idle"

==============================================================================
