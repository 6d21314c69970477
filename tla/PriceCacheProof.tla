--------------------------- MODULE PriceCacheProof ---------------------------
(***************************************************************************)
(* The cache of prices for any number of threads and coins and any period:  *)
(* types and lock, the age of what is returned, and one renewal per period; *)
(* and the requests that use it use it as it is meant to be used, so they   *)
(* inherit all three.                                                       *)
(***************************************************************************)
EXTENDS ExchangePortfolio, TLAPS

(* The clock is ahead of every time kept; a price is at least as young as   *)
(* its time.                                                                *)
TimesInv ==
  /\ \A c \in Coins : stamp[c] <= price[c] /\ price[c] <= now
  /\ \A t \in Threads : calls[t].now <= now

(* What a call knows between its steps, whatever other threads store.       *)
ReadersInv ==
  \A t \in Threads :
    /\ calls[t].pc = "time" => calls[t].cached <= Cached(t)
    /\ calls[t].pc = "reread" => calls[t].now - Cached(t) < Ttl

(* What the holder of the lock knows.                                       *)
HolderInv ==
  \A t \in Threads :
    /\ calls[t].pc \in Holding =>
         Stamped(t) = None \/ calls[t].now - Stamped(t) >= Ttl
    /\ calls[t].pc = "write" =>
         /\ Cached(t) <= calls[t].cached
         /\ calls[t].now <= calls[t].cached
         /\ calls[t].cached <= now
         /\ calls[t].cached \in Nat
    /\ calls[t].pc = "stamp" =>
         Cached(t) = calls[t].cached /\ calls[t].now <= calls[t].cached

CacheInv == CacheTypeOK /\ TimesInv /\ ReadersInv /\ HolderInv

------------------------------------------------------------------------------
(* The lock has one holder, so two holding calls are one.                   *)
LEMMA OneHolder ==
  ASSUME CacheTypeOK, NEW t \in Threads, NEW u \in Threads,
         calls[t].pc \in Holding, calls[u].pc \in Holding
  PROVE  t = u
  BY DEF CacheTypeOK

LEMMA InitInv == ASSUME CacheInit PROVE CacheInv
  BY PriceAssumption
  DEF CacheInit, CacheInv, CacheTypeOK, TimesInv, ReadersInv, HolderInv, IdleCall,
      Calls, Cached, Stamped, Holding, None

(* What a step of one call leaves: the locals of the others, its coin, and  *)
(* the types.                                                               *)
LEMMA StepLocals ==
  ASSUME CacheTypeOK, NEW t \in Threads, NEW pc, NEW next, NEW cached,
         Step(t, pc, next, cached), cached \in Nat \cup {None},
         next \in {"idle", "price", "time", "reread", "lock", "fetch", "write",
                   "stamp", "done"}
  PROVE  /\ calls' \in [Threads -> Calls]
         /\ \A u \in Threads \ {t} : calls'[u] = calls[u]
         /\ calls'[t].pc = next /\ calls'[t].cached = cached
         /\ calls'[t].coin = calls[t].coin /\ calls'[t].now = calls[t].now
         /\ calls[t].pc = pc
<1>1. calls[t] \in Calls
  BY DEF CacheTypeOK
<1>2. calls'[t] = [calls[t] EXCEPT !.pc = next, !.cached = cached]
  BY DEF Step, CacheTypeOK
<1>3. calls'[t] \in Calls
  BY <1>1, <1>2 DEF Calls
<1> QED BY <1>1, <1>2, <1>3 DEF Step, CacheTypeOK, Calls

LEMMA AcquireLocals ==
  ASSUME CacheTypeOK, NEW t \in Threads, Acquire(t)
  PROVE  /\ calls' \in [Threads -> Calls]
         /\ \A u \in Threads \ {t} : calls'[u] = calls[u]
         /\ calls'[t].pc = IF Cached(t) # None /\ IsFresh(Stamped(t), now)
                             THEN "done" ELSE "fetch"
         /\ calls'[t].cached = Cached(t) /\ calls'[t].now = now
         /\ calls'[t].coin = calls[t].coin
<1> DEFINE next == IF Cached(t) # None /\ IsFresh(Stamped(t), now) THEN "done" ELSE "fetch"
<1>1. calls[t] \in Calls
  BY DEF CacheTypeOK
<1>2. calls'[t] = [calls[t] EXCEPT !.pc = next, !.now = now, !.cached = Cached(t)]
  BY DEF Acquire, CacheTypeOK
<1>3. Cached(t) \in Nat \cup {None} /\ next \in {"done", "fetch"}
  BY <1>1 DEF CacheTypeOK, Calls, Cached
<1>4. calls'[t] \in Calls
  BY <1>1, <1>2, <1>3 DEF Calls, CacheTypeOK
<1> QED BY <1>1, <1>2, <1>4 DEF Acquire, CacheTypeOK, Calls

LEMMA FailLocals ==
  ASSUME CacheTypeOK, NEW t \in Threads, FetchFails(t)
  PROVE  /\ calls' \in [Threads -> Calls]
         /\ \A u \in Threads \ {t} : calls'[u] = calls[u]
         /\ calls'[t].pc = "done" /\ calls'[t].failed
         /\ calls'[t].now = calls[t].now
<1>1. calls[t] \in Calls
  BY DEF CacheTypeOK
<1>2. calls'[t] = [calls[t] EXCEPT !.pc = "done", !.failed = TRUE]
  BY DEF FetchFails, CacheTypeOK
<1>3. calls'[t] \in Calls
  BY <1>1, <1>2 DEF Calls
<1> QED BY <1>1, <1>2, <1>3 DEF FetchFails, CacheTypeOK, Calls

LEMMA OwnLocals ==
  ASSUME CacheTypeOK, NEW t \in Threads
  PROVE  /\ calls[t].coin \in Coins /\ calls[t].now \in Nat
         /\ calls[t].cached \in Nat \cup {None}
         /\ Cached(t) \in Nat \cup {None} /\ Stamped(t) \in Nat \cup {None}
  BY DEF CacheTypeOK, Calls, Cached, Stamped

------------------------------------------------------------------------------
(* A call that reads or returns stores nothing and keeps the lock as it is. *)
LEMMA ReadingKeepsInv ==
  ASSUME CacheInv, NEW t \in Threads,
         \/ \E c \in Coins : Begin(t, c)
         \/ ReadPrice(t) \/ ReadTime(t) \/ Reread(t) \/ Return(t)
  PROVE  CacheInv'
<1> USE PriceAssumption, OwnLocals
    DEF CacheInv, CacheTypeOK, TimesInv, ReadersInv, HolderInv,
        Cached, Stamped, Holding, None
<1>1. CASE \E c \in Coins : Begin(t, c)
  BY <1>1 DEF Begin, Calls
<1>2. CASE ReadPrice(t)
  BY <1>2, StepLocals DEF ReadPrice
<1>3. CASE ReadTime(t)
  BY <1>3, StepLocals DEF ReadTime, IsFresh
<1>4. CASE Reread(t)
  BY <1>4, StepLocals DEF Reread
<1>5. CASE Return(t)
  BY <1>5 DEF Return, IdleCall, Calls
<1> QED BY <1>1, <1>2, <1>3, <1>4, <1>5

(* A call that takes, keeps or gives back the lock and stores nothing.      *)
LEMMA LockingKeepsInv ==
  ASSUME CacheInv, NEW t \in Threads,
         Acquire(t) \/ FetchReplies(t) \/ FetchFails(t)
  PROVE  CacheInv'
<1> USE PriceAssumption, OwnLocals
    DEF CacheInv, CacheTypeOK, TimesInv, ReadersInv, HolderInv,
        Cached, Stamped, Holding, None
<1>1. CASE Acquire(t)
  <2>1. /\ calls[t].pc = "lock" /\ lock = Nobody
        /\ UNCHANGED <<now, price, stamp>>
    BY <1>1 DEF Acquire
  <2>2. \A u \in Threads \ {t} : calls[u].pc \notin Holding
    BY <2>1
  <2>3. CASE Cached(t) # None /\ IsFresh(Stamped(t), now)
    <3>1. calls'[t].pc = "done" /\ lock' = Nobody
      BY <1>1, <2>3, AcquireLocals DEF Acquire
    <3> QED BY <1>1, <2>1, <2>2, <3>1, AcquireLocals
  <2>4. CASE ~ (Cached(t) # None /\ IsFresh(Stamped(t), now))
    <3>1. calls'[t].pc = "fetch" /\ lock' = t
      BY <1>1, <2>4, AcquireLocals DEF Acquire
    <3>2. Stamped(t) = None \/ now - Stamped(t) >= Ttl
      BY <2>4 DEF IsFresh
    <3> QED BY <1>1, <2>1, <2>2, <3>1, <3>2, AcquireLocals
  <2> QED BY <2>3, <2>4
<1>2. CASE FetchReplies(t)
  BY <1>2, StepLocals DEF FetchReplies
<1>3. CASE FetchFails(t)
  <2>1. /\ calls[t].pc = "fetch" /\ lock' = Nobody
        /\ UNCHANGED <<now, price, stamp>>
    BY <1>3 DEF FetchFails
  <2>2. \A u \in Threads \ {t} : calls[u].pc \notin Holding
    BY <2>1, OneHolder
  <2> QED BY <1>3, <2>1, <2>2, FailLocals
<1> QED BY <1>1, <1>2, <1>3

(* The two stores of a fetched price.                                       *)
LEMMA StoringKeepsInv ==
  ASSUME CacheInv, NEW t \in Threads, WritePrice(t) \/ WriteTime(t)
  PROVE  CacheInv'
<1> USE PriceAssumption, OwnLocals
    DEF CacheInv, CacheTypeOK, TimesInv, ReadersInv, HolderInv,
        Cached, Stamped, Holding, None
<1>1. CASE WritePrice(t)
  BY <1>1, OneHolder, StepLocals DEF WritePrice
<1>2. CASE WriteTime(t)
  BY <1>2, OneHolder, StepLocals DEF WriteTime
<1> QED BY <1>1, <1>2

LEMMA TickKeepsInv == ASSUME CacheInv, Tick PROVE CacheInv'
  BY PriceAssumption, OwnLocals
  DEF Tick, CacheInv, CacheTypeOK, TimesInv, ReadersInv, HolderInv, Cached,
      Stamped, Holding, None

LEMMA StepKeepsInv == ASSUME CacheInv, [CacheNext]_cacheVars PROVE CacheInv'
<1>1. CASE UNCHANGED cacheVars
  BY <1>1 DEF cacheVars, CacheInv, CacheTypeOK, TimesInv, ReadersInv, HolderInv,
              Cached, Stamped
<1>2. CASE Tick
  BY <1>2, TickKeepsInv
<1>3. ASSUME NEW t \in Threads,
             (\E c \in Coins : Begin(t, c)) \/ CallStep(t) \/ Return(t)
      PROVE  CacheInv'
  BY <1>3, ReadingKeepsInv, LockingKeepsInv, StoringKeepsInv DEF CallStep
<1> QED BY <1>1, <1>2, <1>3 DEF CacheNext

------------------------------------------------------------------------------
(* Types, and the lock is held by exactly the call that fetches or stores.  *)
THEOREM CacheTypes == CacheSpec => []CacheTypeOK
<1>1. CacheSpec => []CacheInv
  BY InitInv, StepKeepsInv, PTL DEF CacheSpec
<1> QED BY <1>1, PTL DEF CacheInv

(* What one step may return, by the invariant before it.                    *)
LEMMA StepReturnsYoung ==
  ASSUME CacheInv, CacheNext, NEW t \in Threads,
         calls[t].pc # "done", calls'[t].pc = "done", ~ calls'[t].failed
  PROVE  \/ calls'[t].now - calls'[t].cached < Ttl
         \/ calls[t].coin # Eth /\ calls'[t].cached < Cached(t)
<1> USE PriceAssumption DEF CacheInv, CacheTypeOK, TimesInv, ReadersInv, HolderInv,
        Calls, Cached, Stamped, Holding, None
<1>1. CASE Tick
  BY <1>1 DEF Tick
<1>2. ASSUME NEW u \in Threads, (\E c \in Coins : Begin(u, c)) \/ Return(u)
      PROVE  FALSE
  BY <1>2 DEF Begin, Return, IdleCall
<1>3. ASSUME NEW u \in Threads, CallStep(u)
      PROVE  u = t
  BY <1>3 DEF CallStep, ReadPrice, ReadTime, Reread, Acquire, FetchReplies, FetchFails,
              WritePrice, WriteTime, Step
<1>4. CASE ReadPrice(t) \/ FetchReplies(t) \/ WritePrice(t) \/ FetchFails(t)
  BY <1>4 DEF ReadPrice, FetchReplies, WritePrice, FetchFails, Step
<1>5. CASE ReadTime(t)
  BY <1>5 DEF ReadTime, Step, IsFresh
<1>6. CASE Reread(t)
  BY <1>6 DEF Reread, Step
<1>7. CASE Acquire(t)
  BY <1>7 DEF Acquire, IsFresh
<1>8. CASE WriteTime(t)
  BY <1>8 DEF WriteTime, Step
<1> QED BY <1>1, <1>2, <1>3, <1>4, <1>5, <1>6, <1>7, <1>8 DEF CacheNext, CallStep

(* No price of ether a period old is returned without a failed fetch, and   *)
(* none of another coin unless a newer one was stored meanwhile.            *)
THEOREM YoungAnswers == CacheSpec => AnswersYoung
<1>1. ASSUME CacheInv, [CacheNext]_cacheVars
      PROVE  [\A t \in Threads :
                calls[t].pc # "done" /\ calls'[t].pc = "done" /\ ~ calls'[t].failed =>
                  \/ calls'[t].now - calls'[t].cached < Ttl
                  \/ calls[t].coin # Eth /\ calls'[t].cached < Cached(t)]_cacheVars
  BY <1>1, StepReturnsYoung DEF cacheVars
<1>2. CacheSpec => []CacheInv
  BY InitInv, StepKeepsInv, PTL DEF CacheSpec
<1> QED BY <1>1, <1>2, PTL DEF CacheSpec, AnswersYoung

(* What one step may store, by the invariant before it.                     *)
LEMMA StepRenewsOnce ==
  ASSUME CacheInv, CacheNext, NEW c \in Coins
  PROVE  /\ stamp'[c] # stamp[c] /\ stamp[c] # None => stamp'[c] - stamp[c] >= Ttl
         /\ price'[c] >= price[c]
<1> USE PriceAssumption DEF CacheInv, CacheTypeOK, TimesInv, HolderInv,
        Calls, Cached, Stamped, Holding, None
<1>1. ASSUME NEW t \in Threads, WritePrice(t)
      PROVE  stamp' = stamp /\ price'[c] >= price[c]
  BY <1>1 DEF WritePrice, Step
<1>2. ASSUME NEW t \in Threads, WriteTime(t)
      PROVE  /\ stamp'[c] # stamp[c] /\ stamp[c] # None => stamp'[c] - stamp[c] >= Ttl
             /\ price' = price
  BY <1>2 DEF WriteTime, Step
<1>3. ASSUME NEW t \in Threads,
             \/ \E d \in Coins : Begin(t, d)
             \/ ReadPrice(t) \/ ReadTime(t) \/ Reread(t) \/ Acquire(t)
             \/ FetchReplies(t) \/ FetchFails(t) \/ Return(t)
      PROVE  stamp' = stamp /\ price' = price
  BY <1>3 DEF Begin, ReadPrice, ReadTime, Reread, Acquire, FetchReplies, FetchFails,
              Return, Step
<1>4. CASE Tick
  BY <1>4 DEF Tick
<1> QED BY <1>1, <1>2, <1>3, <1>4 DEF CacheNext, CallStep

(* The times a coin's price carries lie a period apart, and no price gives  *)
(* way to an older one.                                                     *)
THEOREM OneRenewalPerPeriod == CacheSpec => RenewedOncePerPeriod
<1>1. ASSUME CacheInv, [CacheNext]_cacheVars
      PROVE  [\A c \in Coins :
                /\ stamp'[c] # stamp[c] /\ stamp[c] # None =>
                     stamp'[c] - stamp[c] >= Ttl
                /\ price'[c] >= price[c]]_cacheVars
  BY <1>1, StepRenewsOnce DEF cacheVars
<1>2. CacheSpec => []CacheInv
  BY InitInv, StepKeepsInv, PTL DEF CacheSpec
<1> QED BY <1>1, <1>2, PTL DEF CacheSpec, RenewedOncePerPeriod

------------------------------------------------------------------------------
(* Requests touch the cache only by calls of it.                            *)
LEMMA RequestsCall == ASSUME [ExNext]_exVars PROVE [CacheNext]_cacheVars
<1>1. CASE UNCHANGED exVars
  BY <1>1 DEF exVars
<1>2. CASE Tick
  BY <1>2 DEF CacheNext
<1>3. ASSUME NEW t \in Threads, NEW chain \in Chains, StartNative(t, chain)
      PROVE  CacheNext \/ UNCHANGED cacheVars
  BY <1>3, ExchangeAssumption DEF StartNative, CacheNext
<1>4. ASSUME NEW t \in Threads, NEW b, NextAsset(t, b)
      PROVE  CacheNext \/ UNCHANGED cacheVars
  BY <1>4, ExchangeAssumption DEF NextAsset, CacheNext
<1>5. ASSUME NEW t \in Threads, CallStep(t) \/ GotPrice(t)
      PROVE  CacheNext
  BY <1>5 DEF GotPrice, CacheNext
<1>6. ASSUME NEW t \in Threads,
             \/ StartExchange(t) \/ Success(t) \/ Answer(t)
             \/ \E r \in Replies : Reply(t, r)
      PROVE  UNCHANGED cacheVars
  BY <1>6 DEF StartExchange, Reply, Success, Answer
<1> QED BY <1>1, <1>2, <1>3, <1>4, <1>5, <1>6 DEF ExNext, ExStep

(* The requests' use of the cache is a behaviour of the cache.              *)
THEOREM RequestsUseCache == ExSpec => CacheSpec
<1>1. ExInit => CacheInit
  BY DEF ExInit
<1> QED BY <1>1, RequestsCall, PTL DEF ExSpec, CacheSpec

(* So their prices are as young, and renewed as rarely.                     *)
THEOREM RequestsGetYoungPrices == ExSpec => AnswersYoung /\ RenewedOncePerPeriod
  BY RequestsUseCache, YoungAnswers, OneRenewalPerPeriod

------------------------------------------------------------------------------
(* What requests know of prices *)

(* Requests of the exchange that still carry what they knew at their start. *)
Remembering(t) ==
  /\ reqs[t].op = "exchange"
  /\ \/ reqs[t].pc \in {"reply", "next", "waiting"}
     \/ reqs[t].pc = "done" /\ reqs[t].status = "success"

PricedAll(t) ==
  \A a \in reqs[t].assets :
    a.symbol \in DOMAIN CoinIds /\ CoinIds[a.symbol] \in reqs[t].knew =>
      a.price # None \/ a.given \in NotFinite

(* The call made for a position is one for its coin, and once it has read   *)
(* the price it has one, because prices are replaced and never taken away.  *)
CallKnows(t) ==
  LET c == CoinIds[reqs[t].position.asset]
  IN  /\ reqs[t].position.asset \in DOMAIN CoinIds
      /\ calls[t].pc # "idle" /\ calls[t].coin = c
      /\ c \in reqs[t].knew => calls[t].pc \in {"price", "lock"} \/ calls[t].cached # None

KnownInv ==
  /\ reqs = [t \in Threads |-> reqs[t]]
  /\ \A t \in Threads : reqs[t].pc = "waiting" => reqs[t].op \in {"native", "exchange"}
  /\ \A t \in Threads : Remembering(t) =>
       /\ \A c \in reqs[t].knew : c \in Coins /\ price[c] # None
       /\ reqs[t].pc # "reply" => PricedAll(t)
       /\ reqs[t].pc = "waiting" => CallKnows(t)

(* A price that is known stays known, and what a step of a call reads of    *)
(* such a price is a price.                                                 *)
LEMMA KnownStaysKnown ==
  ASSUME CacheInv, [CacheNext]_cacheVars, NEW c \in Coins, price[c] # None
  PROVE  price'[c] # None
<1>1. CASE UNCHANGED cacheVars
  BY <1>1 DEF cacheVars
<1>2. CASE CacheNext
  BY <1>2, StepRenewsOnce DEF CacheInv, CacheTypeOK, None
<1> QED BY <1>1, <1>2

LEMMA CallKeepsKnowing ==
  ASSUME CacheInv, NEW t \in Threads, CallStep(t),
         Cached(t) # None,
         calls[t].pc \in {"price", "lock"} \/ calls[t].cached # None
  PROVE  calls'[t].pc \in {"price", "lock"} \/ calls'[t].cached # None
<1> USE OwnLocals DEF CacheInv, CacheTypeOK, TimesInv, None
<1>1. CASE ReadPrice(t)
  BY <1>1, StepLocals DEF ReadPrice
<1>2. CASE ReadTime(t)
  BY <1>2, StepLocals DEF ReadTime
<1>3. CASE Reread(t)
  BY <1>3, StepLocals DEF Reread
<1>4. CASE Acquire(t)
  BY <1>4, AcquireLocals
<1>5. CASE FetchReplies(t)
  BY <1>5, StepLocals DEF FetchReplies
<1>6. CASE FetchFails(t)
  BY <1>6 DEF FetchFails, Calls
<1>7. CASE WritePrice(t)
  BY <1>7, StepLocals DEF WritePrice
<1>8. CASE WriteTime(t)
  BY <1>8, StepLocals DEF WriteTime
<1> QED BY <1>1, <1>2, <1>3, <1>4, <1>5, <1>6, <1>7, <1>8 DEF CallStep

LEMMA CallLeaves ==
  ASSUME CacheTypeOK, NEW t \in Threads, CallStep(t)
  PROVE  /\ \A u \in Threads \ {t} : calls'[u] = calls[u]
         /\ calls[t].pc # "idle" /\ calls'[t].pc # "idle"
         /\ calls'[t].coin = calls[t].coin
<1>1. calls[t] \in Calls /\ calls \in [Threads -> Calls]
  BY DEF CacheTypeOK
<1> QED BY <1>1 DEF CallStep, ReadPrice, ReadTime, Reread, Acquire, FetchReplies,
                    FetchFails, WritePrice, WriteTime, Step, Calls

LEMMA InitKnown == ASSUME ExInit PROVE KnownInv
  BY DEF ExInit, Idle, KnownInv, Remembering

(* Steps of the cache alone: no request changes, and what each of them      *)
(* knows stays known.                                                       *)
LEMMA CacheKeepsKnown ==
  ASSUME CacheInv, KnownInv, UNCHANGED reqs,
         Tick \/ UNCHANGED cacheVars \/ \E t \in Threads : CallStep(t)
  PROVE  KnownInv'
<1>1. [CacheNext]_cacheVars
  BY DEF CacheNext
<1>2. ASSUME NEW u \in Threads, Remembering(u), reqs[u].pc = "waiting"
      PROVE  CallKnows(u)'
  <2>1. CallKnows(u) /\ \A c \in reqs[u].knew : c \in Coins /\ price[c] # None
    BY <1>2 DEF KnownInv
  <2>2. CASE CallStep(u)
    BY <2>1, <2>2, CallKeepsKnowing, CallLeaves DEF CallKnows, CacheInv, Cached
  <2>3. CASE ~ CallStep(u)
    BY <2>1, <2>3, CallLeaves DEF CallKnows, CacheInv, Tick, cacheVars
  <2> QED BY <2>2, <2>3
<1>3. ASSUME NEW u \in Threads, Remembering(u)
      PROVE  \A c \in reqs[u].knew : c \in Coins /\ price'[c] # None
  BY <1>1, <1>3, KnownStaysKnown DEF KnownInv
<1> QED BY <1>2, <1>3 DEF KnownInv, Remembering, PricedAll

(* Steps of a request.                                                      *)
LEMMA RequestKeepsKnown ==
  ASSUME CacheInv, KnownInv, NEW t \in Threads,
         \/ \E chain \in Chains : StartNative(t, chain)
         \/ StartExchange(t) \/ Success(t) \/ Answer(t) \/ GotPrice(t)
         \/ \E r \in Replies : Reply(t, r)
         \/ reqs[t].pc = "next" /\ \E b \in reqs[t].todo : NextAsset(t, b)
  PROVE  KnownInv'
<1>1. price' = price /\ \A u \in Threads \ {t} : calls'[u] = calls[u]
  BY DEF StartNative, StartExchange, Success, Answer, GotPrice, Reply, NextAsset,
         Begin, Return, cacheVars, CacheInv, CacheTypeOK
<1>2. /\ reqs' = [u \in Threads |-> reqs'[u]]
      /\ \A u \in Threads \ {t} : reqs'[u] = reqs[u]
  BY DEF StartNative, StartExchange, Success, Answer, GotPrice, Reply, NextAsset,
         Request, KnownInv
<1>t. t \in DOMAIN reqs
  BY DEF KnownInv
<1>w. reqs'[t].pc = "waiting" => reqs'[t].op \in {"native", "exchange"}
  BY <1>t DEF StartNative, StartExchange, Success, Answer, GotPrice, Reply, NextAsset,
              Request, Idle
<1> SUFFICES ASSUME Remembering(t)'
             PROVE  /\ \A c \in reqs'[t].knew : c \in Coins /\ price[c] # None
                    /\ reqs'[t].pc # "reply" => PricedAll(t)'
                    /\ reqs'[t].pc = "waiting" => CallKnows(t)'
  BY <1>1, <1>2, <1>w DEF KnownInv, Remembering, PricedAll, CallKnows
<1> USE DEF Remembering, KnownInv
<1>3. CASE \E chain \in Chains : StartNative(t, chain)
  BY <1>3 DEF StartNative, Request
<1>4. CASE StartExchange(t)
  BY <1>4 DEF StartExchange, Request
<1>5. CASE Success(t)
  BY <1>5 DEF Success, PricedAll
<1>6. CASE Answer(t)
  BY <1>6 DEF Answer, Idle
<1>7. CASE \E r \in Replies : Reply(t, r)
  BY <1>7 DEF Reply, PricedAll
<1>8. CASE GotPrice(t)
  <2>1. /\ reqs[t].pc = "waiting" /\ calls[t].pc = "done"
        /\ reqs[t].op = "exchange"
        /\ reqs'[t] = [op |-> "exchange", pc |-> "next", knew |-> reqs[t].knew,
                       todo |-> reqs[t].todo \ {reqs[t].position},
                       assets |-> reqs[t].assets
                                  \cup {Priced(reqs[t].position, calls[t].cached)}]
    <3>1. reqs'[t] = IF reqs[t].op = "native"
                       THEN [op |-> "native", pc |-> "done", answer |-> calls[t].cached]
                       ELSE [op |-> "exchange", pc |-> "next", knew |-> reqs[t].knew,
                             todo |-> reqs[t].todo \ {reqs[t].position},
                             assets |-> reqs[t].assets
                                  \cup {Priced(reqs[t].position, calls[t].cached)}]
      BY <1>8, <1>t DEF GotPrice
    <3>2. reqs[t].op # "native"
      BY <3>1
    <3>3. reqs[t].op = "exchange"
      BY <1>8, <3>2 DEF GotPrice
    <3> QED BY <1>8, <3>1, <3>2, <3>3 DEF GotPrice, Return
  <2>2. CallKnows(t) /\ PricedAll(t)
    BY <2>1
  <2>3. Priced(reqs[t].position, calls[t].cached)
          = [symbol |-> reqs[t].position.asset, amount |-> reqs[t].position.total,
             given |-> calls[t].cached,
             price |-> IF calls[t].cached \in NotFinite THEN None ELSE calls[t].cached]
    BY DEF Priced
  <2>4. PricedAll(t)'
    BY <2>1, <2>2, <2>3 DEF PricedAll, CallKnows
  <2> QED BY <2>1, <2>4
<1>9. ASSUME NEW b, NextAsset(t, b)
      PROVE  /\ \A c \in reqs'[t].knew : c \in Coins /\ price[c] # None
             /\ reqs'[t].pc # "reply" => PricedAll(t)'
             /\ reqs'[t].pc = "waiting" => CallKnows(t)'
  <2>1. reqs[t].op = "exchange" /\ reqs[t].pc = "next"
    BY <1>9 DEF NextAsset
  <2>2. PricedAll(t) /\ \A c \in reqs[t].knew : c \in Coins /\ price[c] # None
    BY <2>1
  <2>3. CASE /\ b.asset \in DOMAIN CoinIds
             /\ Begin(t, CoinIds[b.asset])
             /\ reqs'[t] = [op |-> "exchange", pc |-> "waiting", knew |-> reqs[t].knew,
                            todo |-> reqs[t].todo, assets |-> reqs[t].assets,
                            position |-> b]
    <3>1. calls'[t].pc = "price" /\ calls'[t].coin = CoinIds[b.asset]
      BY <2>3 DEF Begin, CacheInv, CacheTypeOK
    <3>2. CallKnows(t)' /\ PricedAll(t)'
      BY <2>2, <2>3, <3>1 DEF PricedAll, CallKnows
    <3> QED BY <2>2, <2>3, <3>2
  <2>4. CASE /\ b.asset \notin DOMAIN CoinIds
             /\ reqs'[t] = [op |-> "exchange", pc |-> "next", knew |-> reqs[t].knew,
                            todo |-> reqs[t].todo \ {b},
                            assets |-> reqs[t].assets \cup {Priced(b, None)}]
    <3>1. PricedAll(t)'
      BY <2>2, <2>4 DEF PricedAll, Priced
    <3> QED BY <2>2, <2>4, <3>1
  <2>5. b.asset \in DOMAIN CoinIds =>
          /\ Begin(t, CoinIds[b.asset])
          /\ reqs'[t] = [op |-> "exchange", pc |-> "waiting", knew |-> reqs[t].knew,
                         todo |-> reqs[t].todo, assets |-> reqs[t].assets,
                         position |-> b]
    BY <1>9, <1>t DEF NextAsset
  <2>6. b.asset \notin DOMAIN CoinIds =>
          reqs'[t] = [op |-> "exchange", pc |-> "next", knew |-> reqs[t].knew,
                      todo |-> reqs[t].todo \ {b},
                      assets |-> reqs[t].assets \cup {Priced(b, None)}]
    BY <1>9, <1>t DEF NextAsset
  <2>7. CASE b.asset \in DOMAIN CoinIds
    BY <2>3, <2>5, <2>7
  <2>8. CASE b.asset \notin DOMAIN CoinIds
    BY <2>4, <2>6, <2>8
  <2> QED BY <2>7, <2>8
<1> QED BY <1>3, <1>4, <1>5, <1>6, <1>7, <1>8, <1>9

LEMMA ExStepKeepsKnown ==
  ASSUME CacheInv, KnownInv, [ExNext]_exVars PROVE KnownInv'
<1>1. CASE UNCHANGED exVars
  BY <1>1, CacheKeepsKnown DEF exVars
<1>2. CASE Tick /\ UNCHANGED <<reqs, count>>
  BY <1>2, CacheKeepsKnown
<1>3. ASSUME NEW t \in Threads, CallStep(t), UNCHANGED reqs
      PROVE  KnownInv'
  BY <1>3, CacheKeepsKnown
<1> QED BY <1>1, <1>2, <1>3, RequestKeepsKnown DEF ExNext, ExStep

(* A position of a successful answer is left without a price only if its    *)
(* coin had none when the request began, or CoinGecko gave one that is not  *)
(* finite: failing fetches lose no price.                                   *)
THEOREM KnownPricesKept == ExSpec => []KnownCoinsPriced
<1>1. CacheSpec => []CacheInv
  BY InitInv, StepKeepsInv, PTL DEF CacheSpec
<1>2. ExSpec => []KnownInv
  BY <1>1, RequestsUseCache, InitKnown, ExStepKeepsKnown, PTL DEF ExSpec
<1>3. KnownInv => KnownCoinsPriced
  BY DEF KnownInv, Remembering, PricedAll, KnownCoinsPriced
<1> QED BY <1>2, <1>3, PTL

==============================================================================
