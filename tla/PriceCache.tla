------------------------------ MODULE PriceCache ------------------------------
(***************************************************************************)
(* The cache of CoinGecko prices (connectors/price/coingecko.py): globals   *)
(* that worker threads read without the lock, and replace under one lock    *)
(* for all coins, held during the HTTP call.                                *)
(*                                                                         *)
(* A price is known by the instant CoinGecko gave it, so its age can be     *)
(* told; None stands for no price, no time and an exception.                *)
(***************************************************************************)
EXTENDS Integers

CONSTANTS
  Threads,  \* the worker threads
  Coins,    \* coin ids the prices are asked for
  Eth,      \* "ethereum", which has globals and a function of its own
  Ttl,      \* PRICE_CACHE_TTL_SECONDS
  MaxNow,   \* bound: how far the clock goes
  Nobody

ASSUME PriceAssumption ==
  /\ Eth \in Coins
  /\ Ttl \in Nat \ {0}
  /\ MaxNow \in Nat
  /\ Nobody \notin Threads

VARIABLES
  now,    \* monotonic()
  price,  \* ETH_USD_CACHE and NATIVE_PRICE_CACHE
  stamp,  \* ETH_USD_CACHE_UPDATED_AT and NATIVE_PRICE_CACHE_UPDATED_AT
  lock,   \* the holder of _PRICE_CACHE_LOCK
  calls   \* of each thread: where it is, and its locals

cacheVars == <<now, price, stamp, lock, calls>>

None == -1

Calls == [pc : {"idle", "price", "time", "reread", "lock", "fetch", "write",
                "stamp", "done"},
          coin : Coins, now : Nat, cached : Nat \cup {None}, failed : BOOLEAN]

IdleCall == [pc |-> "idle", coin |-> Eth, now |-> 0, cached |-> None, failed |-> FALSE]

Cached(t) == price[calls[t].coin]
Stamped(t) == stamp[calls[t].coin]

CacheInit ==
  /\ now = 0
  /\ price = [c \in Coins |-> None]
  /\ stamp = [c \in Coins |-> None]
  /\ lock = Nobody
  /\ calls = [t \in Threads |-> IdleCall]

------------------------------------------------------------------------------
(* _cache_is_fresh *)
IsFresh(at, t) == at # None /\ t - at < Ttl

(* Of a call at pc: go on at next, with the price given, touch no global.   *)
Step(t, pc, next, cached) ==
  /\ calls[t].pc = pc
  /\ calls' = [calls EXCEPT ![t].pc = next, ![t].cached = cached]

Begin(t, c) ==
  /\ calls[t].pc = "idle"
  /\ calls' = [calls EXCEPT ![t] = [pc |-> "price", coin |-> c, now |-> now,
                                    cached |-> None, failed |-> FALSE]]
  /\ UNCHANGED <<now, price, stamp, lock>>

(* The reads without the lock: the price, then its time ...                 *)
ReadPrice(t) ==
  /\ Step(t, "price", IF Cached(t) = None THEN "lock" ELSE "time", Cached(t))
  /\ UNCHANGED <<now, price, stamp, lock>>

ReadTime(t) ==
  /\ Step(t, "time",
          IF ~ IsFresh(Stamped(t), calls[t].now) THEN "lock"
          ELSE IF calls[t].coin = Eth THEN "reread" ELSE "done",
          calls[t].cached)
  /\ UNCHANGED <<now, price, stamp, lock>>

(* ... and for ether the price again: "return ETH_USD_CACHE".               *)
Reread(t) ==
  /\ Step(t, "reread", "done", Cached(t))
  /\ UNCHANGED <<now, price, stamp, lock>>

(* Faulty variant: the cache is not looked at again under the lock.         *)
AcquireNoRecheck(t) ==
  /\ calls[t].pc = "lock" /\ lock = Nobody
  /\ calls' = [calls EXCEPT ![t].pc = "fetch", ![t].now = now, ![t].cached = Cached(t)]
  /\ lock' = t
  /\ UNCHANGED <<now, price, stamp>>

(* Under the lock nobody else writes, so the second look is one step.       *)
Acquire(t) ==
  /\ calls[t].pc = "lock" /\ lock = Nobody
  /\ LET fresh == Cached(t) # None /\ IsFresh(Stamped(t), now)
     IN  /\ calls' = [calls EXCEPT ![t].pc = IF fresh THEN "done" ELSE "fetch",
                                   ![t].now = now, ![t].cached = Cached(t)]
         /\ lock' = IF fresh THEN Nobody ELSE t
  /\ UNCHANGED <<now, price, stamp>>

FetchReplies(t) ==
  /\ Step(t, "fetch", "write", now)
  /\ UNCHANGED <<now, price, stamp, lock>>

(* Faulty variants: an exception although a price is known; a lock that is  *)
(* not given back.                                                          *)
FetchRaises(t) ==
  /\ calls[t].pc = "fetch"
  /\ calls' = [calls EXCEPT ![t].pc = "done", ![t].failed = TRUE, ![t].cached = None]
  /\ lock' = Nobody
  /\ UNCHANGED <<now, price, stamp>>

FetchKeepsLock(t) ==
  /\ calls[t].pc = "fetch"
  /\ calls' = [calls EXCEPT ![t].pc = "done", ![t].failed = TRUE]
  /\ UNCHANGED <<now, price, stamp, lock>>

(* A timeout, a bad answer or a price "<= 0" (NaN is not): the old price     *)
(* is served, its time stays, and without one the exception is raised.      *)
FetchFails(t) ==
  /\ calls[t].pc = "fetch"
  /\ calls' = [calls EXCEPT ![t].pc = "done", ![t].failed = TRUE]
  /\ lock' = Nobody
  /\ UNCHANGED <<now, price, stamp>>

WritePrice(t) ==
  /\ Step(t, "write", "stamp", calls[t].cached)
  /\ price' = [price EXCEPT ![calls[t].coin] = calls[t].cached]
  /\ UNCHANGED <<now, stamp, lock>>

(* Faulty variant: the time of the write instead of the time before the     *)
(* fetch.                                                                   *)
WriteTimeLate(t) ==
  /\ Step(t, "stamp", "done", calls[t].cached)
  /\ stamp' = [stamp EXCEPT ![calls[t].coin] = now]
  /\ lock' = Nobody
  /\ UNCHANGED <<now, price>>

WriteTime(t) ==
  /\ Step(t, "stamp", "done", calls[t].cached)
  /\ stamp' = [stamp EXCEPT ![calls[t].coin] = calls[t].now]
  /\ lock' = Nobody
  /\ UNCHANGED <<now, price>>

Return(t) ==
  /\ calls[t].pc = "done"
  /\ calls' = [calls EXCEPT ![t] = IdleCall]
  /\ UNCHANGED <<now, price, stamp, lock>>

Tick ==
  /\ now < MaxNow
  /\ now' = now + 1
  /\ UNCHANGED <<price, stamp, lock, calls>>

CallStep(t) ==
  \/ ReadPrice(t) \/ ReadTime(t) \/ Reread(t) \/ Acquire(t)
  \/ FetchReplies(t) \/ FetchFails(t) \/ WritePrice(t) \/ WriteTime(t)

CacheNext ==
  \/ \E t \in Threads :
       \/ \E c \in Coins : Begin(t, c)
       \/ CallStep(t)
       \/ Return(t)
  \/ Tick

CacheSpec == CacheInit /\ [][CacheNext]_cacheVars

------------------------------------------------------------------------------
(* Properties *)

Holding == {"fetch", "write", "stamp"}

(* The globals and the locals have their types, and the lock is held by     *)
(* exactly the call that fetches or stores.                                 *)
CacheTypeOK ==
  /\ now \in Nat
  /\ price \in [Coins -> Nat \cup {None}]
  /\ stamp \in [Coins -> Nat \cup {None}]
  /\ calls \in [Threads -> Calls]
  /\ lock \in Threads \cup {Nobody}
  /\ \A t \in Threads : calls[t].pc \in Holding <=> lock = t

(* Price and time are replaced one after the other and read the other way   *)
(* round without the lock: still no price of ether a period old is returned *)
(* unless a fetch failed in this very call, and none of another coin unless *)
(* a newer one was stored between its two reads.                            *)
AnswersYoung ==
  [][\A t \in Threads :
       calls[t].pc # "done" /\ calls'[t].pc = "done" /\ ~ calls'[t].failed =>
         \/ calls'[t].now - calls'[t].cached < Ttl
         \/ calls[t].coin # Eth /\ calls'[t].cached < Cached(t)]_cacheVars

(* However many threads find a price expired, it is replaced once a period: *)
(* the times a coin's price carries lie a period apart, and no price gives  *)
(* way to an older one.                                                     *)
RenewedOncePerPeriod ==
  [][\A c \in Coins :
       /\ stamp'[c] # stamp[c] /\ stamp[c] # None => stamp'[c] - stamp[c] >= Ttl
       /\ price'[c] >= price[c]]_cacheVars

==============================================================================
