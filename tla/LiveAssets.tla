----------------------------- MODULE LiveAssets -----------------------------
(***************************************************************************)
(* GET /assets (app/routes.py): a live lookup of the balances of an address *)
(* behind a TTL cache with LRU eviction, at most one lookup in flight per   *)
(* address, and a semaphore over all lookups with a bounded wait.          *)
(*                                                                         *)
(* Requests and lookup tasks share one event loop: an action is the code   *)
(* of one of them between two awaits.  Only the lookup itself runs in a     *)
(* worker thread.                                                          *)
(***************************************************************************)
EXTENDS Naturals, FiniteSets, Sequences, SequencesExt

CONSTANTS
  Keys,      \* addresses in lower case
  Callers,   \* requests being served
  Tasks,     \* bound: lookup tasks alive at once, done ones included
  Slots,     \* ASSETS_MAX_CONCURRENT_LOOKUPS
  CacheMax,  \* ASSETS_CACHE_MAX_ENTRIES
  TTL,       \* ASSETS_CACHE_TTL_SECONDS
  MaxClock,  \* bound on the clock
  Null

ASSUME LiveAssetsAssumption ==
  /\ Slots \in Nat \ {0}
  /\ CacheMax \in Nat \ {0}
  /\ TTL \in Nat \ {0}
  /\ MaxClock \in Nat
  /\ Null \notin Keys \cup Callers \cup Tasks \cup Nat

VARIABLES
  cache,     \* _assets_cache, oldest use first: entries [key, at]
  inflight,  \* _assets_inflight of this loop, per key
  free,      \* _assets_lookup_slots: its value
  task,      \* the lookup tasks
  caller,    \* the requests
  clock      \* monotonic(), in units of which TTL is a number

vars == <<cache, inflight, free, task, caller, clock>>

Entry == [key: Keys, at: 0 .. MaxClock]

(* How a task ends: a payload stored at an instant, a refusal or an error.  *)
Answer ==
  [kind: {"payload"}, at: 0 .. MaxClock] \cup [kind: {"429", "error"}]

Payload(at) == [kind |-> "payload", at |-> at]

NoTask == [pc |-> "none"]
LiveTask == [pc: {"start", "queue", "fetch"}, key: Keys]
DoneTask == [pc: {"done", "removed"}, key: Keys, answer: Answer]

(* A request waits for a task since an instant, or has its answer.          *)
NoCall == [pc |-> "idle"]
Waiting == [pc: {"wait"}, task: Tasks, since: 0 .. MaxClock]
Answered ==
  [pc: {"answer"}, answer: Answer, since: 0 .. MaxClock]

Init ==
  /\ cache = <<>>
  /\ inflight = [k \in Keys |-> Null]
  /\ free = Slots
  /\ task = [t \in Tasks |-> NoTask]
  /\ caller = [c \in Callers |-> NoCall]
  /\ clock = 0

------------------------------------------------------------------------------
(* The cache *)

(* pop(cache_key, None)                                                     *)
Without(k) ==
  IF \E i \in DOMAIN cache : cache[i].key = k
    THEN RemoveAt(cache, CHOOSE i \in DOMAIN cache : cache[i].key = k) ELSE cache

(* Faulty variant: an entry is served whatever its age.                     *)
AnyAge(k) == {e \in ToSet(cache) : e.key = k}

(* The entry _get_cached_assets returns: at most one.                       *)
Fresh(k) == {e \in ToSet(cache) : e.key = k /\ clock < e.at + TTL}

(* _get_cached_assets moves a fresh entry to the end and drops a stale one. *)
CacheAfterGet(k) ==
  IF Fresh(k) = {} THEN Without(k) ELSE Append(Without(k), CHOOSE e \in Fresh(k) : TRUE)

(* Faulty variant: no eviction.                                             *)
StoreOnly(k) == Append(Without(k), [key |-> k, at |-> clock])

(* _cache_assets: the new entry is the last, the first ones make room.      *)
CacheAfterPut(k) ==
  LET full == Append(Without(k), [key |-> k, at |-> clock])
  IN IF Len(full) > CacheMax
       THEN SubSeq(full, Len(full) - CacheMax + 1, Len(full))
       ELSE full

------------------------------------------------------------------------------
(* Requests *)

(* lookup_live_assets up to its await: answer from the cache, or wait for   *)
(* the task in flight, or for a new one.                                    *)
Lookup(c, k) ==
  /\ caller[c] = NoCall
  /\ cache' = CacheAfterGet(k)
  /\ \/ /\ Fresh(k) # {}
        /\ \E e \in Fresh(k) :
             caller' = [caller EXCEPT ![c] =
                          [pc |-> "answer", answer |-> Payload(e.at), since |-> clock]]
        /\ UNCHANGED <<inflight, task>>
     \/ /\ Fresh(k) = {} /\ inflight[k] # Null
        /\ caller' = [caller EXCEPT ![c] =
                        [pc |-> "wait", task |-> inflight[k], since |-> clock]]
        /\ UNCHANGED <<inflight, task>>
     \/ /\ Fresh(k) = {} /\ inflight[k] = Null
        /\ \E t \in Tasks :
             /\ task[t] = NoTask
             /\ task' = [task EXCEPT ![t] = [pc |-> "start", key |-> k]]
             /\ inflight' = [inflight EXCEPT ![k] = t]
             /\ caller' = [caller EXCEPT ![c] =
                             [pc |-> "wait", task |-> t, since |-> clock]]
  /\ UNCHANGED <<free, clock>>

(* Faulty variant: the request polls the table instead of awaiting the task. *)
GetAnswerFromTable(c) ==
  /\ caller[c].pc = "wait"
  /\ task[caller[c].task].pc = "done"
  /\ inflight[task[caller[c].task].key] = caller[c].task
  /\ caller' = [caller EXCEPT ![c] =
                  [pc |-> "answer", answer |-> task[caller[c].task].answer,
                   since |-> caller[c].since]]
  /\ UNCHANGED <<cache, inflight, free, task, clock>>

(* The shielded await returns or raises what the task ended with.           *)
GetAnswer(c) ==
  /\ caller[c].pc = "wait"
  /\ task[caller[c].task].pc \in {"done", "removed"}
  /\ caller' = [caller EXCEPT ![c] =
                  [pc |-> "answer", answer |-> task[caller[c].task].answer,
                   since |-> caller[c].since]]
  /\ UNCHANGED <<cache, inflight, free, task, clock>>

Respond(c) ==
  /\ caller[c].pc = "answer"
  /\ caller' = [caller EXCEPT ![c] = NoCall]
  /\ UNCHANGED <<cache, inflight, free, task, clock>>

(* Faulty variant: the cancelled request takes its entry out of the table.  *)
CancelAndForget(c) ==
  /\ caller[c].pc = "wait"
  /\ caller' = [caller EXCEPT ![c] = NoCall]
  /\ inflight' = [k \in Keys |-> IF inflight[k] = caller[c].task THEN Null ELSE inflight[k]]
  /\ UNCHANGED <<cache, free, task, clock>>

(* The request is cancelled; the shield keeps the task running.             *)
Cancel(c) ==
  /\ caller[c].pc = "wait"
  /\ caller' = [caller EXCEPT ![c] = NoCall]
  /\ UNCHANGED <<cache, inflight, free, task, clock>>

------------------------------------------------------------------------------
(* Lookup tasks *)

End(t, answer) ==
  task' = [task EXCEPT ![t] = [pc |-> "done", key |-> @.key, answer |-> answer]]

(* With a slot: look at the cache again, and fetch only on a second miss;   *)
(* a hit gives the slot back at once.                                       *)
Enter(t) ==
  LET k == task[t].key
  IN
  /\ cache' = CacheAfterGet(k)
  /\ IF Fresh(k) # {}
       THEN (\E e \in Fresh(k) : End(t, Payload(e.at))) /\ UNCHANGED free
       ELSE task' = [task EXCEPT ![t].pc = "fetch"] /\ free' = free - 1

Queued == {t \in Tasks : task[t].pc = "queue"}

(* A slot that is free and not promised to a waiter is taken without        *)
(* suspending, so the timeout cannot fire.                                  *)
Start(t) ==
  /\ task[t].pc = "start"
  /\ IF free > 0 /\ Queued = {}
       THEN Enter(t)
       ELSE task' = [task EXCEPT ![t].pc = "queue"] /\ UNCHANGED <<cache, free>>
  /\ UNCHANGED <<inflight, caller, clock>>

Acquire(t) ==
  /\ task[t].pc = "queue"
  /\ free > 0
  /\ Enter(t)
  /\ UNCHANGED <<inflight, caller, clock>>

(* Faulty variant: the finally clause also covers the acquire.              *)
QueueTimeoutReleases(t) ==
  /\ task[t].pc = "queue"
  /\ End(t, [kind |-> "429"])
  /\ free' = free + 1
  /\ UNCHANGED <<cache, inflight, caller, clock>>

(* ASSETS_QUEUE_TIMEOUT_SECONDS have passed: 429.                           *)
QueueTimeout(t) ==
  /\ task[t].pc = "queue"
  /\ End(t, [kind |-> "429"])
  /\ UNCHANGED <<cache, inflight, free, caller, clock>>

(* Faulty variant: the slot is released after the payload is stored.        *)
FetchDoneNoFinally(t) ==
  /\ task[t].pc = "fetch"
  /\ \/ /\ cache' = CacheAfterPut(task[t].key) /\ End(t, Payload(clock))
        /\ free' = free + 1
     \/ UNCHANGED <<cache, free>> /\ End(t, [kind |-> "error"])
  /\ UNCHANGED <<inflight, caller, clock>>

(* summarize_all returned or raised; the slot goes back either way.         *)
FetchDone(t) ==
  /\ task[t].pc = "fetch"
  /\ \/ cache' = CacheAfterPut(task[t].key) /\ End(t, Payload(clock))
     \/ UNCHANGED cache /\ End(t, [kind |-> "error"])
  /\ free' = free + 1
  /\ UNCHANGED <<inflight, caller, clock>>

(* _finish_assets_lookup runs in a later turn of the loop than the end of   *)
(* the task, and removes that task only.                                    *)
FinishLookup(t) ==
  LET k == task[t].key
  IN
  /\ task[t].pc = "done"
  /\ inflight' = IF inflight[k] = t THEN [inflight EXCEPT ![k] = Null] ELSE inflight
  /\ task' = [task EXCEPT ![t].pc = "removed"]
  /\ UNCHANGED <<cache, free, caller, clock>>

(* Nothing refers to the task any more: its identity may serve again.       *)
Collect(t) ==
  /\ task[t].pc = "removed"
  /\ \A c \in Callers : caller[c].pc = "wait" => caller[c].task # t
  /\ task' = [task EXCEPT ![t] = NoTask]
  /\ UNCHANGED <<cache, inflight, free, caller, clock>>

(* Bound: TTL is long beside a turn of the loop, so the callback of a task  *)
(* that ended runs before the clock advances.                               *)
Tick ==
  /\ clock < MaxClock
  /\ \A t \in Tasks : task[t].pc # "done"
  /\ clock' = clock + 1
  /\ UNCHANGED <<cache, inflight, free, task, caller>>

CallerStep(c) == GetAnswer(c) \/ Respond(c)

TaskStep(t) ==
  Start(t) \/ Acquire(t) \/ QueueTimeout(t) \/ FetchDone(t) \/ FinishLookup(t) \/ Collect(t)

Next ==
  \/ \E c \in Callers : (\E k \in Keys : Lookup(c, k)) \/ CallerStep(c) \/ Cancel(c)
  \/ \E t \in Tasks : TaskStep(t)
  \/ Tick

Spec == Init /\ [][Next]_vars

------------------------------------------------------------------------------
(* Properties *)

Unfinished(t) == task[t].pc \in {"start", "queue", "fetch"}

(* Types; the cache holds at most CacheMax entries and one per address.      *)
TypeOK ==
  /\ cache \in Seq(Entry)
  /\ Len(cache) <= CacheMax
  /\ \A i, j \in DOMAIN cache : i # j => cache[i].key # cache[j].key
  /\ inflight \in [Keys -> Tasks \cup {Null}]
  /\ free \in 0 .. Slots
  /\ task \in [Tasks -> {NoTask} \cup LiveTask \cup DoneTask]
  /\ caller \in [Callers -> {NoCall} \cup Waiting \cup Answered]
  /\ clock \in 0 .. MaxClock

(* Every slot is free or held by a lookup that runs: none is lost on a path *)
(* out of the task (cached answer, refusal, error), so there are never more *)
(* than Slots lookups and, when none runs, all slots are there.             *)
SlotsConserved ==
  free + Cardinality({t \in Tasks : task[t].pc = "fetch"}) = Slots

(* At most one unfinished task per address, and a request that comes later  *)
(* finds it, although requests are cancelled and the table is cleaned by a  *)
(* callback that runs after the task has ended.                             *)
SingleFlight ==
  \A t \in Tasks : Unfinished(t) => inflight[task[t].key] = t

(* While a lookup of an address is pending or running, no other way brings  *)
(* a fresh payload of it into the cache: on one event loop the second look  *)
(* at the cache always misses, and no lookup repeats a finished one.        *)
NoFreshEntryBesideLookup ==
  \A t \in Tasks : Unfinished(t) => Fresh(task[t].key) = {}

(* A payload that answers a request was stored less than TTL before the     *)
(* request came, by whichever way it got there: the cache, a task it        *)
(* started, a task it joined, or the second look at the cache of that task.  *)
AnswersAreFresh ==
  \A c \in Callers :
    (caller[c].pc = "answer" /\ caller[c].answer.kind = "payload")
      => caller[c].since < caller[c].answer.at + TTL

(* Fairness: the loop runs what is ready; a lookup returns or raises (its   *)
(* calls have timeouts); a wait for a slot is bounded by its timer.         *)
Fairness ==
  /\ \A c \in Callers : WF_vars(CallerStep(c))
  /\ \A t \in Tasks : WF_vars(TaskStep(t))

FairSpec == Spec /\ Fairness

(* Every request is answered or cancelled, however many wait for a slot.    *)
CallersAnswered == \A c \in Callers : caller[c].pc = "wait" ~> caller[c].pc # "wait"

==============================================================================
