---------------------------- MODULE DigestDelivery ----------------------------
(***************************************************************************)
(* The daily Telegram digest: send_due_daily_balances of app/services/      *)
(* telegram_daily_balance.py, run by processes that an outside scheduler   *)
(* starts (app/jobs/telegram_daily_balance.py) and that may overlap, over   *)
(* the tables of app/db/models/telegram.py.                                *)
(*                                                                         *)
(* One action is one database round trip or one call of the Telegram API.  *)
(* A transaction ends at a commit or a rollback only: an account skipped   *)
(* after SELECT .. FOR UPDATE keeps its row locked while the job goes on to *)
(* the next ones.                                                          *)
(***************************************************************************)
EXTENDS Naturals, FiniteSets

CONSTANTS
  Accounts,      \* linked Telegram accounts
  Dates,         \* local calendar dates
  Schedules,     \* what a (timezone, daily_at) setting makes of an instant:
                 \* the local date if the digest is due, Null if not yet
  Jobs,          \* processes the scheduler may have running at once
  Lease,         \* DELIVERY_LEASE_SECONDS
  MaxAttempts,   \* MAX_DELIVERY_ATTEMPTS
  RetryDelays,   \* values of retry_after, cut to MAX_RETRY_AFTER_SECONDS
  MaxClock,      \* bound on the clock
  Null

ASSUME DigestDeliveryAssumption ==
  /\ Lease \in Nat \ {0}
  /\ MaxAttempts \in Nat \ {0}
  /\ MaxClock \in Nat
  /\ RetryDelays \subseteq Nat
  /\ Schedules \subseteq [0 .. MaxClock -> Dates \cup {Null}]
  /\ IsFiniteSet(Jobs)
  /\ Null \notin Dates \cup Jobs \cup Accounts \cup Nat

VARIABLES
  settings,  \* TelegramNotificationSettings, per account
  delivery,  \* TelegramDigestDelivery: a function on the keys in use
  rowLock,   \* FOR UPDATE: the job holding a row of delivery
  job,       \* what each process is doing
  clock,     \* datetime.now(), in units of which Lease is a number
  sends,     \* history: calls of sendMessage, per key
  inbox,     \* history: digests that reached the chat, per key
  lost,      \* history: keys with a delivered digest that got no good answer
  overran    \* history: keys whose pending attempt outlived its lease

vars == <<settings, delivery, rowLock, job, clock, sends, inbox, lost, overran>>
history == <<sends, inbox, lost, overran>>

Keys == Accounts \X Dates  \* uq_telegram_digest_local_date

Settings == [enabled: BOOLEAN, schedule: Schedules]

Delivery ==
  [status: {"pending", "sent", "failed"}, attempts: Nat, attemptedAt: Nat,
   retryAfter: Nat \cup {Null}]

Idle == [pc |-> "idle"]

(* What a job holds: the instant it started at, the schedules it loaded and *)
(* the accounts it has still to handle, then the account at hand.           *)
Running ==
  [pc: {"next"}, current: 0 .. MaxClock, loaded: [Accounts -> Schedules],
   todo: SUBSET Accounts]

Handling ==
  [pc: {"select", "insert", "update", "send", "record"}, current: 0 .. MaxClock,
   loaded: [Accounts -> Schedules], todo: SUBSET Accounts, key: Keys,
   answer: {Null, "ok", "error", "400", "403", "429"}]

Init ==
  /\ settings \in [Accounts -> [enabled: {FALSE}, schedule: Schedules]]
  /\ delivery = [k \in {} |-> Null]
  /\ rowLock = [k \in Keys |-> Null]
  /\ job = [j \in Jobs |-> Idle]
  /\ clock = 0
  /\ sends = [k \in Keys |-> 0]
  /\ inbox = [k \in Keys |-> 0]
  /\ lost = {}
  /\ overran = {}

------------------------------------------------------------------------------
At(j, pc) == job[j].pc = pc

Goto(j, pc) == job' = [job EXCEPT ![j].pc = pc]

(* The job turns to the next account, or has handled them all and exits.    *)
NextAccount(j) ==
  job' = [job EXCEPT ![j] =
            [pc |-> "next", current |-> @.current, loaded |-> @.loaded,
             todo |-> @.todo]]

Exit(j) == job' = [job EXCEPT ![j] = Idle]

(* Faulty variant: row locks that outlive the transaction.                  *)
KeepLocks(j) == UNCHANGED rowLock

(* COMMIT, rollback or the end of the session.                              *)
ReleaseLocks(j) ==
  rowLock' = [k \in Keys |-> IF rowLock[k] = j THEN Null ELSE rowLock[k]]

(* A row lock is granted when no other job holds the row.                   *)
Grantable(j, k) == rowLock[k] \in {Null, j}

(* The rows with enabled settings, loaded once; no ORDER BY.                *)
StartJob(j) ==
  /\ At(j, "idle")
  /\ job' = [job EXCEPT ![j] =
               [pc |-> "next", current |-> clock,
                loaded |-> [a \in Accounts |-> settings[a].schedule],
                todo |-> {a \in Accounts : settings[a].enabled}]]
  /\ UNCHANGED <<settings, delivery, rowLock, clock, history>>

(* _is_due decides on the loaded settings and the instant the job started.  *)
PickAccount(j) ==
  /\ At(j, "next")
  /\ \E a \in job[j].todo :
       LET date == job[j].loaded[a][job[j].current]
           rest == [job[j] EXCEPT !.todo = @ \ {a}]
       IN job' = [job EXCEPT ![j] =
                    IF date = Null THEN rest
                    ELSE [pc |-> "select", current |-> rest.current,
                          loaded |-> rest.loaded, todo |-> rest.todo,
                          key |-> <<a, date>>, answer |-> Null]]
  /\ UNCHANGED <<settings, delivery, rowLock, clock, history>>

(* All accounts are handled: the session is closed.                         *)
EndJob(j) ==
  /\ At(j, "next")
  /\ job[j].todo = {}
  /\ Exit(j)
  /\ ReleaseLocks(j)
  /\ UNCHANGED <<settings, delivery, clock, history>>

(* Faulty variant: no lease on a pending attempt.                           *)
SkippedNoLease(row, current) ==
  \/ row.status = "sent"
  \/ row.retryAfter # Null /\ current < row.retryAfter
  \/ row.attempts >= MaxAttempts

(* Faulty variant: no limit on the attempts.                                *)
SkippedNoLimit(row, current) ==
  \/ row.status = "sent"
  \/ row.retryAfter # Null /\ current < row.retryAfter
  \/ row.status = "pending" /\ current < row.attemptedAt + Lease

(* Why an existing row is left alone.                                       *)
Skipped(row, current) ==
  \/ row.status = "sent"
  \/ row.retryAfter # Null /\ current < row.retryAfter
  \/ row.attempts >= MaxAttempts
  \/ row.status = "pending" /\ current < row.attemptedAt + Lease

(* SELECT .. FOR UPDATE.  A row that is found stays locked, skipped or not. *)
SelectDelivery(j) ==
  LET key == job[j].key
  IN
  /\ At(j, "select")
  /\ IF key \in DOMAIN delivery
       THEN /\ Grantable(j, key)
            /\ rowLock' = [rowLock EXCEPT ![key] = j]
            /\ IF Skipped(delivery[key], job[j].current)
                 THEN NextAccount(j)
                 ELSE Goto(j, "update")
       ELSE Goto(j, "insert") /\ UNCHANGED rowLock
  /\ UNCHANGED <<settings, delivery, clock, history>>

(* Faulty variant: ON CONFLICT DO UPDATE, so the loser of the race sends too. *)
InsertUpsert(j) ==
  LET key == job[j].key
  IN
  /\ At(j, "insert")
  /\ delivery' = [k \in DOMAIN delivery \cup {key} |->
                    IF k = key
                      THEN [status |-> "pending", attempts |-> 1,
                            attemptedAt |-> job[j].current, retryAfter |-> Null]
                      ELSE delivery[k]]
  /\ Goto(j, "send")
  /\ ReleaseLocks(j)
  /\ UNCHANGED <<settings, clock, history>>

(* Faulty variant: the INSERT leaves attempted_at to its default.           *)
InsertNoAttemptedAt(j) ==
  LET key == job[j].key
  IN
  /\ At(j, "insert") /\ key \notin DOMAIN delivery
  /\ delivery' = [k \in DOMAIN delivery \cup {key} |->
                    IF k = key
                      THEN [status |-> "pending", attempts |-> 1,
                            attemptedAt |-> Null, retryAfter |-> Null]
                      ELSE delivery[k]]
  /\ Goto(j, "send")
  /\ ReleaseLocks(j)
  /\ UNCHANGED <<settings, clock, history>>

(* INSERT .. ON CONFLICT DO NOTHING and COMMIT.  The loser of the race rolls *)
(* back, which expires the accounts it loaded: the job ends here, by itself *)
(* if no account is left and otherwise at the first attribute it reads.     *)
InsertDelivery(j) ==
  LET key == job[j].key
  IN
  /\ At(j, "insert")
  /\ IF key \in DOMAIN delivery
       THEN Exit(j) /\ UNCHANGED delivery
       ELSE /\ delivery' = [k \in DOMAIN delivery \cup {key} |->
                              IF k = key
                                THEN [status |-> "pending", attempts |-> 1,
                                      attemptedAt |-> job[j].current,
                                      retryAfter |-> Null]
                                ELSE delivery[k]]
            /\ Goto(j, "send")
  /\ ReleaseLocks(j)
  /\ UNCHANGED <<settings, clock, history>>

(* The locked row becomes the next attempt: UPDATE and COMMIT.              *)
UpdateDelivery(j) ==
  LET key == job[j].key
      row == delivery[key]
  IN
  /\ At(j, "update")
  /\ delivery' = [delivery EXCEPT ![key] =
                    [status |-> "pending", attempts |-> row.attempts + 1,
                     attemptedAt |-> job[j].current, retryAfter |-> Null]]
  /\ overran' = IF row.status = "pending" /\ row.attemptedAt + Lease <= clock
                  THEN overran \cup {key} ELSE overran
  /\ Goto(j, "send")
  /\ ReleaseLocks(j)
  /\ UNCHANGED <<settings, clock, sends, inbox, lost>>

(* sendMessage.  Without an answer, or with a server error, the digest may  *)
(* or may not have reached the chat.                                        *)
Send(j) ==
  LET key == job[j].key
  IN
  /\ At(j, "send")
  /\ sends' = [sends EXCEPT ![key] = @ + 1]
  /\ \E answer \in {"ok", "error", "400", "403", "429"}, arrived \in BOOLEAN :
        /\ answer = "ok" => arrived
        /\ arrived => answer \in {"ok", "error"}
        /\ job' = [job EXCEPT ![j].pc = "record", ![j].answer = answer]
        /\ inbox' = IF arrived THEN [inbox EXCEPT ![key] = @ + 1] ELSE inbox
        /\ lost' = IF arrived /\ answer # "ok" THEN lost \cup {key} ELSE lost
  /\ UNCHANGED <<settings, delivery, rowLock, clock, overran>>

(* The outcome is written over whatever the row says by now, once no other  *)
(* job holds it.                                                            *)
Record(j) ==
  LET key == job[j].key
      answer == job[j].answer
      current == job[j].current
  IN
  /\ At(j, "record")
  /\ Grantable(j, key)
  /\ \E delay \in RetryDelays :
        delivery' = [delivery EXCEPT
          ![key].status = IF answer = "ok" THEN "sent" ELSE "failed",
          ![key].retryAfter = IF answer = "429" THEN current + delay ELSE @]
  /\ settings' = IF answer = "403"
                   THEN [settings EXCEPT ![key[1]].enabled = FALSE]
                   ELSE settings
  /\ NextAccount(j)
  /\ ReleaseLocks(j)
  /\ UNCHANGED <<clock, history>>

------------------------------------------------------------------------------
(* j waits for a row that k holds.                                          *)
Waits(j, k) ==
  /\ job[j].pc \in {"select", "record"}
  /\ job[j].key \in DOMAIN delivery
  /\ rowLock[job[j].key] = k
  /\ k # j

(* PostgreSQL breaks a deadlock by failing one of the statements, and the   *)
(* exception ends that job.                                                 *)
DeadlockAbort(j) ==
  /\ \E k \in Jobs : k # j /\ Waits(j, k) /\ Waits(k, j)
  /\ Exit(j)
  /\ ReleaseLocks(j)
  /\ UNCHANGED <<settings, delivery, clock, history>>

(* The process is killed: its transaction rolls back.                       *)
Crash(j) ==
  /\ ~At(j, "idle")
  /\ Exit(j)
  /\ ReleaseLocks(j)
  /\ UNCHANGED <<settings, delivery, clock, history>>

(* PATCH /telegram/settings                                                 *)
UpdateSettings(a) ==
  /\ \E new \in Settings :
        new # settings[a] /\ settings' = [settings EXCEPT ![a] = new]
  /\ UNCHANGED <<delivery, rowLock, job, clock, history>>

Tick ==
  /\ clock < MaxClock
  /\ clock' = clock + 1
  /\ UNCHANGED <<settings, delivery, rowLock, job, history>>

Step(j) ==
  \/ PickAccount(j) \/ EndJob(j) \/ SelectDelivery(j) \/ InsertDelivery(j)
  \/ UpdateDelivery(j) \/ Send(j) \/ Record(j) \/ DeadlockAbort(j)

Next ==
  \/ \E j \in Jobs : StartJob(j) \/ Step(j) \/ Crash(j)
  \/ \E a \in Accounts : UpdateSettings(a)
  \/ Tick

Spec == Init /\ [][Next]_vars

------------------------------------------------------------------------------
(* Properties *)

(* Every variable keeps its shape.                                          *)
TypeOK ==
  /\ settings \in [Accounts -> Settings]
  /\ DOMAIN delivery \subseteq Keys
  /\ \A k \in DOMAIN delivery : delivery[k] \in Delivery
  /\ rowLock \in [Keys -> Jobs \cup {Null}]
  /\ job \in [Jobs -> {Idle} \cup Running \cup Handling]
  /\ clock \in 0 .. MaxClock
  /\ sends \in [Keys -> Nat] /\ inbox \in [Keys -> Nat]
  /\ lost \subseteq Keys /\ overran \subseteq Keys

(* The Telegram API is called at most MaxAttempts times for an account and  *)
(* a date, and every call was first committed as an attempt, whatever jobs  *)
(* overlap, crash or time out.                                              *)
SendsBounded ==
  \A k \in Keys :
    IF k \in DOMAIN delivery
      THEN sends[k] <= delivery[k].attempts /\ delivery[k].attempts <= MaxAttempts
      ELSE sends[k] = 0

Sending(j) == job[j].pc \in {"send", "record"}

(* Two jobs hold an attempt for one account and date at the same time only  *)
(* after an attempt outlived its lease.                                     *)
OneSenderWithinLease ==
  \A i, j \in Jobs :
    (i # j /\ Sending(i) /\ Sending(j) /\ job[i].key = job[j].key)
      => job[i].key \in overran

(* The chat gets a second digest of one date only if the answer to a        *)
(* delivered one was lost or an attempt outlived its lease (a crash after   *)
(* the call leaves a pending row that outlives it).                         *)
DuplicateOnlyByLossOrOverrun ==
  \A k \in Keys : inbox[k] > 1 => k \in lost \cup overran

(* Within the lease a delivery that is sent stays sent: no late failure of  *)
(* an earlier attempt reopens it.                                           *)
SentIsFinal ==
  [][\A k \in DOMAIN delivery :
       (delivery[k].status = "sent" /\ k \notin overran)
          => delivery'[k].status = "sent"]_vars

(* Fairness: a started process keeps running, and PostgreSQL grants a row   *)
(* lock to its waiters in turn and looks for deadlocks.                     *)
Fairness ==
  \A j \in Jobs :
    /\ WF_vars(Step(j))
    /\ SF_vars(SelectDelivery(j)) /\ SF_vars(Record(j))

FairSpec == Spec /\ Fairness

(* Every job ends, although jobs keep row locks across accounts and take    *)
(* them in any order.                                                       *)
JobsEnd == \A j \in Jobs : ~At(j, "idle") ~> At(j, "idle")

==============================================================================
