------------------------- MODULE DigestDeliveryProof -------------------------
(***************************************************************************)
(* Theorems about DigestDelivery, for any accounts, dates, schedules, jobs, *)
(* lease and limits that satisfy DigestDeliveryAssumption.                  *)
(***************************************************************************)
EXTENDS DigestDelivery, FiniteSetTheorems, TLAPS

USE DigestDeliveryAssumption

------------------------------------------------------------------------------
(* Type correctness *)

Slot == {Idle} \cup Running \cup Handling

(* What a slot holds is told by its pc. *)
LEMMA Slots ==
  ASSUME TypeOK, NEW j \in Jobs
  PROVE  /\ At(j, "idle") => job[j] = Idle
         /\ At(j, "next") => job[j] \in Running
         /\ job[j].pc \in {"select", "insert", "update", "send", "record"}
              => job[j] \in Handling
         /\ ~At(j, "idle") => job[j] \in Running \cup Handling
  BY DEF TypeOK, At, Idle, Running, Handling

(* Moving one slot to a well-typed value keeps job well typed. *)
LEMMA SlotStep ==
  ASSUME TypeOK, NEW j \in Jobs, NEW q \in Slot, job' = [job EXCEPT ![j] = q]
  PROVE  job' \in [Jobs -> Slot]
  BY DEF TypeOK, Slot

LEMMA GotoType ==
  ASSUME TypeOK, NEW j \in Jobs, job[j] \in Handling,
         NEW pc \in {"select", "insert", "update", "send", "record"}, Goto(j, pc)
  PROVE  job' \in [Jobs -> Slot]
<1>1. [job[j] EXCEPT !.pc = pc] \in Handling
  BY DEF Handling
<1>. QED BY <1>1, SlotStep DEF Goto, Slot

LEMMA NextAccountType ==
  ASSUME TypeOK, NEW j \in Jobs, job[j] \in Handling, NextAccount(j)
  PROVE  job' \in [Jobs -> Slot]
<1>1. [pc |-> "next", current |-> job[j].current, loaded |-> job[j].loaded,
       todo |-> job[j].todo] \in Running
  BY DEF Handling, Running
<1>. QED BY <1>1, SlotStep DEF NextAccount, Slot

LEMMA ExitType ==
  ASSUME TypeOK, NEW j \in Jobs, Exit(j)
  PROVE  job' \in [Jobs -> Slot]
  BY SlotStep DEF Exit, Slot

LEMMA LocksType ==
  ASSUME TypeOK, NEW j \in Jobs, ReleaseLocks(j)
  PROVE  rowLock' \in [Keys -> Jobs \cup {Null}]
  BY DEF TypeOK, ReleaseLocks

(* Every step keeps the types. *)
LEMMA TypeStep == TypeOK /\ [Next]_vars => TypeOK'
<1> SUFFICES ASSUME TypeOK, [Next]_vars PROVE TypeOK'
  OBVIOUS
<1> USE DEF Slot, history
<1>1. CASE UNCHANGED vars
  BY <1>1 DEF vars, TypeOK
<1>2. CASE Tick
  BY <1>2 DEF Tick, TypeOK
<1>3. ASSUME NEW a \in Accounts, UpdateSettings(a) PROVE TypeOK'
  BY <1>3 DEF UpdateSettings, TypeOK
<1>4. ASSUME NEW j \in Jobs, StartJob(j) PROVE TypeOK'
  <2>1. [pc |-> "next", current |-> clock,
         loaded |-> [a \in Accounts |-> settings[a].schedule],
         todo |-> {a \in Accounts : settings[a].enabled}] \in Running
    BY DEF TypeOK, Running, Settings
  <2>2. job' \in [Jobs -> Slot]
    BY <1>4, <2>1, SlotStep DEF StartJob
  <2>. QED BY <1>4, <2>2 DEF StartJob, TypeOK
<1>5. ASSUME NEW j \in Jobs, PickAccount(j) PROVE TypeOK'
  <2>1. job[j] \in Running
    BY <1>5, Slots DEF PickAccount
  <2> DEFINE date(a) == job[j].loaded[a][job[j].current]
             rest(a) == [job[j] EXCEPT !.todo = @ \ {a}]
             picked(a) == [pc |-> "select", current |-> rest(a).current,
                           loaded |-> rest(a).loaded, todo |-> rest(a).todo,
                           key |-> <<a, date(a)>>, answer |-> Null]
  <2>2. PICK a \in job[j].todo :
          job' = [job EXCEPT ![j] = IF date(a) = Null THEN rest(a) ELSE picked(a)]
    BY <1>5 DEF PickAccount
  <2>3. a \in Accounts /\ date(a) \in Dates \cup {Null} /\ rest(a) \in Running
    BY <2>1 DEF Running
  <2>4. date(a) # Null => picked(a) \in Handling
    BY <2>1, <2>3 DEF Running, Handling, Keys
  <2>5. job' \in [Jobs -> Slot]
    BY <2>2, <2>3, <2>4, SlotStep
  <2>. QED BY <1>5, <2>5 DEF PickAccount, TypeOK
<1>6. ASSUME NEW j \in Jobs, EndJob(j) PROVE TypeOK'
  BY <1>6, ExitType, LocksType DEF EndJob, TypeOK
<1>7. ASSUME NEW j \in Jobs, SelectDelivery(j) PROVE TypeOK'
  <2>1. job[j] \in Handling /\ job[j].key \in Keys
    BY <1>7, Slots DEF SelectDelivery, At, Handling
  <2>2. job' \in [Jobs -> Slot]
    BY <1>7, <2>1, GotoType, NextAccountType DEF SelectDelivery
  <2>3. rowLock' \in [Keys -> Jobs \cup {Null}]
    BY <1>7, <2>1 DEF SelectDelivery, TypeOK
  <2>. QED BY <1>7, <2>2, <2>3 DEF SelectDelivery, TypeOK
<1>8. ASSUME NEW j \in Jobs, InsertDelivery(j) PROVE TypeOK'
  <2>1. job[j] \in Handling /\ job[j].key \in Keys /\ job[j].current \in Nat
    BY <1>8, Slots DEF InsertDelivery, At, Handling
  <2>2. job' \in [Jobs -> Slot]
    BY <1>8, <2>1, GotoType, ExitType DEF InsertDelivery
  <2>3. DOMAIN delivery' \subseteq Keys /\ \A k \in DOMAIN delivery' : delivery'[k] \in Delivery
    BY <1>8, <2>1 DEF InsertDelivery, TypeOK, Delivery
  <2>. QED BY <1>8, <2>2, <2>3, LocksType DEF InsertDelivery, TypeOK
<1>9. ASSUME NEW j \in Jobs, UpdateDelivery(j) PROVE TypeOK'
  <2>1. job[j] \in Handling /\ job[j].key \in Keys /\ job[j].current \in Nat
    BY <1>9, Slots DEF UpdateDelivery, At, Handling
  <2>2. job' \in [Jobs -> Slot]
    BY <1>9, <2>1, GotoType DEF UpdateDelivery
  <2>3. \A k \in DOMAIN delivery' : delivery'[k] \in Delivery
    BY <1>9, <2>1 DEF UpdateDelivery, TypeOK, Delivery
  <2>. QED BY <1>9, <2>1, <2>2, <2>3, LocksType DEF UpdateDelivery, TypeOK
<1>10. ASSUME NEW j \in Jobs, Send(j) PROVE TypeOK'
  <2>1. job[j] \in Handling /\ job[j].key \in Keys
    BY <1>10, Slots DEF Send, At, Handling
  <2>2. PICK answer \in {"ok", "error", "400", "403", "429"} :
          job' = [job EXCEPT ![j].pc = "record", ![j].answer = answer]
    BY <1>10 DEF Send
  <2>3. [job[j] EXCEPT !.pc = "record", !.answer = answer] \in Handling
    BY <2>1 DEF Handling
  <2>4. job' \in [Jobs -> Slot]
    BY <2>2, <2>3, SlotStep DEF TypeOK
  <2>5. sends' \in [Keys -> Nat]
    BY <1>10, <2>1 DEF Send, TypeOK
  <2>6. inbox' \in [Keys -> Nat] /\ lost' \subseteq Keys
    <3>1. inbox' \in {inbox, [inbox EXCEPT ![job[j].key] = @ + 1]}
          /\ lost' \in {lost, lost \cup {job[j].key}}
      BY <1>10 DEF Send
    <3>. QED BY <2>1, <3>1 DEF TypeOK
  <2>. QED BY <1>10, <2>4, <2>5, <2>6 DEF Send, TypeOK
<1>11. ASSUME NEW j \in Jobs, Record(j) PROVE TypeOK'
  <2>1. job[j] \in Handling /\ job[j].key \in Keys /\ job[j].current \in Nat
        /\ job[j].key[1] \in Accounts
    BY <1>11, Slots DEF Record, At, Handling, Keys
  <2>2. job' \in [Jobs -> Slot]
    BY <1>11, <2>1, NextAccountType DEF Record
  <2>3. DOMAIN delivery' = DOMAIN delivery
        /\ \A k \in DOMAIN delivery : delivery'[k] \in Delivery
    <3>1. PICK delay \in RetryDelays : delivery' = [delivery EXCEPT
            ![job[j].key].status = IF job[j].answer = "ok" THEN "sent" ELSE "failed",
            ![job[j].key].retryAfter =
              IF job[j].answer = "429" THEN job[j].current + delay ELSE @]
      BY <1>11 DEF Record
    <3>2. ASSUME NEW k \in DOMAIN delivery PROVE delivery'[k] \in Delivery
      <4>1. delivery[k] \in Delivery /\ job[j].current + delay \in Nat
        BY <2>1 DEF TypeOK
      <4>2. CASE k = job[j].key
        BY <3>1, <4>1, <4>2 DEF Delivery
      <4>3. CASE k # job[j].key
        BY <3>1, <4>1, <4>3
      <4>. QED BY <4>2, <4>3
    <3>. QED BY <3>1, <3>2
  <2>4. settings' \in [Accounts -> Settings]
    <3>1. settings' \in
            {settings, [settings EXCEPT ![job[j].key[1]].enabled = FALSE]}
      BY <1>11 DEF Record
    <3>2. [settings[job[j].key[1]] EXCEPT !.enabled = FALSE] \in Settings
      <4>1. settings[job[j].key[1]] \in Settings
        BY <2>1 DEF TypeOK
      <4>. QED BY <4>1 DEF Settings
    <3>. QED BY <2>1, <3>1, <3>2 DEF TypeOK
  <2>. QED BY <1>11, <2>2, <2>3, <2>4, LocksType DEF Record, TypeOK
<1>12. ASSUME NEW j \in Jobs, DeadlockAbort(j) PROVE TypeOK'
  BY <1>12, ExitType, LocksType DEF DeadlockAbort, TypeOK
<1>13. ASSUME NEW j \in Jobs, Crash(j) PROVE TypeOK'
  BY <1>13, ExitType, LocksType DEF Crash, TypeOK
<1>. QED BY <1>1, <1>2, <1>3, <1>4, <1>5, <1>6, <1>7, <1>8, <1>9, <1>10, <1>11,
            <1>12, <1>13 DEF Next, Step

(* Every variable of DigestDelivery keeps its shape. *)
THEOREM TypeCorrect == Spec => []TypeOK
<1>1. Init => TypeOK
  <2> SUFFICES ASSUME Init PROVE TypeOK
    OBVIOUS
  <2>1. [enabled: {FALSE}, schedule: Schedules] \subseteq Settings
    BY DEF Settings
  <2>2. settings \in [Accounts -> Settings]
    BY <2>1 DEF Init
  <2>3. DOMAIN delivery = {}
    BY DEF Init
  <2>. QED BY <2>2, <2>3 DEF Init, TypeOK
<1>. QED BY <1>1, TypeStep, PTL DEF Spec

------------------------------------------------------------------------------
(* The inductive invariant *)

(* Jobs that have committed an attempt of key k and not called the API yet. *)
Attempting(k) == {j \in Jobs : job[j].pc = "send" /\ job[j].key = k}

(* Calls made and calls to come are all committed attempts.                 *)
CallsInv ==
  \A k \in Keys :
    IF k \in DOMAIN delivery
      THEN /\ sends[k] + Cardinality(Attempting(k)) <= delivery[k].attempts
           /\ delivery[k].attempts <= MaxAttempts
      ELSE sends[k] = 0

(* A job that acts on a row acts on one that exists.                        *)
RowInv ==
  \A j \in Jobs :
    job[j].pc \in {"update", "send", "record"} => job[j].key \in DOMAIN delivery

(* Between SELECT FOR UPDATE and UPDATE the row is locked, so what let the  *)
(* job go on is still true of it.                                           *)
LockInv ==
  \A j \in Jobs :
    job[j].pc = "update" =>
      /\ rowLock[job[j].key] = j
      /\ ~Skipped(delivery[job[j].key], job[j].current)

(* A job works with an instant of the past.                                 *)
ClockInv == \A j \in Jobs : job[j].pc # "idle" => job[j].current <= clock

(* Within the lease the row of a job that sends is pending and its own.     *)
SenderInv ==
  \A j \in Jobs :
    (Sending(j) /\ job[j].key \notin overran)
      => delivery[job[j].key].status = "pending"

(* Without a loss or an overrun at most one digest has arrived, it was the  *)
(* last attempt's, and that attempt did not fail.                           *)
InboxInv ==
  \A k \in Keys \ (lost \cup overran) :
    /\ inbox[k] \in {0, 1}
    /\ inbox[k] = 1 => k \in DOMAIN delivery /\ delivery[k].status # "failed"
    /\ \A j \in Jobs :
         (Sending(j) /\ job[j].key = k /\ (At(j, "send") \/ job[j].answer # "ok"))
           => inbox[k] = 0

SafetyInv ==
  /\ RowInv /\ LockInv /\ ClockInv
  /\ SenderInv /\ OneSenderWithinLease /\ InboxInv

------------------------------------------------------------------------------
(* The steps, by what they do to the deliveries *)

Others(j) == \A i \in Jobs \ {j} : job'[i] = job[i]

SameAttempt(j) == job'[j].key = job[j].key /\ job'[j].current = job[j].current

(* Only a job's own steps take away a lock it holds. *)
LocksKept(j) ==
  \A k \in Keys : rowLock[k] \in Jobs \ {j} => rowLock'[k] = rowLock[k]

(* Nothing but settings and clock changes. *)
Wait ==
  /\ UNCHANGED <<delivery, rowLock, job, history>>
  /\ clock' \in Nat /\ clock <= clock'

(* The job moves on, or ends, without touching a delivery. *)
Move(j) ==
  /\ UNCHANGED <<delivery, clock, history>>
  /\ Others(j) /\ LocksKept(j)
  /\ job'[j].pc \in {"idle", "next", "select", "insert"}
  /\ \/ job'[j].pc = "idle"
     \/ job'[j].current = clock
     \/ job[j].pc # "idle" /\ job'[j].current = job[j].current

(* The job locks the row and will make it its attempt. *)
Reserve(j) ==
  LET key == job[j].key
  IN
  /\ UNCHANGED <<delivery, clock, history>>
  /\ Others(j) /\ LocksKept(j)
  /\ key \in DOMAIN delivery /\ Grantable(j, key) /\ rowLock'[key] = j
  /\ ~Skipped(delivery[key], job[j].current)
  /\ job[j].pc = "select" /\ job'[j].pc = "update" /\ SameAttempt(j)

(* The job's row is new and is its first attempt. *)
Insert(j) ==
  LET key == job[j].key
  IN
  /\ UNCHANGED <<clock, history>>
  /\ Others(j) /\ LocksKept(j)
  /\ key \in Keys \ DOMAIN delivery
  /\ DOMAIN delivery' = DOMAIN delivery \cup {key}
  /\ \A k \in DOMAIN delivery : delivery'[k] = delivery[k]
  /\ delivery'[key].status = "pending" /\ delivery'[key].attempts = 1
  /\ job[j].pc = "insert" /\ job'[j].pc = "send" /\ SameAttempt(j)

LEMMA StepKinds ==
  ASSUME TypeOK, [Next]_vars
  PROVE  \/ Wait
         \/ \E j \in Jobs : \/ Move(j) \/ Reserve(j) \/ Insert(j)
                            \/ UpdateDelivery(j) \/ Send(j) \/ Record(j)
<1> USE DEF history
<1>1. CASE UNCHANGED vars
  BY <1>1 DEF vars, Wait, TypeOK
<1>2. CASE Tick
  BY <1>2 DEF Tick, Wait, TypeOK
<1>3. ASSUME NEW a \in Accounts, UpdateSettings(a) PROVE Wait
  BY <1>3 DEF UpdateSettings, Wait, TypeOK
<1>4. ASSUME NEW j \in Jobs, StartJob(j) PROVE Move(j)
  BY <1>4 DEF StartJob, Move, Others, LocksKept, TypeOK
<1>5. ASSUME NEW j \in Jobs, PickAccount(j) PROVE Move(j)
  <2>1. job[j] \in Running
    BY <1>5, Slots DEF PickAccount
  <2>2. PICK q \in Slot : /\ job' = [job EXCEPT ![j] = q]
                          /\ q.pc \in {"next", "select"}
                          /\ q.current = job[j].current
    <3> DEFINE date(a) == job[j].loaded[a][job[j].current]
               rest(a) == [job[j] EXCEPT !.todo = @ \ {a}]
               picked(a) == [pc |-> "select", current |-> rest(a).current,
                             loaded |-> rest(a).loaded, todo |-> rest(a).todo,
                             key |-> <<a, date(a)>>, answer |-> Null]
    <3>1. PICK a \in job[j].todo :
            job' = [job EXCEPT ![j] = IF date(a) = Null THEN rest(a) ELSE picked(a)]
      BY <1>5 DEF PickAccount
    <3>2. /\ rest(a) \in Running /\ rest(a).current = job[j].current
          /\ rest(a).pc = "next"
      BY <2>1 DEF Running
    <3>3. job' \in [Jobs -> Slot]
      BY TypeStep DEF TypeOK, Slot
    <3>. QED BY <3>1, <3>2, <3>3 DEF TypeOK
  <2>3. job[j].pc # "idle"
    BY <1>5 DEF PickAccount, At
  <2>. QED BY <1>5, <2>2, <2>3 DEF PickAccount, Move, Others, LocksKept, TypeOK
<1>6. ASSUME NEW j \in Jobs, Exit(j), ReleaseLocks(j),
             UNCHANGED <<delivery, clock, history>>
      PROVE  Move(j)
  BY <1>6 DEF Exit, ReleaseLocks, Idle, Move, Others, LocksKept, TypeOK
<1>7. ASSUME NEW j \in Jobs, SelectDelivery(j) PROVE Move(j) \/ Reserve(j)
  <2> DEFINE key == job[j].key
  <2>1. job[j] \in Handling /\ key \in Keys /\ job[j].pc = "select"
    BY <1>7, Slots DEF SelectDelivery, At, Handling
  <2>2. UNCHANGED <<delivery, clock, history>> /\ Others(j)
    BY <1>7 DEF SelectDelivery, NextAccount, Goto, Others, TypeOK
  <2>3. LocksKept(j)
    BY <1>7, <2>1 DEF SelectDelivery, Grantable, LocksKept, TypeOK
  <2>4. CASE key \notin DOMAIN delivery
    BY <1>7, <2>1, <2>2, <2>3, <2>4 DEF SelectDelivery, Goto, Move, Handling, TypeOK
  <2>5. CASE key \in DOMAIN delivery /\ Skipped(delivery[key], job[j].current)
    BY <1>7, <2>1, <2>2, <2>3, <2>5
       DEF SelectDelivery, NextAccount, Move, Handling, TypeOK
  <2>6. CASE key \in DOMAIN delivery /\ ~Skipped(delivery[key], job[j].current)
    <3>1. job'[j].pc = "update" /\ SameAttempt(j)
      BY <1>7, <2>1, <2>6 DEF SelectDelivery, Goto, SameAttempt, Handling, TypeOK
    <3>. QED BY <1>7, <2>1, <2>2, <2>3, <2>6, <3>1 DEF SelectDelivery, Reserve, TypeOK
  <2>. QED BY <2>4, <2>5, <2>6
<1>8. ASSUME NEW j \in Jobs, InsertDelivery(j) PROVE Move(j) \/ Insert(j)
  <2> DEFINE key == job[j].key
  <2>1. job[j] \in Handling /\ key \in Keys /\ job[j].pc = "insert"
    BY <1>8, Slots DEF InsertDelivery, At, Handling
  <2>2. CASE key \in DOMAIN delivery
    BY <1>6, <1>8, <2>2 DEF InsertDelivery
  <2>3. CASE key \notin DOMAIN delivery
    <3>1. Others(j) /\ LocksKept(j) /\ job'[j].pc = "send" /\ SameAttempt(j)
      BY <1>8, <2>1, <2>3
         DEF InsertDelivery, Goto, ReleaseLocks, Others, LocksKept, SameAttempt,
             Handling, TypeOK
    <3>. QED BY <1>8, <2>1, <2>3, <3>1 DEF InsertDelivery, Insert
  <2>. QED BY <2>2, <2>3
<1>9. ASSUME NEW j \in Jobs, EndJob(j) \/ DeadlockAbort(j) \/ Crash(j)
      PROVE  Move(j)
  BY <1>6, <1>9 DEF EndJob, DeadlockAbort, Crash
<1>. QED BY <1>1, <1>2, <1>3, <1>4, <1>5, <1>7, <1>8, <1>9 DEF Next, Step

(* What the three steps that act on a row do, field by field. *)
LEMMA UpdateEffect ==
  ASSUME TypeOK, NEW j \in Jobs, UpdateDelivery(j),
         job[j].key \in DOMAIN delivery
  PROVE  /\ UNCHANGED <<clock, sends, inbox, lost>> /\ Others(j) /\ LocksKept(j)
         /\ job[j] \in Handling
         /\ job[j].pc = "update" /\ job'[j].pc = "send" /\ SameAttempt(j)
         /\ DOMAIN delivery' = DOMAIN delivery
         /\ \A k \in DOMAIN delivery \ {job[j].key} : delivery'[k] = delivery[k]
         /\ delivery'[job[j].key].status = "pending"
         /\ delivery'[job[j].key].attempts = delivery[job[j].key].attempts + 1
         /\ overran' \in {overran, overran \cup {job[j].key}}
         /\ (delivery[job[j].key].status = "pending"
               /\ delivery[job[j].key].attemptedAt + Lease <= clock) => job[j].key \in overran'
<1>1. job[j] \in Handling
  BY Slots DEF UpdateDelivery, At
<1>2. Others(j) /\ LocksKept(j)
  BY DEF UpdateDelivery, Goto, ReleaseLocks, Others, LocksKept, TypeOK
<1>3. job'[j].pc = "send" /\ SameAttempt(j)
  BY <1>1 DEF UpdateDelivery, Goto, SameAttempt, Handling, TypeOK
<1>. QED BY <1>1, <1>2, <1>3 DEF UpdateDelivery, At

LEMMA SendEffect ==
  ASSUME TypeOK, NEW j \in Jobs, Send(j)
  PROVE  /\ UNCHANGED <<delivery, rowLock, clock, overran>> /\ Others(j)
         /\ job[j].key \in Keys /\ job[j] \in Handling
         /\ job[j].pc = "send" /\ job'[j].pc = "record"
         /\ SameAttempt(j)
         /\ sends' = [sends EXCEPT ![job[j].key] = @ + 1]
         /\ \A k \in Keys \ {job[j].key} : inbox'[k] = inbox[k]
         /\ \/ inbox'[job[j].key] = inbox[job[j].key] /\ job'[j].answer # "ok" /\ lost' = lost
            \/ inbox'[job[j].key] = inbox[job[j].key] + 1 /\ job'[j].answer = "ok" /\ lost' = lost
            \/ inbox'[job[j].key] = inbox[job[j].key] + 1 /\ lost' = lost \cup {job[j].key}
<1>1. job[j] \in Handling /\ job[j].key \in Keys
  BY Slots DEF Send, At, Handling
<1>2. PICK answer \in {"ok", "error", "400", "403", "429"}, arrived \in BOOLEAN :
        /\ answer = "ok" => arrived
        /\ job' = [job EXCEPT ![j].pc = "record", ![j].answer = answer]
        /\ inbox' = IF arrived THEN [inbox EXCEPT ![job[j].key] = @ + 1] ELSE inbox
        /\ lost' = IF arrived /\ answer # "ok" THEN lost \cup {job[j].key} ELSE lost
  BY DEF Send
<1>3. /\ Others(j) /\ job'[j].pc = "record" /\ job'[j].answer = answer
      /\ SameAttempt(j)
  BY <1>1, <1>2 DEF Others, SameAttempt, TypeOK, Handling
<1>4. /\ \A k \in Keys \ {job[j].key} : inbox'[k] = inbox[k]
      /\ inbox'[job[j].key] = IF arrived THEN inbox[job[j].key] + 1 ELSE inbox[job[j].key]
  BY <1>1, <1>2 DEF TypeOK
<1>. QED BY <1>1, <1>2, <1>3, <1>4 DEF Send, At

LEMMA RecordEffect ==
  ASSUME TypeOK, NEW j \in Jobs, Record(j),
         job[j].key \in DOMAIN delivery
  PROVE  /\ UNCHANGED <<clock, history>> /\ Others(j) /\ LocksKept(j)
         /\ job[j] \in Handling /\ Grantable(j, job[j].key)
         /\ job[j].pc = "record" /\ job'[j].pc = "next"
         /\ job'[j].current = job[j].current
         /\ DOMAIN delivery' = DOMAIN delivery
         /\ \A k \in DOMAIN delivery \ {job[j].key} : delivery'[k] = delivery[k]
         /\ delivery'[job[j].key].status = IF job[j].answer = "ok" THEN "sent" ELSE "failed"
         /\ delivery'[job[j].key].attempts = delivery[job[j].key].attempts
<1>1. job[j] \in Handling
  BY Slots DEF Record, At
<1>2. PICK delay \in RetryDelays : delivery' = [delivery EXCEPT
        ![job[j].key].status = IF job[j].answer = "ok" THEN "sent" ELSE "failed",
        ![job[j].key].retryAfter =
          IF job[j].answer = "429" THEN job[j].current + delay ELSE @]
  BY DEF Record
<1>3. delivery[job[j].key] \in Delivery
  BY DEF TypeOK
<1>4. /\ DOMAIN delivery' = DOMAIN delivery
      /\ \A k \in DOMAIN delivery \ {job[j].key} : delivery'[k] = delivery[k]
      /\ delivery'[job[j].key].status = IF job[j].answer = "ok" THEN "sent" ELSE "failed"
      /\ delivery'[job[j].key].attempts = delivery[job[j].key].attempts
  BY <1>2, <1>3 DEF Delivery
<1>5. /\ Others(j) /\ LocksKept(j) /\ job'[j].pc = "next"
      /\ job'[j].current = job[j].current
  BY DEF Record, NextAccount, ReleaseLocks, Others, LocksKept, TypeOK
<1>. QED BY <1>1, <1>4, <1>5 DEF Record, At

------------------------------------------------------------------------------
(* Each part of the invariant is kept *)

LEMMA RowStep == TypeOK /\ RowInv /\ [Next]_vars => RowInv'
<1> SUFFICES ASSUME TypeOK, RowInv, [Next]_vars PROVE RowInv'
  OBVIOUS
<1>1. CASE Wait
  BY <1>1 DEF Wait, RowInv
<1>2. ASSUME NEW j \in Jobs, Move(j) PROVE RowInv'
  BY <1>2 DEF Move, Others, RowInv
<1>3. ASSUME NEW j \in Jobs, Reserve(j) PROVE RowInv'
  BY <1>3 DEF Reserve, SameAttempt, Others, RowInv
<1>4. ASSUME NEW j \in Jobs, Insert(j) PROVE RowInv'
  BY <1>4 DEF Insert, SameAttempt, Others, RowInv
<1>5. ASSUME NEW j \in Jobs, UpdateDelivery(j) PROVE RowInv'
  <2>1. job[j].key \in DOMAIN delivery
    BY <1>5 DEF RowInv, UpdateDelivery, At
  <2>. QED BY <1>5, <2>1, UpdateEffect DEF SameAttempt, Others, RowInv
<1>6. ASSUME NEW j \in Jobs, Send(j) PROVE RowInv'
  BY <1>6, SendEffect DEF SameAttempt, Others, RowInv
<1>7. ASSUME NEW j \in Jobs, Record(j) PROVE RowInv'
  <2>1. job[j].key \in DOMAIN delivery
    BY <1>7 DEF RowInv, Record, At
  <2>. QED BY <1>7, <2>1, RecordEffect DEF Others, RowInv
<1>. QED BY StepKinds, <1>1, <1>2, <1>3, <1>4, <1>5, <1>6, <1>7

LEMMA ClockStep == TypeOK /\ RowInv /\ ClockInv /\ [Next]_vars => ClockInv'
<1> SUFFICES ASSUME TypeOK, RowInv, ClockInv, [Next]_vars PROVE ClockInv'
  OBVIOUS
<1>0. clock \in Nat /\ \A j \in Jobs : job[j].pc # "idle" => job[j].current \in Nat
  BY Slots DEF TypeOK, At, Running, Handling
<1>1. CASE Wait
  BY <1>0, <1>1 DEF Wait, ClockInv
<1>2. ASSUME NEW j \in Jobs, Move(j) PROVE ClockInv'
  BY <1>0, <1>2 DEF Move, Others, ClockInv
<1>3. ASSUME NEW j \in Jobs, Reserve(j) PROVE ClockInv'
  BY <1>3 DEF Reserve, SameAttempt, Others, ClockInv
<1>4. ASSUME NEW j \in Jobs, Insert(j) PROVE ClockInv'
  BY <1>4 DEF Insert, SameAttempt, Others, ClockInv
<1>5. ASSUME NEW j \in Jobs, UpdateDelivery(j) PROVE ClockInv'
  <2>1. job[j].key \in DOMAIN delivery
    BY <1>5 DEF RowInv, UpdateDelivery, At
  <2>. QED BY <1>5, <2>1, UpdateEffect DEF SameAttempt, Others, ClockInv
<1>6. ASSUME NEW j \in Jobs, Send(j) PROVE ClockInv'
  BY <1>6, SendEffect DEF SameAttempt, Others, ClockInv
<1>7. ASSUME NEW j \in Jobs, Record(j) PROVE ClockInv'
  <2>1. job[j].key \in DOMAIN delivery
    BY <1>7 DEF RowInv, Record, At
  <2>. QED BY <1>7, <2>1, RecordEffect DEF Others, ClockInv
<1>. QED BY StepKinds, <1>1, <1>2, <1>3, <1>4, <1>5, <1>6, <1>7

LEMMA LockStep ==
  TypeOK /\ RowInv /\ LockInv /\ [Next]_vars => LockInv'
<1> SUFFICES ASSUME TypeOK, RowInv, LockInv, [Next]_vars,
                    NEW i \in Jobs, job'[i].pc = "update"
             PROVE  /\ rowLock'[job'[i].key] = i
                    /\ ~Skipped(delivery'[job'[i].key], job'[i].current)
  BY DEF LockInv, Skipped
<1>0. /\ Null \notin Jobs
      /\ job[i].pc = "update" =>
           /\ rowLock[job[i].key] = i /\ job[i].key \in DOMAIN delivery
           /\ job[i].key \in Keys
           /\ ~Skipped(delivery[job[i].key], job[i].current)
  BY Slots DEF RowInv, LockInv, Handling
<1>1. CASE Wait
  BY <1>0, <1>1 DEF Wait
<1>2. ASSUME NEW j \in Jobs, Move(j)
      PROVE  job[i].pc = "update" /\ job'[i] = job[i] /\ delivery' = delivery
             /\ rowLock'[job[i].key] = i
  BY <1>0, <1>2 DEF Move, Others, LocksKept
<1>3. ASSUME NEW j \in Jobs, Reserve(j)
      PROVE  /\ rowLock'[job'[i].key] = i
             /\ ~Skipped(delivery'[job'[i].key], job'[i].current)
  <2>1. CASE i = j
    BY <1>3, <2>1 DEF Reserve, SameAttempt
  <2>2. CASE i # j
    BY <1>0, <1>3, <2>2 DEF Reserve, Others, LocksKept
  <2>. QED BY <2>1, <2>2
<1>4. ASSUME NEW j \in Jobs, Insert(j)
      PROVE  job[i].pc = "update" /\ job'[i] = job[i]
             /\ delivery'[job[i].key] = delivery[job[i].key]
             /\ rowLock'[job[i].key] = i
  <2>1. i # j
    BY <1>4 DEF Insert
  <2>. QED BY <1>0, <1>4, <2>1 DEF Insert, Others, LocksKept
<1>5. ASSUME NEW j \in Jobs, UpdateDelivery(j)
      PROVE  job[i].pc = "update" /\ job'[i] = job[i]
             /\ delivery'[job[i].key] = delivery[job[i].key]
             /\ rowLock'[job[i].key] = i
  <2>1. job[j].key \in DOMAIN delivery /\ rowLock[job[j].key] = j
    BY <1>5 DEF RowInv, LockInv, UpdateDelivery, At
  <2>2. i # j
    BY <1>5, <2>1, UpdateEffect
  <2>. QED BY <1>0, <1>5, <2>1, <2>2, UpdateEffect DEF Others, LocksKept
<1>6. ASSUME NEW j \in Jobs, Send(j)
      PROVE  job[i].pc = "update" /\ job'[i] = job[i]
             /\ delivery' = delivery /\ rowLock' = rowLock
  BY <1>6, SendEffect DEF Others
<1>7. ASSUME NEW j \in Jobs, Record(j)
      PROVE  job[i].pc = "update" /\ job'[i] = job[i]
             /\ delivery'[job[i].key] = delivery[job[i].key]
             /\ rowLock'[job[i].key] = i
  <2>1. job[j].key \in DOMAIN delivery
    BY <1>7 DEF RowInv, Record, At
  <2>2. i # j
    BY <1>7, <2>1, RecordEffect
  <2>. QED BY <1>0, <1>7, <2>1, <2>2, RecordEffect DEF Others, LocksKept, Grantable
<1>. QED BY StepKinds, <1>0, <1>1, <1>2, <1>3, <1>4, <1>5, <1>6, <1>7

LEMMA SenderStep ==
  TypeOK /\ RowInv /\ LockInv /\ SenderInv /\ OneSenderWithinLease /\ [Next]_vars
    => SenderInv'
<1> SUFFICES ASSUME TypeOK, RowInv, LockInv, SenderInv, OneSenderWithinLease,
                    [Next]_vars, NEW i \in Jobs,
                    job'[i].pc \in {"send", "record"}, job'[i].key \notin overran'
             PROVE  delivery'[job'[i].key].status = "pending"
  BY DEF SenderInv, Sending
<1>0. (Sending(i) /\ job[i].key \notin overran)
        => job[i].key \in DOMAIN delivery /\ delivery[job[i].key].status = "pending"
  BY DEF SenderInv, RowInv, Sending
<1>1. CASE Wait
  BY <1>0, <1>1 DEF Wait, Sending, history
<1>2. ASSUME NEW j \in Jobs, Move(j) PROVE delivery'[job'[i].key].status = "pending"
  BY <1>0, <1>2 DEF Move, Others, Sending, history
<1>3. ASSUME NEW j \in Jobs, Reserve(j)
      PROVE  delivery'[job'[i].key].status = "pending"
  BY <1>0, <1>3 DEF Reserve, Others, Sending, history
<1>4. ASSUME NEW j \in Jobs, Insert(j)
      PROVE  delivery'[job'[i].key].status = "pending"
  BY <1>0, <1>4 DEF Insert, Others, SameAttempt, Sending, history
<1>5. ASSUME NEW j \in Jobs, UpdateDelivery(j)
      PROVE  delivery'[job'[i].key].status = "pending"
  <2>1. job[j].key \in DOMAIN delivery
    BY <1>5 DEF RowInv, UpdateDelivery, At
  <2>. QED BY <1>0, <1>5, <2>1, UpdateEffect DEF Others, SameAttempt, Sending
<1>6. ASSUME NEW j \in Jobs, Send(j)
      PROVE  delivery'[job'[i].key].status = "pending"
  BY <1>0, <1>6, SendEffect DEF Others, SameAttempt, Sending
<1>7. ASSUME NEW j \in Jobs, Record(j)
      PROVE  delivery'[job'[i].key].status = "pending"
  <2>1. job[j].key \in DOMAIN delivery
    BY <1>7 DEF RowInv, Record, At
  <2>2. i # j /\ job'[i] = job[i] /\ overran' = overran
    BY <1>7, <2>1, RecordEffect DEF Others, history
  <2>3. job[i].key # job[j].key
    BY <1>7, <2>1, <2>2, RecordEffect DEF OneSenderWithinLease, Sending
  <2>. QED BY <1>0, <1>7, <2>1, <2>2, <2>3, RecordEffect DEF Sending
<1>. QED BY StepKinds, <1>1, <1>2, <1>3, <1>4, <1>5, <1>6, <1>7

LEMMA OneSenderStep ==
  /\ TypeOK /\ RowInv /\ LockInv /\ ClockInv /\ SenderInv /\ OneSenderWithinLease
  /\ [Next]_vars
  => OneSenderWithinLease'
<1> SUFFICES ASSUME TypeOK, RowInv, LockInv, ClockInv, SenderInv,
                    OneSenderWithinLease, [Next]_vars
             PROVE  OneSenderWithinLease'
  OBVIOUS
<1>1. CASE Wait
  BY <1>1 DEF Wait, OneSenderWithinLease, Sending, history
<1>2. ASSUME NEW j \in Jobs, Move(j) PROVE OneSenderWithinLease'
  BY <1>2 DEF Move, Others, OneSenderWithinLease, Sending, history
<1>3. ASSUME NEW j \in Jobs, Reserve(j) PROVE OneSenderWithinLease'
  BY <1>3 DEF Reserve, Others, OneSenderWithinLease, Sending, history
<1>4. ASSUME NEW j \in Jobs, Insert(j) PROVE OneSenderWithinLease'
  <2>1. \A i \in Jobs \ {j} : Sending(i) => job[i].key # job[j].key
    BY <1>4 DEF Insert, RowInv, Sending
  <2>. QED BY <1>4, <2>1
           DEF Insert, Others, SameAttempt, OneSenderWithinLease, Sending, history
<1>5. ASSUME NEW j \in Jobs, UpdateDelivery(j) PROVE OneSenderWithinLease'
  <2> DEFINE key == job[j].key
  <2>1. key \in DOMAIN delivery /\ job[j].pc = "update" /\ job[j] \in Handling
    BY <1>5, Slots DEF RowInv, UpdateDelivery, At
  <2>2. delivery[key].status = "pending"
          => delivery[key].attemptedAt + Lease <= clock
    <3>1. ~Skipped(delivery[key], job[j].current) /\ job[j].current <= clock
      BY <2>1 DEF LockInv, ClockInv
    <3>2. /\ job[j].current \in Nat /\ clock \in Nat
          /\ delivery[key].attemptedAt \in Nat
      BY <2>1 DEF Handling, TypeOK, Delivery
    <3>. QED BY <3>1, <3>2 DEF Skipped
  <2>3. ASSUME NEW i \in Jobs \ {j}, Sending(i), job[i].key = key
        PROVE  key \in overran'
    <3>1. CASE key \in overran
      BY <1>5, <2>1, <3>1, UpdateEffect
    <3>2. CASE key \notin overran
      <4>1. delivery[key].status = "pending"
        BY <2>3, <3>2 DEF SenderInv
      <4>. QED BY <1>5, <2>1, <2>2, <4>1, UpdateEffect
    <3>. QED BY <3>1, <3>2
  <2>4. overran \subseteq overran'
    BY <1>5, <2>1, UpdateEffect
  <2>5. Others(j) /\ SameAttempt(j)
    BY <1>5, <2>1, UpdateEffect
  <2>. QED BY <2>3, <2>4, <2>5
           DEF Others, SameAttempt, OneSenderWithinLease, Sending
<1>6. ASSUME NEW j \in Jobs, Send(j) PROVE OneSenderWithinLease'
  BY <1>6, SendEffect DEF Others, SameAttempt, OneSenderWithinLease, Sending
<1>7. ASSUME NEW j \in Jobs, Record(j) PROVE OneSenderWithinLease'
  <2>1. job[j].key \in DOMAIN delivery
    BY <1>7 DEF RowInv, Record, At
  <2>. QED BY <1>7, <2>1, RecordEffect DEF Others, OneSenderWithinLease, Sending, history
<1>. QED BY StepKinds, <1>1, <1>2, <1>3, <1>4, <1>5, <1>6, <1>7

LEMMA InboxStep ==
  TypeOK /\ SafetyInv /\ [Next]_vars => InboxInv'
<1> DEFINE One(k) ==
      /\ inbox[k] \in {0, 1}
      /\ inbox[k] = 1 => k \in DOMAIN delivery /\ delivery[k].status # "failed"
      /\ \A j \in Jobs :
           (Sending(j) /\ job[j].key = k /\ (At(j, "send") \/ job[j].answer # "ok"))
             => inbox[k] = 0
<1> SUFFICES ASSUME TypeOK, SafetyInv, [Next]_vars,
                    NEW k \in Keys, k \notin lost' \cup overran'
             PROVE  One(k)'
  BY DEF InboxInv
<1> USE DEF SafetyInv
<1>1. CASE Wait
  BY <1>1 DEF Wait, InboxInv, Sending, At, history
<1>2. ASSUME NEW j \in Jobs, Move(j) PROVE One(k)'
  BY <1>2 DEF Move, Others, InboxInv, Sending, At, history
<1>3. ASSUME NEW j \in Jobs, Reserve(j) PROVE One(k)'
  BY <1>3 DEF Reserve, Others, InboxInv, Sending, At, history
<1>4. ASSUME NEW j \in Jobs, Insert(j) PROVE One(k)'
  <2>1. CASE k = job[j].key
    BY <1>4, <2>1 DEF Insert, InboxInv, history
  <2>2. CASE k # job[j].key
    BY <1>4, <2>2 DEF Insert, Others, SameAttempt, InboxInv, Sending, At, history
  <2>. QED BY <2>1, <2>2
<1>5. ASSUME NEW j \in Jobs, UpdateDelivery(j) PROVE One(k)'
  <2> DEFINE key == job[j].key
  <2>1. key \in DOMAIN delivery /\ job[j].pc = "update" /\ job[j] \in Handling
    BY <1>5, Slots DEF RowInv, UpdateDelivery, At
  <2>2. k \notin lost \cup overran /\ inbox' = inbox
    BY <1>5, <2>1, UpdateEffect
  <2>3. CASE k = key
    <3>1. delivery[key].status = "failed"
      <4>1. ~Skipped(delivery[key], job[j].current) /\ job[j].current <= clock
        BY <2>1 DEF LockInv, ClockInv
      <4>2. /\ job[j].current \in Nat /\ clock \in Nat
            /\ delivery[key] \in Delivery
        BY <2>1 DEF Handling, TypeOK
      <4>3. ~(delivery[key].status = "pending"
               /\ delivery[key].attemptedAt + Lease <= clock)
        BY <1>5, <2>1, <2>3, UpdateEffect
      <4>. QED BY <4>1, <4>2, <4>3 DEF Skipped, Delivery
    <3>2. inbox[k] = 0
      BY <2>2, <2>3, <3>1 DEF InboxInv
    <3>. QED BY <2>2, <3>2
  <2>4. CASE k # key
    BY <1>5, <2>1, <2>2, <2>4, UpdateEffect
       DEF Others, SameAttempt, InboxInv, Sending, At
  <2>. QED BY <2>3, <2>4
<1>6. ASSUME NEW j \in Jobs, Send(j) PROVE One(k)'
  <2> DEFINE key == job[j].key
  <2>1. k \notin lost \cup overran
    BY <1>6, SendEffect
  <2>2. CASE k = key
    <3>1. \A i \in Jobs \ {j} : ~(Sending(i) /\ job[i].key = k)
      BY <1>6, <2>1, <2>2, SendEffect DEF OneSenderWithinLease, Sending
    <3>2. inbox[k] = 0
      BY <1>6, <2>1, <2>2, SendEffect DEF InboxInv, Sending, At
    <3>3. k \in DOMAIN delivery /\ delivery[k].status = "pending"
      BY <1>6, <2>1, <2>2, SendEffect DEF SenderInv, RowInv, Sending
    <3>4. \/ inbox'[k] = 0
          \/ inbox'[k] = 1 /\ job'[j].answer = "ok"
      BY <1>6, <2>2, <3>2, SendEffect
    <3>. QED BY <1>6, <2>2, <3>1, <3>3, <3>4, SendEffect DEF Others, Sending, At
  <2>3. CASE k # key
    BY <1>6, <2>1, <2>3, SendEffect DEF Others, SameAttempt, InboxInv, Sending, At
  <2>. QED BY <2>2, <2>3
<1>7. ASSUME NEW j \in Jobs, Record(j) PROVE One(k)'
  <2> DEFINE key == job[j].key
  <2>1. key \in DOMAIN delivery
    BY <1>7 DEF RowInv, Record, At
  <2>2. k \notin lost \cup overran /\ inbox' = inbox
    BY <1>7, <2>1, RecordEffect DEF history
  <2>3. One(k)
    BY <2>2 DEF InboxInv
  <2>4. k = key /\ job[j].answer # "ok" => inbox[k] = 0
    BY <1>7, <2>1, <2>3, RecordEffect DEF Sending
  <2>5. inbox'[k] = 1 => k \in DOMAIN delivery' /\ delivery'[k].status # "failed"
    BY <1>7, <2>1, <2>2, <2>3, <2>4, RecordEffect
  <2>6. \A i \in Jobs : Sending(i)' => i # j /\ job'[i] = job[i]
    BY <1>7, <2>1, RecordEffect DEF Others, Sending
  <2>. QED BY <2>2, <2>3, <2>5, <2>6 DEF Sending, At
<1>. QED BY StepKinds, <1>1, <1>2, <1>3, <1>4, <1>5, <1>6, <1>7

LEMMA AttemptingFinite ==
  ASSUME NEW k
  PROVE  IsFiniteSet(Attempting(k)) /\ Cardinality(Attempting(k)) \in Nat
<1>1. Attempting(k) \subseteq Jobs
  BY DEF Attempting
<1>2. IsFiniteSet(Attempting(k))
  BY <1>1, FS_Subset
<1>. QED BY <1>2, FS_CardinalityType

(* A step that makes no job an attempting one, and calls nothing. *)
LEMMA CallsKept ==
  ASSUME TypeOK, CallsInv, sends' = sends, NEW k \in Keys,
         Attempting(k)' \subseteq Attempting(k),
         k \in DOMAIN delivery' <=> k \in DOMAIN delivery,
         k \in DOMAIN delivery => delivery'[k].attempts = delivery[k].attempts
  PROVE  IF k \in DOMAIN delivery'
           THEN /\ sends'[k] + Cardinality(Attempting(k)') <= delivery'[k].attempts
                /\ delivery'[k].attempts <= MaxAttempts
           ELSE sends'[k] = 0
<1>1. /\ Cardinality(Attempting(k)') \in Nat /\ Cardinality(Attempting(k)) \in Nat
      /\ Cardinality(Attempting(k)') <= Cardinality(Attempting(k))
  <2>1. IsFiniteSet(Attempting(k))
    BY AttemptingFinite
  <2>2. IsFiniteSet(Attempting(k)')
    BY <2>1, FS_Subset
  <2>. QED BY <2>1, <2>2, FS_Subset, FS_CardinalityType
<1>2. sends[k] \in Nat /\ (k \in DOMAIN delivery => delivery[k].attempts \in Nat)
  BY DEF TypeOK, Delivery
<1>. QED BY <1>1, <1>2 DEF CallsInv

LEMMA CallsStep ==
  TypeOK /\ RowInv /\ LockInv /\ CallsInv /\ [Next]_vars => CallsInv'
<1> DEFINE Counted(k) ==
      IF k \in DOMAIN delivery
        THEN /\ sends[k] + Cardinality(Attempting(k)) <= delivery[k].attempts
             /\ delivery[k].attempts <= MaxAttempts
        ELSE sends[k] = 0
<1> SUFFICES ASSUME TypeOK, RowInv, LockInv, CallsInv, [Next]_vars, NEW k \in Keys
             PROVE  Counted(k)'
  BY DEF CallsInv
<1>0. /\ Counted(k) /\ sends[k] \in Nat
      /\ k \in DOMAIN delivery => delivery[k].attempts \in Nat
      /\ IsFiniteSet(Attempting(k)) /\ Cardinality(Attempting(k)) \in Nat
  BY AttemptingFinite DEF CallsInv, TypeOK, Delivery
<1>1. CASE Wait
  <2>1. Attempting(k)' = Attempting(k)
    BY <1>1 DEF Wait, Attempting
  <2>. QED BY <1>0, <1>1, <2>1 DEF Wait, history
<1>2. ASSUME NEW j \in Jobs, Move(j) PROVE Counted(k)'
  <2>1. Attempting(k)' \subseteq Attempting(k)
    BY <1>2 DEF Move, Others, Attempting
  <2>. QED BY <1>2, <2>1, CallsKept DEF Move, history
<1>3. ASSUME NEW j \in Jobs, Reserve(j) PROVE Counted(k)'
  <2>1. Attempting(k)' \subseteq Attempting(k)
    BY <1>3 DEF Reserve, Others, Attempting
  <2>. QED BY <1>3, <2>1, CallsKept DEF Reserve, history
<1>4. ASSUME NEW j \in Jobs, Insert(j) PROVE Counted(k)'
  <2>1. CASE k = job[j].key
    <3>1. Attempting(k)' = {j}
      BY <1>4, <2>1 DEF Insert, Others, SameAttempt, RowInv, Attempting
    <3>2. Cardinality({j}) = 1
      BY FS_Singleton
    <3>. QED BY <1>0, <1>4, <2>1, <3>1, <3>2 DEF Insert, history
  <2>2. CASE k # job[j].key
    <3>1. Attempting(k)' \subseteq Attempting(k)
      BY <1>4, <2>2 DEF Insert, Others, SameAttempt, Attempting
    <3>. QED BY <1>4, <2>2, <3>1, CallsKept DEF Insert, history
  <2>. QED BY <2>1, <2>2
<1>5. ASSUME NEW j \in Jobs, UpdateDelivery(j) PROVE Counted(k)'
  <2>1. job[j].key \in DOMAIN delivery /\ job[j].pc = "update"
    BY <1>5 DEF RowInv, UpdateDelivery, At
  <2>2. CASE k = job[j].key
    <3>1. Attempting(k)' = Attempting(k) \cup {j} /\ j \notin Attempting(k)
      BY <1>5, <2>1, <2>2, UpdateEffect DEF Others, SameAttempt, Attempting
    <3>2. Cardinality(Attempting(k)') = Cardinality(Attempting(k)) + 1
      BY <1>0, <3>1, FS_AddElement
    <3>3. ~(delivery[k].attempts >= MaxAttempts)
      BY <2>1, <2>2 DEF LockInv, Skipped
    <3>. QED BY <1>0, <1>5, <2>1, <2>2, <3>2, <3>3, UpdateEffect
  <2>3. CASE k # job[j].key
    <3>1. Attempting(k)' \subseteq Attempting(k)
      BY <1>5, <2>1, <2>3, UpdateEffect DEF Others, SameAttempt, Attempting
    <3>. QED BY <1>5, <2>1, <2>3, <3>1, UpdateEffect, CallsKept
  <2>. QED BY <2>2, <2>3
<1>6. ASSUME NEW j \in Jobs, Send(j) PROVE Counted(k)'
  <2>1. job[j].key \in DOMAIN delivery
    BY <1>6 DEF RowInv, Send, At
  <2>2. CASE k = job[j].key
    <3>1. Attempting(k)' = Attempting(k) \ {j} /\ j \in Attempting(k)
      BY <1>6, <2>2, SendEffect DEF Others, SameAttempt, Attempting
    <3>2. Cardinality(Attempting(k)') = Cardinality(Attempting(k)) - 1
      BY <1>0, <3>1, FS_RemoveElement
    <3>3. sends'[k] = sends[k] + 1 /\ delivery' = delivery
      BY <1>6, <2>2, SendEffect DEF TypeOK
    <3>. QED BY <1>0, <2>1, <2>2, <3>2, <3>3
  <2>3. CASE k # job[j].key
    <3>1. Attempting(k)' = Attempting(k)
      BY <1>6, <2>3, SendEffect DEF Others, SameAttempt, Attempting
    <3>2. sends'[k] = sends[k] /\ delivery' = delivery
      BY <1>6, <2>3, SendEffect DEF TypeOK
    <3>. QED BY <1>0, <3>1, <3>2
  <2>. QED BY <2>2, <2>3
<1>7. ASSUME NEW j \in Jobs, Record(j) PROVE Counted(k)'
  <2>1. job[j].key \in DOMAIN delivery
    BY <1>7 DEF RowInv, Record, At
  <2>2. Attempting(k)' \subseteq Attempting(k)
    BY <1>7, <2>1, RecordEffect DEF Others, Attempting
  <2>3. k \in DOMAIN delivery => delivery'[k].attempts = delivery[k].attempts
    BY <1>7, <2>1, RecordEffect
  <2>. QED BY <1>7, <2>1, <2>2, <2>3, RecordEffect, CallsKept DEF history
<1>. QED BY StepKinds, <1>1, <1>2, <1>3, <1>4, <1>5, <1>6, <1>7

------------------------------------------------------------------------------
(* The theorems *)

LEMMA SafetyCorrect == Spec => []SafetyInv
<1>1. Init => SafetyInv
  BY DEF Init, Idle, SafetyInv, RowInv, LockInv, ClockInv, SenderInv,
         OneSenderWithinLease, InboxInv, Sending, At
<1>2. TypeOK /\ SafetyInv /\ [Next]_vars => SafetyInv'
  BY RowStep, ClockStep, LockStep, SenderStep, OneSenderStep, InboxStep DEF SafetyInv
<1>. QED BY <1>1, <1>2, TypeCorrect, PTL DEF Spec

(* The API is called at most MaxAttempts times for an account and a date,   *)
(* and every call was committed as an attempt before: SendsBounded.         *)
THEOREM CallsBounded == Spec => []SendsBounded
<1>1. Init => CallsInv
  BY DEF Init, CallsInv
<1>2. SafetyInv => RowInv /\ LockInv
  BY DEF SafetyInv
<1>3. TypeOK /\ CallsInv => SendsBounded
  <2> SUFFICES ASSUME TypeOK, CallsInv, NEW k \in Keys, k \in DOMAIN delivery
               PROVE  sends[k] <= delivery[k].attempts
    BY DEF CallsInv, SendsBounded
  <2>1. /\ sends[k] \in Nat /\ delivery[k].attempts \in Nat
        /\ Cardinality(Attempting(k)) \in Nat
    BY AttemptingFinite DEF TypeOK, Delivery
  <2>. QED BY <2>1 DEF CallsInv
<1>. QED BY <1>1, <1>2, <1>3, CallsStep, SafetyCorrect, TypeCorrect, PTL DEF Spec

(* Two jobs hold an attempt for one digest at the same time only after an   *)
(* attempt outlived its lease.                                              *)
THEOREM OneSender == Spec => []OneSenderWithinLease
<1>1. SafetyInv => OneSenderWithinLease
  BY DEF SafetyInv
<1>. QED BY <1>1, SafetyCorrect, PTL

(* A chat gets a second digest of one date only after the answer to a       *)
(* delivered one was lost or an attempt outlived its lease.                 *)
THEOREM DuplicatesExplained == Spec => []DuplicateOnlyByLossOrOverrun
<1>1. SafetyInv /\ TypeOK => DuplicateOnlyByLossOrOverrun
  BY DEF SafetyInv, InboxInv, DuplicateOnlyByLossOrOverrun
<1>. QED BY <1>1, SafetyCorrect, TypeCorrect, PTL

(* Within the lease a delivery that is sent stays sent.                     *)
THEOREM SentStaysSent == Spec => SentIsFinal
<1> DEFINE Final == \A k \in DOMAIN delivery :
      (delivery[k].status = "sent" /\ k \notin overran) => delivery'[k].status = "sent"
<1>1. TypeOK /\ SafetyInv /\ [Next]_vars => [Final]_vars
  <2> SUFFICES ASSUME TypeOK, SafetyInv, [Next]_vars, NEW k \in DOMAIN delivery,
                      delivery[k].status = "sent", k \notin overran
               PROVE  delivery'[k].status = "sent"
    OBVIOUS
  <2>1. ASSUME NEW j \in Jobs, UpdateDelivery(j)
        PROVE  delivery'[k] = delivery[k]
    <3>1. job[j].key \in DOMAIN delivery /\ job[j].key # k
      BY <2>1 DEF SafetyInv, RowInv, LockInv, Skipped, UpdateDelivery, At
    <3>. QED BY <2>1, <3>1, UpdateEffect
  <2>2. ASSUME NEW j \in Jobs, Record(j)
        PROVE  delivery'[k] = delivery[k]
    <3>1. job[j].key \in DOMAIN delivery /\ job[j].key # k
      BY <2>2 DEF SafetyInv, RowInv, SenderInv, Sending, Record, At
    <3>. QED BY <2>2, <3>1, RecordEffect
  <2>. QED BY StepKinds, SendEffect, <2>1, <2>2 DEF Wait, Move, Reserve, Insert
<1>. QED BY <1>1, SafetyCorrect, TypeCorrect, PTL DEF Spec, SentIsFinal

==============================================================================
