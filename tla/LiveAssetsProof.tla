---------------------------- MODULE LiveAssetsProof ----------------------------
(***************************************************************************)
(* Theorems about LiveAssets, for any addresses, callers, tasks and bounds  *)
(* its assumptions allow. The first part says what the operations of the    *)
(* cache do to its entries (Removing, Adding, Popping, Getting, Putting);   *)
(* the second proves the invariant LInv, action by action.                  *)
(***************************************************************************)
EXTENDS LiveAssets, TLAPS, FiniteSetTheorems, SequenceTheorems

CacheLike(s) ==
  /\ s \in Seq(Entry)
  /\ \A i, j \in DOMAIN s : i # j => s[i].key # s[j].key

(* Dropping an entry keeps the order and the entries of the others.         *)
LEMMA Removing ==
  ASSUME NEW s, CacheLike(s), NEW i \in DOMAIN s
  PROVE  /\ CacheLike(RemoveAt(s, i))
         /\ Len(RemoveAt(s, i)) = Len(s) - 1
         /\ \A m \in DOMAIN RemoveAt(s, i) :
              \E n \in DOMAIN s \ {i} : RemoveAt(s, i)[m] = s[n]
<1> DEFINE l == SubSeq(s, 1, i - 1)
           r == SubSeq(s, i + 1, Len(s))
<1>1. Len(s) \in Nat /\ DOMAIN s = 1 .. Len(s) /\ i \in 1 .. Len(s)
      /\ \A n \in 1 .. Len(s) : s[n] \in Entry
  BY LenProperties, ElementOfSeq DEF CacheLike
<1>2. /\ l \in Seq(Entry) /\ Len(l) = i - 1
      /\ \A n \in 1 .. i - 1 : l[n] = s[n]
  <2>1. \A n \in 1 .. i - 1 : s[n] \in Entry  BY <1>1
  <2>2. Len(l) = IF 1 <= i - 1 THEN i - 1 - 1 + 1 ELSE 0
    BY <2>1, <1>1, SubSeqProperties
  <2>3. l \in Seq(Entry) /\ \A n \in 1 .. (i - 1) - 1 + 1 : l[n] = s[1 + n - 1]
    BY <2>1, <1>1, SubSeqProperties
  <2> QED  BY <2>2, <2>3, <1>1
<1>3. /\ r \in Seq(Entry) /\ Len(r) = Len(s) - i
      /\ \A n \in 1 .. Len(s) - i : r[n] = s[i + n]
  <2>1. \A n \in i + 1 .. Len(s) : s[n] \in Entry  BY <1>1
  <2>2. Len(r) = IF i + 1 <= Len(s) THEN Len(s) - (i + 1) + 1 ELSE 0
    BY <2>1, <1>1, SubSeqProperties
  <2>3. r \in Seq(Entry) /\ \A n \in 1 .. Len(s) - (i + 1) + 1 : r[n] = s[i + 1 + n - 1]
    BY <2>1, <1>1, SubSeqProperties
  <2> QED  BY <2>2, <2>3, <1>1
<1> DEFINE q == RemoveAt(s, i)
<1>4. /\ q \in Seq(Entry) /\ Len(q) = Len(s) - 1
      /\ \A m \in 1 .. Len(s) - 1 : q[m] = IF m <= i - 1 THEN l[m] ELSE r[m - (i - 1)]
  <2>1. q = l \o r  BY DEF RemoveAt
  <2> HIDE DEF l, r, q
  <2>2. /\ l \o r \in Seq(Entry) /\ Len(l \o r) = Len(l) + Len(r)
        /\ \A m \in 1 .. Len(l) + Len(r) :
             (l \o r)[m] = IF m <= Len(l) THEN l[m] ELSE r[m - Len(l)]
    BY <1>2, <1>3, ConcatProperties
  <2>3. Len(l) = i - 1 /\ Len(l) + Len(r) = Len(s) - 1  BY <1>1, <1>2, <1>3
  <2> QED  BY <2>1, <2>2, <2>3
<1> HIDE DEF l, r, q
<1>5. ASSUME NEW m \in 1 .. Len(s) - 1
      PROVE  q[m] = s[IF m <= i - 1 THEN m ELSE m + 1]
  <2>1. CASE m <= i - 1
    <3>1. m \in 1 .. i - 1  BY <2>1, <1>1
    <3> QED  BY <2>1, <3>1, <1>2, <1>4
  <2>2. CASE ~ m <= i - 1
    <3>1. m - (i - 1) \in 1 .. Len(s) - i /\ i + (m - (i - 1)) = m + 1  BY <2>2, <1>1
    <3> QED  BY <2>2, <3>1, <1>3, <1>4
  <2> QED  BY <2>1, <2>2
<1>6. DOMAIN q = 1 .. Len(s) - 1  BY <1>4, LenProperties
<1>7. \A m, n \in DOMAIN q : m # n => q[m].key # q[n].key
  <2> SUFFICES ASSUME NEW m \in DOMAIN q, NEW n \in DOMAIN q, m # n
               PROVE  q[m].key # q[n].key
    OBVIOUS
  <2> DEFINE up(x) == IF x <= i - 1 THEN x ELSE x + 1
  <2>1. up(m) \in DOMAIN s /\ up(n) \in DOMAIN s /\ up(m) # up(n)  BY <1>1, <1>6
  <2> QED  BY <2>1, <1>5, <1>6 DEF CacheLike
<1>8. ASSUME NEW m \in DOMAIN q PROVE \E n \in DOMAIN s \ {i} : q[m] = s[n]
  <2>1. (IF m <= i - 1 THEN m ELSE m + 1) \in DOMAIN s \ {i}  BY <1>1, <1>6
  <2> QED  BY <2>1, <1>5, <1>6
<1> QED  BY <1>4, <1>7, <1>8 DEF CacheLike, q

LEMMA Adding ==
  ASSUME NEW s, CacheLike(s), NEW e \in Entry, \A i \in DOMAIN s : s[i].key # e.key
  PROVE  /\ CacheLike(Append(s, e))
         /\ Len(Append(s, e)) = Len(s) + 1
         /\ \A m \in DOMAIN Append(s, e) :
              Append(s, e)[m] = e \/ \E n \in DOMAIN s : Append(s, e)[m] = s[n]
<1> DEFINE q == Append(s, e)
<1>1. /\ q \in Seq(Entry) /\ Len(q) = Len(s) + 1
      /\ \A i \in 1 .. Len(s) : q[i] = s[i]
      /\ q[Len(s) + 1] = e
  BY AppendProperties DEF CacheLike
<1>2. Len(s) \in Nat /\ DOMAIN s = 1 .. Len(s) /\ DOMAIN q = 1 .. Len(s) + 1
  BY <1>1, LenProperties DEF CacheLike
<1> HIDE DEF q
<1>3. \A m \in DOMAIN q : (m = Len(s) + 1 /\ q[m] = e) \/ (m \in DOMAIN s /\ q[m] = s[m])
  BY <1>1, <1>2
<1>4. \A m, n \in DOMAIN q : m # n => q[m].key # q[n].key
  BY <1>3 DEF CacheLike
<1> QED  BY <1>1, <1>3, <1>4 DEF CacheLike, q

LEMMA Popping ==
  ASSUME TypeOK, NEW k \in Keys
  PROVE  /\ CacheLike(Without(k))
         /\ Len(Without(k)) <= Len(cache)
         /\ (\E i \in DOMAIN cache : cache[i].key = k) => Len(Without(k)) = Len(cache) - 1
         /\ ToSet(Without(k)) \subseteq {e \in ToSet(cache) : e.key # k}
<1>1. CacheLike(cache) /\ Len(cache) \in Nat  BY LenProperties DEF TypeOK, CacheLike
<1>2. CASE \E i \in DOMAIN cache : cache[i].key = k
  <2> DEFINE i == CHOOSE j \in DOMAIN cache : cache[j].key = k
  <2>1. i \in DOMAIN cache /\ cache[i].key = k  BY <1>2
  <2>2. Without(k) = RemoveAt(cache, i)  BY <1>2 DEF Without
  <2> HIDE DEF i
  <2>3. ASSUME NEW m \in DOMAIN RemoveAt(cache, i)
        PROVE  RemoveAt(cache, i)[m] \in {e \in ToSet(cache) : e.key # k}
    <3>1. PICK n \in DOMAIN cache \ {i} : RemoveAt(cache, i)[m] = cache[n]
      BY <1>1, <2>1, Removing
    <3> QED  BY <3>1, <1>1, <2>1 DEF CacheLike, ToSet
  <2> QED  BY <2>1, <2>2, <2>3, <1>1, Removing DEF ToSet
<1>3. CASE ~ \E i \in DOMAIN cache : cache[i].key = k
  BY <1>3, <1>1 DEF Without, ToSet
<1> QED  BY <1>2, <1>3

(* What both operations on the cache keep.                                  *)
CacheKept(s) ==
  /\ s \in Seq(Entry)
  /\ Len(s) <= CacheMax
  /\ \A i, j \in DOMAIN s : i # j => s[i].key # s[j].key

LEMMA Getting ==
  ASSUME TypeOK, NEW k \in Keys
  PROVE  CacheKept(CacheAfterGet(k)) /\ ToSet(CacheAfterGet(k)) \subseteq ToSet(cache)
<1>0. Len(cache) \in Nat /\ Len(cache) <= CacheMax /\ CacheMax \in Nat
  BY LiveAssetsAssumption, LenProperties DEF TypeOK
<1>a. Len(Without(k)) \in Nat  BY Popping, LenProperties DEF CacheLike
<1>1. CASE Fresh(k) = {}
  <2>1. CacheAfterGet(k) = Without(k)  BY <1>1 DEF CacheAfterGet
  <2> QED  BY <2>1, <1>0, <1>a, Popping DEF CacheLike, CacheKept
<1>2. CASE Fresh(k) # {}
  <2> DEFINE e == CHOOSE x \in Fresh(k) : TRUE
  <2>1. e \in ToSet(cache) /\ e.key = k  BY <1>2 DEF Fresh
  <2>2. CacheAfterGet(k) = Append(Without(k), e)  BY <1>2 DEF CacheAfterGet
  <2> HIDE DEF e
  <2>3. e \in Entry /\ \E i \in DOMAIN cache : cache[i].key = k
    BY <2>1, LenProperties, ElementOfSeq DEF ToSet, TypeOK
  <2>4. \A i \in DOMAIN Without(k) : Without(k)[i].key # e.key
    BY <2>1, Popping DEF ToSet
  <2>5. CacheLike(Append(Without(k), e)) /\ Len(Append(Without(k), e)) = Len(cache)
    BY <2>3, <2>4, <1>0, Popping, Adding
  <2>6. ASSUME NEW m \in DOMAIN Append(Without(k), e)
        PROVE  Append(Without(k), e)[m] \in ToSet(cache)
    BY <2>1, <2>3, <2>4, <2>6, Popping, Adding DEF ToSet
  <2> QED  BY <2>2, <2>5, <2>6, <1>0 DEF CacheLike, CacheKept, ToSet
<1> QED  BY <1>1, <1>2

LEMMA Putting ==
  ASSUME TypeOK, NEW k \in Keys
  PROVE  /\ CacheKept(CacheAfterPut(k))
         /\ \A e \in ToSet(CacheAfterPut(k)) : e.key = k \/ e \in ToSet(cache)
<1> DEFINE e == [key |-> k, at |-> clock]
           full == Append(Without(k), e)
           rest == SubSeq(full, Len(full) - CacheMax + 1, Len(full))
<1>0. CacheMax \in Nat \ {0} /\ e \in Entry /\ e.key = k
  BY LiveAssetsAssumption DEF TypeOK, Entry
<1> HIDE DEF e
<1>1. \A i \in DOMAIN Without(k) : Without(k)[i].key # e.key
  BY <1>0, Popping DEF ToSet
<1>2. CacheLike(full)  BY <1>0, <1>1, Popping, Adding
<1>3. ASSUME NEW m \in DOMAIN full PROVE full[m].key = k \/ full[m] \in ToSet(cache)
  BY <1>0, <1>1, Popping, Adding DEF ToSet
<1> HIDE DEF full
<1>4. Len(full) \in Nat /\ DOMAIN full = 1 .. Len(full) /\ \A i \in 1 .. Len(full) : full[i] \in Entry
  BY <1>2, LenProperties, ElementOfSeq DEF CacheLike
<1>5. CASE Len(full) > CacheMax
  <2>1. CacheAfterPut(k) = rest  BY <1>5 DEF CacheAfterPut, full, e
  <2> DEFINE d == Len(full) - CacheMax
  <2>2. d \in Nat /\ d + 1 \in Int /\ d + CacheMax = Len(full)  BY <1>0, <1>4, <1>5
  <2>3. \A i \in d + 1 .. Len(full) : full[i] \in Entry  BY <2>2, <1>4
  <2>4. Len(rest) = IF d + 1 <= Len(full) THEN Len(full) - (d + 1) + 1 ELSE 0
    BY <2>2, <2>3, <1>4, SubSeqProperties
  <2>5. rest \in Seq(Entry) /\ \A i \in 1 .. Len(full) - (d + 1) + 1 : rest[i] = full[d + 1 + i - 1]
    BY <2>2, <2>3, <1>4, SubSeqProperties
  <2> HIDE DEF d, rest
  <2>6. Len(rest) = CacheMax /\ DOMAIN rest = 1 .. CacheMax
        /\ \A i \in 1 .. CacheMax : rest[i] = full[d + i] /\ d + i \in DOMAIN full
    BY <2>2, <2>4, <2>5, <1>0, <1>4, LenProperties
  <2>7. \A i, j \in DOMAIN rest : i # j => rest[i].key # rest[j].key
    BY <2>2, <2>6, <1>0, <1>2 DEF CacheLike
  <2> QED  BY <2>1, <2>5, <2>6, <2>7, <1>0, <1>3 DEF CacheKept, ToSet
<1>6. CASE ~ Len(full) > CacheMax
  <2>1. CacheAfterPut(k) = full  BY <1>6 DEF CacheAfterPut, full, e
  <2> QED  BY <2>1, <1>0, <1>2, <1>3, <1>4, <1>6 DEF CacheKept, CacheLike, ToSet
<1> QED  BY <1>5, <1>6

------------------------------------------------------------------------------
(* The inductive invariant *)

Fetching == {t \in Tasks : task[t].pc = "fetch"}
Live == {"start", "queue", "fetch"}

(* The table leads to a task of the address whose callback has not run.     *)
TableInv ==
  \A k \in Keys : inflight[k] # Null =>
    /\ task[inflight[k]].pc \in Live \cup {"done"}
    /\ task[inflight[k]].key = k

(* A payload is handed over in the instant it was stored.                   *)
DoneInv ==
  \A t \in Tasks :
    task[t].pc = "done" /\ task[t].answer.kind = "payload" => task[t].answer.at = clock

(* A request waits for a task that is there, and once the callback of that  *)
(* task has run, its payload is young enough for the request.               *)
WaitersInv ==
  \A c \in Callers : caller[c].pc = "wait" =>
    /\ task[caller[c].task].pc # "none"
    /\ caller[c].since <= clock
    /\ (task[caller[c].task].pc = "removed" /\ task[caller[c].task].answer.kind = "payload")
         => caller[c].since < task[caller[c].task].answer.at + TTL

LInv ==
  /\ TypeOK
  /\ IsFiniteSet(Fetching) /\ SlotsConserved
  /\ SingleFlight
  /\ NoFreshEntryBesideLookup
  /\ TableInv
  /\ DoneInv
  /\ WaitersInv
  /\ AnswersAreFresh

LEMMA Shapes ==
  ASSUME TypeOK
  PROVE  /\ \A t \in Tasks :
              /\ task[t].pc \in {"none", "done", "removed"} \cup Live
              /\ task[t].pc = "none" => task[t] = NoTask
              /\ task[t].pc \in Live => task[t] \in LiveTask /\ task[t].key \in Keys
              /\ task[t].pc \in {"done", "removed"} =>
                   /\ task[t] \in DoneTask /\ task[t].key \in Keys
                   /\ task[t].answer \in Answer
         /\ \A c \in Callers :
              /\ caller[c].pc \in {"idle", "wait", "answer"}
              /\ caller[c].pc = "wait" =>
                   /\ caller[c] \in Waiting
                   /\ caller[c].task \in Tasks /\ caller[c].since \in 0 .. MaxClock
              /\ caller[c].pc = "answer" =>
                   /\ caller[c] \in Answered
                   /\ caller[c].answer \in Answer /\ caller[c].since \in 0 .. MaxClock
         /\ clock \in Nat /\ TTL \in Nat \ {0} /\ NoTask.pc = "none" /\ NoCall.pc = "idle"
<1>1. \A t \in Tasks : task[t] \in {NoTask} \cup LiveTask \cup DoneTask  BY DEF TypeOK
<1>2. \A c \in Callers : caller[c] \in {NoCall} \cup Waiting \cup Answered  BY DEF TypeOK
<1>3. clock \in Nat /\ TTL \in Nat \ {0}  BY LiveAssetsAssumption DEF TypeOK
<1> QED  BY <1>1, <1>2, <1>3 DEF NoTask, LiveTask, DoneTask, NoCall, Waiting, Answered, Live

LEMMA InitInv == ASSUME Init PROVE LInv
<1>1. Fetching = {}  BY DEF Init, Fetching, NoTask
<1>2. cache \in Seq(Entry) /\ Len(cache) = 0 /\ DOMAIN cache = {}
  BY EmptySeq, LenProperties DEF Init
<1>3. TypeOK
  BY <1>2, LiveAssetsAssumption DEF Init, TypeOK
<1>4. IsFiniteSet(Fetching) /\ SlotsConserved
  <2>1. IsFiniteSet(Fetching) /\ Cardinality(Fetching) = 0  BY <1>1, FS_EmptySet
  <2>2. free + Cardinality(Fetching) = Slots  BY <2>1, LiveAssetsAssumption DEF Init
  <2> QED  BY <2>1, <2>2 DEF SlotsConserved, Fetching
<1> QED
  BY <1>3, <1>4, LiveAssetsAssumption
  DEF Init, LInv, SingleFlight, NoFreshEntryBesideLookup, Unfinished, TableInv, DoneInv,
      WaitersInv, AnswersAreFresh, NoTask, NoCall

(* Of a step that only moves requests on, three parts say nothing new.      *)
LEMMA RequestSteps ==
  ASSUME LInv, UNCHANGED <<inflight, free, task, clock>>,
         CacheKept(cache'), ToSet(cache') \subseteq ToSet(cache),
         caller' \in [Callers -> {NoCall} \cup Waiting \cup Answered]
  PROVE  /\ TypeOK' /\ IsFiniteSet(Fetching') /\ SlotsConserved' /\ SingleFlight'
         /\ NoFreshEntryBesideLookup' /\ TableInv' /\ DoneInv'
<1>1. TypeOK'  BY DEF LInv, TypeOK, CacheKept
<1>2. IsFiniteSet(Fetching') /\ SlotsConserved' /\ SingleFlight' /\ TableInv' /\ DoneInv'
  BY DEF LInv, Fetching, SlotsConserved, SingleFlight, Unfinished, TableInv, DoneInv
<1>3. NoFreshEntryBesideLookup'
  BY DEF LInv, NoFreshEntryBesideLookup, Unfinished, Fresh
<1> QED  BY <1>1, <1>2, <1>3

LEMMA SameCache == ASSUME TypeOK, UNCHANGED cache
                   PROVE CacheKept(cache') /\ ToSet(cache') \subseteq ToSet(cache)
BY DEF TypeOK, CacheKept

LEMMA GetAnswerStep == ASSUME LInv, NEW c \in Callers, GetAnswer(c) PROVE LInv'
<1> DEFINE t == caller[c].task
           given == [pc |-> "answer", answer |-> task[t].answer, since |-> caller[c].since]
<1>0. TypeOK  BY DEF LInv
<1>1. /\ caller[c].pc = "wait" /\ task[t].pc \in {"done", "removed"}
      /\ caller' = [caller EXCEPT ![c] = given]
      /\ UNCHANGED <<cache, inflight, free, task, clock>>
  BY DEF GetAnswer
<1>2. /\ t \in Tasks /\ caller[c].since \in 0 .. MaxClock /\ task[t].answer \in Answer
  BY <1>0, <1>1, Shapes
<1>3. given \in Answered  BY <1>2 DEF Answered
<1>4. caller' \in [Callers -> {NoCall} \cup Waiting \cup Answered]
  BY <1>0, <1>1, <1>3 DEF TypeOK
<1>5. given.answer.kind = "payload" => given.since < given.answer.at + TTL
  <2> HAVE given.answer.kind = "payload"
  <2>1. CASE task[t].pc = "done"
    BY <2>1, <1>1, <1>2, <1>0, Shapes DEF LInv, DoneInv, WaitersInv
  <2>2. CASE task[t].pc = "removed"
    BY <2>2, <1>1 DEF LInv, WaitersInv
  <2> QED  BY <2>1, <2>2, <1>1
<1> HIDE DEF given
<1>6. given.pc = "answer"  BY DEF given
<1>7. \A d \in Callers : caller'[d] = IF d = c THEN given ELSE caller[d]
  BY <1>0, <1>1 DEF TypeOK
<1>8. WaitersInv'  BY <1>1, <1>6, <1>7 DEF LInv, WaitersInv
<1>9. AnswersAreFresh'  BY <1>5, <1>7 DEF LInv, AnswersAreFresh
<1> QED  BY <1>0, <1>1, <1>4, <1>8, <1>9, SameCache, RequestSteps DEF LInv

LEMMA RespondStep ==
  ASSUME LInv, NEW c \in Callers, Respond(c) \/ Cancel(c)
  PROVE  LInv'
<1>0. TypeOK  BY DEF LInv
<1>1. /\ caller' = [caller EXCEPT ![c] = NoCall]
      /\ UNCHANGED <<cache, inflight, free, task, clock>>
  BY DEF Respond, Cancel
<1>2. caller' \in [Callers -> {NoCall} \cup Waiting \cup Answered]  BY <1>0, <1>1 DEF TypeOK
<1>3. \A d \in Callers : caller'[d] = IF d = c THEN NoCall ELSE caller[d]
  BY <1>0, <1>1 DEF TypeOK
<1>4. WaitersInv'  BY <1>1, <1>3 DEF LInv, WaitersInv, NoCall
<1>5. AnswersAreFresh'  BY <1>3 DEF LInv, AnswersAreFresh, NoCall
<1> QED  BY <1>0, <1>1, <1>2, <1>4, <1>5, SameCache, RequestSteps DEF LInv

LEMMA LookupStep ==
  ASSUME LInv, NEW c \in Callers, NEW k \in Keys, Lookup(c, k)
  PROVE  LInv'
<1>0. TypeOK  BY DEF LInv
<1>1. caller[c] = NoCall /\ cache' = CacheAfterGet(k) /\ UNCHANGED <<free, clock>>
  BY DEF Lookup
<1>2. CacheKept(cache') /\ ToSet(cache') \subseteq ToSet(cache)  BY <1>0, <1>1, Getting
<1>3. CASE Fresh(k) # {}
  <2>1. PICK e \in Fresh(k) :
          /\ caller' = [caller EXCEPT ![c] =
                          [pc |-> "answer", answer |-> Payload(e.at), since |-> clock]]
          /\ UNCHANGED <<inflight, task>>
    BY <1>3 DEF Lookup
  <2> DEFINE given == [pc |-> "answer", answer |-> Payload(e.at), since |-> clock]
  <2>2. e.at \in 0 .. MaxClock /\ clock < e.at + TTL
    <3>1. e \in Entry  BY <1>0, LenProperties, ElementOfSeq DEF Fresh, ToSet, TypeOK
    <3> QED  BY <3>1 DEF Entry, Fresh
  <2>3. given \in Answered /\ given.pc = "answer" /\ given.since < given.answer.at + TTL
    BY <1>0, <2>2 DEF Answered, Answer, Payload, TypeOK
  <2> HIDE DEF given
  <2>4. caller' \in [Callers -> {NoCall} \cup Waiting \cup Answered]
        /\ \A d \in Callers : caller'[d] = IF d = c THEN given ELSE caller[d]
    BY <1>0, <2>1, <2>3 DEF TypeOK, given
  <2>5. WaitersInv'  BY <1>1, <2>1, <2>3, <2>4 DEF LInv, WaitersInv
  <2>6. AnswersAreFresh'  BY <2>3, <2>4 DEF LInv, AnswersAreFresh
  <2> QED  BY <1>1, <1>2, <2>1, <2>4, <2>5, <2>6, RequestSteps DEF LInv
<1>4. CASE Fresh(k) = {} /\ inflight[k] # Null
  <2> DEFINE given == [pc |-> "wait", task |-> inflight[k], since |-> clock]
  <2>1. caller' = [caller EXCEPT ![c] = given] /\ UNCHANGED <<inflight, task>>
    BY <1>4 DEF Lookup
  <2>2. inflight[k] \in Tasks /\ task[inflight[k]].pc \in Live \cup {"done"}
    BY <1>4, <1>0 DEF LInv, TableInv, TypeOK
  <2>3. given \in Waiting /\ given.pc = "wait" /\ given.task = inflight[k] /\ given.since = clock
    BY <1>0, <2>2 DEF Waiting, TypeOK
  <2> HIDE DEF given
  <2>4. caller' \in [Callers -> {NoCall} \cup Waiting \cup Answered]
        /\ \A d \in Callers : caller'[d] = IF d = c THEN given ELSE caller[d]
    BY <1>0, <2>1, <2>3 DEF TypeOK
  <2>5. WaitersInv'
    BY <1>0, <1>1, <2>1, <2>2, <2>3, <2>4, Shapes DEF LInv, WaitersInv, Live
  <2>6. AnswersAreFresh'  BY <2>3, <2>4 DEF LInv, AnswersAreFresh
  <2> QED  BY <1>1, <1>2, <2>1, <2>4, <2>5, <2>6, RequestSteps DEF LInv
<1>5. CASE Fresh(k) = {} /\ inflight[k] = Null
  <2>1. PICK t \in Tasks :
          /\ task[t] = NoTask
          /\ task' = [task EXCEPT ![t] = [pc |-> "start", key |-> k]]
          /\ inflight' = [inflight EXCEPT ![k] = t]
          /\ caller' = [caller EXCEPT ![c] = [pc |-> "wait", task |-> t, since |-> clock]]
    BY <1>5 DEF Lookup
  <2> DEFINE given == [pc |-> "wait", task |-> t, since |-> clock]
             new == [pc |-> "start", key |-> k]
  <2>2. /\ given \in Waiting /\ given.pc = "wait" /\ given.task = t /\ given.since = clock
        /\ new \in LiveTask /\ new.pc = "start" /\ new.key = k /\ NoTask.pc = "none"
    BY <1>0 DEF Waiting, TypeOK, LiveTask, NoTask
  <2> HIDE DEF given, new
  <2>3. /\ caller' \in [Callers -> {NoCall} \cup Waiting \cup Answered]
        /\ \A d \in Callers : caller'[d] = IF d = c THEN given ELSE caller[d]
        /\ task' \in [Tasks -> {NoTask} \cup LiveTask \cup DoneTask]
        /\ \A u \in Tasks : task'[u] = IF u = t THEN new ELSE task[u]
        /\ inflight' \in [Keys -> Tasks \cup {Null}]
        /\ \A j \in Keys : inflight'[j] = IF j = k THEN t ELSE inflight[j]
    BY <1>0, <2>1, <2>2 DEF TypeOK, given, new
  <2>4. TypeOK'  BY <1>0, <1>1, <1>2, <2>3 DEF TypeOK, CacheKept
  <2>5. Fetching' = Fetching  BY <2>1, <2>2, <2>3 DEF Fetching
  <2>6. IsFiniteSet(Fetching') /\ SlotsConserved'
    BY <1>1, <2>5 DEF LInv, SlotsConserved, Fetching
  <2>7. SingleFlight'
    BY <1>0, <1>5, <2>1, <2>2, <2>3, LiveAssetsAssumption, Shapes
    DEF LInv, SingleFlight, Unfinished, Live
  <2>8. NoFreshEntryBesideLookup'
    <3>1. Fresh(k)' = {}  BY <1>1, <1>2, <1>5 DEF Fresh
    <3>2. \A j \in Keys : Fresh(j) = {} => Fresh(j)' = {}  BY <1>1, <1>2 DEF Fresh
    <3> QED
      BY <3>1, <3>2, <1>0, <2>2, <2>3, Shapes DEF LInv, NoFreshEntryBesideLookup, Unfinished, Live
  <2>9. TableInv'
    BY <1>0, <2>1, <2>2, <2>3, LiveAssetsAssumption DEF LInv, TableInv, TypeOK, Live
  <2>10. DoneInv'  BY <1>1, <2>2, <2>3 DEF LInv, DoneInv
  <2>11. WaitersInv'
    BY <1>0, <1>1, <2>1, <2>2, <2>3, Shapes DEF LInv, WaitersInv
  <2>12. AnswersAreFresh'  BY <2>2, <2>3 DEF LInv, AnswersAreFresh
  <2> QED  BY <2>4, <2>6, <2>7, <2>8, <2>9, <2>10, <2>11, <2>12 DEF LInv
<1> QED  BY <1>3, <1>4, <1>5

------------------------------------------------------------------------------
(* Steps of tasks.  A task that has not ended and goes on, or ends, keeps    *)
(* everything but what is said of the slots and of the cache.               *)
LEMMA TaskSteps ==
  ASSUME LInv, NEW t \in Tasks, task[t].pc \in Live,
         NEW row \in LiveTask \cup DoneTask, row.key = task[t].key,
         row.pc \in Live \cup {"done"},
         row.pc = "done" /\ row.answer.kind = "payload" => row.answer.at = clock,
         task' = [task EXCEPT ![t] = row],
         CacheKept(cache'), free' \in 0 .. Slots,
         UNCHANGED <<inflight, caller, clock>>
  PROVE  /\ TypeOK' /\ SingleFlight' /\ TableInv' /\ DoneInv' /\ WaitersInv'
         /\ AnswersAreFresh'
<1>0. TypeOK  BY DEF LInv
<1>1. /\ task' \in [Tasks -> {NoTask} \cup LiveTask \cup DoneTask]
      /\ \A u \in Tasks : task'[u] = IF u = t THEN row ELSE task[u]
  BY <1>0 DEF TypeOK
<1>2. TypeOK'  BY <1>0, <1>1 DEF TypeOK, CacheKept
<1>3. SingleFlight'  BY <1>1 DEF LInv, SingleFlight, Unfinished, Live
<1>4. TableInv'  BY <1>0, <1>1 DEF LInv, TableInv, TypeOK
<1>5. DoneInv'  BY <1>1 DEF LInv, DoneInv
<1>6. WaitersInv'
  BY <1>0, <1>1, Shapes DEF LInv, WaitersInv, Live
<1>7. AnswersAreFresh'  BY DEF LInv, AnswersAreFresh
<1> QED  BY <1>2, <1>3, <1>4, <1>5, <1>6, <1>7

(* As long as nothing comes into the cache, nothing fresh does.             *)
LEMMA NothingNew ==
  ASSUME LInv, UNCHANGED clock, ToSet(cache') \subseteq ToSet(cache),
         \A u \in Tasks : task'[u].pc \in Live => task[u].pc \in Live /\ task'[u].key = task[u].key
  PROVE  NoFreshEntryBesideLookup'
<1> SUFFICES ASSUME NEW u \in Tasks, Unfinished(u)' PROVE Fresh(task[u].key)' = {}
  BY DEF NoFreshEntryBesideLookup
<1>1. task[u].pc \in Live /\ task'[u].key = task[u].key  BY DEF Unfinished, Live
<1>2. Fresh(task[u].key) = {}  BY <1>1 DEF LInv, NoFreshEntryBesideLookup, Unfinished, Live
<1> QED  BY <1>1, <1>2 DEF Fresh

LEMMA SlotsKept ==
  ASSUME LInv, UNCHANGED free, Fetching' = Fetching
  PROVE  IsFiniteSet(Fetching') /\ SlotsConserved'
BY DEF LInv, SlotsConserved, Fetching

LEMMA EnterStep ==
  ASSUME LInv, NEW t \in Tasks, task[t].pc \in {"start", "queue"}, free > 0, Enter(t),
         UNCHANGED <<inflight, caller, clock>>
  PROVE  LInv'
<1> DEFINE row == [pc |-> "fetch", key |-> task[t].key]
<1>0. TypeOK /\ free \in 0 .. Slots /\ Slots \in Nat
  BY LiveAssetsAssumption DEF LInv, TypeOK
<1>1. task[t].pc \in Live /\ task[t] \in LiveTask /\ task[t].key \in Keys
  BY <1>0, Shapes DEF Live
<1>2. Fresh(task[t].key) = {}
  BY <1>1 DEF LInv, NoFreshEntryBesideLookup, Unfinished, Live
<1>3. cache' = CacheAfterGet(task[t].key) /\ free' = free - 1
      /\ task' = [task EXCEPT ![t].pc = "fetch"]
  BY <1>2 DEF Enter
<1>4. task' = [task EXCEPT ![t] = row]
  <2>1. [task[t] EXCEPT !.pc = "fetch"] = row  BY <1>1 DEF LiveTask
  <2> QED  BY <2>1, <1>3
<1>5. row \in LiveTask /\ row.pc = "fetch" /\ row.key = task[t].key  BY <1>1 DEF LiveTask
<1> HIDE DEF row
<1>6. CacheKept(cache') /\ ToSet(cache') \subseteq ToSet(cache)  BY <1>0, <1>1, <1>3, Getting
<1>7. \A u \in Tasks : task'[u] = IF u = t THEN row ELSE task[u]
  BY <1>0, <1>4 DEF TypeOK
<1>8. free' \in 0 .. Slots  BY <1>0, <1>3
<1>9. NoFreshEntryBesideLookup'
  BY <1>1, <1>5, <1>6, <1>7, NothingNew
<1>10. IsFiniteSet(Fetching') /\ SlotsConserved'
  <2>1. Fetching' = Fetching \cup {t} /\ t \notin Fetching
    BY <1>5, <1>7 DEF Fetching
  <2>2. /\ IsFiniteSet(Fetching')
        /\ Cardinality(Fetching') = Cardinality(Fetching) + 1
        /\ Cardinality(Fetching) \in Nat
    BY <2>1, FS_AddElement, FS_CardinalityType DEF LInv
  <2>3. free + Cardinality(Fetching) = Slots  BY DEF LInv, SlotsConserved, Fetching
  <2>4. free' + Cardinality(Fetching') = Slots  BY <2>2, <2>3, <1>0, <1>3
  <2> QED  BY <2>2, <2>4 DEF SlotsConserved, Fetching
<1>11. TypeOK' /\ SingleFlight' /\ TableInv' /\ DoneInv' /\ WaitersInv' /\ AnswersAreFresh'
  BY <1>1, <1>4, <1>5, <1>6, <1>8, TaskSteps DEF Live
<1> QED  BY <1>9, <1>10, <1>11 DEF LInv

LEMMA StartStep ==
  ASSUME LInv, NEW t \in Tasks, Start(t) \/ Acquire(t)
  PROVE  LInv'
<1>0. TypeOK /\ free \in 0 .. Slots  BY DEF LInv, TypeOK
<1>1. CASE free > 0 /\ Enter(t) /\ task[t].pc \in {"start", "queue"}
  BY <1>1, EnterStep DEF Start, Acquire
<1>2. CASE ~ (free > 0 /\ Enter(t) /\ task[t].pc \in {"start", "queue"})
  <2> DEFINE row == [pc |-> "queue", key |-> task[t].key]
  <2>1. task[t].pc = "start" /\ task' = [task EXCEPT ![t].pc = "queue"]
        /\ UNCHANGED <<cache, free, inflight, caller, clock>>
    BY <1>2 DEF Start, Acquire
  <2>2. task[t] \in LiveTask /\ task[t].key \in Keys /\ task[t].pc \in Live
    BY <1>0, <2>1, Shapes DEF Live
  <2>3. task' = [task EXCEPT ![t] = row]
    <3>1. [task[t] EXCEPT !.pc = "queue"] = row  BY <2>2 DEF LiveTask
    <3> QED  BY <3>1, <2>1
  <2>4. row \in LiveTask /\ row.pc = "queue" /\ row.key = task[t].key  BY <2>2 DEF LiveTask
  <2> HIDE DEF row
  <2>5. \A u \in Tasks : task'[u] = IF u = t THEN row ELSE task[u]
    BY <1>0, <2>3 DEF TypeOK
  <2>6. CacheKept(cache') /\ ToSet(cache') \subseteq ToSet(cache)  BY <1>0, <2>1, SameCache
  <2>7. NoFreshEntryBesideLookup'  BY <2>1, <2>2, <2>4, <2>5, <2>6, NothingNew
  <2>8. Fetching' = Fetching  BY <2>1, <2>4, <2>5 DEF Fetching
  <2>9. TypeOK' /\ SingleFlight' /\ TableInv' /\ DoneInv' /\ WaitersInv' /\ AnswersAreFresh'
    BY <1>0, <2>1, <2>2, <2>3, <2>4, <2>6, TaskSteps DEF Live
  <2> QED  BY <2>1, <2>7, <2>8, <2>9, SlotsKept DEF LInv
<1> QED  BY <1>1, <1>2

LEMMA QueueTimeoutStep == ASSUME LInv, NEW t \in Tasks, QueueTimeout(t) PROVE LInv'
<1> DEFINE row == [pc |-> "done", key |-> task[t].key, answer |-> [kind |-> "429"]]
<1>0. TypeOK /\ free \in 0 .. Slots  BY DEF LInv, TypeOK
<1>1. task[t].pc = "queue" /\ task' = [task EXCEPT ![t] = row]
      /\ UNCHANGED <<cache, free, inflight, caller, clock>>
  BY DEF QueueTimeout, End
<1>2. task[t].key \in Keys /\ task[t].pc \in Live  BY <1>0, <1>1, Shapes DEF Live
<1>3. row \in DoneTask /\ row.pc = "done" /\ row.key = task[t].key /\ row.answer.kind = "429"
  BY <1>2 DEF DoneTask, Answer
<1> HIDE DEF row
<1>4. \A u \in Tasks : task'[u] = IF u = t THEN row ELSE task[u]  BY <1>0, <1>1 DEF TypeOK
<1>5. CacheKept(cache') /\ ToSet(cache') \subseteq ToSet(cache)  BY <1>0, <1>1, SameCache
<1>6. NoFreshEntryBesideLookup'  BY <1>1, <1>3, <1>4, <1>5, NothingNew DEF Live
<1>7. Fetching' = Fetching  BY <1>1, <1>3, <1>4 DEF Fetching
<1>8. TypeOK' /\ SingleFlight' /\ TableInv' /\ DoneInv' /\ WaitersInv' /\ AnswersAreFresh'
  BY <1>0, <1>1, <1>2, <1>3, <1>5, TaskSteps
<1> QED  BY <1>1, <1>6, <1>7, <1>8, SlotsKept DEF LInv

LEMMA FetchDoneStep == ASSUME LInv, NEW t \in Tasks, FetchDone(t) PROVE LInv'
<1>0. TypeOK /\ free \in 0 .. Slots /\ Slots \in Nat
  BY LiveAssetsAssumption DEF LInv, TypeOK
<1>1. task[t].pc = "fetch" /\ free' = free + 1 /\ UNCHANGED <<inflight, caller, clock>>
  BY DEF FetchDone
<1>2. task[t].key \in Keys /\ task[t].pc \in Live  BY <1>0, <1>1, Shapes DEF Live
<1>3. PICK answer \in Answer :
        /\ task' = [task EXCEPT ![t] = [pc |-> "done", key |-> @.key, answer |-> answer]]
        /\ \/ cache' = CacheAfterPut(task[t].key) /\ answer = Payload(clock)
           \/ cache' = cache /\ answer = [kind |-> "error"]
  <2>1. Payload(clock) \in Answer /\ [kind |-> "error"] \in Answer
    BY <1>0 DEF Answer, Payload, TypeOK
  <2> QED  BY <2>1 DEF FetchDone, End
<1> DEFINE row == [pc |-> "done", key |-> task[t].key, answer |-> answer]
<1>4. task' = [task EXCEPT ![t] = row]  BY <1>3
<1>5. row \in DoneTask /\ row.pc = "done" /\ row.key = task[t].key /\ row.answer = answer
  BY <1>2 DEF DoneTask
<1>6. answer.kind = "payload" => answer.at = clock  BY <1>3 DEF Payload
<1> HIDE DEF row
<1>7. \A u \in Tasks : task'[u] = IF u = t THEN row ELSE task[u]  BY <1>0, <1>4 DEF TypeOK
<1>8. CacheKept(cache') /\ \A e \in ToSet(cache') : e.key = task[t].key \/ e \in ToSet(cache)
  BY <1>0, <1>2, <1>3, Putting, SameCache
<1>9. NoFreshEntryBesideLookup'
  <2> SUFFICES ASSUME NEW u \in Tasks, Unfinished(u)' PROVE Fresh(task[u].key)' = {}
    BY DEF NoFreshEntryBesideLookup
  <2>1. u # t /\ task'[u] = task[u] /\ Unfinished(u)  BY <1>5, <1>7 DEF Unfinished
  <2>2. task[u].key # task[t].key
    BY <2>1, <1>2 DEF LInv, SingleFlight, Unfinished, Live
  <2>3. Fresh(task[u].key) = {}  BY <2>1 DEF LInv, NoFreshEntryBesideLookup
  <2> QED  BY <2>1, <2>2, <2>3, <1>1, <1>8 DEF Fresh
<1>10. /\ IsFiniteSet(Fetching') /\ SlotsConserved' /\ free' \in 0 .. Slots
  <2>1. Fetching' = Fetching \ {t} /\ t \in Fetching  BY <1>1, <1>5, <1>7 DEF Fetching
  <2>2. /\ IsFiniteSet(Fetching')
        /\ Cardinality(Fetching') = Cardinality(Fetching) - 1
        /\ Cardinality(Fetching) \in Nat /\ Cardinality(Fetching') \in Nat
    BY <2>1, FS_RemoveElement, FS_CardinalityType DEF LInv
  <2>3. free + Cardinality(Fetching) = Slots  BY DEF LInv, SlotsConserved, Fetching
  <2>4. free' + Cardinality(Fetching') = Slots /\ free' \in 0 .. Slots
    BY <2>2, <2>3, <1>0, <1>1
  <2> QED  BY <2>2, <2>4 DEF SlotsConserved, Fetching
<1>11. TypeOK' /\ SingleFlight' /\ TableInv' /\ DoneInv' /\ WaitersInv' /\ AnswersAreFresh'
  BY <1>1, <1>2, <1>4, <1>5, <1>6, <1>8, <1>10, TaskSteps
<1> QED  BY <1>9, <1>10, <1>11 DEF LInv

LEMMA FinishLookupStep == ASSUME LInv, NEW t \in Tasks, FinishLookup(t) PROVE LInv'
<1> DEFINE row == [pc |-> "removed", key |-> task[t].key, answer |-> task[t].answer]
           k == task[t].key
<1>0. TypeOK /\ TableInv /\ SingleFlight /\ DoneInv /\ WaitersInv  BY DEF LInv
<1>1. /\ task[t].pc = "done" /\ task' = [task EXCEPT ![t].pc = "removed"]
      /\ inflight' = IF inflight[k] = t THEN [inflight EXCEPT ![k] = Null] ELSE inflight
      /\ UNCHANGED <<cache, free, caller, clock>>
  BY DEF FinishLookup
<1>2. task[t] \in DoneTask /\ k \in Keys /\ task[t].answer \in Answer  BY <1>0, <1>1, Shapes
<1>3. task' = [task EXCEPT ![t] = row]
  <2>1. [task[t] EXCEPT !.pc = "removed"] = row  BY <1>2 DEF DoneTask
  <2> QED  BY <2>1, <1>1
<1>4. /\ row \in DoneTask /\ row.pc = "removed" /\ row.key = k
      /\ row.answer = task[t].answer
  BY <1>2 DEF DoneTask
<1> HIDE DEF row
<1>5. /\ \A u \in Tasks : task'[u] = IF u = t THEN row ELSE task[u]
      /\ task' \in [Tasks -> {NoTask} \cup LiveTask \cup DoneTask]
      /\ inflight' \in [Keys -> Tasks \cup {Null}]
      /\ \A j \in Keys : inflight'[j] = inflight[j] \/ (j = k /\ inflight[k] = t /\ inflight'[j] = Null)
      /\ inflight[k] = t => inflight'[k] = Null
  BY <1>0, <1>1, <1>2, <1>3, <1>4 DEF TypeOK
<1>6. TypeOK'  BY <1>0, <1>1, <1>5 DEF TypeOK
<1>7. Fetching' = Fetching  BY <1>1, <1>4, <1>5 DEF Fetching
<1>8. \A u \in Tasks : task'[u].pc \in Live => u # t /\ task'[u] = task[u]
  BY <1>4, <1>5 DEF Live
<1>9. SingleFlight'
  <2> SUFFICES ASSUME NEW u \in Tasks, Unfinished(u)' PROVE inflight'[task'[u].key] = u
    BY DEF SingleFlight
  <2>1. u # t /\ task'[u] = task[u] /\ Unfinished(u)  BY <1>8 DEF Unfinished, Live
  <2>2. inflight[task[u].key] = u /\ task[u].key \in Keys
    BY <2>1, <1>0, Shapes DEF SingleFlight, Unfinished, Live
  <2> QED  BY <2>1, <2>2, <1>5
<1>10. NoFreshEntryBesideLookup'  BY <1>1, <1>8, NothingNew
<1>11. TableInv'
  <2> SUFFICES ASSUME NEW j \in Keys, inflight'[j] # Null
               PROVE  task'[inflight'[j]].pc \in Live \cup {"done"} /\ task'[inflight'[j]].key = j
    BY DEF TableInv
  <2>1. inflight'[j] = inflight[j] /\ inflight[j] \in Tasks  BY <1>0, <1>5 DEF TypeOK
  <2>2. inflight[j] # t
    <3> SUFFICES ASSUME inflight[j] = t PROVE FALSE  OBVIOUS
    <3>1. j = k  BY <1>0, <2>1, LiveAssetsAssumption DEF TableInv
    <3> QED  BY <3>1, <2>1, <1>5
  <2> QED  BY <2>1, <2>2, <1>0, <1>5 DEF TableInv
<1>12. DoneInv'  BY <1>0, <1>1, <1>4, <1>5 DEF DoneInv
<1>13. WaitersInv'
  <2> SUFFICES ASSUME NEW c \in Callers, caller[c].pc = "wait"
               PROVE  LET u == caller[c].task
                      IN  /\ task'[u].pc # "none"
                          /\ caller[c].since <= clock
                          /\ (task'[u].pc = "removed" /\ task'[u].answer.kind = "payload")
                               => caller[c].since < task'[u].answer.at + TTL
    BY <1>1 DEF WaitersInv
  <2>1. caller[c].task \in Tasks /\ caller[c].since \in 0 .. MaxClock /\ clock \in Nat
        /\ TTL \in Nat \ {0}
    BY <1>0, Shapes
  <2>2. CASE caller[c].task = t
    BY <2>1, <2>2, <1>0, <1>1, <1>4, <1>5 DEF WaitersInv, DoneInv
  <2>3. CASE caller[c].task # t
    BY <2>1, <2>3, <1>0, <1>5 DEF WaitersInv
  <2> QED  BY <2>2, <2>3
<1>14. AnswersAreFresh'  BY <1>1 DEF LInv, AnswersAreFresh
<1>15. IsFiniteSet(Fetching') /\ SlotsConserved'  BY <1>1, <1>7, SlotsKept
<1> QED  BY <1>6, <1>9, <1>10, <1>11, <1>12, <1>13, <1>14, <1>15 DEF LInv

LEMMA CollectStep == ASSUME LInv, NEW t \in Tasks, Collect(t) PROVE LInv'
<1>0. TypeOK  BY DEF LInv
<1>1. /\ task[t].pc = "removed" /\ task' = [task EXCEPT ![t] = NoTask]
      /\ \A c \in Callers : caller[c].pc = "wait" => caller[c].task # t
      /\ UNCHANGED <<cache, inflight, free, caller, clock>>
  BY DEF Collect
<1>2. /\ \A u \in Tasks : task'[u] = IF u = t THEN NoTask ELSE task[u]
      /\ task' \in [Tasks -> {NoTask} \cup LiveTask \cup DoneTask]
      /\ NoTask.pc = "none"
  BY <1>0, <1>1 DEF TypeOK, NoTask
<1>3. TypeOK'  BY <1>0, <1>1, <1>2 DEF TypeOK
<1>4. Fetching' = Fetching  BY <1>1, <1>2 DEF Fetching
<1>5. SingleFlight'  BY <1>1, <1>2 DEF LInv, SingleFlight, Unfinished
<1>6. NoFreshEntryBesideLookup'
  BY <1>1, <1>2, NothingNew DEF Live
<1>7. TableInv'
  <2> SUFFICES ASSUME NEW j \in Keys, inflight[j] # Null
               PROVE  task'[inflight[j]].pc \in Live \cup {"done"} /\ task'[inflight[j]].key = j
    BY <1>1 DEF TableInv
  <2>1. inflight[j] \in Tasks /\ task[inflight[j]].pc \in Live \cup {"done"}
        /\ task[inflight[j]].key = j
    BY <1>0 DEF LInv, TableInv, TypeOK
  <2>2. inflight[j] # t  BY <2>1, <1>1 DEF Live
  <2> QED  BY <2>1, <2>2, <1>2
<1>8. DoneInv'  BY <1>1, <1>2 DEF LInv, DoneInv
<1>9. WaitersInv'  BY <1>0, <1>1, <1>2, Shapes DEF LInv, WaitersInv
<1>10. AnswersAreFresh'  BY <1>1 DEF LInv, AnswersAreFresh
<1>11. IsFiniteSet(Fetching') /\ SlotsConserved'  BY <1>1, <1>4, SlotsKept
<1> QED  BY <1>3, <1>5, <1>6, <1>7, <1>8, <1>9, <1>10, <1>11 DEF LInv

LEMMA TickStep == ASSUME LInv, Tick PROVE LInv'
<1>0. TypeOK  BY DEF LInv
<1>1. /\ clock < MaxClock /\ clock' = clock + 1
      /\ \A t \in Tasks : task[t].pc # "done"
      /\ UNCHANGED <<cache, inflight, free, task, caller>>
  BY DEF Tick
<1>2. clock \in Nat /\ MaxClock \in Nat /\ TTL \in Nat  BY <1>0, LiveAssetsAssumption DEF TypeOK
<1>3. TypeOK'  BY <1>0, <1>1, <1>2 DEF TypeOK
<1>4. NoFreshEntryBesideLookup'
  <2> SUFFICES ASSUME NEW u \in Tasks, Unfinished(u) PROVE Fresh(task[u].key)' = {}
    BY <1>1 DEF NoFreshEntryBesideLookup, Unfinished
  <2>1. Fresh(task[u].key) = {}  BY DEF LInv, NoFreshEntryBesideLookup
  <2>2. \A e \in ToSet(cache) : e.at \in Nat
    <3>1. \A e \in ToSet(cache) : e \in Entry
      BY <1>0, LenProperties, ElementOfSeq DEF ToSet, TypeOK
    <3> QED  BY <3>1, <1>2 DEF Entry
  <2> QED  BY <2>1, <2>2, <1>1, <1>2 DEF Fresh
<1>5. DoneInv'  BY <1>1 DEF DoneInv
<1>6. WaitersInv'  BY <1>0, <1>1, <1>2, Shapes DEF LInv, WaitersInv
<1>7. SingleFlight' /\ TableInv' /\ AnswersAreFresh'
  BY <1>1 DEF LInv, SingleFlight, Unfinished, TableInv, AnswersAreFresh
<1>8. Fetching' = Fetching  BY <1>1 DEF Fetching
<1>9. IsFiniteSet(Fetching') /\ SlotsConserved'  BY <1>1, <1>8, SlotsKept
<1> QED  BY <1>3, <1>4, <1>5, <1>6, <1>7, <1>9 DEF LInv

LEMMA Stutter == ASSUME LInv, UNCHANGED vars PROVE LInv'
<1>1. Fetching' = Fetching  BY DEF Fetching, vars
<1> QED
  BY <1>1, SlotsKept
  DEF LInv, vars, TypeOK, SlotsConserved, Fetching, SingleFlight, Unfinished,
      NoFreshEntryBesideLookup, Fresh, TableInv, DoneInv, WaitersInv, AnswersAreFresh

LEMMA Invariance == Spec => []LInv
<1>1. ASSUME LInv, [Next]_vars PROVE LInv'
  <2>1. CASE \E c \in Callers : (\E k \in Keys : Lookup(c, k)) \/ CallerStep(c) \/ Cancel(c)
    BY <1>1, <2>1, LookupStep, GetAnswerStep, RespondStep DEF CallerStep
  <2>2. CASE \E t \in Tasks : TaskStep(t)
    BY <1>1, <2>2, StartStep, QueueTimeoutStep, FetchDoneStep, FinishLookupStep, CollectStep
    DEF TaskStep
  <2>3. CASE Tick  BY <1>1, <2>3, TickStep
  <2>4. CASE UNCHANGED vars  BY <1>1, <2>4, Stutter
  <2> QED  BY <1>1, <2>1, <2>2, <2>3, <2>4 DEF Next
<1> QED  BY <1>1, InitInv, PTL DEF Spec

------------------------------------------------------------------------------
(* Theorems *)

(* Every variable keeps its shape, and the cache its bound and one entry     *)
(* per address.                                                             *)
THEOREM TypeCorrect == Spec => []TypeOK
<1>1. LInv => TypeOK  BY DEF LInv
<1> QED  BY <1>1, Invariance, PTL

(* No path out of a lookup loses a slot or gives one back twice.            *)
THEOREM SlotsAreConserved == Spec => []SlotsConserved
<1>1. LInv => SlotsConserved  BY DEF LInv
<1> QED  BY <1>1, Invariance, PTL

(* An address has at most one lookup under way, cancelled requests and late *)
(* callbacks notwithstanding, and whoever comes finds it.                   *)
THEOREM OneLookupPerAddress == Spec => []SingleFlight
<1>1. LInv => SingleFlight  BY DEF LInv
<1> QED  BY <1>1, Invariance, PTL

(* The second look at the cache, after the wait for a slot, always misses.  *)
THEOREM SecondLookMisses == Spec => []NoFreshEntryBesideLookup
<1>1. LInv => NoFreshEntryBesideLookup  BY DEF LInv
<1> QED  BY <1>1, Invariance, PTL

(* Whichever way a payload reaches a request, it was stored less than a TTL *)
(* before the request came.                                                 *)
THEOREM FreshAnswers == Spec => []AnswersAreFresh
<1>1. LInv => AnswersAreFresh  BY DEF LInv
<1> QED  BY <1>1, Invariance, PTL

================================================================================
