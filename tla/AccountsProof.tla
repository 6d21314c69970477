---------------------------- MODULE AccountsProof ----------------------------
(* Proofs about Accounts: whoever has an account keeps a way in, Telegram  *)
(* accounts move as their owners ask, a merge deletes what it could not    *)
(* have counted and nothing else, and passwords change by request.         *)
EXTENDS Accounts, TLAPS

Found == {"verify", "linked", "wallet", "group", "commit"}
Confirmed == {"linked", "wallet", "group", "commit"}

(* What a request was sent with.                                            *)
InputOK(q) ==
  /\ q.op \in {"register", "link"} => q.email \in Emails
  /\ q.op = "register" => q.password \in Passwords
  /\ q.op = "change" => q.next \in Passwords
  /\ q.op = "telegram" => q.tg \in TgIds

Owns(u, t) == t \in DOMAIN telegram /\ telegram[t] = u

(* The account row that a merge has loaded is its user's, or has been moved *)
(* to a user with an email, or deleted; only the first if its user is there  *)
(* and has no email.                                                        *)
AccountOK(q) ==
  (q.op = "link" /\ q.pc # "read")
     => /\ q.user \in UserIds \ unborn
        /\ \/ q.tg = Null
           \/ Owns(q.user, q.tg)
           \/ q.tg \in DOMAIN telegram /\ users[telegram[q.tg]].email # Null
        /\ (q.user \in DOMAIN users /\ users[q.user].email = Null) => Owns(q.user, q.tg)

(* The user that was found by email has one for as long as it is there.     *)
TargetOK(q) ==
  /\ (q.op = "link" /\ q.pc \in Found)
        => /\ q.target \in UserIds \ unborn
           /\ q.target \in DOMAIN users => users[q.target].email # Null
  /\ (q.op = "link" /\ q.pc \in Confirmed) => q.target # q.user

(* A new hash replaces one that is not up to date, or changes the password.*)
HashOK(q) ==
  /\ (q.op = "login" /\ q.pc = "commit") => q.new # Null /\ q.hash.scheme # "argon2"
  /\ (q.op = "change" /\ q.pc = "commit") => q.new # Null
  /\ (q.op = "link" /\ q.pc \in Confirmed) => q.new = Null \/ q.hash.scheme # "argon2"

(* What a merge has counted, its user does not have, or acquired late.      *)
CountOK(q) ==
  /\ (q.op = "link" /\ q.pc \in {"group", "commit"})
        => ("wallet" \in Held(q.user) => <<q.user, "wallet">> \in late)
  /\ (q.op = "link" /\ q.pc = "commit")
        => ("group" \in Held(q.user) => <<q.user, "group">> \in late)

RequestOK(q) == InputOK(q) /\ AccountOK(q) /\ TargetOK(q) /\ HashOK(q) /\ CountOK(q)

IInv ==
  /\ TypeOK
  /\ \A u \in DOMAIN users : users[u].email # Null => users[u].hash # Null
  /\ EveryUserCanLogIn
  /\ MergeDropsOnlyLateItems
  /\ \A r \in Requests : RequestOK(req[r])

------------------------------------------------------------------------------
(* Facts about the operators.                                               *)

LEMMA AtRequest ==
  ASSUME IInv, NEW r \in Requests, req[r].op # "none"
  PROVE  req[r] \in Request /\ RequestOK(req[r])
BY DEF IInv, TypeOK, Idle

LEMMA ReplacementType ==
  ASSUME NEW p \in Passwords, NEW h \in Hash
  PROVE  /\ Replacement(p, h) \in Hash \cup {Null}
         /\ Replacement(p, h) # Null => h.scheme # "argon2"
BY DEF Replacement, Hash

(* A request that has nothing in hand yet needs nothing of the tables.      *)
LEMMA ReadOK ==
  ASSUME NEW q, q = Idle \/ (q.pc = "read" /\ InputOK(q))
  PROVE  RequestOK(q)
BY DEF RequestOK, InputOK, AccountOK, Owns, TargetOK, HashOK, CountOK, Found, Confirmed, Idle

(* A step that only moves one request on.                                   *)
LEMMA RequestStep ==
  ASSUME IInv, UNCHANGED <<tables, history>>,
         NEW r \in Requests, NEW q \in {Idle} \cup Request,
         RequestOK(q), req' = [req EXCEPT ![r] = q]
  PROVE  IInv'
<1>. DEFINE Row(v) == users[v].email # Null => users[v].hash # Null
<1>1. TypeOK'
  BY DEF IInv, TypeOK, tables
<1>2. ASSUME NEW s \in Requests PROVE RequestOK(req[s])'
  <2>1. RequestOK(req'[s])
    BY DEF IInv, TypeOK
  <2>. QED BY <2>1 DEF RequestOK, InputOK, AccountOK, Owns, TargetOK, HashOK, CountOK, Held, tables, history
<1>3. EveryUserCanLogIn' /\ MergeDropsOnlyLateItems'
  BY DEF IInv, EveryUserCanLogIn, MergeDropsOnlyLateItems, Linked, tables, history
<1>4. \A u \in DOMAIN users' : users'[u].email # Null => users'[u].hash # Null
  BY DEF IInv, tables
<1>. QED BY <1>1, <1>2, <1>3, <1>4 DEF IInv

(* What a request has in hand stays true when users are added, hashes       *)
(* change, and neither an account nor an item is touched.                   *)
LEMMA KeepRequest ==
  ASSUME IInv, NEW s \in Requests, req'[s] = req[s], RequestOK(req[s]),
         \A v \in DOMAIN users : v \in DOMAIN users' /\ users'[v].email = users[v].email,
         \A v \in DOMAIN users' : v \in DOMAIN users \/ v \in unborn,
         unborn' \subseteq unborn,
         \A t \in DOMAIN telegram : t \in DOMAIN telegram' /\ telegram'[t] = telegram[t],
         \A v : Held(v)' \subseteq Held(v),
         late' = late
  PROVE  RequestOK(req[s])'
<1>1. AccountOK(req[s])'
  BY DEF IInv, EveryUserCanLogIn, RequestOK, AccountOK, Owns
<1>2. TargetOK(req[s])'
  BY DEF RequestOK, TargetOK
<1>3. HashOK(req[s])'
  BY DEF RequestOK, HashOK
<1>4. CountOK(req[s])'
  BY DEF RequestOK, CountOK
<1>5. InputOK(req[s])'
  BY DEF RequestOK, InputOK
<1>. QED BY <1>1, <1>2, <1>3, <1>4, <1>5 DEF RequestOK

LEMMA IdleStep ==
  ASSUME IInv, UNCHANGED <<tables, history>>, NEW r \in Requests, Finish(r)
  PROVE  IInv'
BY ReadOK, RequestStep DEF Finish

(* A new request that names members of the bounds.                          *)
LEMMA StartStep ==
  ASSUME IInv, UNCHANGED <<tables, history>>, NEW r \in Requests,
         NEW q \in Request, q.pc = "read", InputOK(q), Start(r, q)
  PROVE  IInv'
BY ReadOK, RequestStep DEF Start

LEMMA SubmitStep ==
  ASSUME IInv, NEW r \in Requests, Submit(r)
  PROVE  IInv'
<1>1. CASE Register(r)
  <2>1. PICK e \in Emails, p \in Passwords :
          Start(r, [NewRequest("register") EXCEPT !.email = e, !.password = p])
    BY <1>1 DEF Register
  <2>. DEFINE q == [NewRequest("register") EXCEPT !.email = e, !.password = p]
  <2>2. q \in Request /\ q.pc = "read" /\ InputOK(q)
    BY DEF NewRequest, Request, OpNames, InputOK
  <2>. QED BY <1>1, <2>1, <2>2, StartStep DEF Register
<1>2. CASE Login(r)
  <2>1. PICK e \in Emails, p \in Passwords :
          Start(r, [NewRequest("login") EXCEPT !.email = e, !.password = p])
    BY <1>2 DEF Login
  <2>. DEFINE q == [NewRequest("login") EXCEPT !.email = e, !.password = p]
  <2>2. q \in Request /\ q.pc = "read" /\ InputOK(q)
    BY DEF NewRequest, Request, OpNames, InputOK
  <2>. QED BY <1>2, <2>1, <2>2, StartStep DEF Login
<1>3. CASE Change(r)
  <2>1. PICK u \in UserIds, p \in Passwords, n \in Passwords :
          Start(r, [NewRequest("change") EXCEPT !.user = u, !.password = p, !.next = n])
    BY <1>3 DEF Change
  <2>. DEFINE q == [NewRequest("change") EXCEPT !.user = u, !.password = p, !.next = n]
  <2>2. q \in Request /\ q.pc = "read" /\ InputOK(q)
    BY DEF NewRequest, Request, OpNames, InputOK
  <2>. QED BY <1>3, <2>1, <2>2, StartStep DEF Change
<1>4. CASE TelegramLogin(r)
  <2>1. PICK t \in TgIds : Start(r, [NewRequest("telegram") EXCEPT !.tg = t])
    BY <1>4 DEF TelegramLogin
  <2>. DEFINE q == [NewRequest("telegram") EXCEPT !.tg = t]
  <2>2. q \in Request /\ q.pc = "read" /\ InputOK(q)
    BY DEF NewRequest, Request, OpNames, InputOK
  <2>. QED BY <1>4, <2>1, <2>2, StartStep DEF TelegramLogin
<1>5. CASE Link(r)
  <2>1. PICK u \in UserIds, e \in Emails, p \in Passwords :
          Start(r, [NewRequest("link") EXCEPT !.user = u, !.email = e, !.password = p])
    BY <1>5 DEF Link
  <2>. DEFINE q == [NewRequest("link") EXCEPT !.user = u, !.email = e, !.password = p]
  <2>2. q \in Request /\ q.pc = "read" /\ InputOK(q)
    BY DEF NewRequest, Request, OpNames, InputOK
  <2>. QED BY <1>5, <2>1, <2>2, StartStep DEF Link
<1>. QED BY <1>1, <1>2, <1>3, <1>4, <1>5 DEF Submit

------------------------------------------------------------------------------
(* The steps that only read: they end a request or move it on.              *)

LEMMA GotoStep ==
  ASSUME IInv, UNCHANGED <<tables, history>>, NEW r \in Requests,
         req[r] \in Request,
         NEW pc \in {"commit", "linked", "wallet", "group"},
         Goto(r, pc), RequestOK([req[r] EXCEPT !.pc = pc])
  PROVE  IInv'
<1>. DEFINE q == [req[r] EXCEPT !.pc = pc]
<1>1. q \in Request
  BY DEF Request
<1>2. req' = [req EXCEPT ![r] = q]
  BY DEF Goto
<1>. QED BY <1>1, <1>2, RequestStep

LEMMA RegisterReadStep ==
  ASSUME IInv, NEW r \in Requests, RegisterRead(r)
  PROVE  IInv'
<1>1. req[r] \in Request /\ RequestOK(req[r])
  BY AtRequest DEF RegisterRead, At
<1>2. CASE Finish(r)
  BY <1>2, IdleStep DEF RegisterRead
<1>3. CASE Goto(r, "commit")
  <2>1. RequestOK([req[r] EXCEPT !.pc = "commit"])
    BY <1>1 DEF RegisterRead, At, Request, RequestOK, InputOK, AccountOK, Owns, TargetOK, HashOK, CountOK
  <2>. QED BY <1>1, <1>3, <2>1, GotoStep DEF RegisterRead
<1>. QED BY <1>2, <1>3 DEF RegisterRead

LEMMA TelegramReadStep ==
  ASSUME IInv, NEW r \in Requests, TelegramRead(r)
  PROVE  IInv'
<1>1. req[r] \in Request /\ RequestOK(req[r])
  BY AtRequest DEF TelegramRead, At
<1>2. CASE Finish(r)
  BY <1>2, IdleStep DEF TelegramRead
<1>3. CASE Goto(r, "commit")
  <2>1. RequestOK([req[r] EXCEPT !.pc = "commit"])
    BY <1>1 DEF TelegramRead, At, Request, RequestOK, InputOK, AccountOK, Owns, TargetOK, HashOK, CountOK
  <2>. QED BY <1>1, <1>3, <2>1, GotoStep DEF TelegramRead
<1>. QED BY <1>2, <1>3 DEF TelegramRead

LEMMA LoginReadStep ==
  ASSUME IInv, NEW r \in Requests, LoginRead(r)
  PROVE  IInv'
<1>1. req[r] \in Request /\ RequestOK(req[r])
  BY AtRequest DEF LoginRead, At
<1>2. CASE Finish(r)
  BY <1>2, IdleStep DEF LoginRead
<1>3. CASE ~Finish(r)
  <2>1. PICK u \in ByEmail(req[r].email) :
          /\ users[u].hash # Null
          /\ req' = [req EXCEPT ![r].pc = "verify", ![r].target = u,
                                ![r].hash = users[u].hash]
    BY <1>3 DEF LoginRead
  <2>. DEFINE q == [req[r] EXCEPT !.pc = "verify", !.target = u, !.hash = users[u].hash]
  <2>2. u \in DOMAIN users /\ u \in UserIds /\ users[u].hash \in Hash
    BY <2>1 DEF ByEmail, IInv, TypeOK, UserRow
  <2>3. q \in Request
    BY <1>1, <2>2 DEF Request
  <2>4. RequestOK(q)
    BY <1>1 DEF LoginRead, At, Request, RequestOK, InputOK, AccountOK, Owns, TargetOK, HashOK, CountOK
  <2>5. req' = [req EXCEPT ![r] = q]
    BY <2>1
  <2>. QED BY <2>3, <2>4, <2>5, RequestStep DEF LoginRead
<1>. QED BY <1>2, <1>3

LEMMA ChangeReadStep ==
  ASSUME IInv, NEW r \in Requests, ChangeRead(r)
  PROVE  IInv'
<1>1. req[r] \in Request /\ RequestOK(req[r])
  BY AtRequest DEF ChangeRead, At
<1>2. CASE Finish(r)
  BY <1>2, IdleStep DEF ChangeRead
<1>3. CASE ~Finish(r)
  <2>. DEFINE u == req[r].user
              q == [req[r] EXCEPT !.pc = "verify", !.target = u, !.hash = users[u].hash]
  <2>1. /\ u \in DOMAIN users /\ users[u].hash # Null
        /\ req' = [req EXCEPT ![r] = q]
    BY <1>3 DEF ChangeRead
  <2>2. u \in UserIds /\ users[u].hash \in Hash
    BY <2>1 DEF IInv, TypeOK, UserRow
  <2>3. q \in Request
    BY <1>1, <2>2 DEF Request
  <2>4. RequestOK(q)
    BY <1>1 DEF ChangeRead, At, Request, RequestOK, InputOK, AccountOK, Owns, TargetOK, HashOK, CountOK
  <2>. QED BY <2>1, <2>3, <2>4, RequestStep DEF ChangeRead
<1>. QED BY <1>2, <1>3

LEMMA LoginVerifyStep ==
  ASSUME IInv, NEW r \in Requests, LoginVerify(r)
  PROVE  IInv'
<1>. DEFINE new == Replacement(req[r].password, req[r].hash)
            q == [req[r] EXCEPT !.pc = "commit", !.new = new]
<1>1. req[r] \in Request /\ RequestOK(req[r])
  BY AtRequest DEF LoginVerify, At
<1>2. CASE Finish(r)
  BY <1>2, IdleStep DEF LoginVerify
<1>3. CASE ~Finish(r)
  <2>1. /\ Verified(req[r].password, req[r].hash) /\ new # Null
        /\ req' = [req EXCEPT ![r] = q]
    BY <1>3 DEF LoginVerify
  <2>2. req[r].hash \in Hash /\ req[r].password = req[r].hash.password
    BY <1>1, <2>1 DEF Verified, Request
  <2>3. new \in Hash /\ req[r].hash.scheme # "argon2"
    BY <2>1, <2>2, ReplacementType DEF Hash
  <2>4. q \in Request
    BY <1>1, <2>3 DEF Request
  <2>5. RequestOK(q)
    BY <1>1, <2>1, <2>3
    DEF LoginVerify, At, Request, RequestOK, InputOK, AccountOK, Owns, TargetOK, HashOK, CountOK
  <2>. QED BY <2>1, <2>4, <2>5, RequestStep DEF LoginVerify
<1>. QED BY <1>2, <1>3

LEMMA ChangeVerifyStep ==
  ASSUME IInv, NEW r \in Requests, ChangeVerify(r)
  PROVE  IInv'
<1>. DEFINE new == [password |-> req[r].next, scheme |-> "argon2"]
            q == [req[r] EXCEPT !.pc = "commit", !.new = new]
<1>1. req[r] \in Request /\ RequestOK(req[r])
  BY AtRequest DEF ChangeVerify, At
<1>2. CASE Finish(r)
  BY <1>2, IdleStep DEF ChangeVerify
<1>3. CASE ~Finish(r)
  <2>1. req' = [req EXCEPT ![r] = q]
    BY <1>3 DEF ChangeVerify
  <2>2. req[r].next \in Passwords
    BY <1>1 DEF ChangeVerify, At, RequestOK, InputOK
  <2>3. new \in Hash
    BY <2>2 DEF Hash
  <2>4. q \in Request
    BY <1>1, <2>3 DEF Request
  <2>5. new # Null
    BY <2>3, AccountsAssumption
  <2>6. RequestOK(q)
    BY <1>1, <2>2, <2>5
    DEF ChangeVerify, At, Request, RequestOK, InputOK, AccountOK, Owns, TargetOK, HashOK, CountOK
  <2>. QED BY <2>1, <2>4, <2>6, RequestStep DEF ChangeVerify
<1>. QED BY <1>2, <1>3

LEMMA LinkReadStep ==
  ASSUME IInv, NEW r \in Requests, LinkRead(r)
  PROVE  IInv'
<1>1. req[r] \in Request /\ RequestOK(req[r])
  BY AtRequest DEF LinkRead, At
<1>2. CASE Finish(r)
  BY <1>2, IdleStep DEF LinkRead
<1>3. CASE ~Finish(r)
  <2>1. PICK t \in Linked(req[r].user) :
          req' = [req EXCEPT ![r].pc = "target", ![r].tg = t]
    BY <1>3 DEF LinkRead
  <2>. DEFINE q == [req[r] EXCEPT !.pc = "target", !.tg = t]
  <2>2. /\ t \in DOMAIN telegram /\ t \in TgIds /\ telegram[t] = req[r].user
        /\ req[r].user \in UserIds \ unborn
    BY <1>3 DEF LinkRead, Linked, IInv, TypeOK
  <2>3. q \in Request
    BY <1>1, <2>2 DEF Request
  <2>4. RequestOK(q)
    BY <1>1, <2>2
    DEF LinkRead, At, Request, RequestOK, InputOK, AccountOK, Owns, TargetOK, HashOK, CountOK,
        Found, Confirmed
  <2>5. req' = [req EXCEPT ![r] = q]
    BY <2>1
  <2>. QED BY <2>3, <2>4, <2>5, RequestStep DEF LinkRead
<1>. QED BY <1>2, <1>3

LEMMA LinkTargetStep ==
  ASSUME IInv, NEW r \in Requests, LinkTarget(r)
  PROVE  IInv'
<1>1. req[r] \in Request /\ RequestOK(req[r])
  BY AtRequest DEF LinkTarget, At
<1>2. CASE Finish(r)
  BY <1>2, IdleStep DEF LinkTarget
<1>3. CASE ~Finish(r)
  <2>1. PICK u \in ByEmail(req[r].email) :
          /\ users[u].hash # Null
          /\ req' = [req EXCEPT ![r].pc = "verify", ![r].target = u,
                                ![r].hash = users[u].hash]
    BY <1>3 DEF LinkTarget
  <2>. DEFINE q == [req[r] EXCEPT !.pc = "verify", !.target = u, !.hash = users[u].hash]
  <2>2. /\ u \in DOMAIN users /\ u \in UserIds \ unborn /\ users[u].hash \in Hash
        /\ users[u].email = req[r].email
    BY <2>1 DEF ByEmail, IInv, TypeOK, UserRow
  <2>3. users[u].email # Null
    BY <1>1, <2>2, AccountsAssumption DEF LinkTarget, At, RequestOK, InputOK
  <2>4. q \in Request
    BY <1>1, <2>2 DEF Request
  <2>5. RequestOK(q)
    BY <1>1, <2>2, <2>3
    DEF LinkTarget, At, Request, RequestOK, InputOK, AccountOK, Owns, TargetOK, HashOK, CountOK,
        Confirmed
  <2>6. req' = [req EXCEPT ![r] = q]
    BY <2>1
  <2>. QED BY <2>4, <2>5, <2>6, RequestStep DEF LinkTarget
<1>. QED BY <1>2, <1>3

LEMMA LinkVerifyStep ==
  ASSUME IInv, NEW r \in Requests, LinkVerify(r)
  PROVE  IInv'
<1>. DEFINE new == Replacement(req[r].password, req[r].hash)
            q == [req[r] EXCEPT !.pc = "linked", !.new = new]
<1>1. req[r] \in Request /\ RequestOK(req[r])
  BY AtRequest DEF LinkVerify, At
<1>2. CASE Finish(r)
  BY <1>2, IdleStep DEF LinkVerify
<1>3. CASE ~Finish(r)
  <2>1. /\ Verified(req[r].password, req[r].hash) /\ req[r].target # req[r].user
        /\ req' = [req EXCEPT ![r] = q]
    BY <1>3 DEF LinkVerify
  <2>2. req[r].hash \in Hash /\ req[r].password = req[r].hash.password
    BY <1>1, <2>1 DEF Verified, Request
  <2>3. new \in Hash \cup {Null} /\ (new # Null => req[r].hash.scheme # "argon2")
    BY <2>2, ReplacementType DEF Hash
  <2>4. q \in Request
    BY <1>1, <2>3 DEF Request
  <2>5. RequestOK(q)
    BY <1>1, <2>1, <2>3
    DEF LinkVerify, At, Request, RequestOK, InputOK, AccountOK, Owns, TargetOK, HashOK, CountOK,
        Found, Confirmed
  <2>. QED BY <2>1, <2>4, <2>5, RequestStep DEF LinkVerify
<1>. QED BY <1>2, <1>3

LEMMA LinkLinkedStep ==
  ASSUME IInv, NEW r \in Requests, LinkLinked(r)
  PROVE  IInv'
<1>1. req[r] \in Request /\ RequestOK(req[r])
  BY AtRequest DEF LinkLinked, At
<1>2. CASE Finish(r)
  BY <1>2, IdleStep DEF LinkLinked
<1>3. CASE ~Finish(r)
  <2>1. RequestOK([req[r] EXCEPT !.pc = "wallet"])
    BY <1>1, <1>3
    DEF LinkLinked, At, Request, RequestOK, InputOK, AccountOK, Owns, TargetOK, HashOK, CountOK,
        Found, Confirmed
  <2>. QED BY <1>1, <1>3, <2>1, GotoStep DEF LinkLinked
<1>. QED BY <1>2, <1>3

LEMMA LinkCountWalletsStep ==
  ASSUME IInv, NEW r \in Requests, LinkCountWallets(r)
  PROVE  IInv'
<1>1. req[r] \in Request /\ RequestOK(req[r])
  BY AtRequest DEF LinkCountWallets, At
<1>2. CASE Finish(r)
  BY <1>2, IdleStep DEF LinkCountWallets
<1>3. CASE ~Finish(r)
  <2>1. RequestOK([req[r] EXCEPT !.pc = "group"])
    BY <1>1, <1>3
    DEF LinkCountWallets, At, Request, RequestOK, InputOK, AccountOK, Owns, TargetOK, HashOK, CountOK,
        Found, Confirmed
  <2>. QED BY <1>1, <1>3, <2>1, GotoStep DEF LinkCountWallets
<1>. QED BY <1>2, <1>3

LEMMA LinkCountGroupsStep ==
  ASSUME IInv, NEW r \in Requests, LinkCountGroups(r)
  PROVE  IInv'
<1>1. req[r] \in Request /\ RequestOK(req[r])
  BY AtRequest DEF LinkCountGroups, At
<1>2. CASE Finish(r)
  BY <1>2, IdleStep DEF LinkCountGroups
<1>3. CASE ~Finish(r)
  <2>1. RequestOK([req[r] EXCEPT !.pc = "commit"])
    BY <1>1, <1>3
    DEF LinkCountGroups, At, Request, RequestOK, InputOK, AccountOK, Owns, TargetOK, HashOK, CountOK,
        Found, Confirmed
  <2>. QED BY <1>1, <1>3, <2>1, GotoStep DEF LinkCountGroups
<1>. QED BY <1>2, <1>3

------------------------------------------------------------------------------
(* The steps that write.                                                    *)

LEMMA IdleOK ==
  ASSUME NEW s \in Requests, req'[s] = Idle
  PROVE  RequestOK(req[s])'
BY DEF RequestOK, InputOK, AccountOK, Owns, TargetOK, HashOK, CountOK, Idle

(* A row's hash is replaced by another one, or nothing is.                  *)
LEMMA HashStep ==
  ASSUME IInv, NEW r \in Requests, Finish(r),
         NEW u \in UserIds \cup {Null}, NEW hash \in Hash, SetHash(u, hash),
         UNCHANGED <<telegram, unborn, history>>
  PROVE  IInv'
<1>1. hash # Null
  BY AccountsAssumption
<1>2. /\ DOMAIN users' = DOMAIN users
      /\ \A v \in DOMAIN users : /\ users'[v].email = users[v].email
                                 /\ users'[v].holds = users[v].holds
                                 /\ users'[v] \in UserRow
                                 /\ users'[v].hash = users[v].hash \/ users'[v].hash = hash
  <2>1. CASE u \in DOMAIN users
    BY <1>1, <2>1 DEF SetHash, IInv, TypeOK, UserRow
  <2>2. CASE u \notin DOMAIN users
    BY <2>2 DEF SetHash, IInv, TypeOK
  <2>. QED BY <2>1, <2>2
<1>3. TypeOK'
  BY <1>2 DEF IInv, TypeOK, Finish, history
<1>4. \A v \in DOMAIN users' : users'[v].email # Null => users'[v].hash # Null
  BY <1>1, <1>2 DEF IInv
<1>5. EveryUserCanLogIn'
  BY <1>1, <1>2 DEF IInv, EveryUserCanLogIn, Linked
<1>6. MergeDropsOnlyLateItems'
  BY DEF IInv, MergeDropsOnlyLateItems, history
<1>7. ASSUME NEW s \in Requests PROVE RequestOK(req[s])'
  <2>1. CASE s = r
    <3>1. req'[s] = Idle
      BY <2>1 DEF Finish, IInv, TypeOK
    <3>. QED BY <3>1, IdleOK
  <2>2. CASE s # r
    <3>1. req'[s] = req[s] /\ RequestOK(req[s])
      BY <2>2 DEF Finish, IInv, TypeOK
    <3>2. \A v : Held(v)' \subseteq Held(v)
      BY <1>2 DEF Held
    <3>. QED BY <1>2, <3>1, <3>2, KeepRequest DEF history
  <2>. QED BY <2>1, <2>2
<1>. QED BY <1>3, <1>4, <1>5, <1>6, <1>7 DEF IInv

LEMMA LoginCommitStep ==
  ASSUME IInv, NEW r \in Requests, LoginCommit(r)
  PROVE  IInv'
<1>1. req[r] \in Request /\ RequestOK(req[r])
  BY AtRequest DEF LoginCommit, At
<1>2. req[r].new \in Hash /\ req[r].target \in UserIds \cup {Null}
  BY <1>1 DEF LoginCommit, At, Request, RequestOK, HashOK
<1>. QED BY <1>2, HashStep DEF LoginCommit

LEMMA ChangeCommitStep ==
  ASSUME IInv, NEW r \in Requests, ChangeCommit(r)
  PROVE  IInv'
<1>1. req[r] \in Request /\ RequestOK(req[r])
  BY AtRequest DEF ChangeCommit, At
<1>2. req[r].new \in Hash /\ req[r].target \in UserIds \cup {Null}
  BY <1>1 DEF ChangeCommit, At, Request, RequestOK, HashOK
<1>. QED BY <1>2, HashStep DEF ChangeCommit

(* A row is inserted, and perhaps an account that refers to it.             *)
LEMMA InsertStep ==
  ASSUME IInv, NEW r \in Requests, Finish(r),
         NEW u \in unborn, NEW row \in UserRow, row.holds = {},
         row.email # Null => row.hash # Null,
         users' = With(users, u, row), unborn' = unborn \ {u},
         \/ row.email # Null /\ telegram' = telegram
         \/ \E t \in TgIds \ DOMAIN telegram : telegram' = With(telegram, t, u),
         UNCHANGED history
  PROVE  IInv'
<1>1. u \notin DOMAIN users /\ u \in UserIds
  BY DEF IInv, TypeOK
<1>2. /\ DOMAIN users' = DOMAIN users \cup {u} /\ users'[u] = row
      /\ \A v \in DOMAIN users : users'[v] = users[v]
  BY <1>1 DEF With
<1>3. /\ DOMAIN telegram' \subseteq TgIds
      /\ \A t \in DOMAIN telegram : t \in DOMAIN telegram' /\ telegram'[t] = telegram[t]
      /\ \A t \in DOMAIN telegram' \ DOMAIN telegram : telegram'[t] = u
      /\ \A s, t \in DOMAIN telegram' \ DOMAIN telegram : s = t
      /\ row.email # Null \/ \E t \in DOMAIN telegram' : telegram'[t] = u
  BY DEF With, IInv, TypeOK
<1>4. TypeOK'
  BY <1>1, <1>2, <1>3 DEF IInv, TypeOK, Finish
<1>5. \A v \in DOMAIN users' : users'[v].email # Null => users'[v].hash # Null
  BY <1>2 DEF IInv
<1>6. EveryUserCanLogIn'
  <2>1. \A v \in DOMAIN users' :
          (users'[v].email # Null /\ users'[v].hash # Null) \/ Linked(v)' # {}
    BY <1>2, <1>3 DEF IInv, EveryUserCanLogIn, Linked
  <2>2. \A t \in DOMAIN telegram' : telegram'[t] \in DOMAIN users'
    BY <1>2, <1>3 DEF IInv, EveryUserCanLogIn
  <2>3. \A s, t \in DOMAIN telegram' : s # t => telegram'[s] # telegram'[t]
    BY <1>1, <1>3 DEF IInv, EveryUserCanLogIn
  <2>. QED BY <2>1, <2>2, <2>3 DEF EveryUserCanLogIn
<1>7. MergeDropsOnlyLateItems'
  BY DEF IInv, MergeDropsOnlyLateItems, history
<1>8. ASSUME NEW s \in Requests PROVE RequestOK(req[s])'
  <2>1. CASE s = r
    <3>1. req'[s] = Idle
      BY <2>1 DEF Finish, IInv, TypeOK
    <3>. QED BY <3>1, IdleOK
  <2>2. CASE s # r
    <3>1. req'[s] = req[s] /\ RequestOK(req[s])
      BY <2>2 DEF Finish, IInv, TypeOK
    <3>2. \A v : Held(v)' \subseteq Held(v)
      BY <1>2 DEF Held
    <3>. QED BY <1>2, <1>3, <3>1, <3>2, KeepRequest DEF history
  <2>. QED BY <2>1, <2>2
<1>. QED BY <1>4, <1>5, <1>6, <1>7, <1>8 DEF IInv

LEMMA RegisterCommitStep ==
  ASSUME IInv, NEW r \in Requests, RegisterCommit(r)
  PROVE  IInv'
<1>1. req[r] \in Request /\ RequestOK(req[r])
  BY AtRequest DEF RegisterCommit, At
<1>. DEFINE hash == [password |-> req[r].password, scheme |-> "argon2"]
            row == [email |-> req[r].email, holds |-> {}, hash |-> hash]
<1>2. CASE UNCHANGED tables
  BY <1>2, IdleStep DEF RegisterCommit
<1>3. CASE ~UNCHANGED tables
  <2>1. PICK u \in unborn : users' = With(users, u, row) /\ unborn' = unborn \ {u}
    BY <1>3 DEF RegisterCommit
  <2>2. telegram' = telegram
    BY <1>3 DEF RegisterCommit
  <2>3. hash \in Hash /\ req[r].email \in Emails
    BY <1>1 DEF RegisterCommit, At, RequestOK, InputOK, Hash
  <2>4. row \in UserRow /\ row.holds = {} /\ row.email # Null /\ row.hash # Null
    BY <2>3, AccountsAssumption DEF UserRow
  <2>. HIDE DEF row
  <2>. QED BY <2>1, <2>2, <2>4, InsertStep DEF RegisterCommit
<1>. QED BY <1>2, <1>3

LEMMA TelegramCommitStep ==
  ASSUME IInv, NEW r \in Requests, TelegramCommit(r)
  PROVE  IInv'
<1>1. req[r] \in Request /\ RequestOK(req[r])
  BY AtRequest DEF TelegramCommit, At
<1>. DEFINE row == [email |-> Null, hash |-> Null, holds |-> {}]
<1>2. CASE req[r].tg \in DOMAIN telegram
  BY <1>2, IdleStep DEF TelegramCommit
<1>3. CASE req[r].tg \notin DOMAIN telegram
  <2>1. PICK u \in unborn : /\ users' = With(users, u, row)
                            /\ telegram' = With(telegram, req[r].tg, u)
                            /\ unborn' = unborn \ {u}
    BY <1>3 DEF TelegramCommit
  <2>2. req[r].tg \in TgIds
    BY <1>1 DEF TelegramCommit, At, RequestOK, InputOK
  <2>3. row \in UserRow /\ row.holds = {} /\ row.email = Null
    BY DEF UserRow
  <2>. HIDE DEF row
  <2>. QED BY <1>3, <2>1, <2>2, <2>3, InsertStep DEF TelegramCommit
<1>. QED BY <1>2, <1>3

LEMMA AddItemStep ==
  ASSUME IInv, NEW u \in UserIds, NEW item \in Items, AddItem(u, item)
  PROVE  IInv'
<1>1. /\ u \in DOMAIN users /\ late \subseteq late' /\ UNCHANGED <<telegram, unborn, req, dropped>>
      /\ Counted(u, item) => <<u, item>> \in late'
  BY DEF AddItem
<1>2. /\ DOMAIN users' = DOMAIN users
      /\ \A v \in DOMAIN users :
           /\ users'[v].email = users[v].email /\ users'[v].hash = users[v].hash
           /\ users'[v] \in UserRow
           /\ \A i \in users'[v].holds : i \in users[v].holds \/ (v = u /\ i = item)
  BY DEF AddItem, IInv, TypeOK, UserRow
<1>3. TypeOK'
  BY <1>1, <1>2 DEF IInv, TypeOK
<1>4. \A v \in DOMAIN users' : users'[v].email # Null => users'[v].hash # Null
  BY <1>2 DEF IInv
<1>5. EveryUserCanLogIn'
  BY <1>1, <1>2 DEF IInv, EveryUserCanLogIn, Linked
<1>6. MergeDropsOnlyLateItems'
  BY <1>1 DEF IInv, MergeDropsOnlyLateItems
<1>7. ASSUME NEW s \in Requests PROVE RequestOK(req[s])'
  <2>1. RequestOK(req[s]) /\ req'[s] = req[s]
    BY <1>1 DEF IInv
  <2>2. InputOK(req[s])' /\ HashOK(req[s])'
    BY <2>1 DEF RequestOK, InputOK, HashOK
  <2>3. AccountOK(req[s])' /\ TargetOK(req[s])'
    BY <1>1, <1>2, <2>1 DEF IInv, EveryUserCanLogIn, RequestOK, AccountOK, Owns, TargetOK
  <2>4. \A i \in Held(req[s].user)' :
          i \in Held(req[s].user) \/ (req[s].user = u /\ i = item)
    BY <1>2, <2>1 DEF Held
  <2>5. CountOK(req[s])'
    <3>1. ASSUME req[s].op = "link", req[s].pc \in {"group", "commit"},
                 "wallet" \in Held(req[s].user)'
          PROVE  <<req[s].user, "wallet">> \in late'
      <4>1. CASE "wallet" \in Held(req[s].user)
        BY <1>1, <2>1, <3>1, <4>1 DEF RequestOK, CountOK
      <4>2. CASE req[s].user = u /\ item = "wallet"
        <5>1. Counted(u, item)
          BY <3>1, <4>2 DEF Counted
        <5>. QED BY <1>1, <4>2, <5>1
      <4>. QED BY <2>4, <3>1, <4>1, <4>2
    <3>2. ASSUME req[s].op = "link", req[s].pc = "commit", "group" \in Held(req[s].user)'
          PROVE  <<req[s].user, "group">> \in late'
      <4>1. CASE "group" \in Held(req[s].user)
        BY <1>1, <2>1, <3>2, <4>1 DEF RequestOK, CountOK
      <4>2. CASE req[s].user = u /\ item = "group"
        <5>1. Counted(u, item)
          BY <3>2, <4>2 DEF Counted
        <5>. QED BY <1>1, <4>2, <5>1
      <4>. QED BY <2>4, <3>2, <4>1, <4>2
    <3>. QED BY <2>1, <3>1, <3>2 DEF CountOK
  <2>. QED BY <2>2, <2>3, <2>5 DEF RequestOK
<1>. QED BY <1>3, <1>4, <1>5, <1>6, <1>7 DEF IInv

LEMMA RestartStep ==
  ASSUME IInv, Restart
  PROVE  IInv'
<1>1. TypeOK'
  BY DEF Restart, IInv, TypeOK, tables
<1>2. ASSUME NEW s \in Requests PROVE RequestOK(req[s])'
  BY IdleOK DEF Restart
<1>. QED BY <1>1, <1>2
         DEF Restart, IInv, EveryUserCanLogIn, MergeDropsOnlyLateItems, Linked, tables, history

(* The merge.  Whoever loses the account is deleted, or has an email.       *)
LEMMA LinkCommitStep ==
  ASSUME IInv, NEW r \in Requests, LinkCommit(r)
  PROVE  IInv'
<1>. DEFINE u == req[r].user
            target == req[r].target
            t == req[r].tg
            new == req[r].new
            gone == Linked(u) \ {t}
<1>1. req[r] \in Request /\ RequestOK(req[r])
  BY AtRequest DEF LinkCommit, At
<1>2. CASE t \notin DOMAIN telegram \/ target \notin DOMAIN users \/ Linked(target) \ {t} # {}
  BY <1>2, IdleStep DEF LinkCommit, history
<1>3. CASE ~(t \notin DOMAIN telegram \/ target \notin DOMAIN users \/ Linked(target) \ {t} # {})
  <2>1. /\ t \in DOMAIN telegram /\ target \in DOMAIN users /\ Linked(target) \subseteq {t}
        /\ telegram' = [s \in DOMAIN telegram \ gone |-> IF s = t THEN target ELSE telegram[s]]
        /\ users' = [v \in DOMAIN users \ {u} |->
                       IF v = target /\ new # Null
                         THEN [users[v] EXCEPT !.hash = new] ELSE users[v]]
        /\ dropped' = IF u \in DOMAIN users
                        THEN dropped \cup {[user |-> u, row |-> users[u]]} ELSE dropped
        /\ req' = [Orphaned(gone) EXCEPT ![r] = Idle]
        /\ unborn' = unborn /\ late' = late
    BY <1>3 DEF LinkCommit
  <2>2. /\ target # u /\ users[target].email # Null /\ new \in Hash \cup {Null}
        /\ telegram[t] = u \/ users[telegram[t]].email # Null
    BY <1>1, <2>1, AccountsAssumption
    DEF LinkCommit, At, RequestOK, AccountOK, Owns, TargetOK, Found, Confirmed, Request, IInv, TypeOK
  <2>3. /\ DOMAIN users' = DOMAIN users \ {u}
        /\ \A v \in DOMAIN users' :
             /\ users'[v].email = users[v].email /\ users'[v].holds = users[v].holds
             /\ users'[v] \in UserRow
             /\ users[v].hash # Null => users'[v].hash # Null
    BY <2>1, <2>2, AccountsAssumption DEF IInv, TypeOK, UserRow
  <2>4. /\ DOMAIN telegram' = DOMAIN telegram \ gone /\ t \in DOMAIN telegram'
        /\ telegram'[t] = target
        /\ \A s \in DOMAIN telegram' : s # t => telegram'[s] = telegram[s] /\ telegram[s] # u
    BY <2>1 DEF Linked
  <2>5. /\ req'[r] = Idle
        /\ \A s \in Requests \ {r} :
             req'[s] = IF req[s].op = "link" /\ req[s].tg \in gone
                         THEN [req[s] EXCEPT !.tg = Null] ELSE req[s]
    BY <2>1 DEF Orphaned
  <2>6. TypeOK'
    <3>1. \A s \in Requests \ {r} : req'[s] \in {Idle} \cup Request
      <4>. TAKE s \in Requests \ {r}
      <4>1. CASE req[s].op = "link"
        <5>1. req[s] \in Request
          BY <4>1, AtRequest
        <5>2. [req[s] EXCEPT !.tg = Null] \in Request
          BY <5>1 DEF Request
        <5>. QED BY <2>5, <5>1, <5>2
      <4>2. CASE req[s].op # "link"
        BY <4>2, <2>5 DEF IInv, TypeOK
      <4>. QED BY <4>1, <4>2
    <3>2. req' \in [Requests -> {Idle} \cup Request]
      BY <2>1, <2>5, <3>1 DEF Orphaned
    <3>. QED BY <2>1, <2>3, <2>4, <3>2 DEF IInv, TypeOK
  <2>7. \A v \in DOMAIN users' : users'[v].email # Null => users'[v].hash # Null
    BY <2>3 DEF IInv
  <2>8. EveryUserCanLogIn'
    <3>1. \A v \in DOMAIN users' :
            (users'[v].email # Null /\ users'[v].hash # Null) \/ Linked(v)' # {}
      <4>. SUFFICES ASSUME NEW v \in DOMAIN users', users'[v].email = Null
                    PROVE  Linked(v)' # {}
        BY <2>7
      <4>1. PICK s \in DOMAIN telegram : telegram[s] = v
        BY <2>3 DEF IInv, EveryUserCanLogIn, Linked
      <4>2. s # t /\ s \notin gone
        BY <2>2, <2>3, <4>1 DEF Linked
      <4>. QED BY <2>4, <4>1, <4>2 DEF Linked
    <3>2. \A s \in DOMAIN telegram' : telegram'[s] \in DOMAIN users'
      BY <2>1, <2>2, <2>3, <2>4 DEF IInv, EveryUserCanLogIn
    <3>3. \A x, y \in DOMAIN telegram' : x # y => telegram'[x] # telegram'[y]
      BY <2>1, <2>4 DEF IInv, EveryUserCanLogIn, Linked
    <3>. QED BY <3>1, <3>2, <3>3 DEF EveryUserCanLogIn
  <2>9. MergeDropsOnlyLateItems'
    <3>1. ASSUME u \in DOMAIN users, NEW item \in users[u].holds PROVE <<u, item>> \in late
      <4>1. item \in Items
        BY <3>1 DEF IInv, TypeOK, UserRow
      <4>. QED BY <1>1, <3>1, <4>1 DEF LinkCommit, At, RequestOK, CountOK, Held, Items
    <3>2. ASSUME NEW d \in dropped', NEW item \in d.row.holds
          PROVE  <<d.user, item>> \in late
      <4>1. CASE d \in dropped
        BY <4>1, <3>2 DEF IInv, MergeDropsOnlyLateItems
      <4>2. CASE d \notin dropped
        <5>1. u \in DOMAIN users /\ d = [user |-> u, row |-> users[u]]
          BY <2>1, <4>2
        <5>. QED BY <3>1, <3>2, <5>1
      <4>. QED BY <4>1, <4>2
    <3>. QED BY <2>1, <3>2 DEF MergeDropsOnlyLateItems
  <2>10. ASSUME NEW s \in Requests PROVE RequestOK(req[s])'
    <3>1. CASE s = r
      BY <2>5, <3>1, IdleOK
    <3>2. CASE s # r /\ req[s].op # "link"
      <4>1. req'[s] = req[s] /\ RequestOK(req[s])
        BY <2>5, <3>2 DEF IInv
      <4>. QED BY <3>2, <4>1 DEF RequestOK, InputOK, AccountOK, Owns, TargetOK, HashOK, CountOK
    <3>3. CASE s # r /\ req[s].op = "link"
      <4>1. req[s] \in Request /\ RequestOK(req[s])
        BY <3>3, AtRequest
      <4>2. /\ req'[s].op = req[s].op /\ req'[s].pc = req[s].pc
            /\ req'[s].user = req[s].user /\ req'[s].target = req[s].target
            /\ req'[s].email = req[s].email /\ req'[s].hash = req[s].hash
            /\ req'[s].new = req[s].new
            /\ req'[s].tg = Null \/ (req'[s].tg = req[s].tg /\ req[s].tg \notin gone)
        BY <2>5, <3>3, <4>1 DEF Request
      <4>3. InputOK(req[s])' /\ HashOK(req[s])'
        BY <3>3, <4>1, <4>2 DEF RequestOK, InputOK, HashOK
      <4>4. AccountOK(req[s])'
        <5>. DEFINE q == req[s]
        <5>. SUFFICES ASSUME q.pc # "read" PROVE AccountOK(req[s])'
          BY <4>2 DEF AccountOK
        <5>1. /\ q.user \in UserIds \ unborn
              /\ \/ q.tg = Null
                 \/ Owns(q.user, q.tg)
                 \/ q.tg \in DOMAIN telegram /\ users[telegram[q.tg]].email # Null
              /\ (q.user \in DOMAIN users /\ users[q.user].email = Null) => Owns(q.user, q.tg)
          BY <3>3, <4>1 DEF RequestOK, AccountOK
        <5>2. ASSUME q.tg # Null, q.tg \notin gone
              PROVE  /\ q.tg \in DOMAIN telegram'
                     /\ \/ telegram'[q.tg] = q.user
                        \/ users'[telegram'[q.tg]].email # Null
          <6>1. CASE q.tg = t
            BY <2>1, <2>2, <2>3, <2>4, <6>1
          <6>2. CASE q.tg # t
            BY <2>3, <2>4, <5>1, <5>2, <6>2 DEF IInv, EveryUserCanLogIn, Owns
          <6>. QED BY <6>1, <6>2
        <5>3. ASSUME q.user \in DOMAIN users', users'[q.user].email = Null
              PROVE  q.tg \in DOMAIN telegram' /\ telegram'[q.tg] = q.user /\ q.tg \notin gone
          <6>1. q.user # u /\ Owns(q.user, q.tg) /\ users[q.user].email = Null
            BY <2>3, <5>1, <5>3
          <6>2. q.tg # t
            BY <2>2, <6>1 DEF Owns
          <6>. QED BY <2>1, <6>1, <6>2 DEF Owns, Linked
        <5>4. q.tg \notin gone => req'[s].tg = q.tg
          BY <2>5, <3>3
        <5>. QED BY <2>1, <4>2, <5>1, <5>2, <5>3, <5>4 DEF AccountOK, Owns
      <4>5. TargetOK(req[s])'
        BY <2>1, <2>3, <4>1, <4>2 DEF RequestOK, TargetOK
      <4>6. \A v : Held(v)' \subseteq Held(v)
        BY <2>3 DEF Held
      <4>7. CountOK(req[s])'
        <5>1. CountOK(req[s]) /\ late' = late
          BY <2>1, <4>1 DEF RequestOK
        <5>2. Held(req[s].user)' \subseteq Held(req[s].user)
          <6>1. CASE req[s].user \in DOMAIN users'
            BY <2>3, <4>2, <6>1 DEF Held
          <6>2. CASE req[s].user \notin DOMAIN users'
            BY <4>2, <6>2 DEF Held
          <6>. QED BY <6>1, <6>2
        <5>. QED BY <4>2, <5>1, <5>2 DEF CountOK
      <4>. QED BY <4>3, <4>4, <4>5, <4>7 DEF RequestOK
    <3>. QED BY <3>1, <3>2, <3>3
  <2>. QED BY <2>6, <2>7, <2>8, <2>9, <2>10 DEF IInv
<1>. QED BY <1>2, <1>3

------------------------------------------------------------------------------

LEMMA Inductive == IInv /\ [Next]_vars => IInv'
<1>. SUFFICES ASSUME IInv, [Next]_vars PROVE IInv'
  OBVIOUS
<1>1. ASSUME NEW r \in Requests, Submit(r) PROVE IInv'
  BY <1>1, SubmitStep
<1>2. ASSUME NEW r \in Requests, Step(r) PROVE IInv'
  BY <1>2, RegisterReadStep, RegisterCommitStep, LoginReadStep, LoginVerifyStep,
     LoginCommitStep, ChangeReadStep, ChangeVerifyStep, ChangeCommitStep,
     TelegramReadStep, TelegramCommitStep, LinkReadStep, LinkTargetStep,
     LinkVerifyStep, LinkLinkedStep, LinkCountWalletsStep, LinkCountGroupsStep,
     LinkCommitStep
  DEF Step
<1>3. ASSUME NEW u \in UserIds, NEW item \in Items, AddItem(u, item) PROVE IInv'
  BY <1>3, AddItemStep
<1>4. CASE Restart
  BY <1>4, RestartStep
<1>5. CASE UNCHANGED vars
  BY <1>5
  DEF vars, IInv, TypeOK, EveryUserCanLogIn, MergeDropsOnlyLateItems, Linked,
      RequestOK, InputOK, AccountOK, Owns, TargetOK, HashOK, CountOK, Held
<1>. QED BY <1>1, <1>2, <1>3, <1>4, <1>5 DEF Next

LEMMA Initial == Init => IInv
<1>. SUFFICES ASSUME Init PROVE IInv
  OBVIOUS
<1>1. CASE users = [u \in {} |-> Null]
  BY <1>1
  DEF Init, IInv, TypeOK, EveryUserCanLogIn, MergeDropsOnlyLateItems, RequestOK, InputOK,
      AccountOK, Owns, TargetOK, HashOK, CountOK, Idle
<1>2. CASE \E u \in UserIds, e \in Emails, p \in Passwords, c \in LegacySchemes :
             users = [v \in {u} |-> Legacy(e, p, c)]
  <2>. PICK u \in UserIds, e \in Emails, p \in Passwords, c \in LegacySchemes :
         users = [v \in {u} |-> Legacy(e, p, c)]
    BY <1>2
  <2>1. /\ Legacy(e, p, c) \in UserRow /\ Legacy(e, p, c).email # Null
        /\ Legacy(e, p, c).hash # Null
    <3>1. Legacy(e, p, c).hash \in Hash /\ Legacy(e, p, c).email \in Emails
      BY AccountsAssumption DEF Legacy, Hash
    <3>. QED BY <3>1, AccountsAssumption DEF Legacy, UserRow
  <2>. QED BY <2>1
  DEF Init, IInv, TypeOK, EveryUserCanLogIn, MergeDropsOnlyLateItems, RequestOK, InputOK,
      AccountOK, Owns, TargetOK, HashOK, CountOK, Idle
<1>. QED BY <1>1, <1>2 DEF Init

LEMMA Invariance == Spec => []IInv
BY Initial, Inductive, PTL DEF Spec

(* The rows and the requests of auth.py have the columns they should, and no *)
(* id is handed out twice.                                                   *)
THEOREM AccountTypes == Spec => []TypeOK
BY Invariance, PTL DEF IInv

(* Every user has an email with a password, or a Telegram account, and       *)
(* every account leads to a user of its own: auth.py's registrations, first  *)
(* Telegram logins, password changes and merges, in any order.               *)
THEOREM UsersCanLogIn == Spec => []EveryUserCanLogIn
BY Invariance, PTL DEF IInv

(* The rows that a merge in auth.py deletes hold nothing but wallets and     *)
(* groups added after it had counted them.                                   *)
THEOREM MergesDropOnlyLateItems == Spec => []MergeDropsOnlyLateItems
BY Invariance, PTL DEF IInv

------------------------------------------------------------------------------
(* Which steps write to the tables.                                         *)
LEMMA Writers ==
  ASSUME [Next]_vars
  PROVE  \/ UNCHANGED <<users, telegram>>
         \/ \E r \in Requests : \/ RegisterCommit(r) \/ LoginCommit(r) \/ ChangeCommit(r)
                              \/ TelegramCommit(r) \/ LinkCommit(r)
         \/ \E u \in UserIds, item \in Items : AddItem(u, item)
<1>1. ASSUME NEW r \in Requests, Submit(r) PROVE UNCHANGED <<users, telegram>>
  BY <1>1 DEF Submit, Register, Login, Change, TelegramLogin, Link, tables
<1>2. ASSUME NEW r \in Requests, Step(r),
             ~(\/ RegisterCommit(r) \/ LoginCommit(r) \/ ChangeCommit(r)
               \/ TelegramCommit(r) \/ LinkCommit(r))
      PROVE  UNCHANGED <<users, telegram>>
  BY <1>2
  DEF Step, RegisterRead, LoginRead, LoginVerify, ChangeRead, ChangeVerify, TelegramRead,
      LinkRead, LinkTarget, LinkVerify, LinkLinked, LinkCountWallets, LinkCountGroups, tables
<1>3. CASE Restart \/ UNCHANGED vars
  BY <1>3 DEF Restart, vars, tables
<1>. QED BY <1>1, <1>2, <1>3 DEF Next

(* The account of a user without an email moves or goes in a merge that      *)
(* this user asked for, and in no other.                                     *)
AccountMove ==
  \A t \in DOMAIN telegram :
    /\ users[telegram[t]].email = Null
    /\ ~(t \in DOMAIN telegram' /\ telegram'[t] = telegram[t])
    => \E r \in Requests :
         /\ At(r, "link", "commit")
         /\ req[r].tg = t
         /\ req[r].user = telegram[t]

LEMMA AccountMoveStep ==
  ASSUME IInv, [Next]_vars
  PROVE  AccountMove
<1>1. ASSUME NEW r \in Requests, LinkCommit(r) PROVE AccountMove
  <2>. SUFFICES ASSUME NEW t \in DOMAIN telegram, users[telegram[t]].email = Null,
                       ~(t \in DOMAIN telegram' /\ telegram'[t] = telegram[t])
                PROVE  req[r].tg = t /\ req[r].user = telegram[t]
    BY <1>1 DEF AccountMove, LinkCommit
  <2>1. RequestOK(req[r]) /\ req[r].op = "link" /\ req[r].pc = "commit"
    BY <1>1 DEF LinkCommit, At, IInv
  <2>2. /\ req[r].tg \in DOMAIN telegram
        /\ \/ telegram[req[r].tg] = req[r].user
           \/ users[telegram[req[r].tg]].email # Null
    <3>1. req[r].tg \in DOMAIN telegram
      BY <1>1 DEF LinkCommit, tables
    <3>2. req[r].tg # Null
      BY <3>1, AccountsAssumption DEF IInv, TypeOK
    <3>. QED BY <2>1, <3>1, <3>2 DEF RequestOK, AccountOK, Owns
  <2>3. t = req[r].tg \/ t \in Linked(req[r].user)
    BY <1>1 DEF LinkCommit, tables, Linked
  <2>4. CASE t = req[r].tg
    BY <2>2, <2>4
  <2>5. CASE t # req[r].tg
    <3>1. t \in DOMAIN telegram /\ telegram[t] = req[r].user
      BY <2>3, <2>5 DEF Linked
    <3>2. telegram[req[r].tg] = req[r].user
      BY <2>1, <3>1 DEF RequestOK, AccountOK, Owns, IInv, EveryUserCanLogIn
    <3>. QED BY <2>2, <2>5, <3>1, <3>2 DEF IInv, EveryUserCanLogIn
  <2>. QED BY <2>4, <2>5
<1>2. ASSUME NEW r \in Requests, TelegramCommit(r) PROVE AccountMove
  BY <1>2 DEF AccountMove, TelegramCommit, With, tables
<1>3. ASSUME NEW r \in Requests, RegisterCommit(r) \/ LoginCommit(r) \/ ChangeCommit(r)
      PROVE  AccountMove
  BY <1>3 DEF AccountMove, RegisterCommit, LoginCommit, ChangeCommit, tables
<1>4. ASSUME NEW u \in UserIds, NEW item \in Items, AddItem(u, item) PROVE AccountMove
  BY <1>4 DEF AccountMove, AddItem
<1>5. CASE UNCHANGED <<users, telegram>>
  BY <1>5 DEF AccountMove
<1>. QED BY <1>1, <1>2, <1>3, <1>4, <1>5, Writers

(* A password changes by a change request, or with a hash to be replaced.    *)
PasswordChange ==
  \A u \in DOMAIN users \cap DOMAIN users' :
    (users[u].hash # Null /\ users'[u].hash.password # users[u].hash.password)
      => \E r \in Requests :
           /\ req[r].pc = "commit" /\ req[r].op \in {"change", "login", "link"}
           /\ req[r].target = u
           /\ req[r].op = "change" \/ req[r].hash.scheme # "argon2"

LEMMA PasswordChangeStep ==
  ASSUME IInv, [Next]_vars
  PROVE  PasswordChange
<1>1. ASSUME NEW r \in Requests, LinkCommit(r) PROVE PasswordChange
  <2>1. HashOK(req[r]) /\ req[r].op = "link" /\ req[r].pc = "commit"
    BY <1>1 DEF LinkCommit, At, IInv, RequestOK
  <2>2. req[r].new = Null \/ req[r].hash.scheme # "argon2"
    BY <2>1 DEF HashOK, Confirmed
  <2>3. \A v \in DOMAIN users \cap DOMAIN users' :
          users'[v].hash # users[v].hash => v = req[r].target /\ req[r].new # Null
    BY <1>1 DEF LinkCommit, tables
  <2>. QED BY <2>1, <2>2, <2>3 DEF PasswordChange
<1>2. ASSUME NEW r \in Requests, LoginCommit(r) PROVE PasswordChange
  <2>1. HashOK(req[r]) /\ req[r].op = "login" /\ req[r].pc = "commit"
    BY <1>2 DEF LoginCommit, At, IInv, RequestOK
  <2>2. \A v \in DOMAIN users \cap DOMAIN users' :
          users'[v].hash # users[v].hash => v = req[r].target
    BY <1>2 DEF LoginCommit, SetHash
  <2>. QED BY <2>1, <2>2 DEF PasswordChange, HashOK
<1>3. ASSUME NEW r \in Requests, ChangeCommit(r) PROVE PasswordChange
  <2>1. req[r].op = "change" /\ req[r].pc = "commit"
    BY <1>3 DEF ChangeCommit, At
  <2>2. \A v \in DOMAIN users \cap DOMAIN users' :
          users'[v].hash # users[v].hash => v = req[r].target
    BY <1>3 DEF ChangeCommit, SetHash
  <2>. QED BY <2>1, <2>2 DEF PasswordChange
<1>4. ASSUME NEW r \in Requests, RegisterCommit(r) \/ TelegramCommit(r) PROVE PasswordChange
  <2>1. \A v \in DOMAIN users : v \notin unborn
    BY DEF IInv, TypeOK
  <2>2. \A v \in DOMAIN users : users'[v] = users[v]
    BY <1>4, <2>1 DEF RegisterCommit, TelegramCommit, With, tables
  <2>. QED BY <2>2 DEF PasswordChange
<1>5. ASSUME NEW u \in UserIds, NEW item \in Items, AddItem(u, item) PROVE PasswordChange
  <2>1. \A v \in DOMAIN users : users'[v].hash = users[v].hash
    BY <1>5 DEF AddItem, IInv, TypeOK, UserRow
  <2>. QED BY <2>1 DEF PasswordChange
<1>6. CASE UNCHANGED <<users, telegram>>
  BY <1>6 DEF PasswordChange
<1>. QED BY <1>1, <1>2, <1>3, <1>4, <1>5, <1>6, Writers

(* /auth/telegram/link-email: only a Telegram-only user's own request takes  *)
(* its account elsewhere, whatever other merges are under way.              *)
THEOREM AccountsMoveByOwner == Spec => AccountMovesByItsOwner
<1>1. IInv /\ [Next]_vars => [AccountMove]_vars
  BY AccountMoveStep
<1>2. Spec => [][AccountMove]_vars
  BY <1>1, Invariance, PTL DEF Spec
<1>. QED BY <1>2 DEF AccountMovesByItsOwner, AccountMove

(* The commits of change-password, of login and of link-email: no other      *)
(* request replaces a password, and the last two only after reading a hash   *)
(* that is bcrypt, or Argon2id with outdated parameters.                     *)
THEOREM PasswordsChangeByRequest == Spec => PasswordChangesByRequest
<1>1. IInv /\ [Next]_vars => [PasswordChange]_vars
  BY PasswordChangeStep
<1>2. Spec => [][PasswordChange]_vars
  BY <1>1, Invariance, PTL DEF Spec
<1>. QED BY <1>2 DEF PasswordChangesByRequest, PasswordChange

==============================================================================
