------------------------------ MODULE Accounts ------------------------------
(***************************************************************************)
(* Users and their ways in: app/routers/auth.py over the users and the     *)
(* telegram_accounts tables.  Registration and password login by email,    *)
(* login by Telegram identity, change of password, and the merge of a      *)
(* Telegram user into an email user.                                       *)
(*                                                                         *)
(* One action is one database round trip, or the hashing done in a worker   *)
(* thread, and the code up to the next await; a flush is one action with    *)
(* the COMMIT after it.  Tokens are not revoked, so a request may name any  *)
(* user; get_current_user turns away one that is not there.                *)
(***************************************************************************)
EXTENDS Naturals, FiniteSets

CONSTANTS
  UserIds,    \* bound: primary keys the users table may hand out
  Emails,     \* addresses as normalize_email leaves them
  TgIds,      \* Telegram user ids
  Passwords,
  Requests,   \* request slots
  Ops,        \* bound: the kinds of requests that are sent
  LegacySchemes, \* bound: what may have made a hash from before the program starts
  Null

OpNames == {"register", "login", "change", "telegram", "link"}

(* What auth_hash tells of a password, and what made it: bcrypt, Argon2id    *)
(* with parameters the hasher no longer uses, or with those it uses now.     *)
Hash == [password: Passwords, scheme: {"bcrypt", "outdated", "argon2"}]

ASSUME AccountsAssumption ==
  /\ Ops \subseteq OpNames
  /\ LegacySchemes \subseteq {"bcrypt", "outdated"}
  /\ Null \notin UserIds \cup Emails \cup TgIds \cup Passwords \cup Hash

VARIABLES
  users,     \* rows: a function on the ids in use
  telegram,  \* telegram_accounts.user_id: a function on the identities known
  unborn,    \* ids the sequence has not handed out
  req,       \* what each request slot is doing
  late,      \* history: items that were added while a merge had counted them
  dropped    \* history: rows that a merge has deleted, with what they held

vars == <<users, telegram, unborn, req, late, dropped>>

(* What the merge refuses to drop: wallets and wallet groups.               *)
Items == {"wallet", "group"}

UserRow ==
  [email: Emails \cup {Null}, hash: Hash \cup {Null}, holds: SUBSET Items]

Idle == [op |-> "none", pc |-> "idle"]

(* user: who asks (Null if nobody is logged in); target: the row found by   *)
(* email; tg: the Telegram identity; hash: the stored hash that was read;   *)
(* new: the hash that will be stored, Null for none.                        *)
Request ==
  [op: OpNames, pc: {"read", "hash", "commit", "target", "verify", "linked",
                     "wallet", "group"},
   user: UserIds \cup {Null}, email: Emails \cup {Null},
   password: Passwords \cup {Null}, next: Passwords \cup {Null},
   tg: TgIds \cup {Null}, target: UserIds \cup {Null},
   hash: Hash \cup {Null}, new: Hash \cup {Null}]

NewRequest(op) ==
  [op |-> op, pc |-> "read", user |-> Null, email |-> Null, password |-> Null,
   next |-> Null, tg |-> Null, target |-> Null, hash |-> Null, new |-> Null]

(* An email user from before Argon2id, or from before its parameters were   *)
(* changed, may exist when the program starts.                              *)
Legacy(email, password, scheme) ==
  [email |-> email, hash |-> [password |-> password, scheme |-> scheme],
   holds |-> {}]

Init ==
  /\ \/ users = [u \in {} |-> Null]
     \/ \E u \in UserIds, e \in Emails, p \in Passwords, s \in LegacySchemes :
           users = [v \in {u} |-> Legacy(e, p, s)]
  /\ unborn = UserIds \ DOMAIN users
  /\ telegram = [t \in {} |-> Null]
  /\ req = [r \in Requests |-> Idle]
  /\ late = {}
  /\ dropped = {}

------------------------------------------------------------------------------
At(r, op, pc) == req[r].op = op /\ req[r].pc = pc

Goto(r, pc) == req' = [req EXCEPT ![r].pc = pc]
Finish(r) == req' = [req EXCEPT ![r] = Idle]

tables == <<users, telegram, unborn>>
history == <<late, dropped>>

ByEmail(e) == {u \in DOMAIN users : users[u].email = e}
Linked(u) == {t \in DOMAIN telegram : telegram[t] = u}

With(f, key, value) == [k \in DOMAIN f \cup {key} |-> IF k = key THEN value ELSE f[k]]

(* Faulty variant: every successful login stores a new hash.                *)
ReplacementAlways(password, hash) == [password |-> password, scheme |-> "argon2"]

(* verify_password_and_update: whether the password is the one, and the hash *)
(* that shall replace the stored one: none for an Argon2id hash, unless      *)
(* check_needs_rehash.                                                       *)
Verified(password, hash) == hash # Null /\ hash.password = password
Replacement(password, hash) ==
  IF hash.scheme = "argon2" THEN Null ELSE [password |-> password, scheme |-> "argon2"]

SetHash(u, hash) ==
  users' = IF hash # Null /\ u \in DOMAIN users
             THEN [users EXCEPT ![u].hash = hash] ELSE users

Start(r, q) == req[r] = Idle /\ q.op \in Ops /\ req' = [req EXCEPT ![r] = q]

------------------------------------------------------------------------------
(* POST /auth/register                                                      *)

Register(r) ==
  /\ \E e \in Emails, p \in Passwords :
        Start(r, [NewRequest("register") EXCEPT !.email = e, !.password = p])
  /\ UNCHANGED <<tables, history>>

(* 409 when the email is taken; else the password is hashed in a thread.    *)
RegisterRead(r) ==
  /\ At(r, "register", "read")
  /\ IF ByEmail(req[r].email) # {} THEN Finish(r) ELSE Goto(r, "commit")
  /\ UNCHANGED <<tables, history>>

(* INSERT and COMMIT; users.email is unique.                                *)
RegisterCommit(r) ==
  /\ At(r, "register", "commit")
  /\ IF ByEmail(req[r].email) # {}
       THEN UNCHANGED tables
       ELSE /\ \E u \in unborn :
                 /\ users' = With(users, u,
                      [email |-> req[r].email, holds |-> {},
                       hash |-> [password |-> req[r].password, scheme |-> "argon2"]])
                 /\ unborn' = unborn \ {u}
            /\ UNCHANGED telegram
  /\ Finish(r)
  /\ UNCHANGED history

------------------------------------------------------------------------------
(* POST /auth/login and POST /auth/change-password                          *)

Login(r) ==
  /\ \E e \in Emails, p \in Passwords :
        Start(r, [NewRequest("login") EXCEPT !.email = e, !.password = p])
  /\ UNCHANGED <<tables, history>>

(* The row found by email, and its hash, which the thread verifies.         *)
LoginRead(r) ==
  /\ At(r, "login", "read")
  /\ \/ /\ \E u \in ByEmail(req[r].email) :
             /\ users[u].hash # Null
             /\ req' = [req EXCEPT ![r].pc = "verify", ![r].target = u,
                                   ![r].hash = users[u].hash]
     \/ /\ \A u \in ByEmail(req[r].email) : users[u].hash = Null
        /\ Finish(r)                                             \* 401
  /\ UNCHANGED <<tables, history>>

(* A current hash needs no write: the token is issued at once.              *)
LoginVerify(r) ==
  LET new == Replacement(req[r].password, req[r].hash)
  IN
  /\ At(r, "login", "verify")
  /\ IF Verified(req[r].password, req[r].hash) /\ new # Null
       THEN req' = [req EXCEPT ![r].pc = "commit", ![r].new = new]
       ELSE Finish(r)
  /\ UNCHANGED <<tables, history>>

(* UPDATE users SET auth_hash WHERE id: over whatever hash is there by now.  *)
LoginCommit(r) ==
  /\ At(r, "login", "commit")
  /\ SetHash(req[r].target, req[r].new)
  /\ Finish(r)
  /\ UNCHANGED <<telegram, unborn, history>>

Change(r) ==
  /\ \E u \in UserIds, p, q \in Passwords :
        Start(r, [NewRequest("change") EXCEPT !.user = u, !.password = p, !.next = q])
  /\ UNCHANGED <<tables, history>>

(* get_current_user (401), then 409 for an account without a password.      *)
ChangeRead(r) ==
  /\ At(r, "change", "read")
  /\ IF req[r].user \in DOMAIN users /\ users[req[r].user].hash # Null
       THEN req' = [req EXCEPT ![r].pc = "verify", ![r].target = req[r].user,
                               ![r].hash = users[req[r].user].hash]
       ELSE Finish(r)
  /\ UNCHANGED <<tables, history>>

(* Two calls in a worker thread: verify (400), then hash.                   *)
ChangeVerify(r) ==
  /\ At(r, "change", "verify")
  /\ IF Verified(req[r].password, req[r].hash)
       THEN req' = [req EXCEPT ![r].pc = "commit",
                      ![r].new = [password |-> req[r].next, scheme |-> "argon2"]]
       ELSE Finish(r)
  /\ UNCHANGED <<tables, history>>

ChangeCommit(r) ==
  /\ At(r, "change", "commit")
  /\ SetHash(req[r].target, req[r].new)
  /\ Finish(r)
  /\ UNCHANGED <<telegram, unborn, history>>

------------------------------------------------------------------------------
(* POST /auth/telegram                                                      *)

TelegramLogin(r) ==
  /\ \E t \in TgIds : Start(r, [NewRequest("telegram") EXCEPT !.tg = t])
  /\ UNCHANGED <<tables, history>>

(* A known identity is looked up; its user may be gone by then (401), and   *)
(* the profile columns it updates are not modelled.                         *)
TelegramRead(r) ==
  /\ At(r, "telegram", "read")
  /\ IF req[r].tg \in DOMAIN telegram THEN Finish(r) ELSE Goto(r, "commit")
  /\ UNCHANGED <<tables, history>>

(* Faulty variant: the new user is committed before its Telegram account.   *)
TelegramCommitUserFirst(r) ==
  /\ At(r, "telegram", "commit")
  /\ \E u \in unborn :
        /\ users' = With(users, u, [email |-> Null, hash |-> Null, holds |-> {}])
        /\ telegram' = IF req[r].tg \in DOMAIN telegram THEN telegram
                       ELSE With(telegram, req[r].tg, u)
        /\ unborn' = unborn \ {u}
  /\ Finish(r)
  /\ UNCHANGED history

(* INSERT of the user, of the account (telegram_user_id is unique) and of   *)
(* its settings, in one transaction: the loser of a race leaves nothing.    *)
TelegramCommit(r) ==
  /\ At(r, "telegram", "commit")
  /\ IF req[r].tg \in DOMAIN telegram
       THEN UNCHANGED tables
       ELSE \E u \in unborn :
              /\ users' = With(users, u, [email |-> Null, hash |-> Null, holds |-> {}])
              /\ telegram' = With(telegram, req[r].tg, u)
              /\ unborn' = unborn \ {u}
  /\ Finish(r)
  /\ UNCHANGED history

------------------------------------------------------------------------------
(* POST /auth/telegram/link-email                                           *)

Link(r) ==
  /\ \E u \in UserIds, e \in Emails, p \in Passwords :
        Start(r, [NewRequest("link") EXCEPT !.user = u, !.email = e, !.password = p])
  /\ UNCHANGED <<tables, history>>

(* Faulty variant: any Telegram account will do.                            *)
LinkReadAny(r) ==
  /\ At(r, "link", "read")
  /\ req[r].user \in DOMAIN users
  /\ \E t \in DOMAIN telegram : req' = [req EXCEPT ![r].pc = "target", ![r].tg = t]
  /\ UNCHANGED <<tables, history>>

(* get_current_user (401) and the user's Telegram account (403).            *)
LinkRead(r) ==
  /\ At(r, "link", "read")
  /\ \/ /\ req[r].user \in DOMAIN users
        /\ \E t \in Linked(req[r].user) :
              req' = [req EXCEPT ![r].pc = "target", ![r].tg = t]
     \/ /\ req[r].user \notin DOMAIN users \/ Linked(req[r].user) = {}
        /\ Finish(r)
  /\ UNCHANGED <<tables, history>>

LinkTarget(r) ==
  /\ At(r, "link", "target")
  /\ \/ \E u \in ByEmail(req[r].email) :
           /\ users[u].hash # Null
           /\ req' = [req EXCEPT ![r].pc = "verify", ![r].target = u,
                                 ![r].hash = users[u].hash]
     \/ /\ \A u \in ByEmail(req[r].email) : users[u].hash = Null
        /\ Finish(r)                                             \* 401
  /\ UNCHANGED <<tables, history>>

(* A merge with oneself is a no-op.                                         *)
LinkVerify(r) ==
  /\ At(r, "link", "verify")
  /\ IF Verified(req[r].password, req[r].hash) /\ req[r].target # req[r].user
       THEN req' = [req EXCEPT ![r].pc = "linked",
                      ![r].new = Replacement(req[r].password, req[r].hash)]
       ELSE Finish(r)
  /\ UNCHANGED <<tables, history>>

(* 409 when the target has a Telegram account.                              *)
LinkLinked(r) ==
  /\ At(r, "link", "linked")
  /\ IF Linked(req[r].target) = {} THEN Goto(r, "wallet") ELSE Finish(r)
  /\ UNCHANGED <<tables, history>>

(* A merge under way keeps the account row it has loaded: none, once it is   *)
(* deleted, even if the identity comes back in a new row.                    *)
Orphaned(gone) ==
  [r \in Requests |-> IF req[r].op = "link" /\ req[r].tg \in gone
                        THEN [req[r] EXCEPT !.tg = Null] ELSE req[r]]

Held(u) == IF u \in DOMAIN users THEN users[u].holds ELSE {}

(* 409 when the user to be merged has wallets, then when it has groups.     *)
LinkCountWallets(r) ==
  /\ At(r, "link", "wallet")
  /\ IF "wallet" \in Held(req[r].user) THEN Finish(r) ELSE Goto(r, "group")
  /\ UNCHANGED <<tables, history>>

(* Faulty variant: groups are not counted.                                  *)
LinkSkipGroups(r) ==
  /\ At(r, "link", "group")
  /\ Goto(r, "commit")
  /\ UNCHANGED <<tables, history>>

LinkCountGroups(r) ==
  /\ At(r, "link", "group")
  /\ IF "group" \in Held(req[r].user) THEN Finish(r) ELSE Goto(r, "commit")
  /\ UNCHANGED <<tables, history>>

(* The account row moves (user_id is unique and refers to a user), the      *)
(* target's hash may be upgraded, and the user is deleted with all it holds,*)
(* another account included.  An UPDATE of a row that is gone fails, a      *)
(* DELETE of one does not.                                                  *)
LinkCommit(r) ==
  LET u == req[r].user
      target == req[r].target
      t == req[r].tg
      gone == Linked(u) \ {t}
      rest == [v \in DOMAIN users \ {u} |->
                 IF v = target /\ req[r].new # Null
                   THEN [users[v] EXCEPT !.hash = req[r].new] ELSE users[v]]
  IN
  /\ At(r, "link", "commit")
  /\ IF t \notin DOMAIN telegram \/ target \notin DOMAIN users \/ Linked(target) \ {t} # {}
       THEN Finish(r) /\ UNCHANGED <<tables, dropped>>          \* 500
       ELSE /\ telegram' = [s \in DOMAIN telegram \ gone |->
                              IF s = t THEN target ELSE telegram[s]]
            /\ users' = rest
            /\ dropped' = IF u \in DOMAIN users
                            THEN dropped \cup {[user |-> u, row |-> users[u]]}
                            ELSE dropped
            /\ req' = [Orphaned(gone) EXCEPT ![r] = Idle]
            /\ UNCHANGED unborn
  /\ UNCHANGED late

------------------------------------------------------------------------------
(* POST /wallets and POST /wallet-groups, as far as a merge can see them.   *)
Counted(u, item) ==
  \E r \in Requests :
     /\ req[r].op = "link" /\ req[r].user = u
     /\ req[r].pc \in (IF item = "wallet" THEN {"group", "commit"} ELSE {"commit"})

AddItem(u, item) ==
  /\ u \in DOMAIN users
  /\ "link" \in Ops
  /\ item \notin users[u].holds
  /\ users' = [users EXCEPT ![u].holds = @ \cup {item}]
  /\ late' = IF Counted(u, item) THEN late \cup {<<u, item>>} ELSE late
  /\ UNCHANGED <<telegram, unborn, req, dropped>>

(* The server stops: open transactions roll back.                           *)
Restart ==
  /\ \E r \in Requests : req[r] # Idle
  /\ req' = [r \in Requests |-> Idle]
  /\ UNCHANGED <<tables, history>>

Submit(r) == Register(r) \/ Login(r) \/ Change(r) \/ TelegramLogin(r) \/ Link(r)

Step(r) ==
  \/ RegisterRead(r) \/ RegisterCommit(r)
  \/ LoginRead(r) \/ LoginVerify(r) \/ LoginCommit(r)
  \/ ChangeRead(r) \/ ChangeVerify(r) \/ ChangeCommit(r)
  \/ TelegramRead(r) \/ TelegramCommit(r)
  \/ LinkRead(r) \/ LinkTarget(r) \/ LinkVerify(r) \/ LinkLinked(r)
  \/ LinkCountWallets(r) \/ LinkCountGroups(r) \/ LinkCommit(r)

Next ==
  \/ \E r \in Requests : Submit(r) \/ Step(r)
  \/ \E u \in UserIds, item \in Items : AddItem(u, item)
  \/ Restart

Spec == Init /\ [][Next]_vars

(* Fairness: the server keeps running a request it has accepted.            *)
FairSpec == Spec /\ \A r \in Requests : WF_vars(Step(r))

------------------------------------------------------------------------------
(* Properties *)

TypeOK ==
  /\ DOMAIN users \subseteq UserIds /\ \A u \in DOMAIN users : users[u] \in UserRow
  /\ DOMAIN telegram \subseteq TgIds
  /\ unborn \subseteq UserIds \ DOMAIN users
  /\ req \in [Requests -> {Idle} \cup Request]

(* Every user can log in, by password or by Telegram, and every Telegram    *)
(* account leads to one user of its own, whatever merges and first logins   *)
(* race.                                                                    *)
EveryUserCanLogIn ==
  /\ \A u \in DOMAIN users :
        (users[u].email # Null /\ users[u].hash # Null) \/ Linked(u) # {}
  /\ \A t \in DOMAIN telegram : telegram[t] \in DOMAIN users
  /\ \A s, t \in DOMAIN telegram : s # t => telegram[s] # telegram[t]

(* The Telegram account of a user without an email goes to another user, or  *)
(* is deleted, only in a merge which that user asked for.  (A user with an   *)
(* email may lose it to a merge its former user still had under way.)        *)
AccountMovesByItsOwner ==
  [][\A t \in DOMAIN telegram :
       /\ users[telegram[t]].email = Null
       /\ ~(t \in DOMAIN telegram' /\ telegram'[t] = telegram[t])
       => \E r \in Requests :
            /\ At(r, "link", "commit")
            /\ req[r].tg = t
            /\ req[r].user = telegram[t]]_vars

(* A merge deletes portfolio data only if it was added between the count    *)
(* and the commit.                                                          *)
MergeDropsOnlyLateItems ==
  \A d \in dropped : \A item \in d.row.holds : <<d.user, item>> \in late

(* auth.py, comment of telegram_link_email: users are merged only before    *)
(* they acquire portfolio data.                                             *)
MergedUsersHoldNothing == \A d \in dropped : d.row.holds = {}

(* README: a successful login upgrades the hash.  The commit of a login,    *)
(* which ends the request, changes how the password is stored and not which *)
(* one it is: it may not bring back a password that was changed meanwhile.  *)
UpgradeKeepsPassword ==
  [][\A r \in Requests :
       (At(r, "login", "commit") /\ req'[r] = Idle /\ users' # users)
          => users'[req[r].target].hash.password = users[req[r].target].hash.password]_vars

(* A password changes only by the commit of a change request that verified  *)
(* one, or of a login or a merge which read a hash that is to be replaced   *)
(* (bcrypt, or Argon2id with outdated parameters): a login or a merge that  *)
(* read an up-to-date hash never undoes a change of password.               *)
PasswordChangesByRequest ==
  [][\A u \in DOMAIN users \cap DOMAIN users' :
       (users[u].hash # Null /\ users'[u].hash.password # users[u].hash.password)
         => \E r \in Requests :
              /\ req[r].pc = "commit" /\ req[r].op \in {"change", "login", "link"}
              /\ req[r].target = u
              /\ req[r].op = "change" \/ req[r].hash.scheme # "argon2"]_vars

==============================================================================
