------------------------------- MODULE Wallets -------------------------------
(***************************************************************************)
(* The wallet and wallet-group tables of the wallet API and the requests   *)
(* that change them: app/routers/wallets.py and app/routers/wallet_groups.py*)
(* over the constraints of app/db/models/wallet.py.                        *)
(*                                                                         *)
(* A request is a sequence of database round trips.  One action stands for *)
(* one round trip and the synchronous code up to the next await, so every  *)
(* interleaving of two requests at their awaits is a behaviour.  Reads are *)
(* READ COMMITTED: they see what was committed when they ran.  A flush and *)
(* its COMMIT are one action, because the row and index locks taken by the *)
(* flush make any other writer of that row or key wait for the outcome.    *)
(***************************************************************************)
EXTENDS Naturals, FiniteSets, TLC

CONSTANTS
  Users,       \* owners
  WalletIds,   \* primary keys the wallets table may hand out
  GroupIds,    \* primary keys the wallet_groups table may hand out
  Addresses,   \* EVM addresses as written by a client, letter case included
  Canon,       \* lower(btrim(address)), the key of the partial unique index
  Requests,    \* request slots: how many handlers may be in flight at once
  Payloads,    \* WalletCreate bodies a client may send
  Patches,     \* WalletUpdate bodies a client may send
  MaxClock,    \* bound: address changes the clock leaves room for
  Null,        \* SQL NULL / Python None
  Unset        \* a field the PATCH body does not mention

(* Bodies that pass the validators of WalletCreate: an EVM wallet has an    *)
(* address and a manual wallet has none.                                    *)
ValidBody(kind, address) == (kind = "evm") <=> (address # Null)

PayloadType ==
  [kind: {"evm", "manual"}, address: Addresses \cup {Null},
   group: GroupIds \cup {Null}]

PatchType ==
  [address: Addresses \cup {Null, Unset}, active: BOOLEAN \cup {Unset},
   group: GroupIds \cup {Null, Unset}]

ASSUME WalletsAssumption ==
  /\ Canon \in [Addresses -> Addresses]
  /\ \A p \in Payloads : p \in PayloadType /\ ValidBody(p.kind, p.address)
  /\ Patches \subseteq PatchType
  /\ MaxClock \in Nat
  /\ Null # Unset
  /\ {"unborn", "deleted"} \cap Users = {}
  /\ {Null, Unset} \cap (Addresses \cup GroupIds \cup WalletIds \cup Users
                           \cup Requests \cup BOOLEAN \cup Nat) = {}

VARIABLES
  wallets,    \* committed rows: a function on the ids in use
  groupOwner, \* committed groups: Users, or "unborn" / "deleted"
  lock,       \* pg_advisory_xact_lock(user_id): the request holding it
  req,        \* what each request slot is doing
  clock,      \* the clock datetime.now() and now() read
  firstAdded, \* FIRST_WALLET_ADDED, per user
  autoJobs    \* wallets whose background snapshot task is scheduled

vars == <<wallets, groupOwner, lock, req, clock, firstAdded, autoJobs>>

------------------------------------------------------------------------------
(* The tables *)

Row ==
  [user: Users, kind: {"evm", "manual"}, address: Addresses \cup {Null},
   active: BOOLEAN, group: GroupIds \cup {Null}, addrAt: Nat]

(* What a session will write: the columns whose value differs from the row  *)
(* it loaded; Unset marks a column the UPDATE statement does not name.      *)
Write ==
  [address: Addresses \cup {Null, Unset}, active: BOOLEAN \cup {Unset},
   group: GroupIds \cup {Null, Unset}, addrAt: Nat \cup {Unset}]

Or(new, old) == IF new = Unset THEN old ELSE new
Changed(new, old) == IF new = old THEN Unset ELSE new

(* Faulty variant: model_dump() without exclude_unset.                      *)
UpdatedUnsetToo(row, write) ==
  [row EXCEPT !.address = write.address, !.active = Or(write.active, @),
              !.group = Or(write.group, @), !.addrAt = Or(write.addrAt, @)]

Updated(row, write) ==
  [row EXCEPT !.address = Or(write.address, @),
              !.active  = Or(write.active, @),
              !.group   = Or(write.group, @),
              !.addrAt  = Or(write.addrAt, @)]

Key(address) == IF address = Null THEN Null ELSE Canon[address]

(* The predicate and the key of uq_wallets_active_evm_address.              *)
Indexed(row) == row.kind = "evm" /\ row.active /\ row.address # Null
SameKey(r1, r2) == r1.user = r2.user /\ Key(r1.address) = Key(r2.address)

(* Faulty variant: no uq_wallets_active_evm_address in the schema.          *)
ViolatesNothing(w, row) == FALSE

(* The unique index refuses row under id w.                                 *)
ViolatesUnique(w, row) ==
  /\ Indexed(row)
  /\ \E v \in DOMAIN wallets \ {w} :
        Indexed(wallets[v]) /\ SameKey(wallets[v], row)

(* The foreign key refuses a group that is not in the table.                *)
ViolatesForeignKey(group) == group # Null /\ groupOwner[group] \notin Users

(* Faulty variants: the queries without their user_id condition.            *)
AnyWallet(u, w) == w \in DOMAIN wallets
AnyGroup(u, g) == g = Null \/ groupOwner[g] \in Users

(* _get_owned_wallet, _get_owned_group and _validate_group_id               *)
OwnedWallet(u, w) == w \in DOMAIN wallets /\ wallets[w].user = u
OwnedGroup(u, g) == groupOwner[g] = u
ValidGroup(u, g) == g = Null \/ OwnedGroup(u, g)

(* _ensure_unique_active_evm_address finds an active wallet of u, other     *)
(* than w, with this address.                                               *)
AddressTaken(u, address, w) ==
  /\ address # Null
  /\ \E v \in DOMAIN wallets \ {w} :
        /\ wallets[v].user = u
        /\ Indexed(wallets[v])
        /\ Key(wallets[v].address) = Canon[address]

------------------------------------------------------------------------------
(* Requests *)

Idle == [op |-> "none", pc |-> "idle"]

NoPatch == [address |-> Unset, active |-> Unset, group |-> Unset]

NoWrite == [address |-> Unset, active |-> Unset, group |-> Unset, addrAt |-> Unset]

(* A create before and after its row is committed.                          *)
CreateReq ==
  [op: {"create"}, pc: {"lock", "group", "unique", "commit"}, user: Users,
   payload: Payloads, had: BOOLEAN, began: Nat]

CreatedReq ==
  [op: {"create"}, pc: {"event"}, user: Users, had: BOOLEAN, wallet: WalletIds]

(* A change before its wallet is read, with the row it loaded, and with the *)
(* columns it is about to commit.                                           *)
Changes == {"update", "delete", "restore"}

ReadReq ==
  [op: Changes, pc: {"read"}, user: Users, wallet: WalletIds,
   patch: Patches \cup {NoPatch}]

LoadedReq ==
  [op: Changes, pc: {"group", "unique"}, user: Users, wallet: WalletIds,
   patch: Patches \cup {NoPatch}, loaded: Row]

StagedReq ==
  [op: Changes, pc: {"commit"}, user: Users, wallet: WalletIds, write: Write]

GroupReq ==
  [op: {"deleteGroup"}, pc: {"read", "commit"}, user: Users, group: GroupIds]

ReqType ==
  {Idle} \cup CreateReq \cup CreatedReq \cup ReadReq \cup LoadedReq
    \cup StagedReq \cup GroupReq

At(r, op, pc) == req[r].op = op /\ req[r].pc = pc

Goto(r, pc) == req' = [req EXCEPT ![r].pc = pc]

(* The handler returns or raises; its transaction ends, and with it the     *)
(* advisory lock it may hold.                                               *)
Finish(r) == req' = [req EXCEPT ![r] = Idle]

(* Faulty variant: a session-level lock, which outlives the transaction.    *)
KeepLock(r) == UNCHANGED lock

Release(r) == lock' = [u \in Users |-> IF lock[u] = r THEN Null ELSE lock[u]]

Init ==
  /\ wallets = [w \in {} |-> Null]
  /\ groupOwner = [g \in GroupIds |-> "unborn"]
  /\ lock = [u \in Users |-> Null]
  /\ req = [r \in Requests |-> Idle]
  /\ clock = 0
  /\ firstAdded = [u \in Users |-> 0]
  /\ autoJobs = {}

------------------------------------------------------------------------------
(* POST /wallets *)

(* Bound: a create starts only while a primary key is left for it.          *)
IdRoom ==
  Cardinality(DOMAIN wallets) + Cardinality({q \in Requests :
    req[q].op = "create" /\ req[q].pc # "event"}) < Cardinality(WalletIds)

(* The session's transaction starts with the query of get_current_user: that *)
(* is the instant now() will stand for in the row's server defaults.        *)
StartCreate(r) ==
  /\ req[r] = Idle
  /\ IdRoom
  /\ \E u \in Users, p \in Payloads :
        req' = [req EXCEPT ![r] =
                  [op |-> "create", pc |-> "lock", user |-> u, payload |-> p,
                   had |-> FALSE, began |-> clock]]
  /\ UNCHANGED <<wallets, groupOwner, lock, clock, firstAdded, autoJobs>>

(* Faulty variant: has_wallet without the advisory lock.                    *)
CreateNoLock(r) ==
  /\ At(r, "create", "lock")
  /\ req' = [req EXCEPT ![r].pc = "group",
                        ![r].had = \E w \in DOMAIN wallets :
                                      wallets[w].user = req[r].user]
  /\ UNCHANGED <<wallets, groupOwner, lock, clock, firstAdded, autoJobs>>

(* The advisory lock, then has_wallet.  Only a holder of the lock inserts   *)
(* wallets of its user, so the two queries see the same table.              *)
CreateLock(r) ==
  /\ At(r, "create", "lock")
  /\ lock[req[r].user] = Null
  /\ lock' = [lock EXCEPT ![req[r].user] = r]
  /\ req' = [req EXCEPT ![r].pc = "group",
                        ![r].had = \E w \in DOMAIN wallets :
                                      wallets[w].user = req[r].user]
  /\ UNCHANGED <<wallets, groupOwner, clock, firstAdded, autoJobs>>

CreateValidateGroup(r) ==
  /\ At(r, "create", "group")
  /\ IF ValidGroup(req[r].user, req[r].payload.group)
       THEN Goto(r, "unique") /\ UNCHANGED lock
       ELSE Finish(r) /\ Release(r)                              \* 404
  /\ UNCHANGED <<wallets, groupOwner, clock, firstAdded, autoJobs>>

CreateEnsureUnique(r) ==
  /\ At(r, "create", "unique")
  /\ IF /\ req[r].payload.kind = "evm"
        /\ AddressTaken(req[r].user, req[r].payload.address, Null)
       THEN Finish(r) /\ Release(r)                              \* 409
       ELSE Goto(r, "commit") /\ UNCHANGED lock
  /\ UNCHANGED <<wallets, groupOwner, clock, firstAdded, autoJobs>>

NewRow(r) ==
  [user |-> req[r].user, kind |-> req[r].payload.kind,
   address |-> req[r].payload.address, active |-> TRUE,
   group |-> req[r].payload.group, addrAt |-> req[r].began]

(* INSERT and COMMIT: the database refuses a duplicate (409) or a group that *)
(* is gone (500); either way the lock goes with the transaction.            *)
CreateCommit(r) ==
  /\ At(r, "create", "commit")
  /\ \E w \in WalletIds \ DOMAIN wallets :
        IF ViolatesUnique(w, NewRow(r)) \/ ViolatesForeignKey(NewRow(r).group)
          THEN Finish(r) /\ UNCHANGED wallets
          ELSE /\ wallets' = [v \in DOMAIN wallets \cup {w} |->
                                IF v = w THEN NewRow(r) ELSE wallets[v]]
               /\ req' = [req EXCEPT ![r] =
                             [op |-> "create", pc |-> "event",
                              user |-> req[r].user, had |-> req[r].had,
                              wallet |-> w]]
  /\ Release(r)
  /\ UNCHANGED <<groupOwner, clock, firstAdded, autoJobs>>

(* After the refresh: the activation metric, the background snapshot task   *)
(* (create_wallet never makes an inactive wallet) and the 201 response.     *)
CreateRespond(r) ==
  /\ At(r, "create", "event")
  /\ firstAdded' = IF req[r].had THEN firstAdded
                   ELSE [firstAdded EXCEPT ![req[r].user] = @ + 1]
  /\ autoJobs' = autoJobs \cup {req[r].wallet}
  /\ Finish(r)
  /\ UNCHANGED <<wallets, groupOwner, lock, clock>>

------------------------------------------------------------------------------
(* PATCH, DELETE and POST .../restore on /wallets/{wallet_id} *)

MayStamp(q) ==
  /\ req[q].op = "update"
  /\ req[q].pc \in {"read", "group", "unique"}
  /\ req[q].patch.address # Unset

(* Bound: a patch that names the address starts only while the clock has    *)
(* room for every stamp in flight and its own.                              *)
ClockRoom == clock + Cardinality({q \in Requests : MayStamp(q)}) < MaxClock

StartChange(r) ==
  /\ req[r] = Idle
  /\ \E u \in Users, w \in WalletIds, op \in Changes :
        \E patch \in (IF op = "update" THEN Patches ELSE {NoPatch}) :
           /\ patch.address # Unset => ClockRoom
           /\ req' = [req EXCEPT ![r] = [op |-> op, pc |-> "read", user |-> u,
                                         wallet |-> w, patch |-> patch]]
  /\ UNCHANGED <<wallets, groupOwner, lock, clock, firstAdded, autoJobs>>

(* The request keeps the row it read, or stages the columns it will write.  *)
Load(r, pc) ==
  req' = [req EXCEPT ![r] =
            [op |-> req[r].op, pc |-> pc, user |-> req[r].user,
             wallet |-> req[r].wallet, patch |-> req[r].patch,
             loaded |-> wallets[req[r].wallet]]]

Stage(r, write) ==
  req' = [req EXCEPT ![r] =
            [op |-> req[r].op, pc |-> "commit", user |-> req[r].user,
             wallet |-> req[r].wallet, write |-> write]]

(* _get_owned_wallet: 404 for a wallet that is not there or not the user's.  *)
UpdateRead(r) ==
  /\ At(r, "update", "read")
  /\ IF OwnedWallet(req[r].user, req[r].wallet) THEN Load(r, "group") ELSE Finish(r)
  /\ UNCHANGED <<wallets, groupOwner, lock, clock, firstAdded, autoJobs>>

(* Faulty variant: an UPDATE that names every column of the loaded row.     *)
DeleteReadWholeRow(r) ==
  /\ At(r, "delete", "read")
  /\ IF OwnedWallet(req[r].user, req[r].wallet) /\ wallets[req[r].wallet].active
       THEN Stage(r, [NoWrite EXCEPT !.active = FALSE,
                                     !.address = wallets[req[r].wallet].address])
       ELSE Finish(r)
  /\ UNCHANGED <<wallets, groupOwner, lock, clock, firstAdded, autoJobs>>

(* A delete of an inactive wallet and a restore of an active one have their *)
(* answer at once.                                                          *)
DeleteRead(r) ==
  /\ At(r, "delete", "read")
  /\ IF OwnedWallet(req[r].user, req[r].wallet) /\ wallets[req[r].wallet].active
       THEN Stage(r, [NoWrite EXCEPT !.active = FALSE])
       ELSE Finish(r)
  /\ UNCHANGED <<wallets, groupOwner, lock, clock, firstAdded, autoJobs>>

RestoreRead(r) ==
  /\ At(r, "restore", "read")
  /\ IF OwnedWallet(req[r].user, req[r].wallet) /\ ~wallets[req[r].wallet].active
       THEN Load(r, "unique")
       ELSE Finish(r)
  /\ UNCHANGED <<wallets, groupOwner, lock, clock, firstAdded, autoJobs>>

(* Faulty variant: the patch is not validated against the stored type.      *)
UpdateValidateGroupOnly(r) ==
  /\ At(r, "update", "group")
  /\ IF req[r].patch.group # Unset => ValidGroup(req[r].user, req[r].patch.group)
       THEN Goto(r, "unique")
       ELSE Finish(r)
  /\ UNCHANGED <<wallets, groupOwner, lock, clock, firstAdded, autoJobs>>

(* _validate_group_id (404), then validate_wallet_network_state (422) when  *)
(* the patch names the address.                                             *)
UpdateValidate(r) ==
  LET patch == req[r].patch
      loaded == req[r].loaded
  IN
  /\ At(r, "update", "group")
  /\ IF /\ patch.group # Unset => ValidGroup(req[r].user, patch.group)
        /\ patch.address # Unset => ValidBody(loaded.kind, patch.address)
       THEN Goto(r, "unique")
       ELSE Finish(r)
  /\ UNCHANGED <<wallets, groupOwner, lock, clock, firstAdded, autoJobs>>

(* address_changed: the keys differ, Null standing for the empty string.    *)
AddressChanged(patch, loaded) ==
  patch.address # Unset /\ Key(patch.address) # Key(loaded.address)

(* Faulty variant: address_updated_at is left as it was.                    *)
AssignedNoStamp(patch, loaded, now) ==
  [address |-> Changed(patch.address, loaded.address),
   active  |-> Changed(patch.active, loaded.active),
   group   |-> Changed(patch.group, loaded.group),
   addrAt  |-> Unset]

(* The columns update_wallet sets, reduced to those that differ from the    *)
(* loaded row; address_updated_at is read off the clock before the commit.  *)
Assigned(patch, loaded, now) ==
  [address |-> Changed(patch.address, loaded.address),
   active  |-> Changed(patch.active, loaded.active),
   group   |-> Changed(patch.group, loaded.group),
   addrAt  |-> IF AddressChanged(patch, loaded) THEN now ELSE Unset]

(* _ensure_unique_active_evm_address for an EVM wallet that will be active  *)
(* (409), then the assignments, up to the await of the commit.              *)
UpdateEnsureUnique(r) ==
  LET patch == req[r].patch
      loaded == req[r].loaded
      stamps == AddressChanged(patch, loaded)
  IN
  /\ At(r, "update", "unique")
  /\ IF /\ loaded.kind = "evm"
        /\ Or(patch.active, loaded.active)
        /\ AddressTaken(req[r].user, Or(patch.address, loaded.address),
                        req[r].wallet)
       THEN Finish(r) /\ UNCHANGED clock
       ELSE /\ clock' = IF stamps THEN clock + 1 ELSE clock
            /\ Stage(r, Assigned(patch, loaded, clock + 1))
  /\ UNCHANGED <<wallets, groupOwner, lock, firstAdded, autoJobs>>

RestoreEnsureUnique(r) ==
  /\ At(r, "restore", "unique")
  /\ IF /\ req[r].loaded.kind = "evm"
        /\ AddressTaken(req[r].user, req[r].loaded.address, req[r].wallet)
       THEN Finish(r)
       ELSE Stage(r, [NoWrite EXCEPT !.active = TRUE])
  /\ UNCHANGED <<wallets, groupOwner, lock, clock, firstAdded, autoJobs>>

(* UPDATE and COMMIT, applied to the row as it is now, which another        *)
(* request may have changed since it was read.                              *)
CommitChange(r) ==
  LET w == req[r].wallet
      row == Updated(wallets[w], req[r].write)
  IN
  /\ req[r].op \in Changes /\ req[r].pc = "commit"
  /\ IF \/ ViolatesUnique(w, row)                                \* 409
        \/ req[r].write.group # Unset /\ ViolatesForeignKey(row.group) \* 500
       THEN UNCHANGED wallets
       ELSE wallets' = [wallets EXCEPT ![w] = row]
  /\ Finish(r)
  /\ UNCHANGED <<groupOwner, lock, clock, firstAdded, autoJobs>>

------------------------------------------------------------------------------
(* /wallet-groups *)

CreateGroup ==
  /\ \E g \in GroupIds, u \in Users :
        /\ groupOwner[g] = "unborn"
        /\ groupOwner' = [groupOwner EXCEPT ![g] = u]
  /\ UNCHANGED <<wallets, lock, req, clock, firstAdded, autoJobs>>

StartDeleteGroup(r) ==
  /\ req[r] = Idle
  /\ \E u \in Users, g \in GroupIds :
        req' = [req EXCEPT ![r] =
                  [op |-> "deleteGroup", pc |-> "read", user |-> u, group |-> g]]
  /\ UNCHANGED <<wallets, groupOwner, lock, clock, firstAdded, autoJobs>>

ReadGroup(r) ==
  /\ At(r, "deleteGroup", "read")
  /\ IF OwnedGroup(req[r].user, req[r].group)
       THEN Goto(r, "commit")
       ELSE Finish(r)                                            \* 404
  /\ UNCHANGED <<wallets, groupOwner, lock, clock, firstAdded, autoJobs>>

(* Deleting the group clears wallets.group_id (ON DELETE SET NULL).         *)
CommitDeleteGroup(r) ==
  LET g == req[r].group
  IN
  /\ At(r, "deleteGroup", "commit")
  /\ groupOwner' = [groupOwner EXCEPT ![g] = "deleted"]
  /\ wallets' = [w \in DOMAIN wallets |->
                   IF wallets[w].group = g
                     THEN [wallets[w] EXCEPT !.group = Null]
                     ELSE wallets[w]]
  /\ Finish(r)
  /\ UNCHANGED <<lock, clock, firstAdded, autoJobs>>

------------------------------------------------------------------------------
(* The API process stops: open transactions roll back, and background tasks *)
(* live in its memory only.                                                 *)
Restart ==
  /\ req' = [r \in Requests |-> Idle]
  /\ lock' = [u \in Users |-> Null]
  /\ autoJobs' = {}
  /\ UNCHANGED <<wallets, groupOwner, clock, firstAdded>>

(* The round trips of a request that has started.                           *)
Step(r) ==
  \/ CreateLock(r) \/ CreateValidateGroup(r) \/ CreateEnsureUnique(r)
  \/ CreateCommit(r) \/ CreateRespond(r)
  \/ UpdateRead(r) \/ DeleteRead(r) \/ RestoreRead(r) \/ UpdateValidate(r) \/ UpdateEnsureUnique(r)
  \/ RestoreEnsureUnique(r) \/ CommitChange(r)
  \/ ReadGroup(r) \/ CommitDeleteGroup(r)

Submit(r) == StartCreate(r) \/ StartChange(r) \/ StartDeleteGroup(r)

Next ==
  \/ \E r \in Requests : Submit(r) \/ Step(r)
  \/ CreateGroup
  \/ Restart

Spec == Init /\ [][Next]_vars

------------------------------------------------------------------------------
(* Properties *)

(* Every variable keeps its shape, whatever the interleaving.               *)
TypeOK ==
  /\ DOMAIN wallets \subseteq WalletIds
  /\ \A w \in DOMAIN wallets : wallets[w] \in Row
  /\ groupOwner \in [GroupIds -> Users \cup {"unborn", "deleted"}]
  /\ lock \in [Users -> Requests \cup {Null}]
  /\ req \in [Requests -> ReqType]
  /\ clock \in Nat
  /\ firstAdded \in [Users -> Nat]
  /\ autoJobs \subseteq WalletIds

(* No user ever has two active EVM wallets on one address, letter case      *)
(* aside, although create, update and restore all check first and write     *)
(* later, and only create takes the advisory lock.                          *)
UniqueActiveAddress ==
  \A v, w \in DOMAIN wallets :
    (v # w /\ Indexed(wallets[v]) /\ Indexed(wallets[w]))
      => ~SameKey(wallets[v], wallets[w])

(* A wallet's group exists and belongs to the wallet's owner, although the  *)
(* group is validated in one round trip, written in a later one, and may be *)
(* deleted between the two.                                                 *)
GroupOfOwner ==
  \A w \in DOMAIN wallets :
    wallets[w].group # Null => groupOwner[wallets[w].group] = wallets[w].user

(* The activation metric counts a user at most once, and only a user who    *)
(* has a wallet, however many first creates run at once and fail or not.    *)
FirstAddedOnce ==
  \A u \in Users :
    /\ firstAdded[u] <= 1
    /\ firstAdded[u] = 1 => \E w \in DOMAIN wallets : wallets[w].user = u

(* What WalletCreate's validator promises survives partial updates of a row *)
(* by concurrent patches: EVM wallets have an address, manual ones do not.  *)
NetworkStateValid ==
  \A w \in DOMAIN wallets : ValidBody(wallets[w].kind, wallets[w].address)

(* An address key changes only in a step of a patch that asked for it, made *)
(* by the wallet's owner; delete, restore and group changes leave it alone. *)
AddressChangesOnlyByOwnersPatch ==
  [][\A w \in DOMAIN wallets :
       wallets'[w].address # wallets[w].address =>
         \E r \in Requests :
            /\ At(r, "update", "commit")
            /\ req[r].wallet = w
            /\ req[r].user = wallets[w].user
            /\ req[r].write.address = wallets'[w].address]_vars

(* Fairness: the server keeps running a request it has accepted, and the    *)
(* database grants an advisory lock to its waiters in turn.                 *)
Fairness ==
  \A r \in Requests : WF_vars(Step(r)) /\ SF_vars(CreateLock(r))

FairSpec == Spec /\ Fairness

(* Every accepted request is answered: no two handlers wait for each other, *)
(* and a create that waits for the advisory lock gets it.                   *)
RequestsAnswered ==
  \A r \in Requests : (req[r] # Idle) ~> (req[r] = Idle)

==============================================================================
