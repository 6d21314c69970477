--------------------------- MODULE WalletSnapshots ---------------------------
(***************************************************************************)
(* Wallets together with the snapshots an external service collects for    *)
(* them: who asks for a run (the manual endpoint, the background task of   *)
(* create_wallet, the scheduler), and which snapshot app/services/          *)
(* wallet_view.py shows as the current value of a wallet whose address may *)
(* be patched at any moment.                                               *)
(*                                                                         *)
(* The service is known only by how this code uses it: it is asked over    *)
(* HTTP for a run, stamps the run when it creates it, reads each wallet's   *)
(* address at some later moment, and publishes a status at the end.        *)
(***************************************************************************)
EXTENDS Wallets

CONSTANT SnapIds  \* bound: primary keys the wallet_snapshots table may hand out

ASSUME WalletSnapshotsAssumption == SnapIds \subseteq Nat

VARIABLES
  posted,  \* wallets whose run the API is asking for, the request checked
  snaps,   \* wallet snapshots: a function on the ids in use
  readAt,  \* history: when the patch in a slot read its wallet
  raced    \* history: snapshots whose run began inside a patch of the address

snapVars == <<posted, snaps, readAt, raced>>
allVars == <<vars, snapVars>>

(* "readable" stands for both SNAPSHOT_READ_STATUSES, which the choice of   *)
(* the shown snapshot does not tell apart: success and partial_success.     *)
SnapRow ==
  [wallet: WalletIds, created: Nat, key: Addresses \cup {Null},
   status: {"pending", "running", "readable", "failed"}]

------------------------------------------------------------------------------
(* What the readers show *)

(* Faulty variant: without the address_updated_at condition.                *)
ReadableAnyRevision(w) ==
  {s \in DOMAIN snaps : snaps[s].wallet = w /\ snaps[s].status = "readable"}

(* Snapshots of the current address revision, as every reader filters them. *)
Readable(w) ==
  {s \in DOMAIN snaps : /\ snaps[s].wallet = w
                        /\ snaps[s].status = "readable"
                        /\ snaps[s].created >= wallets[w].addrAt}

(* Faulty variant: newest row first, whenever its run began.                *)
NewestById(s, t) == t <= s

(* ORDER BY created_at DESC, id DESC puts s first among the rows of a wallet. *)
Newest(s, t) ==
  \/ snaps[t].created < snaps[s].created
  \/ snaps[t].created = snaps[s].created /\ t <= s

(* The ids the row_number() = 1 filter leaves: one, or none.                *)
Latest(w) == {s \in Readable(w) : \A t \in Readable(w) : Newest(s, t)}

------------------------------------------------------------------------------
SnapInit ==
  /\ Init
  /\ posted = {}
  /\ snaps = [s \in {} |-> Null]
  /\ readAt = [r \in Requests |-> 0]
  /\ raced = {}

(* A patch that writes the address is open from its stamp, or from its read *)
(* when it does not stamp, until it commits.                                *)
OpenSince(r) ==
  IF req[r].write.addrAt # Unset THEN req[r].write.addrAt ELSE readAt[r]

WritesAddress(r) ==
  At(r, "update", "commit") /\ req[r].write.address # Unset /\ wallets' # wallets

History(r) ==
  /\ readAt' = [readAt EXCEPT ![r] = IF At(r, "update", "read") THEN clock
                                     ELSE IF req'[r] = Idle THEN 0 ELSE @]
  /\ raced' = IF WritesAddress(r)
                THEN raced \cup {s \in DOMAIN snaps :
                                   /\ snaps[s].wallet = req[r].wallet
                                   /\ snaps[s].created \in OpenSince(r) .. clock}
                ELSE raced

(* Requests on the wallet tables, as Wallets has them.                      *)
WalletStep ==
  /\ \/ \E r \in Requests : (Submit(r) \/ Step(r)) /\ History(r)
     \/ CreateGroup /\ UNCHANGED <<readAt, raced>>
  /\ UNCHANGED <<posted, snaps>>

(* POST /wallets/{wallet_id}/snapshots passes its checks.                   *)
RequestRun(u, w) ==
  /\ OwnedWallet(u, w)
  /\ wallets[w].active
  /\ posted' = posted \cup {w}
  /\ UNCHANGED <<vars, snaps, readAt, raced>>

(* The service creates a run over the wallets of W and stamps it.           *)
NewRun(W) ==
  /\ W # {}
  /\ ClockRoom
  /\ clock' = clock + 1
  /\ \E id \in [W -> SnapIds \ DOMAIN snaps] :
        /\ \A v, w \in W : id[v] = id[w] => v = w
        /\ snaps' = [s \in DOMAIN snaps \cup {id[w] : w \in W} |->
                       IF s \in DOMAIN snaps THEN snaps[s]
                       ELSE [wallet |-> CHOOSE w \in W : id[w] = s,
                             created |-> clock + 1, key |-> Null,
                             status |-> "pending"]]
  /\ UNCHANGED <<wallets, groupOwner, lock, req, firstAdded, readAt, raced>>

(* A call of create_snapshot_job for one wallet is over.  A timeout tells   *)
(* the caller nothing of the service, so the run may exist after an error.  *)
EndPost(w) ==
  \/ w \in posted /\ posted' = posted \ {w} /\ UNCHANGED autoJobs
  \/ w \in autoJobs /\ autoJobs' = autoJobs \ {w} /\ UNCHANGED posted

CreateWalletRun(w) == EndPost(w) /\ NewRun({w})

(* Refused, lost on the way, or answered with the run already active.       *)
NoNewRun(w) ==
  /\ EndPost(w)
  /\ UNCHANGED <<wallets, groupOwner, lock, req, clock, firstAdded, snaps, readAt, raced>>

(* A scheduler tick asks for all wallets of a user with an active wallet.   *)
ScheduledRun(u) ==
  /\ NewRun({w \in DOMAIN wallets : wallets[w].user = u /\ wallets[w].active})
  /\ UNCHANGED <<autoJobs, posted>>

(* The service reads the address it collects balances for.                  *)
Collect(s) ==
  /\ snaps[s].status = "pending"
  /\ snaps' = [snaps EXCEPT ![s].status = "running",
                            ![s].key = Key(wallets[snaps[s].wallet].address)]
  /\ UNCHANGED <<vars, posted, readAt, raced>>

Publish(s) ==
  /\ snaps[s].status = "running"
  /\ \E status \in {"readable", "failed"} :
        snaps' = [snaps EXCEPT ![s].status = status]
  /\ UNCHANGED <<vars, posted, readAt, raced>>

(* The API process stops; the service and the tables live on.               *)
SnapRestart ==
  /\ Restart
  /\ posted' = {}
  /\ readAt' = [r \in Requests |-> 0]
  /\ UNCHANGED <<snaps, raced>>

SnapNext ==
  \/ WalletStep
  \/ \E u \in Users, w \in WalletIds : RequestRun(u, w)
  \/ \E w \in WalletIds : CreateWalletRun(w) \/ NoNewRun(w)
  \/ \E u \in Users : ScheduledRun(u)
  \/ \E s \in DOMAIN snaps : Collect(s) \/ Publish(s)
  \/ SnapRestart

SnapSpec == SnapInit /\ [][SnapNext]_allVars

------------------------------------------------------------------------------
(* Properties *)

SnapTypeOK ==
  /\ TypeOK
  /\ posted \subseteq WalletIds
  /\ DOMAIN snaps \subseteq SnapIds
  /\ \A s \in DOMAIN snaps : snaps[s] \in SnapRow /\ snaps[s].wallet \in DOMAIN wallets
  /\ readAt \in [Requests -> Nat]
  /\ raced \subseteq DOMAIN snaps

OfCurrentAddress(s) == snaps[s].key = Key(wallets[snaps[s].wallet].address)

(* The value shown for a wallet is a value of the address it has now, unless *)
(* the run began while a patch of the address was open: between its stamp   *)
(* (or its read, for a patch that saw no change of key) and its commit.     *)
(* Stamps may reach the table out of order and a patch that only changes    *)
(* letter case never stamps; neither widens the exception.                  *)
StaleOnlyWhenRaced ==
  \A w \in DOMAIN wallets : \A s \in Latest(w) :
    OfCurrentAddress(s) \/ s \in raced

(* While the address revision stands, the shown snapshot is never replaced  *)
(* by one whose run began earlier, in whatever order runs finish and rows   *)
(* get their ids.                                                           *)
NewestStartedWins ==
  [][\A w \in DOMAIN wallets :
       wallets'[w].addrAt = wallets[w].addrAt =>
         \A s \in Latest(w) : \A t \in Latest(w)' :
            snaps'[t].created >= snaps[s].created]_allVars

==============================================================================
