-------------------------- MODULE WalletSnapshotsProof --------------------------
(***************************************************************************)
(* Theorems about WalletSnapshots, for any users, wallets, snapshot ids,    *)
(* request slots and bodies that satisfy the assumptions of Wallets and     *)
(* WalletSnapshots: what is shown as the value of a wallet belongs to the   *)
(* address it has now, and never goes back to an earlier run.               *)
(***************************************************************************)
EXTENDS WalletSnapshots, WalletsProof

USE WalletsAssumption, WalletSnapshotsAssumption

------------------------------------------------------------------------------
(* The inductive invariant *)

(* Whoever asks for a run, or is about to, asks for a wallet that is there. *)
PlacedInv ==
  /\ posted \cup autoJobs \subseteq DOMAIN wallets
  /\ \A r \in Requests : At(r, "create", "event") => req[r].wallet \in DOMAIN wallets

TimesInv ==
  /\ \A s \in DOMAIN snaps : snaps[s].created <= clock
  /\ \A r \in Requests : readAt[r] <= clock

(* Snapshots of the current address revision that no patch raced: the only  *)
(* ones the address of their wallet must agree with.                        *)
Settled ==
  {s \in DOMAIN snaps \ raced : snaps[s].created >= wallets[snaps[s].wallet].addrAt}

(* They were collected for the address their wallet has now.                *)
CollectedInv == \A s \in Settled : snaps[s].status # "pending" => OfCurrentAddress(s)

(* A patch that has read its wallet and will not stamp, unless it finds the *)
(* key of the address changed, and the address that key is compared with.   *)
Silent(r) ==
  /\ req[r].op = "update"
  /\ \/ req[r].pc \in {"group", "unique"}
     \/ req[r].pc = "commit" /\ req[r].write.address # Unset /\ req[r].write.addrAt = Unset

Spelling(r) == IF req[r].pc = "commit" THEN req[r].write.address ELSE req[r].loaded.address

(* Where a settled snapshot is older than such a patch, the key the patch   *)
(* has seen is still the wallet's.                                          *)
Agrees(r) ==
  \A s \in Settled :
    (snaps[s].wallet = req[r].wallet /\ snaps[s].created < readAt[r]) =>
      Key(wallets[req[r].wallet].address) = Key(Spelling(r))

SilentInv == \A r \in Requests : Silent(r) => Agrees(r)

SInv ==
  /\ SnapTypeOK /\ WritesInv
  /\ PlacedInv
  /\ TimesInv
  /\ CollectedInv
  /\ SilentInv

------------------------------------------------------------------------------
(* Steps of the wallet requests *)

(* Rows are never removed; only a commit changes an address or its time.    *)
LEMMA RowsKept ==
  ASSUME TypeOK, NEW r \in Requests, Submit(r) \/ Step(r)
  PROVE  /\ DOMAIN wallets \subseteq DOMAIN wallets'
         /\ ~CommitChange(r) => \A w \in DOMAIN wallets :
              /\ wallets'[w].address = wallets[w].address
              /\ wallets'[w].addrAt = wallets[w].addrAt
<1>1. CASE CommitChange(r)  BY <1>1 DEF CommitChange
<1>2. CASE CreateCommit(r)  BY <1>2 DEF CreateCommit
<1>3. CASE CommitDeleteGroup(r)  BY <1>3 DEF CommitDeleteGroup, TypeOK, Row
<1>4. CASE UNCHANGED wallets  BY <1>4
<1> QED
  BY <1>1, <1>2, <1>3, <1>4
     DEF Submit, Step, StartCreate, CreateLock, CreateValidateGroup,
         CreateEnsureUnique, CreateRespond, StartChange, UpdateRead, DeleteRead,
         RestoreRead, UpdateValidate, UpdateEnsureUnique, RestoreEnsureUnique,
         StartDeleteGroup, ReadGroup

(* A snapshot that is settled after a request's step was so before, and the *)
(* key of its wallet's address is the same: a commit that changes the key   *)
(* leaves no snapshot settled.                                              *)
LEMMA SettledKept ==
  ASSUME SInv, NEW r \in Requests, Submit(r) \/ Step(r), History(r), UNCHANGED snaps
  PROVE  \A s \in Settled' :
           /\ s \in Settled
           /\ LET w == snaps[s].wallet
              IN w \in DOMAIN wallets
                 /\ Key(wallets'[w].address) = Key(wallets[w].address)
<1> SUFFICES ASSUME NEW s \in Settled'
             PROVE  s \in Settled /\ snaps[s].wallet \in DOMAIN wallets
                    /\ Key(wallets'[snaps[s].wallet].address)
                         = Key(wallets[snaps[s].wallet].address)
  OBVIOUS
<1> DEFINE w == snaps[s].wallet
<1>1. /\ s \in DOMAIN snaps /\ snaps[s].created \in Nat /\ snaps[s].created <= clock
      /\ w \in DOMAIN wallets /\ wallets[w] \in Row /\ wallets[w].addrAt \in Nat
      /\ s \notin raced /\ s \notin raced' /\ snaps[s].created >= wallets'[w].addrAt
      /\ clock \in Nat /\ readAt[r] \in Nat
  BY DEF SInv, SnapTypeOK, TypeOK, SnapRow, TimesInv, Settled, History, Row
<1>2. CASE wallets'[w].address = wallets[w].address /\ wallets'[w].addrAt = wallets[w].addrAt
  BY <1>1, <1>2 DEF Settled
<1>3. CASE CommitChange(r) /\ req[r].wallet = w /\ wallets' # wallets
  <2> DEFINE write == req[r].write
  <2>1. req[r] \in StagedReq /\ write \in Write /\ AddressKept(r)
    BY <1>3, Slots DEF CommitChange, SInv, SnapTypeOK, WritesInv, StagedReq
  <2>2. /\ wallets'[w].address = Or(write.address, wallets[w].address)
        /\ wallets'[w].addrAt = Or(write.addrAt, wallets[w].addrAt)
    <3> DEFINE row == Updated(wallets[w], write)
    <3>1. row.address = Or(write.address, wallets[w].address)
          /\ row.addrAt = Or(write.addrAt, wallets[w].addrAt)
      BY <1>1 DEF Updated, Row
    <3>2. wallets' = [wallets EXCEPT ![w] = row]  BY <1>3 DEF CommitChange
    <3> HIDE DEF row, write
    <3> QED  BY <1>1, <3>1, <3>2
  <2>3. CASE write.address = Unset
    BY <1>2, <1>3, <2>1, <2>2, <2>3 DEF AddressKept, CommitChange, Or
  <2>4. CASE write.address # Unset
    <3>1. WritesAddress(r)
      BY <1>3, <2>1, <2>4 DEF AddressKept, CommitChange, WritesAddress, At
    <3>2. snaps[s].created \notin OpenSince(r) .. clock
      BY <1>1, <1>3, <3>1 DEF History
    <3>3. OpenSince(r) \in Nat
      BY <1>1, <2>1 DEF OpenSince, Write
    <3>4. snaps[s].created < OpenSince(r)
      BY <1>1, <3>2, <3>3
    <3>5. write.addrAt = Unset
      BY <1>1, <2>1, <2>2, <3>3, <3>4 DEF OpenSince, Or, Write
    <3>6. s \in Settled /\ snaps[s].created < readAt[r]
      BY <1>1, <2>2, <3>4, <3>5 DEF OpenSince, Or, Settled
    <3>7. Silent(r) /\ Spelling(r) = write.address
      BY <1>3, <2>1, <2>4, <3>1, <3>5 DEF Silent, Spelling, CommitChange, WritesAddress, At
    <3>8. Key(wallets[w].address) = Key(write.address)
      BY <1>3, <3>6, <3>7 DEF SInv, SilentInv, Agrees
    <3>9. wallets'[w].address = write.address
      BY <2>2, <2>4 DEF Or
    <3> QED  BY <1>1, <3>6, <3>8, <3>9
  <2> QED  BY <2>3, <2>4
<1>4. CASE ~CommitChange(r)
  BY <1>1, <1>2, <1>4, RowsKept DEF SInv, SnapTypeOK
<1>5. CASE CommitChange(r) /\ (req[r].wallet # w \/ wallets' = wallets)
  BY <1>1, <1>2, <1>5 DEF CommitChange
<1> QED  BY <1>3, <1>4, <1>5

(* What the step leaves of the slots and their histories.                   *)
LEMMA OtherRequests ==
  ASSUME SInv, NEW r \in Requests, Submit(r) \/ Step(r), History(r)
  PROVE  /\ \A q \in Requests \ {r} : req'[q] = req[q] /\ readAt'[q] = readAt[q]
         /\ readAt' \in [Requests -> Nat]
         /\ clock' \in Nat /\ clock <= clock'
         /\ \A q \in Requests : readAt'[q] <= clock'
<1>1. \A q \in Requests \ {r} : req'[q] = req[q]
  BY DEF SInv, SnapTypeOK, TypeOK, Submit, Step, StartCreate, StartChange, StartDeleteGroup,
         CreateLock, CreateValidateGroup, CreateEnsureUnique, CreateCommit,
         CreateRespond, UpdateRead, DeleteRead, RestoreRead, UpdateValidate,
         UpdateEnsureUnique, RestoreEnsureUnique, CommitChange, ReadGroup,
         CommitDeleteGroup, Load, Stage, Goto, Finish
<1>2. clock' \in {clock, clock + 1}
  BY DEF Submit, Step, StartCreate, StartChange, StartDeleteGroup,
         CreateLock, CreateValidateGroup, CreateEnsureUnique, CreateCommit,
         CreateRespond, UpdateRead, DeleteRead, RestoreRead, UpdateValidate,
         UpdateEnsureUnique, RestoreEnsureUnique, CommitChange, ReadGroup,
         CommitDeleteGroup
<1>3. clock \in Nat /\ readAt \in [Requests -> Nat] /\ \A q \in Requests : readAt[q] <= clock
  BY DEF SInv, SnapTypeOK, TypeOK, TimesInv
<1>4. readAt' \in [Requests -> Nat] /\ readAt'[r] \in {clock, 0, readAt[r]}
      /\ \A q \in Requests \ {r} : readAt'[q] = readAt[q]
  BY <1>3 DEF History
<1> QED  BY <1>1, <1>2, <1>3, <1>4

(* The slot that steps: what it reads is what is there, and what it stages  *)
(* without a stamp has the key of what it read.                             *)
LEMMA ActingAgrees ==
  ASSUME SInv, NEW r \in Requests, Submit(r) \/ Step(r), History(r), UNCHANGED snaps,
         Silent(r)'
  PROVE  Agrees(r)'
<1>0. TypeOK  BY DEF SInv, SnapTypeOK
<1>1. CASE UpdateRead(r)
  <2>1. wallets' = wallets  BY <1>1 DEF UpdateRead
  <2>2. /\ req'[r].pc = "group" /\ req'[r].wallet = req[r].wallet
        /\ req'[r].loaded = wallets[req[r].wallet]
    BY <1>0, <1>1 DEF UpdateRead, Load, Finish, Silent, Idle, TypeOK
  <2> QED  BY <2>1, <2>2 DEF Agrees, Spelling
<1>2. CASE UpdateValidate(r) \/ UpdateEnsureUnique(r)
  <2>1. /\ req[r] \in LoadedReq /\ req[r].op = "update" /\ Silent(r)
        /\ Spelling(r) = req[r].loaded.address
    BY <1>0, <1>2, Slots DEF UpdateValidate, UpdateEnsureUnique, At, Changes, Silent, Spelling
  <2>2. req'[r] # Idle  BY DEF Silent, Idle
  <2>3. req'[r].wallet = req[r].wallet /\ Key(Spelling(r)') = Key(req[r].loaded.address)
    <3>1. CASE UpdateValidate(r)
      BY <1>0, <2>1, <2>2, <3>1 DEF UpdateValidate, At, Goto, Finish, TypeOK, LoadedReq, Spelling
    <3>2. CASE UpdateEnsureUnique(r)
      <4> DEFINE write == Assigned(req[r].patch, req[r].loaded, clock + 1)
      <4>1. /\ req'[r].wallet = req[r].wallet /\ req'[r].pc = "commit"
            /\ req'[r].write = write
        BY <1>0, <2>2, <3>2 DEF UpdateEnsureUnique, Stage, Finish, TypeOK
      <4>2. write.address # Unset /\ write.addrAt = Unset
        BY <4>1 DEF Silent
      <4>3. clock + 1 # Unset  BY <1>0 DEF TypeOK
      <4>4. write.address = req[r].patch.address
            /\ ~AddressChanged(req[r].patch, req[r].loaded)
            /\ req[r].patch.address # Unset
        BY <4>2, <4>3 DEF Assigned, Changed
      <4>5. Key(write.address) = Key(req[r].loaded.address)
        BY <4>4 DEF AddressChanged
      <4>6. Spelling(r)' = write.address  BY <4>1 DEF Spelling
      <4> QED  BY <4>1, <4>5, <4>6
    <3> QED  BY <1>2, <3>1, <3>2
  <2>4. readAt'[r] = readAt[r]
    BY <1>2, <2>2 DEF SInv, SnapTypeOK, History, UpdateValidate, UpdateEnsureUnique, At
  <2>5. Agrees(r)  BY <2>1 DEF SInv, SilentInv
  <2> QED  BY <2>1, <2>3, <2>4, <2>5, SettledKept DEF Agrees
<1>3. CASE ~UpdateRead(r) /\ ~UpdateValidate(r) /\ ~UpdateEnsureUnique(r)
  <2>1. CASE Submit(r)
    BY <1>0, <2>1 DEF Submit, StartCreate, StartChange, StartDeleteGroup, Silent, TypeOK
  <2>2. CASE DeleteRead(r) \/ RestoreRead(r) \/ RestoreEnsureUnique(r)
    BY <1>0, <2>2 DEF DeleteRead, RestoreRead, RestoreEnsureUnique, At, Load, Stage, Finish,
         Idle, Silent, TypeOK
  <2>3. CASE CommitChange(r)
    BY <1>0, <2>3 DEF CommitChange, Finish, Idle, Silent, TypeOK
  <2>4. CASE CreateLock(r)
    <3>1. req[r] \in CreateReq  BY <1>0, <2>4, Slots DEF CreateLock, At
    <3> QED  BY <1>0, <2>4, <3>1 DEF CreateLock, Silent, TypeOK, CreateReq
  <2>5. CASE CreateCommit(r)
    BY <1>0, <2>5 DEF CreateCommit, Finish, Idle, Silent, TypeOK
  <2>6. CASE CreateValidateGroup(r) \/ CreateEnsureUnique(r) \/ CreateRespond(r)
    <3>1. req[r] \in CreateReq \cup CreatedReq
      BY <1>0, <2>6, Slots DEF CreateValidateGroup, CreateEnsureUnique, CreateRespond, At
    <3> QED
      BY <1>0, <2>6, <3>1 DEF CreateValidateGroup, CreateEnsureUnique, CreateRespond, Goto,
         Finish, Idle, Silent, TypeOK, CreateReq, CreatedReq
  <2>7. CASE ReadGroup(r) \/ CommitDeleteGroup(r)
    <3>1. req[r] \in GroupReq
      BY <1>0, <2>7, Slots DEF ReadGroup, CommitDeleteGroup, At
    <3> QED
      BY <1>0, <2>7, <3>1 DEF ReadGroup, CommitDeleteGroup, Goto, Finish, Idle, Silent,
         TypeOK, GroupReq
  <2> QED  BY <1>3, <2>1, <2>2, <2>3, <2>4, <2>5, <2>6, <2>7 DEF Step
<1> QED  BY <1>1, <1>2, <1>3

(* A create that has committed knows its wallet, and only such a create     *)
(* schedules a snapshot.                                                    *)
LEMMA PlacedStep ==
  ASSUME SInv, NEW r \in Requests, Submit(r) \/ Step(r), UNCHANGED posted
  PROVE  PlacedInv'
<1>0. TypeOK /\ PlacedInv  BY DEF SInv, SnapTypeOK
<1>1. DOMAIN wallets \subseteq DOMAIN wallets'  BY <1>0, RowsKept
<1>2. \A q \in Requests \ {r} : req'[q] = req[q]
  BY <1>0 DEF TypeOK, Submit, Step, StartCreate, StartChange, StartDeleteGroup,
         CreateLock, CreateValidateGroup, CreateEnsureUnique, CreateCommit,
         CreateRespond, UpdateRead, DeleteRead, RestoreRead, UpdateValidate,
         UpdateEnsureUnique, RestoreEnsureUnique, CommitChange, ReadGroup,
         CommitDeleteGroup, Load, Stage, Goto, Finish
<1>3. autoJobs' \subseteq DOMAIN wallets'
  <2>1. CASE CreateRespond(r)  BY <1>0, <1>1, <2>1 DEF CreateRespond, PlacedInv
  <2>2. CASE UNCHANGED autoJobs  BY <1>0, <1>1, <2>2 DEF PlacedInv
  <2> QED
    BY <2>1, <2>2 DEF Submit, Step, StartCreate, StartChange, StartDeleteGroup,
         CreateLock, CreateValidateGroup, CreateEnsureUnique, CreateCommit,
         UpdateRead, DeleteRead, RestoreRead, UpdateValidate,
         UpdateEnsureUnique, RestoreEnsureUnique, CommitChange, ReadGroup,
         CommitDeleteGroup
<1>4. At(r, "create", "event")' => req'[r].wallet \in DOMAIN wallets'
  <2>1. CASE CreateCommit(r)
    BY <1>0, <2>1 DEF CreateCommit, Finish, Idle, At, TypeOK
  <2>2. CASE ~CreateCommit(r)
    <3>1. ~At(r, "create", "event")'
      <4>1. CASE Submit(r)
        BY <1>0, <4>1 DEF Submit, StartCreate, StartChange, StartDeleteGroup, At, TypeOK, Changes
      <4>2. CASE DeleteRead(r) \/ RestoreRead(r) \/ RestoreEnsureUnique(r) \/ UpdateRead(r)
                   \/ UpdateEnsureUnique(r) \/ CommitChange(r)
        BY <1>0, <4>2 DEF DeleteRead, RestoreRead, RestoreEnsureUnique, UpdateRead,
           UpdateEnsureUnique, CommitChange, At, Load, Stage, Finish, Idle, TypeOK
      <4>3. CASE UpdateValidate(r)
        BY <1>0, <4>3, Slots DEF UpdateValidate, At, Changes, LoadedReq, Goto, Finish, Idle, TypeOK
      <4>4. CASE CreateLock(r)
        <5>1. req[r] \in CreateReq  BY <1>0, <4>4, Slots DEF CreateLock, At
        <5> QED  BY <1>0, <4>4, <5>1 DEF CreateLock, At, TypeOK, CreateReq
      <4>5. CASE CreateValidateGroup(r) \/ CreateEnsureUnique(r) \/ CreateRespond(r)
        <5>1. req[r] \in CreateReq \cup CreatedReq
          BY <1>0, <4>5, Slots DEF CreateValidateGroup, CreateEnsureUnique, CreateRespond, At
        <5> QED
          BY <1>0, <4>5, <5>1 DEF CreateValidateGroup, CreateEnsureUnique, CreateRespond, Goto,
             Finish, Idle, At, TypeOK, CreateReq, CreatedReq
      <4>6. CASE ReadGroup(r) \/ CommitDeleteGroup(r)
        <5>1. req[r] \in GroupReq
          BY <1>0, <4>6, Slots DEF ReadGroup, CommitDeleteGroup, At
        <5> QED
          BY <1>0, <4>6, <5>1 DEF ReadGroup, CommitDeleteGroup, Goto, Finish, Idle, At,
             TypeOK, GroupReq
      <4> QED  BY <2>2, <4>1, <4>2, <4>3, <4>4, <4>5, <4>6 DEF Step
    <3> QED  BY <3>1 DEF At
  <2> QED  BY <2>1, <2>2
<1> QED  BY <1>0, <1>1, <1>2, <1>3, <1>4 DEF PlacedInv, At

LEMMA RequestStep ==
  ASSUME SInv, NEW r \in Requests, Submit(r) \/ Step(r), History(r), UNCHANGED <<posted, snaps>>
  PROVE  SInv'
<1>1. TypeOK' /\ WritesInv'
  BY TypeStep, WritesStep DEF SInv, SnapTypeOK, Next
<1>2. DOMAIN wallets \subseteq DOMAIN wallets'
  BY RowsKept DEF SInv, SnapTypeOK
<1>3. SnapTypeOK'
  <2>1. raced' \subseteq DOMAIN snaps  BY DEF History, SInv, SnapTypeOK
  <2>2. DOMAIN wallets' \subseteq WalletIds  BY <1>1 DEF TypeOK
  <2>3. \A s \in DOMAIN snaps : snaps[s] \in SnapRow /\ snaps[s].wallet \in DOMAIN wallets
    BY DEF SInv, SnapTypeOK
  <2> QED
    BY <1>1, <1>2, <2>1, <2>2, <2>3, OtherRequests DEF SnapTypeOK, SInv, SnapRow
<1>4. PlacedInv'  BY PlacedStep
<1>5. TimesInv'
  <2>1. \A s \in DOMAIN snaps : snaps[s].created \in Nat /\ snaps[s].created <= clock
    BY DEF SInv, SnapTypeOK, SnapRow, TimesInv
  <2>2. clock \in Nat  BY DEF SInv, SnapTypeOK, TypeOK
  <2> QED  BY <2>1, <2>2, OtherRequests DEF TimesInv
<1>6. CollectedInv'
  BY SettledKept DEF CollectedInv, SInv, OfCurrentAddress
<1>7. SilentInv'
  <2> SUFFICES ASSUME NEW q \in Requests, Silent(q)' PROVE Agrees(q)'
    BY DEF SilentInv
  <2>1. CASE q = r  BY <2>1, ActingAgrees
  <2>2. CASE q # r
    <3>1. req'[q] = req[q] /\ readAt'[q] = readAt[q]  BY <2>2, OtherRequests
    <3>2. Agrees(q)  BY <3>1 DEF SInv, SilentInv, Silent
    <3> QED  BY <3>1, <3>2, SettledKept DEF Agrees, Spelling
  <2> QED  BY <2>1, <2>2
<1> QED  BY <1>1, <1>3, <1>4, <1>5, <1>6, <1>7 DEF SInv

------------------------------------------------------------------------------
(* Steps of the service and of those who ask it for a run *)

LEMMA SettledSame ==
  ASSUME UNCHANGED <<wallets, snaps, raced>>
  PROVE  Settled' = Settled
  BY DEF Settled

(* The wallets do not change, and a settled snapshot that was there still   *)
(* is, with its run's beginning.                                            *)
LEMMA NewRunStep ==
  ASSUME SInv, NEW W \in SUBSET DOMAIN wallets, NewRun(W),
         posted' \cup autoJobs' \subseteq posted \cup autoJobs
  PROVE  SInv'
<1>0. /\ TypeOK /\ clock \in Nat /\ clock' = clock + 1
      /\ UNCHANGED <<wallets, groupOwner, lock, req, firstAdded, readAt, raced>>
  BY DEF SInv, SnapTypeOK, TypeOK, NewRun
<1>1. PICK id \in [W -> SnapIds \ DOMAIN snaps] :
        snaps' = [s \in DOMAIN snaps \cup {id[w] : w \in W} |->
                    IF s \in DOMAIN snaps THEN snaps[s]
                    ELSE [wallet |-> CHOOSE w \in W : id[w] = s, created |-> clock + 1,
                          key |-> Null, status |-> "pending"]]
  BY DEF NewRun
<1>2. /\ DOMAIN snaps \subseteq DOMAIN snaps' /\ DOMAIN snaps' \subseteq SnapIds
      /\ \A s \in DOMAIN snaps : snaps'[s] = snaps[s]
  BY <1>1 DEF SInv, SnapTypeOK
<1>3. ASSUME NEW s \in DOMAIN snaps' \ DOMAIN snaps
      PROVE  /\ snaps'[s] \in SnapRow /\ snaps'[s].wallet \in DOMAIN wallets
             /\ snaps'[s].created = clock' /\ snaps'[s].status = "pending"
  <2> DEFINE v == CHOOSE w \in W : id[w] = s
  <2>1. \E w \in W : id[w] = s  BY <1>1, <1>3
  <2>2. v \in W  BY <2>1
  <2>3. snaps'[s] = [wallet |-> v, created |-> clock + 1, key |-> Null, status |-> "pending"]
    BY <1>1, <1>3
  <2>4. v \in WalletIds  BY <1>0, <2>2 DEF TypeOK
  <2> HIDE DEF v
  <2> QED  BY <1>0, <2>2, <2>3, <2>4 DEF SnapRow
<1>4. SnapTypeOK' /\ WritesInv' /\ PlacedInv'
  <2>1. posted' \cup autoJobs' \subseteq DOMAIN wallets  BY DEF SInv, PlacedInv
  <2>2. DOMAIN wallets \subseteq WalletIds  BY <1>0 DEF TypeOK
  <2>3. TypeOK'  BY <1>0, <2>1, <2>2 DEF TypeOK
  <2>4. \A s \in DOMAIN snaps' : snaps'[s] \in SnapRow /\ snaps'[s].wallet \in DOMAIN wallets
    BY <1>2, <1>3 DEF SInv, SnapTypeOK
  <2> QED
    BY <1>0, <1>2, <2>1, <2>2, <2>3, <2>4
    DEF SInv, SnapTypeOK, WritesInv, AddressKept, PlacedInv, At
<1>5. TimesInv'
  <2>1. \A s \in DOMAIN snaps : snaps[s].created \in Nat /\ snaps[s].created <= clock
    BY DEF SInv, SnapTypeOK, SnapRow, TimesInv
  <2>2. \A r \in Requests : readAt[r] \in Nat /\ readAt[r] <= clock
    BY DEF SInv, SnapTypeOK, TimesInv
  <2> QED  BY <1>0, <1>2, <1>3, <2>1, <2>2 DEF TimesInv
<1>6. \A s \in Settled' : s \in Settled \/ s \notin DOMAIN snaps
  BY <1>0, <1>2 DEF Settled
<1>7. CollectedInv'
  BY <1>0, <1>2, <1>3, <1>6 DEF CollectedInv, Settled, SInv, OfCurrentAddress
<1>8. SilentInv'
  <2>1. \A r \in Requests : readAt[r] \in Nat /\ readAt[r] <= clock
    BY DEF SInv, SnapTypeOK, TimesInv
  <2>2. ASSUME NEW r \in Requests, NEW s \in Settled', snaps'[s].created < readAt[r]
        PROVE  s \in Settled /\ snaps'[s] = snaps[s]
    BY <1>0, <1>2, <1>3, <1>6, <2>1, <2>2 DEF Settled
  <2> QED  BY <1>0, <2>2 DEF SilentInv, Silent, Agrees, Spelling, SInv
<1> QED  BY <1>4, <1>5, <1>7, <1>8 DEF SInv

(* The service goes on with a snapshot it has begun.                        *)
LEMMA ServiceStep ==
  ASSUME SInv, NEW s \in DOMAIN snaps, Collect(s) \/ Publish(s)
  PROVE  SInv'
<1>0. UNCHANGED <<wallets, groupOwner, lock, req, clock, firstAdded, autoJobs, posted, readAt, raced>>
  BY DEF Collect, Publish, vars
<1>1. /\ snaps[s] \in SnapRow /\ snaps[s].wallet \in DOMAIN wallets
      /\ Key(wallets[snaps[s].wallet].address) \in Addresses \cup {Null}
  <2>1. snaps[s] \in SnapRow /\ wallets[snaps[s].wallet] \in Row /\ snaps[s].wallet \in DOMAIN wallets
    BY DEF SInv, SnapTypeOK, TypeOK
  <2> QED  BY <2>1 DEF Row, Key
<1>2. /\ DOMAIN snaps' = DOMAIN snaps
      /\ \A t \in DOMAIN snaps \ {s} : snaps'[t] = snaps[t]
      /\ snaps'[s] \in SnapRow /\ snaps'[s].wallet = snaps[s].wallet
      /\ snaps'[s].created = snaps[s].created
      /\ \/ snaps'[s].key = Key(wallets[snaps[s].wallet].address)
         \/ snaps'[s].key = snaps[s].key /\ snaps[s].status # "pending"
  <2>1. CASE Collect(s)
    BY <1>1, <2>1 DEF Collect, SnapRow
  <2>2. CASE Publish(s)
    <3>1. PICK status \in {"readable", "failed"} : snaps' = [snaps EXCEPT ![s].status = status]
      BY <2>2 DEF Publish
    <3> QED  BY <1>1, <2>2, <3>1 DEF Publish, SnapRow
  <2> QED  BY <2>1, <2>2
<1>3. Settled' = Settled
  BY <1>0, <1>2 DEF Settled
<1>4. SnapTypeOK' /\ WritesInv' /\ PlacedInv' /\ TimesInv'
  <2>1. TypeOK'  BY <1>0 DEF SInv, SnapTypeOK, TypeOK
  <2> QED
    BY <1>0, <1>1, <1>2, <2>1
    DEF SInv, SnapTypeOK, WritesInv, AddressKept, PlacedInv, At, TimesInv
<1>5. CollectedInv'
  BY <1>0, <1>1, <1>2, <1>3 DEF CollectedInv, SInv, OfCurrentAddress, Settled
<1>6. SilentInv'
  <2>1. \A t \in DOMAIN snaps : snaps'[t].wallet = snaps[t].wallet
                               /\ snaps'[t].created = snaps[t].created
    BY <1>2
  <2>2. \A t \in Settled : t \in DOMAIN snaps  BY DEF Settled
  <2> QED  BY <1>0, <1>3, <2>1, <2>2 DEF SilentInv, Silent, Agrees, Spelling, SInv
<1> QED  BY <1>4, <1>5, <1>6 DEF SInv

(* Asking for a run, an answer without one, a new group and a restart move  *)
(* neither the rows nor the snapshots.                                      *)
LEMMA QuietStep ==
  ASSUME SInv, TypeOK',
         UNCHANGED <<wallets, snaps, raced, clock>>,
         posted' \cup autoJobs' \subseteq DOMAIN wallets, readAt' \in [Requests -> Nat],
         \A r \in Requests : \/ req'[r] = req[r] /\ readAt'[r] = readAt[r]
                             \/ req'[r] = Idle /\ readAt'[r] = 0
  PROVE  SInv'
<1>1. WritesInv'  BY DEF SInv, WritesInv, AddressKept, Idle, Changes
<1>2. PlacedInv'  BY DEF SInv, PlacedInv, At, Idle
<1>3. SnapTypeOK'
  <2>1. posted' \subseteq WalletIds  BY DEF SInv, SnapTypeOK, TypeOK
  <2> QED  BY <2>1 DEF SInv, SnapTypeOK
<1>4. TimesInv'  BY DEF SInv, SnapTypeOK, TypeOK, TimesInv
<1>5. CollectedInv'  BY SettledSame DEF SInv, CollectedInv, OfCurrentAddress
<1>6. SilentInv'  BY SettledSame DEF SInv, SilentInv, Silent, Agrees, Spelling, Idle
<1> QED  BY <1>1, <1>2, <1>3, <1>4, <1>5, <1>6 DEF SInv

------------------------------------------------------------------------------
(* The invariant *)

LEMMA SnapInitInv == SnapInit => SInv
<1> SUFFICES ASSUME SnapInit PROVE SInv
  OBVIOUS
<1>1. TypeOK  BY DEF SnapInit, Init, TypeOK, ReqType
<1>2. DOMAIN snaps = {} /\ Settled = {}  BY DEF SnapInit, Settled
<1>3. SnapTypeOK  BY <1>1, <1>2 DEF SnapInit, SnapTypeOK
<1> QED
  BY <1>2, <1>3 DEF SnapInit, Init, SInv, WritesInv, AddressKept, PlacedInv, At, TimesInv,
     CollectedInv, SilentInv, Silent, Idle, Changes

LEMMA SnapStep == SInv /\ [SnapNext]_allVars => SInv'
<1> SUFFICES ASSUME SInv, [SnapNext]_allVars PROVE SInv'
  OBVIOUS
<1>0. /\ TypeOK /\ posted \cup autoJobs \subseteq DOMAIN wallets
      /\ readAt \in [Requests -> Nat] /\ DOMAIN wallets \subseteq WalletIds
  BY DEF SInv, SnapTypeOK, PlacedInv, TypeOK
<1>1. CASE WalletStep
  <2>1. CASE \E r \in Requests : (Submit(r) \/ Step(r)) /\ History(r)
    BY <1>1, <2>1, RequestStep DEF WalletStep
  <2>2. CASE CreateGroup /\ UNCHANGED <<readAt, raced>>
    <3>1. TypeOK'  BY <1>0, <2>2, TypeStep DEF Next
    <3> QED  BY <1>0, <1>1, <2>2, <3>1, QuietStep DEF CreateGroup, WalletStep
  <2> QED  BY <1>1, <2>1, <2>2 DEF WalletStep
<1>2. ASSUME NEW u \in Users, NEW w \in WalletIds, RequestRun(u, w) PROVE SInv'
  <2>1. TypeOK'  BY <1>0, <1>2 DEF RequestRun, vars, TypeOK
  <2> QED  BY <1>0, <1>2, <2>1, QuietStep DEF RequestRun, vars, OwnedWallet
<1>3. ASSUME NEW w \in WalletIds, CreateWalletRun(w) PROVE SInv'
  <2>1. {w} \in SUBSET DOMAIN wallets /\ posted' \cup autoJobs' \subseteq posted \cup autoJobs
    BY <1>0, <1>3 DEF CreateWalletRun, EndPost
  <2> QED  BY <1>3, <2>1, NewRunStep DEF CreateWalletRun
<1>4. ASSUME NEW w \in WalletIds, NoNewRun(w) PROVE SInv'
  <2>1. posted' \cup autoJobs' \subseteq posted \cup autoJobs
    BY <1>4 DEF NoNewRun, EndPost
  <2>2. TypeOK'  BY <1>0, <1>4, <2>1 DEF NoNewRun, TypeOK
  <2> QED  BY <1>0, <1>4, <2>1, <2>2, QuietStep DEF NoNewRun
<1>5. ASSUME NEW u \in Users, ScheduledRun(u) PROVE SInv'
  BY <1>5, NewRunStep DEF ScheduledRun
<1>6. ASSUME NEW s \in DOMAIN snaps, Collect(s) \/ Publish(s) PROVE SInv'
  BY <1>6, ServiceStep
<1>7. CASE SnapRestart
  <2>1. TypeOK'  BY <1>0, <1>7, TypeStep DEF SnapRestart, Next
  <2> QED  BY <1>0, <1>7, <2>1, QuietStep DEF SnapRestart, Restart
<1>8. CASE UNCHANGED allVars
  <2>1. TypeOK'  BY <1>0, <1>8 DEF allVars, vars, TypeOK
  <2> QED  BY <1>0, <1>8, <2>1, QuietStep DEF allVars, vars, snapVars
<1> QED
  BY <1>1, <1>2, <1>3, <1>4, <1>5, <1>6, <1>7, <1>8 DEF SnapNext

LEMMA SnapInvariant == SnapSpec => []SInv
  BY SnapInitInv, SnapStep, PTL DEF SnapSpec

------------------------------------------------------------------------------
(* Theorems *)

(* Every variable keeps its shape, a snapshot is always of a wallet that is  *)
(* there, and only snapshots that exist were raced.                         *)
THEOREM SnapTypes == SnapSpec => []SnapTypeOK
<1>1. SInv => SnapTypeOK  BY DEF SInv
<1> QED  BY <1>1, SnapInvariant, PTL

(* The value shown for a wallet is a value of the address it has now, unless *)
(* its run began inside a patch of the address: for any number of patches   *)
(* that commit in any order, whatever stamps they carry.                    *)
THEOREM ShownIsCurrent == SnapSpec => []StaleOnlyWhenRaced
<1>1. SInv => StaleOnlyWhenRaced
  BY DEF SInv, StaleOnlyWhenRaced, Latest, Readable, CollectedInv, Settled
<1> QED  BY <1>1, SnapInvariant, PTL

(* A snapshot keeps its wallet and the beginning of its run, and one that   *)
(* is readable stays so.                                                    *)
LEMMA SnapsKept ==
  ASSUME SInv, [SnapNext]_allVars
  PROVE  /\ DOMAIN snaps \subseteq DOMAIN snaps'
         /\ \A s \in DOMAIN snaps :
              /\ snaps'[s].wallet = snaps[s].wallet
              /\ snaps'[s].created = snaps[s].created
              /\ snaps[s].status = "readable" => snaps'[s].status = "readable"
<1>1. ASSUME NEW W, NewRun(W) PROVE DOMAIN snaps \subseteq DOMAIN snaps'
                                    /\ \A s \in DOMAIN snaps : snaps'[s] = snaps[s]
  BY <1>1 DEF NewRun
<1>2. ASSUME NEW s \in DOMAIN snaps, Collect(s) \/ Publish(s)
      PROVE  /\ DOMAIN snaps' = DOMAIN snaps /\ snaps[s].status # "readable"
             /\ snaps'[s].wallet = snaps[s].wallet
             /\ snaps'[s].created = snaps[s].created
             /\ \A t \in DOMAIN snaps \ {s} : snaps'[t] = snaps[t]
  <2>1. snaps[s] \in SnapRow  BY DEF SInv, SnapTypeOK
  <2> QED  BY <1>2, <2>1 DEF Collect, Publish, SnapRow
<1>3. CASE UNCHANGED snaps  BY <1>3
<1> QED
  BY <1>1, <1>2, <1>3 DEF SnapNext, WalletStep, RequestRun, CreateWalletRun, NoNewRun,
     ScheduledRun, SnapRestart, allVars, snapVars

(* While the address revision of a wallet stands, its shown value never goes *)
(* back to a run that began earlier, in whatever order the service finishes *)
(* its runs and hands out ids.                                              *)
THEOREM ShownNeverGoesBack == SnapSpec => NewestStartedWins
<1>1. ASSUME SInv, SInv', [SnapNext]_allVars
      PROVE  \A w \in DOMAIN wallets : wallets'[w].addrAt = wallets[w].addrAt =>
               \A s \in Latest(w) : \A t \in Latest(w)' :
                  snaps'[t].created >= snaps[s].created
  <2> SUFFICES ASSUME NEW w \in DOMAIN wallets, wallets'[w].addrAt = wallets[w].addrAt,
                      NEW s \in Latest(w), NEW t \in Latest(w)'
               PROVE  snaps'[t].created >= snaps[s].created
    OBVIOUS
  <2>1. s \in DOMAIN snaps /\ s \in Readable(w)  BY DEF Latest, Readable
  <2>2. s \in Readable(w)' /\ snaps'[s].created = snaps[s].created
    BY <1>1, <2>1, SnapsKept DEF Readable
  <2>3. Newest(t, s)'  BY <2>2 DEF Latest
  <2>4. s \in DOMAIN snaps' /\ t \in DOMAIN snaps'  BY <2>2 DEF Latest, Readable
  <2>5. snaps'[s].created \in Nat /\ snaps'[t].created \in Nat
    BY <1>1, <2>4 DEF SInv, SnapTypeOK, SnapRow
  <2> QED  BY <2>2, <2>3, <2>5 DEF Newest
<1> QED  BY <1>1, SnapInvariant, PTL DEF SnapSpec, NewestStartedWins

==============================================================================
