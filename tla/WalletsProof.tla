---------------------------- MODULE WalletsProof ----------------------------
(***************************************************************************)
(* Theorems about Wallets, for any users, ids, addresses, request slots and *)
(* bodies that satisfy WalletsAssumption.                                   *)
(***************************************************************************)
EXTENDS Wallets, TLAPS

USE WalletsAssumption

------------------------------------------------------------------------------
(* Type correctness *)

LEMMA SentinelsApart ==
  /\ Null # Unset
  /\ Null \notin Addresses /\ Null \notin GroupIds /\ Null \notin WalletIds
  /\ Null \notin Requests /\ Null \notin BOOLEAN /\ Null \notin Nat
  /\ Unset \notin Addresses /\ Unset \notin GroupIds /\ Unset \notin BOOLEAN
  /\ Unset \notin Nat
  OBVIOUS

(* A row stays a row when a well-typed write is applied to it. *)
LEMMA UpdatedType ==
  ASSUME NEW row \in Row, NEW write \in Write
  PROVE  /\ Updated(row, write) \in Row
         /\ Updated(row, write).user = row.user
         /\ Updated(row, write).kind = row.kind
         /\ Updated(row, write).address = Or(write.address, row.address)
         /\ Updated(row, write).active = Or(write.active, row.active)
         /\ Updated(row, write).group = Or(write.group, row.group)
  BY DEF Updated, Row, Write, Or

LEMMA AssignedType ==
  ASSUME NEW patch \in PatchType, NEW loaded \in Row, NEW now \in Nat
  PROVE  Assigned(patch, loaded, now) \in Write
  BY DEF Assigned, Changed, PatchType, Row, Write

LEMMA NoWriteType == NoWrite \in Write /\ NoWrite \in [address: {Unset}, active: {Unset}, group: {Unset}, addrAt: {Unset}]
  BY DEF NoWrite, Write

(* What a slot holds is told by its op and its pc. *)
LEMMA Slots ==
  ASSUME TypeOK, NEW r \in Requests
  PROVE  /\ req[r].op = "create" /\ req[r].pc # "event" => req[r] \in CreateReq
         /\ At(r, "create", "event") => req[r] \in CreatedReq
         /\ req[r].op \in Changes /\ req[r].pc = "read" => req[r] \in ReadReq
         /\ req[r].op \in Changes /\ req[r].pc \in {"group", "unique"}
              => req[r] \in LoadedReq
         /\ req[r].op \in Changes /\ req[r].pc = "commit" => req[r] \in StagedReq
         /\ req[r].op = "deleteGroup" => req[r] \in GroupReq
  BY DEF TypeOK, ReqType, At, Changes, Idle, CreateReq, CreatedReq, ReadReq,
         LoadedReq, StagedReq, GroupReq

(* Moving one slot to a well-typed value keeps req well typed. *)
LEMMA SlotStep ==
  ASSUME TypeOK, NEW r \in Requests, NEW q \in ReqType,
         req' = [req EXCEPT ![r] = q]
  PROVE  req' \in [Requests -> ReqType]
  BY DEF TypeOK

LEMMA FinishType ==
  ASSUME TypeOK, NEW r \in Requests, Finish(r)
  PROVE  req' \in [Requests -> ReqType]
  BY SlotStep DEF Finish, ReqType

LEMMA StageType ==
  ASSUME TypeOK, NEW r \in Requests, req[r].op \in Changes,
         req[r].pc # "commit", NEW write \in Write, Stage(r, write)
  PROVE  req' \in [Requests -> ReqType]
<1>1. req[r] \in ReadReq \cup LoadedReq
  BY Slots DEF TypeOK, ReqType, Changes, Idle, CreateReq, CreatedReq, ReadReq,
         LoadedReq, StagedReq, GroupReq
<1>2. req[r].user \in Users /\ req[r].wallet \in WalletIds
  BY <1>1 DEF ReadReq, LoadedReq
<1>3. [op |-> req[r].op, pc |-> "commit", user |-> req[r].user,
       wallet |-> req[r].wallet, write |-> write] \in StagedReq
  BY <1>2 DEF StagedReq
<1>. QED BY <1>3, SlotStep DEF Stage, ReqType

LEMMA LoadType ==
  ASSUME TypeOK, NEW r \in Requests, req[r].op \in Changes, req[r].pc = "read",
         req[r].wallet \in DOMAIN wallets, NEW pc \in {"group", "unique"}, Load(r, pc)
  PROVE  req' \in [Requests -> ReqType]
<1>1. req[r] \in ReadReq
  BY Slots
<1>2. wallets[req[r].wallet] \in Row
  BY DEF TypeOK
<1>3. [op |-> req[r].op, pc |-> pc, user |-> req[r].user,
       wallet |-> req[r].wallet, patch |-> req[r].patch,
       loaded |-> wallets[req[r].wallet]] \in LoadedReq
  BY <1>1, <1>2 DEF ReadReq, LoadedReq
<1>. QED BY <1>3, SlotStep DEF Load, ReqType

(* Every step keeps the types. *)
LEMMA TypeStep == TypeOK /\ [Next]_vars => TypeOK'
<1> SUFFICES ASSUME TypeOK, [Next]_vars PROVE TypeOK'
  OBVIOUS
<1>1. CASE UNCHANGED vars
  BY <1>1 DEF vars, TypeOK
<1>2. CASE CreateGroup
  BY <1>2 DEF CreateGroup, TypeOK
<1>3. CASE Restart
  BY <1>3 DEF Restart, TypeOK, ReqType
<1>4. ASSUME NEW r \in Requests, StartCreate(r) PROVE TypeOK'
  BY <1>4 DEF StartCreate, TypeOK, ReqType, CreateReq
<1>5. ASSUME NEW r \in Requests, CreateLock(r) PROVE TypeOK'
  <2>1. req[r] \in CreateReq
    BY <1>5, Slots DEF CreateLock, At
  <2>2. PICK had \in BOOLEAN :
          req' = [req EXCEPT ![r] = [req[r] EXCEPT !.pc = "group", !.had = had]]
    BY <1>5 DEF CreateLock, TypeOK
  <2>3. [req[r] EXCEPT !.pc = "group", !.had = had] \in CreateReq
    BY <2>1 DEF CreateReq
  <2>4. req' \in [Requests -> ReqType]
    BY <2>2, <2>3, SlotStep DEF ReqType
  <2>5. lock' \in [Users -> Requests \cup {Null}]
    BY <1>5, <2>1 DEF CreateLock, TypeOK, CreateReq
  <2>. QED BY <1>5, <2>4, <2>5 DEF CreateLock, TypeOK
<1>6. ASSUME NEW r \in Requests, CreateValidateGroup(r) PROVE TypeOK'
  <2>1. [req[r] EXCEPT !.pc = "unique"] \in CreateReq
    BY <1>6, Slots DEF CreateValidateGroup, At, CreateReq
  <2>2. req' \in [Requests -> ReqType]
    BY <1>6, <2>1, SlotStep, FinishType
       DEF CreateValidateGroup, Goto, ReqType, TypeOK
  <2>. QED BY <1>6, <2>2 DEF CreateValidateGroup, Release, TypeOK
<1>7. ASSUME NEW r \in Requests, CreateEnsureUnique(r) PROVE TypeOK'
  <2>1. [req[r] EXCEPT !.pc = "commit"] \in CreateReq
    BY <1>7, Slots DEF CreateEnsureUnique, At, CreateReq
  <2>2. req' \in [Requests -> ReqType]
    BY <1>7, <2>1, SlotStep, FinishType
       DEF CreateEnsureUnique, Goto, ReqType, TypeOK
  <2>. QED BY <1>7, <2>2 DEF CreateEnsureUnique, Release, TypeOK
<1>8. ASSUME NEW r \in Requests, CreateCommit(r) PROVE TypeOK'
  <2>1. req[r] \in CreateReq
    BY <1>8, Slots DEF CreateCommit, At
  <2>2. NewRow(r) \in Row
    BY <2>1 DEF NewRow, CreateReq, Row, PayloadType
  <2>3. PICK w \in WalletIds \ DOMAIN wallets :
          IF ViolatesUnique(w, NewRow(r)) \/ ViolatesForeignKey(NewRow(r).group)
            THEN Finish(r) /\ UNCHANGED wallets
            ELSE /\ wallets' = [v \in DOMAIN wallets \cup {w} |->
                                  IF v = w THEN NewRow(r) ELSE wallets[v]]
                 /\ req' = [req EXCEPT ![r] =
                              [op |-> "create", pc |-> "event",
                               user |-> req[r].user, had |-> req[r].had,
                               wallet |-> w]]
    BY <1>8 DEF CreateCommit
  <2>4. [op |-> "create", pc |-> "event", user |-> req[r].user,
         had |-> req[r].had, wallet |-> w] \in CreatedReq
    BY <2>1 DEF CreateReq, CreatedReq
  <2>5. req' \in [Requests -> ReqType]
    BY <2>3, <2>4, SlotStep, FinishType DEF ReqType
  <2>6. DOMAIN wallets' \subseteq WalletIds /\ \A v \in DOMAIN wallets' : wallets'[v] \in Row
    BY <2>2, <2>3 DEF TypeOK
  <2>. QED BY <1>8, <2>5, <2>6 DEF CreateCommit, Release, TypeOK
<1>9. ASSUME NEW r \in Requests, CreateRespond(r) PROVE TypeOK'
  <2>1. req[r] \in CreatedReq
    BY <1>9, Slots DEF CreateRespond
  <2>2. req' \in [Requests -> ReqType]
    BY <1>9, FinishType DEF CreateRespond
  <2>. QED BY <1>9, <2>1, <2>2 DEF CreateRespond, CreatedReq, TypeOK
<1>10. ASSUME NEW r \in Requests, StartChange(r) PROVE TypeOK'
  <2>1. PICK q \in ReadReq : req' = [req EXCEPT ![r] = q]
    BY <1>10 DEF StartChange, ReadReq, Changes
  <2>2. req' \in [Requests -> ReqType]
    BY <2>1, SlotStep DEF ReqType
  <2>. QED BY <1>10, <2>2 DEF StartChange, TypeOK
<1>11. ASSUME NEW r \in Requests, UpdateRead(r) PROVE TypeOK'
  <2>1. req' \in [Requests -> ReqType]
    BY <1>11, LoadType, FinishType DEF UpdateRead, At, Changes, OwnedWallet
  <2>. QED BY <1>11, <2>1 DEF UpdateRead, TypeOK
<1>12. ASSUME NEW r \in Requests, DeleteRead(r) PROVE TypeOK'
  <2>1. [NoWrite EXCEPT !.active = FALSE] \in Write
    BY DEF NoWrite, Write
  <2>2. req' \in [Requests -> ReqType]
    BY <1>12, <2>1, StageType, FinishType DEF DeleteRead, At, Changes
  <2>. QED BY <1>12, <2>2 DEF DeleteRead, TypeOK
<1>13. ASSUME NEW r \in Requests, RestoreRead(r) PROVE TypeOK'
  <2>1. req' \in [Requests -> ReqType]
    BY <1>13, LoadType, FinishType DEF RestoreRead, At, Changes, OwnedWallet
  <2>. QED BY <1>13, <2>1 DEF RestoreRead, TypeOK
<1>14. ASSUME NEW r \in Requests, UpdateValidate(r) PROVE TypeOK'
  <2>1. [req[r] EXCEPT !.pc = "unique"] \in LoadedReq
    BY <1>14, Slots DEF UpdateValidate, At, LoadedReq, Changes
  <2>2. req' \in [Requests -> ReqType]
    BY <1>14, <2>1, SlotStep, FinishType DEF UpdateValidate, Goto, ReqType, TypeOK
  <2>. QED BY <1>14, <2>2 DEF UpdateValidate, TypeOK
<1>15. ASSUME NEW r \in Requests, UpdateEnsureUnique(r) PROVE TypeOK'
  <2>1. req[r] \in LoadedReq
    BY <1>15, Slots DEF UpdateEnsureUnique, At, Changes
  <2>2. req[r].patch \in PatchType
    BY <2>1 DEF LoadedReq, NoPatch, PatchType
  <2>3. Assigned(req[r].patch, req[r].loaded, clock + 1) \in Write
    BY <2>1, <2>2, AssignedType DEF LoadedReq, TypeOK
  <2>4. req' \in [Requests -> ReqType]
    BY <1>15, <2>3, StageType, FinishType DEF UpdateEnsureUnique, At, Changes
  <2>. QED BY <1>15, <2>4 DEF UpdateEnsureUnique, TypeOK
<1>16. ASSUME NEW r \in Requests, RestoreEnsureUnique(r) PROVE TypeOK'
  <2>1. [NoWrite EXCEPT !.active = TRUE] \in Write
    BY DEF NoWrite, Write
  <2>2. req' \in [Requests -> ReqType]
    BY <1>16, <2>1, StageType, FinishType DEF RestoreEnsureUnique, At, Changes
  <2>. QED BY <1>16, <2>2 DEF RestoreEnsureUnique, TypeOK
<1>17. ASSUME NEW r \in Requests, CommitChange(r) PROVE TypeOK'
  <2>1. req[r] \in StagedReq
    BY <1>17, Slots DEF CommitChange
  <2>2. ASSUME req[r].wallet \in DOMAIN wallets
        PROVE Updated(wallets[req[r].wallet], req[r].write) \in Row
    BY <2>1, <2>2, UpdatedType DEF StagedReq, TypeOK
  <2>3. DOMAIN wallets' \subseteq WalletIds /\ \A v \in DOMAIN wallets' : wallets'[v] \in Row
    BY <1>17, <2>2 DEF CommitChange, TypeOK
  <2>4. req' \in [Requests -> ReqType]
    BY <1>17, FinishType DEF CommitChange
  <2>. QED BY <1>17, <2>3, <2>4 DEF CommitChange, TypeOK
<1>18. ASSUME NEW r \in Requests, StartDeleteGroup(r) PROVE TypeOK'
  <2>1. PICK q \in GroupReq : req' = [req EXCEPT ![r] = q]
    BY <1>18 DEF StartDeleteGroup, GroupReq
  <2>2. req' \in [Requests -> ReqType]
    BY <2>1, SlotStep DEF ReqType
  <2>. QED BY <1>18, <2>2 DEF StartDeleteGroup, TypeOK
<1>19. ASSUME NEW r \in Requests, ReadGroup(r) PROVE TypeOK'
  <2>1. [req[r] EXCEPT !.pc = "commit"] \in GroupReq
    BY <1>19, Slots DEF ReadGroup, At, GroupReq
  <2>2. req' \in [Requests -> ReqType]
    BY <1>19, <2>1, SlotStep, FinishType DEF ReadGroup, Goto, ReqType, TypeOK
  <2>. QED BY <1>19, <2>2 DEF ReadGroup, TypeOK
<1>20. ASSUME NEW r \in Requests, CommitDeleteGroup(r) PROVE TypeOK'
  <2>1. req[r].group \in GroupIds
    BY <1>20, Slots DEF CommitDeleteGroup, At, GroupReq
  <2>2. \A w \in DOMAIN wallets : [wallets[w] EXCEPT !.group = Null] \in Row
    BY DEF TypeOK, Row
  <2>3. DOMAIN wallets' \subseteq WalletIds /\ \A v \in DOMAIN wallets' : wallets'[v] \in Row
    BY <1>20, <2>2 DEF CommitDeleteGroup, TypeOK
  <2>4. req' \in [Requests -> ReqType]
    BY <1>20, FinishType DEF CommitDeleteGroup
  <2>. QED BY <1>20, <2>1, <2>3, <2>4 DEF CommitDeleteGroup, TypeOK
<1>. QED
  BY <1>1, <1>2, <1>3, <1>4, <1>5, <1>6, <1>7, <1>8, <1>9, <1>10, <1>11, <1>12,
     <1>13, <1>14, <1>15, <1>16, <1>17, <1>18, <1>19, <1>20
     DEF Next, Submit, Step

(* Every variable keeps its shape in every reachable state of the wallet    *)
(* tables and their requests.                                               *)
THEOREM TypeCorrect == Spec => []TypeOK
<1>1. Init => TypeOK
  BY DEF Init, TypeOK, ReqType
<1>. QED BY <1>1, TypeStep, PTL DEF Spec

------------------------------------------------------------------------------
(* One active EVM wallet per user and address *)

(* A row the unique index accepts keeps the index free of duplicates. *)
LEMMA AcceptedRowKeepsUnique ==
  ASSUME UniqueActiveAddress, NEW w, NEW row, ~ViolatesUnique(w, row),
         wallets' = [v \in DOMAIN wallets \cup {w} |->
                       IF v = w THEN row ELSE wallets[v]]
  PROVE  UniqueActiveAddress'
  BY DEF UniqueActiveAddress, ViolatesUnique, Indexed, SameKey

LEMMA UniqueStep == TypeOK /\ UniqueActiveAddress /\ [Next]_vars => UniqueActiveAddress'
<1> SUFFICES ASSUME TypeOK, UniqueActiveAddress, [Next]_vars
             PROVE  UniqueActiveAddress'
  OBVIOUS
<1>1. CASE wallets' = wallets
  BY <1>1 DEF UniqueActiveAddress, Indexed, SameKey
<1>2. ASSUME NEW r \in Requests, CreateCommit(r), wallets' # wallets
      PROVE  UniqueActiveAddress'
  <2>1. PICK w \in WalletIds \ DOMAIN wallets :
          /\ ~ViolatesUnique(w, NewRow(r))
          /\ wallets' = [v \in DOMAIN wallets \cup {w} |->
                           IF v = w THEN NewRow(r) ELSE wallets[v]]
    BY <1>2 DEF CreateCommit
  <2>. QED BY <2>1, AcceptedRowKeepsUnique
<1>3. ASSUME NEW r \in Requests, CommitChange(r), wallets' # wallets
      PROVE  UniqueActiveAddress'
  <2> DEFINE w == req[r].wallet
             row == Updated(wallets[w], req[r].write)
  <2>1. ~ViolatesUnique(w, row) /\ wallets' = [wallets EXCEPT ![w] = row]
    BY <1>3 DEF CommitChange
  <2>. QED BY <2>1 DEF UniqueActiveAddress, ViolatesUnique, Indexed, SameKey
<1>4. ASSUME NEW r \in Requests, CommitDeleteGroup(r) PROVE UniqueActiveAddress'
  <2>1. DOMAIN wallets' = DOMAIN wallets
    BY <1>4 DEF CommitDeleteGroup
  <2>2. \A w \in DOMAIN wallets :
          /\ wallets'[w].user = wallets[w].user /\ wallets'[w].kind = wallets[w].kind
          /\ wallets'[w].address = wallets[w].address
          /\ wallets'[w].active = wallets[w].active
    BY <1>4 DEF CommitDeleteGroup, TypeOK, Row
  <2>. QED BY <2>1, <2>2 DEF UniqueActiveAddress, Indexed, SameKey
<1>. QED
  BY <1>1, <1>2, <1>3, <1>4
     DEF Next, Submit, Step, vars, StartCreate, CreateLock, CreateValidateGroup,
         CreateEnsureUnique, CreateRespond, StartChange, UpdateRead, DeleteRead,
         RestoreRead, UpdateValidate, UpdateEnsureUnique, RestoreEnsureUnique,
         StartDeleteGroup, ReadGroup, CreateGroup, Restart

(* No reachable state has two active EVM wallets of one user on one address: *)
(* the index decides at the commit, so the stale answer of                  *)
(* _ensure_unique_active_evm_address never matters.                         *)
THEOREM UniqueActive == Spec => []UniqueActiveAddress
<1>1. Init => UniqueActiveAddress
  BY DEF Init, UniqueActiveAddress
<1>. QED BY <1>1, UniqueStep, TypeCorrect, PTL DEF Spec

------------------------------------------------------------------------------
(* What a request saw stays true enough until it commits *)

(* A group a request has found to be its user's is still that, or gone.     *)
GroupSeen(u, g) == g = Null \/ groupOwner[g] \in {u, "deleted"}

(* What slot r has established by the point its pc tells.                   *)
SlotInv(r) ==
  LET q == req[r]
  IN
  /\ (q.op = "create" /\ q.pc \in {"unique", "commit"})
       => GroupSeen(q.user, q.payload.group)
  /\ (q.op \in Changes /\ q.pc # "read") => OwnedWallet(q.user, q.wallet)
  /\ (q.op \in Changes /\ q.pc \in {"group", "unique"})
       => q.loaded.kind = wallets[q.wallet].kind
  /\ (q.op = "update" /\ q.pc = "unique") =>
       /\ q.patch.group # Unset => GroupSeen(q.user, q.patch.group)
       /\ q.patch.address # Unset => ValidBody(q.loaded.kind, q.patch.address)
  /\ (q.op \in Changes /\ q.pc = "commit") =>
       /\ q.write.group # Unset => GroupSeen(q.user, q.write.group)
       /\ q.write.address # Unset
            => ValidBody(wallets[q.wallet].kind, q.write.address)

RequestsInv == \A r \in Requests : SlotInv(r)

TableInv == GroupOfOwner /\ NetworkStateValid /\ RequestsInv

(* Rows are never removed and keep their owner and kind; a group that has   *)
(* an owner keeps it or is deleted, for good.                               *)
Persist ==
  /\ DOMAIN wallets \subseteq DOMAIN wallets'
  /\ \A w \in DOMAIN wallets :
        wallets'[w].user = wallets[w].user /\ wallets'[w].kind = wallets[w].kind
  /\ \A g \in GroupIds : groupOwner[g] = "deleted" => groupOwner'[g] = "deleted"
  /\ \A g \in GroupIds : groupOwner[g] \in Users
        => groupOwner'[g] \in {groupOwner[g], "deleted"}

LEMMA PersistStep == TypeOK /\ RequestsInv /\ [Next]_vars => Persist
<1> SUFFICES ASSUME TypeOK, RequestsInv, [Next]_vars PROVE Persist
  OBVIOUS
<1>1. CASE UNCHANGED <<wallets, groupOwner>>
  BY <1>1 DEF Persist
<1>2. CASE CreateGroup
  BY <1>2 DEF CreateGroup, Persist, TypeOK
<1>3. ASSUME NEW r \in Requests, CreateCommit(r) PROVE Persist
  BY <1>3 DEF CreateCommit, Persist
<1>4. ASSUME NEW r \in Requests, CommitChange(r) PROVE Persist
  <2>1. req[r] \in StagedReq
    BY <1>4, Slots DEF CommitChange
  <2>2. req[r].wallet \in DOMAIN wallets
    BY <1>4 DEF CommitChange, RequestsInv, SlotInv, OwnedWallet
  <2>3. wallets[req[r].wallet] \in Row /\ req[r].write \in Write
    BY <2>1, <2>2 DEF TypeOK, StagedReq
  <2>. QED BY <1>4, <2>3, UpdatedType DEF CommitChange, Persist
<1>5. ASSUME NEW r \in Requests, CommitDeleteGroup(r) PROVE Persist
  <2>1. \A w \in DOMAIN wallets :
          wallets'[w].user = wallets[w].user /\ wallets'[w].kind = wallets[w].kind
    BY <1>5 DEF CommitDeleteGroup, TypeOK, Row
  <2>. QED BY <1>5, <2>1 DEF CommitDeleteGroup, Persist, TypeOK
<1>. QED
  BY <1>1, <1>2, <1>3, <1>4, <1>5
     DEF Next, Submit, Step, vars, StartCreate, CreateLock, CreateValidateGroup,
         CreateEnsureUnique, CreateRespond, StartChange, UpdateRead, DeleteRead,
         RestoreRead, UpdateValidate, UpdateEnsureUnique, RestoreEnsureUnique,
         StartDeleteGroup, ReadGroup, Restart

(* What an untouched slot has established survives a step of another one.   *)
LEMMA OtherSlots ==
  ASSUME TypeOK, Persist, NEW q \in Requests, SlotInv(q), req'[q] = req[q]
  PROVE  SlotInv(q)'
<1>1. \A u \in Users, g \in GroupIds \cup {Null} : GroupSeen(u, g) => GroupSeen(u, g)'
  BY DEF Persist, GroupSeen
<1>2. \A u \in Users, w \in WalletIds : OwnedWallet(u, w) =>
        OwnedWallet(u, w)' /\ wallets'[w].kind = wallets[w].kind
  BY DEF Persist, OwnedWallet
<1>3. CASE req[q].op = "create"
  <2>1. req[q] \in CreateReq \cup CreatedReq
    BY <1>3, Slots DEF At, TypeOK, ReqType, Idle, CreateReq, CreatedReq, ReadReq,
         LoadedReq, StagedReq, GroupReq, Changes
  <2>. QED BY <1>1, <1>3, <2>1 DEF SlotInv, CreateReq, CreatedReq, PayloadType, Changes
<1>4. CASE req[q].op \in Changes /\ req[q].pc = "read"
  BY <1>4 DEF SlotInv, Changes
<1>5. CASE req[q].op \in Changes /\ req[q].pc \in {"group", "unique"}
  <2>1. req[q] \in LoadedReq
    BY <1>5, Slots
  <2>2. req[q].user \in Users /\ req[q].wallet \in WalletIds
    BY <2>1 DEF LoadedReq
  <2>3. req[q].patch.group \in GroupIds \cup {Null, Unset}
    BY <2>1 DEF LoadedReq, PatchType, NoPatch
  <2>. QED BY <1>1, <1>2, <1>5, <2>2, <2>3 DEF SlotInv, Changes, ValidBody
<1>6. CASE req[q].op \in Changes /\ req[q].pc = "commit"
  <2>1. req[q] \in StagedReq
    BY <1>6, Slots
  <2>2. req[q].user \in Users /\ req[q].wallet \in WalletIds
        /\ req[q].write.group \in GroupIds \cup {Null, Unset}
    BY <2>1 DEF StagedReq, Write
  <2>. QED BY <1>1, <1>2, <1>6, <2>2 DEF SlotInv, Changes, ValidBody
<1>7. CASE req[q].op \notin Changes \cup {"create"}
  BY <1>7 DEF SlotInv, Changes
<1>. QED
  BY <1>3, <1>4, <1>5, <1>6, <1>7
     DEF TypeOK, ReqType, Idle, CreateReq, CreatedReq, ReadReq, LoadedReq,
         StagedReq, GroupReq, Changes

(* The slot that steps establishes its own part. *)
LEMMA ActingSlot ==
  ASSUME TypeOK, TableInv, Persist, NEW r \in Requests, Submit(r) \/ Step(r)
  PROVE  SlotInv(r)'
<1> USE DEF TableInv, RequestsInv
<1>0. ASSUME req'[r] = Idle PROVE SlotInv(r)'
  BY <1>0 DEF SlotInv, Idle, Changes
<1>1. ASSUME StartCreate(r) PROVE SlotInv(r)'
  BY <1>1 DEF StartCreate, SlotInv, Changes, TypeOK
<1>2. ASSUME StartChange(r) PROVE SlotInv(r)'
  BY <1>2 DEF StartChange, SlotInv, Changes, TypeOK
<1>3. ASSUME StartDeleteGroup(r) PROVE SlotInv(r)'
  BY <1>3 DEF StartDeleteGroup, SlotInv, Changes, TypeOK
<1>4. ASSUME CreateLock(r) PROVE SlotInv(r)'
  BY <1>4, Slots DEF CreateLock, SlotInv, At, Changes, TypeOK, CreateReq
<1>5. ASSUME CreateValidateGroup(r) PROVE SlotInv(r)'
  <2>1. req[r] \in CreateReq
    BY <1>5, Slots DEF CreateValidateGroup, At
  <2>2. CASE Goto(r, "unique")
    <3>1. GroupSeen(req[r].user, req[r].payload.group)
      BY <1>5, <2>2, <2>1 DEF CreateValidateGroup, ValidGroup, OwnedGroup,
                              GroupSeen, Goto, Finish, TypeOK, CreateReq, Idle
    <3>. QED BY <1>5, <2>1, <2>2, <3>1
             DEF CreateValidateGroup, Goto, SlotInv, GroupSeen, Changes, TypeOK, CreateReq
  <2>. QED BY <1>5, <2>2, <1>0 DEF CreateValidateGroup, Finish, TypeOK
<1>6. ASSUME CreateEnsureUnique(r) PROVE SlotInv(r)'
  <2>1. req[r] \in CreateReq
    BY <1>6, Slots DEF CreateEnsureUnique, At
  <2>2. GroupSeen(req[r].user, req[r].payload.group)
    BY <1>6 DEF CreateEnsureUnique, At, SlotInv
  <2>. QED BY <1>0, <1>6, <2>1, <2>2
           DEF CreateEnsureUnique, Goto, Finish, SlotInv, GroupSeen, Changes, TypeOK, CreateReq
<1>7. ASSUME CreateCommit(r) PROVE SlotInv(r)'
  BY <1>7, <1>0 DEF CreateCommit, Finish, SlotInv, Changes, TypeOK
<1>8. ASSUME CreateRespond(r) PROVE SlotInv(r)'
  BY <1>8, <1>0 DEF CreateRespond, Finish, TypeOK
<1>9. ASSUME UpdateRead(r) PROVE SlotInv(r)'
  BY <1>9, <1>0 DEF UpdateRead, At, Load, Finish, OwnedWallet, SlotInv, Changes, TypeOK
<1>10. ASSUME DeleteRead(r) PROVE SlotInv(r)'
  BY <1>10, <1>0
     DEF DeleteRead, At, Stage, NoWrite, Finish, OwnedWallet, SlotInv, Changes, TypeOK
<1>11. ASSUME RestoreRead(r) PROVE SlotInv(r)'
  BY <1>11, <1>0 DEF RestoreRead, At, Load, Finish, OwnedWallet, SlotInv, Changes, TypeOK
<1>12. ASSUME UpdateValidate(r) PROVE SlotInv(r)'
  <2>1. req[r] \in LoadedReq
    BY <1>12, Slots DEF UpdateValidate, At, Changes
  <2>2. CASE Goto(r, "unique")
    <3>1. req[r].patch.group # Unset => ValidGroup(req[r].user, req[r].patch.group)
      BY <1>12, <2>1, <2>2 DEF UpdateValidate, Goto, Finish, TypeOK, LoadedReq, Idle
    <3>2. req[r].patch.address # Unset
            => ValidBody(req[r].loaded.kind, req[r].patch.address)
      BY <1>12, <2>1, <2>2 DEF UpdateValidate, Goto, Finish, TypeOK, LoadedReq, Idle
    <3>3. req'[r] = [req[r] EXCEPT !.pc = "unique"]
      BY <2>2 DEF Goto, TypeOK
    <3>4. OwnedWallet(req[r].user, req[r].wallet)
          /\ req[r].loaded.kind = wallets[req[r].wallet].kind
      BY <1>12 DEF UpdateValidate, At, SlotInv, Changes
    <3>5. wallets' = wallets /\ groupOwner' = groupOwner
      BY <1>12 DEF UpdateValidate
    <3>. QED
      BY <1>12, <2>1, <3>1, <3>2, <3>3, <3>4, <3>5
         DEF SlotInv, UpdateValidate, At, GroupSeen, ValidGroup, OwnedGroup, OwnedWallet, ValidBody,
             Changes, LoadedReq
  <2>. QED BY <1>12, <2>2, <1>0 DEF UpdateValidate, Finish, TypeOK
<1>13. ASSUME UpdateEnsureUnique(r) PROVE SlotInv(r)'
  <2>1. req[r] \in LoadedReq
    BY <1>13, Slots DEF UpdateEnsureUnique, At, Changes
  <2> DEFINE q == req[r]
             write == Assigned(q.patch, q.loaded, clock + 1)
  <2>2. CASE Stage(r, write)
    <3>1. /\ OwnedWallet(q.user, q.wallet)
          /\ q.loaded.kind = wallets[q.wallet].kind
          /\ q.patch.group # Unset => GroupSeen(q.user, q.patch.group)
          /\ q.patch.address # Unset => ValidBody(q.loaded.kind, q.patch.address)
      BY <1>13 DEF UpdateEnsureUnique, At, SlotInv, Changes
    <3>2. /\ write.group # Unset => GroupSeen(q.user, write.group)
          /\ write.address # Unset => ValidBody(wallets[q.wallet].kind, write.address)
      BY <3>1 DEF Assigned, Changed
    <3>3. req'[r] = [op |-> "update", pc |-> "commit", user |-> q.user,
                     wallet |-> q.wallet, write |-> write]
      BY <1>13, <2>2 DEF UpdateEnsureUnique, At, Stage, TypeOK
    <3>4. wallets' = wallets /\ groupOwner' = groupOwner
      BY <1>13 DEF UpdateEnsureUnique
    <3> HIDE DEF write
    <3>. QED BY <3>1, <3>2, <3>3, <3>4
             DEF SlotInv, OwnedWallet, GroupSeen, ValidBody, Changes
  <2>. QED BY <1>13, <2>2, <1>0 DEF UpdateEnsureUnique, Finish, TypeOK
<1>14. ASSUME RestoreEnsureUnique(r) PROVE SlotInv(r)'
  BY <1>14, <1>0
     DEF RestoreEnsureUnique, At, Stage, NoWrite, Finish, OwnedWallet, SlotInv, Changes, TypeOK
<1>15. ASSUME CommitChange(r) PROVE SlotInv(r)'
  BY <1>15, <1>0 DEF CommitChange, Finish, TypeOK
<1>16. ASSUME ReadGroup(r) PROVE SlotInv(r)'
  <2>1. req[r] \in GroupReq
    BY <1>16, Slots DEF ReadGroup, At
  <2>. QED BY <1>16, <1>0, <2>1
           DEF ReadGroup, Goto, Finish, SlotInv, Changes, TypeOK, GroupReq
<1>17. ASSUME CommitDeleteGroup(r) PROVE SlotInv(r)'
  BY <1>17, <1>0 DEF CommitDeleteGroup, Finish, TypeOK
<1>. QED
  BY <1>1, <1>2, <1>3, <1>4, <1>5, <1>6, <1>7, <1>8, <1>9, <1>10, <1>11, <1>12,
     <1>13, <1>14, <1>15, <1>16, <1>17 DEF Submit, Step

LEMMA RequestsStep == TypeOK /\ TableInv /\ [Next]_vars => RequestsInv'
<1> SUFFICES ASSUME TypeOK, TableInv, [Next]_vars, NEW q \in Requests
             PROVE  SlotInv(q)'
  BY DEF RequestsInv
<1>1. Persist /\ SlotInv(q)
  BY PersistStep DEF TableInv, RequestsInv
<1>2. CASE req'[q] = req[q]
  BY <1>1, <1>2, OtherSlots
<1>3. CASE req'[q] = Idle
  BY <1>3 DEF SlotInv, Idle, Changes
<1>4. CASE Submit(q) \/ Step(q)
  BY <1>1, <1>4, ActingSlot
<1>5. ASSUME NEW r \in Requests, Submit(r) \/ Step(r), r # q PROVE req'[q] = req[q]
  BY <1>5 DEF Submit, Step, StartCreate, CreateLock, CreateValidateGroup,
         CreateEnsureUnique, CreateCommit, CreateRespond, StartChange, UpdateRead,
         DeleteRead, RestoreRead, UpdateValidate, UpdateEnsureUnique,
         RestoreEnsureUnique, CommitChange, StartDeleteGroup, ReadGroup,
         CommitDeleteGroup, Goto, Finish, Load, Stage, TypeOK
<1>6. UNCHANGED vars \/ CreateGroup => req'[q] = req[q]
  BY DEF vars, CreateGroup
<1>7. Restart => req'[q] = Idle
  BY DEF Restart
<1>. QED BY <1>2, <1>3, <1>4, <1>5, <1>6, <1>7 DEF Next

(* A row keeps both table invariants if it is new or was read, validated    *)
(* and is written over a group that still exists.                           *)
LEMMA TablesStep ==
  TypeOK /\ TableInv /\ [Next]_vars => GroupOfOwner' /\ NetworkStateValid'
<1> SUFFICES ASSUME TypeOK, TableInv, [Next]_vars
             PROVE  GroupOfOwner' /\ NetworkStateValid'
  OBVIOUS
<1> USE DEF TableInv, RequestsInv
<1>1. CASE UNCHANGED <<wallets, groupOwner>>
  BY <1>1 DEF GroupOfOwner, NetworkStateValid, ValidBody
<1>2. CASE CreateGroup
  <2>1. \A w \in DOMAIN wallets : wallets[w] \in Row
    BY DEF TypeOK
  <2>2. \A w \in DOMAIN wallets : wallets[w].group # Null =>
          groupOwner'[wallets[w].group] = groupOwner[wallets[w].group]
    BY <1>2, <2>1 DEF CreateGroup, GroupOfOwner, Row, TypeOK
  <2>. QED BY <1>2, <2>2 DEF CreateGroup, GroupOfOwner, NetworkStateValid, ValidBody
<1>3. ASSUME NEW r \in Requests, CreateCommit(r)
      PROVE  GroupOfOwner' /\ NetworkStateValid'
  <2>1. req[r] \in CreateReq
    BY <1>3, Slots DEF CreateCommit, At
  <2>2. ValidBody(NewRow(r).kind, NewRow(r).address)
    BY <2>1 DEF NewRow, CreateReq, ValidBody
  <2>3. CASE ViolatesForeignKey(NewRow(r).group)
    BY <1>3, <2>3 DEF CreateCommit, GroupOfOwner, NetworkStateValid, ValidBody
  <2>4. CASE ~ViolatesForeignKey(NewRow(r).group)
    <3>1. NewRow(r).group # Null => groupOwner[NewRow(r).group] = NewRow(r).user
      BY <1>3, <2>1, <2>4 DEF CreateCommit, At, SlotInv, GroupSeen, NewRow, ViolatesForeignKey
    <3>. QED BY <1>3, <2>2, <3>1
             DEF CreateCommit, GroupOfOwner, NetworkStateValid, ValidBody
  <2>. QED BY <2>3, <2>4
<1>4. ASSUME NEW r \in Requests, CommitChange(r)
      PROVE  GroupOfOwner' /\ NetworkStateValid'
  <2> DEFINE w == req[r].wallet
             write == req[r].write
             row == Updated(wallets[w], write)
  <2>1. req[r] \in StagedReq
    BY <1>4, Slots DEF CommitChange
  <2>2. /\ OwnedWallet(req[r].user, w)
        /\ write.group # Unset => GroupSeen(req[r].user, write.group)
        /\ write.address # Unset => ValidBody(wallets[w].kind, write.address)
    BY <1>4 DEF CommitChange, SlotInv, Changes
  <2>3. wallets[w] \in Row /\ write \in Write /\ w \in DOMAIN wallets
    BY <2>1, <2>2 DEF TypeOK, StagedReq, OwnedWallet
  <2>4. /\ row.user = wallets[w].user /\ row.kind = wallets[w].kind
        /\ row.address = Or(write.address, wallets[w].address)
        /\ row.group = Or(write.group, wallets[w].group)
    BY <2>3, UpdatedType
  <2>5. ValidBody(row.kind, row.address)
    BY <2>2, <2>3, <2>4 DEF NetworkStateValid, Or
  <2>6. CASE wallets' = wallets
    BY <1>4, <2>6 DEF CommitChange, GroupOfOwner, NetworkStateValid, ValidBody
  <2>7. CASE wallets' # wallets
    <3>1. /\ wallets' = [wallets EXCEPT ![w] = row]
          /\ write.group # Unset => ~ViolatesForeignKey(row.group)
          /\ groupOwner' = groupOwner
      BY <1>4, <2>7 DEF CommitChange
    <3>2. row.group # Null => groupOwner[row.group] = row.user
      <4>1. CASE write.group = Unset
        BY <2>3, <2>4, <4>1 DEF Or, GroupOfOwner
      <4>2. CASE write.group # Unset
        BY <2>2, <2>4, <3>1, <4>2 DEF Or, GroupSeen, ViolatesForeignKey, OwnedWallet
      <4>. QED BY <4>1, <4>2
    <3> HIDE DEF row, write
    <3>. QED BY <2>5, <3>1, <3>2 DEF GroupOfOwner, NetworkStateValid, ValidBody
  <2>. QED BY <2>6, <2>7
<1>5. ASSUME NEW r \in Requests, CommitDeleteGroup(r)
      PROVE  GroupOfOwner' /\ NetworkStateValid'
  <2>1. \A w \in DOMAIN wallets :
          /\ wallets'[w].user = wallets[w].user /\ wallets'[w].kind = wallets[w].kind
          /\ wallets'[w].address = wallets[w].address
          /\ wallets'[w].group = IF wallets[w].group = req[r].group THEN Null
                                 ELSE wallets[w].group
    BY <1>5 DEF CommitDeleteGroup, TypeOK, Row
  <2>2. \A w \in DOMAIN wallets : wallets[w].group # Null => wallets[w].group \in GroupIds
    BY DEF TypeOK, Row
  <2>3. DOMAIN wallets' = DOMAIN wallets
    BY <1>5 DEF CommitDeleteGroup
  <2>. QED BY <1>5, <2>1, <2>2, <2>3
           DEF CommitDeleteGroup, GroupOfOwner, NetworkStateValid, ValidBody, TypeOK
<1>. QED
  BY <1>1, <1>2, <1>3, <1>4, <1>5
     DEF Next, Submit, Step, vars, StartCreate, CreateLock, CreateValidateGroup,
         CreateEnsureUnique, CreateRespond, StartChange, UpdateRead, DeleteRead,
         RestoreRead, UpdateValidate, UpdateEnsureUnique, RestoreEnsureUnique,
         StartDeleteGroup, ReadGroup, Restart

LEMMA TablesInvariant == Spec => []TableInv
<1>1. Init => TableInv
  BY DEF Init, TableInv, GroupOfOwner, NetworkStateValid, RequestsInv, SlotInv,
         Idle, Changes
<1>2. TypeOK /\ TableInv /\ [Next]_vars => TableInv'
  BY TablesStep, RequestsStep DEF TableInv
<1>. QED BY <1>1, <1>2, TypeCorrect, PTL DEF Spec

(* In every reachable state a wallet's group exists and is its owner's.     *)
THEOREM GroupsOwned == Spec => []GroupOfOwner
  BY TablesInvariant, PTL DEF TableInv

(* In every reachable state an EVM wallet has an address and a manual one   *)
(* has none, whatever partial updates interleave.                           *)
THEOREM NetworkValid == Spec => []NetworkStateValid
  BY TablesInvariant, PTL DEF TableInv

------------------------------------------------------------------------------
(* The first wallet is counted once *)

Owners == {wallets[w].user : w \in DOMAIN wallets}

(* r is between the advisory lock and the end of its transaction.           *)
Holding(r) == req[r].op = "create" /\ req[r].pc \in {"group", "unique", "commit"}

(* r has committed a first wallet and has not counted it yet.               *)
Counting(r) == At(r, "create", "event") /\ ~req[r].had

FirstInv ==
  /\ \A r \in Requests : Holding(r) =>
        /\ lock[req[r].user] = r
        /\ ~req[r].had => req[r].user \notin Owners
  /\ \A r \in Requests : Counting(r) =>
        req[r].user \in Owners /\ firstAdded[req[r].user] = 0
  /\ \A q, r \in Requests :
        (Counting(q) /\ Counting(r) /\ req[q].user = req[r].user) => q = r
  /\ FirstAddedOnce

LEMMA FirstStep == TypeOK /\ RequestsInv /\ FirstInv /\ [Next]_vars => FirstInv'
<1> SUFFICES ASSUME TypeOK, RequestsInv, FirstInv, [Next]_vars PROVE FirstInv'
  OBVIOUS
<1>0. ASSUME NEW r \in Requests,
             \A s \in Requests : s # r => req'[s] = req[s],
             req'[r].op # "create" \/ req'[r].pc = "lock",
             Owners' = Owners,
             \A u \in Users : lock[u] # r => lock'[u] = lock[u],
             firstAdded' = firstAdded
      PROVE  FirstInv'
  <2>3. ~Holding(r)' /\ ~Counting(r)'
    BY <1>0 DEF Holding, Counting, At
  <2>4. \A s \in Requests : req[s].op = "create" => req[s].user \in Users
    BY Slots DEF TypeOK, ReqType, Idle, CreateReq, CreatedReq, ReadReq, LoadedReq,
                 StagedReq, GroupReq, Changes
  <2>5. FirstAddedOnce'
    BY <1>0 DEF FirstInv, FirstAddedOnce, Owners
  <2>. QED BY <1>0, <2>3, <2>4, <2>5 DEF FirstInv, Holding, Counting, At
<1>1. CASE UNCHANGED vars
  BY <1>1 DEF vars, FirstInv, Holding, Counting, At, FirstAddedOnce, Owners
<1>2. CASE CreateGroup
  BY <1>2 DEF CreateGroup, FirstInv, Holding, Counting, At, FirstAddedOnce, Owners
<1>3. CASE Restart
  BY <1>3 DEF Restart, Idle, FirstInv, Holding, Counting, At, FirstAddedOnce, Owners
<1>4. ASSUME NEW r \in Requests, Finish(r),
             Owners' = Owners,
             UNCHANGED lock \/ Release(r), firstAdded' = firstAdded
      PROVE  FirstInv'
  BY <1>0, <1>4 DEF Finish, Idle, Release, TypeOK
<1>5. ASSUME NEW r \in Requests, NEW pc \in {"unique", "commit"}, Goto(r, pc),
             Holding(r), UNCHANGED <<wallets, lock, firstAdded>>
      PROVE  FirstInv'
  <2>1. req[r] \in CreateReq
    BY <1>5, Slots DEF Holding
  <2>2. \A s \in Requests :
          /\ Holding(s)' <=> Holding(s)
          /\ Counting(s)' <=> Counting(s)
          /\ req'[s].user = req[s].user
          /\ Holding(s) => req'[s].had = req[s].had
    BY <1>5, <2>1 DEF Goto, Holding, Counting, At, TypeOK, CreateReq
  <2>. QED BY <1>5, <2>2 DEF FirstInv, FirstAddedOnce, Owners
<1>6. ASSUME NEW r \in Requests, CreateLock(r) PROVE FirstInv'
  <2> DEFINE u == req[r].user
  <2>1. req[r] \in CreateReq
    BY <1>6, Slots DEF CreateLock, At
  <2>2. /\ req'[r].op = "create" /\ req'[r].pc = "group" /\ req'[r].user = u
        /\ ~req'[r].had => u \notin Owners
        /\ \A s \in Requests : s # r => req'[s] = req[s]
    BY <1>6, <2>1 DEF CreateLock, At, Owners, TypeOK, CreateReq
  <2>3. u \in Users /\ lock[u] = Null /\ lock'[u] = r
        /\ \A v \in Users : v # u => lock'[v] = lock[v]
    BY <1>6, <2>1 DEF CreateLock, CreateReq, TypeOK
  <2>4. wallets' = wallets /\ firstAdded' = firstAdded
    BY <1>6 DEF CreateLock
  <2>5. \A s \in Requests : Holding(s) => req[s].user # u
    BY <2>3 DEF FirstInv
  <2>6. \A s \in Requests : Holding(s)' => (s = r \/ (Holding(s) /\ req'[s] = req[s]))
    BY <2>2 DEF Holding
  <2>7. \A s \in Requests : Counting(s)' => Counting(s) /\ req'[s] = req[s]
    BY <2>2 DEF Counting, At
  <2>8. \A s \in Requests : Holding(s) => req[s].user \in Users
    BY Slots DEF Holding, CreateReq
  <2>9. Owners' = Owners
    BY <2>4 DEF Owners
  <2>10. \A s \in Requests : Holding(s)' =>
          /\ lock'[req'[s].user] = s
          /\ ~req'[s].had => req'[s].user \notin Owners'
    BY <2>2, <2>3, <2>5, <2>6, <2>8, <2>9 DEF FirstInv
  <2>11. FirstAddedOnce'
    BY <2>4 DEF FirstInv, FirstAddedOnce
  <2>12. \A s \in Requests : Counting(s)' =>
          req'[s].user \in Owners' /\ firstAdded'[req'[s].user] = 0
    BY <2>4, <2>7, <2>9 DEF FirstInv
  <2>13. \A q, s \in Requests :
          (Counting(q)' /\ Counting(s)' /\ req'[q].user = req'[s].user) => q = s
    BY <2>7 DEF FirstInv
  <2>14. QED BY <2>10, <2>11, <2>12, <2>13 DEF FirstInv, Holding, Counting, At
<1>7. ASSUME NEW r \in Requests, CreateCommit(r), ~Finish(r) PROVE FirstInv'
  <2> DEFINE u == req[r].user
  <2>1. req[r] \in CreateReq /\ Holding(r)
    BY <1>7, Slots DEF CreateCommit, At, Holding
  <2>2. PICK w \in WalletIds \ DOMAIN wallets :
          /\ wallets' = [v \in DOMAIN wallets \cup {w} |->
                           IF v = w THEN NewRow(r) ELSE wallets[v]]
          /\ req' = [req EXCEPT ![r] =
                       [op |-> "create", pc |-> "event", user |-> u,
                        had |-> req[r].had, wallet |-> w]]
    BY <1>7 DEF CreateCommit
  <2>3. /\ \A s \in Requests : s # r => req'[s] = req[s]
        /\ req'[r].op = "create" /\ req'[r].pc = "event" /\ req'[r].user = u
        /\ req'[r].had = req[r].had
    BY <2>2 DEF TypeOK
  <2>4. Owners' = Owners \cup {u}
    BY <2>2 DEF Owners, NewRow
  <2>5. u \in Users /\ lock[u] = r
    BY <2>1 DEF FirstInv, CreateReq
  <2>6. firstAdded' = firstAdded
        /\ \A v \in Users : lock[v] # r => lock'[v] = lock[v]
    BY <1>7 DEF CreateCommit, Release
  <2>7. \A s \in Requests : Holding(s)' =>
          /\ Holding(s) /\ req'[s] = req[s] /\ s # r
          /\ req[s].user # u /\ req[s].user \in Users
    BY <2>3, <2>5, Slots DEF Holding, FirstInv, CreateReq
  <2>8. \A s \in Requests : Holding(s)' =>
          /\ lock'[req'[s].user] = s
          /\ ~req'[s].had => req'[s].user \notin Owners'
    BY <2>4, <2>6, <2>7 DEF FirstInv
  <2>9. ~req[r].had => u \notin Owners /\ firstAdded[u] = 0
    BY <2>1, <2>5 DEF FirstInv, FirstAddedOnce, Owners, TypeOK
  <2>10. \A s \in Requests : Counting(s)' =>
          \/ s = r /\ ~req[r].had
          \/ s # r /\ Counting(s) /\ req'[s] = req[s]
    BY <2>3 DEF Counting, At
  <2>11. \A s \in Requests : Counting(s)' =>
          req'[s].user \in Owners' /\ firstAdded'[req'[s].user] = 0
    BY <2>3, <2>4, <2>6, <2>9, <2>10 DEF FirstInv
  <2>12. \A q, s \in Requests :
          (Counting(q)' /\ Counting(s)' /\ req'[q].user = req'[s].user) => q = s
    BY <2>3, <2>9, <2>10 DEF FirstInv
  <2>13. FirstAddedOnce'
    BY <2>4, <2>6 DEF FirstInv, FirstAddedOnce, Owners
  <2>. QED BY <2>8, <2>11, <2>12, <2>13 DEF FirstInv, Holding, Counting, At
<1>8. ASSUME NEW r \in Requests, CreateRespond(r) PROVE FirstInv'
  <2> DEFINE u == req[r].user
  <2>1. req[r] \in CreatedReq /\ u \in Users
    BY <1>8, Slots DEF CreateRespond, CreatedReq
  <2>2. /\ req'[r] = Idle
        /\ \A s \in Requests : s # r => req'[s] = req[s]
        /\ wallets' = wallets /\ lock' = lock
        /\ firstAdded' = IF req[r].had THEN firstAdded
                         ELSE [firstAdded EXCEPT ![u] = @ + 1]
    BY <1>8 DEF CreateRespond, Finish, TypeOK
  <2>3. ~req[r].had => Counting(r)
    BY <1>8 DEF CreateRespond, Counting
  <2>4. Owners' = Owners
    BY <2>2 DEF Owners
  <2>5. \A s \in Requests : Holding(s)' => Holding(s) /\ req'[s] = req[s]
    BY <2>2 DEF Holding, Idle
  <2>6. \A s \in Requests : Counting(s)' => s # r /\ Counting(s) /\ req'[s] = req[s]
    BY <2>2 DEF Counting, At, Idle
  <2>7. FirstAddedOnce'
    <3>1. \A v \in Users : v # u \/ req[r].had => firstAdded'[v] = firstAdded[v]
      BY <2>1, <2>2 DEF TypeOK
    <3>2. ~req[r].had => firstAdded'[u] = 1 /\ u \in Owners
      BY <2>1, <2>2, <2>3 DEF FirstInv, TypeOK
    <3>. QED BY <3>1, <3>2, <2>4 DEF FirstInv, FirstAddedOnce, Owners
  <2>8. \A s \in Requests : Holding(s)' =>
          /\ lock'[req'[s].user] = s
          /\ ~req'[s].had => req'[s].user \notin Owners'
    BY <2>2, <2>4, <2>5 DEF FirstInv
  <2>9. \A s \in Requests : Counting(s)' =>
          req'[s].user \in Owners' /\ firstAdded'[req'[s].user] = 0
    <3> SUFFICES ASSUME NEW s \in Requests, Counting(s)'
                 PROVE  req'[s].user \in Owners' /\ firstAdded'[req'[s].user] = 0
      OBVIOUS
    <3>1. Counting(s) /\ req'[s] = req[s] /\ s # r
      BY <2>6
    <3>2. ~req[r].had => req[s].user # u
      BY <3>1, <2>3 DEF FirstInv
    <3>3. firstAdded'[req[s].user] = firstAdded[req[s].user]
      BY <2>1, <2>2, <3>2 DEF TypeOK
    <3>. QED BY <2>4, <3>1, <3>3 DEF FirstInv
  <2>10. \A q, s \in Requests :
          (Counting(q)' /\ Counting(s)' /\ req'[q].user = req'[s].user) => q = s
    BY <2>6 DEF FirstInv
  <2>. QED BY <2>7, <2>8, <2>9, <2>10 DEF FirstInv, Holding, Counting, At
<1>9. ASSUME NEW r \in Requests, CreateCommit(r), Finish(r) PROVE FirstInv'
  <2>1. wallets' = wallets
    <3>1. CASE req'[r] = Idle
      BY <1>9, <3>1 DEF CreateCommit, Idle, TypeOK
    <3>. QED BY <1>9, <3>1 DEF Finish, TypeOK
  <2>. QED BY <1>9, <2>1, <1>4 DEF CreateCommit, Owners
<1>10. ASSUME NEW r \in Requests, CreateValidateGroup(r) PROVE FirstInv'
  BY <1>10, <1>4, <1>5 DEF CreateValidateGroup, At, Holding, Owners
<1>11. ASSUME NEW r \in Requests, CreateEnsureUnique(r) PROVE FirstInv'
  BY <1>11, <1>4, <1>5 DEF CreateEnsureUnique, At, Holding, Owners
<1>12. ASSUME NEW r \in Requests, Submit(r) PROVE FirstInv'
  <2>1. Owners' = Owners /\ lock' = lock /\ firstAdded' = firstAdded
    BY <1>12 DEF Submit, StartCreate, StartChange, StartDeleteGroup, Owners
  <2>2. /\ \A s \in Requests : s # r => req'[s] = req[s]
        /\ req'[r].op # "create" \/ req'[r].pc = "lock"
    BY <1>12 DEF Submit, StartCreate, StartChange, StartDeleteGroup, Changes, TypeOK
  <2>. QED BY <2>1, <2>2, <1>0
<1>13. ASSUME NEW r \in Requests,
              UpdateRead(r) \/ DeleteRead(r) \/ RestoreRead(r) \/ UpdateValidate(r)
                \/ UpdateEnsureUnique(r) \/ RestoreEnsureUnique(r)
       PROVE  FirstInv'
  <2>1. Owners' = Owners /\ lock' = lock /\ firstAdded' = firstAdded
    BY <1>13 DEF UpdateRead, DeleteRead, RestoreRead, UpdateValidate,
                 UpdateEnsureUnique, RestoreEnsureUnique, Owners
  <2>2. req[r] \in ReadReq \cup LoadedReq
    BY <1>13, Slots DEF UpdateRead, DeleteRead, RestoreRead, UpdateValidate,
                        UpdateEnsureUnique, RestoreEnsureUnique, At, Changes
  <2>3. /\ \A s \in Requests : s # r => req'[s] = req[s]
        /\ req'[r].op # "create"
    BY <1>13, <2>2
       DEF UpdateRead, DeleteRead, RestoreRead, UpdateValidate, UpdateEnsureUnique,
           RestoreEnsureUnique, At, Load, Stage, Goto, Finish, Idle, TypeOK,
           ReadReq, LoadedReq, Changes
  <2>. QED BY <2>1, <2>3, <1>0
<1>14. ASSUME NEW r \in Requests, CommitChange(r) PROVE FirstInv'
  <2>1. req[r] \in StagedReq
    BY <1>14, Slots DEF CommitChange
  <2>2. req[r].wallet \in DOMAIN wallets
    BY <1>14 DEF CommitChange, RequestsInv, SlotInv, OwnedWallet
  <2>3. wallets[req[r].wallet] \in Row /\ req[r].write \in Write
    BY <2>1, <2>2 DEF TypeOK, StagedReq
  <2>4. DOMAIN wallets' = DOMAIN wallets
        /\ \A w \in DOMAIN wallets : wallets'[w].user = wallets[w].user
    BY <1>14, <2>3, UpdatedType DEF CommitChange
  <2>. QED BY <1>14, <2>4, <1>4 DEF CommitChange, Owners
<1>15. ASSUME NEW r \in Requests, ReadGroup(r) PROVE FirstInv'
  BY <1>15, <1>0, <1>4, Slots DEF ReadGroup, At, Goto, GroupReq, Owners, TypeOK
<1>16. ASSUME NEW r \in Requests, CommitDeleteGroup(r) PROVE FirstInv'
  <2>1. DOMAIN wallets' = DOMAIN wallets
        /\ \A w \in DOMAIN wallets : wallets'[w].user = wallets[w].user
    BY <1>16 DEF CommitDeleteGroup, TypeOK, Row
  <2>. QED BY <1>16, <2>1, <1>4 DEF CommitDeleteGroup, Owners
<1>. QED
  BY <1>1, <1>2, <1>3, <1>6, <1>7, <1>8, <1>9, <1>10, <1>11, <1>12, <1>13, <1>14,
     <1>15, <1>16 DEF Next, Step

(* In every reachable state each user has been counted at most once as      *)
(* having added a first wallet: the advisory lock orders the creates.       *)
THEOREM FirstWalletCountedOnce == Spec => []FirstAddedOnce
<1>1. Init => FirstInv
  BY DEF Init, FirstInv, Holding, Counting, At, Idle, FirstAddedOnce
<1>2. TableInv => RequestsInv
  BY DEF TableInv
<1>3. FirstInv => FirstAddedOnce
  BY DEF FirstInv
<1>. QED BY <1>1, <1>2, <1>3, FirstStep, TypeCorrect, TablesInvariant, PTL DEF Spec

------------------------------------------------------------------------------
(* Who changes an address *)

(* Only a patch is about to write an address, and only one that writes an   *)
(* address is about to stamp it.                                            *)
AddressKept(r) ==
  (req[r].op \in Changes /\ req[r].pc = "commit") =>
    /\ req[r].write.address # Unset => req[r].op = "update"
    /\ req[r].write.addrAt # Unset => req[r].write.address # Unset

WritesInv == \A r \in Requests : AddressKept(r)

LEMMA WritesStep == TypeOK /\ WritesInv /\ [Next]_vars => WritesInv'
<1> SUFFICES ASSUME TypeOK, WritesInv, [Next]_vars PROVE WritesInv'
  OBVIOUS
<1>1. CASE UNCHANGED req
  BY <1>1 DEF WritesInv, AddressKept
<1>2. CASE Restart
  BY <1>2 DEF Restart, WritesInv, AddressKept, Idle, Changes
<1>3. ASSUME NEW r \in Requests, Submit(r) \/ Step(r) PROVE WritesInv'
  <2>1. \A q \in Requests \ {r} : req'[q] = req[q]
    BY <1>3 DEF TypeOK, Submit, Step, StartCreate, StartChange, StartDeleteGroup,
         CreateLock, CreateValidateGroup, CreateEnsureUnique, CreateCommit,
         CreateRespond, UpdateRead, DeleteRead, RestoreRead, UpdateValidate,
         UpdateEnsureUnique, RestoreEnsureUnique, CommitChange, ReadGroup,
         CommitDeleteGroup, Load, Stage, Goto, Finish
  <2>2. AddressKept(r)'
    <3>1. CASE DeleteRead(r) \/ RestoreEnsureUnique(r)
      BY <3>1 DEF DeleteRead, RestoreEnsureUnique, Stage, Finish, Idle, NoWrite,
           AddressKept, TypeOK, Changes
    <3>2. CASE UpdateRead(r) \/ UpdateValidate(r) \/ RestoreRead(r)
      <4>1. req[r] \in ReadReq \cup LoadedReq
        BY <3>2, Slots DEF UpdateRead, UpdateValidate, RestoreRead, At, Changes
      <4> QED
        BY <3>2, <4>1 DEF UpdateRead, UpdateValidate, RestoreRead, At, Load, Goto, Finish,
             Idle, AddressKept, TypeOK, ReadReq, LoadedReq, Changes
    <3>5. CASE UpdateEnsureUnique(r)
      <4> DEFINE write == Assigned(req[r].patch, req[r].loaded, clock + 1)
      <4>1. write.addrAt # Unset => write.address # Unset
        BY DEF Assigned, Changed, AddressChanged, Key
      <4>2. req'[r] = Idle \/ (req'[r].op = "update" /\ req'[r].write = write)
        BY <3>5 DEF UpdateEnsureUnique, At, Stage, Finish, TypeOK
      <4> QED  BY <4>1, <4>2 DEF AddressKept, Idle, Changes
    <3>3. CASE CommitChange(r)
      BY <3>3 DEF CommitChange, Finish, Idle, AddressKept, TypeOK, Changes
    <3>4. CASE \/ Submit(r) \/ CreateLock(r) \/ CreateValidateGroup(r)
               \/ CreateEnsureUnique(r) \/ CreateCommit(r) \/ CreateRespond(r)
               \/ ReadGroup(r) \/ CommitDeleteGroup(r)
      <4>1. req'[r].op \in {"none", "create", "deleteGroup"} \/ req'[r].pc = "read"
        <5>1. CASE Submit(r)
          BY <5>1 DEF Submit, StartCreate, StartChange, StartDeleteGroup, TypeOK
        <5>2. CASE \/ CreateLock(r) \/ CreateValidateGroup(r) \/ CreateEnsureUnique(r)
                   \/ CreateCommit(r) \/ CreateRespond(r)
          <6>1. req[r] \in CreateReq \cup CreatedReq
            BY <5>2, Slots DEF CreateLock, CreateValidateGroup, CreateEnsureUnique,
                 CreateCommit, CreateRespond, At
          <6>2. CASE CreateLock(r)
            BY <6>1, <6>2 DEF CreateLock, At, TypeOK, CreateReq, CreatedReq
          <6>3. CASE CreateCommit(r)
            BY <6>3 DEF CreateCommit, Finish, Idle, TypeOK
          <6>4. CASE CreateValidateGroup(r) \/ CreateEnsureUnique(r) \/ CreateRespond(r)
            BY <6>1, <6>4 DEF CreateValidateGroup, CreateEnsureUnique, CreateRespond, Goto,
                 Finish, Idle, TypeOK, CreateReq, CreatedReq
          <6> QED  BY <5>2, <6>2, <6>3, <6>4
        <5>3. CASE ReadGroup(r) \/ CommitDeleteGroup(r)
          <6>1. req[r] \in GroupReq
            BY <5>3, Slots DEF ReadGroup, CommitDeleteGroup, At
          <6> QED
            BY <5>3, <6>1 DEF ReadGroup, CommitDeleteGroup, At, Goto, Finish, Idle,
                 TypeOK, GroupReq
        <5> QED  BY <3>4, <5>1, <5>2, <5>3
      <4> QED  BY <4>1 DEF AddressKept, Changes
    <3> QED  BY <1>3, <3>1, <3>2, <3>3, <3>4, <3>5 DEF Step
  <2> QED  BY <2>1, <2>2 DEF WritesInv, AddressKept
<1> QED  BY <1>1, <1>2, <1>3 DEF Next, CreateGroup, vars

(* Only a commit of a patch that names the address, made by the owner of    *)
(* the wallet, changes it: a delete, a restore, a group that goes and a     *)
(* patch of other columns write around a concurrent change of address.      *)
THEOREM AddressChangesByOwner == Spec => AddressChangesOnlyByOwnersPatch
<1> DEFINE Change(w, r) ==
             /\ At(r, "update", "commit")
             /\ req[r].wallet = w
             /\ req[r].user = wallets[w].user
             /\ req[r].write.address = wallets'[w].address
<1>1. ASSUME TypeOK, TableInv, WritesInv, [Next]_vars
      PROVE  \A w \in DOMAIN wallets : wallets'[w].address # wallets[w].address =>
               \E r \in Requests : Change(w, r)
  <2> SUFFICES ASSUME NEW w \in DOMAIN wallets, wallets'[w].address # wallets[w].address
               PROVE  \E r \in Requests : Change(w, r)
    OBVIOUS
  <2>1. ASSUME NEW r \in Requests, CommitChange(r) PROVE Change(w, r)
    <3>1. req[r] \in StagedReq /\ OwnedWallet(req[r].user, req[r].wallet) /\ AddressKept(r)
      BY <1>1, <2>1, Slots DEF CommitChange, TableInv, RequestsInv, SlotInv, WritesInv
    <3>2. wallets[req[r].wallet] \in Row /\ req[r].write \in Write
      BY <1>1, <3>1 DEF StagedReq, OwnedWallet, TypeOK
    <3>3. /\ w = req[r].wallet
          /\ wallets'[w].address = Or(req[r].write.address, wallets[w].address)
      BY <2>1, <3>1, <3>2, UpdatedType DEF CommitChange
    <3>4. req[r].write.address # Unset /\ wallets'[w].address = req[r].write.address
      BY <3>3 DEF Or
    <3> QED  BY <2>1, <3>1, <3>3, <3>4 DEF CommitChange, AddressKept, At, OwnedWallet, Changes
  <2>2. ASSUME NEW r \in Requests, CreateCommit(r) PROVE FALSE
    BY <2>2 DEF CreateCommit
  <2>3. ASSUME NEW r \in Requests, CommitDeleteGroup(r) PROVE FALSE
    BY <1>1, <2>3 DEF CommitDeleteGroup, TypeOK, Row
  <2>4. wallets' # wallets  OBVIOUS
  <2> HIDE DEF Change
  <2> QED
    BY <1>1, <2>1, <2>2, <2>3, <2>4
       DEF Next, Submit, Step, vars, StartCreate, CreateLock, CreateValidateGroup,
           CreateEnsureUnique, CreateRespond, StartChange, UpdateRead, DeleteRead,
           RestoreRead, UpdateValidate, UpdateEnsureUnique, RestoreEnsureUnique,
           StartDeleteGroup, ReadGroup, CreateGroup, Restart
<1>2. Init => WritesInv
  BY DEF Init, WritesInv, AddressKept, Idle, Changes
<1> QED
  BY <1>1, <1>2, WritesStep, TypeCorrect, TablesInvariant, PTL
     DEF Spec, AddressChangesOnlyByOwnersPatch

==============================================================================
