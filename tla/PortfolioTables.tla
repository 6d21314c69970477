--------------------------- MODULE PortfolioTables ---------------------------
(***************************************************************************)
(* The tables the portfolio endpoints read, and what changes the rows of a  *)
(* request while it is being answered: the external snapshot service, other *)
(* requests of the user, and the clock.  Wallets that appear (created,      *)
(* restored) and groups that change are left out: an answer is over the     *)
(* wallets and the groups its first statement read.                         *)
(*                                                                         *)
(* Time is counted in units of PORTFOLIO_FRESH_SECONDS or more; only ages   *)
(* and orders matter.  Amounts and values are small numbers.               *)
(***************************************************************************)
EXTENDS Integers, FiniteSets, FiniteSetsExt

CONSTANTS
  Users, Me,      \* the owners, and the one whose requests are modelled
  GroupOwner,     \* wallet groups: a function from group to owner
  Databases,      \* tables a request may find: records of the fields below
  Contents,       \* what a run may find for a wallet: status, total, parts
  Books,          \* sets of manual balances the user may write
  Addresses,      \* EVM addresses, as canonical keys
  Fresh, Stale,   \* PORTFOLIO_FRESH_SECONDS and PORTFOLIO_STALE_SECONDS
  Day,            \* the 24 hours of the value change, in the same unit
  MaxNow,         \* bound: how far the clock goes
  MaxChanges,     \* bound: changes of the tables during a behaviour
  MaxOpen,        \* bound: how long a PATCH is open before its commit
  Null

Statuses == {"pending", "running", "success", "partial_success", "failed"}
ActiveStatuses == {"pending", "running"}
ReadStatuses == {"success", "partial_success"}

(* A row of balances: its value is a number even where it has no price.     *)
Balance(b) ==
  /\ b = [asset |-> b.asset, amount |-> b.amount, value |-> b.value,
          price |-> b.price, source |-> b.source]
  /\ b.value \in Int
BalanceRows(B) == IsFiniteSet(B) /\ \A b \in B : Balance(b)

(* A collector stores with the balances what their values add up to.        *)
Total(B) == SumFunction([b \in B |-> b.value])

(* What a wallet's collection leaves: a success has no failed chain.        *)
Collected(c) ==
  /\ IsFiniteSet(c.parts) /\ \A p \in c.parts : BalanceRows(p.balances)
  /\ c.total = Total(UNION {p.balances : p \in c.parts})
  /\ c.status = "success" => \A p \in c.parts : p.status # "failed"

Written(B) ==
  BalanceRows(B) /\ \A b \in B : b.amount \in Int /\ (b.price = Null \/ b.price \in Int)

Dated(x, t) == x = Null \/ (x \in Int /\ x <= t)

WalletRows(ws, t) ==
  /\ IsFiniteSet(DOMAIN ws) /\ DOMAIN ws \subseteq Int
  /\ \A w \in DOMAIN ws : /\ DOMAIN ws[w] = {"user", "kind", "address", "active",
                                              "group", "addrAt"}
                          /\ ws[w].user \in Users
                          /\ ws[w].addrAt \in Int /\ ws[w].addrAt <= t
                          /\ ws[w].group = Null
                               \/ /\ ws[w].group \in DOMAIN GroupOwner
                                  /\ GroupOwner[ws[w].group] = ws[w].user

(* A run is over its user's own wallets, groups and runs.                   *)
RunRows(ws, rs, last, t) ==
  /\ DOMAIN rs \subseteq 1 .. last
  /\ \A r \in DOMAIN rs :
       /\ DOMAIN rs[r] = {"user", "scope", "target", "status", "created", "finished"}
       /\ rs[r].user \in Users /\ rs[r].status \in Statuses
       /\ rs[r].created \in Int /\ rs[r].created <= t /\ Dated(rs[r].finished, t)
       /\ rs[r].status \in ActiveStatuses => rs[r].finished = Null
       /\ rs[r].finished # Null => rs[r].created <= rs[r].finished
       /\ rs[r].scope = "wallet" /\ rs[r].target \in DOMAIN ws =>
            ws[rs[r].target].user = rs[r].user
       /\ rs[r].scope = "group" =>
            /\ rs[r].target \in DOMAIN GroupOwner
            /\ GroupOwner[rs[r].target] = rs[r].user
       /\ rs[r].scope = "failed_chains" =>
            rs[r].target \in DOMAIN rs /\ rs[rs[r].target].user = rs[r].user

(* A snapshot that can be read has a time of its own, or its run has ended; *)
(* every snapshot of a run that ended in success is one.                    *)
SnapRows(ws, rs, ss, last, t) ==
  /\ DOMAIN ss \subseteq 1 .. last
  /\ \A s \in DOMAIN ss :
       /\ ss[s].wallet \in DOMAIN ws /\ ss[s].run \in DOMAIN rs
       /\ rs[ss[s].run].user = ws[ss[s].wallet].user
       /\ Collected(ss[s]) /\ Dated(ss[s].finished, t)
       /\ ss[s].finished # Null => rs[ss[s].run].created <= ss[s].finished
       /\ ss[s].status \in ReadStatuses =>
            ss[s].finished # Null \/ rs[ss[s].run].finished # Null
       /\ rs[ss[s].run].status = "success" => ss[s].status = "success"

(* The legacy table has neither prices nor sources, and rows of the past    *)
(* only: nothing calls its collector any more.                              *)
OtherRows(ws, ls, ms, t) ==
  /\ DOMAIN ls \subseteq Int /\ IsFiniteSet(DOMAIN ls)
  /\ \A l \in DOMAIN ls : /\ ls[l].wallet \in DOMAIN ws
                          /\ ls[l].at \in Int /\ ls[l].at < t
                          /\ BalanceRows(ls[l].balances)
                          /\ ls[l].total = Total(ls[l].balances)
                          /\ \A b \in ls[l].balances : b.price = Null /\ b.source = Null
  /\ DOMAIN ms \subseteq DOMAIN ws
  /\ \A w \in DOMAIN ms : Written(ms[w])

(* A run created between the stamp and the commit of a change of address.   *)
Raced(changed, created) ==
  \E p \in changed : p.stamp <= created /\ created <= p.commit

(* The last change of an address gave the wallet its stamp.  A run created  *)
(* since then collected the address the wallet has, unless it raced.        *)
AddressRows(ws, rs, ss, ps, t) ==
  /\ DOMAIN ws \subseteq DOMAIN ps
  /\ \A w \in DOMAIN ws :
       /\ \A p \in ps[w] : p.stamp \in Int /\ p.commit \in Int /\ p.commit <= t
       /\ ps[w] # {} => \E q \in ps[w] : /\ q.stamp = ws[w].addrAt
                                        /\ \A p \in ps[w] : p.commit <= q.commit
  /\ \A s \in DOMAIN ss :
       LET w == ss[s].wallet
           created == rs[ss[s].run].created
       IN  created >= ws[w].addrAt /\ ~ Raced(ps[w], created) => ss[s].key = ws[w].address

WellFormed(ws, rs, ss, ls, ms, last, t) ==
  /\ last \in Nat
  /\ WalletRows(ws, t)
  /\ RunRows(ws, rs, last, t)
  /\ SnapRows(ws, rs, ss, last, t)
  /\ OtherRows(ws, ls, ms, t)

(* Settings refuses a stale threshold that is not above the fresh one; that *)
(* the fresh one (900 s by default) is below a day is left to who sets it.  *)
ASSUME PortfolioAssumption ==
  /\ Me \in Users /\ Null \notin Int
  /\ Fresh \in Nat /\ Stale \in Nat /\ Fresh < Stale
  /\ Day \in Nat /\ Fresh <= Day
  /\ MaxNow \in Nat /\ MaxChanges \in Nat /\ MaxOpen \in Nat
  /\ IsFiniteSet(DOMAIN GroupOwner)
  /\ \A g \in DOMAIN GroupOwner : GroupOwner[g] \in Users
  /\ \A d \in Databases :
       /\ d.now \in 0 .. MaxNow
       /\ WellFormed(d.wallets, d.runs, d.snaps, d.legacy, d.manual, d.lastId, d.now)
       /\ AddressRows(d.wallets, d.runs, d.snaps, d.patches, d.now)
  /\ \A c \in Contents :
       c.status \in {"success", "partial_success", "failed"} /\ Collected(c)
  /\ \A b \in Books : Written(b)

VARIABLES
  wallets,  \* by id: user, kind, address, active, group, addrAt
  runs,     \* snapshot_runs by id: user, scope, target, status, created, finished
  snaps,    \* wallet_snapshots by id, with their chains and balances (parts);
            \* key: the address they were collected for (no column has it)
  legacy,   \* the older snapshots table by id, with its balances
  manual,   \* manual_balances: the set of balances of each manual wallet
  lastId,   \* the sequences of runs and snaps: an id is never given twice
  now,      \* the clock
  changes,  \* how often the tables changed
  patches,  \* history: the changes of each wallet's address: from, stamp, commit
  gone,     \* history: the user was merged into another account
  req,      \* the request of Me being answered
  offer     \* the job the last summary offered for a retry, or Null

tables == <<wallets, runs, snaps, legacy, manual>>
world == <<tables, lastId, now, changes, patches, gone>>
pVars == <<world, req, offer>>

------------------------------------------------------------------------------
(* Rows *)

Assign(f, x, y) == [k \in DOMAIN f \cup {x} |-> IF k = x THEN y ELSE f[k]]
Keep(f, S) == [k \in DOMAIN f \cap S |-> f[k]]
With(f, g) ==
  [k \in DOMAIN f \cup DOMAIN g |-> IF k \in DOMAIN f THEN f[k] ELSE g[k]]

Coalesce(x, y) == IF x # Null THEN x ELSE y

(* ORDER BY SnapshotRun.created_at                                          *)
CreatedAt(s) == runs[snaps[s].run].created

(* _snapshot_observed_at                                                    *)
Observed(s) ==
  Coalesce(snaps[s].finished,
           Coalesce(runs[snaps[s].run].finished, runs[snaps[s].run].created))

(* The rows of a wallet that a JOIN with runs and the status filter leaves. *)
SnapsOf(w, statuses) ==
  {s \in DOMAIN snaps : snaps[s].wallet = w /\ snaps[s].status \in statuses}

(* SnapshotRun.created_at >= Wallet.address_updated_at, joined at query time *)
CurrentRevision(s) ==
  /\ snaps[s].wallet \in DOMAIN wallets
  /\ runs[snaps[s].run].created >= wallets[snaps[s].wallet].addrAt

(* row_number() = 1 under ORDER BY at DESC, id DESC                         *)
TopRow(S, Key(_)) ==
  CHOOSE s \in S : \A t \in S : Key(t) < Key(s) \/ (Key(t) = Key(s) /\ t <= s)

(* chain_snapshots rows of a set of wallet snapshots, and their balances.   *)
PartsOf(S) == UNION {{<<s, p>> : p \in snaps[s].parts} : s \in S \cap DOMAIN snaps}
BalancesOf(S) ==
  UNION {{<<<<"snapshot", x[1]>>, b>> : b \in x[2].balances} : x \in PartsOf(S)}
Unfinished(S) ==
  {<<x[1], [chain |-> x[2].chain, status |-> x[2].status, run |-> snaps[x[1]].run]>>
     : x \in {y \in PartsOf(S) : y[2].status # "success"}}

ActiveOf(u) == {w \in DOMAIN wallets : wallets[w].user = u /\ wallets[w].active}

(* active_canonical_wallets: of the active EVM wallets of an address only   *)
(* the one with the smallest id counts.                                     *)
CanonicalWallets(u) ==
  {w \in ActiveOf(u) :
     wallets[w].kind = "evm" =>
       /\ wallets[w].address # Null
       /\ \A v \in ActiveOf(u) :
            wallets[v].kind = "evm" /\ wallets[v].address = wallets[w].address
              => w <= v}

InScope(w, groups, ungrouped) ==
  IF wallets[w].group = Null THEN ungrouped ELSE wallets[w].group \in groups

------------------------------------------------------------------------------
(* What changes the tables *)

Init0 ==
  /\ \E d \in Databases :
       /\ wallets = d.wallets
       /\ runs = d.runs
       /\ snaps = d.snaps
       /\ legacy = d.legacy
       /\ manual = d.manual
       /\ lastId = d.lastId
       /\ now = d.now
       /\ patches = d.patches
  /\ changes = 0
  /\ gone = FALSE
  /\ req = [op |-> "none", pc |-> "idle"]
  /\ offer = Null

Change ==
  /\ changes < MaxChanges
  /\ changes' = changes + 1
  /\ UNCHANGED <<now, req, offer>>

(* The service creates a run for a scope; the scheduler's scope is "all".   *)
InsertRun(u, scope, target) ==
  /\ lastId' = lastId + 1
  /\ runs' = Assign(runs, lastId',
                    [user |-> u, scope |-> scope, target |-> target,
                     status |-> "running", created |-> now, finished |-> Null])

ActiveRun(u, scope, target) ==
  {r \in DOMAIN runs : /\ runs[r].user = u /\ runs[r].scope = scope
                       /\ runs[r].target = target
                       /\ runs[r].status \in ActiveStatuses}

StartRun(u) ==
  /\ Change
  /\ ActiveOf(u) # {} /\ ActiveRun(u, "all", Null) = {}
  /\ InsertRun(u, "all", Null)
  /\ UNCHANGED <<wallets, snaps, legacy, manual, patches, gone>>

WalletsOfRun(r) ==
  {w \in ActiveOf(runs[r].user) :
     /\ runs[r].scope = "wallet" => w = runs[r].target
     /\ runs[r].scope = "group" => wallets[w].group = runs[r].target
     /\ runs[r].scope = "failed_chains" =>
          \E x \in Unfinished({s \in DOMAIN snaps : snaps[s].run = runs[r].target}) :
            snaps[x[1]].wallet = w /\ x[2].status = "failed"}

(* The addresses a run may have collected: the service reads them some time *)
(* after it created the run.                                                *)
AddressesSeen(r, w) ==
  {wallets[w].address}
    \cup {p.from : p \in {x \in patches[w] : x.commit >= runs[r].created}}

(* It publishes what it found for one wallet, then ends the run.            *)
Publish(r, w) ==
  /\ Change
  /\ runs[r].status \in ActiveStatuses
  /\ w \in WalletsOfRun(r)
  /\ \A s \in DOMAIN snaps : ~ (snaps[s].run = r /\ snaps[s].wallet = w)
  /\ lastId' = lastId + 1
  /\ \E c \in Contents, key \in AddressesSeen(r, w) :
       snaps' = Assign(snaps, lastId',
                       [wallet |-> w, run |-> r, finished |-> now, key |-> key,
                        status |-> c.status, total |-> c.total, parts |-> c.parts])
  /\ UNCHANGED <<wallets, runs, legacy, manual, patches, gone>>

StatusesOf(r) == {snaps[s].status : s \in {t \in DOMAIN snaps : snaps[t].run = r}}

EndRun(r) ==
  /\ Change
  /\ runs[r].status \in ActiveStatuses
  /\ LET status == IF StatusesOf(r) = {"success"} THEN "success"
                   ELSE IF StatusesOf(r) \subseteq {"failed"} THEN "failed"
                   ELSE "partial_success"
     IN  runs' = Assign(runs, r, With([finished |-> now, status |-> status], runs[r]))
  /\ UNCHANGED <<lastId, wallets, snaps, legacy, manual, patches, gone>>

(* PATCH of an address: the wallet is loaded and the stamp taken before the *)
(* commit, whether or not a run is created in between; another PATCH may be *)
(* committed meanwhile.  Only an active wallet needs an address of its own. *)
PatchAddress(w, a) ==
  /\ Change
  /\ wallets[w].kind = "evm"
  /\ wallets[w].address # a
       \/ \E p \in patches[w] : p.from # a /\ p.commit >= now - MaxOpen
  /\ wallets[w].active =>
       \A v \in ActiveOf(wallets[w].user) \ {w} : wallets[v].address # a
  /\ \E stamp \in now - MaxOpen .. now :
       /\ wallets' = Assign(wallets, w, With([address |-> a, addrAt |-> stamp], wallets[w]))
       /\ patches' = [patches EXCEPT ![w] =
            @ \cup {[from |-> wallets[w].address, stamp |-> stamp, commit |-> now]}]
  /\ UNCHANGED <<lastId, runs, snaps, legacy, manual, gone>>

Deactivate(w) ==
  /\ Change
  /\ wallets[w].active
  /\ wallets' = Assign(wallets, w, With([active |-> FALSE], wallets[w]))
  /\ UNCHANGED <<lastId, runs, snaps, legacy, manual, patches, gone>>

WriteManual(w, book) ==
  /\ Change
  /\ wallets[w].kind = "manual"
  /\ manual' = Assign(manual, w, book)
  /\ UNCHANGED <<lastId, wallets, runs, snaps, legacy, patches, gone>>

(* The merge of the user into another account deletes every row of theirs.  *)
DeleteUser ==
  /\ Change
  /\ ~ gone
  /\ gone' = TRUE
  /\ LET mine == {w \in DOMAIN wallets : wallets[w].user = Me} IN
       /\ wallets' = Keep(wallets, DOMAIN wallets \ mine)
       /\ runs' = Keep(runs, {r \in DOMAIN runs : runs[r].user # Me})
       /\ snaps' = Keep(snaps, {s \in DOMAIN snaps : snaps[s].wallet \notin mine})
       /\ legacy' = Keep(legacy, {l \in DOMAIN legacy : legacy[l].wallet \notin mine})
       /\ manual' = Keep(manual, DOMAIN manual \ mine)
  /\ UNCHANGED <<lastId, patches>>

Tick ==
  /\ now < MaxNow
  /\ now' = now + 1
  /\ UNCHANGED <<tables, lastId, changes, patches, gone, req, offer>>

Environment ==
  \/ \E u \in Users : StartRun(u)
  \/ \E r \in DOMAIN runs, w \in DOMAIN wallets : Publish(r, w)
  \/ \E r \in DOMAIN runs : EndRun(r)
  \/ \E w \in DOMAIN wallets, a \in Addresses : PatchAddress(w, a)
  \/ \E w \in DOMAIN wallets : Deactivate(w)
  \/ \E w \in DOMAIN wallets, b \in Books : WriteManual(w, b)
  \/ DeleteUser
  \/ Tick

------------------------------------------------------------------------------
(* A request of Me: one statement per step, its results kept as locals.     *)

At(op, pc) == req.op = op /\ req.pc = pc
NoLocals == [x \in {} |-> x]

(* Keep the locals given, go on at pc, change no table.                     *)
Then(pc, locals) ==
  /\ req' = With([pc |-> pc], With(locals, req))
  /\ UNCHANGED <<world, offer>>

Fail(code) == Then("done", [answer |-> [code |-> code]])

==============================================================================
