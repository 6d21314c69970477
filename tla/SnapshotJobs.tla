----------------------------- MODULE SnapshotJobs -----------------------------
(***************************************************************************)
(* POST /snapshots, POST /wallets/{id}/snapshots, GET /snapshot-jobs/{id}   *)
(* and POST /snapshot-jobs/{id}/retry-failed, with the HTTP client of the   *)
(* snapshot service they call.                                              *)
(*                                                                         *)
(* The service is external: a POST may create a run, reuse the active one,  *)
(* refuse, or time out after or before the run exists.                      *)
(***************************************************************************)
EXTENDS PortfolioHistory

CONSTANTS
  Targets,   \* scope and target a client may ask a refresh for
  Failures   \* ways a POST can fail: kind, and the status of an answer

ASSUME TargetsAssumption ==
  \A t \in Targets : /\ t.scope \in {"all", "wallet", "group"}
                     /\ t.scope = "group" => t.target \in DOMAIN GroupOwner

(* What create_snapshot_job and retry_failed_snapshot_job raise when the    *)
(* POST ends without an answer or with one that is not a job.               *)
Refused(op, f) ==
  IF f.kind # "status" THEN 502  \* timeout, connection_error, invalid_response
  ELSE IF f.status = 422 THEN 422
  ELSE IF op = "retry" /\ f.status \in {400, 409} THEN f.status
  ELSE IF op = "retry" /\ f.status = 404 THEN 409
  ELSE 502

(* Where the outcome is counted, MANUAL_REFRESH or FAILED_CHAIN_RETRY.      *)
Outcome(code) == IF code < 500 THEN "rejected" ELSE "unavailable"

StartRefresh(t) ==
  Start("refresh",
        IF t.scope = "all" THEN "post" ELSE "check",
        [scope |-> t.scope, target |-> t.target])

(* Faulty variant: the target is looked up without its owner.               *)
AnyTarget(scope, target) ==
  IF scope = "wallet" THEN target \in DOMAIN wallets ELSE target \in DOMAIN GroupOwner

OwnedTarget(scope, target) ==
  IF scope = "wallet" THEN OwnWallet(target) ELSE GroupOwner[target] = Me

RefreshCheck ==
  /\ At("refresh", "check")
  /\ IF ~ OwnedTarget(req.scope, req.target) THEN Fail(404)
     ELSE IF req.scope = "wallet" /\ ~ wallets[req.target].active THEN Fail(400)
     ELSE Then("post", NoLocals)

Accepted(job, reused) ==
  [answer |-> [code |-> 202, job |-> job, reused |-> reused,
               counted |-> IF reused THEN "already_running" ELSE "accepted"]]

Rejected(code) == [answer |-> [code |-> code, counted |-> Outcome(code)]]

(* The service answers with the active run of the scope or with a new one,  *)
(* whose creation the client may never hear of.                             *)
Post(scope, target) ==
  \/ \E r \in ActiveRun(Me, scope, target) : Then("done", Accepted(r, TRUE))
  \/ /\ ActiveRun(Me, scope, target) = {}
     /\ ~ gone /\ changes < MaxChanges
     /\ changes' = changes + 1
     /\ InsertRun(Me, scope, target)
     /\ \E outcome \in {Accepted(lastId', FALSE), Rejected(502)} :
          req' = With([pc |-> "done"], With(outcome, req))
     /\ UNCHANGED <<wallets, snaps, legacy, manual, now, patches, gone, offer>>
  \/ \E f \in Failures : Then("done", Rejected(Refused(req.op, f)))

RefreshPost == At("refresh", "post") /\ Post(req.scope, req.target)

------------------------------------------------------------------------------
(* Jobs *)

OwnRun(job) == job \in DOMAIN runs /\ runs[job].user = Me

FailedChains(job) ==
  {x[2].chain : x \in {y \in Unfinished({s \in DOMAIN snaps : snaps[s].run = job}) :
                         y[2].status = "failed"}}

StartJob(op, job) == op \in {"job", "retry"} /\ Start(op, "load", [job |-> job])

JobLoad ==
  /\ At("job", "load")
  /\ IF OwnRun(req.job) THEN Then("chains", [status |-> runs[req.job].status]) ELSE Fail(404)

JobChains ==
  /\ At("job", "chains")
  /\ Then("done", [answer |-> [code |-> 200, status |-> req.status,
                               failed |-> FailedChains(req.job)]])

RetryLoad ==
  /\ At("retry", "load")
  /\ IF ~ OwnRun(req.job) THEN Fail(404)
     ELSE IF runs[req.job].status \notin {"partial_success", "failed"}
       THEN Then("done", [answer |-> [code |-> 409, why |-> "not ready",
                                      status |-> runs[req.job].status]])
     ELSE Then("chains", NoLocals)

RetryChains ==
  /\ At("retry", "chains")
  /\ IF FailedChains(req.job) = {}
       THEN Then("done", [answer |-> [code |-> 409, why |-> "no failed chains"]])
       ELSE Then("post", NoLocals)

(* A retry is a run of its own, over the failed chains of its parent.       *)
RetryPost == At("retry", "post") /\ Post("failed_chains", req.job)

JobStep ==
  \/ \E t \in Targets : StartRefresh(t)
  \/ RefreshCheck
  \/ RefreshPost
  \/ \E op \in {"job", "retry"}, job \in DOMAIN runs : StartJob(op, job)
  \/ JobLoad
  \/ JobChains
  \/ RetryLoad
  \/ RetryChains
  \/ RetryPost

==============================================================================
