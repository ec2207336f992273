-------------------------- MODULE AggregateRefresh --------------------------
(***************************************************************************)
(* The refresh of the public product list.  A transaction that changes     *)
(* canonical products leaves a row in aggregate_refresh_request; a         *)
(* background runner, one at a time under an advisory lock, claims the     *)
(* rows of a country, builds a snapshot of its canonical products and      *)
(* completes the rows with it.  Readers are served the completed snapshot  *)
(* that was refreshed last.                                                *)
(*                                                                         *)
(*   aggregate_refresh.py             requests, batches, health            *)
(*   aggregate_refresh_runner.py      the runner                           *)
(*   fpds_aggregate_refresh           the snapshot and its rows (worker)   *)
(*   candidate_auto_promotion.py, candidate_safety_remediation.py          *)
(*                                                                         *)
(* An operation q is known by its number, which also orders requested_at   *)
(* and last_changed_at; operations commit in any order.  The runner it     *)
(* launches, if it launches one, has the same number.                      *)
(***************************************************************************)
EXTENDS Naturals, Sequences

CONSTANTS
    Ops,       \* operations that ask for a refresh
    Countries, \* country_code
    Kinds,     \* the kinds of operation there are, of AllKinds
    None,      \* nobody
    MaxFaults, \* bound on launches that fail and processes that die
    MaxDrops   \* bound on lost database connections

AllKinds == {"promotion", "retraction", "manual"}

ASSUME OpsAssumption == Ops \subseteq Nat \ {0} /\ None \notin Ops /\ None \notin Countries
ASSUME KindsAssumption == Kinds \subseteq AllKinds /\ None \notin AllKinds
ASSUME BoundAssumption == MaxFaults \in Nat /\ MaxDrops \in Nat

VARIABLES
    operation, \* the transactions that change products or ask for a refresh
    request,   \* aggregate_refresh_request
    changes,   \* canonical_product: the committed changes of each country
    snapshots, \* aggregate_refresh_run with its public_product_projection rows
    runner,    \* the background processes
    lock,      \* pg_advisory_lock(AGGREGATE_REFRESH_LOCK_KEY)
    waking,    \* operations that are still to launch their runner
    late,      \* what psql children of dead runners may still persist
    now,       \* the clock of refreshed_at and completed_at
    faults, drops

vars == <<operation, request, changes, snapshots, runner, lock, waking, late,
          now, faults, drops>>

-----------------------------------------------------------------------------
(* Types *)

\* asks: no pending request was found, so that one is inserted at the end.
Operation == [pc : {"idle", "open", "done"}, kind : AllKinds \cup {None},
              country : Countries \cup {None}, asks : BOOLEAN]

\* snapshot: index of the snapshot, 0 is NULL; doneAt: completed_at, 0 is NULL.
Request == [status : {"none", "queued", "started", "completed", "failed"},
            country : Countries \cup {None}, snapshot : Nat, doneAt : Nat]

\* content: the changes the loaded products show; at: refreshed_at.
Snapshot == [status : {"started", "completed", "failed"}, country : Countries,
             content : SUBSET Ops, at : Nat]

Result == [snapshot : Nat, content : SUBSET Ops, at : Nat]

Holding == {"claim", "ensure", "load", "build", "persist", "mark", "complete",
            "fail", "release"}
Refreshing == {"ensure", "load", "build", "persist", "mark", "complete", "fail"}

\* cut: the connection that holds the lock is lost, and nobody noticed yet.
Runner == [pc : Holding \cup {"none", "start", "exit", "dead"}, batch : SUBSET Ops,
           country : Countries \cup {None}, result : Result, cut : BOOLEAN]

TypeOK ==
    /\ operation \in [Ops -> Operation]
    /\ request \in [Ops -> Request]
    /\ changes \in [Countries -> SUBSET Ops]
    /\ snapshots \in Seq(Snapshot)
    /\ runner \in [Ops -> Runner]
    /\ lock \in Ops \cup {None}
    /\ waking \subseteq Ops
    /\ late \subseteq Result
    /\ now \in Nat
    /\ faults \in Nat
    /\ drops \in Nat

NoOperation == [pc |-> "idle", kind |-> None, country |-> None, asks |-> FALSE]
NoRequest == [status |-> "none", country |-> None, snapshot |-> 0, doneAt |-> 0]
NoResult == [snapshot |-> 0, content |-> {}, at |-> 0]
NoRunner == [pc |-> "none", batch |-> {}, country |-> None, result |-> NoResult, cut |-> FALSE]

Init ==
    /\ operation = [q \in Ops |-> NoOperation]
    /\ request = [q \in Ops |-> NoRequest]
    /\ changes = [k \in Countries |-> {}]
    /\ snapshots = <<>>
    /\ runner = [q \in Ops |-> NoRunner]
    /\ lock = None
    /\ waking = {}
    /\ late = {}
    /\ now = 0
    /\ faults = 0
    /\ drops = 0

-----------------------------------------------------------------------------
(* Requests: aggregate_refresh.py and its callers *)

Pending(q) == request[q].status \in {"queued", "started"}
PendingIn(k) == {q \in Ops : Pending(q) /\ request[q].country = k}

\* Mutant of Queued: a status that the claim does not know.
QueuedAsNew(k) == [NoRequest EXCEPT !.status = "new", !.country = k]

Queued(k) == [NoRequest EXCEPT !.status = "queued", !.country = k]

\* promote_auto_validated_candidates: the products and the request are committed
\* together, and then the collection runner launches a refresh.
Promote(q, k) ==
    /\ operation[q].pc = "idle"
    /\ operation' = [operation EXCEPT ![q] =
           [pc |-> "done", kind |-> "promotion", country |-> k, asks |-> FALSE]]
    /\ changes' = [changes EXCEPT ![k] = @ \cup {q}]
    /\ request' = [request EXCEPT ![q] = Queued(k)]
    /\ waking' = waking \cup {q}
    /\ UNCHANGED <<snapshots, runner, lock, late, now, faults, drops>>

\* request_manual_aggregate_refresh looks for a pending request, and its
\* transaction commits later.
Ask(q, kind, k) ==
    /\ operation[q].pc = "idle"
    /\ operation' = [operation EXCEPT ![q] =
           [pc |-> "open", kind |-> kind, country |-> k, asks |-> PendingIn(k) = {}]]
    /\ UNCHANGED <<request, changes, snapshots, runner, lock, waking, late, now, faults, drops>>

\* The transaction of a manual retry, or of a retraction of products, commits.
\* Only the endpoint of the manual retry launches a runner, and it does so
\* whether it inserted a request or not.
CommitAsk(q) ==
    LET op == operation[q]
    IN  /\ op.pc = "open"
        /\ operation' = [operation EXCEPT ![q].pc = "done", ![q].asks = FALSE]
        /\ request' = IF op.asks THEN [request EXCEPT ![q] = Queued(op.country)] ELSE request
        /\ changes' = IF op.kind = "retraction"
                      THEN [changes EXCEPT ![op.country] = @ \cup {q}] ELSE changes
        /\ waking' = IF op.kind = "manual" THEN waking \cup {q} ELSE waking
        /\ UNCHANGED <<snapshots, runner, lock, late, now, faults, drops>>

\* launch_aggregate_refresh_runner
Launch(q) ==
    /\ q \in waking
    /\ waking' = waking \ {q}
    /\ runner' = [runner EXCEPT ![q].pc = "start"]
    /\ UNCHANGED <<operation, request, changes, snapshots, lock, late, now, faults, drops>>

\* Popen fails, or the process that was to call it dies after the commit.
LaunchFails(q) ==
    /\ q \in waking
    /\ faults < MaxFaults
    /\ faults' = faults + 1
    /\ waking' = waking \ {q}
    /\ UNCHANGED <<operation, request, changes, snapshots, runner, lock, late, now, drops>>

-----------------------------------------------------------------------------
(* The runner: aggregate_refresh_runner.py *)

At(r, pc) == runner[r].pc = pc
GoTo(r, pc) == runner' = [runner EXCEPT ![r].pc = pc]

\* It goes on, with more of its result.
GoOn(r, pc, result) ==
    runner' = [runner EXCEPT ![r] = [@ EXCEPT !.pc = pc, !.result = result]]

\* Mutant of TryLock: a runner goes on without the lock.
TryLockAnyway(r) ==
    /\ At(r, "start")
    /\ lock' = r
    /\ GoTo(r, "claim")
    /\ UNCHANGED <<operation, request, changes, snapshots, waking, late, now, faults, drops>>

\* pg_try_advisory_lock: a runner that does not get the lock exits at once.
TryLock(r) ==
    /\ At(r, "start")
    /\ IF lock = None
       THEN lock' = r /\ GoTo(r, "claim")
       ELSE lock' = lock /\ GoTo(r, "exit")
    /\ UNCHANGED <<operation, request, changes, snapshots, waking, late, now, faults, drops>>

\* claim_next_aggregate_refresh_batch: request_status IN ('queued', 'started').
Claimable(q) == Pending(q)

Oldest(q) == \A other \in Ops : Claimable(other) => q <= other

\* The oldest request names the country, and its whole country is claimed.
Claim(r) ==
    /\ At(r, "claim")
    /\ \E q \in Ops :
        /\ Claimable(q)
        /\ Oldest(q)
        /\ LET k == request[q].country
               batch == {p \in Ops : Claimable(p) /\ request[p].country = k}
           IN  /\ request' = [p \in Ops |->
                       IF p \in batch
                       THEN [request[p] EXCEPT !.status = "started", !.snapshot = 0, !.doneAt = 0]
                       ELSE request[p]]
               /\ runner' = [runner EXCEPT ![r] = [NoRunner EXCEPT !.pc = "ensure",
                                                   !.batch = batch, !.country = k]]
    /\ UNCHANGED <<operation, changes, snapshots, lock, waking, late, now, faults, drops>>

\* No batch is left: the loop ends and the lock is still to be released.
ClaimNothing(r) ==
    /\ At(r, "claim")
    /\ \A q \in Ops : ~Claimable(q)
    /\ GoTo(r, "release")
    /\ UNCHANGED <<operation, request, changes, snapshots, lock, waking, late, now, faults, drops>>

\* ensure_refresh_run: the row of a new snapshot id.
EnsureRefreshRun(r) ==
    /\ At(r, "ensure")
    /\ snapshots' = Append(snapshots, [status |-> "started", country |-> runner[r].country,
                                       content |-> {}, at |-> 0])
    /\ GoOn(r, "load", [runner[r].result EXCEPT !.snapshot = Len(snapshots) + 1])
    /\ UNCHANGED <<operation, request, changes, lock, waking, late, now, faults, drops>>

\* load_current_canonical_rows
LoadRows(r) ==
    /\ At(r, "load")
    /\ GoOn(r, "build", [runner[r].result EXCEPT !.content = changes[runner[r].country]])
    /\ UNCHANGED <<operation, request, changes, snapshots, lock, waking, late, now, faults, drops>>

\* build_snapshot: refreshed_at is a time after the load.
BuildSnapshot(r) ==
    /\ At(r, "build")
    /\ now' = now + 1
    /\ GoOn(r, "persist", [runner[r].result EXCEPT !.at = now'])
    /\ UNCHANGED <<operation, request, changes, snapshots, lock, waking, late, faults, drops>>

\* persist_refresh_result, one transaction: the row and its projection.
Persisted(result) ==
    [snapshots EXCEPT ![result.snapshot] =
        [status |-> "completed", country |-> snapshots[result.snapshot].country,
         content |-> result.content, at |-> result.at]]

PersistResult(r) ==
    /\ At(r, "persist")
    /\ snapshots' = Persisted(runner[r].result)
    /\ GoTo(r, "complete")
    /\ UNCHANGED <<operation, request, changes, lock, waking, late, now, faults, drops>>

\* _run_refresh raises: before the row exists there is nothing to mark.
RefreshFails(r) ==
    /\ runner[r].pc \in {"ensure", "load", "build", "persist"}
    /\ GoTo(r, IF At(r, "ensure") THEN "fail" ELSE "mark")
    /\ UNCHANGED <<operation, request, changes, snapshots, lock, waking, late, now, faults, drops>>

\* mark_refresh_failed, which may itself fail.
MarkRefreshFailed(r) ==
    /\ At(r, "mark")
    /\ \E status \in {"started", "failed"} :
        snapshots' = [snapshots EXCEPT ![runner[r].result.snapshot].status = status]
    /\ GoTo(r, "fail")
    /\ UNCHANGED <<operation, request, changes, lock, waking, late, now, faults, drops>>

\* The rows of the batch get their final status and completed_at.
BatchEnds(ids, status, snapshot) ==
    /\ now' = now + 1
    /\ request' = [q \in Ops |->
           IF q \in ids
           THEN [request[q] EXCEPT !.status = status, !.doneAt = now', !.snapshot = snapshot]
           ELSE request[q]]

\* Mutant of CompleteBatch: every pending request of the country is completed.
CompleteAllPending(r) ==
    /\ At(r, "complete")
    /\ ~runner[r].cut
    /\ BatchEnds(PendingIn(runner[r].country), "completed", runner[r].result.snapshot)
    /\ runner' = [runner EXCEPT ![r] = [NoRunner EXCEPT !.pc = "claim"]]
    /\ UNCHANGED <<operation, changes, snapshots, lock, waking, late, faults, drops>>

\* complete_aggregate_refresh_batch
CompleteBatch(r) ==
    /\ At(r, "complete")
    /\ ~runner[r].cut
    /\ BatchEnds(runner[r].batch, "completed", runner[r].result.snapshot)
    /\ runner' = [runner EXCEPT ![r] = [NoRunner EXCEPT !.pc = "claim"]]
    /\ UNCHANGED <<operation, changes, snapshots, lock, waking, late, faults, drops>>

\* Mutant of FailBatch: the failure of the batch is not recorded.
FailBatchUnrecorded(r) ==
    /\ At(r, "fail")
    /\ ~runner[r].cut
    /\ runner' = [runner EXCEPT ![r] = [NoRunner EXCEPT !.pc = "claim"]]
    /\ UNCHANGED <<operation, request, changes, snapshots, lock, waking, late, now, faults, drops>>

\* fail_aggregate_refresh_batch; snapshot_id stays NULL.
FailBatch(r) ==
    /\ At(r, "fail")
    /\ ~runner[r].cut
    /\ BatchEnds(runner[r].batch, "failed", 0)
    /\ runner' = [runner EXCEPT ![r] = [NoRunner EXCEPT !.pc = "claim"]]
    /\ UNCHANGED <<operation, changes, snapshots, lock, waking, late, faults, drops>>

ReleaseLock(r) ==
    /\ At(r, "release")
    /\ lock' = None
    /\ GoTo(r, "exit")
    /\ UNCHANGED <<operation, request, changes, snapshots, waking, late, now, faults, drops>>

-----------------------------------------------------------------------------
(* What goes wrong *)

Dead == [NoRunner EXCEPT !.pc = "dead"]
Unlocked(r) == IF lock = r THEN None ELSE lock

\* The process dies and its connection, which holds the lock, ends with it.  A
\* psql child that has the result may commit it afterwards.
Killed(r) ==
    /\ runner[r].pc \in Holding \cup {"start"}
    /\ faults < MaxFaults
    /\ faults' = faults + 1
    /\ runner' = [runner EXCEPT ![r] = Dead]
    /\ lock' = Unlocked(r)
    /\ late' \in {late} \cup (IF At(r, "persist") THEN {late \cup {runner[r].result}} ELSE {})
    /\ UNCHANGED <<operation, request, changes, snapshots, waking, now, drops>>

LateCommit(result) ==
    /\ result \in late
    /\ snapshots' = Persisted(result)
    /\ late' = late \ {result}
    /\ UNCHANGED <<operation, request, changes, runner, lock, waking, now, faults, drops>>

\* The database ends the session and with it the lock.  A runner in the middle
\* of a refresh works on other connections and does not see it.
ConnectionLost(r) ==
    /\ runner[r].pc \in Holding
    /\ ~runner[r].cut
    /\ drops < MaxDrops
    /\ drops' = drops + 1
    /\ runner' = [runner EXCEPT ![r] = IF runner[r].pc \in Refreshing
                                       THEN [runner[r] EXCEPT !.cut = TRUE] ELSE Dead]
    /\ lock' = Unlocked(r)
    /\ UNCHANGED <<operation, request, changes, snapshots, waking, late, now, faults>>

\* It sees it at the end of the batch: the UPDATE raises, and so does the
\* release of the lock.
FindsConnectionLost(r) ==
    /\ runner[r].pc \in {"complete", "fail"}
    /\ runner[r].cut
    /\ runner' = [runner EXCEPT ![r] = Dead]
    /\ UNCHANGED <<operation, request, changes, snapshots, lock, waking, late, now, faults, drops>>

-----------------------------------------------------------------------------
RunnerStep(r) ==
    \/ TryLock(r) \/ Claim(r) \/ ClaimNothing(r)
    \/ EnsureRefreshRun(r) \/ LoadRows(r) \/ BuildSnapshot(r) \/ PersistResult(r)
    \/ RefreshFails(r) \/ MarkRefreshFailed(r)
    \/ CompleteBatch(r) \/ FailBatch(r) \/ ReleaseLock(r) \/ FindsConnectionLost(r)

OperationStep(q) ==
    \/ \E k \in Countries : "promotion" \in Kinds /\ Promote(q, k)
    \/ \E k \in Countries, kind \in Kinds \ {"promotion"} : Ask(q, kind, k)
    \/ CommitAsk(q) \/ Launch(q) \/ LaunchFails(q)

Next ==
    \/ \E q \in Ops : OperationStep(q) \/ RunnerStep(q) \/ Killed(q) \/ ConnectionLost(q)
    \/ \E result \in late : LateCommit(result)

Spec == Init /\ [][Next]_vars

\* A process that runs makes progress, whatever the others do; nothing makes an
\* operation start, a process die or a connection drop.
Fairness == \A q \in Ops : WF_vars(RunnerStep(q)) /\ WF_vars(CommitAsk(q)) /\ WF_vars(Launch(q))

FairSpec == Spec /\ Fairness

-----------------------------------------------------------------------------
(* What the readers and the dashboard see *)

\* load_latest_public_snapshot: the completed row with the latest refreshed_at
\* (the empty set when there is none).
Served(k) ==
    {n \in DOMAIN snapshots :
        /\ snapshots[n].country = k /\ snapshots[n].status = "completed"
        /\ \A m \in DOMAIN snapshots :
            snapshots[m].country = k /\ snapshots[m].status = "completed"
                => snapshots[m].at <= snapshots[n].at}
ServedContent(k) == UNION {snapshots[n].content : n \in Served(k)}

Failed(k) == {q \in Ops : request[q].status = "failed" /\ request[q].country = k}

\* latest_request of load_dashboard_health, when no request is pending.
LatestRequest(k) ==
    {q \in Ops : /\ request[q].status # "none" /\ request[q].country = k
                 /\ \A p \in Ops : request[p].country = k => request[p].doneAt <= request[q].doneAt}

\* Mutant of LastRefreshFailed: a failure only counts if nothing is served.
LastRefreshFailedUnserved(k) == LatestRequest(k) \cap Failed(k) # {} /\ Served(k) = {}

\* The "failed" branch of _domain_status.
LastRefreshFailed(k) ==
    /\ LatestRequest(k) \cap Failed(k) # {}
    /\ \A n \in Served(k), q \in LatestRequest(k) : request[q].doneAt >= snapshots[n].at

\* _domain_status is "healthy" or "stale".  Which of the two it is depends on
\* source_change_cutoff_at, which leaves out incomplete and inaccurate products.
HealthyOrStale(k) == PendingIn(k) = {} /\ ~LastRefreshFailed(k) /\ Served(k) # {}

-----------------------------------------------------------------------------
(* Properties *)

Promotions == {q \in Ops : operation[q].kind = "promotion" /\ operation[q].pc = "done"}
Retractions == {q \in Ops : operation[q].kind = "retraction" /\ operation[q].pc = "done"}

\* A completed request names a completed snapshot of its country, and the
\* promotion it was queued with is in that snapshot -- whoever claimed it, and
\* whatever runner died or lost its connection on the way.
CompletedIsCovered ==
    \A q \in Ops : request[q].status = "completed" =>
        /\ request[q].snapshot \in DOMAIN snapshots
        /\ LET s == snapshots[request[q].snapshot]
           IN  /\ s.status = "completed"
               /\ s.country = request[q].country
               /\ q \in Promotions => q \in s.content

\* The dashboard calls a country healthy, or just stale, only if every promotion
\* of it is in the list that is served, whatever refreshes failed in between.
HealthyMeansFresh ==
    \A k \in Countries : HealthyOrStale(k) =>
        \A q \in Promotions : operation[q].country = k => q \in ServedContent(k)

\* The public list implements PublicProjection: it never goes back to an older
\* content, and a completed request's promotion is in the list that is served.
Projection == INSTANCE PublicProjection WITH
    Changes <- Ops,
    canonical <- changes,
    public <- [k \in Countries |-> ServedContent(k)],
    reported <- {q \in Promotions : request[q].status = "completed"}
ImplementsProjection == Projection!Spec

\* A runner that looks for a batch ends every request that is pending then,
\* unless it dies or its connection does.
HolderDrains == \A r, q \in Ops :
    (runner[r].pc = "claim" /\ Pending(q)) ~>
        (~Pending(q) \/ runner[r].pc = "dead" \/ runner[r].cut)

\* A request that is queued is refreshed: "Canonical approval should enqueue
\* asynchronous aggregate refresh" (decision-log.md, D-018).
QueuedIsRefreshed == \A q \in Ops : Pending(q) ~> ~Pending(q)
=============================================================================
