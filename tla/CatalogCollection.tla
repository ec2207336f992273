------------------------- MODULE CatalogCollection -------------------------
(***************************************************************************)
(* The source-catalog collection path of FPDS: an admin request (or the    *)
(* retry CLI) reserves the preparation state of catalog items, registers   *)
(* one run per reserved item, and launches a background runner that        *)
(* prepares, then collects, one item after the other.                      *)
(*                                                                         *)
(*   source_catalog.py                    the request and the catalog edit *)
(*   catalog_preparation.py               the two-hour reservation         *)
(*   source_catalog_collection_runner.py  the runner                       *)
(*   run_retry.py                         which runs may be retried        *)
(*                                                                         *)
(* A request is an element of Ops (its collection_id); the run it makes    *)
(* for item i is <<op, i>>.  Each action is one committed transaction, or  *)
(* one read whose result is used by a later transaction.                   *)
(***************************************************************************)
EXTENDS Naturals

CONSTANTS
    Ops,        \* collection requests
    Items,      \* rows of source_registry_catalog_item
    Versions,   \* values of preparation_signature
    None,       \* SQL NULL
    MaxEdits,   \* bound on catalog edits and bank edits
    MaxFaults,  \* bound on dying processes, lost writes and late writes
    MaxExpiries \* bound on reservations that age out

ASSUME NoneAssumption == None \notin Ops /\ None \notin Items /\ None \notin Ops \X Items /\ None \notin Versions
ASSUME BoundAssumption == MaxEdits \in Nat /\ MaxFaults \in Nat /\ MaxExpiries \in Nat

VARIABLES
    active,     \* source_registry_catalog_item.status = 'active'
    coverage,   \* preparation_signature of the row as it is now
    prep,       \* coverage_source_metadata -> 'collection_preparation'
    run,        \* ingestion_run
    plan,       \* the request: how far it is, and the plan it writes
    runner,     \* the background process of the request
    editor,     \* update_source_catalog_item between its SELECT and its UPDATE
    used,       \* how many used, faults and expiries there were
    orphans,    \* runs a detached worker process may still write
    adrift,     \* history: runs nobody will finish (a lost write or process)
    expired,    \* history: runs whose reservation aged out while it was held
    overwritten \* history: runs whose reservation an edit wrote over

rows == <<active, coverage, prep, run>>
history == <<adrift, expired, overwritten>>
vars == <<active, coverage, prep, run, plan, runner, editor, used, orphans,
          adrift, expired, overwritten>>

-----------------------------------------------------------------------------
(* Types *)

Runs == Ops \X Items
Busy == {"queued", "checking", "collecting"}
PrepStatus == Busy \cup {"none", "run_created", "skipped", "unavailable"}

\* fresh: updated_at is within the last two hours.
PrepRow == [op : Ops \cup {None}, status : PrepStatus, sig : Versions \cup {None},
            retryable : BOOLEAN, fresh : BOOLEAN]

\* kind: run_type, i.e. run_metadata.pipeline_stage -- "catalog" for
\* source_catalog_collection, "worker" for the name of a worker stage.
\* scope: source_scope_count > 0.
RunRow == [state : {"none", "started", "completed", "failed", "retried"},
           partial : BOOLEAN, kind : {"catalog", "worker"}, scope : BOOLEAN,
           retryOf : Runs \cup {None}, retriedBy : Runs \cup {None}]

PlanRow == [pc : {"idle", "read", "launch", "done", "lost"},
            items : SUBSET Items, blocked : SUBSET Items,
            retryOf : Runs \cup {None}, sig : [Items -> Versions \cup {None}]]

RunnerPC == {"none", "next", "claim", "discover", "collect", "settle",
             "failPrep", "failRun", "failCollect", "closePrep", "done", "stopped"}
RunnerRow == [pc : RunnerPC, item : Items \cup {None}, todo : SUBSET Items]

Disturbances == {"edit", "fault", "expiry"}
Limit(kind) == CASE kind = "edit" -> MaxEdits
                 [] kind = "fault" -> MaxFaults
                 [] kind = "expiry" -> MaxExpiries

EditorRow == [pc : {"idle", "read"}, prep : PrepRow, active : BOOLEAN,
              coverage : Versions \cup {None}]

TypeOK ==
    /\ active \in [Items -> BOOLEAN]
    /\ coverage \in [Items -> Versions]
    /\ prep \in [Items -> PrepRow]
    /\ run \in [Runs -> RunRow]
    /\ plan \in [Ops -> PlanRow]
    /\ runner \in [Ops -> RunnerRow]
    /\ editor \in [Items -> EditorRow]
    /\ used \in [Disturbances -> Nat]
    /\ orphans \subseteq Runs
    /\ adrift \subseteq Runs
    /\ expired \subseteq Runs
    /\ overwritten \subseteq Runs

NoPrep == [op |-> None, status |-> "none", sig |-> None, retryable |-> FALSE, fresh |-> FALSE]
NoRow == [state |-> "none", partial |-> FALSE, kind |-> "catalog", scope |-> FALSE,
          retryOf |-> None, retriedBy |-> None]
NoPlan == [pc |-> "idle", items |-> {}, blocked |-> {}, retryOf |-> None,
           sig |-> [i \in Items |-> None]]
NoRunner == [pc |-> "none", item |-> None, todo |-> {}]
NoEdit == [pc |-> "idle", prep |-> NoPrep, active |-> TRUE, coverage |-> None]

Init ==
    /\ active = [i \in Items |-> TRUE]
    /\ coverage \in [Items -> Versions]
    /\ prep = [i \in Items |-> NoPrep]
    /\ run = [r \in Runs |-> NoRow]
    /\ plan = [op \in Ops |-> NoPlan]
    /\ runner = [op \in Ops |-> NoRunner]
    /\ editor = [i \in Items |-> NoEdit]
    /\ used = [kind \in Disturbances |-> 0]
    /\ orphans = {}
    /\ adrift = {}
    /\ expired = {}
    /\ overwritten = {}

\* One more disturbance, within the bound of its kind.
Spend(kind) == used[kind] < Limit(kind) /\ used' = [used EXCEPT ![kind] = @ + 1]
SpendIf(cond, kind) == IF cond THEN Spend(kind) ELSE UNCHANGED used

-----------------------------------------------------------------------------
(* The reservation: catalog_preparation.py *)

\* Mutant of Reservable: the lease is not consulted.
ReservableWhileBusy(i) == active[i]

\* reserve_preparation's WHERE clause.
Reservable(i) == active[i] /\ (prep[i].status \notin Busy \/ ~prep[i].fresh)

\* preparation_block_reason = "collection_preparation_in_progress"
InProgress(i) == prep[i].status \in Busy /\ prep[i].fresh

\* preparation_block_reason = "preparation_requires_rediscovery"
NeedsRediscovery(i) ==
    /\ prep[i].status = "skipped"
    /\ ~prep[i].retryable
    /\ prep[i].sig = coverage[i]

\* Mutants of PrepWritten: an unknown status; no check of the operation.
PrepWrittenUntyped(op, i, status, sig, retryable) ==
    [op |-> op, status |-> "released", sig |-> sig, retryable |-> retryable, fresh |-> TRUE]
PrepWrittenByAnyone(op, i, status, sig, retryable) ==
    [op |-> op, status |-> status, sig |-> sig, retryable |-> retryable, fresh |-> TRUE]

\* update_preparation: only the operation that holds the row writes it.
PrepWritten(op, i, status, sig, retryable) ==
    IF prep[i].op = op
    THEN [op |-> op, status |-> status, sig |-> sig, retryable |-> retryable, fresh |-> TRUE]
    ELSE prep[i]
PrepAfter(op, i, status, sig, retryable) ==
    [prep EXCEPT ![i] = PrepWritten(op, i, status, sig, retryable)]

\* claim_preparation finds the operation's own reservation of the scope it read.
StillCurrent(op, i) == active[i] /\ coverage[i] = plan[op].sig[i]

\* Mutant of Retryable: the run type is not consulted.
RetryableAnyKind(row) ==
    /\ row.retriedBy = None
    /\ row.state = "failed" \/ (row.state = "completed" /\ row.partial)

\* describe_run_retry_action
Retryable(row) ==
    /\ row.retriedBy = None
    /\ row.state = "failed" \/ (row.state = "completed" /\ row.partial)
    /\ row.kind = "catalog"

-----------------------------------------------------------------------------
(* The request: start_source_catalog_collection, retry_failed_run *)

\* The SELECT of the active items and the preflight: an item whose preparation
\* is in progress is passed over, one that needs rediscovery, or whose detail
\* sources are all held, gets a run that is skipped at once.
Preflight(op, its, explicit, held, retryOf) ==
    LET waiting == {i \in its : InProgress(i)}
        skipped == {i \in its \ waiting : ~explicit /\ (i \in held \/ NeedsRediscovery(i))}
    IN  plan' = [plan EXCEPT ![op] = [pc |-> "read", items |-> its \ (waiting \cup skipped),
                                      blocked |-> skipped, retryOf |-> retryOf, sig |-> coverage]]

ReadScope(op, its, explicit, held) ==
    /\ plan[op].pc = "idle"
    /\ \A i \in its : active[i]
    /\ Preflight(op, its, explicit, held, None)
    /\ UNCHANGED <<rows, runner, editor, used, orphans, history>>

\* A retry reads the failed run without locking it, and goes on with the one
\* item of that run unless the preflight leaves nothing of it.
ReadRetry(op, old) ==
    /\ plan[op].pc = "idle"
    /\ Retryable(run[old])
    /\ active[old[2]]
    /\ ~InProgress(old[2])
    /\ ~NeedsRediscovery(old[2])
    /\ Preflight(op, {old[2]}, FALSE, {}, old)
    /\ UNCHANGED <<rows, runner, editor, used, orphans, history>>

\* The plan is dropped with the request or the runner that had it.
PlanEnds(op, pc) == plan' = [plan EXCEPT ![op] = [NoPlan EXCEPT !.pc = pc]]

\* Mutants of RegisteredRun: the link to the original is dropped; the run is
\* only registered once it collects (the order before runs_registered).
RegisteredRunUnlinked(retryOf) == [NoRow EXCEPT !.state = "started"]
RegisteredRunLater(retryOf) == NoRow

RegisteredRun(retryOf) == [NoRow EXCEPT !.state = "started", !.retryOf = retryOf]
SkippedRun(retryOf) == [NoRow EXCEPT !.state = "completed", !.retryOf = retryOf]

\* Reserve each item, insert the run rows, commit.
RegisterRuns(op) ==
    LET p == plan[op]
        reserved == {i \in p.items : Reservable(i)}
    IN  /\ p.pc = "read"
        /\ prep' = [i \in Items |->
                IF i \in reserved
                THEN [op |-> op, status |-> "queued", sig |-> p.sig[i],
                      retryable |-> FALSE, fresh |-> TRUE]
                ELSE prep[i]]
        /\ run' = [r \in Runs |->
                IF r[1] = op /\ r[2] \in reserved THEN RegisteredRun(p.retryOf)
                ELSE IF r[1] = op /\ r[2] \in p.blocked THEN SkippedRun(p.retryOf)
                ELSE run[r]]
        /\ IF reserved = {}
           THEN PlanEnds(op, "done")
           ELSE plan' = [plan EXCEPT ![op] = [p EXCEPT !.items = reserved, !.pc = "launch"]]
        /\ UNCHANGED <<active, coverage, runner, editor, used, orphans, history>>

StartRunner(op) ==
    runner' = [runner EXCEPT ![op] = [pc |-> "next", item |-> None, todo |-> plan[op].items]]

Launch(op) ==
    /\ plan[op].pc = "launch"
    /\ plan' = [plan EXCEPT ![op].pc = "done"]
    /\ StartRunner(op)
    /\ UNCHANGED <<rows, editor, used, orphans, history>>

\* Mutant of LaunchFails: the failure is raised after the process was created.
LaunchFailsAfterStart(op) ==
    LET p == plan[op]
    IN  /\ p.pc = "launch"
        /\ plan' = [plan EXCEPT ![op].pc = "done"]
        /\ StartRunner(op)
        /\ run' = [r \in Runs |->
                IF r[1] = op /\ r[2] \in p.items /\ run[r].state = "started"
                THEN [run[r] EXCEPT !.state = "failed"] ELSE run[r]]
        /\ UNCHANGED <<active, coverage, prep, editor, used, orphans, history>>

\* Popen or the plan file fails: every run of the plan that is still started
\* fails, and the preparation becomes available again.
LaunchFails(op) ==
    LET p == plan[op]
    IN  /\ p.pc = "launch"
        /\ PlanEnds(op, "done")
        /\ run' = [r \in Runs |->
                IF r[1] = op /\ r[2] \in p.items /\ run[r].state = "started"
                THEN [run[r] EXCEPT !.state = "failed"] ELSE run[r]]
        /\ prep' = [i \in Items |->
                IF i \in p.items
                THEN PrepWritten(op, i, "unavailable", p.sig[i], TRUE) ELSE prep[i]]
        /\ UNCHANGED <<active, coverage, runner, editor, used, orphans, history>>

\* The server process dies inside the request.
ServerStops(op) ==
    /\ plan[op].pc \in {"read", "launch"}
    /\ PlanEnds(op, "lost")
    /\ adrift' = adrift \cup IF plan[op].pc = "launch" THEN {op} \X plan[op].items ELSE {}
    /\ Spend("fault")
    /\ UNCHANGED <<rows, runner, editor, orphans, expired, overwritten>>

-----------------------------------------------------------------------------
(* The runner: main and _run_group *)

Cur(op) == runner[op].item
CurRun(op) == <<op, Cur(op)>>

To(op, pc) ==
    runner' = [runner EXCEPT ![op] = [pc |-> pc, todo |-> @.todo,
                                      item |-> IF pc = "next" THEN None ELSE @.item]]
RunnerEnds(op, pc) ==
    /\ runner' = [runner EXCEPT ![op] = [NoRunner EXCEPT !.pc = pc]]
    /\ PlanEnds(op, "done")

\* _mark_run_finished writes whatever the row held before.
FinishedRow(row, state, partial) ==
    [row EXCEPT !.state = state, !.partial = partial, !.kind = "catalog"]
Finish(op, state, partial) ==
    run' = [run EXCEPT ![CurRun(op)] = FinishedRow(@, state, partial)]

\* Mutant of FinishPreparation: every outcome completes the run.
FinishPreparationClean(op, retryable) == Finish(op, "completed", FALSE)

\* _finish_registered_preparation
FinishPreparation(op, retryable) ==
    Finish(op, IF retryable THEN "failed" ELSE "completed", FALSE)

NextGroup(op, i) ==
    /\ runner[op].pc = "next"
    /\ i \in runner[op].todo
    /\ runner' = [runner EXCEPT ![op] = [pc |-> "claim", item |-> i, todo |-> @.todo \ {i}]]
    /\ UNCHANGED <<rows, plan, editor, used, orphans, history>>

RunnerExits(op) ==
    /\ runner[op].pc = "next"
    /\ runner[op].todo = {}
    /\ RunnerEnds(op, "done")
    /\ UNCHANGED <<rows, editor, used, orphans, history>>

\* claim_preparation finds another operation, or none, on the row.
ClaimLost(op) ==
    /\ runner[op].pc = "claim"
    /\ prep[Cur(op)].op # op
    /\ FinishPreparation(op, TRUE)
    /\ To(op, "next")
    /\ UNCHANGED <<active, coverage, prep, plan, editor, used, orphans, history>>

\* claim_preparation finds the item edited since the request read it.
ClaimStale(op) ==
    LET i == Cur(op)
    IN  /\ runner[op].pc = "claim"
        /\ prep[i].op = op
        /\ ~StillCurrent(op, i)
        /\ prep' = PrepAfter(op, i, "skipped", plan[op].sig[i], TRUE)
        /\ FinishPreparation(op, TRUE)
        /\ To(op, "next")
        /\ UNCHANGED <<active, coverage, plan, editor, used, orphans, history>>

ClaimHolds(op) ==
    LET i == Cur(op)
    IN  /\ runner[op].pc = "claim"
        /\ prep[i].op = op
        /\ StillCurrent(op, i)
        /\ prep' = PrepAfter(op, i, "checking", plan[op].sig[i], FALSE)
        /\ To(op, "discover")
        /\ UNCHANGED <<active, coverage, run, plan, editor, used, orphans, history>>

\* repair_catalog_coverage_route found a current route: it overwrites the row
\* whatever is there, and the plan's group with it.  None: no repair.
Repair(op, i, route) ==
    IF route = None
    THEN UNCHANGED <<active, coverage, plan>>
    ELSE /\ active' = [active EXCEPT ![i] = TRUE]
         /\ coverage' = [coverage EXCEPT ![i] = route]
         /\ plan' = [plan EXCEPT ![op].sig[i] = route]

\* Discovery or the access probe leaves no eligible detail source.
SkipGroup(op, retryable, route) ==
    LET i == Cur(op)
        sig == IF route = None THEN plan[op].sig[i] ELSE route
    IN  /\ runner[op].pc = "discover"
        /\ Repair(op, i, route)
        /\ prep' = PrepAfter(op, i, IF retryable THEN "unavailable" ELSE "skipped", sig, retryable)
        /\ FinishPreparation(op, retryable)
        /\ To(op, "next")
        /\ UNCHANGED <<editor, used, orphans, history>>

\* The route repair proves that the bank no longer offers the product; its
\* evidence replaces the coverage metadata.
RetireScope(op, v) ==
    LET i == Cur(op)
    IN  /\ runner[op].pc = "discover"
        /\ active' = [active EXCEPT ![i] = FALSE]
        /\ coverage' = [coverage EXCEPT ![i] = v]
        /\ prep' = PrepAfter(op, i, "skipped", plan[op].sig[i], FALSE)
        /\ FinishPreparation(op, FALSE)
        /\ To(op, "next")
        /\ UNCHANGED <<plan, editor, used, orphans, history>>

CollectingRun(row) ==
    [row EXCEPT !.state = "started", !.partial = FALSE, !.kind = "catalog", !.scope = TRUE]

\* Mutant of SupersededBy: no guard on the original.
SupersededByAny(row, new) == [row EXCEPT !.state = "retried", !.retriedBy = new]

\* The original of a retry, when its replacement enters collection.
SupersededBy(row, new) ==
    IF /\ row.retriedBy = None
       /\ row.state = "failed" \/ (row.state = "completed" /\ row.partial)
    THEN [row EXCEPT !.state = "retried", !.retriedBy = new]
    ELSE row

\* Found eligible detail: claim again, upsert the run, link the retried run.
EnterCollection(op, route) ==
    LET i == Cur(op)
        p == plan[op]
        sig == IF route = None THEN p.sig[i] ELSE route
    IN  /\ runner[op].pc = "discover"
        /\ prep[i].op = op
        /\ route # None \/ StillCurrent(op, i)
        /\ Repair(op, i, route)
        /\ run' = [r \in Runs |->
                IF r = CurRun(op) THEN CollectingRun(run[r])
                ELSE IF r = p.retryOf THEN SupersededBy(run[r], CurRun(op))
                ELSE run[r]]
        /\ prep' = PrepAfter(op, i, "collecting", sig, FALSE)
        /\ To(op, "collect")
        /\ UNCHANGED <<editor, used, orphans, history>>

\* The reservation or the coverage changed during discovery: roll back.
EnterRefused(op) ==
    LET i == Cur(op)
    IN  /\ runner[op].pc = "discover"
        /\ prep[i].op # op \/ ~StillCurrent(op, i)
        /\ prep' = PrepAfter(op, i, "skipped", plan[op].sig[i], TRUE)
        /\ FinishPreparation(op, TRUE)
        /\ To(op, "next")
        /\ UNCHANGED <<active, coverage, plan, editor, used, orphans, history>>

\* Ingestion (source_collection_runner._run_group): each worker stage writes
\* 'started' when it begins and its own outcome when it ends, and the last
\* write is the end-to-end summary.
Outcomes == {o \in [state : {"started", "completed", "failed"}, partial : BOOLEAN] :
                /\ o.state = "started" => ~o.partial
                /\ o.state = "failed" => o.partial}
StageRow(row, outcome) ==
    [row EXCEPT !.state = outcome.state, !.partial = outcome.partial, !.kind = "worker"]

StageWrites(op, outcome) ==
    /\ runner[op].pc = "collect"
    /\ run' = [run EXCEPT ![CurRun(op)] = StageRow(@, outcome)]
    /\ UNCHANGED <<active, coverage, prep, plan, runner, editor, used, orphans, history>>

CollectEnds(op) ==
    /\ runner[op].pc = "collect"
    /\ run[CurRun(op)].kind = "worker"
    /\ run[CurRun(op)].state # "started"
    /\ To(op, "settle")
    /\ UNCHANGED <<rows, plan, editor, used, orphans, history>>

\* A stage fails or produces nothing.  One that timed out is killed, but a psql
\* child it had started may still commit (late).
CollectFails(op, late) ==
    /\ runner[op].pc = "collect"
    /\ To(op, "failCollect")
    /\ orphans' = orphans \cup IF late THEN {CurRun(op)} ELSE {}
    /\ SpendIf(late, "fault")
    /\ UNCHANGED <<rows, plan, editor, history>>

\* After a collection the preparation is closed in a transaction of its own; a
\* database error there is handled as a failed collection.
Settle(op) ==
    LET i == Cur(op)
    IN  /\ runner[op].pc = "settle"
        /\ prep' = PrepAfter(op, i, "run_created", plan[op].sig[i], FALSE)
        /\ To(op, "next")
        /\ UNCHANGED <<active, coverage, run, plan, editor, used, orphans, history>>

SettleFails(op) ==
    /\ runner[op].pc = "settle"
    /\ To(op, "failCollect")
    /\ UNCHANGED <<rows, plan, editor, used, orphans, history>>

\* Mutant of GroupFails: the handler goes on with the next group at once.
GroupFailsUnrecorded(op) ==
    /\ runner[op].pc \in {"claim", "discover"}
    /\ To(op, "next")
    /\ UNCHANGED <<rows, plan, editor, used, orphans, history>>

\* An exception before ingestion started: rolled back, handled by main.
GroupFails(op) ==
    /\ runner[op].pc \in {"claim", "discover"}
    /\ To(op, "failPrep")
    /\ UNCHANGED <<rows, plan, editor, used, orphans, history>>

\* main's handler: three best-effort writes, each of which may be lost.
FailPrep(op, saved) ==
    LET i == Cur(op)
    IN  /\ runner[op].pc = "failPrep"
        /\ prep' = IF saved THEN PrepAfter(op, i, "unavailable", plan[op].sig[i], TRUE) ELSE prep
        /\ To(op, "failRun")
        /\ SpendIf(~saved, "fault")
        /\ UNCHANGED <<active, coverage, run, plan, editor, orphans, history>>

FailRun(op, saved) ==
    /\ runner[op].pc \in {"failRun", "failCollect"}
    /\ IF saved THEN Finish(op, "failed", TRUE) ELSE UNCHANGED run
    /\ adrift' = adrift \cup IF saved THEN {} ELSE {CurRun(op)}
    /\ To(op, IF runner[op].pc = "failRun" THEN "next" ELSE "closePrep")
    /\ SpendIf(~saved, "fault")
    /\ UNCHANGED <<active, coverage, prep, plan, editor, orphans, expired, overwritten>>

ClosePrep(op, saved) ==
    LET i == Cur(op)
    IN  /\ runner[op].pc = "closePrep"
        /\ prep' = IF saved THEN PrepAfter(op, i, "run_created", plan[op].sig[i], FALSE) ELSE prep
        /\ To(op, "next")
        /\ SpendIf(~saved, "fault")
        /\ UNCHANGED <<active, coverage, run, plan, editor, orphans, history>>

\* The runner process is killed; a worker stage it had started runs on alone.
Unfinished(op) ==
    LET rn == runner[op]
    IN  {op} \X (rn.todo \cup ({rn.item} \ {None}))

RunnerStops(op) ==
    /\ runner[op].pc \notin {"none", "done", "stopped"}
    /\ orphans' = orphans \cup IF runner[op].pc = "collect" THEN {CurRun(op)} ELSE {}
    /\ adrift' = adrift \cup Unfinished(op)
    /\ RunnerEnds(op, "stopped")
    /\ Spend("fault")
    /\ UNCHANGED <<rows, editor, expired, overwritten>>

-----------------------------------------------------------------------------
(* The environment: detached workers, used, the clock *)

OrphanWrites(r, outcome, gone) ==
    /\ r \in orphans
    /\ run' = [run EXCEPT ![r] = StageRow(@, outcome)]
    /\ orphans' = IF gone THEN orphans \ {r} ELSE orphans
    /\ adrift' = adrift \cup {r}
    /\ UNCHANGED <<active, coverage, prep, plan, runner, editor, used, expired, overwritten>>

\* update_source_catalog_item reads the row, and later writes it whole: the
\* preparation state it writes is the one it read.
EditRead(i, act, v) ==
    /\ editor[i].pc = "idle"
    /\ Spend("edit")
    /\ editor' = [editor EXCEPT ![i] = [pc |-> "read", prep |-> prep[i], active |-> act, coverage |-> v]]
    /\ UNCHANGED <<rows, plan, runner, orphans, history>>

EditWrite(i) ==
    LET e == editor[i]
    IN  /\ e.pc = "read"
        /\ active' = [active EXCEPT ![i] = e.active]
        /\ coverage' = [coverage EXCEPT ![i] = e.coverage]
        /\ prep' = [prep EXCEPT ![i] = e.prep]
        /\ overwritten' = overwritten \cup
                IF e.prep # prep[i] /\ prep[i].op # None THEN {<<prep[i].op, i>>} ELSE {}
        /\ editor' = [editor EXCEPT ![i] = NoEdit]
        /\ UNCHANGED <<run, plan, runner, used, orphans, adrift, expired>>

\* update_bank_profile changes what preparation_signature reads from the bank.
EditBank(i, v) ==
    /\ Spend("edit")
    /\ coverage' = [coverage EXCEPT ![i] = v]
    /\ UNCHANGED <<active, prep, run, plan, runner, editor, orphans, history>>

\* Two hours pass without a write to the reservation.
LeaseExpires(i) ==
    /\ InProgress(i)
    /\ prep' = [prep EXCEPT ![i].fresh = FALSE]
    /\ editor' = [editor EXCEPT ![i].prep.fresh = FALSE]
    /\ expired' = expired \cup {<<prep[i].op, i>>}
    /\ Spend("expiry")
    /\ UNCHANGED <<active, coverage, run, plan, runner, orphans, adrift, overwritten>>

-----------------------------------------------------------------------------
(* Specification *)

Routes == Versions \cup {None}

RequestStep(op) ==
    \/ \E its \in SUBSET Items \ {{}}, explicit \in BOOLEAN, held \in SUBSET Items :
            held \subseteq its /\ ReadScope(op, its, explicit, held)
    \/ \E old \in Runs : ReadRetry(op, old)
    \/ RegisterRuns(op)
    \/ Launch(op)
    \/ LaunchFails(op)
    \/ ServerStops(op)

\* What the runner does of its own accord.
RunnerAdvances(op) ==
    \/ \E i \in Items : NextGroup(op, i)
    \/ RunnerExits(op)
    \/ ClaimLost(op)
    \/ ClaimStale(op)
    \/ ClaimHolds(op)
    \/ \E retryable \in BOOLEAN, route \in Routes : SkipGroup(op, retryable, route)
    \/ \E v \in Versions : RetireScope(op, v)
    \/ \E route \in Routes : EnterCollection(op, route)
    \/ EnterRefused(op)
    \/ CollectEnds(op)
    \/ \E late \in BOOLEAN : CollectFails(op, late)
    \/ Settle(op)
    \/ SettleFails(op)
    \/ GroupFails(op)
    \/ \E saved \in BOOLEAN : FailPrep(op, saved)
    \/ \E saved \in BOOLEAN : FailRun(op, saved)
    \/ \E saved \in BOOLEAN : ClosePrep(op, saved)

RunnerStep(op) ==
    \/ RunnerAdvances(op)
    \/ \E outcome \in Outcomes : StageWrites(op, outcome)
    \/ RunnerStops(op)

Environment ==
    \/ \E r \in Runs, outcome \in Outcomes, gone \in BOOLEAN : OrphanWrites(r, outcome, gone)
    \/ \E i \in Items, act \in BOOLEAN, v \in Versions : EditRead(i, act, v)
    \/ \E i \in Items : EditWrite(i)
    \/ \E i \in Items, v \in Versions : EditBank(i, v)
    \/ \E i \in Items : LeaseExpires(i)

Next ==
    \/ \E op \in Ops : RequestStep(op)
    \/ \E op \in Ops : RunnerStep(op)
    \/ Environment

Spec == Init /\ [][Next]_vars

\* A request runs to its end inside its handler, and a runner is a sequential
\* program whose stages have a timeout.
FairSpec ==
    /\ Spec
    /\ \A op \in Ops : WF_vars(Launch(op) \/ LaunchFails(op) \/ ServerStops(op))
    /\ \A op \in Ops : WF_vars(RunnerAdvances(op))

-----------------------------------------------------------------------------
(* Properties *)

\* The run op has for item i is in the hands of the live runner of op.
Handling(op, i) ==
    \/ i \in runner[op].todo
    \/ runner[op].item = i /\ runner[op].pc # "closePrep"

\* ... and its preparation has not been released yet.
Holding(op, i) ==
    \/ i \in runner[op].todo
    \/ runner[op].item = i /\ runner[op].pc # "failRun"

\* Two runners hold the same catalog item at once only if the reservation of
\* one of them aged out, or was written over by a catalog edit, meanwhile: the
\* conditional updates of catalog_preparation.py exclude every other overlap.
ReservationExclusive ==
    \A i \in Items : \A o1, o2 \in Ops :
        (o1 # o2 /\ Holding(o1, i) /\ Holding(o2, i))
            => {<<o1, i>>, <<o2, i>>} \cap (expired \cup overwritten) # {}

\* retried_by names a run that was started as the retry of this one, is of the
\* same catalog item, and did enter collection: a retry that is turned back in
\* preparation leaves the original as it was.
RetryLinkSound ==
    \A r \in Runs :
        LET new == run[r].retriedBy
        IN  new # None => /\ run[new].retryOf = r
                          /\ run[new].scope
                          /\ new[2] = r[2]

\* A run is superseded by a retry only after its own runner has let go of it,
\* although a collecting run passes through states that look retryable.
RetriedAttemptIsOver ==
    \A op \in Ops, i \in Items :
        (run[<<op, i>>].state = "retried" \/ run[<<op, i>>].retriedBy # None) => ~Handling(op, i)

\* An item that is shown as being prepared or collected has a run to show for
\* it ("an already active reservation is represented by its existing Run").
BusyPreparationHasRun ==
    \A i \in Items :
        prep[i].status \in Busy => run[<<prep[i].op, i>>].state # "none"

\* A preparation that ended without a collection agrees with the run of the
\* operation that ended it: skipped for good means a clean completed run without
\* sources; retryable means a run that retry_failed_run accepts, or that has
\* been retried (or whose failure is still being, or could not be, written).
SkipMatchesRun ==
    \A i \in Items :
        LET r == <<prep[i].op, i>>
        IN  /\ (prep[i].status = "skipped" /\ ~prep[i].retryable) =>
                   run[r].state = "completed" /\ ~run[r].partial /\ ~run[r].scope
            /\ prep[i].retryable =>
                   \/ Retryable(run[r])
                   \/ run[r].state = "retried"
                   \/ runner[prep[i].op].pc = "failRun"
                   \/ r \in adrift

\* retried_by is written once.
RetryLinkWriteOnce ==
    [][\A r \in Runs : run[r].retriedBy # None => run'[r].retriedBy = run[r].retriedBy]_vars

\* The upsert that enters collection resets the run row to 'started'; it never
\* meets a row that had already ended.
NoResurrection ==
    [][\A r \in Runs : (~run[r].scope /\ run'[r].scope) => run[r].state = "started"]_vars

\* Every run that is registered ends, unless the process that had it died or
\* the write of its failure was lost.
RunsSettle ==
    \A r \in Runs : run[r].state = "started" ~> (run[r].state # "started" \/ r \in adrift)
=============================================================================
