---------------------- MODULE CatalogCollectionProofs ----------------------
(***************************************************************************)
(* Proofs about CatalogCollection, for every value of its constants.       *)
(*                                                                         *)
(*   Shape       the type invariant and what a runner and an editor hold   *)
(*   HoldsLease  who is live on an item is who its reservation names       *)
(*   LifeInv     what the run row is while a request or a runner has it    *)
(*   RecordsInv  what a preparation state says of the run it names         *)
(***************************************************************************)
EXTENDS CatalogCollection, TLAPS

-----------------------------------------------------------------------------
(* The inductive invariants *)

\* A runner that is not between groups has one of the catalog items.
RunnerHasItem ==
    \A op \in Ops : runner[op].pc \notin {"none", "next", "done", "stopped"}
                        <=> runner[op].item \in Items

\* The group being worked on has left the list of groups.
ItemTaken ==
    \A op \in Ops : runner[op].item \notin runner[op].todo

\* An edit under way read a real coverage value and a real reservation.
EditorHasRow ==
    \A i \in Items : /\ editor[i].pc = "read" => editor[i].coverage \in Versions
                     /\ editor[i].prep.status \in Busy => editor[i].prep.op \in Ops

\* A busy reservation names the operation that holds it.
BusyHasOwner == \A i \in Items : prep[i].status \in Busy => prep[i].op \in Ops

\* A runner exists only once its request is done with the plan.
RunnerFollowsRequest == \A op \in Ops : plan[op].pc # "done" => runner[op] = NoRunner

Shape == TypeOK /\ RunnerHasItem /\ ItemTaken /\ EditorHasRow /\ BusyHasOwner

\* The operation is live on the item: launching, or launched and holding it.
Live(op, i) == Holding(op, i) \/ (plan[op].pc = "launch" /\ i \in plan[op].items)

HoldsLease ==
    \A op \in Ops, i \in Items :
        Live(op, i) /\ <<op, i>> \notin expired \cup overwritten
            => prep[i].op = op /\ prep[i].status \in Busy /\ prep[i].fresh

LeaseInv == Shape /\ RunnerFollowsRequest /\ HoldsLease

\* The run is registered, and collection has not been entered.
Waiting(op, i) ==
    \/ plan[op].pc = "launch" /\ i \in plan[op].items
    \/ i \in runner[op].todo
    \/ runner[op].item = i /\ runner[op].pc \in {"claim", "discover", "failPrep", "failRun"}

\* Ingestion of the run is under way, or its outcome is being written.
Collecting(op, i) == runner[op].item = i /\ runner[op].pc \in {"collect", "settle", "failCollect"}

\* The run exists and no request or runner will work on it any more.
Over(r) == run[r].state # "none" /\ ~Waiting(r[1], r[2]) /\ ~Collecting(r[1], r[2])

\* A request has no runs before it registers them.
NoRunYet ==
    \A op \in Ops, i \in Items :
        plan[op].pc \in {"idle", "read"} => run[<<op, i>>] = NoRow /\ <<op, i>> \notin orphans

\* Only a registered run has a scope.
ScopedIsRun == \A r \in Runs : run[r].scope => run[r].state # "none"

\* A worker stage only runs alone for a run that has been registered.
OrphansAreRuns == \A r \in orphans : run[r].state # "none"

\* A registered run stays as it was inserted until its runner writes it.
WaitingRunIsFresh ==
    \A op \in Ops, i \in Items :
        Waiting(op, i) => /\ run[<<op, i>>].state = "started"
                          /\ ~run[<<op, i>>].scope
                          /\ run[<<op, i>>].retriedBy = None
                          /\ run[<<op, i>>].retryOf = plan[op].retryOf
                          /\ i \in plan[op].items
                          /\ <<op, i>> \notin orphans

\* While a run collects, either no stage has written it or its type is a
\* worker stage: it is never retryable, even when a stage has just failed.
CollectingRunIsLive ==
    \A op \in Ops, i \in Items :
        Collecting(op, i) => /\ run[<<op, i>>].state # "none"
                             /\ run[<<op, i>>].state = "started" \/ run[<<op, i>>].kind = "worker"

\* The run that a request retries is over, and is of the item it collects.
RetryTargetIsOver ==
    \A op \in Ops :
        plan[op].retryOf # None => /\ Over(plan[op].retryOf)
                                   /\ plan[op].items \subseteq {plan[op].retryOf[2]}

\* So is a run that has been superseded.
SupersededIsOver ==
    \A r \in Runs : run[r].state = "retried" \/ run[r].retriedBy # None => Over(r)

LifeInv ==
    /\ Shape
    /\ RunnerFollowsRequest
    /\ NoRunYet
    /\ ScopedIsRun
    /\ OrphansAreRuns
    /\ WaitingRunIsFresh
    /\ CollectingRunIsLive
    /\ RetryTargetIsOver
    /\ SupersededIsOver
    /\ RetryLinkSound

-----------------------------------------------------------------------------
(* Types *)

LEMMA InitShape == Init => Shape
BY NoneAssumption
DEF Init, Shape, TypeOK, RunnerHasItem, ItemTaken, EditorHasRow, BusyHasOwner, NoPrep, NoRow, NoPlan, NoRunner, NoEdit,
    PrepRow, RunRow, PlanRow, RunnerRow, RunnerPC, EditorRow, PrepStatus, Busy, Runs,
    Disturbances

\* What Shape says of the rows that one operation touches.
LEMMA RowsTyped ==
    ASSUME Shape
    PROVE  /\ \A i \in Items : prep[i] \in PrepRow /\ editor[i] \in EditorRow
           /\ \A op \in Ops : plan[op] \in PlanRow /\ runner[op] \in RunnerRow
           /\ \A r \in Runs : run[r] \in RunRow
BY DEF Shape, TypeOK

\* A write to a reservation.
LEMMA PrepWrittenShape ==
    ASSUME Shape, NEW op \in Ops, NEW i \in Items, NEW status \in PrepStatus,
           NEW sig \in Versions \cup {None}, NEW retryable \in BOOLEAN
    PROVE  /\ PrepWritten(op, i, status, sig, retryable) \in PrepRow
           /\ PrepWritten(op, i, status, sig, retryable).status \in Busy
                => PrepWritten(op, i, status, sig, retryable).op \in Ops
BY DEF Shape, TypeOK, BusyHasOwner, PrepWritten, PrepRow

LEMMA PrepAfterShape ==
    ASSUME Shape, NEW op \in Ops, NEW i \in Items, NEW status \in PrepStatus,
           NEW sig \in Versions \cup {None}, NEW retryable \in BOOLEAN,
           prep' = PrepAfter(op, i, status, sig, retryable)
    PROVE  prep' \in [Items -> PrepRow] /\ BusyHasOwner'
<1>1. prep \in [Items -> PrepRow] /\ \A j \in Items : prep[j].status \in Busy => prep[j].op \in Ops
  BY DEF Shape, TypeOK, BusyHasOwner
<1>2. QED
  BY <1>1, PrepWrittenShape DEF PrepAfter, BusyHasOwner

\* The writes to run rows.
LEMMA RunRowsTyped ==
    ASSUME NEW row \in RunRow
    PROVE  /\ \A state \in {"completed", "failed"}, partial \in BOOLEAN :
                FinishedRow(row, state, partial) \in RunRow
           /\ \A outcome \in Outcomes : StageRow(row, outcome) \in RunRow
           /\ CollectingRun(row) \in RunRow
           /\ \A new \in Runs : SupersededBy(row, new) \in RunRow
           /\ [row EXCEPT !.state = "failed"] \in RunRow
<1>1. /\ \A state \in {"completed", "failed"}, partial \in BOOLEAN :
                FinishedRow(row, state, partial) \in RunRow
      /\ [row EXCEPT !.state = "failed"] \in RunRow
  BY DEF RunRow, FinishedRow
<1>2. \A outcome \in Outcomes : StageRow(row, outcome) \in RunRow
  BY DEF RunRow, StageRow, Outcomes
<1>3. CollectingRun(row) \in RunRow
  BY DEF RunRow, CollectingRun
<1>4. \A new \in Runs : SupersededBy(row, new) \in RunRow
  BY DEF RunRow, SupersededBy
<1>5. QED
  BY <1>1, <1>2, <1>3, <1>4

LEMMA NewRunsTyped ==
    ASSUME NEW retryOf \in Runs \cup {None}
    PROVE  RegisteredRun(retryOf) \in RunRow /\ SkippedRun(retryOf) \in RunRow
BY DEF RegisteredRun, SkippedRun, NoRow, RunRow

LEMMA FinishShape ==
    ASSUME Shape, NEW op \in Ops, NEW state \in {"completed", "failed"}, NEW partial \in BOOLEAN,
           Finish(op, state, partial)
    PROVE  run' \in [Runs -> RunRow]
BY RunRowsTyped DEF Shape, TypeOK, Finish

\* The control states of a runner and of its request.
LEMMA ToShape ==
    ASSUME Shape, NEW op \in Ops, NEW pc \in RunnerPC \ {"none", "done", "stopped"}, To(op, pc),
           pc = "next" \/ runner[op].pc \notin {"none", "next", "done", "stopped"}
    PROVE  runner' \in [Ops -> RunnerRow] /\ RunnerHasItem' /\ ItemTaken'
<1>1. runner \in [Ops -> RunnerRow] /\ RunnerHasItem /\ ItemTaken
  BY DEF Shape, TypeOK
<1>2. runner[op] \in RunnerRow
  BY <1>1
<1> DEFINE row == [pc |-> pc, todo |-> runner[op].todo,
                   item |-> IF pc = "next" THEN None ELSE runner[op].item]
<1>3. row \in RunnerRow
  BY <1>2 DEF RunnerRow
<1>4. row.item \notin row.todo /\ (row.pc \notin {"none", "next", "done", "stopped"} <=> row.item \in Items)
  BY <1>1, <1>2, NoneAssumption DEF RunnerRow, RunnerHasItem, ItemTaken
<1>5. runner' = [runner EXCEPT ![op] = row]
  BY DEF To
<1> HIDE DEF row
<1>6. QED
  BY <1>1, <1>3, <1>4, <1>5 DEF RunnerHasItem, ItemTaken

LEMMA PlanEndsShape ==
    ASSUME Shape, NEW op \in Ops, NEW pc \in {"done", "lost"}, PlanEnds(op, pc)
    PROVE  plan' \in [Ops -> PlanRow]
<1>1. [NoPlan EXCEPT !.pc = pc] \in PlanRow
  BY DEF NoPlan, PlanRow
<1>2. QED
  BY <1>1 DEF PlanEnds, Shape, TypeOK

LEMMA RunnerEndsShape ==
    ASSUME Shape, NEW op \in Ops, NEW pc \in {"done", "stopped"}, RunnerEnds(op, pc)
    PROVE  /\ runner' \in [Ops -> RunnerRow] /\ RunnerHasItem' /\ ItemTaken'
           /\ plan' \in [Ops -> PlanRow]
<1> DEFINE row == [NoRunner EXCEPT !.pc = pc]
<1>1. row \in RunnerRow /\ row.item \notin row.todo /\ row.item \notin Items /\ row.pc = pc
  BY NoneAssumption DEF NoRunner, RunnerRow, RunnerPC
<1>2. runner' = [runner EXCEPT ![op] = row] /\ runner \in [Ops -> RunnerRow]
  BY DEF RunnerEnds, Shape, TypeOK
<1> HIDE DEF row
<1>3. QED
  BY <1>1, <1>2, PlanEndsShape DEF Shape, RunnerHasItem, ItemTaken, RunnerEnds

LEMMA StartRunnerShape ==
    ASSUME Shape, NEW op \in Ops, StartRunner(op)
    PROVE  runner' \in [Ops -> RunnerRow] /\ RunnerHasItem' /\ ItemTaken'
<1> DEFINE row == [pc |-> "next", item |-> None, todo |-> plan[op].items]
<1>1. row \in RunnerRow /\ row.item \notin row.todo /\ row.item \notin Items /\ row.pc = "next"
  BY RowsTyped, NoneAssumption DEF RunnerRow, RunnerPC, PlanRow
<1>2. runner' = [runner EXCEPT ![op] = row] /\ runner \in [Ops -> RunnerRow]
  BY DEF StartRunner, Shape, TypeOK
<1> HIDE DEF row
<1>3. QED
  BY <1>1, <1>2 DEF Shape, RunnerHasItem, ItemTaken

LEMMA RepairShape ==
    ASSUME Shape, NEW op \in Ops, NEW i \in Items, NEW route \in Routes, Repair(op, i, route)
    PROVE  /\ active' \in [Items -> BOOLEAN]
           /\ coverage' \in [Items -> Versions]
           /\ plan' \in [Ops -> PlanRow]
<1>1. plan[op] \in PlanRow /\ plan \in [Ops -> PlanRow]
  BY DEF Shape, TypeOK
<1>2. \A v \in Versions : [plan[op] EXCEPT !.sig[i] = v] \in PlanRow
  BY <1>1 DEF PlanRow
<1>3. QED
  BY <1>1, <1>2 DEF Repair, Routes, Shape, TypeOK

LEMMA SpendShape ==
    ASSUME Shape, NEW kind \in Disturbances, Spend(kind)
    PROVE  used' \in [Disturbances -> Nat]
BY DEF Shape, TypeOK, Spend

\* Every action leaves the rows well formed.
LEMMA RequestShape ==
    ASSUME Shape, NEW op \in Ops, RequestStep(op)
    PROVE  Shape'
<1> USE DEF Shape, TypeOK, RunnerHasItem, ItemTaken, EditorHasRow, BusyHasOwner, rows, history
<1>1. ASSUME NEW its \in SUBSET Items, NEW explicit \in BOOLEAN, NEW held \in SUBSET Items,
             NEW retryOf \in Runs \cup {None}, Preflight(op, its, explicit, held, retryOf)
      PROVE  plan' \in [Ops -> PlanRow]
  BY <1>1 DEF Preflight, PlanRow
<1>2. CASE \E its \in SUBSET Items \ {{}}, explicit \in BOOLEAN, held \in SUBSET Items :
                held \subseteq its /\ ReadScope(op, its, explicit, held)
  BY <1>1, <1>2 DEF ReadScope
<1>3. CASE \E old \in Runs : ReadRetry(op, old)
  <2> PICK old \in Runs : ReadRetry(op, old)
    BY <1>3
  <2>1. old[2] \in Items
    BY DEF Runs
  <2>2. QED
    BY <1>1, <2>1 DEF ReadRetry
<1>4. CASE RegisterRuns(op)
  <2>1. plan[op] \in PlanRow /\ plan[op].items \subseteq Items
        /\ plan[op].retryOf \in Runs \cup {None} /\ plan[op].sig \in [Items -> Versions \cup {None}]
    BY RowsTyped DEF PlanRow
  <2>2. run' \in [Runs -> RunRow]
    BY <1>4, <2>1, NewRunsTyped DEF RegisterRuns
  <2>3. \A i \in Items : [op |-> op, status |-> "queued", sig |-> plan[op].sig[i],
                          retryable |-> FALSE, fresh |-> TRUE] \in PrepRow
    BY <2>1 DEF PrepRow, PrepStatus, Busy
  <2>4. prep' \in [Items -> PrepRow] /\ BusyHasOwner'
    BY <1>4, <2>3 DEF RegisterRuns
  <2>5. plan' \in [Ops -> PlanRow]
    <3>1. \A its \in SUBSET Items : [plan[op] EXCEPT !.items = its, !.pc = "launch"] \in PlanRow
      BY <2>1 DEF PlanRow
    <3>2. CASE PlanEnds(op, "done")
      BY <3>2, PlanEndsShape
    <3> DEFINE reserved == {i \in plan[op].items : Reservable(i)}
               row == [plan[op] EXCEPT !.items = reserved, !.pc = "launch"]
    <3>3. row \in PlanRow
      BY <2>1, <3>1
    <3>4. PlanEnds(op, "done") \/ plan' = [plan EXCEPT ![op] = row]
      BY <1>4 DEF RegisterRuns
    <3> HIDE DEF row
    <3>5. QED
      BY <3>2, <3>3, <3>4
  <2>6. QED
    BY <1>4, <2>2, <2>4, <2>5 DEF RegisterRuns
<1>5. CASE Launch(op)
  <2>1. [plan[op] EXCEPT !.pc = "done"] \in PlanRow
    BY ZenonT(40), RowsTyped DEF PlanRow
  <2>2. QED
    BY <1>5, <2>1, StartRunnerShape DEF Launch
<1>6. CASE LaunchFails(op)
  <2>1. plan[op].sig \in [Items -> Versions \cup {None}]
    BY RowsTyped DEF PlanRow
  <2>2. run' \in [Runs -> RunRow]
    BY <1>6, RunRowsTyped DEF LaunchFails
  <2>3. prep' \in [Items -> PrepRow] /\ BusyHasOwner'
    BY <1>6, <2>1, PrepWrittenShape DEF LaunchFails, PrepStatus
  <2>4. QED
    BY <1>6, <2>2, <2>3, PlanEndsShape DEF LaunchFails
<1>7. CASE ServerStops(op)
  <2>1. plan[op].items \subseteq Items
    BY RowsTyped DEF PlanRow
  <2>2. adrift' \subseteq Runs
    BY <1>7, <2>1 DEF ServerStops, Runs
  <2>3. QED
    BY <1>7, <2>2, PlanEndsShape, SpendShape DEF ServerStops, Disturbances
<1>8. QED
  BY <1>2, <1>3, <1>4, <1>5, <1>6, <1>7 DEF RequestStep

LEMMA RunnerShape ==
    ASSUME Shape, NEW op \in Ops, RunnerStep(op)
    PROVE  Shape'
<1> USE DEF Shape, TypeOK, EditorHasRow, rows, history
<1> DEFINE Between == {"none", "next", "done", "stopped"}
<1>1. runner[op].pc \notin Between => Cur(op) \in Items /\ CurRun(op) \in Runs
  BY DEF Cur, CurRun, RunnerHasItem, Runs
<1>2. \A i \in Items : plan[op].sig[i] \in Versions \cup {None}
  BY RowsTyped DEF PlanRow
<1>3. \A status \in {"skipped", "unavailable", "checking", "collecting", "run_created"} : status \in PrepStatus
  BY DEF PrepStatus, Busy
<1>4. \A pc \in {"next", "claim", "discover", "collect", "settle", "failPrep", "failRun", "failCollect",
                 "closePrep"} : pc \in RunnerPC \ {"none", "done", "stopped"}
  BY DEF RunnerPC
<1>5. UNCHANGED prep => prep' \in [Items -> PrepRow] /\ BusyHasOwner'
  BY DEF BusyHasOwner
<1>6. \A kind \in {"fault"}, cond \in BOOLEAN : SpendIf(cond, kind) => used' \in [Disturbances -> Nat]
  BY SpendShape DEF SpendIf, Disturbances
<1>7. ASSUME NEW retryable \in BOOLEAN, FinishPreparation(op, retryable)
      PROVE  run' \in [Runs -> RunRow]
  BY <1>7, FinishShape DEF FinishPreparation
<1>11. CASE \E i \in Items : NextGroup(op, i)
  <2> PICK i \in Items : NextGroup(op, i)
    BY <1>11
  <2> DEFINE row == [pc |-> "claim", item |-> i, todo |-> runner[op].todo \ {i}]
  <2>1. row \in RunnerRow /\ row.item \in Items /\ row.item \notin row.todo /\ row.pc = "claim"
    BY RowsTyped, <1>4 DEF RunnerRow
  <2>2. runner' = [runner EXCEPT ![op] = row]
    BY DEF NextGroup
  <2> HIDE DEF row
  <2>3. runner' \in [Ops -> RunnerRow] /\ RunnerHasItem' /\ ItemTaken'
    BY <2>1, <2>2 DEF RunnerHasItem, ItemTaken
  <2>4. QED
    BY <1>5, <2>3 DEF NextGroup
<1>12. CASE RunnerExits(op)
  BY <1>12, <1>5, RunnerEndsShape DEF RunnerExits
<1>13. CASE ClaimLost(op)
  BY <1>13, <1>4, <1>5, <1>7, ToShape DEF ClaimLost
<1>14. CASE ClaimStale(op)
  BY <1>14, <1>1, <1>2, <1>3, <1>4, <1>7, ToShape, PrepAfterShape DEF ClaimStale
<1>15. CASE ClaimHolds(op)
  BY <1>15, <1>1, <1>2, <1>3, <1>4, ToShape, PrepAfterShape DEF ClaimHolds
<1>16. CASE \E retryable \in BOOLEAN, route \in Routes : SkipGroup(op, retryable, route)
  <2> PICK retryable \in BOOLEAN, route \in Routes : SkipGroup(op, retryable, route)
    BY <1>16
  <2>1. (IF route = None THEN plan[op].sig[Cur(op)] ELSE route) \in Versions \cup {None}
    BY <1>1, <1>2 DEF SkipGroup, Routes
  <2>2. prep' \in [Items -> PrepRow] /\ BusyHasOwner'
    BY <1>1, <1>3, <2>1, PrepAfterShape DEF SkipGroup
  <2>3. QED
    BY <1>1, <1>4, <1>7, <2>2, ToShape, RepairShape DEF SkipGroup
<1>17. CASE \E v \in Versions : RetireScope(op, v)
  <2> PICK v \in Versions : RetireScope(op, v)
    BY <1>17
  <2>1. prep' \in [Items -> PrepRow] /\ BusyHasOwner'
    BY <1>1, <1>2, <1>3, PrepAfterShape DEF RetireScope
  <2>2. QED
    BY <1>1, <1>4, <1>7, <2>1, ToShape DEF RetireScope
<1>18. CASE \E route \in Routes : EnterCollection(op, route)
  <2> PICK route \in Routes : EnterCollection(op, route)
    BY <1>18
  <2>1. (IF route = None THEN plan[op].sig[Cur(op)] ELSE route) \in Versions \cup {None}
    BY <1>1, <1>2 DEF EnterCollection, Routes
  <2>2. prep' \in [Items -> PrepRow] /\ BusyHasOwner'
    BY <1>1, <1>3, <2>1, PrepAfterShape DEF EnterCollection
  <2>3. run' \in [Runs -> RunRow]
    BY <1>1, RunRowsTyped DEF EnterCollection
  <2>4. QED
    BY <1>1, <1>4, <2>2, <2>3, ToShape, RepairShape DEF EnterCollection
<1>19. CASE EnterRefused(op)
  BY <1>19, <1>1, <1>2, <1>3, <1>4, <1>7, ToShape, PrepAfterShape DEF EnterRefused
<1>20. CASE CollectEnds(op)
  BY <1>20, <1>4, <1>5, ToShape DEF CollectEnds
<1>21. CASE \E late \in BOOLEAN : CollectFails(op, late)
  BY <1>21, <1>1, <1>4, <1>5, <1>6, ToShape DEF CollectFails
<1>22. CASE Settle(op)
  BY <1>22, <1>1, <1>2, <1>3, <1>4, ToShape, PrepAfterShape DEF Settle
<1>23. CASE SettleFails(op)
  BY <1>23, <1>4, <1>5, ToShape DEF SettleFails
<1>24. CASE GroupFails(op)
  BY <1>24, <1>4, <1>5, ToShape DEF GroupFails
<1>25. CASE \E saved \in BOOLEAN : FailPrep(op, saved)
  <2> PICK saved \in BOOLEAN : FailPrep(op, saved)
    BY <1>25
  <2>1. prep' \in [Items -> PrepRow] /\ BusyHasOwner'
    BY <1>1, <1>2, <1>3, <1>5, PrepAfterShape DEF FailPrep
  <2>2. QED
    BY <1>4, <1>6, <2>1, ToShape DEF FailPrep
<1>26. CASE \E saved \in BOOLEAN : FailRun(op, saved)
  <2> PICK saved \in BOOLEAN : FailRun(op, saved)
    BY <1>26
  <2>1. run' \in [Runs -> RunRow]
    BY FinishShape DEF FailRun
  <2>2. adrift' \subseteq Runs
    BY <1>1 DEF FailRun
  <2>3. runner' \in [Ops -> RunnerRow] /\ RunnerHasItem' /\ ItemTaken'
    BY <1>4, ToShape DEF FailRun
  <2>4. QED
    BY <1>5, <1>6, <2>1, <2>2, <2>3 DEF FailRun
<1>27. CASE \E saved \in BOOLEAN : ClosePrep(op, saved)
  <2> PICK saved \in BOOLEAN : ClosePrep(op, saved)
    BY <1>27
  <2>1. prep' \in [Items -> PrepRow] /\ BusyHasOwner'
    BY <1>1, <1>2, <1>3, <1>5, PrepAfterShape DEF ClosePrep
  <2>2. QED
    BY <1>4, <1>6, <2>1, ToShape DEF ClosePrep
<1>28. CASE \E outcome \in Outcomes : StageWrites(op, outcome)
  <2> PICK outcome \in Outcomes : StageWrites(op, outcome)
    BY <1>28
  <2>1. run' \in [Runs -> RunRow]
    BY <1>1, RunRowsTyped DEF StageWrites
  <2>2. QED
    BY <1>5, <2>1 DEF StageWrites, RunnerHasItem, ItemTaken
<1>29. CASE RunnerStops(op)
  <2>1. Unfinished(op) \subseteq Runs
    BY RowsTyped DEF Unfinished, RunnerRow, Runs
  <2>2. orphans' \subseteq Runs
    BY <1>29, <1>1 DEF RunnerStops
  <2>3. QED
    BY <1>29, <1>5, <2>1, <2>2, RunnerEndsShape, SpendShape DEF RunnerStops, Disturbances
<1>30. QED
  BY <1>11, <1>12, <1>13, <1>14, <1>15, <1>16, <1>17, <1>18, <1>19, <1>20, <1>21, <1>22, <1>23,
     <1>24, <1>25, <1>26, <1>27, <1>28, <1>29 DEF RunnerStep, RunnerAdvances

LEMMA EnvironmentShape ==
    ASSUME Shape, Environment
    PROVE  Shape'
<1> USE DEF Shape, TypeOK, RunnerHasItem, ItemTaken, EditorHasRow, BusyHasOwner, rows, history
<1>1. CASE \E r \in Runs, outcome \in Outcomes, gone \in BOOLEAN : OrphanWrites(r, outcome, gone)
  <2> PICK r \in Runs, outcome \in Outcomes, gone \in BOOLEAN : OrphanWrites(r, outcome, gone)
    BY <1>1
  <2>1. run' \in [Runs -> RunRow]
    BY RunRowsTyped DEF OrphanWrites
  <2>2. orphans' \subseteq Runs /\ adrift' \subseteq Runs
    BY DEF OrphanWrites
  <2>3. QED
    BY <2>1, <2>2 DEF OrphanWrites
<1>2. CASE \E i \in Items, act \in BOOLEAN, v \in Versions : EditRead(i, act, v)
  <2> PICK i \in Items, act \in BOOLEAN, v \in Versions : EditRead(i, act, v)
    BY <1>2
  <2> DEFINE row == [pc |-> "read", prep |-> prep[i], active |-> act, coverage |-> v]
  <2>1. row \in EditorRow
    BY RowsTyped DEF EditorRow
  <2>2. QED
    BY <2>1, SpendShape DEF EditRead, Disturbances
<1>3. CASE \E i \in Items : EditWrite(i)
  <2> PICK i \in Items : EditWrite(i)
    BY <1>3
  <2>1. NoEdit \in EditorRow /\ NoEdit.pc = "idle" /\ NoEdit.prep.status \notin Busy
    BY DEF NoEdit, EditorRow, NoPrep, PrepRow, PrepStatus, Busy
  <2>2. editor[i].prep \in PrepRow /\ editor[i].active \in BOOLEAN /\ editor[i].coverage \in Versions
    BY RowsTyped DEF EditorRow, EditWrite
  <2>3. overwritten' \subseteq Runs
    BY RowsTyped DEF EditWrite, PrepRow, Runs
  <2>4. QED
    BY <2>1, <2>2, <2>3 DEF EditWrite
<1>4. CASE \E i \in Items, v \in Versions : EditBank(i, v)
  BY <1>4, SpendShape DEF EditBank, Disturbances
<1>5. CASE \E i \in Items : LeaseExpires(i)
  <2> PICK i \in Items : LeaseExpires(i)
    BY <1>5
  <2>1. prep' = [prep EXCEPT ![i].fresh = FALSE] /\ [prep[i] EXCEPT !.fresh = FALSE] \in PrepRow
    BY ZenonT(40), RowsTyped DEF LeaseExpires, PrepRow
  <2>2. \A row \in EditorRow : [row EXCEPT !.prep.fresh = FALSE] \in EditorRow
                               /\ [row EXCEPT !.prep.fresh = FALSE].prep.op = row.prep.op
                               /\ [row EXCEPT !.prep.fresh = FALSE].prep.status = row.prep.status
                               /\ [row EXCEPT !.prep.fresh = FALSE].pc = row.pc
                               /\ [row EXCEPT !.prep.fresh = FALSE].coverage = row.coverage
    BY DEF EditorRow, PrepRow
  <2>3. editor' = [editor EXCEPT ![i] = [editor[i] EXCEPT !.prep.fresh = FALSE]]
    BY DEF LeaseExpires
  <2>4. editor' \in [Items -> EditorRow] /\ EditorHasRow'
    BY ZenonT(40), <2>2, <2>3
  <2>5. prep' \in [Items -> PrepRow] /\ BusyHasOwner'
    BY <2>1, RowsTyped DEF PrepRow
  <2>6. expired' \subseteq Runs
    BY DEF LeaseExpires, InProgress, Runs
  <2>7. QED
    BY <2>4, <2>5, <2>6, SpendShape DEF LeaseExpires, Disturbances
<1>6. QED
  BY <1>1, <1>2, <1>3, <1>4, <1>5 DEF Environment

LEMMA NextShape == Shape /\ [Next]_vars => Shape'
<1> SUFFICES ASSUME Shape, [Next]_vars PROVE Shape'
  OBVIOUS
<1>1. CASE UNCHANGED vars
  BY <1>1 DEF vars, rows, history, Shape, TypeOK, RunnerHasItem, ItemTaken, EditorHasRow, BusyHasOwner
<1>2. QED
  BY <1>1, RequestShape, RunnerShape, EnvironmentShape DEF Next

\* The rows keep their types, whatever the requests, runners and edits do.
THEOREM TypesHold == Spec => []TypeOK
<1>1. Shape => TypeOK
  BY DEF Shape
<1>2. QED
  BY <1>1, InitShape, NextShape, PTL DEF Spec


-----------------------------------------------------------------------------
(* The request and its runner *)

\* A step of a runner changes no other request or runner.
LEMMA RunnerFrame ==
    ASSUME Shape, NEW op \in Ops, RunnerStep(op)
    PROVE  /\ runner[op].pc # "none"
           /\ \A o \in Ops \ {op} : plan'[o] = plan[o] /\ runner'[o] = runner[o]
           /\ plan'[op].pc \in {plan[op].pc, "done"}
<1> USE DEF rows, history
<1>1. plan \in [Ops -> PlanRow] /\ runner \in [Ops -> RunnerRow]
  BY DEF Shape, TypeOK
<1>2. runner[op].pc # "none"
  BY DEF RunnerStep, RunnerAdvances, NextGroup, RunnerExits, ClaimLost, ClaimStale, ClaimHolds, SkipGroup,
         RetireScope, EnterCollection, EnterRefused, CollectEnds, CollectFails, Settle, SettleFails, GroupFails,
         FailPrep, FailRun, ClosePrep, StageWrites, RunnerStops
<1>3. \A o \in Ops \ {op} : plan'[o] = plan[o] /\ runner'[o] = runner[o]
  BY <1>1 DEF RunnerStep, RunnerAdvances, NextGroup, RunnerExits, ClaimLost, ClaimStale, ClaimHolds, SkipGroup,
         RetireScope, EnterCollection, EnterRefused, CollectEnds, CollectFails, Settle, SettleFails, GroupFails,
         FailPrep, FailRun, ClosePrep, StageWrites, RunnerStops, Repair, RunnerEnds, PlanEnds, To
<1>4. plan'[op].pc \in {plan[op].pc, "done"}
  <2>1. CASE UNCHANGED plan
    BY <2>1
  <2>2. CASE \E pc \in {"done", "stopped"} : RunnerEnds(op, pc)
    BY <2>2, <1>1 DEF RunnerEnds, PlanEnds, NoPlan
  <2>3. CASE \E i \in Items, route \in Routes : Repair(op, i, route)
    BY <2>3, <1>1 DEF Repair, PlanRow
  <2>4. runner[op].pc = "discover" => Cur(op) \in Items
    BY DEF Shape, RunnerHasItem, Cur
  <2>5. QED
    BY <2>1, <2>2, <2>3, <2>4 DEF RunnerStep, RunnerAdvances, NextGroup, RunnerExits, ClaimLost, ClaimStale,
       ClaimHolds, SkipGroup, RetireScope, EnterCollection, EnterRefused, CollectEnds, CollectFails, Settle,
       SettleFails, GroupFails, FailPrep, FailRun, ClosePrep, StageWrites, RunnerStops
<1>5. QED
  BY <1>2, <1>3, <1>4

LEMMA NextFollows == Shape /\ RunnerFollowsRequest /\ [Next]_vars => RunnerFollowsRequest'
<1> SUFFICES ASSUME Shape, RunnerFollowsRequest, [Next]_vars PROVE RunnerFollowsRequest'
  OBVIOUS
<1> USE DEF RunnerFollowsRequest, rows, history
<1>1. plan \in [Ops -> PlanRow] /\ runner \in [Ops -> RunnerRow]
  BY DEF Shape, TypeOK
<1>2. CASE UNCHANGED <<plan, runner>>
  BY <1>2
<1>3. ASSUME NEW op \in Ops, RequestStep(op)
      PROVE  RunnerFollowsRequest'
  <2>1. CASE \E its \in SUBSET Items, explicit \in BOOLEAN, held \in SUBSET Items, retryOf \in Runs \cup {None} :
                /\ Preflight(op, its, explicit, held, retryOf)
                /\ plan[op].pc = "idle"
                /\ UNCHANGED runner
    BY <2>1, <1>1 DEF Preflight
  <2>2. CASE RegisterRuns(op)
    BY <2>2, <1>1 DEF RegisterRuns, PlanEnds, PlanRow
  <2>3. CASE Launch(op)
    BY <2>3, <1>1 DEF Launch, StartRunner, PlanRow
  <2>4. CASE LaunchFails(op) \/ ServerStops(op)
    BY <2>4, <1>1 DEF LaunchFails, ServerStops, PlanEnds, NoPlan
  <2>5. (\E old \in Runs : ReadRetry(op, old)) \/ (\E its \in SUBSET Items \ {{}}, explicit \in BOOLEAN,
            held \in SUBSET Items : held \subseteq its /\ ReadScope(op, its, explicit, held))
          => \E its \in SUBSET Items, explicit \in BOOLEAN, held \in SUBSET Items, retryOf \in Runs \cup {None} :
                /\ Preflight(op, its, explicit, held, retryOf)
                /\ plan[op].pc = "idle"
                /\ UNCHANGED runner
    <3>1. ASSUME NEW old \in Runs, ReadRetry(op, old)
          PROVE  old[2] \in Items /\ Preflight(op, {old[2]}, FALSE, {}, old) /\ plan[op].pc = "idle" /\ UNCHANGED runner
      BY <3>1 DEF ReadRetry, Runs
    <3>2. QED
      BY ZenonT(40), <3>1 DEF ReadScope
  <2>6. QED
    BY <1>3, <2>1, <2>2, <2>3, <2>4, <2>5 DEF RequestStep
<1>4. ASSUME NEW op \in Ops, RunnerStep(op)
      PROVE  RunnerFollowsRequest'
  <2>1. plan[op].pc = "done"
    BY <1>4, RunnerFrame DEF NoRunner
  <2>2. QED
    BY <1>4, <2>1, RunnerFrame
<1>5. Environment => UNCHANGED <<plan, runner>>
  BY DEF Environment, OrphanWrites, EditRead, EditWrite, EditBank, LeaseExpires
<1>6. UNCHANGED vars => UNCHANGED <<plan, runner>>
  BY DEF vars
<1>7. QED
  BY <1>2, <1>3, <1>4, <1>5, <1>6 DEF Next

-----------------------------------------------------------------------------
(* Exclusion *)

\* A runner writes only the reservations that are its own.
LEMMA RunnerWritesOwn ==
    ASSUME Shape, NEW op \in Ops, RunnerStep(op)
    PROVE  /\ \A i \in Items : prep[i].op # op \/ i # Cur(op) => prep'[i] = prep[i]
           /\ expired' = expired /\ overwritten' = overwritten
<1>1. prep \in [Items -> PrepRow]
  BY DEF Shape, TypeOK
<1>2. \A i \in Items : prep[i].op # op \/ i # Cur(op) => prep'[i] = prep[i]
  <2> SUFFICES ASSUME NEW i \in Items, prep[i].op # op \/ i # Cur(op) PROVE prep'[i] = prep[i]
    OBVIOUS
  <2>1. CASE UNCHANGED prep
    BY <2>1
  <2>2. CASE ClaimStale(op) \/ EnterRefused(op) \/ \E v \in Versions : RetireScope(op, v)
    BY <1>1, <2>2 DEF PrepAfter, PrepWritten, ClaimStale, EnterRefused, RetireScope
  <2>3. CASE ClaimHolds(op) \/ Settle(op)
    BY <1>1, <2>3 DEF PrepAfter, PrepWritten, ClaimHolds, Settle
  <2>4. CASE \E retryable \in BOOLEAN, route \in Routes : SkipGroup(op, retryable, route)
    BY <1>1, <2>4 DEF PrepAfter, PrepWritten, SkipGroup
  <2>5. ASSUME NEW route \in Routes, EnterCollection(op, route) PROVE prep'[i] = prep[i]
    BY <1>1, <2>5 DEF PrepAfter, PrepWritten, EnterCollection
  <2>6. ASSUME NEW saved \in BOOLEAN, FailPrep(op, saved) \/ ClosePrep(op, saved) PROVE prep'[i] = prep[i]
    BY <1>1, <2>6 DEF PrepAfter, PrepWritten, FailPrep, ClosePrep
  <2>7. QED
    BY <2>1, <2>2, <2>3, <2>4, <2>5, <2>6 DEF rows, RunnerStep, RunnerAdvances, NextGroup, RunnerExits, ClaimLost,
       CollectEnds, CollectFails, SettleFails, GroupFails, FailRun, StageWrites, RunnerStops
<1>3. expired' = expired /\ overwritten' = overwritten
  BY DEF history, RunnerStep, RunnerAdvances, NextGroup, RunnerExits, ClaimLost, ClaimStale, ClaimHolds, SkipGroup,
         RetireScope, EnterCollection, EnterRefused, CollectEnds, CollectFails, Settle, SettleFails, GroupFails,
         FailPrep, FailRun, ClosePrep, StageWrites, RunnerStops
<1>4. QED
  BY <1>2, <1>3

\* A runner that keeps an item either leaves its reservation alone or renews it.
LEMMA RunnerKeepsLease ==
    ASSUME Shape, NEW op \in Ops, RunnerStep(op), NEW i \in Items, Holding(op, i)'
    PROVE  \/ Holding(op, i) /\ prep'[i] = prep[i]
           \/ prep'[i].op = op /\ prep'[i].status \in Busy /\ prep'[i].fresh
<1> USE DEF Holding
<1>1. prep \in [Items -> PrepRow] /\ runner \in [Ops -> RunnerRow] /\ runner[op].item \notin runner[op].todo
  BY DEF Shape, TypeOK, ItemTaken
<1>2. i # Cur(op) => prep'[i] = prep[i]
  BY RunnerWritesOwn
<1>3. ASSUME NEW pc, To(op, pc)
      PROVE  \/ i \in runner[op].todo /\ i # Cur(op)
             \/ pc \notin {"next", "failRun"} /\ i = Cur(op)
  BY <1>1, <1>3, NoneAssumption DEF To, Cur
<1>4. CASE To(op, "next") \/ To(op, "failRun")
  BY <1>2, <1>3, <1>4
<1>5. CASE ClaimHolds(op) \/ \E route \in Routes : EnterCollection(op, route)
  <2>1. CASE i # Cur(op)
    BY <1>2, <1>3, <1>5, <2>1 DEF ClaimHolds, EnterCollection
  <2>2. CASE i = Cur(op)
    BY <1>1, <1>5, <2>2 DEF ClaimHolds, EnterCollection, PrepAfter, PrepWritten, Busy
  <2>3. QED
    BY <2>1, <2>2
<1>6. CASE \E pc \in {"settle", "failPrep", "failCollect", "closePrep"} :
                runner[op].pc # "failRun" /\ To(op, pc) /\ UNCHANGED prep
  BY <1>3, <1>6 DEF Cur
<1>7. CASE \E j \in Items : NextGroup(op, j)
  BY <1>1, <1>7 DEF NextGroup, rows
<1>8. CASE RunnerExits(op) \/ RunnerStops(op)
  BY <1>1, <1>8, NoneAssumption DEF RunnerExits, RunnerStops, RunnerEnds, NoRunner
<1>9. CASE \E outcome \in Outcomes : StageWrites(op, outcome)
  BY <1>9 DEF StageWrites
<1>10. QED
  BY <1>4, <1>5, <1>6, <1>7, <1>8, <1>9 DEF RunnerStep, RunnerAdvances, ClaimLost, ClaimStale, SkipGroup,
     RetireScope, EnterRefused, CollectEnds, CollectFails, Settle, SettleFails, GroupFails, FailPrep, FailRun,
     ClosePrep, rows

LEMMA InitLease == Init => LeaseInv
<1> SUFFICES ASSUME Init PROVE RunnerFollowsRequest /\ HoldsLease
  BY InitShape DEF LeaseInv
<1>1. QED
  BY NoneAssumption DEF Init, RunnerFollowsRequest, HoldsLease, Live, Holding, NoRunner, NoPlan

LEMMA NextLease == LeaseInv /\ [Next]_vars => LeaseInv'
<1> SUFFICES ASSUME LeaseInv, [Next]_vars PROVE HoldsLease'
  BY NextShape, NextFollows DEF LeaseInv
<1> SUFFICES ASSUME NEW o \in Ops, NEW i \in Items, Live(o, i)', <<o, i>> \notin (expired \cup overwritten)'
             PROVE  prep'[i].op = o /\ prep'[i].status \in Busy /\ prep'[i].fresh
  BY DEF HoldsLease
<1> USE DEF LeaseInv, rows, history
<1>1. prep \in [Items -> PrepRow] /\ runner \in [Ops -> RunnerRow] /\ plan \in [Ops -> PlanRow]
  BY DEF Shape, TypeOK
<1>2. Live(o, i) /\ <<o, i>> \notin expired \cup overwritten
        => prep[i].op = o /\ prep[i].status \in Busy /\ prep[i].fresh
  BY DEF HoldsLease
<1>3. CASE UNCHANGED vars
  BY <1>2, <1>3 DEF vars, Live, Holding
<1>4. ASSUME NEW op \in Ops, RequestStep(op)
      PROVE  prep'[i].op = o /\ prep'[i].status \in Busy /\ prep'[i].fresh
  <2>1. <<o, i>> \notin expired \cup overwritten
    BY <1>4 DEF RequestStep, ReadScope, ReadRetry, RegisterRuns, Launch, LaunchFails, ServerStops
  <2>2. CASE RegisterRuns(op)
    <3>1. o # op => Live(o, i)
      BY <1>1, <2>2 DEF RegisterRuns, PlanEnds, Live, Holding
    <3>2. o = op => Live(o, i) \/ i \in {j \in plan[op].items : Reservable(j)}
      <4> DEFINE reserved == {j \in plan[op].items : Reservable(j)}
      <4>1. CASE PlanEnds(op, "done")
        BY <1>1, <2>2, <4>1 DEF RegisterRuns, PlanEnds, Live, Holding
      <4>2. CASE plan' = [plan EXCEPT ![op] = [plan[op] EXCEPT !.items = reserved, !.pc = "launch"]]
        BY <1>1, <2>2, <4>2 DEF RegisterRuns, Live, Holding, PlanRow
      <4>3. QED
        BY <2>2, <4>1, <4>2 DEF RegisterRuns
    <3>3. CASE i \in {j \in plan[op].items : Reservable(j)}
      <4>1. ~Live(o, i) \/ o # op => FALSE \/ o = op
        BY <1>2, <2>1, <3>1, <3>3 DEF Reservable
      <4>2. prep'[i] = [op |-> op, status |-> "queued", sig |-> plan[op].sig[i],
                        retryable |-> FALSE, fresh |-> TRUE]
        BY <2>2, <3>3 DEF RegisterRuns
      <4>3. QED
        BY <4>1, <4>2 DEF Busy
    <3>4. CASE i \notin {j \in plan[op].items : Reservable(j)}
      BY <1>2, <2>1, <2>2, <3>1, <3>2, <3>4 DEF RegisterRuns
    <3>5. QED
      BY <3>3, <3>4
  <2>3. CASE LaunchFails(op)
    <3>1. o # op /\ Live(o, i)
      BY <1>1, <2>3, NoneAssumption DEF LaunchFails, PlanEnds, NoPlan, Live, Holding, RunnerFollowsRequest, NoRunner
    <3>2. prep'[i] = prep[i]
      BY <1>2, <2>1, <2>3, <3>1 DEF LaunchFails, PrepWritten
    <3>3. QED
      BY <1>2, <2>1, <3>1, <3>2
  <2>4. CASE UNCHANGED prep /\ Live(o, i)
    BY <1>2, <2>1, <2>4
  <2>5. Launch(op) => UNCHANGED prep /\ Live(o, i)
    <3> SUFFICES ASSUME Launch(op) PROVE Live(o, i)
      BY DEF Launch
    <3>1. plan'[op].pc # "launch" /\ plan[op].pc = "launch"
      BY <1>1 DEF Launch, PlanRow
    <3>2. runner'[op] = [pc |-> "next", item |-> None, todo |-> plan[op].items]
          /\ \A q \in Ops \ {op} : runner'[q] = runner[q] /\ plan'[q] = plan[q]
      BY <1>1 DEF Launch, StartRunner
    <3>3. QED
      BY <3>1, <3>2, NoneAssumption DEF Live, Holding
  <2>6. ServerStops(op) => UNCHANGED prep /\ Live(o, i)
    BY <1>1 DEF ServerStops, PlanEnds, NoPlan, Live, Holding
  <2>7. ASSUME NEW its, NEW explicit, NEW held, NEW retryOf, Preflight(op, its, explicit, held, retryOf),
               UNCHANGED <<rows, runner>>
        PROVE  UNCHANGED prep /\ Live(o, i)
    BY <1>1, <2>7 DEF Preflight, Live, Holding
  <2>8. QED
    BY <1>4, <2>2, <2>3, <2>4, <2>5, <2>6, <2>7 DEF RequestStep, ReadScope, ReadRetry
<1>5. ASSUME NEW op \in Ops, RunnerStep(op)
      PROVE  prep'[i].op = o /\ prep'[i].status \in Busy /\ prep'[i].fresh
  <2>1. <<o, i>> \notin expired \cup overwritten
    BY <1>5, RunnerWritesOwn
  <2>2. CASE o # op
    <3>1. Live(o, i)
      BY <1>5, <2>2, RunnerFrame DEF Live, Holding
    <3>2. QED
      BY <1>2, <1>5, <2>1, <2>2, <3>1, RunnerWritesOwn
  <2>3. CASE o = op
    <3>1. Holding(op, i)'
      BY <1>5, <2>3, RunnerFrame DEF Live, RunnerFollowsRequest, NoRunner
    <3>2. QED
      BY <1>2, <1>5, <2>1, <2>3, <3>1, RunnerKeepsLease DEF Live
  <2>4. QED
    BY <2>2, <2>3
<1>6. CASE Environment
  <2>1. Live(o, i)
    BY <1>6 DEF Environment, OrphanWrites, EditRead, EditWrite, EditBank, LeaseExpires, Live, Holding
  <2>2. CASE \E j \in Items : EditWrite(j)
    <3> PICK j \in Items : EditWrite(j)
      BY <2>2
    <3>1. prep[i].op = o /\ prep[i].status \in Busy /\ prep[i].fresh
      BY <1>2, <2>1 DEF EditWrite
    <3>2. prep'[i] = prep[i]
      BY <1>1, <3>1, NoneAssumption DEF EditWrite
    <3>3. QED
      BY <3>1, <3>2
  <2>3. CASE \E j \in Items : LeaseExpires(j)
    <3> PICK j \in Items : LeaseExpires(j)
      BY <2>3
    <3>1. prep[i].op = o /\ prep[i].status \in Busy /\ prep[i].fresh
      BY <1>2, <2>1 DEF LeaseExpires
    <3>2. i # j
      BY <3>1 DEF LeaseExpires
    <3>3. QED
      BY <1>1, <3>1, <3>2 DEF LeaseExpires
  <2>4. QED
    BY <1>2, <1>6, <2>1, <2>2, <2>3 DEF Environment, OrphanWrites, EditRead, EditBank
<1>7. QED
  BY <1>3, <1>4, <1>5, <1>6 DEF Next

\* Two runners never hold an item together unless a reservation of theirs aged
\* out or was written over: the conditional updates exclude every other overlap.
THEOREM ReservationsExclusive == Spec => []ReservationExclusive
<1>1. LeaseInv => ReservationExclusive
  <2> SUFFICES ASSUME LeaseInv, NEW i \in Items, NEW o1 \in Ops, NEW o2 \in Ops,
                      o1 # o2, Holding(o1, i), Holding(o2, i)
               PROVE  <<o1, i>> \in expired \cup overwritten \/ <<o2, i>> \in expired \cup overwritten
    BY DEF ReservationExclusive
  <2>1. QED
    BY DEF LeaseInv, HoldsLease, Live
<1>2. QED
  BY <1>1, InitLease, NextLease, PTL DEF Spec

-----------------------------------------------------------------------------
(* The life of a run *)

LEMMA InitLife == Init => LifeInv
<1> SUFFICES ASSUME Init PROVE LifeInv
  OBVIOUS
<1>1. Shape /\ RunnerFollowsRequest
  BY InitShape DEF Init, RunnerFollowsRequest
<1>2. \A op \in Ops : plan[op].pc = "idle" /\ plan[op].items = {} /\ plan[op].retryOf = None
                      /\ runner[op].pc = "none" /\ runner[op].todo = {}
  BY DEF Init, NoPlan, NoRunner
<1>3. \A r \in Runs : run[r] = NoRow /\ run[r].state = "none" /\ ~run[r].scope /\ run[r].retriedBy = None
  BY DEF Init, NoRow
<1>4. orphans = {}
  BY DEF Init
<1>5. NoRunYet /\ ScopedIsRun /\ OrphansAreRuns /\ WaitingRunIsFresh /\ CollectingRunIsLive
  BY <1>2, <1>3, <1>4 DEF NoRunYet, ScopedIsRun, OrphansAreRuns, WaitingRunIsFresh, CollectingRunIsLive, Waiting, Collecting, Runs
<1>6. RetryTargetIsOver /\ SupersededIsOver /\ RetryLinkSound
  BY <1>2, <1>3 DEF RetryTargetIsOver, SupersededIsOver, RetryLinkSound
<1>7. QED
  BY <1>1, <1>5, <1>6 DEF LifeInv

\* What is known of the row of the run that a runner is working on.
LEMMA RunInHand ==
    ASSUME LifeInv, NEW op \in Ops, NEW i \in Items, Waiting(op, i) \/ Collecting(op, i)
    PROVE  <<op, i>> \in Runs /\ run[<<op, i>>].state # "none" /\ plan[op].pc \notin {"idle", "read"}
<1>1. run[<<op, i>>].state # "none"
  BY DEF LifeInv, WaitingRunIsFresh, CollectingRunIsLive
<1>2. QED
  BY <1>1 DEF LifeInv, NoRunYet, NoRow, Runs

\* A row that a step updates in place: the links and the scope stay, and a run
\* that is waiting is not touched by a step that leaves it waiting.
Updated(r) ==
    /\ run[r].state # "none"
    /\ run'[r].state \in {"started", "completed", "failed"}
    /\ run'[r].scope = run[r].scope
    /\ run'[r].retryOf = run[r].retryOf
    /\ run'[r].retriedBy = run[r].retriedBy
    /\ ~Waiting(r[1], r[2])'
    /\ Collecting(r[1], r[2])' => run'[r].kind = "worker"

Inserted(r) ==
    /\ plan[r[1]].pc = "read"
    /\ plan'[r[1]].pc \notin {"idle", "read"}
    /\ \/ run'[r] = SkippedRun(plan[r[1]].retryOf)
       \/ run'[r] = RegisteredRun(plan[r[1]].retryOf) /\ r[2] \in plan[r[1]].items

Entered(r) ==
    /\ runner[r[1]].pc = "discover"
    /\ runner[r[1]].item = r[2]
    /\ runner'[r[1]].pc = "collect"
    /\ runner'[r[1]].item = r[2]
    /\ run'[r] = CollectingRun(run[r])

Superseded(r) ==
    \E op \in Ops : /\ r = plan[op].retryOf
                    /\ Cur(op) \in Items
                    /\ Entered(CurRun(op))
                    /\ run'[r] = SupersededBy(run[r], CurRun(op))

\* How the control state of a run moves in one step.
PhaseStep(op, i) ==
    /\ Waiting(op, i)' =>
            /\ Waiting(op, i) \/ (Inserted(<<op, i>>) /\ run'[<<op, i>>] = RegisteredRun(plan[op].retryOf))
            /\ ~Collecting(op, i)
            /\ plan'[op].retryOf = plan[op].retryOf
            /\ i \in plan'[op].items
    /\ Collecting(op, i)' => Collecting(op, i) \/ (Waiting(op, i) /\ Entered(<<op, i>>))

\* A run is in one phase at a time.
LEMMA WaitingNotCollecting ==
    ASSUME LifeInv, NEW op \in Ops, NEW i \in Items, Waiting(op, i)
    PROVE  ~Collecting(op, i) /\ i \in plan[op].items
<1>1. i \in plan[op].items
  BY DEF LifeInv, WaitingRunIsFresh
<1>2. ASSUME Collecting(op, i)
      PROVE  FALSE
  <2>1. i \notin runner[op].todo
    BY <1>2 DEF Collecting, LifeInv, Shape, ItemTaken
  <2>2. plan[op].pc = "done"
    BY <1>2 DEF Collecting, LifeInv, RunnerFollowsRequest, NoRunner
  <2>3. QED
    BY <1>2, <2>1, <2>2 DEF Waiting, Collecting
<1>3. QED
  BY <1>1, <1>2

\* A request and a runner that a step leaves alone.
LEMMA PhaseIdle ==
    ASSUME LifeInv, NEW op \in Ops, plan'[op] = plan[op], runner'[op] = runner[op]
    PROVE  \A i \in Items : /\ PhaseStep(op, i)
                            /\ Waiting(op, i)' = Waiting(op, i)
                            /\ Collecting(op, i)' = Collecting(op, i)
BY WaitingNotCollecting DEF PhaseStep, Waiting, Collecting

\* A registration inserts rows; every other step of a request leaves the
\* rows as they are, or fails runs that have no runner.
LEMMA RequestLife ==
    ASSUME LifeInv, NEW op \in Ops, RequestStep(op)
    PROVE  /\ \A r \in Runs : run'[r] = run[r] \/ Inserted(r) \/ Updated(r)
           /\ \A o \in Ops, i \in Items : PhaseStep(o, i)
<1> USE DEF rows, history
<1>1. /\ plan \in [Ops -> PlanRow] /\ runner \in [Ops -> RunnerRow] /\ run \in [Runs -> RunRow]
      /\ plan[op] \in PlanRow /\ plan[op].items \subseteq Items
  BY DEF LifeInv, Shape, TypeOK, PlanRow
<1>2. \A o \in Ops \ {op} : plan'[o] = plan[o] /\ runner'[o] = runner[o]
  BY <1>1 DEF RequestStep, ReadScope, ReadRetry, Preflight, RegisterRuns, Launch, StartRunner, LaunchFails,
         ServerStops, PlanEnds
<1>3. \A o \in Ops \ {op}, i \in Items : PhaseStep(o, i)
  BY <1>2, PhaseIdle
<1>4. plan[op].pc # "done" /\ runner[op] = NoRunner
  BY DEF RequestStep, ReadScope, ReadRetry, RegisterRuns, Launch, LaunchFails, ServerStops, LifeInv, RunnerFollowsRequest
<1>5. \A i \in Items : ~Collecting(op, i)
  BY <1>4 DEF Collecting, NoRunner
<1>6. CASE RegisterRuns(op)
  <2> DEFINE reserved == {i \in plan[op].items : Reservable(i)}
  <2>1. runner' = runner /\ plan[op].pc = "read" /\ plan'[op].pc \notin {"idle", "read"}
    <3>1. PlanEnds(op, "done") => plan'[op].pc = "done"
      BY <1>1 DEF PlanEnds, NoPlan
    <3>2. plan' = [plan EXCEPT ![op] = [plan[op] EXCEPT !.items = reserved, !.pc = "launch"]]
            => plan'[op].pc = "launch"
      BY <1>1 DEF PlanRow
    <3>3. QED
      BY <1>6, <3>1, <3>2 DEF RegisterRuns
  <2>2. \A r \in Runs : run'[r] = run[r] \/ Inserted(r)
    BY <1>6, <2>1 DEF RegisterRuns, Inserted
  <2>3. ASSUME NEW i \in Items
        PROVE  PhaseStep(op, i)
    <3>1. ~Collecting(op, i)'
      BY <1>4, <2>1 DEF Collecting, NoRunner
    <3>2. CASE PlanEnds(op, "done")
      BY <1>1, <1>4, <2>1, <3>1, <3>2 DEF PlanEnds, NoPlan, PhaseStep, Waiting, NoRunner
    <3>3. CASE plan' = [plan EXCEPT ![op] = [plan[op] EXCEPT !.items = reserved, !.pc = "launch"]]
      <4>1. plan'[op].items = reserved /\ plan'[op].retryOf = plan[op].retryOf
        BY <1>1, <3>3 DEF PlanRow
      <4>2. Waiting(op, i)' => i \in reserved
        BY <1>4, <2>1, <4>1 DEF Waiting, NoRunner
      <4>3. i \in reserved => Inserted(<<op, i>>) /\ run'[<<op, i>>] = RegisteredRun(plan[op].retryOf)
        BY <1>6, <2>1 DEF RegisterRuns, Inserted, Runs
      <4>4. QED
        BY <1>5, <3>1, <4>1, <4>2, <4>3 DEF PhaseStep
    <3>4. QED
      BY <1>6, <3>2, <3>3 DEF RegisterRuns
  <2>4. QED
    BY <1>3, <2>2, <2>3
<1>7. CASE LaunchFails(op)
  <2>1. \A i \in Items : ~Waiting(op, i)' /\ ~Collecting(op, i)'
    BY <1>1, <1>4, <1>7 DEF LaunchFails, PlanEnds, NoPlan, Waiting, Collecting, NoRunner
  <2>2. ASSUME NEW r \in Runs
        PROVE  run'[r] = run[r] \/ Updated(r)
    <3>1. CASE run'[r] = run[r]
      BY <3>1
    <3>2. CASE r[1] = op /\ run[r].state = "started" /\ run'[r] = [run[r] EXCEPT !.state = "failed"]
      BY <1>1, <2>1, <3>2 DEF Updated, RunRow, Runs
    <3>3. QED
      BY <1>7, <3>1, <3>2 DEF LaunchFails
  <2>3. QED
    BY <1>3, <2>1, <2>2 DEF PhaseStep
<1>8. CASE Launch(op)
  <2>1. UNCHANGED run /\ plan[op].pc = "launch" /\ plan'[op].items = plan[op].items
        /\ plan'[op].retryOf = plan[op].retryOf
    BY <1>1, <1>8 DEF Launch, PlanRow
  <2>2. runner'[op] = [pc |-> "next", item |-> None, todo |-> plan[op].items]
    BY <1>1, <1>8 DEF Launch, StartRunner
  <2>3. plan'[op].pc = "done"
    BY <1>1, <1>8 DEF Launch, PlanRow
  <2>4. \A i \in Items : ~Collecting(op, i)' /\ (Waiting(op, i)' => Waiting(op, i) /\ i \in plan[op].items)
    BY <2>1, <2>2, <2>3, NoneAssumption DEF Collecting, Waiting
  <2>5. QED
    BY <1>3, <1>5, <2>1, <2>4 DEF PhaseStep
<1>9. CASE UNCHANGED <<run, runner>> /\ plan'[op].pc # "launch"
  <2>1. \A i \in Items : ~Waiting(op, i)' /\ ~Collecting(op, i)'
    BY <1>4, <1>9 DEF Waiting, Collecting, NoRunner
  <2>2. QED
    BY <1>3, <1>9, <2>1 DEF PhaseStep
<1>10. ServerStops(op) => UNCHANGED <<run, runner>> /\ plan'[op].pc # "launch"
  BY <1>1 DEF ServerStops, PlanEnds, NoPlan
<1>11. ASSUME NEW its, NEW explicit, NEW held, NEW retryOf, Preflight(op, its, explicit, held, retryOf)
       PROVE  plan'[op].pc # "launch"
  BY <1>1, <1>11 DEF Preflight
<1>12. QED
  BY <1>6, <1>7, <1>8, <1>9, <1>10, <1>11 DEF RequestStep, ReadScope, ReadRetry

\* A runner that moves within its current group, or leaves it.
LEMMA ToPhase ==
    ASSUME LifeInv, NEW op \in Ops, NEW pc, To(op, pc), runner[op].pc # "none",
           plan'[op].pc = plan[op].pc, plan'[op].retryOf = plan[op].retryOf, plan'[op].items = plan[op].items,
           \/ pc \in {"next", "closePrep"}
           \/ pc \in {"discover", "failPrep", "failRun"} /\ runner[op].pc \in {"claim", "discover", "failPrep"}
           \/ pc \in {"settle", "failCollect"} /\ runner[op].pc \in {"collect", "settle"}
           \/ pc = "collect" /\ runner[op].pc = "discover" /\ Entered(CurRun(op))
    PROVE  \A i \in Items : PhaseStep(op, i)
<1> SUFFICES ASSUME NEW i \in Items PROVE PhaseStep(op, i)
  OBVIOUS
<1>1. runner'[op] = [pc |-> pc, todo |-> runner[op].todo,
                     item |-> IF pc = "next" THEN None ELSE runner[op].item]
  BY DEF To, LifeInv, Shape, TypeOK
<1>2. plan[op].pc = "done"
  BY DEF LifeInv, RunnerFollowsRequest, NoRunner
<1>3. ASSUME Waiting(op, i)'
      PROVE  Waiting(op, i)
  BY <1>1, <1>2, <1>3, NoneAssumption DEF Waiting
<1>4. ASSUME Collecting(op, i)'
      PROVE  Collecting(op, i) \/ (Waiting(op, i) /\ Entered(<<op, i>>))
  BY <1>1, <1>4, NoneAssumption DEF Collecting, Waiting, CurRun, Cur
<1>5. QED
  BY <1>3, <1>4, WaitingNotCollecting DEF PhaseStep

\* A runner that leaves its group writes the end of the run it had.
LEMMA FinishLife ==
    ASSUME LifeInv, NEW op \in Ops, NEW pc \in {"next", "closePrep"}, To(op, pc),
           runner[op].pc \in {"claim", "discover", "failRun", "failCollect"},
           plan'[op].pc = plan[op].pc,
           NEW state \in {"completed", "failed"}, NEW partial \in BOOLEAN,
           Finish(op, state, partial)
    PROVE  \A r \in Runs : run'[r] = run[r] \/ Updated(r)
<1>1. /\ runner \in [Ops -> RunnerRow] /\ run \in [Runs -> RunRow]
      /\ Cur(op) \in Items /\ Cur(op) \notin runner[op].todo /\ plan[op].pc = "done"
  BY DEF LifeInv, Shape, TypeOK, RunnerHasItem, ItemTaken, Cur, RunnerFollowsRequest, NoRunner
<1>2. Waiting(op, Cur(op)) \/ Collecting(op, Cur(op))
  BY DEF Waiting, Collecting, Cur
<1>3. CurRun(op) \in Runs /\ run[CurRun(op)].state # "none"
  BY <1>1, <1>2, RunInHand DEF CurRun
<1>4. \A i \in Items : i = Cur(op) => ~Waiting(op, i)' /\ ~Collecting(op, i)'
  BY <1>1, NoneAssumption DEF To, Waiting, Collecting, Cur
<1>5. run' = [run EXCEPT ![CurRun(op)] = FinishedRow(run[CurRun(op)], state, partial)]
  BY DEF Finish
<1>6. \A r \in Runs : r = CurRun(op) => Updated(r)
  BY <1>1, <1>3, <1>4, <1>5 DEF Updated, FinishedRow, RunRow, CurRun
<1>7. QED
  BY <1>1, <1>5, <1>6

LEMMA RunnerLife ==
    ASSUME LifeInv, NEW op \in Ops, RunnerStep(op)
    PROVE  /\ \A r \in Runs : run'[r] = run[r] \/ Updated(r) \/ Entered(r) \/ Superseded(r)
           /\ \A o \in Ops, i \in Items : PhaseStep(o, i)
<1> USE DEF rows, history
<1> DEFINE RowsKept == \A r \in Runs : run'[r] = run[r] \/ Updated(r) \/ Entered(r) \/ Superseded(r)
           PhaseKept == \A i \in Items : PhaseStep(op, i)
<1>1. /\ plan \in [Ops -> PlanRow] /\ runner \in [Ops -> RunnerRow] /\ run \in [Runs -> RunRow]
      /\ runner[op].pc # "none" /\ plan[op].pc = "done"
      /\ runner[op].item \notin runner[op].todo
  BY RunnerFrame DEF LifeInv, Shape, TypeOK, RunnerFollowsRequest, NoRunner, ItemTaken
<1>2. \A o \in Ops \ {op}, i \in Items : PhaseStep(o, i)
  BY RunnerFrame, PhaseIdle DEF LifeInv
<1>3. runner[op].pc \notin {"none", "next", "done", "stopped"} => Cur(op) \in Items
  BY DEF LifeInv, Shape, RunnerHasItem, Cur
<1>4. ASSUME NEW i \in Items, NEW route \in Routes, Repair(op, i, route)
      PROVE  plan'[op].pc = plan[op].pc /\ plan'[op].retryOf = plan[op].retryOf /\ plan'[op].items = plan[op].items
  BY <1>1, <1>4 DEF Repair, PlanRow
<1>5. ASSUME NEW retryable \in BOOLEAN, FinishPreparation(op, retryable), To(op, "next"),
             runner[op].pc \in {"claim", "discover"},
             UNCHANGED plan \/ \E i \in Items, route \in Routes : Repair(op, i, route)
      PROVE  RowsKept /\ PhaseKept
  BY <1>1, <1>4, <1>5, FinishLife, ToPhase DEF FinishPreparation
<1>6. CASE ClaimLost(op) \/ ClaimStale(op) \/ EnterRefused(op)
  BY <1>2, <1>5, <1>6 DEF ClaimLost, ClaimStale, EnterRefused
<1>7. CASE \E v \in Versions : RetireScope(op, v)
  BY <1>2, <1>5, <1>7 DEF RetireScope
<1>8. CASE \E retryable \in BOOLEAN, route \in Routes : SkipGroup(op, retryable, route)
  BY <1>2, <1>3, <1>5, <1>8 DEF SkipGroup
<1>9. CASE \E route \in Routes : EnterCollection(op, route)
  <2> PICK route \in Routes : EnterCollection(op, route)
    BY <1>9
  <2>1. Cur(op) \in Items /\ CurRun(op) \in Runs /\ CurRun(op)[1] = op /\ CurRun(op)[2] = Cur(op)
    BY <1>3 DEF EnterCollection, CurRun, Runs
  <2>2. Entered(CurRun(op))
    <3>1. runner'[op].pc = "collect" /\ runner'[op].item = Cur(op)
      BY <1>1 DEF EnterCollection, To, Cur
    <3>2. QED
      BY <2>1, <3>1 DEF EnterCollection, Entered, Cur
  <2>3. RowsKept
    BY <2>1, <2>2 DEF EnterCollection, Superseded
  <2>4. PhaseKept
    BY <1>1, <1>4, <2>1, <2>2, ToPhase DEF EnterCollection
  <2>5. QED
    BY <1>2, <2>3, <2>4
<1>10. CASE \E saved \in BOOLEAN : FailRun(op, saved)
  <2>1. PhaseKept
    BY <1>1, <1>10, ToPhase DEF FailRun
  <2>2. RowsKept
    BY <1>1, <1>10, FinishLife DEF FailRun
  <2>3. QED
    BY <1>2, <2>1, <2>2
<1>11. CASE UNCHANGED <<run, plan>> /\ \E pc \in RunnerPC : To(op, pc) /\
                \/ pc \in {"next", "closePrep"}
                \/ pc \in {"discover", "failPrep", "failRun"} /\ runner[op].pc \in {"claim", "discover", "failPrep"}
                \/ pc \in {"settle", "failCollect"} /\ runner[op].pc \in {"collect", "settle"}
  BY <1>1, <1>2, <1>11, ToPhase
<1>12. \/ ClaimHolds(op) \/ CollectEnds(op) \/ Settle(op) \/ SettleFails(op) \/ GroupFails(op)
       \/ \E late \in BOOLEAN : CollectFails(op, late)
       \/ \E saved \in BOOLEAN : FailPrep(op, saved)
       \/ \E saved \in BOOLEAN : ClosePrep(op, saved)
       => UNCHANGED <<run, plan>> /\ \E pc \in RunnerPC : To(op, pc) /\
                \/ pc \in {"next", "closePrep"}
                \/ pc \in {"discover", "failPrep", "failRun"} /\ runner[op].pc \in {"claim", "discover", "failPrep"}
                \/ pc \in {"settle", "failCollect"} /\ runner[op].pc \in {"collect", "settle"}
  BY DEF ClaimHolds, CollectEnds, Settle, SettleFails, GroupFails, CollectFails, FailPrep, ClosePrep, RunnerPC
<1>13. CASE \E i \in Items : NextGroup(op, i)
  <2> PICK i \in Items : NextGroup(op, i)
    BY <1>13
  <2>1. runner'[op] = [pc |-> "claim", item |-> i, todo |-> runner[op].todo \ {i}] /\ i \in runner[op].todo
        /\ UNCHANGED <<run, plan>>
    BY <1>1 DEF NextGroup
  <2>2. \A j \in Items : ~Collecting(op, j)' /\ (Waiting(op, j)' => Waiting(op, j))
    BY <1>1, <2>1 DEF Waiting, Collecting
  <2>3. PhaseKept
    BY <2>1, <2>2, WaitingNotCollecting DEF PhaseStep
  <2>4. QED
    BY <1>2, <2>1, <2>3
<1>14. CASE RunnerExits(op) \/ RunnerStops(op)
  <2>1. UNCHANGED run /\ \E pc \in {"done", "stopped"} : RunnerEnds(op, pc)
    BY <1>14 DEF RunnerExits, RunnerStops
  <2>2. \A j \in Items : ~Collecting(op, j)' /\ ~Waiting(op, j)'
    BY <1>1, <2>1 DEF Waiting, Collecting, RunnerEnds, PlanEnds, NoPlan, NoRunner
  <2>3. QED
    BY <1>2, <2>1, <2>2 DEF PhaseStep
<1>15. CASE \E outcome \in Outcomes : StageWrites(op, outcome)
  <2> PICK outcome \in Outcomes : StageWrites(op, outcome)
    BY <1>15
  <2>1. Cur(op) \in Items /\ CurRun(op) \in Runs /\ Collecting(op, Cur(op)) /\ UNCHANGED <<plan, runner>>
    BY <1>3 DEF StageWrites, CurRun, Cur, Runs, Collecting
  <2>2. /\ \A i \in Items : i = Cur(op) => ~Waiting(op, i)'
        /\ run[CurRun(op)].state # "none"
    BY <2>1, WaitingNotCollecting, RunInHand, PhaseIdle DEF CurRun
  <2>3. run' = [run EXCEPT ![CurRun(op)] = StageRow(run[CurRun(op)], outcome)]
    BY DEF StageWrites
  <2>4. \A r \in Runs : r = CurRun(op) => Updated(r)
    BY <1>1, <2>1, <2>2, <2>3 DEF Updated, StageRow, RunRow, Outcomes, CurRun, Cur
  <2>5. RowsKept
    BY <1>1, <2>3, <2>4
  <2>6. PhaseKept
    BY <2>1, PhaseIdle
  <2>7. QED
    BY <1>2, <2>5, <2>6
<1>16. QED
  BY <1>2, <1>5, <1>6, <1>7, <1>8, <1>9, <1>10, <1>11, <1>12, <1>13, <1>14, <1>15 DEF RunnerStep, RunnerAdvances

LEMMA EnvironmentLife ==
    ASSUME LifeInv, Environment
    PROVE  /\ \A r \in Runs : run'[r] = run[r] \/ Updated(r)
           /\ \A o \in Ops, i \in Items : PhaseStep(o, i)
<1>1. UNCHANGED <<plan, runner>>
  BY DEF Environment, OrphanWrites, EditRead, EditWrite, EditBank, LeaseExpires
<1>2. \A o \in Ops, i \in Items : PhaseStep(o, i)
  BY <1>1, PhaseIdle
<1>3. CASE UNCHANGED run
  BY <1>2, <1>3
<1>4. CASE \E r \in Runs, outcome \in Outcomes, gone \in BOOLEAN : OrphanWrites(r, outcome, gone)
  <2> PICK r \in Runs, outcome \in Outcomes, gone \in BOOLEAN : OrphanWrites(r, outcome, gone)
    BY <1>4
  <2>1. run' = [run EXCEPT ![r] = StageRow(run[r], outcome)] /\ run \in [Runs -> RunRow] /\ r \in orphans
    BY DEF OrphanWrites, LifeInv, Shape, TypeOK
  <2>2. r[1] \in Ops /\ r[2] \in Items /\ r = <<r[1], r[2]>>
    BY DEF Runs
  <2>3. ~Waiting(r[1], r[2])'
    BY <1>1, <2>1, <2>2, PhaseIdle DEF LifeInv, WaitingRunIsFresh
  <2>4. run[r].state # "none"
    BY <2>1 DEF LifeInv, OrphansAreRuns
  <2>5. Updated(r)
    BY <2>1, <2>3, <2>4 DEF Updated, StageRow, RunRow, Outcomes
  <2>6. QED
    BY <1>2, <2>1, <2>5
<1>5. QED
  BY <1>3, <1>4 DEF Environment, EditRead, EditWrite, EditBank, LeaseExpires, rows
LEMMA StepLife ==
    ASSUME LifeInv, Next
    PROVE  /\ \A r \in Runs : run'[r] = run[r] \/ Inserted(r) \/ Updated(r) \/ Entered(r) \/ Superseded(r)
           /\ \A op \in Ops, i \in Items : PhaseStep(op, i)
BY RequestLife, RunnerLife, EnvironmentLife DEF Next

\* A plan only ever names one run to retry, and its items only get fewer.
LEMMA PlanFrame ==
    ASSUME LifeInv, Next, NEW op \in Ops
    PROVE  /\ plan'[op].pc \in {"idle", "read"} => plan[op].pc \in {"idle", "read"}
           /\ plan'[op].retryOf # None =>
                \/ plan'[op].retryOf = plan[op].retryOf /\ plan'[op].items \subseteq plan[op].items
                \/ \E old \in Runs : /\ Retryable(run[old])
                                     /\ plan'[op].retryOf = old
                                     /\ plan'[op].items \subseteq {old[2]}
<1>1. plan \in [Ops -> PlanRow]
  BY DEF LifeInv, Shape, TypeOK
<1>2. CASE plan'[op] = plan[op]
  BY <1>2
<1>3. ASSUME NEW pc \in {"done", "lost"}, PlanEnds(op, pc)
      PROVE  plan'[op].pc = pc /\ plan'[op].retryOf = None
  BY <1>1, <1>3 DEF PlanEnds, NoPlan
<1>4. CASE RequestStep(op)
  <2>1. ASSUME NEW its, NEW explicit, NEW held, Preflight(op, its, explicit, held, None)
        PROVE  plan'[op].retryOf = None
    BY <1>1, <2>1 DEF Preflight
  <2>2. CASE \E its, explicit, held : plan[op].pc = "idle" /\ Preflight(op, its, explicit, held, None)
    BY <2>1, <2>2
  <2>3. CASE \E old \in Runs : ReadRetry(op, old)
    BY <1>1, <2>3 DEF ReadRetry, Preflight
  <2>4. CASE RegisterRuns(op)
    <3> DEFINE reserved == {i \in plan[op].items : Reservable(i)}
    <3>1. CASE plan' = [plan EXCEPT ![op] = [plan[op] EXCEPT !.items = reserved, !.pc = "launch"]]
      BY <1>1, <3>1 DEF PlanRow
    <3>2. QED
      BY <1>3, <2>4, <3>1 DEF RegisterRuns
  <2>5. CASE Launch(op)
    BY <1>1, <2>5 DEF Launch, PlanRow
  <2>6. CASE LaunchFails(op) \/ ServerStops(op)
    BY <1>3, <2>6 DEF LaunchFails, ServerStops
  <2>7. (\E its \in SUBSET Items \ {{}}, explicit \in BOOLEAN, held \in SUBSET Items :
            held \subseteq its /\ ReadScope(op, its, explicit, held))
          => \E its, explicit, held : plan[op].pc = "idle" /\ Preflight(op, its, explicit, held, None)
    BY DEF ReadScope
  <2>8. QED
    BY <1>4, <2>2, <2>3, <2>4, <2>5, <2>6, <2>7 DEF RequestStep
<1>5. CASE RunnerStep(op)
  <2>1. plan[op].pc = "done" /\ plan'[op].pc = "done"
    BY <1>5, RunnerFrame DEF LifeInv, RunnerFollowsRequest, NoRunner
  <2>2. CASE \E i \in Items, route \in Routes : Repair(op, i, route)
    BY <1>1, <2>1, <2>2 DEF Repair, PlanRow
  <2>3. runner[op].pc = "discover" => Cur(op) \in Items
    BY DEF LifeInv, Shape, RunnerHasItem, Cur
  <2>4. QED
    BY <1>2, <1>3, <1>5, <2>1, <2>2, <2>3 DEF RunnerStep, RunnerAdvances, NextGroup, RunnerExits, ClaimLost, ClaimStale,
       ClaimHolds, SkipGroup, RetireScope, EnterCollection, EnterRefused, CollectEnds, CollectFails, Settle,
       SettleFails, GroupFails, FailPrep, FailRun, ClosePrep, StageWrites, RunnerStops, RunnerEnds
<1>6. CASE Environment
  BY <1>2, <1>6 DEF Environment, OrphanWrites, EditRead, EditWrite, EditBank, LeaseExpires
<1>7. CASE \E o \in Ops \ {op} : RequestStep(o) \/ RunnerStep(o)
  <2> PICK o \in Ops \ {op} : RequestStep(o) \/ RunnerStep(o)
    BY <1>7
  <2>1. CASE RunnerStep(o)
    <3>1. Shape
      BY DEF LifeInv
    <3>2. plan'[op] = plan[op]
      BY <2>1, <3>1, RunnerFrame
    <3>3. QED
      BY <1>2, <3>2
  <2>2. CASE RequestStep(o)
    <3>1. CASE RegisterRuns(o)
      BY <1>1, <1>2, <3>1 DEF RegisterRuns, PlanEnds
    <3>2. CASE Launch(o) \/ LaunchFails(o) \/ ServerStops(o)
      BY <1>1, <1>2, <3>2 DEF Launch, LaunchFails, ServerStops, PlanEnds
    <3>3. CASE \E its, explicit, held, retryOf : Preflight(o, its, explicit, held, retryOf)
      BY <1>1, <1>2, <3>3 DEF Preflight
    <3>4. QED
      BY <2>2, <3>1, <3>2, <3>3 DEF RequestStep, ReadScope, ReadRetry
  <2>3. QED
    BY <2>1, <2>2
<1>8. QED
  BY <1>4, <1>5, <1>6, <1>7 DEF Next

\* Only the run being collected can get a worker that runs on alone.
LEMMA OrphanFrame ==
    ASSUME LifeInv, Next
    PROVE  \A r \in orphans' : r \in orphans \/ Collecting(r[1], r[2])
<1>1. ASSUME NEW op \in Ops, runner[op].pc = "collect"
      PROVE  Collecting(CurRun(op)[1], CurRun(op)[2])
  BY <1>1 DEF Collecting, CurRun, Cur
<1>2. CASE orphans' \subseteq orphans
  BY <1>2
<1>3. CASE \E op \in Ops : runner[op].pc = "collect" /\ orphans' \subseteq orphans \cup {CurRun(op)}
  BY <1>1, <1>3
<1>4. QED
  BY ZenonT(40), <1>2, <1>3 DEF Next, RequestStep, ReadScope, ReadRetry, RegisterRuns, Launch, LaunchFails, ServerStops,
     RunnerStep, RunnerAdvances, NextGroup, RunnerExits, ClaimLost, ClaimStale, ClaimHolds, SkipGroup, RetireScope,
     EnterCollection, EnterRefused, CollectEnds, CollectFails, Settle, SettleFails, GroupFails, FailPrep, FailRun,
     ClosePrep, StageWrites, RunnerStops, Environment, OrphanWrites, EditRead, EditWrite, EditBank, LeaseExpires

\* What describe_run_retry_action accepts nobody works on any more.
LEMMA RetryableIsOver ==
    ASSUME LifeInv, NEW r \in Runs, Retryable(run[r])
    PROVE  Over(r)
<1>1. r[1] \in Ops /\ r[2] \in Items /\ r = <<r[1], r[2]>>
  BY DEF Runs
<1>2. run[r].state \in {"failed", "completed"} /\ run[r].kind = "catalog"
  BY DEF Retryable
<1>3. ~Waiting(r[1], r[2])
  BY <1>1, <1>2 DEF LifeInv, WaitingRunIsFresh
<1>4. ~Collecting(r[1], r[2])
  BY <1>1, <1>2 DEF LifeInv, CollectingRunIsLive
<1>5. QED
  BY <1>2, <1>3, <1>4 DEF Over

\* A run that enters collection was waiting.
LEMMA EnteredWasWaiting ==
    ASSUME LifeInv, NEW r \in Runs, Entered(r)
    PROVE  Waiting(r[1], r[2]) /\ run[r].state = "started" /\ run[r].retriedBy = None
           /\ run[r].retryOf = plan[r[1]].retryOf /\ r[2] \in plan[r[1]].items
<1>1. r[1] \in Ops /\ r[2] \in Items /\ r = <<r[1], r[2]>>
  BY DEF Runs
<1>2. Waiting(r[1], r[2])
  BY DEF Entered, Waiting
<1>3. QED
  BY <1>1, <1>2 DEF LifeInv, WaitingRunIsFresh

LEMMA SupersededWasOver ==
    ASSUME LifeInv, NEW r \in Runs, Superseded(r)
    PROVE  Over(r)
BY NoneAssumption DEF Superseded, LifeInv, RetryTargetIsOver, Runs

\* A run that is inserted was not there.
LEMMA InsertedWasNot ==
    ASSUME LifeInv, NEW r \in Runs, Inserted(r)
    PROVE  run[r] = NoRow /\ run'[r].state # "none" /\ run'[r].state # "retried"
           /\ run'[r].retriedBy = None /\ ~run'[r].scope
<1>1. r[1] \in Ops /\ r[2] \in Items /\ r = <<r[1], r[2]>>
  BY DEF Runs
<1>2. run[r] = NoRow
  BY <1>1 DEF LifeInv, NoRunYet, Inserted
<1>3. QED
  BY <1>2 DEF Inserted, SkippedRun, RegisteredRun, NoRow

\* Once over, a run stays over.
LEMMA OverKept ==
    ASSUME LifeInv, Next, NEW r \in Runs, Over(r)
    PROVE  Over(r)'
<1>1. r[1] \in Ops /\ r[2] \in Items /\ r = <<r[1], r[2]>>
  BY DEF Runs
<1>2. run[r].state # "none" /\ ~Waiting(r[1], r[2]) /\ ~Collecting(r[1], r[2])
  BY DEF Over
<1>3. ~Inserted(r) /\ ~Entered(r)
  BY <1>2, InsertedWasNot, EnteredWasWaiting DEF NoRow
<1>4. PhaseStep(r[1], r[2])
  BY <1>1, StepLife
<1>5. ~Waiting(r[1], r[2])' /\ ~Collecting(r[1], r[2])'
  BY <1>1, <1>2, <1>3, <1>4 DEF PhaseStep
<1>6. run'[r].state # "none"
  <2>1. run[r] \in RunRow
    BY DEF LifeInv, Shape, TypeOK
  <2>2. \A new : SupersededBy(run[r], new).state # "none"
    BY <1>2, <2>1 DEF SupersededBy, RunRow
  <2>3. QED
    BY <1>2, <1>3, <2>2, StepLife DEF Updated, Superseded
<1>7. QED
  BY <1>5, <1>6 DEF Over

\* What a step leaves of the links of a run that had been linked or scoped.
LEMMA LinkKept ==
    ASSUME LifeInv, Next, NEW r \in Runs
    PROVE  /\ run[r].state # "none" => run'[r].state # "none"
           /\ run[r].state # "none" => run'[r].retryOf = run[r].retryOf
           /\ run[r].scope => run'[r].scope
           /\ run[r].retriedBy # None => run'[r].retriedBy = run[r].retriedBy
           /\ ~run[r].scope /\ run'[r].scope => run[r].state = "started"
<1>1. run[r] \in RunRow
  BY DEF LifeInv, Shape, TypeOK
<1>2. CASE run'[r] = run[r] \/ Updated(r)
  BY <1>2 DEF Updated
<1>3. CASE Inserted(r)
  BY <1>3, InsertedWasNot, NoneAssumption DEF NoRow
<1>4. CASE Entered(r)
  BY <1>1, <1>4, EnteredWasWaiting DEF Entered, CollectingRun, RunRow
<1>5. CASE Superseded(r)
  <2>1. run[r].state # "none"
    BY <1>5, SupersededWasOver DEF Over
  <2>2. QED
    BY <1>1, <1>5, <2>1 DEF Superseded, SupersededBy, RunRow
<1>6. QED
  BY <1>2, <1>3, <1>4, <1>5, StepLife

LEMMA NextLife == LifeInv /\ [Next]_vars => LifeInv'
<1> SUFFICES ASSUME LifeInv, [Next]_vars PROVE LifeInv'
  OBVIOUS
<1>1. CASE UNCHANGED vars
  <2>1. Shape' /\ RunnerFollowsRequest'
    BY <1>1 DEF vars, LifeInv, Shape, TypeOK, RunnerHasItem, ItemTaken, EditorHasRow, BusyHasOwner,
       RunnerFollowsRequest
  <2>2. NoRunYet' /\ ScopedIsRun' /\ OrphansAreRuns' /\ RetryLinkSound'
    BY <1>1 DEF vars, LifeInv, NoRunYet, ScopedIsRun, OrphansAreRuns, RetryLinkSound
  <2>3. WaitingRunIsFresh' /\ CollectingRunIsLive'
    BY <1>1 DEF vars, LifeInv, WaitingRunIsFresh, CollectingRunIsLive, Waiting, Collecting
  <2>4. RetryTargetIsOver' /\ SupersededIsOver'
    BY <1>1 DEF vars, LifeInv, RetryTargetIsOver, SupersededIsOver, Over, Waiting, Collecting
  <2>. QED BY <2>1, <2>2, <2>3, <2>4 DEF LifeInv
<1>2. CASE Next
  <2>1. Shape' /\ RunnerFollowsRequest'
    BY <1>2, NextShape, NextFollows DEF LifeInv
  <2>2. \A op \in Ops, i \in Items : <<op, i>> \in Runs /\ <<op, i>>[1] = op /\ <<op, i>>[2] = i
    BY DEF Runs
  <2>3. run \in [Runs -> RunRow]
    BY DEF LifeInv, Shape, TypeOK
  <2>4. NoRunYet'
    <3> SUFFICES ASSUME NEW op \in Ops, NEW i \in Items, plan'[op].pc \in {"idle", "read"}
                 PROVE  run'[<<op, i>>] = NoRow /\ <<op, i>> \notin orphans'
      BY DEF NoRunYet
    <3>1. plan[op].pc \in {"idle", "read"}
      BY <1>2, PlanFrame
    <3>2. run[<<op, i>>] = NoRow /\ NoRow.state = "none" /\ <<op, i>> \notin orphans
      <4>1. run[<<op, i>>] = NoRow /\ <<op, i>> \notin orphans
        BY <3>1 DEF LifeInv, NoRunYet
      <4>2. NoRow.state = "none"
        BY DEF NoRow
      <4>3. QED
        BY <4>1, <4>2
    <3>3. ~Waiting(op, i) /\ ~Collecting(op, i)
      BY <3>1, RunInHand
    <3>4. ~Updated(<<op, i>>) /\ ~Inserted(<<op, i>>) /\ ~Entered(<<op, i>>) /\ ~Superseded(<<op, i>>)
      BY <2>2, <3>2, <3>3, EnteredWasWaiting, SupersededWasOver DEF Updated, Inserted, Over
    <3>5. QED
      BY <1>2, <2>2, <3>2, <3>3, <3>4, StepLife, OrphanFrame
  <2>5. OrphansAreRuns'
    <3> SUFFICES ASSUME NEW r \in orphans' PROVE run'[r].state # "none"
      BY DEF OrphansAreRuns
    <3>1. r \in Runs
      BY <2>1 DEF Shape, TypeOK
    <3>2. run[r].state # "none"
      <4>1. CASE r \in orphans
        BY <4>1 DEF LifeInv, OrphansAreRuns
      <4>2. CASE Collecting(r[1], r[2])
        BY <3>1, <4>2, RunInHand DEF Runs
      <4>3. QED
        BY <1>2, <4>1, <4>2, OrphanFrame
    <3>3. QED
      BY <1>2, <3>1, <3>2, LinkKept
  <2>6. WaitingRunIsFresh'
    <3> SUFFICES ASSUME NEW op \in Ops, NEW i \in Items, Waiting(op, i)'
                 PROVE  /\ run'[<<op, i>>].state = "started"
                        /\ ~run'[<<op, i>>].scope
                        /\ run'[<<op, i>>].retriedBy = None
                        /\ run'[<<op, i>>].retryOf = plan'[op].retryOf
                        /\ i \in plan'[op].items
                        /\ <<op, i>> \notin orphans'
      BY DEF WaitingRunIsFresh
    <3>1. PhaseStep(op, i)
      BY <1>2, StepLife
    <3>2. ~Collecting(op, i) /\ plan'[op].retryOf = plan[op].retryOf /\ i \in plan'[op].items
      BY <3>1 DEF PhaseStep
    <3>3. CASE Waiting(op, i)
      <4>1. /\ run[<<op, i>>].state = "started" /\ ~run[<<op, i>>].scope /\ run[<<op, i>>].retriedBy = None
            /\ run[<<op, i>>].retryOf = plan[op].retryOf /\ <<op, i>> \notin orphans
        BY <3>3 DEF LifeInv, WaitingRunIsFresh
      <4>2. ~Inserted(<<op, i>>) /\ ~Superseded(<<op, i>>)
        BY <2>2, <3>3, <4>1, RunInHand, SupersededWasOver DEF Inserted, Over
      <4>3. ~Updated(<<op, i>>)
        BY <2>2 DEF Updated
      <4>4. ~Entered(<<op, i>>)
        BY <2>1, <2>2 DEF Entered, Waiting, Shape, ItemTaken, RunnerFollowsRequest, NoRunner
      <4>5. QED
        BY <1>2, <2>2, <3>2, <4>1, <4>2, <4>3, <4>4, StepLife, OrphanFrame
    <3>4. CASE Inserted(<<op, i>>) /\ run'[<<op, i>>] = RegisteredRun(plan[op].retryOf)
      <4>1. <<op, i>> \notin orphans
        BY <2>2, <3>4 DEF Inserted, LifeInv, NoRunYet
      <4>2. QED
        BY <1>2, <2>2, <3>2, <3>4, <4>1, OrphanFrame DEF RegisteredRun, NoRow
    <3>5. QED
      BY <3>1, <3>3, <3>4 DEF PhaseStep
  <2>7. CollectingRunIsLive'
    <3> SUFFICES ASSUME NEW op \in Ops, NEW i \in Items, Collecting(op, i)'
                 PROVE  /\ run'[<<op, i>>].state # "none"
                        /\ run'[<<op, i>>].state = "started" \/ run'[<<op, i>>].kind = "worker"
      BY DEF CollectingRunIsLive
    <3>1. PhaseStep(op, i)
      BY <1>2, StepLife
    <3>2. CASE Entered(<<op, i>>)
      BY <2>2, <2>3, <3>2 DEF Entered, CollectingRun, RunRow
    <3>3. CASE Collecting(op, i) /\ ~Entered(<<op, i>>)
      <4>1. run[<<op, i>>].state # "none"
            /\ (run[<<op, i>>].state = "started" \/ run[<<op, i>>].kind = "worker")
        BY <3>3 DEF LifeInv, CollectingRunIsLive
      <4>2. ~Inserted(<<op, i>>) /\ ~Superseded(<<op, i>>)
        BY <2>2, <3>3, RunInHand, SupersededWasOver DEF Inserted, Over
      <4>3. CASE Updated(<<op, i>>)
        BY <2>2, <4>3 DEF Updated
      <4>4. QED
        BY <1>2, <2>2, <3>3, <4>1, <4>2, <4>3, StepLife
    <3>4. QED
      BY <3>1, <3>2, <3>3 DEF PhaseStep
  <2>8. RetryTargetIsOver'
    <3> SUFFICES ASSUME NEW op \in Ops, plan'[op].retryOf # None
                 PROVE  \E old \in Runs : /\ old = plan'[op].retryOf
                                          /\ Over(old)'
                                          /\ plan'[op].items \subseteq {old[2]}
      BY DEF RetryTargetIsOver, Over
    <3>1. CASE plan'[op].retryOf = plan[op].retryOf /\ plan'[op].items \subseteq plan[op].items
      <4>1. plan[op].retryOf \in Runs
        BY <3>1 DEF LifeInv, Shape, TypeOK, PlanRow
      <4>2. Over(plan[op].retryOf) /\ plan[op].items \subseteq {plan[op].retryOf[2]}
        BY <3>1 DEF LifeInv, RetryTargetIsOver
      <4>3. \A old \in Runs : old = plan[op].retryOf => Over(old)'
        BY <1>2, <4>2, OverKept
      <4>4. QED
        BY <3>1, <4>1, <4>2, <4>3
    <3>2. CASE \E old \in Runs : /\ Retryable(run[old])
                                 /\ plan'[op].retryOf = old
                                 /\ plan'[op].items \subseteq {old[2]}
      BY <1>2, <3>2, RetryableIsOver, OverKept
    <3>3. QED
      BY <1>2, <3>1, <3>2, PlanFrame
  <2>9. SupersededIsOver'
    <3> SUFFICES ASSUME NEW r \in Runs, run'[r].state = "retried" \/ run'[r].retriedBy # None
                 PROVE  Over(r)'
      BY DEF SupersededIsOver
    <3>1. CASE run'[r] = run[r] \/ Updated(r)
      BY <1>2, <3>1, OverKept DEF LifeInv, SupersededIsOver, Updated
    <3>2. CASE Superseded(r)
      BY <1>2, <3>2, SupersededWasOver, OverKept
    <3>3. ~Inserted(r)
      BY InsertedWasNot
    <3>4. ~Entered(r)
      BY ZenonT(40), <2>3, EnteredWasWaiting DEF Entered, CollectingRun, RunRow
    <3>5. QED
      BY <1>2, <3>1, <3>2, <3>3, <3>4, StepLife
  <2>10. RetryLinkSound'
    <3> SUFFICES ASSUME NEW r \in Runs, run'[r].retriedBy # None
                 PROVE  /\ run'[run'[r].retriedBy].retryOf = r
                        /\ run'[run'[r].retriedBy].scope
                        /\ run'[r].retriedBy[2] = r[2]
      BY DEF RetryLinkSound
    <3>1. CASE run[r].retriedBy # None
      <4> DEFINE new == run[r].retriedBy
      <4>1. run'[r].retriedBy = new
        BY <1>2, <3>1, LinkKept
      <4>2. new \in Runs /\ run[new].retryOf = r /\ run[new].scope /\ new[2] = r[2]
        BY <2>3, <3>1 DEF LifeInv, RetryLinkSound, RunRow
      <4>3. run[new].state # "none"
        BY <4>2 DEF LifeInv, ScopedIsRun
      <4>4. QED
        BY <1>2, <4>1, <4>2, <4>3, LinkKept
    <3>2. CASE run[r].retriedBy = None
      <4>1. Superseded(r)
        BY <1>2, <2>3, <3>2, StepLife, InsertedWasNot DEF Updated, Entered, CollectingRun, RunRow
      <4>2. PICK op \in Ops : /\ r = plan[op].retryOf
                              /\ Cur(op) \in Items
                              /\ Entered(CurRun(op))
                              /\ run'[r] = SupersededBy(run[r], CurRun(op))
        BY <4>1 DEF Superseded
      <4>3. CurRun(op) \in Runs /\ CurRun(op)[1] = op /\ CurRun(op)[2] = Cur(op)
        BY <4>2 DEF CurRun, Runs
      <4>4. run'[r].retriedBy = CurRun(op)
        BY <2>3, <3>2, <4>2 DEF SupersededBy, RunRow
      <4>5. run[CurRun(op)].retryOf = r /\ Cur(op) \in plan[op].items
        BY <4>2, <4>3, EnteredWasWaiting
      <4>6. Cur(op) = r[2]
        BY <4>2, <4>5, NoneAssumption DEF LifeInv, RetryTargetIsOver, Runs
      <4>7. run'[CurRun(op)].retryOf = r /\ run'[CurRun(op)].scope
        BY <2>3, <4>2, <4>3, <4>5 DEF Entered, CollectingRun, RunRow
      <4>8. QED
        BY <4>3, <4>4, <4>6, <4>7
    <3>3. QED
      BY <3>1, <3>2
  <2>11. ScopedIsRun'
    <3>1. \A r \in Runs : run'[r].scope => run[r].state # "none"
      BY <1>2, LinkKept DEF LifeInv, ScopedIsRun
    <3>2. QED
      BY <1>2, <3>1, LinkKept DEF ScopedIsRun
  <2>12. QED
    BY <2>1, <2>4, <2>5, <2>6, <2>7, <2>8, <2>9, <2>10, <2>11 DEF LifeInv
<1>3. QED
  BY <1>1, <1>2

\* A run is superseded only when nobody works on it any more.
THEOREM RetriedAttemptsAreOver == Spec => []RetriedAttemptIsOver
<1>1. LifeInv => RetriedAttemptIsOver
  <2> SUFFICES ASSUME LifeInv, NEW op \in Ops, NEW i \in Items, Handling(op, i),
                      run[<<op, i>>].state = "retried" \/ run[<<op, i>>].retriedBy # None
               PROVE  FALSE
    BY DEF RetriedAttemptIsOver
  <2>1. <<op, i>> \in Runs
    BY DEF Runs
  <2>2. ~Waiting(op, i) /\ ~Collecting(op, i)
    BY <2>1 DEF LifeInv, SupersededIsOver, Over
  <2>3. i \notin runner[op].todo /\ runner[op].item = i /\ runner[op].pc # "closePrep"
    BY <2>2 DEF Handling, Waiting
  <2>4. runner[op] \in RunnerRow /\ runner[op].pc \notin {"none", "next", "done", "stopped"}
    BY <2>3 DEF LifeInv, Shape, TypeOK, RunnerHasItem
  <2>5. QED
    BY <2>2, <2>3, <2>4 DEF Waiting, Collecting, RunnerRow, RunnerPC
<1>2. QED
  BY <1>1, InitLife, NextLife, PTL DEF Spec

\* The retry link names the run that replaced this one.
THEOREM RetryLinksSound == Spec => []RetryLinkSound
<1>1. LifeInv => RetryLinkSound
  BY DEF LifeInv
<1>2. QED
  BY <1>1, InitLife, NextLife, PTL DEF Spec

\* The link is written once, and the upsert that enters collection finds the
\* run as it was registered: it never brings an ended run back.
THEOREM RetryLinksWrittenOnce == Spec => RetryLinkWriteOnce
<1>1. LifeInv /\ [Next]_vars
        => [\A r \in Runs : run[r].retriedBy # None => run'[r].retriedBy = run[r].retriedBy]_vars
  BY LinkKept
<1>2. QED
  BY <1>1, InitLife, NextLife, PTL DEF Spec, RetryLinkWriteOnce

THEOREM EndedRunsStayEnded == Spec => NoResurrection
<1>1. LifeInv /\ [Next]_vars
        => [\A r \in Runs : (~run[r].scope /\ run'[r].scope) => run[r].state = "started"]_vars
  BY LinkKept
<1>2. QED
  BY <1>1, InitLife, NextLife, PTL DEF Spec, NoResurrection

-----------------------------------------------------------------------------
(* What a preparation state says of its run *)

\* What a preparation state p of item i says of the run of the operation it
\* names.  It also has to hold of a state that an edit has read and has yet to
\* write back, however late.
BusyHasRun(p, i) ==
    p.status \in Busy => p.op \in Ops /\ run[<<p.op, i>>].state # "none"

SkippedForGood(p, i) ==
    p.status = "skipped" /\ ~p.retryable =>
        /\ p.op \in Ops
        /\ Over(<<p.op, i>>)
        /\ run[<<p.op, i>>].state = "completed"
        /\ ~run[<<p.op, i>>].partial
        /\ ~run[<<p.op, i>>].scope

\* The failure of the run is about to be written.
FailureToWrite(op, i) == runner[op].pc = "failRun" /\ runner[op].item = i

RetryOpen(p, i) ==
    p.retryable =>
        /\ p.op \in Ops
        /\ \/ <<p.op, i>> \in adrift
           \/ FailureToWrite(p.op, i)
           \/ /\ Over(<<p.op, i>>)
              /\ Retryable(run[<<p.op, i>>]) \/ run[<<p.op, i>>].state = "retried"

Sound(p, i) == BusyHasRun(p, i) /\ SkippedForGood(p, i) /\ RetryOpen(p, i)

RecordsSound ==
    \A i \in Items, p \in PrepRow : p = prep[i] \/ p = editor[i].prep => Sound(p, i)

\* A stage that may still write belongs to a run that did enter collection.
OrphansAreScoped == \A r \in orphans : run[r].scope

\* A run that waits is of the type that may be retried; one that collects has
\* a scope.
PhaseFitsRun ==
    \A op \in Ops, i \in Items : /\ Waiting(op, i) => run[<<op, i>>].kind = "catalog"
                                 /\ Collecting(op, i) => run[<<op, i>>].scope

RecordsInv == LifeInv /\ RecordsSound /\ OrphansAreScoped /\ PhaseFitsRun

LEMMA InitRecords == Init => RecordsInv
<1> SUFFICES ASSUME Init PROVE RecordsInv
  OBVIOUS
<1>1. \A i \in Items : prep[i] = NoPrep /\ editor[i].prep = NoPrep
  BY DEF Init, NoEdit
<1>2. \A i \in Items : Sound(NoPrep, i)
  BY DEF Sound, BusyHasRun, SkippedForGood, RetryOpen, NoPrep, Busy
<1>3. OrphansAreScoped
  BY DEF Init, OrphansAreScoped
<1>4. PhaseFitsRun
  BY DEF Init, PhaseFitsRun, Waiting, Collecting, NoPlan, NoRunner
<1>5. QED
  BY <1>1, <1>2, <1>3, <1>4, InitLife DEF RecordsInv, RecordsSound

\* A run that is given up stays given up.
LEMMA AdriftGrows ==
    ASSUME Next
    PROVE  adrift \subseteq adrift'
<1>1. CASE \E op \in Ops : RequestStep(op)
  <2> PICK op \in Ops : RequestStep(op)
    BY <1>1
  <2>1. CASE ServerStops(op)
    BY <2>1 DEF ServerStops
  <2>2. CASE ~ServerStops(op)
    BY <2>2 DEF RequestStep, ReadScope, ReadRetry, RegisterRuns, Launch, LaunchFails, history
  <2>3. QED
    BY <2>1, <2>2
<1>2. CASE \E op \in Ops : RunnerAdvances(op)
  <2> PICK op \in Ops : RunnerAdvances(op)
    BY <1>2
  <2>1. CASE \E saved \in BOOLEAN : FailRun(op, saved)
    BY <2>1 DEF FailRun
  <2>2. CASE UNCHANGED adrift
    BY <2>2
  <2>3. QED
    BY ZenonT(40), <2>1, <2>2 DEF RunnerAdvances, NextGroup, RunnerExits, ClaimLost, ClaimStale, ClaimHolds, SkipGroup,
       RetireScope, EnterCollection, EnterRefused, CollectEnds, CollectFails, Settle, SettleFails, GroupFails,
       FailPrep, ClosePrep, history
<1>3. CASE \E op \in Ops : RunnerStops(op) \/ \E outcome \in Outcomes : StageWrites(op, outcome)
  BY <1>3 DEF RunnerStops, StageWrites, history
<1>4. CASE Environment
  BY <1>4 DEF Environment, OrphanWrites, EditRead, EditWrite, EditBank, LeaseExpires, history
<1>5. QED
  BY <1>1, <1>2, <1>3, <1>4 DEF Next, RunnerStep

\* A run row is written by the request or the runner that has the run in hand,
\* by the registration, by the supersession or by a detached stage.
LEMMA WriterOfRun ==
    ASSUME LifeInv, Next, NEW r \in Runs
    PROVE  \/ run'[r] = run[r]
           \/ Waiting(r[1], r[2]) \/ Collecting(r[1], r[2])
           \/ Inserted(r) \/ Superseded(r)
           \/ r \in orphans /\ r \in adrift'
<1> USE DEF rows, history
<1> DEFINE Own == Waiting(r[1], r[2]) \/ Collecting(r[1], r[2])
<1>1. run \in [Runs -> RunRow] /\ runner \in [Ops -> RunnerRow] /\ r = <<r[1], r[2]>>
  BY DEF LifeInv, Shape, TypeOK, Runs
<1>2. ASSUME NEW op \in Ops, r = CurRun(op),
             runner[op].pc \in {"claim", "discover", "failRun", "failCollect", "collect"}
      PROVE  Own
  BY <1>1, <1>2 DEF CurRun, Cur, Waiting, Collecting
<1>3. ASSUME NEW op \in Ops, NEW state, NEW partial, Finish(op, state, partial), run'[r] # run[r]
      PROVE  r = CurRun(op)
  BY <1>1, <1>3 DEF Finish
<1>4. CASE \E op \in Ops : RequestStep(op)
  <2> PICK op \in Ops : RequestStep(op)
    BY <1>4
  <2>1. CASE LaunchFails(op)
    BY <1>1, <2>1 DEF LaunchFails, Waiting
  <2>2. CASE RegisterRuns(op)
    <3>1. run'[r] = run[r] \/ (r[1] = op /\ plan[op].pc = "read")
      BY <2>2 DEF RegisterRuns
    <3>2. r[1] = op /\ plan[op].pc = "read" => ~Updated(r)
      BY <1>1 DEF Updated, LifeInv, NoRunYet, NoRow, Runs
    <3>3. QED
      BY <3>1, <3>2, RequestLife
  <2>3. ~LaunchFails(op) /\ ~RegisterRuns(op) => run' = run
    BY DEF RequestStep, ReadScope, ReadRetry, Launch, ServerStops
  <2>4. QED
    BY <2>1, <2>2, <2>3
<1>5. CASE \E op \in Ops : RunnerStep(op)
  <2> PICK op \in Ops : RunnerStep(op)
    BY <1>5
  <2>1. CASE ClaimLost(op) \/ ClaimStale(op) \/ EnterRefused(op)
    BY <1>2, <1>3, <2>1 DEF ClaimLost, ClaimStale, EnterRefused, FinishPreparation
  <2>2. CASE (\E v \in Versions : RetireScope(op, v))
             \/ \E retryable \in BOOLEAN, route \in Routes : SkipGroup(op, retryable, route)
    BY <1>2, <1>3, <2>2 DEF RetireScope, SkipGroup, FinishPreparation
  <2>3. CASE \E route \in Routes : EnterCollection(op, route)
    <3>1. run'[r] = run[r] \/ r = CurRun(op) \/ (r = plan[op].retryOf /\ run'[r] = SupersededBy(run[r], CurRun(op)))
      BY <2>3 DEF EnterCollection
    <3>2. Cur(op) \in Items /\ runner[op].pc = "discover"
      BY <2>3 DEF EnterCollection, Cur, LifeInv, Shape, RunnerHasItem
    <3>3. r # CurRun(op) => Entered(CurRun(op))
      <4>1. runner'[op].pc = "collect" /\ runner'[op].item = Cur(op)
        BY <1>1, <2>3 DEF EnterCollection, To, Cur
      <4>2. CurRun(op) \in Runs /\ CurRun(op)[1] = op /\ CurRun(op)[2] = Cur(op)
        BY <3>2 DEF CurRun, Runs
      <4>3. QED
        BY <2>3, <3>2, <4>1, <4>2 DEF EnterCollection, Entered, Cur
    <3>4. QED
      BY <1>2, <3>1, <3>2, <3>3 DEF Superseded
  <2>4. CASE \E saved \in BOOLEAN : FailRun(op, saved)
    BY <1>2, <1>3, <2>4 DEF FailRun
  <2>5. CASE \E outcome \in Outcomes : StageWrites(op, outcome)
    BY <1>1, <1>2, <2>5 DEF StageWrites
  <2>6. CASE UNCHANGED run
    BY <2>6
  <2>7. QED
    BY <2>1, <2>2, <2>3, <2>4, <2>5, <2>6 DEF RunnerStep, RunnerAdvances, NextGroup, RunnerExits, ClaimHolds, CollectEnds,
       CollectFails, Settle, SettleFails, GroupFails, FailPrep, ClosePrep, RunnerStops
<1>6. CASE Environment
  <2>1. CASE \E s \in Runs, outcome \in Outcomes, gone \in BOOLEAN : OrphanWrites(s, outcome, gone)
    BY <1>1, <2>1 DEF OrphanWrites
  <2>2. QED
    BY <1>6, <2>1 DEF Environment, EditRead, EditWrite, EditBank, LeaseExpires
<1>7. QED
  BY <1>4, <1>5, <1>6 DEF Next

LEMMA OverWritten ==
    ASSUME LifeInv, Next, NEW r \in Runs, Over(r)
    PROVE  run'[r] = run[r] \/ Superseded(r) \/ (r \in orphans /\ r \in adrift')
<1>1. ~Inserted(r)
  BY InsertedWasNot DEF Over, NoRow
<1>2. QED
  BY <1>1, WriterOfRun DEF Over

\* The failure of a run whose preparation failed is written, or given up.
LEMMA FailureWritten ==
    ASSUME LifeInv, Next, NEW op \in Ops, NEW i \in Items, FailureToWrite(op, i)
    PROVE  \/ FailureToWrite(op, i)'
           \/ <<op, i>> \in adrift'
           \/ Over(<<op, i>>)' /\ Retryable(run'[<<op, i>>])
<1> USE DEF rows, history
<1>1. /\ run \in [Runs -> RunRow] /\ runner \in [Ops -> RunnerRow] /\ plan \in [Ops -> PlanRow]
      /\ <<op, i>> \in Runs /\ CurRun(op) = <<op, i>> /\ i \notin runner[op].todo /\ runner[op].pc = "failRun"
      /\ runner[op].item = i
  BY DEF LifeInv, Shape, TypeOK, Runs, FailureToWrite, CurRun, Cur, ItemTaken
<1>2. plan[op].pc = "done" /\ run[<<op, i>>].retriedBy = None
  BY <1>1 DEF LifeInv, RunnerFollowsRequest, NoRunner, WaitingRunIsFresh, Waiting
<1>3. CASE runner'[op] = runner[op]
  BY <1>1, <1>3 DEF FailureToWrite
<1>4. CASE \E saved \in BOOLEAN : FailRun(op, saved)
  <2>1. CASE FailRun(op, TRUE)
    <3>1. run'[<<op, i>>] = FinishedRow(run[<<op, i>>], "failed", TRUE)
      BY <1>1, <2>1 DEF FailRun, Finish
    <3>2. run'[<<op, i>>].state = "failed" /\ run'[<<op, i>>].kind = "catalog" /\ run'[<<op, i>>].retriedBy = None
      BY <1>1, <1>2, <3>1 DEF FinishedRow, RunRow
    <3>3. runner'[op] = [pc |-> "next", todo |-> runner[op].todo, item |-> None] /\ plan' = plan
      BY <1>1, <2>1 DEF FailRun, To
    <3>4. ~Waiting(op, i)' /\ ~Collecting(op, i)'
      BY <1>1, <1>2, <3>3, NoneAssumption DEF Waiting, Collecting
    <3>5. QED
      BY <3>2, <3>4 DEF Over, Retryable
  <2>2. CASE FailRun(op, FALSE)
    BY <1>1, <2>2 DEF FailRun
  <2>3. QED
    BY <1>4, <2>1, <2>2
<1>5. CASE RunnerStops(op)
  <2>1. <<op, i>> \in Unfinished(op)
    BY <1>1, NoneAssumption DEF Unfinished
  <2>2. QED
    BY <1>5, <2>1 DEF RunnerStops
<1>6. CASE \E o \in Ops : RequestStep(o)
  <2> PICK o \in Ops : RequestStep(o)
    BY <1>6
  <2>1. UNCHANGED runner \/ (Launch(o) /\ o # op)
    BY <1>2 DEF RequestStep, ReadScope, ReadRetry, RegisterRuns, Launch, LaunchFails, ServerStops
  <2>2. QED
    BY <1>1, <1>3, <2>1 DEF Launch, StartRunner
<1>7. CASE \E o \in Ops : RunnerStep(o)
  <2> PICK o \in Ops : RunnerStep(o)
    BY <1>7
  <2>1. CASE o # op
    BY <1>3, <2>1, RunnerFrame DEF LifeInv
  <2>2. CASE o = op
    <3>1. \/ \E saved \in BOOLEAN : FailRun(op, saved)
          \/ RunnerStops(op)
      BY <1>1, <2>2 DEF RunnerStep, RunnerAdvances, NextGroup, RunnerExits, ClaimLost, ClaimStale, ClaimHolds, SkipGroup,
         RetireScope, EnterCollection, EnterRefused, CollectEnds, CollectFails, Settle, SettleFails, GroupFails,
         FailPrep, ClosePrep, StageWrites
    <3>2. QED
      BY <1>4, <1>5, <3>1
  <2>3. QED
    BY <2>1, <2>2
<1>8. CASE Environment
  BY <1>3, <1>8 DEF Environment, OrphanWrites, EditRead, EditWrite, EditBank, LeaseExpires
<1>9. QED
  BY <1>6, <1>7, <1>8 DEF Next

\* What a preparation state says of its run stays true.
LEMMA SoundKept ==
    ASSUME RecordsInv, Next, NEW p \in PrepRow, NEW i \in Items, Sound(p, i)
    PROVE  Sound(p, i)'
<1> DEFINE r == <<p.op, i>>
<1>1. LifeInv /\ run \in [Runs -> RunRow] /\ (p.op \in Ops => r \in Runs)
  BY DEF RecordsInv, LifeInv, Shape, TypeOK, Runs
<1>2. BusyHasRun(p, i)'
  <2> SUFFICES ASSUME p.status \in Busy PROVE p.op \in Ops /\ run'[r].state # "none"
    BY DEF BusyHasRun
  <2>1. p.op \in Ops /\ run[r].state # "none"
    BY DEF Sound, BusyHasRun
  <2>2. QED
    BY <1>1, <2>1, LinkKept
<1>3. SkippedForGood(p, i)'
  <2> SUFFICES ASSUME p.status = "skipped", ~p.retryable
               PROVE  /\ p.op \in Ops /\ Over(r)' /\ run'[r].state = "completed"
                      /\ ~run'[r].partial /\ ~run'[r].scope
    BY DEF SkippedForGood
  <2>1. p.op \in Ops /\ Over(r) /\ run[r].state = "completed" /\ ~run[r].partial /\ ~run[r].scope
    BY DEF Sound, SkippedForGood
  <2>2. r \notin orphans
    BY <2>1 DEF RecordsInv, OrphansAreScoped
  <2>3. Superseded(r) => run'[r] = run[r]
    BY <2>1 DEF Superseded, SupersededBy
  <2>4. run'[r] = run[r]
    BY <1>1, <2>1, <2>2, <2>3, OverWritten
  <2>5. Over(r)'
    BY <1>1, <2>1, OverKept
  <2>6. QED
    BY <2>1, <2>4, <2>5
<1>4. RetryOpen(p, i)'
  <2> SUFFICES ASSUME p.retryable
               PROVE  /\ p.op \in Ops
                      /\ \/ r \in adrift'
                         \/ FailureToWrite(p.op, i)'
                         \/ Over(r)' /\ (Retryable(run'[r]) \/ run'[r].state = "retried")
    BY DEF RetryOpen
  <2>1. p.op \in Ops
    BY DEF Sound, RetryOpen
  <2>2. CASE r \in adrift
    BY <2>1, <2>2, AdriftGrows
  <2>3. CASE FailureToWrite(p.op, i)
    BY <1>1, <2>1, <2>3, FailureWritten
  <2>4. CASE Over(r) /\ (Retryable(run[r]) \/ run[r].state = "retried")
    <3>1. Over(r)'
      BY <1>1, <2>1, <2>4, OverKept
    <3>2. run[r] \in RunRow
      BY <1>1, <2>1
    <3>3. \A new : Retryable(SupersededBy(run[r], new)) \/ SupersededBy(run[r], new).state = "retried"
      BY <2>4, <3>2 DEF SupersededBy, Retryable, RunRow
    <3>4. Superseded(r) => Retryable(run'[r]) \/ run'[r].state = "retried"
      BY <3>3 DEF Superseded
    <3>5. QED
      BY <1>1, <2>1, <2>4, <3>1, <3>4, OverWritten
  <2>5. QED
    BY <2>1, <2>2, <2>3, <2>4 DEF Sound, RetryOpen
<1>5. QED
  BY <1>2, <1>3, <1>4 DEF Sound

\* A run that goes on waiting is not written.
LEMMA WaitingRunKept ==
    ASSUME LifeInv, Next, NEW op \in Ops, NEW i \in Items, Waiting(op, i), Waiting(op, i)'
    PROVE  run'[<<op, i>>] = run[<<op, i>>]
<1>1. <<op, i>> \in Runs /\ <<op, i>>[1] = op /\ <<op, i>>[2] = i
  BY DEF Runs
<1>2. LifeInv'
  BY NextLife
<1>3. ~Inserted(<<op, i>>) /\ ~Superseded(<<op, i>>)
  BY <1>1, RunInHand, SupersededWasOver DEF Inserted, Over
<1>4. ~Updated(<<op, i>>)
  BY <1>1 DEF Updated
<1>5. ~Entered(<<op, i>>)
  BY <1>1, <1>2 DEF Entered, Waiting, LifeInv, Shape, ItemTaken, RunnerFollowsRequest, NoRunner
<1>6. QED
  BY <1>1, <1>3, <1>4, <1>5, StepLife

LEMMA NextPhases ==
    ASSUME RecordsInv, Next
    PROVE  OrphansAreScoped' /\ PhaseFitsRun'
<1>1. LifeInv /\ LifeInv' /\ run \in [Runs -> RunRow]
  BY NextLife DEF RecordsInv, LifeInv, Shape, TypeOK
<1>2. \A op \in Ops, i \in Items : <<op, i>> \in Runs /\ <<op, i>>[1] = op /\ <<op, i>>[2] = i
  BY DEF Runs
<1>3. ASSUME NEW op \in Ops, NEW i \in Items, Waiting(op, i)'
      PROVE  run'[<<op, i>>].kind = "catalog"
  <2>1. CASE Waiting(op, i)
    BY <1>1, <1>3, <2>1, WaitingRunKept DEF RecordsInv, PhaseFitsRun
  <2>2. CASE run'[<<op, i>>] = RegisteredRun(plan[op].retryOf)
    BY <2>2 DEF RegisteredRun, NoRow
  <2>3. QED
    BY <1>1, <1>3, <2>1, <2>2, StepLife DEF PhaseStep
<1>4. ASSUME NEW op \in Ops, NEW i \in Items, Collecting(op, i)'
      PROVE  run'[<<op, i>>].scope
  <2>1. CASE Collecting(op, i)
    BY <1>1, <1>2, <2>1, LinkKept DEF RecordsInv, PhaseFitsRun
  <2>2. CASE Entered(<<op, i>>)
    BY <1>1, <1>2, <2>2 DEF Entered, CollectingRun, RunRow
  <2>3. QED
    BY <1>1, <1>4, <2>1, <2>2, StepLife DEF PhaseStep
<1>5. ASSUME NEW r \in orphans'
      PROVE  run'[r].scope
  <2>1. r \in Runs /\ r[1] \in Ops /\ r[2] \in Items /\ r = <<r[1], r[2]>>
    BY <1>1 DEF LifeInv, Shape, TypeOK, Runs
  <2>2. run[r].scope
    BY <1>1, <2>1, OrphanFrame DEF RecordsInv, OrphansAreScoped, PhaseFitsRun
  <2>3. QED
    BY <1>1, <2>1, <2>2, LinkKept
<1>6. QED
  BY <1>3, <1>4, <1>5 DEF OrphansAreScoped, PhaseFitsRun

\* A preparation state that was there before the step, but for its age.
Carried(p, i) ==
    \E q \in PrepRow : /\ q = prep[i] \/ q = editor[i].prep
                       /\ q.op = p.op /\ q.status = p.status /\ q.retryable = p.retryable

\* A conditional update leaves what is there, or writes the operation's state.
LEMMA PrepWrittenIs ==
    ASSUME Shape, NEW op \in Ops, NEW i \in Items, NEW status, NEW sig, NEW retryable
    PROVE  LET q == PrepWritten(op, i, status, sig, retryable)
           IN  q = prep[i] \/ (q.op = op /\ q.status = status /\ q.retryable = retryable)
BY DEF PrepWritten

LEMMA PrepAfterIs ==
    ASSUME Shape, NEW op \in Ops, NEW i \in Items, NEW status, NEW sig, NEW retryable,
           prep' = PrepAfter(op, i, status, sig, retryable), NEW j \in Items
    PROVE  \/ prep'[j] = prep[j]
           \/ j = i /\ prep'[j].op = op /\ prep'[j].status = status /\ prep'[j].retryable = retryable
<1> DEFINE q == PrepWritten(op, i, status, sig, retryable)
<1>1. prep' = [prep EXCEPT ![i] = q] /\ prep \in [Items -> PrepRow]
  BY DEF PrepAfter, Shape, TypeOK
<1>2. q = prep[i] \/ (q.op = op /\ q.status = status /\ q.retryable = retryable)
  BY PrepWrittenIs
<1> HIDE DEF q
<1>3. QED
  BY <1>1, <1>2

\* The run of a preparation that ends without a collection.
LEMMA FinishedIsSound ==
    ASSUME RecordsInv, NEW op \in Ops, NEW retryable \in BOOLEAN,
           FinishPreparation(op, retryable), To(op, "next"), runner[op].pc \in {"claim", "discover"},
           plan'[op].pc = plan[op].pc,
           NEW i \in Items, i = Cur(op),
           NEW p \in PrepRow, p.op = op, p.status \in {"skipped", "unavailable"}, p.retryable = retryable
    PROVE  Sound(p, i)'
<1>1. /\ run \in [Runs -> RunRow] /\ runner \in [Ops -> RunnerRow] /\ plan[op].pc = "done"
      /\ Cur(op) \in Items /\ Cur(op) \notin runner[op].todo /\ CurRun(op) \in Runs
  BY DEF RecordsInv, LifeInv, Shape, TypeOK, RunnerHasItem, ItemTaken, Cur, CurRun, Runs, RunnerFollowsRequest, NoRunner
<1>2. CurRun(op) = <<op, i>> /\ Waiting(op, i)
  BY DEF CurRun, Cur, Waiting
<1>3. ~run[<<op, i>>].scope /\ run[<<op, i>>].retriedBy = None
  BY <1>2 DEF RecordsInv, LifeInv, WaitingRunIsFresh
<1>4. run'[<<op, i>>] = FinishedRow(run[<<op, i>>], IF retryable THEN "failed" ELSE "completed", FALSE)
  BY <1>1, <1>2 DEF FinishPreparation, Finish
<1>5. /\ run'[<<op, i>>].state = IF retryable THEN "failed" ELSE "completed"
      /\ ~run'[<<op, i>>].partial /\ run'[<<op, i>>].kind = "catalog"
      /\ ~run'[<<op, i>>].scope /\ run'[<<op, i>>].retriedBy = None
  BY <1>1, <1>2, <1>3, <1>4 DEF FinishedRow, RunRow
<1>6. runner'[op] = [pc |-> "next", todo |-> runner[op].todo, item |-> None]
  BY <1>1 DEF To
<1>7. ~Waiting(op, i)' /\ ~Collecting(op, i)'
  BY <1>1, <1>6, NoneAssumption DEF Waiting, Collecting
<1>8. Over(<<op, i>>)'
  BY <1>5, <1>7 DEF Over
<1>9. QED
  BY <1>5, <1>8 DEF Sound, BusyHasRun, SkippedForGood, RetryOpen, Retryable, Busy

\* What each action leaves of the preparation states: what was there, or one
\* that agrees with its run.
LEMMA RequestRecords ==
    ASSUME RecordsInv, NEW op \in Ops, RequestStep(op), NEW i \in Items, NEW p \in PrepRow,
           p = prep'[i] \/ p = editor'[i].prep
    PROVE  Carried(p, i) \/ Sound(p, i)'
<1> USE DEF rows, history
<1>1. Shape /\ LifeInv /\ run \in [Runs -> RunRow] /\ plan \in [Ops -> PlanRow] /\ runner \in [Ops -> RunnerRow]
      /\ plan[op].items \subseteq Items
  BY DEF RecordsInv, LifeInv, Shape, TypeOK, PlanRow
<1>2. p = prep[i] \/ p = editor[i].prep => Carried(p, i)
  BY DEF Carried
<1>3. CASE RegisterRuns(op)
  <2>1. CASE p.op = op /\ p.status = "queued" /\ ~p.retryable /\ i \in plan[op].items /\ Reservable(i)
    <3>1. <<op, i>> \in Runs /\ <<op, i>>[1] = op /\ <<op, i>>[2] = i
      BY DEF Runs
    <3>2. run'[<<op, i>>] = RegisteredRun(plan[op].retryOf)
      BY <1>3, <2>1, <3>1 DEF RegisterRuns
    <3>3. run'[<<op, i>>].state # "none"
      BY <3>2 DEF RegisteredRun, NoRow
    <3>4. QED
      BY <2>1, <3>3 DEF Sound, BusyHasRun, SkippedForGood, RetryOpen
  <2>2. QED
    BY <1>2, <1>3, <2>1 DEF RegisterRuns
<1>4. CASE LaunchFails(op)
  <2>1. runner[op] = NoRunner /\ runner'[op] = NoRunner /\ plan[op].pc = "launch" /\ plan'[op].pc = "done"
    BY <1>1, <1>4 DEF LaunchFails, LifeInv, RunnerFollowsRequest, PlanEnds, NoPlan
  <2>2. CASE p.op = op /\ p.status = "unavailable" /\ p.retryable /\ i \in plan[op].items
    <3>1. Waiting(op, i) /\ <<op, i>> \in Runs /\ <<op, i>>[1] = op /\ <<op, i>>[2] = i
      BY <2>1, <2>2 DEF Waiting, Runs
    <3>2. run[<<op, i>>].state = "started" /\ run[<<op, i>>].kind = "catalog" /\ run[<<op, i>>].retriedBy = None
      BY <3>1 DEF RecordsInv, LifeInv, WaitingRunIsFresh, PhaseFitsRun
    <3>3. run'[<<op, i>>] = [run[<<op, i>>] EXCEPT !.state = "failed"]
      BY <1>4, <2>2, <3>1, <3>2 DEF LaunchFails
    <3>4. run'[<<op, i>>].state = "failed" /\ run'[<<op, i>>].kind = "catalog" /\ run'[<<op, i>>].retriedBy = None
      BY <1>1, <3>1, <3>2, <3>3 DEF RunRow
    <3>5. ~Waiting(op, i)' /\ ~Collecting(op, i)'
      BY <2>1, NoneAssumption DEF Waiting, Collecting, NoRunner
    <3>6. Over(<<op, i>>)'
      BY <3>4, <3>5 DEF Over
    <3>7. QED
      BY <2>2, <3>4, <3>6 DEF Sound, BusyHasRun, SkippedForGood, RetryOpen, Retryable, Busy
  <2>3. i \in plan[op].items => prep'[i] = PrepWritten(op, i, "unavailable", plan[op].sig[i], TRUE)
    BY <1>4 DEF LaunchFails
  <2>4. i \notin plan[op].items => prep'[i] = prep[i]
    BY <1>4 DEF LaunchFails
  <2>5. editor' = editor
    BY <1>4 DEF LaunchFails
  <2>6. i \in plan[op].items
          => prep'[i] = prep[i] \/ (prep'[i].op = op /\ prep'[i].status = "unavailable" /\ prep'[i].retryable)
    BY <2>3 DEF PrepWritten
  <2>7. QED
    BY <1>2, <2>2, <2>4, <2>5, <2>6
<1>5. CASE UNCHANGED <<prep, editor>>
  BY <1>2, <1>5
<1>6. QED
  BY <1>3, <1>4, <1>5 DEF RequestStep, ReadScope, ReadRetry, Launch, ServerStops

LEMMA RunnerRecords ==
    ASSUME RecordsInv, NEW op \in Ops, RunnerStep(op), NEW i \in Items, NEW p \in PrepRow,
           p = prep'[i] \/ p = editor'[i].prep
    PROVE  Carried(p, i) \/ Sound(p, i)'
<1> USE DEF rows, history
<1>1. /\ Shape /\ LifeInv /\ run \in [Runs -> RunRow] /\ plan \in [Ops -> PlanRow] /\ runner \in [Ops -> RunnerRow]
      /\ runner[op].pc \notin {"none", "next", "done", "stopped"} => Cur(op) \in Items
  BY DEF RecordsInv, LifeInv, Shape, TypeOK, RunnerHasItem, Cur
<1>2. p = prep[i] \/ p = editor[i].prep => Carried(p, i)
  BY DEF Carried
<1>3. ASSUME NEW status, NEW sig, NEW retryable, Cur(op) \in Items,
             prep' = PrepAfter(op, Cur(op), status, sig, retryable), editor' = editor
      PROVE  \/ Carried(p, i)
             \/ i = Cur(op) /\ p.op = op /\ p.status = status /\ p.retryable = retryable
  BY <1>1, <1>2, <1>3, PrepAfterIs
<1>4. ASSUME NEW j \in Items, NEW route \in Routes, Repair(op, j, route)
      PROVE  plan'[op].pc = plan[op].pc
  BY <1>1, <1>4 DEF Repair, PlanRow
<1>5. ASSUME NEW retryable \in BOOLEAN, FinishPreparation(op, retryable), To(op, "next"),
             runner[op].pc \in {"claim", "discover"}, plan'[op].pc = plan[op].pc, i = Cur(op),
             p.op = op, p.status \in {"skipped", "unavailable"}, p.retryable = retryable
      PROVE  Sound(p, i)'
  BY <1>5, FinishedIsSound
<1>6. ASSUME p.status \notin Busy, ~(p.status = "skipped" /\ ~p.retryable), ~p.retryable
      PROVE  Sound(p, i)'
  BY <1>6 DEF Sound, BusyHasRun, SkippedForGood, RetryOpen
<1>7. ASSUME p.status \in Busy, ~p.retryable, p.op = op, i = Cur(op), run'[<<op, i>>].state # "none"
      PROVE  Sound(p, i)'
  BY <1>7 DEF Sound, BusyHasRun, SkippedForGood, RetryOpen, Busy
<1>8. runner[op].pc \in {"claim", "discover"} /\ i = Cur(op)
        => /\ <<op, i>> \in Runs /\ CurRun(op) = <<op, i>>
           /\ run[<<op, i>>].state # "none"
  BY <1>1, RunInHand DEF Waiting, Cur, CurRun, Runs
<1>9. CASE ClaimStale(op) \/ EnterRefused(op)
  BY <1>1, <1>3, <1>5, <1>9 DEF ClaimStale, EnterRefused
<1>10. CASE \E retryable \in BOOLEAN, route \in Routes : SkipGroup(op, retryable, route)
  <2> PICK retryable \in BOOLEAN, route \in Routes : SkipGroup(op, retryable, route)
    BY <1>10
  <2>1. runner[op].pc = "discover" /\ Cur(op) \in Items /\ plan'[op].pc = plan[op].pc
    BY <1>1, <1>4 DEF SkipGroup
  <2>2. QED
    BY <1>3, <1>5, <2>1 DEF SkipGroup
<1>11. CASE \E v \in Versions : RetireScope(op, v)
  <2>1. /\ runner[op].pc = "discover" /\ Cur(op) \in Items /\ plan'[op].pc = plan[op].pc /\ editor' = editor
        /\ FinishPreparation(op, FALSE) /\ To(op, "next")
    BY <1>1, <1>11 DEF RetireScope
  <2>2. prep' = PrepAfter(op, Cur(op), "skipped", plan[op].sig[Cur(op)], FALSE)
    BY <1>11 DEF RetireScope
  <2>3. Carried(p, i) \/ (i = Cur(op) /\ p.op = op /\ p.status = "skipped" /\ p.retryable = FALSE)
    BY <1>3, <2>1, <2>2
  <2>4. QED
    BY <1>5, <2>1, <2>3
<1>12. CASE ClaimHolds(op)
  <2>1. runner[op].pc = "claim" /\ Cur(op) \in Items /\ editor' = editor /\ run' = run
    BY <1>1, <1>12 DEF ClaimHolds
  <2>2. prep' = PrepAfter(op, Cur(op), "checking", plan[op].sig[Cur(op)], FALSE)
    BY <1>12 DEF ClaimHolds
  <2>3. QED
    BY <1>3, <1>7, <1>8, <2>1, <2>2 DEF Busy
<1>13. CASE \E route \in Routes : EnterCollection(op, route)
  <2> PICK route \in Routes : EnterCollection(op, route)
    BY <1>13
  <2>1. runner[op].pc = "discover" /\ Cur(op) \in Items
    BY <1>1 DEF EnterCollection
  <2>2. i = Cur(op) => run'[<<op, i>>] = CollectingRun(run[<<op, i>>])
    BY <1>8, <2>1 DEF EnterCollection
  <2>3. i = Cur(op) => run'[<<op, i>>].state # "none"
    BY <1>1, <1>8, <2>1, <2>2 DEF CollectingRun, RunRow
  <2>4. QED
    BY <1>3, <1>7, <2>1, <2>3 DEF EnterCollection, Busy
<1>14. CASE Settle(op) \/ \E saved \in BOOLEAN : ClosePrep(op, saved)
  <2>1. Cur(op) \in Items /\ editor' = editor
    BY <1>1, <1>14 DEF Settle, ClosePrep
  <2>2. prep' = prep \/ prep' = PrepAfter(op, Cur(op), "run_created", plan[op].sig[Cur(op)], FALSE)
    BY <1>14 DEF Settle, ClosePrep
  <2>3. CASE prep' = prep
    BY <1>2, <2>1, <2>3
  <2>4. CASE prep' = PrepAfter(op, Cur(op), "run_created", plan[op].sig[Cur(op)], FALSE)
    <3>1. Carried(p, i) \/ (i = Cur(op) /\ p.op = op /\ p.status = "run_created" /\ p.retryable = FALSE)
      BY <1>3, <2>1, <2>4
    <3>2. QED
      BY <1>6, <3>1 DEF Busy
  <2>5. QED
    BY <2>2, <2>3, <2>4
<1>15. CASE \E saved \in BOOLEAN : FailPrep(op, saved)
  <2>1. runner'[op].pc = "failRun" /\ runner'[op].item = Cur(op) /\ Cur(op) \in Items /\ editor' = editor
    BY <1>1, <1>15 DEF FailPrep, To, Cur
  <2>2. ASSUME i = Cur(op), p.op = op, p.status = "unavailable", p.retryable
        PROVE  Sound(p, i)'
    <3>1. FailureToWrite(op, i)'
      BY <2>1, <2>2 DEF FailureToWrite
    <3>2. QED
      BY <2>2, <3>1 DEF Sound, BusyHasRun, SkippedForGood, RetryOpen, Busy
  <2>3. QED
    BY <1>2, <1>3, <1>15, <2>1, <2>2 DEF FailPrep
<1>16. CASE UNCHANGED <<prep, editor>>
  BY <1>2, <1>16
<1>17. QED
  BY <1>9, <1>10, <1>11, <1>12, <1>13, <1>14, <1>15, <1>16
  DEF RunnerStep, RunnerAdvances, NextGroup, RunnerExits, ClaimLost, CollectEnds, CollectFails, SettleFails, GroupFails,
      FailRun, StageWrites, RunnerStops

LEMMA EnvironmentRecords ==
    ASSUME RecordsInv, Environment, NEW i \in Items, NEW p \in PrepRow,
           p = prep'[i] \/ p = editor'[i].prep
    PROVE  Carried(p, i) \/ Sound(p, i)'
<1> USE DEF rows, history
<1>1. prep \in [Items -> PrepRow] /\ editor \in [Items -> EditorRow] /\ \A j \in Items : editor[j].prep \in PrepRow
  BY DEF RecordsInv, LifeInv, Shape, TypeOK, EditorRow
<1>2. p = prep[i] \/ p = editor[i].prep => Carried(p, i)
  BY DEF Carried
<1>3. CASE \E j \in Items, act \in BOOLEAN, v \in Versions : EditRead(j, act, v)
  <2> PICK j \in Items, act \in BOOLEAN, v \in Versions : EditRead(j, act, v)
    BY <1>3
  <2>1. editor'[i] = editor[i] \/ editor'[i].prep = prep[i]
    BY <1>1 DEF EditRead
  <2>2. QED
    BY <1>2, <2>1 DEF EditRead
<1>4. CASE \E j \in Items : EditWrite(j)
  <2>1. prep'[i] = prep[i] \/ prep'[i] = editor[i].prep
    BY <1>1, <1>4 DEF EditWrite
  <2>2. editor'[i] = editor[i] \/ editor'[i].prep = NoPrep
    BY <1>1, <1>4 DEF EditWrite, NoEdit
  <2>3. p = NoPrep => Sound(p, i)'
    BY DEF Sound, BusyHasRun, SkippedForGood, RetryOpen, NoPrep, Busy
  <2>4. QED
    BY <1>2, <2>1, <2>2, <2>3
<1>5. CASE \E j \in Items : LeaseExpires(j)
  <2> PICK j \in Items : LeaseExpires(j)
    BY <1>5
  <2>1. ASSUME p = prep'[i]
        PROVE  \E q \in PrepRow : q = prep[i] /\ q.op = p.op /\ q.status = p.status /\ q.retryable = p.retryable
    BY <1>1, <2>1 DEF LeaseExpires, PrepRow
  <2>2. ASSUME p = editor'[i].prep
        PROVE  \E q \in PrepRow : q = editor[i].prep /\ q.op = p.op /\ q.status = p.status /\ q.retryable = p.retryable
    <3>1. \A e \in EditorRow : [e EXCEPT !.prep.fresh = FALSE].prep = [e.prep EXCEPT !.fresh = FALSE]
      BY DEF EditorRow
    <3>2. editor'[i] = editor[i] \/ editor'[i] = [editor[i] EXCEPT !.prep.fresh = FALSE]
      BY <1>1 DEF LeaseExpires
    <3>3. p = editor[i].prep \/ p = [editor[i].prep EXCEPT !.fresh = FALSE]
      BY <1>1, <2>2, <3>1, <3>2
    <3>4. QED
      BY <1>1, <3>3 DEF PrepRow
  <2>3. QED
    BY <2>1, <2>2 DEF Carried
<1>6. CASE UNCHANGED <<prep, editor>>
  BY <1>2, <1>6
<1>7. QED
  BY <1>3, <1>4, <1>5, <1>6 DEF Environment, OrphanWrites, EditBank

LEMMA NextRecords == RecordsInv /\ [Next]_vars => RecordsInv'
<1> SUFFICES ASSUME RecordsInv, [Next]_vars PROVE RecordsInv'
  OBVIOUS
<1>1. CASE UNCHANGED vars
  <2>1. LifeInv'
    BY <1>1, NextLife DEF RecordsInv
  <2>2. \A op \in Ops, i \in Items : /\ Waiting(op, i)' = Waiting(op, i)
                                     /\ Collecting(op, i)' = Collecting(op, i)
    BY <1>1 DEF vars, Waiting, Collecting
  <2>3. OrphansAreScoped' /\ PhaseFitsRun'
    BY <1>1, <2>2 DEF vars, RecordsInv, OrphansAreScoped, PhaseFitsRun
  <2>4. \A p \in PrepRow, i \in Items : Sound(p, i) => Sound(p, i)'
    BY <1>1 DEF vars, Sound, BusyHasRun, SkippedForGood, RetryOpen, FailureToWrite, Over, Waiting, Collecting
  <2>5. RecordsSound'
    BY <1>1, <2>4 DEF vars, RecordsInv, RecordsSound
  <2>6. QED
    BY <2>1, <2>3, <2>5 DEF RecordsInv
<1>2. CASE Next
  <2>1. LifeInv' /\ OrphansAreScoped' /\ PhaseFitsRun'
    BY <1>2, NextLife, NextPhases DEF RecordsInv
  <2>2. ASSUME NEW i \in Items, NEW p \in PrepRow, p = prep'[i] \/ p = editor'[i].prep
        PROVE  Sound(p, i)'
    <3>1. Carried(p, i) \/ Sound(p, i)'
      BY <1>2, <2>2, RequestRecords, RunnerRecords, EnvironmentRecords DEF Next
    <3>2. CASE Carried(p, i)
      <4>1. PICK q \in PrepRow : /\ q = prep[i] \/ q = editor[i].prep
                                 /\ q.op = p.op /\ q.status = p.status /\ q.retryable = p.retryable
        BY <3>2 DEF Carried
      <4>2. Sound(q, i)'
        BY <1>2, <4>1, SoundKept DEF RecordsInv, RecordsSound
      <4>3. QED
        BY <4>1, <4>2 DEF Sound, BusyHasRun, SkippedForGood, RetryOpen
    <3>3. QED
      BY <3>1, <3>2
  <2>3. RecordsSound'
    BY <2>2 DEF RecordsSound
  <2>4. QED
    BY <2>1, <2>3 DEF RecordsInv
<1>3. QED
  BY <1>1, <1>2

\* An item that is shown as being prepared or collected has a registered run,
\* although the reservation and the run are different rows, and an edit may
\* write an old reservation back at any time.
THEOREM BusyPreparationsHaveRuns == Spec => []BusyPreparationHasRun
<1>1. RecordsInv => BusyPreparationHasRun
  <2> SUFFICES ASSUME RecordsInv, NEW i \in Items, prep[i].status \in Busy
               PROVE  run[<<prep[i].op, i>>].state # "none"
    BY DEF BusyPreparationHasRun
  <2>1. prep[i] \in PrepRow
    BY DEF RecordsInv, LifeInv, Shape, TypeOK
  <2>2. QED
    BY <2>1 DEF RecordsInv, RecordsSound, Sound, BusyHasRun
<1>2. QED
  BY <1>1, InitRecords, NextRecords, PTL DEF Spec

\* A preparation that ended without a collection agrees with its run: an item
\* skipped for good has a clean completed run without sources, and one that may
\* be prepared again has a run that may be retried, unless its failure is being
\* written or was lost.
THEOREM SkipsMatchRuns == Spec => []SkipMatchesRun
<1>1. RecordsInv => SkipMatchesRun
  <2> SUFFICES ASSUME RecordsInv, NEW i \in Items
               PROVE  /\ (prep[i].status = "skipped" /\ ~prep[i].retryable) =>
                             /\ run[<<prep[i].op, i>>].state = "completed"
                             /\ ~run[<<prep[i].op, i>>].partial
                             /\ ~run[<<prep[i].op, i>>].scope
                      /\ prep[i].retryable =>
                             \/ Retryable(run[<<prep[i].op, i>>])
                             \/ run[<<prep[i].op, i>>].state = "retried"
                             \/ runner[prep[i].op].pc = "failRun"
                             \/ <<prep[i].op, i>> \in adrift
    BY DEF SkipMatchesRun
  <2>1. prep[i] \in PrepRow
    BY DEF RecordsInv, LifeInv, Shape, TypeOK
  <2>2. QED
    BY <2>1 DEF RecordsInv, RecordsSound, Sound, SkippedForGood, RetryOpen, FailureToWrite
<1>2. QED
  BY <1>1, InitRecords, NextRecords, PTL DEF Spec

=============================================================================
