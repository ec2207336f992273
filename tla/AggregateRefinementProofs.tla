---------------------- MODULE AggregateRefinementProofs ----------------------
(* As long as no runner loses the connection that holds its lock, the        *)
(* refresh implements PublicProjection, and a country that is called healthy *)
(* shows every promotion.  Both hold for any number of operations, countries *)
(* and killed processes.                                                     *)
EXTENDS AggregateRefreshProofs

-----------------------------------------------------------------------------
(* One runner at a time *)

HolderHasLock == \A r \in Ops : runner[r].pc \in Holding => lock = r

\* Nobody else ends the requests of a batch.
BatchIsStarted ==
    \A r \in Ops : runner[r].pc \in Refreshing =>
        \A q \in runner[r].batch : request[q].status = "started"

\* An operation that is not committed has changed nothing.
ChangesAreCommitted ==
    \A q \in Ops : operation[q].pc # "done" => \A k \in Countries : q \notin changes[k]

LockInv == drops = 0 /\ HolderHasLock /\ BatchIsStarted /\ ChangesAreCommitted

-----------------------------------------------------------------------------
(* Versions of the list, in the order in which they were built *)

Complete(n) == snapshots[n].status = "completed"

\* What is or may yet become the list of a country.
Built(k) ==
    {[content |-> snapshots[n].content, at |-> snapshots[n].at] :
        n \in {m \in DOMAIN snapshots : Complete(m) /\ snapshots[m].country = k}}
    \cup {[content |-> x.content, at |-> x.at] :
        x \in {y \in late : snapshots[y.snapshot].country = k}}
    \cup {[content |-> runner[r].result.content, at |-> runner[r].result.at] :
        r \in {o \in Ops : runner[o].pc = "persist" /\ runner[o].country = k}}

\* A version that was built later shows more.
Ordered == \A k \in Countries : \A v, w \in Built(k) : v.at <= w.at => v.content \subseteq w.content

BuiltBefore == \A k \in Countries : \A v \in Built(k) : v.at <= now /\ v.content \subseteq changes[k]

\* The rows that were loaded last show everything that was built.
LoadedLast ==
    \A r \in Ops, k \in Countries : runner[r].pc = "build" /\ runner[r].country = k =>
        /\ runner[r].result.content \subseteq changes[k]
        /\ \A v \in Built(k) : v.content \subseteq runner[r].result.content

OwnUnfinished ==
    \A r \in Ops : runner[r].pc \in {"load", "build", "persist", "mark"} => ~Complete(Own(r))

LateUnfinished ==
    \A x \in late : /\ ~Complete(x.snapshot)
                    /\ \A y \in late : x.snapshot = y.snapshot => x = y

\* There is a latest snapshot.
SomeServed ==
    \A k \in Countries : \A n \in DOMAIN snapshots :
        Complete(n) /\ snapshots[n].country = k => Served(k) # {}

VersionInv == /\ Ordered /\ BuiltBefore /\ LoadedLast
              /\ OwnUnfinished /\ LateUnfinished /\ SomeServed

-----------------------------------------------------------------------------
(* What was there when a refresh failed is in every later version *)

FailedPromotions(k) == Promotions \cap Failed(k)

FailedAt(q) == request[q].doneAt

FailedShownLater ==
    \A k \in Countries : \A q \in FailedPromotions(k), v \in Built(k) :
        FailedAt(q) < v.at => q \in v.content

FailedLoaded ==
    \A r \in Ops, k \in Countries : runner[r].pc = "build" /\ runner[r].country = k =>
        FailedPromotions(k) \subseteq runner[r].result.content

FailedBeforeBuilt ==
    \A q \in Ops : request[q].status = "failed" =>
        \A r \in Ops : /\ runner[r].pc = "persist" => FailedAt(q) < runner[r].result.at
                       /\ runner[r].pc = "complete" => FailedAt(q) < snapshots[Own(r)].at

FailedBeforeCompleted ==
    \A q, p \in Ops :
        request[q].status = "failed" /\ request[p].status = "completed"
            /\ FailedAt(q) <= request[p].doneAt
        => FailedAt(q) < snapshots[request[p].snapshot].at

\* Only requests that ended have a time, and there is a latest one.
EndedBefore ==
    \A q \in Ops : /\ request[q].doneAt <= now
                   /\ request[q].status \in {"none", "queued", "started"} => request[q].doneAt = 0
                   /\ request[q].status = "none" => request[q].country = None

SomeLatest ==
    \A k \in Countries, q \in Ops :
        request[q].status # "none" /\ request[q].country = k => LatestRequest(k) # {}

CountriesAgree ==
    \A q \in Promotions : /\ request[q].status # "none"
                          /\ operation[q].country = request[q].country

FailureInv == /\ FailedShownLater /\ FailedLoaded /\ FailedBeforeBuilt /\ FailedBeforeCompleted
              /\ EndedBefore /\ SomeLatest /\ CountriesAgree

-----------------------------------------------------------------------------
(* Steps, by who makes them *)

\* A transaction that changes products or asks for a refresh begins or commits.
Commits(q) == \/ \E k \in Countries : Promote(q, k)
              \/ \E k \in Countries, kind \in Kinds \ {"promotion"} : Ask(q, kind, k)
              \/ CommitAsk(q)

\* What only the runner that holds the lock does.
HolderStep(r) ==
    \/ Claim(r) \/ ClaimNothing(r) \/ EnsureRefreshRun(r) \/ LoadRows(r)
    \/ BuildSnapshot(r) \/ PersistResult(r) \/ RefreshFails(r) \/ MarkRefreshFailed(r)
    \/ CompleteBatch(r) \/ FailBatch(r) \/ FindsConnectionLost(r)

LEMMA CommitChanges ==
    ASSUME IInv, NEW q \in Ops, Commits(q)
    PROVE  /\ UNCHANGED <<snapshots, runner, lock, late, now, faults, drops>>
           /\ operation[q].pc # "done"
           /\ request[q].status = "none"
           /\ \A p \in Ops \ {q} : request'[p] = request[p] /\ operation'[p] = operation[p]
           /\ \A k \in Countries : /\ changes[k] \subseteq changes'[k]
                                   /\ changes'[k] \subseteq changes[k] \cup {q}
           /\ operation'[q].pc = "done" \/ UNCHANGED <<request, changes>>
           /\ request'[q] = request[q] \/ \E k \in Countries : request'[q] = Queued(k)
<1>. USE DEF IInv
<1>1. ASSUME NEW k \in Countries, Promote(q, k)
      PROVE  /\ operation[q].pc = "idle" /\ operation'[q].pc = "done"
             /\ \A p \in Ops \ {q} : operation'[p] = operation[p] /\ request'[p] = request[p]
             /\ \A c \in Countries : /\ changes[c] \subseteq changes'[c]
                                     /\ changes'[c] \subseteq changes[c] \cup {q}
             /\ request'[q] = Queued(k)
    BY <1>1 DEF Promote, TypeOK
<1>2. ASSUME NEW k \in Countries, NEW kind \in Kinds, Ask(q, kind, k)
      PROVE  /\ operation[q].pc = "idle" /\ UNCHANGED <<request, changes>>
             /\ \A p \in Ops \ {q} : operation'[p] = operation[p]
    BY <1>2 DEF Ask, TypeOK
<1>3. ASSUME CommitAsk(q)
      PROVE  /\ operation[q].pc = "open" /\ operation'[q].pc = "done"
             /\ \A p \in Ops \ {q} : operation'[p] = operation[p] /\ request'[p] = request[p]
             /\ \A c \in Countries : /\ changes[c] \subseteq changes'[c]
                                     /\ changes'[c] \subseteq changes[c] \cup {q}
             /\ request'[q] = request[q] \/ \E k \in Countries : request'[q] = Queued(k)
    <2>1. operation[q].country \in Countries /\ operation[q].pc = "open"
        BY <1>3 DEF CommitAsk, OperationsBeforeRequests
    <2>2. operation'[q].pc = "done" /\ \A p \in Ops \ {q} : operation'[p] = operation[p]
        BY <1>3, Elements DEF CommitAsk, TypeOK, Operation
    <2>3. \/ request' = request
          \/ request' = [request EXCEPT ![q] = Queued(operation[q].country)]
        BY <1>3 DEF CommitAsk
    <2>4. \/ changes' = changes
          \/ changes' = [changes EXCEPT ![operation[q].country] = @ \cup {q}]
        BY <1>3 DEF CommitAsk
    <2>5. /\ \A p \in Ops \ {q} : request'[p] = request[p]
          /\ request'[q] = request[q] \/ request'[q] = Queued(operation[q].country)
        BY <2>3 DEF TypeOK
    <2>6. \A c \in Countries : /\ changes[c] \subseteq changes'[c]
                               /\ changes'[c] \subseteq changes[c] \cup {q}
        BY <2>1, <2>4 DEF TypeOK
    <2>. QED BY <2>1, <2>2, <2>5, <2>6
<1>4. operation[q].pc # "done" /\ request[q].status = "none"
    BY <1>1, <1>2, <1>3 DEF Commits, OperationsBeforeRequests
<1>5. UNCHANGED <<snapshots, runner, lock, late, now, faults, drops>>
    BY DEF Commits, Promote, Ask, CommitAsk
<1>. QED BY <1>1, <1>2, <1>3, <1>4, <1>5 DEF Commits

-----------------------------------------------------------------------------
(* One runner at a time: proof *)

LEMMA Alone ==
    ASSUME LockInv, NEW r \in Ops, runner[r].pc \in Holding
    PROVE  \A o \in Ops \ {r} : runner[o].pc \notin Holding /\ runner[o].pc \notin Refreshing
BY DEF LockInv, HolderHasLock, Holding, Refreshing

\* The steps of the runner that holds the lock leave the others as they are.
LEMMA HolderSteps ==
    ASSUME IInv, NEW r \in Ops, HolderStep(r)
    PROVE  /\ runner[r].pc \in Holding
           /\ OthersStay(r)
           /\ UNCHANGED <<operation, changes, lock, waking, late, faults, drops>>
<1>. USE DEF IInv, HolderStep
<1>1. runner[r].pc \in Holding
    BY DEF Claim, ClaimNothing, EnsureRefreshRun, LoadRows, BuildSnapshot, PersistResult,
           RefreshFails, MarkRefreshFailed, CompleteBatch, FailBatch, FindsConnectionLost,
           At, Holding
<1>2. UNCHANGED <<operation, changes, lock, waking, late, faults, drops>>
    BY DEF Claim, ClaimNothing, EnsureRefreshRun, LoadRows, BuildSnapshot, PersistResult,
           RefreshFails, MarkRefreshFailed, CompleteBatch, FailBatch, FindsConnectionLost
<1>3. \A o \in Ops \ {r} : runner'[o] = runner[o]
    BY DEF Claim, ClaimNothing, EnsureRefreshRun, LoadRows, BuildSnapshot, PersistResult,
           RefreshFails, MarkRefreshFailed, CompleteBatch, FailBatch, FindsConnectionLost,
           GoTo, GoOn, TypeOK
<1>4. TypeOK'
    BY EnsureKeeps, LoadKeeps, BuildKeeps, PersistKeeps, FailureKeeps, OutsideKeeps,
       BatchKeeps, ClaimKeeps
<1>. QED BY <1>1, <1>2, <1>3, <1>4 DEF OthersStay, TypeOK

\* What becomes of its batch.
LEMMA HolderBatches ==
    ASSUME IInv, NEW r \in Ops, HolderStep(r)
    PROVE  \/ runner'[r].pc \notin Refreshing
           \/ /\ Claim(r)
              /\ \A q \in runner'[r].batch : q \in Ops /\ request'[q].status = "started"
           \/ /\ runner[r].pc \in Refreshing
              /\ runner'[r].batch = runner[r].batch
              /\ request' = request
<1>. USE DEF IInv, HolderStep
<1>1. CASE Claim(r)
    <2>1. PICK q \in Ops :
            LET k == request[q].country
                batch == {p \in Ops : Claimable(p) /\ request[p].country = k}
            IN  /\ request' = [p \in Ops |->
                        IF p \in batch
                        THEN [request[p] EXCEPT !.status = "started", !.snapshot = 0, !.doneAt = 0]
                        ELSE request[p]]
                /\ runner' = [runner EXCEPT ![r] = [NoRunner EXCEPT !.pc = "ensure",
                                                    !.batch = batch, !.country = k]]
        BY <1>1 DEF Claim
    <2> DEFINE batch == {p \in Ops : Claimable(p) /\ request[p].country = request[q].country}
    <2>2. runner'[r].batch = batch
        BY <2>1 DEF NoRunner, TypeOK
    <2>3. \A p \in batch : p \in Ops /\ request'[p].status = "started"
        BY <2>1, Elements DEF Request
    <2>. QED BY <1>1, <2>2, <2>3
<1>2. CASE ClaimNothing(r)
    BY <1>2, GoToLeaves DEF ClaimNothing, Left
<1>3. CASE CompleteBatch(r) \/ FailBatch(r) \/ FindsConnectionLost(r)
    BY <1>3, RestartLeaves DEF CompleteBatch, FailBatch, FindsConnectionLost, Dead, Left
<1>4. CASE EnsureRefreshRun(r) \/ BuildSnapshot(r)
    BY <1>4, ResultMoves DEF EnsureRefreshRun, BuildSnapshot, Moved, At, Refreshing
<1>5. CASE LoadRows(r)
    BY <1>5, ResultMoves DEF LoadRows, Moved, At, Refreshing, BatchesOfCountry
<1>6. CASE PersistResult(r) \/ MarkRefreshFailed(r)
    BY <1>6, GoToMoves DEF PersistResult, MarkRefreshFailed, Moved, At, Refreshing
<1>7. CASE RefreshFails(r)
    <2>1. runner[r].pc \in Refreshing /\ request' = request
        BY <1>7 DEF RefreshFails, Refreshing
    <2>2. runner'[r].batch = runner[r].batch
        BY <1>7, GoToMoves DEF RefreshFails, Moved, Refreshing
    <2>. QED BY <2>1, <2>2
<1>. QED BY <1>1, <1>2, <1>3, <1>4, <1>5, <1>6, <1>7

LEMMA LockKeeps ==
    ASSUME MaxDrops = 0, IInv, LockInv, [Next]_vars
    PROVE  LockInv'
<1>. USE DEF IInv
<1>1. ASSUME NEW r \in Ops, HolderStep(r)
      PROVE  LockInv'
    <2>1. /\ runner[r].pc \in Holding /\ OthersStay(r)
          /\ UNCHANGED <<operation, changes, lock, drops>>
        BY <1>1, HolderSteps
    <2>2. \A o \in Ops \ {r} : /\ runner'[o] = runner[o]
                              /\ runner[o].pc \notin Holding /\ runner[o].pc \notin Refreshing
        BY <2>1, Alone DEF OthersStay
    <2>3. HolderHasLock'
        BY <2>1, <2>2 DEF LockInv, HolderHasLock
    <2>4. BatchIsStarted'
        BY <1>1, <2>2, HolderBatches DEF LockInv, BatchIsStarted
    <2>. QED BY <2>1, <2>3, <2>4 DEF LockInv, ChangesAreCommitted
<1>2. ASSUME NEW r \in Ops, TryLock(r) PROVE LockInv'
    <2>1. Left(r)
        BY <1>2, GoToLeaves DEF TryLock
    <2>2. \A o \in Ops \ {r} : runner'[o] = runner[o]
        BY <2>1 DEF Left, OthersStay
    <2>3. CASE lock = None
        <3>1. lock' = r /\ \A o \in Ops : runner[o].pc \notin Holding
            BY <1>2, <2>3, OpsAssumption DEF TryLock, LockInv, HolderHasLock
        <3>. QED BY <1>2, <2>1, <2>2, <3>1
                 DEF TryLock, Left, LockInv, HolderHasLock, BatchIsStarted, ChangesAreCommitted
    <2>4. CASE lock # None
        <3>1. lock' = lock /\ GoTo(r, "exit")
            BY <1>2, <2>4 DEF TryLock
        <3>2. runner'[r].pc = "exit"
            BY <3>1, Elements DEF GoTo, TypeOK, Runner
        <3>3. HolderHasLock'
            BY <2>2, <3>1, <3>2 DEF LockInv, HolderHasLock, Holding
        <3>. QED BY <1>2, <2>1, <2>2, <3>3
                 DEF TryLock, Left, LockInv, BatchIsStarted, ChangesAreCommitted
    <2>. QED BY <2>3, <2>4
<1>3. ASSUME NEW r \in Ops, ReleaseLock(r) \/ Killed(r) PROVE LockInv'
    <2>1. Left(r) /\ runner'[r].pc \notin Holding
        <3>1. CASE ReleaseLock(r)
            BY <3>1, GoToLeaves, Elements DEF ReleaseLock, GoTo, TypeOK, Runner, Holding
        <3>2. CASE Killed(r)
            BY <3>2, RestartLeaves DEF Killed, Dead, TypeOK, NoRunner, Holding
        <3>. QED BY <1>3, <3>1, <3>2
    <2>2. \A o \in Ops \ {r} : runner'[o] = runner[o]
        BY <2>1 DEF Left, OthersStay
    <2>3. lock' = lock \/ (lock = r /\ lock' = None)
        BY <1>3 DEF ReleaseLock, At, Killed, Unlocked, LockInv, HolderHasLock, Holding
    <2>4. HolderHasLock'
        BY <2>1, <2>2, <2>3 DEF LockInv, HolderHasLock
    <2>. QED BY <1>3, <2>1, <2>2, <2>4
             DEF ReleaseLock, Killed, Left, LockInv, BatchIsStarted, ChangesAreCommitted
<1>4. ASSUME NEW q \in Ops, Launch(q) PROVE LockInv'
    <2>1. Left(q) /\ runner'[q].pc = "start"
        BY ZenonT(40), <1>4, GoToLeaves, Elements DEF Launch, GoTo, TypeOK, Runner
    <2>2. \A o \in Ops \ {q} : runner'[o] = runner[o]
        BY <2>1 DEF Left, OthersStay
    <2>. QED BY <1>4, <2>1, <2>2 DEF Launch, Left, LockInv, HolderHasLock, Holding, BatchIsStarted,
                                     ChangesAreCommitted
<1>5. ASSUME NEW q \in Ops, Commits(q) PROVE LockInv'
    <2>1. /\ UNCHANGED <<runner, lock, drops>>
          /\ request[q].status = "none"
          /\ \A p \in Ops \ {q} : request'[p] = request[p] /\ operation'[p] = operation[p]
          /\ \A c \in Countries : changes'[c] \subseteq changes[c] \cup {q}
          /\ operation[q].pc # "done"
          /\ operation'[q].pc = "done" \/ UNCHANGED <<request, changes>>
        BY <1>5, CommitChanges
    <2>2. BatchIsStarted'
        BY <2>1, ResultOf DEF LockInv, BatchIsStarted
    <2>3. ChangesAreCommitted'
        BY <2>1 DEF LockInv, ChangesAreCommitted
    <2>. QED BY <2>1, <2>2, <2>3 DEF LockInv, HolderHasLock
<1>6. ASSUME \/ UNCHANGED vars
             \/ \E x \in late : LateCommit(x)
             \/ \E q \in Ops : LaunchFails(q)
      PROVE  LockInv'
    <2>1. UNCHANGED <<operation, request, changes, runner, lock, drops>>
        BY <1>6 DEF vars, LateCommit, LaunchFails
    <2>. QED BY <2>1 DEF LockInv, HolderHasLock, BatchIsStarted, ChangesAreCommitted
<1>7. ASSUME NEW r \in Ops, ConnectionLost(r) PROVE LockInv'
    BY <1>7 DEF ConnectionLost, LockInv
<1>. QED BY <1>1, <1>2, <1>3, <1>4, <1>5, <1>6, <1>7
         DEF Next, RunnerStep, OperationStep, Commits, HolderStep

-----------------------------------------------------------------------------
(* What a step does to the runners, the snapshots and the late results *)

LEMMA BuildMoves ==
    ASSUME IInv, NEW r \in Ops, BuildSnapshot(r)
    PROVE  /\ Moved(r, "persist", Own(r), runner[r].result.content)
           /\ runner[r].pc = "build"
           /\ runner'[r].result.at = now + 1
           /\ now' = now + 1
<1>. USE DEF IInv
<1> DEFINE result == [runner[r].result EXCEPT !.at = now + 1]
<1>1. now' = now + 1 /\ now + 1 \in Nat /\ runner[r].pc = "build"
    BY DEF BuildSnapshot, TypeOK, At
<1>2. result \in Result /\ result.at = now + 1
    BY <1>1, ResultOf DEF Result
<1>3. GoOn(r, "persist", result)
    BY <1>1 DEF BuildSnapshot
<1>. HIDE DEF result
<1>4. runner'[r].result = result
    BY <1>2, <1>3, RecordMoves DEF Refreshing
<1>. QED BY <1>1, <1>2, <1>4, ResultMoves

LEMMA Moves ==
    ASSUME MaxDrops = 0, IInv, LockInv, [Next]_vars, NEW o \in Ops
    PROVE  \/ runner'[o] = runner[o]
           \/ runner'[o].pc \notin Owning
           \/ /\ EnsureRefreshRun(o)
              /\ Moved(o, "load", Len(snapshots) + 1, runner[o].result.content)
           \/ /\ LoadRows(o) /\ runner[o].country \in Countries
              /\ Moved(o, "build", Own(o), changes[runner[o].country])
           \/ /\ BuildSnapshot(o)
              /\ Moved(o, "persist", Own(o), runner[o].result.content)
           \/ /\ PersistResult(o)
              /\ Moved(o, "complete", Own(o), runner[o].result.content)
           \/ /\ RefreshFails(o) /\ runner[o].pc \in {"load", "build", "persist"}
              /\ Moved(o, "mark", Own(o), runner[o].result.content)
<1>. USE DEF IInv
<1>1. ASSUME NEW r \in Ops, Left(r) PROVE runner'[o] = runner[o] \/ runner'[o].pc \notin Owning
    BY <1>1 DEF Left, OthersStay, Owning, Refreshing
<1>2. ASSUME NEW r \in Ops, HolderStep(r), o # r PROVE runner'[o] = runner[o]
    BY <1>2, HolderSteps DEF OthersStay
<1>3. ASSUME NEW r \in Ops,
             \/ ClaimNothing(r) \/ CompleteBatch(r) \/ FailBatch(r) \/ FindsConnectionLost(r)
             \/ TryLock(r) \/ ReleaseLock(r) \/ Killed(r) \/ Launch(r)
      PROVE  Left(r)
    BY <1>3, GoToLeaves, RestartLeaves
       DEF ClaimNothing, CompleteBatch, FailBatch, FindsConnectionLost, TryLock, ReleaseLock,
           Killed, Dead, Launch, GoTo
<1>4. ASSUME Claim(o) PROVE runner'[o].pc = "ensure"
    <2>1. PICK k, batch : runner' = [runner EXCEPT ![o] = [NoRunner EXCEPT !.pc = "ensure",
                                                    !.batch = batch, !.country = k]]
        BY <1>4 DEF Claim
    <2>. QED BY <2>1 DEF NoRunner, TypeOK
<1>5. ASSUME LoadRows(o) PROVE runner[o].country \in Countries
    BY <1>5 DEF LoadRows, At, BatchesOfCountry, Refreshing
<1>6. ASSUME PersistResult(o)
      PROVE  Moved(o, "complete", Own(o), runner[o].result.content)
    BY <1>6, GoToMoves DEF PersistResult, Refreshing
<1>7. ASSUME RefreshFails(o)
      PROVE  \/ runner'[o].pc \notin Owning
             \/ /\ runner[o].pc \in {"load", "build", "persist"}
                /\ Moved(o, "mark", Own(o), runner[o].result.content)
    <2>1. CASE At(o, "ensure")
        <3>1. Moved(o, "fail", Own(o), runner[o].result.content)
            BY <1>7, <2>1, GoToMoves DEF RefreshFails, Refreshing
        <3>. QED BY <3>1 DEF Moved, Owning
    <2>2. CASE ~At(o, "ensure")
        BY <1>7, <2>2, GoToMoves DEF RefreshFails, At, Refreshing
    <2>. QED BY <2>1, <2>2
<1>8. ASSUME MarkRefreshFailed(o) PROVE runner'[o].pc \notin Owning
    BY <1>8, GoToMoves DEF MarkRefreshFailed, Refreshing, Moved, Owning
<1>9. ASSUME HolderStep(o)
      PROVE  \/ runner'[o].pc \notin Owning
             \/ /\ EnsureRefreshRun(o)
                /\ Moved(o, "load", Len(snapshots) + 1, runner[o].result.content)
             \/ /\ LoadRows(o) /\ runner[o].country \in Countries
                /\ Moved(o, "build", Own(o), changes[runner[o].country])
             \/ /\ BuildSnapshot(o)
                /\ Moved(o, "persist", Own(o), runner[o].result.content)
             \/ /\ PersistResult(o)
                /\ Moved(o, "complete", Own(o), runner[o].result.content)
             \/ /\ RefreshFails(o) /\ runner[o].pc \in {"load", "build", "persist"}
                /\ Moved(o, "mark", Own(o), runner[o].result.content)
    <2>1. CASE Claim(o)
        BY <2>1, <1>4 DEF Owning
    <2>2. CASE ClaimNothing(o) \/ CompleteBatch(o) \/ FailBatch(o) \/ FindsConnectionLost(o)
        BY <2>2, <1>3 DEF Left, Owning, Refreshing
    <2>3. CASE EnsureRefreshRun(o) \/ LoadRows(o) \/ BuildSnapshot(o)
        BY <2>3, <1>5, ResultMoves
    <2>. QED BY <1>9, <2>1, <2>2, <2>3, <1>6, <1>7, <1>8 DEF HolderStep
<1>10. CASE \E r \in Ops : HolderStep(r)
    BY <1>10, <1>2, <1>9
<1>11. CASE \E r \in Ops : TryLock(r) \/ ReleaseLock(r) \/ Killed(r) \/ Launch(r)
    BY <1>11, <1>1, <1>3
<1>12. ASSUME \/ UNCHANGED vars
              \/ \E x \in late : LateCommit(x)
              \/ \E q \in Ops : LaunchFails(q) \/ Commits(q)
      PROVE  runner' = runner
    BY <1>12, CommitChanges DEF vars, LateCommit, LaunchFails
<1>13. ~ \E r \in Ops : ConnectionLost(r)
    BY DEF ConnectionLost, LockInv
<1>. QED BY <1>10, <1>11, <1>12, <1>13 DEF Next, RunnerStep, OperationStep, Commits, HolderStep

\* Completed snapshots stay as they are, and none is added.
SameComplete ==
    /\ DOMAIN snapshots \subseteq DOMAIN snapshots'
    /\ \A n \in DOMAIN snapshots' :
        snapshots'[n].status = "completed" => n \in DOMAIN snapshots /\ Complete(n)
    /\ \A n \in DOMAIN snapshots : /\ snapshots'[n].country = snapshots[n].country
                                   /\ Complete(n) => snapshots'[n] = snapshots[n]

Version(result) == [content |-> result.content, at |-> result.at]

\* A snapshot that was built is completed.
Publishes(result) ==
    /\ result \in Result
    /\ result.snapshot \in DOMAIN snapshots
    /\ ~Complete(result.snapshot)
    /\ Version(result) \in Built(snapshots[result.snapshot].country)
    /\ snapshots' = Persisted(result)

LEMMA PublishChanges ==
    ASSUME IInv, NEW result, Publishes(result)
    PROVE  LET n == result.snapshot
           IN  /\ DOMAIN snapshots' = DOMAIN snapshots
               /\ \A m \in DOMAIN snapshots \ {n} : snapshots'[m] = snapshots[m]
               /\ snapshots'[n].status = "completed"
               /\ snapshots'[n].country = snapshots[n].country
               /\ snapshots'[n].content = result.content
               /\ snapshots'[n].at = result.at
<1> DEFINE n == result.snapshot
           s == [status |-> "completed", country |-> snapshots[n].country,
                 content |-> result.content, at |-> result.at]
<1>1. /\ s \in Snapshot /\ snapshots' = [snapshots EXCEPT ![n] = s]
      /\ DOMAIN snapshots' = DOMAIN snapshots
    BY PersistedForm DEF Publishes, IInv
<1>2. /\ s.status = "completed" /\ s.country = snapshots[n].country
      /\ s.content = result.content /\ s.at = result.at
    OBVIOUS
<1>. HIDE DEF s
<1>3. snapshots'[n] = s /\ \A m \in DOMAIN snapshots \ {n} : snapshots'[m] = snapshots[m]
    BY <1>1 DEF TypeOK, IInv, Publishes
<1>. QED BY <1>1, <1>2, <1>3

LEMMA SnapshotSteps ==
    ASSUME IInv, VersionInv, [Next]_vars
    PROVE  \/ SameComplete
           \/ \E r \in Ops : PersistResult(r) /\ Publishes(runner[r].result)
           \/ \E x \in late : LateCommit(x) /\ Publishes(x)
<1>. USE DEF IInv
<1>1. ASSUME NEW r \in Ops, EnsureRefreshRun(r) PROVE SameComplete
    <2> DEFINE s == [status |-> "started", country |-> runner[r].country, content |-> {}, at |-> 0]
    <2>1. snapshots' = Append(snapshots, s) /\ s.status = "started"
        BY <1>1 DEF EnsureRefreshRun
    <2>. HIDE DEF s
    <2>2. /\ DOMAIN snapshots = 1..Len(snapshots) /\ Len(snapshots) \in Nat
          /\ DOMAIN snapshots' = 1..(Len(snapshots) + 1)
          /\ \A n \in DOMAIN snapshots : snapshots'[n] = snapshots[n]
          /\ snapshots'[Len(snapshots) + 1] = s
        BY <2>1 DEF TypeOK
    <2>. QED BY <2>1, <2>2 DEF SameComplete, Complete
<1>2. ASSUME NEW r \in Ops, PersistResult(r) PROVE Publishes(runner[r].result)
    <2>1. runner[r].pc = "persist" /\ snapshots' = Persisted(runner[r].result)
        BY <1>2 DEF PersistResult, At
    <2>2. /\ Own(r) \in DOMAIN snapshots /\ snapshots[Own(r)].country = runner[r].country
          /\ ~Complete(Own(r))
        BY <2>1 DEF SnapshotsOwned, Owns, Owning, VersionInv, OwnUnfinished
    <2>3. Version(runner[r].result) \in Built(runner[r].country)
        BY <2>1 DEF Built, Version
    <2>. QED BY <2>1, <2>2, <2>3, ResultOf DEF Publishes, Own
<1>3. ASSUME NEW x \in late, LateCommit(x) PROVE Publishes(x)
    <2>1. x \in Result /\ x.snapshot \in DOMAIN snapshots /\ ~Complete(x.snapshot)
        BY DEF TypeOK, LateBelongsToNobody, VersionInv, LateUnfinished
    <2>2. Version(x) \in Built(snapshots[x.snapshot].country)
        BY DEF Built, Version
    <2>. QED BY <1>3, <2>1, <2>2 DEF Publishes, LateCommit
<1>4. ASSUME NEW r \in Ops, MarkRefreshFailed(r) PROVE SameComplete
    <2>1. PICK status \in {"started", "failed"} :
            snapshots' = [snapshots EXCEPT ![Own(r)].status = status]
        BY <1>4 DEF MarkRefreshFailed, Own
    <2>2. Own(r) \in DOMAIN snapshots /\ ~Complete(Own(r))
        BY <1>4 DEF MarkRefreshFailed, At, SnapshotsOwned, Owns, Owning, VersionInv, OwnUnfinished
    <2> DEFINE s == [snapshots[Own(r)] EXCEPT !.status = status]
    <2>3. snapshots[Own(r)] \in Snapshot
        BY <2>2 DEF TypeOK
    <2>4. s.status # "completed" /\ s.country = snapshots[Own(r)].country
        BY <2>3 DEF Snapshot
    <2>5. snapshots' = [snapshots EXCEPT ![Own(r)] = s]
        BY <2>1
    <2>. HIDE DEF s
    <2>6. /\ DOMAIN snapshots' = DOMAIN snapshots
          /\ snapshots'[Own(r)] = s
          /\ \A n \in DOMAIN snapshots \ {Own(r)} : snapshots'[n] = snapshots[n]
        BY <2>2, <2>5 DEF TypeOK
    <2>. QED BY <2>2, <2>4, <2>6 DEF SameComplete, Complete
<1>5. ASSUME snapshots' = snapshots PROVE SameComplete
    BY <1>5 DEF SameComplete, Complete
<1>6. CASE UNCHANGED vars \/ \E q \in Ops : OperationStep(q) \/ Killed(q) \/ ConnectionLost(q)
    <2>1. snapshots' = snapshots
        BY <1>6 DEF vars, OperationStep, Promote, Ask, CommitAsk, Launch, LaunchFails, Killed,
                    ConnectionLost
    <2>. QED BY <2>1, <1>5
<1>7. ASSUME NEW r \in Ops, RunnerStep(r)
      PROVE  \/ EnsureRefreshRun(r) \/ PersistResult(r) \/ MarkRefreshFailed(r)
             \/ snapshots' = snapshots
    BY <1>7 DEF RunnerStep, TryLock, Claim, ClaimNothing, LoadRows, BuildSnapshot, RefreshFails,
                CompleteBatch, FailBatch, ReleaseLock, FindsConnectionLost
<1>. QED BY <1>1, <1>2, <1>3, <1>4, <1>5, <1>6, <1>7 DEF Next

LEMMA CountriesStay ==
    ASSUME IInv, VersionInv, [Next]_vars
    PROVE  \A n \in DOMAIN snapshots :
               n \in DOMAIN snapshots' /\ snapshots'[n].country = snapshots[n].country
BY SnapshotSteps, PublishChanges DEF SameComplete, Publishes

\* What is still late was late, or is the result of a runner that was killed.
LEMMA LateSteps ==
    ASSUME IInv, [Next]_vars
    PROVE  \A x \in late' :
               \/ x \in late
               \/ \E r \in Ops : /\ Killed(r) /\ runner[r].pc = "persist"
                                 /\ x = runner[r].result
<1>1. ASSUME NEW r \in Ops, Killed(r)
      PROVE  late' \subseteq late \cup (IF At(r, "persist") THEN {runner[r].result} ELSE {})
    BY <1>1 DEF Killed
<1>2. ASSUME NEW x \in late, LateCommit(x) PROVE late' \subseteq late
    BY <1>2 DEF LateCommit
<1>3. ASSUME \/ UNCHANGED vars
             \/ \E q \in Ops : OperationStep(q) \/ RunnerStep(q) \/ ConnectionLost(q)
      PROVE  late' = late
    BY <1>3 DEF vars, OperationStep, Promote, Ask, CommitAsk, Launch, LaunchFails, ConnectionLost,
                RunnerStep, TryLock, Claim, ClaimNothing, EnsureRefreshRun, LoadRows, BuildSnapshot,
                PersistResult, RefreshFails, MarkRefreshFailed, CompleteBatch, FailBatch,
                ReleaseLock, FindsConnectionLost
<1>. QED BY <1>1, <1>2, <1>3 DEF Next, At

\* Only the build adds a version.
LEMMA BuiltGrows ==
    ASSUME MaxDrops = 0, IInv, LockInv, VersionInv, [Next]_vars,
           NEW k \in Countries, NEW v \in Built(k)'
    PROVE  \/ v \in Built(k)
           \/ \E r \in Ops : /\ BuildSnapshot(r) /\ runner[r].country = k
                             /\ v = [content |-> runner[r].result.content, at |-> now + 1]
<1>. USE DEF IInv
<1>1. ASSUME NEW n \in DOMAIN snapshots', snapshots'[n].status = "completed",
             snapshots'[n].country = k,
             v = [content |-> snapshots'[n].content, at |-> snapshots'[n].at]
      PROVE  v \in Built(k)
    <2>1. CASE SameComplete
        BY <1>1, <2>1 DEF SameComplete, Complete, Built
    <2>2. ASSUME NEW x, Publishes(x) PROVE v \in Built(k)
        <3>1. CASE n = x.snapshot
            BY <1>1, <2>2, <3>1, PublishChanges DEF Publishes, Version
        <3>2. CASE n # x.snapshot
            BY <1>1, <2>2, <3>2, PublishChanges DEF Built, Complete
        <3>. QED BY <3>1, <3>2
    <2>. QED BY <2>1, <2>2, SnapshotSteps
<1>2. ASSUME NEW x \in late', snapshots'[x.snapshot].country = k,
             v = [content |-> x.content, at |-> x.at]
      PROVE  v \in Built(k)
    <2>1. CASE x \in late
        BY <1>2, <2>1, CountriesStay DEF LateBelongsToNobody, Built
    <2>2. ASSUME NEW r \in Ops, runner[r].pc = "persist", x = runner[r].result
          PROVE  v \in Built(k)
        <3>1. Own(r) \in DOMAIN snapshots /\ snapshots[Own(r)].country = runner[r].country
            BY <2>2 DEF SnapshotsOwned, Owns, Owning
        <3>2. runner[r].country = k
            BY <1>2, <2>2, <3>1, CountriesStay DEF Own
        <3>. QED BY <1>2, <2>2, <3>2 DEF Built
    <2>. QED BY <2>1, <2>2, LateSteps
<1>3. ASSUME NEW r \in Ops, runner'[r].pc = "persist", runner'[r].country = k,
             v = [content |-> runner'[r].result.content, at |-> runner'[r].result.at]
      PROVE  \/ v \in Built(k)
             \/ /\ BuildSnapshot(r) /\ runner[r].country = k
                /\ v = [content |-> runner[r].result.content, at |-> now + 1]
    <2>1. CASE runner'[r] = runner[r]
        BY <1>3, <2>1 DEF Built
    <2>2. CASE BuildSnapshot(r)
        BY <1>3, <2>2, BuildMoves DEF Moved
    <2>. QED BY <1>3, <2>1, <2>2, Moves DEF Owning, Moved
<1>. QED BY <1>1, <1>2, <1>3 DEF Built, Complete

\* Versions are made of changes and times.
LEMMA BuiltType ==
    ASSUME IInv, NEW k \in Countries, NEW v \in Built(k)
    PROVE  v.at \in Nat /\ v.content \subseteq Ops
<1>. USE DEF IInv
<1>1. \A n \in DOMAIN snapshots : snapshots[n].at \in Nat /\ snapshots[n].content \subseteq Ops
    <2>1. \A n \in DOMAIN snapshots : snapshots[n] \in Snapshot
        BY DEF TypeOK
    <2>. QED BY <2>1 DEF Snapshot
<1>2. \A x \in late : x.at \in Nat /\ x.content \subseteq Ops
    BY DEF TypeOK, Result
<1>3. \A r \in Ops : runner[r].result.at \in Nat /\ runner[r].result.content \subseteq Ops
    BY ResultOf
<1>. QED BY <1>1, <1>2, <1>3 DEF Built

LEMMA TimeAndChangesGrow ==
    ASSUME IInv, [Next]_vars
    PROVE  /\ now \in Nat /\ (now' = now \/ now' = now + 1)
           /\ \A k \in Countries : changes[k] \subseteq changes'[k]
<1>. USE DEF IInv
<1>1. now' = now \/ now' = now + 1
    BY DEF Next, vars, OperationStep, Promote, Ask, CommitAsk, Launch, LaunchFails, ConnectionLost,
           Killed, LateCommit, BatchEnds, RunnerStep, TryLock, Claim, ClaimNothing,
           EnsureRefreshRun, LoadRows, BuildSnapshot, PersistResult, RefreshFails,
           MarkRefreshFailed, CompleteBatch, FailBatch, ReleaseLock, FindsConnectionLost
<1>2. (\E q \in Ops : Commits(q)) \/ changes' = changes
    BY DEF Next, vars, OperationStep, Commits, Launch, LaunchFails, ConnectionLost,
           Killed, LateCommit, RunnerStep, TryLock, Claim, ClaimNothing,
           EnsureRefreshRun, LoadRows, BuildSnapshot, PersistResult, RefreshFails,
           MarkRefreshFailed, CompleteBatch, FailBatch, ReleaseLock, FindsConnectionLost
<1>. QED BY <1>1, <1>2, CommitChanges DEF TypeOK

-----------------------------------------------------------------------------
(* Versions: proof *)

LEMMA BuiltOrderKept ==
    ASSUME MaxDrops = 0, IInv, LockInv, VersionInv, [Next]_vars
    PROVE  Ordered' /\ BuiltBefore'
<1>. USE DEF IInv
<1>1. ASSUME NEW k \in Countries, NEW v \in Built(k)', NEW w \in Built(k)', v.at <= w.at
      PROVE  v.content \subseteq w.content
    <2>1. CASE v \in Built(k) /\ w \in Built(k)
        BY <1>1, <2>1 DEF VersionInv, Ordered
    <2>2. ASSUME NEW r \in Ops, BuildSnapshot(r), runner[r].country = k,
                 w = [content |-> runner[r].result.content, at |-> now + 1],
                 v \in Built(k)
          PROVE  v.content \subseteq w.content
        BY <2>2, BuildMoves DEF VersionInv, LoadedLast
    <2>3. ASSUME NEW r \in Ops, BuildSnapshot(r),
                 v = [content |-> runner[r].result.content, at |-> now + 1],
                 w \in Built(k)
          PROVE  FALSE
        <3>1. w.at <= now /\ w.at \in Nat /\ now \in Nat
            BY <2>3, BuiltType DEF VersionInv, BuiltBefore, TypeOK
        <3>. QED BY <1>1, <2>3, <3>1
    <2>4. ASSUME NEW r \in Ops, BuildSnapshot(r), NEW o \in Ops, BuildSnapshot(o)
          PROVE  o = r
        BY <2>4, BuildMoves, Alone DEF Holding
    <2>. QED BY <2>1, <2>2, <2>3, <2>4, BuiltGrows
<1>2. ASSUME NEW k \in Countries, NEW v \in Built(k)'
      PROVE  v.at <= now' /\ v.content \subseteq changes'[k]
    <2>1. CASE v \in Built(k)
        <3>1. v.at \in Nat /\ v.at <= now /\ v.content \subseteq changes[k]
            BY <2>1, BuiltType DEF VersionInv, BuiltBefore
        <3>. QED BY <3>1, TimeAndChangesGrow
    <2>2. ASSUME NEW r \in Ops, BuildSnapshot(r), runner[r].country = k,
                 v = [content |-> runner[r].result.content, at |-> now + 1]
          PROVE  v.at <= now' /\ v.content \subseteq changes'[k]
        <3>1. now' = now + 1 /\ now \in Nat /\ runner[r].pc = "build"
            BY <2>2, BuildMoves DEF TypeOK
        <3>2. runner[r].result.content \subseteq changes[k]
            BY <2>2, <3>1 DEF VersionInv, LoadedLast
        <3>. QED BY <2>2, <3>1, <3>2, TimeAndChangesGrow
    <2>. QED BY <2>1, <2>2, BuiltGrows
<1>. QED BY <1>1, <1>2 DEF Ordered, BuiltBefore

LEMMA LoadedLastKept ==
    ASSUME MaxDrops = 0, IInv, LockInv, VersionInv, [Next]_vars
    PROVE  LoadedLast'
<1>. USE DEF IInv
<1> SUFFICES ASSUME NEW r \in Ops, NEW k \in Countries,
                    runner'[r].pc = "build", runner'[r].country = k
             PROVE  /\ runner'[r].result.content \subseteq changes'[k]
                    /\ \A v \in Built(k)' : v.content \subseteq runner'[r].result.content
    BY DEF LoadedLast
<1>1. CASE runner'[r] = runner[r]
    <2>1. runner[r].country = k /\ runner[r].pc = "build" /\ runner[r].pc \in Holding
        BY <1>1 DEF Holding
    <2>2. ~ BuildSnapshot(r)
        BY <1>1, <2>1, BuildMoves DEF Moved
    <2>3. \A o \in Ops : BuildSnapshot(o) => o = r
        BY <2>1, Alone, BuildMoves DEF Holding
    <2>4. \A v \in Built(k)' : v \in Built(k)
        BY <2>1, <2>2, <2>3, BuiltGrows
    <2>. QED BY <1>1, <2>1, <2>4, TimeAndChangesGrow DEF VersionInv, LoadedLast
<1>2. CASE /\ LoadRows(r) /\ runner[r].country \in Countries
           /\ Moved(r, "build", Own(r), changes[runner[r].country])
    <2>1. /\ runner[r].country = k
          /\ runner'[r].result.content = changes[k]
          /\ changes' = changes
          /\ runner[r].pc = "load"
        BY <1>2 DEF Moved, LoadRows, At
    <2>2. \A o \in Ops : ~BuildSnapshot(o)
        BY <2>1, Alone, BuildMoves DEF Holding
    <2>3. \A v \in Built(k)' : v \in Built(k)
        BY <1>2, <2>2, BuiltGrows
    <2>. QED BY <2>1, <2>3 DEF VersionInv, BuiltBefore
<1>. QED BY <1>1, <1>2, Moves DEF Moved, Owning

\* Only who built a snapshot completes it.
LEMMA CompletedBy ==
    ASSUME IInv, VersionInv, [Next]_vars, NEW n \in DOMAIN snapshots',
           snapshots'[n].status = "completed", n \in DOMAIN snapshots => ~Complete(n)
    PROVE  \/ \E r \in Ops : PersistResult(r) /\ n = Own(r)
           \/ \E x \in late : LateCommit(x) /\ n = x.snapshot
<1>1. ~SameComplete
    BY DEF SameComplete
<1>2. ASSUME NEW x, Publishes(x) PROVE n = x.snapshot
    BY <1>2, PublishChanges DEF Complete
<1>. QED BY <1>1, <1>2, SnapshotSteps DEF Own

LEMMA UnfinishedKept ==
    ASSUME MaxDrops = 0, IInv, LockInv, VersionInv, [Next]_vars
    PROVE  OwnUnfinished' /\ LateUnfinished'
<1>. USE DEF IInv
<1>1. ASSUME NEW x \in late, LateCommit(x) PROVE runner' = runner /\ late' = late \ {x}
    BY <1>1 DEF LateCommit
<1>2. ASSUME NEW r \in Ops, PersistResult(r) PROVE runner'[r].pc = "complete" /\ Owns(r)
    BY <1>2, GoToMoves DEF PersistResult, At, Refreshing, Moved, Owns, Owning
<1>3. ASSUME NEW r \in Ops, runner'[r].pc \in {"load", "build", "persist", "mark"},
             Owns(r), ~Complete(Own(r)), Own(r) \in DOMAIN snapshots'
      PROVE  snapshots'[Own(r)].status # "completed"
    <2>1. ASSUME NEW o \in Ops, PersistResult(o) PROVE Own(o) # Own(r)
        BY <2>1, <1>2, <1>3 DEF SnapshotsOwned
    <2>2. ASSUME NEW x \in late, LateCommit(x) PROVE x.snapshot # Own(r)
        BY <1>3 DEF SnapshotsOwned
    <2>. QED BY <1>3, <2>1, <2>2, CompletedBy
<1>4. ASSUME NEW r \in Ops, runner'[r].pc \in {"load", "build", "persist", "mark"}
      PROVE  ~Complete(Own(r))'
    <2>1. CASE runner'[r] = runner[r]
        <3>1. Owns(r) /\ ~Complete(Own(r)) /\ Own(r) \in DOMAIN snapshots
            BY <1>4, <2>1 DEF Owns, Owning, VersionInv, OwnUnfinished, SnapshotsOwned
        <3>2. Own(r)' = Own(r) /\ Own(r) \in DOMAIN snapshots'
            BY <2>1, <3>1, CountriesStay DEF Own
        <3>. QED BY <1>3, <1>4, <3>1, <3>2 DEF Complete
    <2>2. CASE EnsureRefreshRun(r) /\ Moved(r, "load", Len(snapshots) + 1, runner[r].result.content)
        <3>1. Own(r)' = Len(snapshots) + 1
            BY <2>2 DEF Moved, Own
        <3>2. /\ Len(snapshots) \in Nat /\ DOMAIN snapshots = 1..Len(snapshots)
              /\ DOMAIN snapshots' = 1..(Len(snapshots) + 1)
            BY <2>2 DEF TypeOK, EnsureRefreshRun
        <3>3. Len(snapshots) + 1 \in DOMAIN snapshots' /\ Len(snapshots) + 1 \notin DOMAIN snapshots
            BY <3>2
        <3>4. runner[r].pc = "ensure" /\ runner'[r].pc = "load"
            BY <2>2 DEF EnsureRefreshRun, At, Moved
        <3>5. \A o \in Ops : ~PersistResult(o)
            BY <3>4, Alone DEF Holding, PersistResult, At
        <3>6. \A x \in late : ~LateCommit(x)
            BY <3>4, <1>1
        <3>. QED BY <3>1, <3>3, <3>5, <3>6, CompletedBy DEF Complete
    <2>3. CASE /\ LoadRows(r) \/ BuildSnapshot(r) \/ RefreshFails(r)
               /\ runner[r].pc \in {"load", "build", "persist"}
               /\ runner'[r].result.snapshot = Own(r)
        <3>1. Owns(r) /\ ~Complete(Own(r)) /\ Own(r) \in DOMAIN snapshots
            BY <1>4, <2>3 DEF Owns, Owning, VersionInv, OwnUnfinished, SnapshotsOwned
        <3>2. Own(r)' = Own(r) /\ Own(r) \in DOMAIN snapshots'
            BY <2>3, <3>1, CountriesStay DEF Own
        <3>. QED BY <1>3, <1>4, <3>1, <3>2 DEF Complete
    <2>4. CASE PersistResult(r)
        BY <1>2, <1>4, <2>4
    <2>. QED BY <1>4, <2>1, <2>2, <2>3, <2>4, Moves
             DEF Moved, LoadRows, BuildSnapshot, At, Owning
<1>5. ASSUME NEW x \in late' PROVE ~Complete(x.snapshot)'
    <2>1. CASE x \in late
        <3>1. ASSUME NEW r \in Ops, PersistResult(r) PROVE Own(r) # x.snapshot
            BY <2>1, <3>1, <1>2 DEF SnapshotsOwned
        <3>2. ASSUME NEW y \in late, LateCommit(y) PROVE y.snapshot # x.snapshot
            BY <1>5, <2>1, <3>2, <1>1 DEF VersionInv, LateUnfinished
        <3>3. x.snapshot \in DOMAIN snapshots' /\ ~Complete(x.snapshot)
            BY <2>1, CountriesStay DEF LateBelongsToNobody, VersionInv, LateUnfinished
        <3>. QED BY <3>1, <3>2, <3>3, CompletedBy DEF Complete
    <2>2. ASSUME NEW r \in Ops, Killed(r), runner[r].pc = "persist", x = runner[r].result
          PROVE  ~Complete(x.snapshot)'
        BY <2>2 DEF Killed, Complete, VersionInv, OwnUnfinished, Own
    <2>. QED BY <2>1, <2>2, LateSteps
<1>6. ASSUME NEW x \in late', NEW y \in late', x.snapshot = y.snapshot PROVE x = y
    <2>1. CASE x \in late /\ y \in late
        BY <1>6, <2>1 DEF VersionInv, LateUnfinished
    <2>2. ASSUME NEW z \in late, NEW r \in Ops, runner[r].pc = "persist",
                 z.snapshot = runner[r].result.snapshot
          PROVE  FALSE
        BY <2>2 DEF SnapshotsOwned, Owns, Owning, Own
    <2>3. ASSUME NEW r \in Ops, runner[r].pc = "persist", NEW o \in Ops, runner[o].pc = "persist"
          PROVE  r = o
        BY <2>3, Alone DEF Holding
    <2>. QED BY <1>6, <2>1, <2>2, <2>3, LateSteps
<1>. QED BY <1>4, <1>5, <1>6 DEF OwnUnfinished, LateUnfinished

LEMMA SomeServedKept ==
    ASSUME IInv, VersionInv, [Next]_vars
    PROVE  SomeServed'
<1>. USE DEF IInv
<1> SUFFICES ASSUME NEW k \in Countries, NEW n \in DOMAIN snapshots',
                    snapshots'[n].status = "completed", snapshots'[n].country = k
             PROVE  Served(k)' # {}
    BY DEF SomeServed, Complete
<1> DEFINE Shown(m) == /\ m \in DOMAIN snapshots
                       /\ snapshots[m].country = k /\ snapshots[m].status = "completed"
<1>1. \A m : Shown(m) => \E l \in Served(k) : TRUE
    BY DEF VersionInv, SomeServed, Complete
<1>2. \A m \in Served(k) : Shown(m) /\ \A l : Shown(l) => snapshots[l].at <= snapshots[m].at
    BY DEF Served
<1>3. \A m \in DOMAIN snapshots : snapshots[m].at \in Nat
    <2>1. \A m \in DOMAIN snapshots : snapshots[m] \in Snapshot
        BY DEF TypeOK
    <2>. QED BY <2>1 DEF Snapshot
<1>4. ASSUME NEW m \in DOMAIN snapshots',
             snapshots'[m].country = k, snapshots'[m].status = "completed",
             \A l \in DOMAIN snapshots' :
                snapshots'[l].country = k /\ snapshots'[l].status = "completed"
                    => snapshots'[l].at <= snapshots'[m].at
      PROVE  Served(k)' # {}
    BY <1>4 DEF Served
<1>5. CASE SameComplete
    <2>1. \A m \in DOMAIN snapshots' :
            snapshots'[m].country = k /\ snapshots'[m].status = "completed"
                => Shown(m) /\ snapshots'[m] = snapshots[m]
        BY <1>5 DEF SameComplete, Complete
    <2>2. PICK m \in Served(k) : TRUE
        BY <1>1, <2>1
    <2>3. Shown(m) /\ m \in DOMAIN snapshots' /\ snapshots'[m] = snapshots[m]
        BY <1>2, <1>5, <2>2 DEF SameComplete, Complete
    <2>. QED BY <1>2, <1>4, <2>1, <2>2, <2>3
<1>6. ASSUME NEW x, Publishes(x) PROVE Served(k)' # {}
    <2> DEFINE i == x.snapshot
    <2>1. /\ DOMAIN snapshots' = DOMAIN snapshots /\ i \in DOMAIN snapshots
          /\ \A m \in DOMAIN snapshots \ {i} : snapshots'[m] = snapshots[m]
          /\ ~Shown(i) /\ snapshots'[i].status = "completed"
          /\ snapshots'[i].at \in Nat
        BY <1>6, PublishChanges DEF Publishes, Complete, Result
    <2>. HIDE DEF i
    <2>2. \A m \in DOMAIN snapshots' \ {i} :
            snapshots'[m].country = k /\ snapshots'[m].status = "completed" <=> Shown(m)
        BY <2>1
    <2>3. CASE Served(k) = {}
        <3>1. \A m : ~Shown(m)
            BY <1>1, <2>3
        <3>2. n = i /\ \A m \in DOMAIN snapshots' \ {i} :
                        ~(snapshots'[m].country = k /\ snapshots'[m].status = "completed")
            BY <2>2, <3>1
        <3>. QED BY <1>4, <2>1, <3>2
    <2>4. ASSUME NEW m \in Served(k) PROVE Served(k)' # {}
        <3>1. /\ Shown(m) /\ m # i /\ snapshots'[m] = snapshots[m] /\ snapshots[m].at \in Nat
              /\ \A l \in DOMAIN snapshots \ {i} :
                    Shown(l) => snapshots'[l].at <= snapshots'[m].at
            BY <1>2, <1>3, <2>1, <2>4
        <3>2. CASE ~(snapshots'[i].country = k) \/ snapshots'[i].at <= snapshots'[m].at
            BY <1>4, <2>1, <2>2, <3>1, <3>2
        <3>3. CASE snapshots'[i].country = k /\ snapshots'[m].at <= snapshots'[i].at
            <4>1. \A l \in DOMAIN snapshots \ {i} : Shown(l) => snapshots'[l].at \in Nat
                BY <1>3, <2>1
            <4>2. \A l \in DOMAIN snapshots' :
                    snapshots'[l].country = k /\ snapshots'[l].status = "completed"
                        => snapshots'[l].at <= snapshots'[i].at
                BY <2>1, <2>2, <3>1, <3>3, <4>1
            <4>. QED BY <1>4, <2>1, <3>3, <4>2
        <3>. QED BY <2>1, <3>1, <3>2, <3>3
    <2>. QED BY <2>3, <2>4
<1>. QED BY <1>5, <1>6, SnapshotSteps

LEMMA VersionsKept ==
    ASSUME MaxDrops = 0, IInv, LockInv, VersionInv, [Next]_vars
    PROVE  VersionInv'
BY BuiltOrderKept, LoadedLastKept, UnfinishedKept, SomeServedKept DEF VersionInv

-----------------------------------------------------------------------------
(* What a step does to the requests *)

\* A batch is claimed, or nothing happens.
ClaimsOnly ==
    \A p \in Ops : \/ request'[p] = request[p]
                   \/ /\ Pending(p) /\ request'[p].status = "started"
                      /\ request'[p].country = request[p].country /\ request'[p].doneAt = 0

Queues(q, k) ==
    /\ request[q].status = "none"
    /\ request'[q] = Queued(k)
    /\ \A p \in Ops \ {q} : request'[p] = request[p]

Ends(r, status, n) ==
    /\ now' = now + 1
    /\ UNCHANGED <<operation, snapshots>>
    /\ \A p \in Ops \ runner[r].batch : request'[p] = request[p]
    /\ \A p \in runner[r].batch :
        /\ request'[p].status = status /\ request'[p].snapshot = n
        /\ request'[p].country = request[p].country /\ request'[p].doneAt = now + 1

LEMMA BatchesEnd ==
    ASSUME IInv, NEW r \in Ops
    PROVE  /\ CompleteBatch(r) => runner[r].pc = "complete" /\ Ends(r, "completed", Own(r))
           /\ FailBatch(r) => runner[r].pc = "fail" /\ Ends(r, "failed", 0)
<1>. USE DEF IInv
<1>1. ASSUME NEW status, NEW n, BatchEnds(runner[r].batch, status, n),
             UNCHANGED <<operation, snapshots>>
      PROVE  Ends(r, status, n)
    <2>1. now' = now + 1
        BY <1>1 DEF BatchEnds
    <2>2. \A p \in Ops \ runner[r].batch : request'[p] = request[p]
        BY <1>1 DEF BatchEnds
    <2> DEFINE ended(p) == [request[p] EXCEPT !.status = status, !.doneAt = now + 1, !.snapshot = n]
    <2>3. request' = [p \in Ops |-> IF p \in runner[r].batch THEN ended(p) ELSE request[p]]
        BY <1>1, <2>1, Zenon DEF BatchEnds
    <2>4. \A p \in Ops : /\ ended(p).status = status /\ ended(p).snapshot = n
                         /\ ended(p).country = request[p].country /\ ended(p).doneAt = now + 1
        BY Elements DEF Request
    <2>. HIDE DEF ended
    <2>5. \A p \in runner[r].batch : p \in Ops /\ request'[p] = ended(p)
        BY <2>3, ResultOf
    <2>. QED BY <1>1, <2>1, <2>2, <2>4, <2>5 DEF Ends
<1>. QED BY <1>1 DEF CompleteBatch, FailBatch, At, Own

LEMMA RequestSteps ==
    ASSUME IInv, [Next]_vars
    PROVE  \/ ClaimsOnly
           \/ \E q \in Ops, k \in Countries : Commits(q) /\ Queues(q, k)
           \/ \E r \in Ops : /\ CompleteBatch(r) /\ runner[r].pc = "complete"
                             /\ Ends(r, "completed", Own(r))
           \/ \E r \in Ops : /\ FailBatch(r) /\ runner[r].pc = "fail"
                             /\ Ends(r, "failed", 0)
<1>. USE DEF IInv
<1>1. ASSUME NEW r \in Ops, Claim(r) PROVE ClaimsOnly
    <2>1. PICK q \in Ops :
            LET k == request[q].country
                batch == {p \in Ops : Claimable(p) /\ request[p].country = k}
            IN  request' = [p \in Ops |->
                    IF p \in batch
                    THEN [request[p] EXCEPT !.status = "started", !.snapshot = 0, !.doneAt = 0]
                    ELSE request[p]]
        BY <1>1 DEF Claim
    <2> DEFINE batch == {p \in Ops : Claimable(p) /\ request[p].country = request[q].country}
               claimed(p) == [request[p] EXCEPT !.status = "started", !.snapshot = 0, !.doneAt = 0]
    <2>2. request' = [p \in Ops |-> IF p \in batch THEN claimed(p) ELSE request[p]]
        BY <2>1, Zenon
    <2>3. \A p \in Ops : /\ claimed(p).status = "started" /\ claimed(p).doneAt = 0
                         /\ claimed(p).country = request[p].country
        BY Elements DEF Request
    <2>4. \A p \in batch : Pending(p)
        BY DEF Claimable
    <2>. HIDE DEF batch, claimed
    <2>5. \A p \in Ops : request'[p] = request[p] \/ (p \in batch /\ request'[p] = claimed(p))
        BY <2>2
    <2>. QED BY <2>3, <2>4, <2>5 DEF ClaimsOnly
<1>2. ASSUME request' = request PROVE ClaimsOnly
    BY <1>2 DEF ClaimsOnly
<1>3. ASSUME NEW q \in Ops, Commits(q)
      PROVE  ClaimsOnly \/ \E k \in Countries : Queues(q, k)
    BY <1>3, CommitChanges DEF ClaimsOnly, Queues
<1>4. ASSUME NEW r \in Ops, RunnerStep(r)
      PROVE  Claim(r) \/ CompleteBatch(r) \/ FailBatch(r) \/ request' = request
    BY <1>4 DEF RunnerStep, TryLock, ClaimNothing, EnsureRefreshRun, LoadRows, BuildSnapshot,
                PersistResult, RefreshFails, MarkRefreshFailed, ReleaseLock, FindsConnectionLost
<1>5. ASSUME NEW q \in Ops, OperationStep(q) PROVE Commits(q) \/ request' = request
    BY <1>5 DEF OperationStep, Commits, Launch, LaunchFails
<1>6. ASSUME \/ UNCHANGED vars
             \/ \E q \in Ops : Killed(q) \/ ConnectionLost(q)
             \/ \E x \in late : LateCommit(x)
      PROVE  request' = request
    BY <1>6 DEF vars, Killed, ConnectionLost, LateCommit
<1>. QED BY <1>1, <1>2, <1>3, <1>4, <1>5, <1>6, BatchesEnd DEF Next

LEMMA OperationsChange ==
    ASSUME [Next]_vars
    PROVE  (\E p \in Ops : Commits(p)) \/ operation' = operation
BY DEF Next, vars, OperationStep, Commits, Launch, LaunchFails, ConnectionLost,
       Killed, LateCommit, RunnerStep, TryLock, Claim, ClaimNothing,
       EnsureRefreshRun, LoadRows, BuildSnapshot, PersistResult, RefreshFails,
       MarkRefreshFailed, CompleteBatch, FailBatch, ReleaseLock, FindsConnectionLost

LEMMA PromotionsGrow ==
    ASSUME IInv, [Next]_vars, NEW q \in Promotions'
    PROVE  \/ q \in Promotions /\ operation'[q] = operation[q]
           \/ \E k \in Countries : Promote(q, k)
<1>. USE DEF IInv
<1>1. ASSUME NEW p \in Ops, CommitAsk(p)
      PROVE  /\ operation[p].kind # "promotion" /\ operation'[p].kind = operation[p].kind
             /\ \A o \in Ops \ {p} : operation'[o] = operation[o]
    <2>1. operation' = [operation EXCEPT ![p] = [operation[p] EXCEPT !.pc = "done",
                                                                     !.asks = FALSE]]
        BY <1>1, Elements DEF CommitAsk, Operation, TypeOK
    <2>2. [operation[p] EXCEPT !.pc = "done", !.asks = FALSE].kind = operation[p].kind
        BY Elements DEF Operation
    <2>3. operation[p].kind # "promotion"
        BY <1>1 DEF CommitAsk, OperationsBeforeRequests
    <2>. QED BY <2>1, <2>2, <2>3 DEF TypeOK
<1>2. ASSUME NEW p \in Ops, NEW k \in Countries, NEW kind \in Kinds \ {"promotion"}, Ask(p, kind, k)
      PROVE  /\ operation'[p].pc = "open"
             /\ \A o \in Ops \ {p} : operation'[o] = operation[o]
    BY <1>2 DEF Ask, TypeOK
<1>3. ASSUME NEW p \in Ops, NEW k \in Countries, Promote(p, k)
      PROVE  \A o \in Ops \ {p} : operation'[o] = operation[o]
    BY <1>3 DEF Promote, TypeOK
<1>4. (\E p \in Ops : Commits(p)) \/ operation' = operation
    BY OperationsChange
<1>5. q \in Ops /\ operation'[q].kind = "promotion" /\ operation'[q].pc = "done"
    BY DEF Promotions
<1>6. CASE operation' = operation
    BY <1>5, <1>6 DEF Promotions
<1>7. ASSUME NEW p \in Ops, Commits(p)
      PROVE  \/ q \in Promotions /\ operation'[q] = operation[q]
             \/ \E k \in Countries : Promote(q, k)
    BY <1>1, <1>2, <1>3, <1>5, <1>7 DEF Promotions, Commits
<1>. QED BY <1>4, <1>6, <1>7

LEMMA FailedBy ==
    ASSUME IInv, [Next]_vars, NEW q \in Ops, request'[q].status = "failed"
    PROVE  \/ /\ request'[q] = request[q]
              /\ q \in Promotions' => q \in Promotions
           \/ \E r \in Ops : /\ FailBatch(r) /\ runner[r].pc = "fail" /\ q \in runner[r].batch
                             /\ now' = now + 1 /\ request'[q].doneAt = now + 1
<1>. USE DEF IInv
<1>1. \/ request'[q] = request[q]
      \/ \E r \in Ops : /\ FailBatch(r) /\ runner[r].pc = "fail" /\ q \in runner[r].batch
                        /\ now' = now + 1 /\ request'[q].doneAt = now + 1
    BY RequestSteps DEF ClaimsOnly, Queues, Queued, NoRequest, Ends
<1>2. ASSUME NEW k \in Countries, Promote(q, k) PROVE FALSE
    BY <1>2 DEF Promote, Queued, NoRequest, TypeOK
<1>. QED BY <1>1, <1>2, PromotionsGrow

LEMMA CompletedByBatch ==
    ASSUME IInv, [Next]_vars, NEW q \in Ops, request'[q].status = "completed"
    PROVE  \/ request'[q] = request[q]
           \/ \E r \in Ops : /\ CompleteBatch(r) /\ runner[r].pc = "complete"
                             /\ now' = now + 1 /\ snapshots' = snapshots
                             /\ q \in runner[r].batch
                             /\ request'[q].doneAt = now + 1 /\ request'[q].snapshot = Own(r)
BY RequestSteps DEF IInv, ClaimsOnly, Queues, Queued, NoRequest, Ends

LEMMA CompleteStays ==
    ASSUME IInv, VersionInv, [Next]_vars, NEW n \in DOMAIN snapshots, Complete(n)
    PROVE  snapshots'[n] = snapshots[n]
BY SnapshotSteps, PublishChanges DEF SameComplete, Publishes

\* While a runner refreshes no batch fails.
LEMMA NoFailureMeanwhile ==
    ASSUME IInv, LockInv, [Next]_vars, NEW r \in Ops, runner[r].pc \in Holding \ {"fail"},
           NEW q \in Ops, request'[q].status = "failed"
    PROVE  request'[q] = request[q] /\ (q \in Promotions' => q \in Promotions)
BY FailedBy, Alone DEF Holding

-----------------------------------------------------------------------------
(* Failures: proof *)

LEMMA FailedShownKept ==
    ASSUME MaxDrops = 0, IInv, LockInv, VersionInv, FailureInv, [Next]_vars
    PROVE  FailedShownLater'
<1>. USE DEF IInv
<1> SUFFICES ASSUME NEW k \in Countries, NEW q \in Promotions', request'[q].status = "failed",
                    request'[q].country = k, NEW v \in Built(k)', request'[q].doneAt < v.at
             PROVE  q \in v.content
    BY DEF FailedShownLater, FailedPromotions, Failed, FailedAt
<1>1. q \in Ops
    BY DEF Promotions
<1>2. CASE request'[q] = request[q] /\ q \in Promotions
    <2>1. q \in FailedPromotions(k) /\ FailedAt(q) < v.at
        BY <1>1, <1>2 DEF FailedPromotions, Failed, FailedAt
    <2>2. CASE v \in Built(k)
        BY <2>1, <2>2 DEF FailureInv, FailedShownLater
    <2>3. ASSUME NEW r \in Ops, BuildSnapshot(r), runner[r].country = k,
                 v = [content |-> runner[r].result.content, at |-> now + 1]
          PROVE  q \in v.content
        BY <2>1, <2>3, BuildMoves DEF FailureInv, FailedLoaded
    <2>. QED BY <2>2, <2>3, BuiltGrows
<1>3. CASE now' = now + 1 /\ request'[q].doneAt = now + 1
    <2>1. v.at <= now + 1 /\ now \in Nat
        BY <1>3, BuiltOrderKept DEF BuiltBefore, TypeOK
    <2>2. v.at \in Nat
        BY BuiltGrows, BuiltType, <2>1
    <2>. QED BY <1>3, <2>1, <2>2
<1>. QED BY <1>1, <1>2, <1>3, FailedBy

LEMMA FailedLoadedKept ==
    ASSUME MaxDrops = 0, IInv, LockInv, VersionInv, FailureInv, [Next]_vars
    PROVE  FailedLoaded'
<1>. USE DEF IInv
<1> SUFFICES ASSUME NEW r \in Ops, NEW k \in Countries, runner'[r].pc = "build",
                    runner'[r].country = k, NEW q \in Promotions',
                    request'[q].status = "failed", request'[q].country = k
             PROVE  q \in runner'[r].result.content
    BY DEF FailedLoaded, FailedPromotions, Failed
<1>1. q \in Ops
    BY DEF Promotions
<1>2. CASE runner'[r] = runner[r]
    <2>1. request'[q] = request[q] /\ q \in Promotions
        BY <1>1, <1>2, NoFailureMeanwhile DEF Holding
    <2>. QED BY <1>1, <1>2, <2>1 DEF FailureInv, FailedLoaded, FailedPromotions, Failed
<1>3. CASE /\ LoadRows(r)
           /\ Moved(r, "build", Own(r), changes[runner[r].country])
    <2>1. request' = request /\ runner[r].pc = "load"
        BY <1>3 DEF LoadRows, At
    <2>2. q \in Promotions
        BY <1>1, <2>1, NoFailureMeanwhile DEF Holding
    <2>3. q \in changes[k]
        BY <2>1, <2>2 DEF PromotionsCommitted
    <2>. QED BY <1>3, <2>3 DEF Moved
<1>. QED BY <1>2, <1>3, Moves DEF Moved, Owning

LEMMA FailedBeforeBuiltKept ==
    ASSUME MaxDrops = 0, IInv, LockInv, VersionInv, FailureInv, [Next]_vars
    PROVE  FailedBeforeBuilt'
<1>. USE DEF IInv
<1> SUFFICES ASSUME NEW q \in Ops, request'[q].status = "failed", NEW r \in Ops
             PROVE  /\ runner'[r].pc = "persist" => request'[q].doneAt < runner'[r].result.at
                    /\ runner'[r].pc = "complete"
                        => request'[q].doneAt < snapshots'[Own(r)'].at
    BY DEF FailedBeforeBuilt, FailedAt
<1>1. CASE runner'[r] = runner[r] /\ runner[r].pc \in {"persist", "complete"}
    <2>1. request'[q] = request[q]
        BY <1>1, NoFailureMeanwhile DEF Holding
    <2>2. Own(r)' = Own(r)
        BY <1>1 DEF Own
    <2>3. runner[r].pc = "complete" => snapshots'[Own(r)] = snapshots[Own(r)]
        BY CompleteStays DEF SnapshotsOwned, Owns, Owning, LoadsCoverBatches, Complete
    <2>. QED BY <1>1, <2>1, <2>2, <2>3 DEF FailureInv, FailedBeforeBuilt, FailedAt
<1>2. CASE BuildSnapshot(r)
    <2>1. /\ runner'[r].pc = "persist" /\ runner'[r].result.at = now + 1
          /\ runner[r].pc = "build"
        BY <1>2, BuildMoves DEF Moved
    <2>2. request'[q] = request[q]
        BY <2>1, NoFailureMeanwhile DEF Holding
    <2>3. request[q].doneAt \in Nat /\ request[q].doneAt <= now /\ now \in Nat
        BY Elements DEF FailureInv, EndedBefore, TypeOK, Request
    <2>. QED BY <2>1, <2>2, <2>3
<1>3. CASE PersistResult(r) /\ Moved(r, "complete", Own(r), runner[r].result.content)
    <2>1. runner[r].pc = "persist" /\ snapshots' = Persisted(runner[r].result)
        BY <1>3 DEF PersistResult, At
    <2>2. request'[q] = request[q]
        BY <2>1, NoFailureMeanwhile DEF Holding
    <2>3. request[q].doneAt < runner[r].result.at
        BY <2>1, <2>2 DEF FailureInv, FailedBeforeBuilt, FailedAt
    <2>4. snapshots'[Own(r)].at = runner[r].result.at
        <3>1. runner[r].result \in Result /\ runner[r].result.snapshot \in DOMAIN snapshots
            BY <2>1, ResultOf DEF SnapshotsOwned, Owns, Owning, Own
        <3>. QED BY <2>1, <3>1 DEF Persisted, Own, TypeOK
    <2>5. Own(r)' = Own(r) /\ runner'[r].pc = "complete"
        BY <1>3 DEF Moved, Own
    <2>. QED BY <2>2, <2>3, <2>4, <2>5
<1>. QED BY <1>1, <1>2, <1>3, Moves DEF Moved, Owning

LEMMA FailedBeforeCompletedKept ==
    ASSUME IInv, LockInv, VersionInv, FailureInv, [Next]_vars
    PROVE  FailedBeforeCompleted'
<1>. USE DEF IInv
<1> SUFFICES ASSUME NEW q \in Ops, NEW p \in Ops, request'[q].status = "failed",
                    request'[p].status = "completed", request'[q].doneAt <= request'[p].doneAt
             PROVE  request'[q].doneAt < snapshots'[request'[p].snapshot].at
    BY DEF FailedBeforeCompleted, FailedAt
<1>1. now \in Nat /\ \A o \in Ops : request[o].doneAt \in Nat /\ request[o].doneAt <= now
    BY Elements DEF FailureInv, EndedBefore, TypeOK, Request
<1>2. CASE request'[q] = request[q] /\ request'[p] = request[p]
    <2>1. /\ request[p].snapshot \in DOMAIN snapshots
          /\ Complete(request[p].snapshot)
        BY <1>2 DEF CompletedIsCovered, Complete
    <2>. QED BY <1>2, <2>1, CompleteStays DEF FailureInv, FailedBeforeCompleted, FailedAt
<1>3. ASSUME request'[q] = request[q], NEW r \in Ops, runner[r].pc = "complete",
             request'[p].snapshot = Own(r), snapshots' = snapshots
      PROVE  request'[q].doneAt < snapshots'[request'[p].snapshot].at
    BY <1>3 DEF FailureInv, FailedBeforeBuilt, FailedAt
<1>4. ASSUME request'[q].doneAt = now + 1, request'[p] = request[p] PROVE FALSE
    BY <1>1, <1>4
<1>5. ASSUME NEW r \in Ops, runner[r].pc = "fail", NEW o \in Ops, runner[o].pc = "complete"
      PROVE  FALSE
    BY <1>5, Alone DEF Holding
<1>. QED BY <1>2, <1>3, <1>4, <1>5, FailedBy, CompletedByBatch

LEMMA EndedBeforeKept ==
    ASSUME IInv, FailureInv, [Next]_vars
    PROVE  EndedBefore'
<1>. USE DEF IInv
<1> SUFFICES ASSUME NEW q \in Ops
             PROVE  /\ request'[q].doneAt <= now'
                    /\ request'[q].status \in {"none", "queued", "started"}
                        => request'[q].doneAt = 0
                    /\ request'[q].status = "none" => request'[q].country = None
    BY DEF EndedBefore
<1>1. /\ now \in Nat /\ (now' = now \/ now' = now + 1)
      /\ request[q].doneAt \in Nat /\ request[q].doneAt <= now
    BY TimeAndChangesGrow, Elements DEF FailureInv, EndedBefore, Request
<1>2. CASE request'[q] = request[q]
    BY <1>1, <1>2 DEF FailureInv, EndedBefore
<1>3. CASE request'[q].status = "started" /\ request'[q].doneAt = 0
    BY <1>1, <1>3
<1>4. ASSUME NEW k \in Countries, request'[q] = Queued(k)
      PROVE  request'[q].status = "queued" /\ request'[q].doneAt = 0
    BY <1>4 DEF Queued, NoRequest
<1>5. CASE /\ now' = now + 1 /\ request'[q].doneAt = now + 1
           /\ request'[q].status \in {"completed", "failed"}
    BY <1>1, <1>5
<1>. QED BY <1>1, <1>2, <1>3, <1>4, <1>5, RequestSteps DEF ClaimsOnly, Queues, Ends

LEMMA SomeLatestKept ==
    ASSUME IInv, FailureInv, [Next]_vars
    PROVE  SomeLatest'
<1>. USE DEF IInv
<1> SUFFICES ASSUME NEW k \in Countries, NEW q \in Ops, request'[q].status # "none",
                    request'[q].country = k
             PROVE  \E l \in Ops : /\ request'[l].status # "none" /\ request'[l].country = k
                                   /\ \A p \in Ops : request'[p].country = k
                                        => request'[p].doneAt <= request'[l].doneAt
    BY DEF SomeLatest, LatestRequest
<1>1. now \in Nat /\ \A p \in Ops : request[p].doneAt \in Nat /\ request[p].doneAt <= now
    BY Elements DEF FailureInv, EndedBefore, TypeOK, Request
<1>2. \A o \in Ops : request[o].status # "none" /\ request[o].country = k =>
        \E l \in Ops : /\ request[l].status # "none" /\ request[l].country = k
                       /\ \A p \in Ops : request[p].country = k
                            => request[p].doneAt <= request[l].doneAt
    BY DEF FailureInv, SomeLatest, LatestRequest
<1>3. CASE ClaimsOnly
    <2>1. \A p \in Ops : /\ request'[p].status # "none" <=> request[p].status # "none"
                         /\ request'[p].country = request[p].country
                         /\ request'[p].doneAt = request[p].doneAt
        BY <1>3 DEF ClaimsOnly, Pending, FailureInv, EndedBefore
    <2>. QED BY <1>2, <2>1
<1>4. ASSUME NEW o \in Ops, NEW c \in Countries, Queues(o, c)
      PROVE  \E l \in Ops : /\ request'[l].status # "none" /\ request'[l].country = k
                            /\ \A p \in Ops : request'[p].country = k
                                 => request'[p].doneAt <= request'[l].doneAt
    <2>1. /\ request'[o].status # "none" /\ request'[o].country = c /\ request'[o].doneAt = 0
          /\ request[o].status = "none"
          /\ \A p \in Ops \ {o} : request'[p] = request[p]
        BY <1>4 DEF Queues, Queued, NoRequest
    <2>2. CASE \E p \in Ops : request[p].status # "none" /\ request[p].country = k
        BY <1>1, <1>2, <2>1, <2>2
    <2>3. CASE ~ \E p \in Ops : request[p].status # "none" /\ request[p].country = k
        <3>1. q = o
            BY <2>1, <2>3
        <3>2. \A p \in Ops : request[p].country = k => request[p].status # "none"
            BY OpsAssumption DEF FailureInv, EndedBefore
        <3>3. \A p \in Ops : request'[p].country = k => p = o
            BY <2>1, <2>3, <3>2
        <3>. QED BY <2>1, <3>1, <3>3
    <2>. QED BY <2>2, <2>3
<1>5. ASSUME NEW r \in Ops, NEW status \in {"completed", "failed"}, NEW n, Ends(r, status, n)
      PROVE  \E l \in Ops : /\ request'[l].status # "none" /\ request'[l].country = k
                            /\ \A p \in Ops : request'[p].country = k
                                 => request'[p].doneAt <= request'[l].doneAt
    <2>1. /\ runner[r].batch \subseteq Ops
          /\ \A p \in Ops \ runner[r].batch : request'[p] = request[p]
          /\ \A p \in runner[r].batch :
                /\ request'[p].status # "none" /\ request'[p].doneAt = now + 1
                /\ request'[p].country = request[p].country
        BY <1>5, ResultOf DEF Ends
    <2>2. \A p \in Ops : request'[p].doneAt <= now + 1
        BY <1>1, <2>1
    <2>3. CASE \E p \in runner[r].batch : request'[p].country = k
        BY <2>1, <2>2, <2>3
    <2>4. CASE ~ \E p \in runner[r].batch : request'[p].country = k
        <3>1. \A p \in Ops : request'[p].country = k \/ request[p].country = k
                                => request'[p] = request[p]
            BY <2>1, <2>4
        <3>. QED BY <1>2, <3>1
    <2>. QED BY <2>3, <2>4
<1>. QED BY <1>3, <1>4, <1>5, RequestSteps

LEMMA CountriesAgreeKept ==
    ASSUME IInv, FailureInv, [Next]_vars
    PROVE  CountriesAgree'
<1>. USE DEF IInv
<1> SUFFICES ASSUME NEW q \in Promotions'
             PROVE  /\ request'[q].status # "none"
                    /\ operation'[q].country = request'[q].country
    BY DEF CountriesAgree
<1>1. q \in Ops
    BY DEF Promotions
<1>2. CASE q \in Promotions /\ operation'[q] = operation[q]
    <2>1. request[q].status # "none" /\ operation[q].country = request[q].country
        BY <1>2 DEF FailureInv, CountriesAgree
    <2>2. request'[q].status # "none" /\ request'[q].country = request[q].country
        BY <1>1, <2>1, RequestSteps DEF ClaimsOnly, Queues, Ends
    <2>. QED BY <1>2, <2>1, <2>2
<1>3. ASSUME NEW k \in Countries, Promote(q, k)
      PROVE  operation'[q].country = k /\ request'[q] = Queued(k)
    BY <1>1, <1>3 DEF Promote, TypeOK
<1>. QED BY <1>2, <1>3, PromotionsGrow DEF Queued, NoRequest

LEMMA FailuresKept ==
    ASSUME MaxDrops = 0, IInv, LockInv, VersionInv, FailureInv, [Next]_vars
    PROVE  FailureInv'
BY FailedShownKept, FailedLoadedKept, FailedBeforeBuiltKept, FailedBeforeCompletedKept,
   EndedBeforeKept, SomeLatestKept, CountriesAgreeKept DEF FailureInv

-----------------------------------------------------------------------------
(* A healthy country is fresh *)

LEMMA StartsOrdered ==
    ASSUME Init
    PROVE  LockInv /\ VersionInv /\ FailureInv
<1>. USE DEF Init
<1>1. DOMAIN snapshots = {} /\ late = {}
    OBVIOUS
<1>2. \A q \in Ops : /\ request[q].status = "none" /\ request[q].country = None
                     /\ request[q].doneAt = 0
                     /\ runner[q].pc = "none"
                     /\ operation[q].pc = "idle"
    BY DEF NoRequest, NoRunner, NoOperation
<1>3. LockInv
    BY <1>2 DEF LockInv, HolderHasLock, BatchIsStarted, ChangesAreCommitted, Holding, Refreshing
<1>4. \A k \in Countries : Built(k) = {}
    BY <1>1, <1>2 DEF Built
<1>5. VersionInv
    BY <1>1, <1>2, <1>4 DEF VersionInv, Ordered, BuiltBefore, LoadedLast, OwnUnfinished,
                            LateUnfinished, SomeServed
<1>6. Promotions = {} /\ \A k \in Countries : FailedPromotions(k) = {}
    BY <1>2 DEF Promotions, FailedPromotions
<1>7. FailureInv
    BY <1>2, <1>4, <1>6 DEF FailureInv, FailedShownLater, FailedLoaded, FailedBeforeBuilt,
       FailedBeforeCompleted, EndedBefore, SomeLatest, CountriesAgree
<1>. QED BY <1>3, <1>5, <1>7

\* What is served shows whatever a completed snapshot shows.
ServedIsNewest ==
    \A k \in Countries :
        /\ \A n \in DOMAIN snapshots : Complete(n) /\ snapshots[n].country = k
                => snapshots[n].content \subseteq ServedContent(k)
        /\ ServedContent(k) \subseteq changes[k]

LEMMA ServedShows ==
    ASSUME IInv, VersionInv
    PROVE  ServedIsNewest
<1>. USE DEF IInv
<1> SUFFICES ASSUME NEW k \in Countries
             PROVE  /\ \A n \in DOMAIN snapshots : Complete(n) /\ snapshots[n].country = k
                            => snapshots[n].content \subseteq ServedContent(k)
                    /\ ServedContent(k) \subseteq changes[k]
    BY DEF ServedIsNewest
<1>1. \A n \in DOMAIN snapshots : Complete(n) /\ snapshots[n].country = k =>
        /\ [content |-> snapshots[n].content, at |-> snapshots[n].at] \in Built(k)
        /\ snapshots[n].content \subseteq changes[k]
    BY DEF Built, VersionInv, BuiltBefore
<1>2. \A n \in Served(k) : n \in DOMAIN snapshots /\ Complete(n) /\ snapshots[n].country = k
    BY DEF Served, Complete
<1>3. ASSUME NEW n \in DOMAIN snapshots, Complete(n), snapshots[n].country = k
      PROVE  snapshots[n].content \subseteq ServedContent(k)
    <2>1. PICK m \in Served(k) : TRUE
        BY <1>3 DEF VersionInv, SomeServed
    <2>2. snapshots[n].at <= snapshots[m].at
        BY <1>3 DEF Served, Complete
    <2>3. snapshots[n].content \subseteq snapshots[m].content
        <3> DEFINE v == [content |-> snapshots[n].content, at |-> snapshots[n].at]
                   w == [content |-> snapshots[m].content, at |-> snapshots[m].at]
        <3>1. v \in Built(k) /\ w \in Built(k)
            BY <1>1, <1>2, <1>3
        <3>2. v.at = snapshots[n].at /\ w.at = snapshots[m].at
              /\ v.content = snapshots[n].content /\ w.content = snapshots[m].content
            OBVIOUS
        <3>. HIDE DEF v, w
        <3>. QED BY <2>2, <3>1, <3>2 DEF VersionInv, Ordered
    <2>. QED BY <2>3 DEF ServedContent
<1>4. ServedContent(k) \subseteq changes[k]
    BY <1>1, <1>2 DEF ServedContent
<1>. QED BY <1>3, <1>4

LEMMA ServedShowsNext == IInv' /\ VersionInv' => ServedIsNewest'
<1>1. IInv /\ VersionInv => ServedIsNewest
    BY ServedShows
<1>. QED BY <1>1, PTL

LEMMA HealthyIsFresh ==
    ASSUME IInv, VersionInv, FailureInv
    PROVE  HealthyMeansFresh
<1>. USE DEF IInv
<1> SUFFICES ASSUME NEW k \in Countries, HealthyOrStale(k),
                    NEW q \in Promotions, operation[q].country = k
             PROVE  q \in ServedContent(k)
    BY DEF HealthyMeansFresh
<1>1. /\ q \in Ops /\ request[q].country = k /\ request[q].status # "none"
    BY DEF Promotions, FailureInv, CountriesAgree
<1>2. \A p \in Ops : request[p].country = k /\ request[p].status # "none"
            => request[p].status \in {"completed", "failed"}
    BY Elements DEF HealthyOrStale, PendingIn, Pending, Request
<1>3. \A p \in Ops : request[p].status = "completed" /\ request[p].country = k =>
        /\ request[p].snapshot \in DOMAIN snapshots
        /\ Complete(request[p].snapshot)
        /\ snapshots[request[p].snapshot].country = k
    BY DEF CompletedIsCovered, Complete
<1>4. CASE request[q].status = "completed"
    <2>1. q \in snapshots[request[q].snapshot].content
        BY <1>1, <1>4 DEF CompletedIsCovered
    <2>. QED BY <1>1, <1>3, <1>4, <2>1, ServedShows DEF ServedIsNewest
<1>5. CASE request[q].status = "failed"
    <2>1. q \in FailedPromotions(k)
        BY <1>1, <1>5 DEF FailedPromotions, Failed
    <2>2. \A n \in DOMAIN snapshots :
            Complete(n) /\ snapshots[n].country = k /\ FailedAt(q) < snapshots[n].at
                => q \in ServedContent(k)
        <3>1. ASSUME NEW n \in DOMAIN snapshots, Complete(n), snapshots[n].country = k,
                     FailedAt(q) < snapshots[n].at
              PROVE  q \in snapshots[n].content
            <4> DEFINE v == [content |-> snapshots[n].content, at |-> snapshots[n].at]
            <4>1. v \in Built(k)
                BY <3>1 DEF Built
            <4>2. v.at = snapshots[n].at /\ v.content = snapshots[n].content
                OBVIOUS
            <4>. HIDE DEF v
            <4>. QED BY <2>1, <3>1, <4>1, <4>2 DEF FailureInv, FailedShownLater
        <3>. QED BY <3>1, ServedShows DEF ServedIsNewest
    <2>3. PICK l \in LatestRequest(k) : TRUE
        BY <1>1 DEF FailureInv, SomeLatest
    <2>4. /\ l \in Ops /\ request[l].country = k /\ request[l].status # "none"
          /\ request[q].doneAt <= request[l].doneAt
        BY <1>1 DEF LatestRequest
    <2>5. \A p \in Ops : request[p].doneAt \in Nat
        BY Elements DEF Request
    <2>6. CASE request[l].status = "completed"
        <3>1. FailedAt(q) < snapshots[request[l].snapshot].at
            BY <1>1, <1>5, <2>4, <2>6 DEF FailureInv, FailedBeforeCompleted, FailedAt
        <3>. QED BY <1>3, <2>2, <2>4, <2>6, <3>1
    <2>7. CASE request[l].status = "failed"
        <3>1. LatestRequest(k) \cap Failed(k) # {}
            BY <2>3, <2>4, <2>7 DEF Failed
        <3>2. PICK n \in Served(k), p \in LatestRequest(k) :
                    ~(request[p].doneAt >= snapshots[n].at)
            BY <3>1 DEF HealthyOrStale, LastRefreshFailed
        <3>3. /\ n \in DOMAIN snapshots /\ Complete(n) /\ snapshots[n].country = k
              /\ p \in Ops /\ request[q].doneAt <= request[p].doneAt
            BY <1>1 DEF Served, Complete, LatestRequest
        <3>4. snapshots[n].at \in Nat
            <4>1. snapshots[n] \in Snapshot
                BY <3>3 DEF TypeOK
            <4>. QED BY <4>1 DEF Snapshot
        <3>5. FailedAt(q) < snapshots[n].at
            BY <1>1, <2>5, <3>2, <3>3, <3>4 DEF FailedAt
        <3>. QED BY <2>2, <3>3, <3>5
    <2>. QED BY <1>2, <2>4, <2>6, <2>7
<1>. QED BY <1>1, <1>2, <1>4, <1>5

\* The dashboard calls no country healthy whose list lacks a promotion (the status
\* of load_dashboard_health), however many refreshes failed.
THEOREM HealthyCountriesAreFresh ==
    ASSUME MaxDrops = 0
    PROVE  Spec => []HealthyMeansFresh
<1>1. Init => IInv /\ LockInv /\ VersionInv /\ FailureInv
    BY Starts, StartsOrdered
<1>2. IInv /\ LockInv /\ VersionInv /\ FailureInv /\ [Next]_vars
        => (IInv /\ LockInv /\ VersionInv /\ FailureInv)'
    BY Keeps, LockKeeps, VersionsKept, FailuresKept
<1>3. IInv /\ VersionInv /\ FailureInv => HealthyMeansFresh
    BY HealthyIsFresh
<1>. QED BY <1>1, <1>2, <1>3, PTL DEF Spec

-----------------------------------------------------------------------------
(* The refresh implements the public projection *)

LEMMA SameListServed ==
    ASSUME NEW k \in Countries,
           \A n : /\ n \in DOMAIN snapshots /\ Complete(n) /\ snapshots[n].country = k
                        => n \in DOMAIN snapshots' /\ snapshots'[n] = snapshots[n]
                  /\ n \in DOMAIN snapshots' /\ snapshots'[n].status = "completed"
                        /\ snapshots'[n].country = k
                        => n \in DOMAIN snapshots /\ snapshots'[n] = snapshots[n]
    PROVE  ServedContent(k)' = ServedContent(k)
<1>1. \A n : n \in Served(k) <=> n \in Served(k)'
    BY DEF Served, Complete
<1>2. \A n \in Served(k) : snapshots'[n] = snapshots[n]
    BY DEF Served, Complete
<1>. QED BY <1>1, <1>2 DEF ServedContent

LEMMA ServedSteps ==
    ASSUME MaxDrops = 0, IInv, LockInv, VersionInv, [Next]_vars
    PROVE  \/ \A k \in Countries : ServedContent(k)' = ServedContent(k)
           \/ /\ UNCHANGED <<operation, request, changes>>
              /\ \E k \in Countries : /\ ServedContent(k) \subseteq ServedContent(k)'
                                      /\ ServedContent(k)' \subseteq changes[k]
                                      /\ \A c \in Countries \ {k} :
                                            ServedContent(c)' = ServedContent(c)
<1>. USE DEF IInv
<1>1. CASE SameComplete
    BY <1>1, SameListServed DEF SameComplete, Complete
<1>2. ASSUME NEW x, Publishes(x), UNCHANGED <<operation, request, changes>>
      PROVE  \E k \in Countries : /\ ServedContent(k) \subseteq ServedContent(k)'
                                  /\ ServedContent(k)' \subseteq changes[k]
                                  /\ \A c \in Countries \ {k} :
                                        ServedContent(c)' = ServedContent(c)
    <2>1. PICK k \in Countries : k = snapshots[x.snapshot].country
        <3>1. x.snapshot \in DOMAIN snapshots
            BY <1>2 DEF Publishes
        <3>2. snapshots[x.snapshot] \in Snapshot
            BY <3>1 DEF TypeOK
        <3>. QED BY <3>2 DEF Snapshot
    <2>2. \A c \in Countries \ {k} : ServedContent(c)' = ServedContent(c)
        <3> SUFFICES ASSUME NEW c \in Countries \ {k} PROVE ServedContent(c)' = ServedContent(c)
            OBVIOUS
        <3>1. \A n : \/ snapshots'[n] = snapshots[n] /\ (n \in DOMAIN snapshots' <=> n \in DOMAIN snapshots)
                     \/ n = x.snapshot /\ snapshots'[n].country = k
                     \/ n \notin DOMAIN snapshots /\ n \notin DOMAIN snapshots'
            BY <1>2, <2>1, PublishChanges
        <3>2. k # c
            OBVIOUS
        <3>3. \A n : /\ n \in DOMAIN snapshots /\ Complete(n) /\ snapshots[n].country = c
                          => n \in DOMAIN snapshots' /\ snapshots'[n] = snapshots[n]
                     /\ n \in DOMAIN snapshots' /\ snapshots'[n].status = "completed"
                          /\ snapshots'[n].country = c
                          => n \in DOMAIN snapshots /\ snapshots'[n] = snapshots[n]
            BY <1>2, <2>1, <3>1, <3>2 DEF Publishes
        <3>. QED BY <3>3, SameListServed
    <2>3. IInv' /\ VersionInv'
        BY Keeps, VersionsKept
    <2>4. /\ \A n \in DOMAIN snapshots' :
                snapshots'[n].status = "completed" /\ snapshots'[n].country = k
                    => snapshots'[n].content \subseteq ServedContent(k)'
          /\ ServedContent(k)' \subseteq changes'[k]
        BY <2>1, <2>3, ServedShowsNext DEF ServedIsNewest, Complete
    <2>5. \A n \in Served(k) :
            /\ n \in DOMAIN snapshots'
            /\ snapshots'[n].status = "completed" /\ snapshots'[n].country = k
            /\ snapshots'[n].content = snapshots[n].content
        BY <1>2, CountriesStay, CompleteStays DEF Served, Complete
    <2>6. ServedContent(k) \subseteq ServedContent(k)'
        BY <2>4, <2>5 DEF ServedContent
    <2>7. changes' = changes
        BY <1>2
    <2>. QED BY <2>1, <2>2, <2>4, <2>6, <2>7
<1>3. ASSUME NEW r \in Ops, PersistResult(r) PROVE UNCHANGED <<operation, request, changes>>
    BY <1>3 DEF PersistResult
<1>4. ASSUME NEW x \in late, LateCommit(x) PROVE UNCHANGED <<operation, request, changes>>
    BY <1>4 DEF LateCommit
<1>. QED BY <1>1, <1>2, <1>3, <1>4, SnapshotSteps

PublicList == [k \in Countries |-> ServedContent(k)]
Reported == {q \in Promotions : request[q].status = "completed"}

\* The promotions that are reported only become more with a completed batch.
LEMMA ReportedSteps ==
    ASSUME MaxDrops = 0, IInv, LockInv, [Next]_vars
    PROVE  \/ Reported' = Reported
           \/ \E r \in Ops : /\ CompleteBatch(r)
                             /\ UNCHANGED <<changes, snapshots>>
                             /\ Reported' = Reported \cup (runner[r].batch \cap Promotions)
<1>. USE DEF IInv
<1>1. ASSUME NEW q \in Ops, NEW k \in Countries, Promote(q, k)
      PROVE  request'[q].status # "completed"
    BY <1>1 DEF Promote, TypeOK, Queued, NoRequest
<1>2. \A q \in Promotions' : request'[q].status = "completed" => q \in Promotions
    BY <1>1, PromotionsGrow DEF Promotions
<1>3. Promotions \subseteq Promotions'
    <2>1. ASSUME NEW p \in Ops, Commits(p)
          PROVE  operation[p].pc # "done" /\ \A o \in Ops \ {p} : operation'[o] = operation[o]
        BY <2>1, CommitChanges
    <2>. QED BY <2>1, OperationsChange DEF Promotions
<1>4. Promotions \subseteq Ops
    BY DEF Promotions
<1>5. ASSUME \A q \in Ops : request'[q].status = "completed" <=> request[q].status = "completed"
      PROVE  Reported' = Reported
    BY <1>2, <1>3, <1>4, <1>5 DEF Reported, Promotions
<1>6. CASE ClaimsOnly
    BY <1>5, <1>6 DEF ClaimsOnly, Pending
<1>7. ASSUME NEW q \in Ops, NEW k \in Countries, Queues(q, k) PROVE Reported' = Reported
    BY <1>5, <1>7 DEF Queues, Queued, NoRequest
<1>8. ASSUME NEW r \in Ops, FailBatch(r), runner[r].pc = "fail", Ends(r, "failed", 0)
      PROVE  Reported' = Reported
    <2>1. \A q \in runner[r].batch : request[q].status = "started" /\ request'[q].status = "failed"
        BY <1>8 DEF LockInv, BatchIsStarted, Refreshing, Ends
    <2>2. \A q \in Ops \ runner[r].batch : request'[q] = request[q]
        BY <1>8 DEF Ends
    <2>. QED BY <1>5, <2>1, <2>2
<1>9. ASSUME NEW r \in Ops, CompleteBatch(r), Ends(r, "completed", Own(r))
      PROVE  /\ UNCHANGED <<changes, snapshots>>
             /\ Reported' = Reported \cup (runner[r].batch \cap Promotions)
    <2>1. UNCHANGED <<changes, snapshots, operation>>
        BY <1>9 DEF CompleteBatch
    <2>2. Promotions' = Promotions
        BY <2>1 DEF Promotions
    <2>3. \A q \in Ops : request'[q].status = "completed"
                            <=> request[q].status = "completed" \/ q \in runner[r].batch
        BY <1>9 DEF Ends
    <2>. QED BY <1>4, <2>1, <2>2, <2>3 DEF Reported
<1>. QED BY <1>6, <1>7, <1>8, <1>9, RequestSteps

LEMMA ChangeSteps ==
    ASSUME MaxDrops = 0, IInv, LockInv, [Next]_vars, changes' # changes
    PROVE  /\ \E k \in Countries, q \in Ops :
                /\ \A c \in Countries : q \notin changes[c]
                /\ changes' = [changes EXCEPT ![k] = @ \cup {q}]
           /\ snapshots' = snapshots
           /\ Reported' = Reported
<1>. USE DEF IInv
<1>1. PICK q \in Ops : Commits(q)
    BY DEF Next, vars, OperationStep, Commits, Launch, LaunchFails, ConnectionLost,
           Killed, LateCommit, RunnerStep, TryLock, Claim, ClaimNothing,
           EnsureRefreshRun, LoadRows, BuildSnapshot, PersistResult, RefreshFails,
           MarkRefreshFailed, CompleteBatch, FailBatch, ReleaseLock, FindsConnectionLost
<1>2. operation[q].pc # "done" /\ UNCHANGED <<snapshots, now>>
    BY <1>1, CommitChanges
<1>3. \A c \in Countries : q \notin changes[c]
    BY <1>2 DEF LockInv, ChangesAreCommitted
<1>4. \E k \in Countries : changes' = [changes EXCEPT ![k] = @ \cup {q}]
    <2>1. CASE CommitAsk(q)
        <3>1. operation[q].country \in Countries
            BY <2>1 DEF CommitAsk, OperationsBeforeRequests
        <3>2. changes' = [changes EXCEPT ![operation[q].country] = @ \cup {q}]
            BY <2>1 DEF CommitAsk
        <3>. QED BY <3>1, <3>2
    <2>2. CASE \E k \in Countries : Promote(q, k)
        BY <2>2 DEF Promote
    <2>3. CASE \E k \in Countries, kind \in Kinds \ {"promotion"} : Ask(q, kind, k)
        BY <2>3 DEF Ask
    <2>. QED BY <1>1, <2>1, <2>2, <2>3 DEF Commits
<1>5. \A r \in Ops : ~CompleteBatch(r)
    BY DEF CompleteBatch
<1>. QED BY <1>2, <1>3, <1>4, <1>5, ReportedSteps

\* Every step of the refresh is a step of the public projection, or none.
LEMMA StepRefines ==
    ASSUME MaxDrops = 0, IInv, LockInv, VersionInv, [Next]_vars
    PROVE  Projection!Next \/ UNCHANGED <<changes, PublicList, Reported>>
<1>. USE DEF IInv
<1>1. ASSUME snapshots' = snapshots PROVE PublicList' = PublicList
    <2>1. \A k \in Countries : ServedContent(k)' = ServedContent(k)
        BY <1>1, SameListServed DEF Complete
    <2>. QED BY <2>1 DEF PublicList
<1>2. CASE changes' # changes
    <2>1. /\ PublicList' = PublicList /\ Reported' = Reported
          /\ \E k \in Countries, q \in Ops :
                /\ \A c \in Countries : q \notin changes[c]
                /\ changes' = [changes EXCEPT ![k] = @ \cup {q}]
        BY <1>1, <1>2, ChangeSteps
    <2>. QED BY <2>1 DEF Projection!Next, Projection!Change, PublicList, Reported
<1>3. ASSUME NEW r \in Ops, CompleteBatch(r), UNCHANGED <<changes, snapshots>>,
             Reported' = Reported \cup (runner[r].batch \cap Promotions)
      PROVE  Projection!Next
    <2> DEFINE k == runner[r].country
               shown == runner[r].batch \cap Promotions
    <2>1. k \in Countries /\ runner[r].pc = "complete"
        BY <1>3 DEF CompleteBatch, At, BatchesOfCountry, Refreshing
    <2>2. /\ Own(r) \in DOMAIN snapshots /\ Complete(Own(r)) /\ snapshots[Own(r)].country = k
          /\ shown \subseteq snapshots[Own(r)].content
        BY <2>1 DEF SnapshotsOwned, LoadsCoverBatches, Owns, Owning, Complete
    <2>3. shown \subseteq ServedContent(k)
        BY <2>1, <2>2, ServedShows DEF ServedIsNewest
    <2>4. PublicList' = PublicList
        BY <1>1, <1>3
    <2>. HIDE DEF k, shown
    <2>5. shown \in SUBSET PublicList[k]
        BY <2>1, <2>3 DEF PublicList
    <2>6. Reported' = Reported \cup shown
        BY <1>3 DEF shown
    <2>. QED BY <1>3, <2>1, <2>4, <2>5, <2>6
             DEF Projection!Next, Projection!Report, PublicList, Reported
<1>4. ASSUME UNCHANGED <<operation, request, changes>>, NEW k \in Countries,
             ServedContent(k) \subseteq ServedContent(k)',
             ServedContent(k)' \subseteq changes[k],
             \A c \in Countries \ {k} : ServedContent(c)' = ServedContent(c)
      PROVE  Projection!Next
    <2>1. PICK content : content = ServedContent(k)'
        OBVIOUS
    <2>2. PublicList' = [PublicList EXCEPT ![k] = content]
        BY <1>4, <2>1 DEF PublicList
    <2>3. PublicList[k] \subseteq content /\ content \in SUBSET changes[k]
        BY <1>4, <2>1 DEF PublicList
    <2>4. Reported' = Reported
        BY <1>4 DEF Reported, Promotions
    <2>. QED BY <1>4, <2>2, <2>3, <2>4
             DEF Projection!Next, Projection!Publish, PublicList, Reported
<1>5. CASE \A k \in Countries : ServedContent(k)' = ServedContent(k)
    <2>1. PublicList' = PublicList
        BY <1>5 DEF PublicList
    <2>. QED BY <1>2, <1>3, <2>1, ReportedSteps
<1>. QED BY <1>4, <1>5, ServedSteps

LEMMA StartRefines ==
    ASSUME Init
    PROVE  Projection!Init
<1>1. DOMAIN snapshots = {} /\ changes = [k \in Countries |-> {}]
    BY DEF Init
<1>2. \A k \in Countries : ServedContent(k) = {}
    BY <1>1 DEF ServedContent, Served
<1>3. Promotions = {}
    BY DEF Init, NoOperation, Promotions
<1>. QED BY <1>1, <1>2, <1>3 DEF Projection!Init

\* The list of a country never goes back to an older content, and never claims a
\* promotion that it does not show, however the runners of persist_refresh_result
\* and complete_aggregate_refresh_batch die in between.
THEOREM RefreshImplementsProjection ==
    ASSUME MaxDrops = 0
    PROVE  Spec => ImplementsProjection
<1>1. Init => IInv /\ LockInv /\ VersionInv
    BY Starts, StartsOrdered
<1>2. IInv /\ LockInv /\ VersionInv /\ [Next]_vars => (IInv /\ LockInv /\ VersionInv)'
    BY Keeps, LockKeeps, VersionsKept
<1>3. Init => Projection!Init
    BY StartRefines
<1>4. IInv /\ LockInv /\ VersionInv /\ [Next]_vars
        => [Projection!Next]_<<changes, [k \in Countries |-> ServedContent(k)],
                               {q \in Promotions : request[q].status = "completed"}>>
    BY StepRefines DEF PublicList, Reported
<1>. QED BY <1>1, <1>2, <1>3, <1>4, PTL DEF Spec, ImplementsProjection, Projection!Spec
=============================================================================
