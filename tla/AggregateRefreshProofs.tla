------------------------ MODULE AggregateRefreshProofs ------------------------
(* What AggregateRefresh promises for any number of operations, countries,  *)
(* faults and lost connections.                                             *)
EXTENDS AggregateRefresh, TLAPS

-----------------------------------------------------------------------------
(* The inductive invariant *)

\* A runner has a snapshot of its own from the moment it inserted the row to the
\* end of the batch.
Owning == {"load", "build", "persist", "mark", "complete"}
Owns(r) == runner[r].pc \in Owning
Own(r) == runner[r].result.snapshot

\* An operation has no request before it is committed, and only promotions that
\* are committed count as promotions.
OperationsBeforeRequests ==
    \A q \in Ops :
        /\ operation[q].pc # "done" => request[q].status = "none"
        /\ operation[q].pc = "open" =>
               operation[q].country \in Countries /\ operation[q].kind # "promotion"
        /\ request[q].status # "none" => request[q].country \in Countries

\* The products of a promotion are committed with its request.
PromotionsCommitted ==
    \A q \in Promotions : /\ request[q].country \in Countries
                          /\ q \in changes[request[q].country]

\* Requests of a batch are requests of its country.
BatchesOfCountry ==
    \A r \in Ops : runner[r].pc \in Refreshing =>
        /\ runner[r].country \in Countries
        /\ \A q \in runner[r].batch : /\ request[q].status # "none"
                                      /\ request[q].country = runner[r].country

\* The snapshot of a runner is known to nobody else, and the promotions of its
\* batch are in what it loaded.
SnapshotsOwned ==
    \A r \in Ops : Owns(r) =>
        /\ Own(r) \in DOMAIN snapshots
        /\ snapshots[Own(r)].country = runner[r].country
        /\ \A o \in Ops \ {r} : Owns(o) => Own(o) # Own(r)
        /\ \A result \in late : result.snapshot # Own(r)
        /\ \A q \in Ops : request[q].status = "completed" => request[q].snapshot # Own(r)

LoadsCoverBatches ==
    \A r \in Ops :
        /\ runner[r].pc \in {"build", "persist"} =>
               runner[r].batch \cap Promotions \subseteq runner[r].result.content
        /\ runner[r].pc = "complete" =>
               /\ snapshots[Own(r)].status = "completed"
               /\ runner[r].batch \cap Promotions \subseteq snapshots[Own(r)].content

\* What a dead runner may still commit belongs to no request.
LateBelongsToNobody ==
    \A result \in late :
        /\ result.snapshot \in DOMAIN snapshots
        /\ \A q \in Ops : request[q].status = "completed" =>
                             request[q].snapshot # result.snapshot

IInv == /\ TypeOK /\ OperationsBeforeRequests /\ PromotionsCommitted /\ BatchesOfCountry
        /\ SnapshotsOwned /\ LoadsCoverBatches /\ LateBelongsToNobody /\ CompletedIsCovered

-----------------------------------------------------------------------------
(* Types *)

LEMMA Elements ==
    ASSUME TypeOK, NEW q \in Ops
    PROVE  /\ operation[q] \in Operation
           /\ request[q] \in Request
           /\ runner[q] \in Runner
BY DEF TypeOK

LEMMA NoRunnerType == /\ NoRunner \in Runner
                      /\ NoResult \in Result
                      /\ \A pc \in Holding \cup {"none", "start", "exit", "dead"} :
                            [NoRunner EXCEPT !.pc = pc] \in Runner
BY DEF NoRunner, NoResult, Runner, Result, Holding

LEMMA GoToType ==
    ASSUME TypeOK, NEW r \in Ops, NEW pc \in Holding \cup {"none", "start", "exit", "dead"},
           GoTo(r, pc)
    PROVE  /\ runner' \in [Ops -> Runner]
           /\ runner' = [runner EXCEPT ![r] = [runner[r] EXCEPT !.pc = pc]]
<1>1. [runner[r] EXCEPT !.pc = pc] \in Runner
    BY Elements DEF Runner
<1>. QED BY <1>1 DEF GoTo, TypeOK

\* A sequence stays one when an element is replaced.
LEMMA ReplaceType ==
    ASSUME TypeOK, NEW n \in DOMAIN snapshots, NEW s \in Snapshot
    PROVE  /\ [snapshots EXCEPT ![n] = s] \in Seq(Snapshot)
           /\ DOMAIN [snapshots EXCEPT ![n] = s] = DOMAIN snapshots
BY DEF TypeOK

LEMMA PersistedForm ==
    ASSUME TypeOK, NEW result \in Result, result.snapshot \in DOMAIN snapshots
    PROVE  LET n == result.snapshot
               s == [status |-> "completed", country |-> snapshots[n].country,
                     content |-> result.content, at |-> result.at]
           IN  /\ s \in Snapshot
               /\ Persisted(result) = [snapshots EXCEPT ![n] = s]
               /\ Persisted(result) \in Seq(Snapshot)
               /\ DOMAIN Persisted(result) = DOMAIN snapshots
<1> DEFINE n == result.snapshot
           s == [status |-> "completed", country |-> snapshots[n].country,
                 content |-> result.content, at |-> result.at]
<1>1. snapshots[n] \in Snapshot
    BY DEF TypeOK
<1>2. s \in Snapshot
    BY <1>1 DEF Snapshot, Result
<1>3. Persisted(result) = [snapshots EXCEPT ![n] = s]
    BY Zenon DEF Persisted
<1>. QED BY <1>2, <1>3, ReplaceType

LEMMA OperationsTyped ==
    ASSUME IInv, NEW q \in Ops, OperationStep(q)
    PROVE  TypeOK'
<1>. USE DEF IInv
<1>1. ASSUME NEW k \in Countries, "promotion" \in Kinds, Promote(q, k) PROVE TypeOK'
    <2>1. /\ [pc |-> "done", kind |-> "promotion", country |-> k, asks |-> FALSE] \in Operation
          /\ Queued(k) \in Request
        BY DEF Operation, AllKinds, Queued, NoRequest, Request
    <2>. QED BY <1>1, <2>1 DEF Promote, TypeOK
<1>2. ASSUME NEW k \in Countries, NEW kind \in Kinds \ {"promotion"}, Ask(q, kind, k)
      PROVE  TypeOK'
    <2>1. [pc |-> "open", kind |-> kind, country |-> k, asks |-> PendingIn(k) = {}] \in Operation
        BY KindsAssumption DEF Operation
    <2>. QED BY <1>2, <2>1 DEF Ask, TypeOK
<1>3. CASE CommitAsk(q)
    <2>1. [operation[q] EXCEPT !.pc = "done", !.asks = FALSE] \in Operation
        BY Elements DEF Operation
    <2>2. Queued(operation[q].country) \in Request
        BY <1>3 DEF CommitAsk, OperationsBeforeRequests, Queued, NoRequest, Request
    <2>3. operation[q].country \in Countries
        BY <1>3 DEF CommitAsk, OperationsBeforeRequests
    <2>4. operation' \in [Ops -> Operation]
        <3>1. operation' = [operation EXCEPT ![q] = [operation[q] EXCEPT !.pc = "done",
                                                                         !.asks = FALSE]]
            BY <1>3, Elements DEF CommitAsk, Operation, TypeOK
        <3>. QED BY <2>1, <3>1 DEF TypeOK
    <2>. QED BY <1>3, <2>2, <2>3, <2>4 DEF CommitAsk, TypeOK
<1>4. CASE Launch(q)
    <2>1. GoTo(q, "start")
        BY <1>4 DEF Launch, GoTo
    <2>. QED BY <1>4, <2>1, GoToType DEF Launch, TypeOK
<1>5. CASE LaunchFails(q)
    BY <1>5 DEF LaunchFails, TypeOK
<1>. QED BY <1>1, <1>2, <1>3, <1>4, <1>5 DEF OperationStep

LEMMA BatchTyped ==
    ASSUME TypeOK, NEW ids, NEW status \in {"completed", "failed"}, NEW n \in Nat,
           BatchEnds(ids, status, n)
    PROVE  /\ now' \in Nat
           /\ request' \in [Ops -> Request]
           /\ \A q \in Ops : /\ q \notin ids => request'[q] = request[q]
                             /\ request'[q].country = request[q].country
                             /\ q \in ids => /\ request'[q].status = status
                                            /\ request'[q].snapshot = n
<1>1. now' \in Nat
    <2>1. now \in Nat
        BY DEF TypeOK
    <2>2. now' = now + 1
        BY Zenon DEF BatchEnds
    <2>. QED BY <2>1, <2>2
<1>2. \A q \in Ops : [request[q] EXCEPT !.status = status, !.doneAt = now', !.snapshot = n]
                        \in Request
    BY <1>1, Elements DEF Request
<1>. QED BY <1>1, <1>2, Elements DEF BatchEnds, Request

-----------------------------------------------------------------------------
(* What the steps of a runner do to its record *)

OthersStay(r) == /\ runner' \in [Ops -> Runner]
                 /\ \A o \in Ops \ {r} : runner'[o] = runner[o]

\* It goes on with its batch.
Moved(r, pc, n, content) ==
    /\ OthersStay(r)
    /\ runner'[r].pc = pc
    /\ runner'[r].batch = runner[r].batch
    /\ runner'[r].country = runner[r].country
    /\ runner'[r].result.snapshot = n
    /\ runner'[r].result.content = content

\* It is not in the middle of a refresh any more, or not yet.
Left(r) == OthersStay(r) /\ runner'[r].pc \notin Refreshing

LEMMA ResultOf ==
    ASSUME TypeOK, NEW r \in Ops
    PROVE  /\ runner[r].result \in Result
           /\ runner[r].result.snapshot \in Nat
           /\ runner[r].result.content \subseteq Ops
           /\ runner[r].result.at \in Nat
           /\ runner[r].batch \subseteq Ops
           /\ runner[r].country \in Countries \cup {None}
BY Elements DEF Runner, Result

LEMMA RecordMoves ==
    ASSUME TypeOK, NEW r \in Ops, NEW pc \in Refreshing, NEW result \in Result,
           GoOn(r, pc, result)
    PROVE  /\ Moved(r, pc, result.snapshot, result.content)
           /\ runner'[r].result = result
<1> DEFINE next == [runner[r] EXCEPT !.pc = pc, !.result = result]
<1>1. runner' = [runner EXCEPT ![r] = next]
    BY DEF GoOn
<1>2. /\ next \in Runner
      /\ next.pc = pc /\ next.batch = runner[r].batch
      /\ next.country = runner[r].country /\ next.result = result
    <2>1. pc \in Holding
        BY DEF Holding, Refreshing
    <2>2. runner[r] \in Runner
        BY Elements
    <2>. QED BY <2>1, <2>2 DEF Runner
<1>. HIDE DEF next
<1>3. runner' \in [Ops -> Runner] /\ runner'[r] = next /\ \A o \in Ops \ {r} : runner'[o] = runner[o]
    BY <1>1, <1>2 DEF TypeOK
<1>. QED BY <1>2, <1>3 DEF Moved, OthersStay

LEMMA GoToMoves ==
    ASSUME TypeOK, NEW r \in Ops, NEW pc \in Refreshing, GoTo(r, pc)
    PROVE  Moved(r, pc, Own(r), runner[r].result.content)
<1> DEFINE next == [runner[r] EXCEPT !.pc = pc]
<1>1. runner' = [runner EXCEPT ![r] = next]
    BY DEF GoTo
<1>2. /\ next \in Runner
      /\ next.pc = pc /\ next.batch = runner[r].batch
      /\ next.country = runner[r].country /\ next.result = runner[r].result
    BY Elements DEF Runner, Holding, Refreshing
<1>. HIDE DEF next
<1>3. runner' \in [Ops -> Runner] /\ runner'[r] = next /\ \A o \in Ops \ {r} : runner'[o] = runner[o]
    BY <1>1, <1>2 DEF TypeOK
<1>. QED BY <1>2, <1>3 DEF Moved, OthersStay, Own

LEMMA GoToLeaves ==
    ASSUME TypeOK, NEW r \in Ops, NEW pc \in {"claim", "release", "start", "exit"}, GoTo(r, pc)
    PROVE  Left(r)
<1>1. pc \in Holding \cup {"none", "start", "exit", "dead"} /\ pc \notin Refreshing
    BY DEF Refreshing, Holding
<1>2. /\ runner' \in [Ops -> Runner]
      /\ runner' = [runner EXCEPT ![r] = [runner[r] EXCEPT !.pc = pc]]
    BY <1>1, GoToType
<1>. QED BY <1>1, <1>2, Elements DEF Left, OthersStay, TypeOK, Runner

LEMMA RestartLeaves ==
    ASSUME TypeOK, NEW r \in Ops, NEW pc \in {"claim", "dead"},
           runner' = [runner EXCEPT ![r] = [NoRunner EXCEPT !.pc = pc]]
    PROVE  Left(r)
<1>1. [NoRunner EXCEPT !.pc = pc] \in Runner /\ pc \notin Refreshing
    BY NoRunnerType DEF Refreshing, Holding
<1>2. [NoRunner EXCEPT !.pc = pc].pc = pc
    BY DEF NoRunner
<1>. QED BY <1>1, <1>2 DEF Left, OthersStay, TypeOK

LEMMA ResultMoves ==
    ASSUME TypeOK, NEW r \in Ops
    PROVE  /\ EnsureRefreshRun(r) => Moved(r, "load", Len(snapshots) + 1, runner[r].result.content)
           /\ LoadRows(r) /\ runner[r].country \in Countries
                  => Moved(r, "build", Own(r), changes[runner[r].country])
           /\ BuildSnapshot(r) => Moved(r, "persist", Own(r), runner[r].result.content)
<1>1. ASSUME EnsureRefreshRun(r)
      PROVE  Moved(r, "load", Len(snapshots) + 1, runner[r].result.content)
    <2> DEFINE result == [runner[r].result EXCEPT !.snapshot = Len(snapshots) + 1]
    <2>1. /\ result \in Result
          /\ result.snapshot = Len(snapshots) + 1
          /\ result.content = runner[r].result.content
        BY ResultOf DEF Result, TypeOK
    <2>2. GoOn(r, "load", result)
        BY <1>1 DEF EnsureRefreshRun
    <2>. HIDE DEF result
    <2>3. "load" \in Refreshing
        BY DEF Refreshing
    <2>4. Moved(r, "load", result.snapshot, result.content)
        BY <2>1, <2>2, <2>3, RecordMoves
    <2>. QED BY <2>1, <2>4
<1>2. ASSUME LoadRows(r), runner[r].country \in Countries
      PROVE  Moved(r, "build", Own(r), changes[runner[r].country])
    <2> DEFINE result == [runner[r].result EXCEPT !.content = changes[runner[r].country]]
    <2>1. /\ result \in Result
          /\ result.snapshot = Own(r)
          /\ result.content = changes[runner[r].country]
        BY <1>2, ResultOf DEF Result, TypeOK, Own
    <2>2. GoOn(r, "build", result)
        BY <1>2 DEF LoadRows
    <2>. HIDE DEF result
    <2>3. "build" \in Refreshing
        BY DEF Refreshing
    <2>4. Moved(r, "build", result.snapshot, result.content)
        BY <2>1, <2>2, <2>3, RecordMoves
    <2>. QED BY <2>1, <2>4
<1>3. ASSUME BuildSnapshot(r)
      PROVE  Moved(r, "persist", Own(r), runner[r].result.content)
    <2> DEFINE result == [runner[r].result EXCEPT !.at = now']
    <2>1. /\ result \in Result
          /\ result.snapshot = Own(r)
          /\ result.content = runner[r].result.content
        <3>1. now \in Nat /\ now' = now + 1
            BY <1>3 DEF BuildSnapshot, TypeOK
        <3>2. now' \in Nat
            BY <3>1
        <3>. QED BY <3>2, ResultOf DEF Result, Own
    <2>2. GoOn(r, "persist", result)
        BY <1>3 DEF BuildSnapshot
    <2>. HIDE DEF result
    <2>3. "persist" \in Refreshing
        BY DEF Refreshing
    <2>4. Moved(r, "persist", result.snapshot, result.content)
        BY <2>1, <2>2, <2>3, RecordMoves
    <2>. QED BY <2>1, <2>4
<1>. QED BY <1>1, <1>2, <1>3

-----------------------------------------------------------------------------
(* The invariant, step by step *)

Rest == /\ OperationsBeforeRequests /\ PromotionsCommitted /\ BatchesOfCountry
        /\ SnapshotsOwned /\ LoadsCoverBatches /\ LateBelongsToNobody /\ CompletedIsCovered

\* A runner that stops refreshing leaves its snapshot to the psql that is late, at
\* most.
LEMMA LeavingKeeps ==
    ASSUME IInv, NEW r \in Ops, Left(r), UNCHANGED <<operation, request, changes, snapshots>>,
           late' \subseteq late \cup (IF At(r, "persist") THEN {runner[r].result} ELSE {})
    PROVE  Rest'
<1>. USE DEF IInv
<1>1. \A o \in Ops : runner'[o].pc \in Refreshing => o # r /\ runner'[o] = runner[o]
    BY DEF Left, OthersStay
<1>2. Owning \subseteq Refreshing
    BY DEF Owning, Refreshing
<1>3. OperationsBeforeRequests' /\ PromotionsCommitted' /\ CompletedIsCovered'
    BY DEF OperationsBeforeRequests, PromotionsCommitted, CompletedIsCovered, Promotions
<1>4. BatchesOfCountry'
    BY <1>1 DEF BatchesOfCountry
<1>5. \A result \in late' : result \notin late => Owns(r) /\ result = runner[r].result
    BY DEF At, Owns, Owning
<1>6. LateBelongsToNobody'
    BY <1>5 DEF LateBelongsToNobody, SnapshotsOwned, Own
<1>7. SnapshotsOwned'
    <2> SUFFICES ASSUME NEW o \in Ops, Owns(o)'
                 PROVE  /\ Own(o)' \in DOMAIN snapshots
                        /\ snapshots[Own(o)'].country = runner'[o].country
                        /\ \A e \in Ops \ {o} : Owns(e)' => Own(e)' # Own(o)'
                        /\ \A result \in late' : result.snapshot # Own(o)'
                        /\ \A q \in Ops : request[q].status = "completed"
                               => request[q].snapshot # Own(o)'
        BY DEF SnapshotsOwned
    <2>1. \A e \in Ops : Owns(e)' => Owns(e) /\ e # r /\ runner'[e] = runner[e] /\ Own(e)' = Own(e)
        BY <1>1, <1>2 DEF Owns, Own
    <2>. QED BY <1>5, <2>1 DEF SnapshotsOwned, Own
<1>8. LoadsCoverBatches'
    <2>1. \A o \in Ops : runner'[o].pc \in {"build", "persist", "complete"}
                              => runner'[o] = runner[o] /\ Own(o)' = Own(o)
        BY <1>1 DEF Refreshing, Own
    <2>. QED BY <2>1 DEF LoadsCoverBatches, Promotions
<1>. QED BY <1>3, <1>4, <1>6, <1>7, <1>8 DEF Rest

\* A runner that goes on writes no snapshot but its own.
LEMMA MovingKeeps ==
    ASSUME IInv, NEW r \in Ops, NEW pc \in Owning \cup {"fail"}, NEW content,
           Owns(r), Moved(r, pc, Own(r), content),
           UNCHANGED <<operation, request, changes, late>>,
           DOMAIN snapshots' = DOMAIN snapshots,
           \A n \in DOMAIN snapshots : /\ snapshots'[n].country = snapshots[n].country
                                       /\ n # Own(r) => snapshots'[n] = snapshots[n],
           pc \in {"build", "persist"} => runner[r].batch \cap Promotions \subseteq content,
           pc = "complete" =>
               /\ snapshots'[Own(r)].status = "completed"
               /\ runner[r].batch \cap Promotions \subseteq snapshots'[Own(r)].content
    PROVE  Rest'
<1>. USE DEF IInv
<1>1. \A o \in Ops \ {r} : runner'[o] = runner[o]
    BY DEF Moved, OthersStay
<1>2. /\ runner'[r].pc = pc /\ runner'[r].batch = runner[r].batch
      /\ runner'[r].country = runner[r].country /\ Own(r)' = Own(r)
      /\ runner'[r].result.content = content
    BY DEF Moved, Own
<1>3. runner[r].pc \in Refreshing
    BY DEF Owns, Owning, Refreshing
<1>4. OperationsBeforeRequests' /\ PromotionsCommitted'
    BY DEF OperationsBeforeRequests, PromotionsCommitted, Promotions
<1>5. BatchesOfCountry'
    BY <1>1, <1>2, <1>3 DEF BatchesOfCountry
<1>6. LateBelongsToNobody'
    BY DEF LateBelongsToNobody
<1>7. \A o \in Ops : Owns(o)' => Owns(o) /\ Own(o)' = Own(o) /\ runner'[o].country = runner[o].country
    BY <1>1, <1>2 DEF Owns, Own
<1>8. SnapshotsOwned'
    BY <1>7 DEF SnapshotsOwned
<1>9. LoadsCoverBatches'
    <2> SUFFICES ASSUME NEW o \in Ops
                 PROVE  /\ runner'[o].pc \in {"build", "persist"} =>
                               runner'[o].batch \cap Promotions \subseteq runner'[o].result.content
                        /\ runner'[o].pc = "complete" =>
                               /\ snapshots'[Own(o)'].status = "completed"
                               /\ runner'[o].batch \cap Promotions \subseteq snapshots'[Own(o)'].content
        BY DEF LoadsCoverBatches, Promotions
    <2>1. CASE o = r
        BY <1>2, <2>1
    <2>2. CASE o # r
        <3>1. runner'[o] = runner[o] /\ Own(o)' = Own(o)
            BY <1>1, <2>2 DEF Own
        <3>2. runner[o].pc = "complete" =>
                  Own(o) \in DOMAIN snapshots /\ Own(o) # Own(r)
            BY <2>2 DEF SnapshotsOwned, Owns, Owning
        <3>. QED BY <3>1, <3>2 DEF LoadsCoverBatches
    <2>. QED BY <2>1, <2>2
<1>10. CompletedIsCovered'
    <2>1. \A q \in Ops : request[q].status = "completed" => request[q].snapshot # Own(r)
        BY DEF SnapshotsOwned
    <2>. QED BY <2>1 DEF CompletedIsCovered, Promotions
<1>. QED BY <1>4, <1>5, <1>6, <1>8, <1>9, <1>10 DEF Rest

\* A batch without a snapshot: it has none yet, or gives it up.
LEMMA BareBatchKeeps ==
    ASSUME IInv, NEW r \in Ops, NEW pc \in {"ensure", "fail"}, NEW content,
           runner[r].pc \in Refreshing, Moved(r, pc, Own(r), content),
           UNCHANGED <<operation, request, changes, snapshots, late>>
    PROVE  Rest'
<1>. USE DEF IInv
<1>1. \A o \in Ops \ {r} : runner'[o] = runner[o] /\ Own(o)' = Own(o)
    BY DEF Moved, OthersStay, Own
<1>2. /\ runner'[r].pc = pc /\ runner'[r].batch = runner[r].batch
      /\ runner'[r].country = runner[r].country
    BY DEF Moved
<1>3. OperationsBeforeRequests' /\ PromotionsCommitted' /\ LateBelongsToNobody'
      /\ CompletedIsCovered'
    BY DEF OperationsBeforeRequests, PromotionsCommitted, Promotions, LateBelongsToNobody,
           CompletedIsCovered
<1>4. BatchesOfCountry'
    BY <1>1, <1>2 DEF BatchesOfCountry
<1>5. \A o \in Ops : Owns(o)' => o # r /\ Owns(o)
    BY <1>1, <1>2 DEF Owns, Owning
<1>6. SnapshotsOwned'
    BY <1>1, <1>5 DEF SnapshotsOwned
<1>7. LoadsCoverBatches'
    BY <1>1, <1>2 DEF LoadsCoverBatches, Promotions
<1>. QED BY <1>3, <1>4, <1>6, <1>7 DEF Rest

LEMMA EnsureKeeps ==
    ASSUME IInv, NEW r \in Ops, EnsureRefreshRun(r)
    PROVE  IInv'
<1>. USE DEF IInv
<1> DEFINE n == Len(snapshots) + 1
           s == [status |-> "started", country |-> runner[r].country, content |-> {}, at |-> 0]
<1>1. /\ runner[r].pc = "ensure" /\ runner[r].pc \in Refreshing
      /\ snapshots' = Append(snapshots, s)
      /\ UNCHANGED <<operation, request, changes, late>>
    BY DEF EnsureRefreshRun, At, Refreshing
<1>2. Moved(r, "load", n, runner[r].result.content)
    BY ResultMoves
<1>3. s \in Snapshot
    BY <1>1 DEF BatchesOfCountry, Snapshot
<1>4. snapshots \in Seq(Snapshot)
    BY DEF TypeOK
<1>5. /\ n \in Nat /\ n \notin DOMAIN snapshots
      /\ snapshots' \in Seq(Snapshot)
      /\ DOMAIN snapshots' = DOMAIN snapshots \cup {n}
      /\ snapshots'[n] = s
      /\ \A m \in DOMAIN snapshots : snapshots'[m] = snapshots[m]
    BY <1>1, <1>3, <1>4
<1>. HIDE DEF n
<1>6. TypeOK'
    BY <1>2, <1>5 DEF EnsureRefreshRun, Moved, OthersStay, TypeOK
<1>7. \A o \in Ops \ {r} : runner'[o] = runner[o] /\ Own(o)' = Own(o)
    BY <1>2 DEF Moved, OthersStay, Own
<1>8. /\ runner'[r].pc = "load" /\ runner'[r].batch = runner[r].batch
      /\ runner'[r].country = runner[r].country /\ Own(r)' = n
    BY <1>2 DEF Moved, Own
<1>9. OperationsBeforeRequests' /\ PromotionsCommitted'
    BY <1>1 DEF OperationsBeforeRequests, PromotionsCommitted, Promotions
<1>10. BatchesOfCountry'
    BY <1>1, <1>7, <1>8 DEF BatchesOfCountry
<1>11. LateBelongsToNobody'
    BY <1>1, <1>5 DEF LateBelongsToNobody
<1>12. CompletedIsCovered'
    BY <1>1, <1>5 DEF CompletedIsCovered, Promotions
<1>13. SnapshotsOwned'
    <2>1. \A o \in Ops \ {r} : Owns(o)' => Owns(o) /\ Own(o)' = Own(o) /\ Own(o) \in DOMAIN snapshots
        BY <1>7 DEF Owns, SnapshotsOwned
    <2>2. ASSUME NEW o \in Ops, o # r, Owns(o)'
          PROVE  /\ Own(o)' \in DOMAIN snapshots'
                 /\ snapshots'[Own(o)'].country = runner'[o].country
                 /\ \A e \in Ops \ {o} : Owns(e)' => Own(e)' # Own(o)'
                 /\ \A result \in late' : result.snapshot # Own(o)'
                 /\ \A q \in Ops : request'[q].status = "completed" => request'[q].snapshot # Own(o)'
        BY <1>1, <1>5, <1>7, <1>8, <2>1, <2>2 DEF SnapshotsOwned
    <2>3. /\ n \in DOMAIN snapshots'
          /\ snapshots'[n].country = runner'[r].country
          /\ \A e \in Ops \ {r} : Owns(e)' => Own(e)' # n
          /\ \A result \in late' : result.snapshot # n
          /\ \A q \in Ops : request'[q].status = "completed" => request'[q].snapshot # n
        BY <1>1, <1>5, <1>8, <2>1 DEF LateBelongsToNobody, CompletedIsCovered
    <2>. QED BY <1>8, <2>2, <2>3 DEF SnapshotsOwned
<1>14. LoadsCoverBatches'
    <2>1. \A o \in Ops : runner'[o].pc \in {"build", "persist", "complete"} => o # r
        BY <1>8
    <2>2. \A o \in Ops : runner[o].pc = "complete" => Own(o) \in DOMAIN snapshots
        BY DEF SnapshotsOwned, Owns, Owning
    <2>. QED BY <1>1, <1>5, <1>7, <2>1, <2>2 DEF LoadsCoverBatches, Promotions
<1>. QED BY <1>6, <1>9, <1>10, <1>11, <1>12, <1>13, <1>14

LEMMA LoadKeeps ==
    ASSUME IInv, NEW r \in Ops, LoadRows(r)
    PROVE  IInv'
<1>. USE DEF IInv
<1> DEFINE content == changes[runner[r].country]
<1>1. Owns(r) /\ runner[r].pc \in Refreshing /\ "build" \in Owning \cup {"fail"}
    BY DEF LoadRows, At, Owns, Owning, Refreshing
<1>2. Moved(r, "build", Own(r), content)
    BY <1>1, ResultMoves DEF BatchesOfCountry
<1>3. UNCHANGED <<operation, request, changes, snapshots, late>>
    BY DEF LoadRows
<1>4. runner[r].batch \cap Promotions \subseteq content
    BY <1>1 DEF BatchesOfCountry, PromotionsCommitted
<1>5. Rest'
    BY <1>1, <1>2, <1>3, <1>4, MovingKeeps
<1>6. TypeOK'
    BY <1>2 DEF LoadRows, Moved, OthersStay, TypeOK
<1>. QED BY <1>5, <1>6 DEF Rest

LEMMA BuildKeeps ==
    ASSUME IInv, NEW r \in Ops, BuildSnapshot(r)
    PROVE  IInv'
<1>. USE DEF IInv
<1> DEFINE content == runner[r].result.content
<1>1. Owns(r) /\ runner[r].pc = "build" /\ "persist" \in Owning \cup {"fail"}
    BY DEF BuildSnapshot, At, Owns, Owning
<1>2. Moved(r, "persist", Own(r), content)
    BY ResultMoves
<1>3. UNCHANGED <<operation, request, changes, snapshots, late>>
    BY DEF BuildSnapshot
<1>4. runner[r].batch \cap Promotions \subseteq content
    BY <1>1 DEF LoadsCoverBatches
<1>5. Rest'
    BY <1>1, <1>2, <1>3, <1>4, MovingKeeps
<1>6. now \in Nat /\ now' = now + 1
    BY DEF BuildSnapshot, TypeOK
<1>7. TypeOK'
    BY <1>2, <1>6 DEF BuildSnapshot, Moved, OthersStay, TypeOK
<1>. QED BY <1>5, <1>7 DEF Rest

LEMMA PersistKeeps ==
    ASSUME IInv, NEW r \in Ops, PersistResult(r)
    PROVE  IInv'
<1>. USE DEF IInv
<1> DEFINE content == runner[r].result.content
           n == Own(r)
           s == [status |-> "completed", country |-> snapshots[n].country,
                 content |-> content, at |-> runner[r].result.at]
<1>1. Owns(r) /\ runner[r].pc = "persist" /\ "complete" \in Owning /\ "complete" \in Refreshing
    BY DEF PersistResult, At, Owns, Owning, Refreshing
<1>2. Moved(r, "complete", n, content)
    BY <1>1, GoToMoves DEF PersistResult
<1>3. UNCHANGED <<operation, request, changes, late>>
    BY DEF PersistResult
<1>4. n \in DOMAIN snapshots
    BY <1>1 DEF SnapshotsOwned
<1>5. /\ snapshots' = [snapshots EXCEPT ![n] = s]
      /\ snapshots' \in Seq(Snapshot)
      /\ DOMAIN snapshots' = DOMAIN snapshots
    BY <1>4, ResultOf, PersistedForm DEF PersistResult, Own
<1>6. snapshots'[n] = s /\ \A m \in DOMAIN snapshots : m # n => snapshots'[m] = snapshots[m]
    BY <1>4, <1>5
<1>7. runner[r].batch \cap Promotions \subseteq content
    BY <1>1 DEF LoadsCoverBatches
<1>8. Rest'
    BY <1>1, <1>2, <1>3, <1>5, <1>6, <1>7, MovingKeeps
<1>9. TypeOK'
    BY <1>2, <1>5 DEF PersistResult, Moved, OthersStay, TypeOK
<1>. QED BY <1>8, <1>9 DEF Rest

LEMMA FailureKeeps ==
    ASSUME IInv, NEW r \in Ops, RefreshFails(r) \/ MarkRefreshFailed(r)
    PROVE  IInv'
<1>. USE DEF IInv
<1>1. CASE RefreshFails(r) /\ At(r, "ensure")
    <2>1. Moved(r, "fail", Own(r), runner[r].result.content)
        BY <1>1, GoToMoves DEF RefreshFails, Refreshing
    <2>2. Rest'
        BY <1>1, <2>1, BareBatchKeeps DEF RefreshFails, At, Refreshing
    <2>. QED BY <1>1, <2>1, <2>2 DEF RefreshFails, Moved, OthersStay, TypeOK, Rest
<1>2. CASE RefreshFails(r) /\ ~At(r, "ensure")
    <2>1. Moved(r, "mark", Own(r), runner[r].result.content)
        BY <1>2, GoToMoves DEF RefreshFails, Refreshing
    <2>2. Owns(r) /\ "mark" \in Owning
        BY <1>2 DEF RefreshFails, At, Owns, Owning
    <2>3. UNCHANGED <<operation, request, changes, snapshots, late>>
        BY <1>2 DEF RefreshFails
    <2>4. Rest'
        BY <2>1, <2>2, <2>3, MovingKeeps
    <2>. QED BY <1>2, <2>1, <2>4 DEF RefreshFails, Moved, OthersStay, TypeOK, Rest
<1>3. CASE MarkRefreshFailed(r)
    <2> DEFINE n == Own(r)
    <2>1. PICK status \in {"started", "failed"} :
              snapshots' = [snapshots EXCEPT ![n].status = status]
        BY <1>3 DEF MarkRefreshFailed, Own
    <2>2. Moved(r, "fail", n, runner[r].result.content)
        BY <1>3, GoToMoves DEF MarkRefreshFailed, Refreshing
    <2>3. Owns(r) /\ n \in DOMAIN snapshots
        BY <1>3 DEF MarkRefreshFailed, At, Owns, Owning, SnapshotsOwned
    <2> DEFINE s == [snapshots[n] EXCEPT !.status = status]
    <2>4. s \in Snapshot /\ s.country = snapshots[n].country
        <3>1. snapshots[n] \in Snapshot
            BY <2>3 DEF TypeOK
        <3>. QED BY <3>1 DEF Snapshot
    <2>5. snapshots' = [snapshots EXCEPT ![n] = s]
        BY <2>1
    <2>. HIDE DEF s, n
    <2>6. /\ snapshots' \in Seq(Snapshot) /\ DOMAIN snapshots' = DOMAIN snapshots
        BY <2>3, <2>4, <2>5, ReplaceType
    <2>7. \A m \in DOMAIN snapshots : /\ snapshots'[m].country = snapshots[m].country
                                      /\ m # n => snapshots'[m] = snapshots[m]
        BY <2>3, <2>4, <2>5
    <2>8. UNCHANGED <<operation, request, changes, late>>
        BY <1>3 DEF MarkRefreshFailed
    <2>9. Rest'
        BY <2>2, <2>3, <2>6, <2>7, <2>8, MovingKeeps DEF n
    <2>. QED BY <1>3, <2>2, <2>6, <2>9 DEF MarkRefreshFailed, Moved, OthersStay, TypeOK, Rest
<1>. QED BY <1>1, <1>2, <1>3

\* The lock, and the ends of a runner.
LEMMA OutsideKeeps ==
    ASSUME IInv, NEW r \in Ops,
           TryLock(r) \/ ClaimNothing(r) \/ ReleaseLock(r) \/ FindsConnectionLost(r) \/ Launch(r)
    PROVE  IInv'
<1>. USE DEF IInv
<1>1. Left(r)
    <2>1. CASE TryLock(r)
        BY <2>1, GoToLeaves DEF TryLock
    <2>2. CASE ClaimNothing(r)
        BY <2>2, GoToLeaves DEF ClaimNothing
    <2>3. CASE ReleaseLock(r)
        BY <2>3, GoToLeaves DEF ReleaseLock
    <2>4. CASE FindsConnectionLost(r)
        BY <2>4, RestartLeaves DEF FindsConnectionLost, Dead
    <2>5. CASE Launch(r)
        BY <2>5, GoToLeaves DEF Launch, GoTo
    <2>. QED BY <2>1, <2>2, <2>3, <2>4, <2>5
<1>2. UNCHANGED <<operation, request, changes, snapshots, late, now, faults, drops>>
    BY DEF TryLock, ClaimNothing, ReleaseLock, FindsConnectionLost, Launch
<1>3. Rest'
    BY <1>1, <1>2, LeavingKeeps
<1>4. lock' \in Ops \cup {None} /\ waking' \subseteq Ops
    BY DEF TryLock, ClaimNothing, ReleaseLock, FindsConnectionLost, Launch, TypeOK
<1>. QED BY <1>1, <1>2, <1>3, <1>4 DEF Left, OthersStay, TypeOK, Rest

LEMMA KilledKeeps ==
    ASSUME IInv, NEW r \in Ops, Killed(r)
    PROVE  IInv'
<1>. USE DEF IInv
<1>1. Left(r)
    BY RestartLeaves DEF Killed, Dead
<1>2. late' \subseteq late \cup (IF At(r, "persist") THEN {runner[r].result} ELSE {})
    BY DEF Killed
<1>3. UNCHANGED <<operation, request, changes, snapshots, waking, now, drops>>
    BY DEF Killed
<1>4. Rest'
    BY <1>1, <1>2, <1>3, LeavingKeeps
<1>5. late' \subseteq Result
    BY <1>2, ResultOf DEF TypeOK
<1>6. faults \in Nat /\ faults' = faults + 1
    BY DEF Killed, TypeOK
<1>7. lock' \in Ops \cup {None}
    BY DEF Killed, Unlocked, TypeOK
<1>. QED BY <1>1, <1>3, <1>4, <1>5, <1>6, <1>7 DEF Left, OthersStay, TypeOK, Rest

LEMMA ConnectionLostKeeps ==
    ASSUME IInv, NEW r \in Ops, ConnectionLost(r)
    PROVE  IInv'
<1>. USE DEF IInv
<1>1. UNCHANGED <<operation, request, changes, snapshots, waking, late, now, faults>>
    BY DEF ConnectionLost
<1>2. /\ lock' \in Ops \cup {None}
      /\ drops \in Nat /\ drops' = drops + 1
    BY DEF ConnectionLost, Unlocked, TypeOK
<1>3. CASE runner[r].pc \notin Refreshing
    <2>1. Left(r)
        BY <1>3, RestartLeaves DEF ConnectionLost, Dead
    <2>2. Rest'
        BY <1>1, <2>1, LeavingKeeps
    <2>. QED BY <1>1, <1>2, <2>1, <2>2 DEF Left, OthersStay, TypeOK, Rest
<1>4. CASE runner[r].pc \in Refreshing
    <2> DEFINE next == [runner[r] EXCEPT !.cut = TRUE]
    <2>1. runner' = [runner EXCEPT ![r] = next]
        BY <1>4 DEF ConnectionLost
    <2>2. /\ next \in Runner
          /\ next.pc = runner[r].pc /\ next.batch = runner[r].batch
          /\ next.country = runner[r].country /\ next.result = runner[r].result
        BY ZenonT(40), Elements DEF Runner
    <2>. HIDE DEF next
    <2>3. runner' \in [Ops -> Runner] /\ runner'[r] = next
          /\ \A o \in Ops \ {r} : runner'[o] = runner[o]
        BY <2>1, <2>2 DEF TypeOK
    <2>4. Moved(r, runner[r].pc, Own(r), runner[r].result.content)
        BY <2>2, <2>3 DEF Moved, OthersStay, Own
    <2>5. Rest'
        <3>1. CASE Owns(r)
            BY <1>1, <2>4, <3>1, MovingKeeps DEF LoadsCoverBatches, Owns
        <3>2. CASE ~Owns(r)
            BY <1>1, <1>4, <2>4, <3>2, BareBatchKeeps DEF Owns, Owning, Refreshing
        <3>. QED BY <3>1, <3>2
    <2>. QED BY <1>1, <1>2, <2>3, <2>5 DEF TypeOK, Rest
<1>. QED BY <1>3, <1>4

\* A batch ends: its requests get the snapshot, which held their promotions already.
LEMMA BatchEndKeeps ==
    ASSUME IInv, NEW r \in Ops, NEW status \in {"completed", "failed"}, NEW n \in Nat,
           runner[r].pc \in Refreshing, Left(r), BatchEnds(runner[r].batch, status, n),
           UNCHANGED <<operation, changes, snapshots, late>>,
           status = "completed" => runner[r].pc = "complete" /\ n = Own(r)
    PROVE  Rest'
<1>. USE DEF IInv
<1>1. \A q \in Ops : /\ q \notin runner[r].batch => request'[q] = request[q]
                     /\ request'[q].country = request[q].country
                     /\ q \in runner[r].batch => /\ request'[q].status = status
                                                 /\ request'[q].snapshot = n
    BY BatchTyped
<1>2. \A q \in runner[r].batch : q \in Ops /\ request[q].status # "none"
                                 /\ request[q].country = runner[r].country
    BY ResultOf DEF BatchesOfCountry
<1>3. \A o \in Ops : runner'[o].pc \in Refreshing =>
                         o # r /\ runner'[o] = runner[o] /\ Own(o)' = Own(o)
    BY DEF Left, OthersStay, Own
<1>4. \A o \in Ops : Owns(o)' => o # r /\ Owns(o) /\ runner'[o] = runner[o] /\ Own(o)' = Own(o)
    BY <1>3 DEF Owns, Owning, Refreshing
<1>5. status = "completed" => Owns(r)
    BY DEF Owns, Owning
<1>6. \A q \in Ops : request'[q].status = "completed" =>
          \/ request'[q] = request[q]
          \/ q \in runner[r].batch /\ Owns(r) /\ request'[q].snapshot = Own(r)
    BY <1>1, <1>5
<1>7. OperationsBeforeRequests'
    BY <1>1, <1>2 DEF OperationsBeforeRequests
<1>8. PromotionsCommitted'
    BY <1>1 DEF PromotionsCommitted, Promotions
<1>9. BatchesOfCountry'
    <2> SUFFICES ASSUME NEW o \in Ops, runner'[o].pc \in Refreshing
                 PROVE  /\ runner'[o].country \in Countries
                        /\ \A q \in runner'[o].batch : /\ request'[q].status # "none"
                                                       /\ request'[q].country = runner'[o].country
        BY DEF BatchesOfCountry
    <2>1. runner'[o] = runner[o] /\ runner[o].batch \subseteq Ops
        BY <1>3, ResultOf
    <2>. QED BY <1>1, <2>1 DEF BatchesOfCountry
<1>10. SnapshotsOwned'
    <2> SUFFICES ASSUME NEW o \in Ops, Owns(o)'
                 PROVE  /\ Own(o)' \in DOMAIN snapshots
                        /\ snapshots[Own(o)'].country = runner'[o].country
                        /\ \A e \in Ops \ {o} : Owns(e)' => Own(e)' # Own(o)'
                        /\ \A result \in late : result.snapshot # Own(o)'
                        /\ \A q \in Ops : request'[q].status = "completed"
                               => request'[q].snapshot # Own(o)'
        BY DEF SnapshotsOwned
    <2>1. o # r /\ Owns(o) /\ runner'[o] = runner[o] /\ Own(o)' = Own(o)
        BY <1>4
    <2>2. \A q \in Ops : request'[q].status = "completed" => request'[q].snapshot # Own(o)
        BY <1>6, <2>1 DEF SnapshotsOwned
    <2>. QED BY <1>4, <2>1, <2>2 DEF SnapshotsOwned
<1>11. LoadsCoverBatches'
    <2>1. \A o \in Ops : runner'[o].pc \in {"build", "persist", "complete"} =>
                             runner'[o] = runner[o] /\ Own(o)' = Own(o)
        BY <1>3 DEF Refreshing
    <2>. QED BY <2>1 DEF LoadsCoverBatches, Promotions
<1>12. LateBelongsToNobody'
    BY <1>6 DEF LateBelongsToNobody, SnapshotsOwned
<1>13. CompletedIsCovered'
    <2> SUFFICES ASSUME NEW q \in Ops, request'[q].status = "completed"
                 PROVE  LET t == snapshots[request'[q].snapshot]
                        IN  /\ request'[q].snapshot \in DOMAIN snapshots
                            /\ t.status = "completed"
                            /\ t.country = request'[q].country
                            /\ q \in Promotions => q \in t.content
        BY DEF CompletedIsCovered, Promotions
    <2>1. CASE request'[q] = request[q]
        BY <2>1 DEF CompletedIsCovered
    <2>2. CASE q \in runner[r].batch /\ Owns(r) /\ request'[q].snapshot = Own(r)
        <3>1. status = "completed" /\ runner[r].pc = "complete"
            BY <1>1, <2>2
        <3>. QED BY <1>1, <1>2, <2>2, <3>1 DEF SnapshotsOwned, LoadsCoverBatches
    <2>. QED BY <1>6, <2>1, <2>2
<1>. QED BY <1>7, <1>8, <1>9, <1>10, <1>11, <1>12, <1>13 DEF Rest

LEMMA BatchKeeps ==
    ASSUME IInv, NEW r \in Ops, CompleteBatch(r) \/ FailBatch(r)
    PROVE  IInv'
<1>. USE DEF IInv
<1>1. Left(r) /\ runner[r].pc \in Refreshing
    BY RestartLeaves DEF CompleteBatch, FailBatch, At, Refreshing
<1>2. UNCHANGED <<operation, changes, snapshots, lock, waking, late, faults, drops>>
    BY DEF CompleteBatch, FailBatch
<1>3. CASE CompleteBatch(r)
    <2>1. BatchEnds(runner[r].batch, "completed", Own(r)) /\ runner[r].pc = "complete"
        BY <1>3 DEF CompleteBatch, At, Own
    <2>2. Own(r) \in Nat
        BY ResultOf DEF Own
    <2>3. Rest'
        BY <1>1, <1>2, <2>1, <2>2, BatchEndKeeps
    <2>4. now' \in Nat /\ request' \in [Ops -> Request]
        BY <2>1, <2>2, BatchTyped
    <2>. QED BY <1>1, <1>2, <2>3, <2>4 DEF Left, OthersStay, TypeOK, Rest
<1>4. CASE FailBatch(r)
    <2>1. BatchEnds(runner[r].batch, "failed", 0)
        BY <1>4 DEF FailBatch
    <2>2. Rest'
        BY <1>1, <1>2, <2>1, BatchEndKeeps
    <2>3. now' \in Nat /\ request' \in [Ops -> Request]
        BY <2>1, BatchTyped
    <2>. QED BY <1>1, <1>2, <2>2, <2>3 DEF Left, OthersStay, TypeOK, Rest
<1>. QED BY <1>3, <1>4

LEMMA ClaimKeeps ==
    ASSUME IInv, NEW r \in Ops, Claim(r)
    PROVE  IInv'
<1>. USE DEF IInv
<1>1. PICK q \in Ops :
        /\ Claimable(q)
        /\ LET k == request[q].country
               batch == {p \in Ops : Claimable(p) /\ request[p].country = k}
           IN  /\ request' = [p \in Ops |->
                       IF p \in batch
                       THEN [request[p] EXCEPT !.status = "started", !.snapshot = 0, !.doneAt = 0]
                       ELSE request[p]]
               /\ runner' = [runner EXCEPT ![r] = [NoRunner EXCEPT !.pc = "ensure",
                                                   !.batch = batch, !.country = k]]
    BY DEF Claim
<1> DEFINE k == request[q].country
           batch == {p \in Ops : Claimable(p) /\ request[p].country = k}
           next == [NoRunner EXCEPT !.pc = "ensure", !.batch = batch, !.country = k]
<1>2. UNCHANGED <<operation, changes, snapshots, lock, waking, late, now, faults, drops>>
    BY DEF Claim
<1>3. \A p \in Ops : Claimable(p) => request[p].status \notin {"none", "completed"}
    BY DEF Claimable, Pending
<1>4. k \in Countries
    BY <1>1, <1>3 DEF OperationsBeforeRequests
<1>5. /\ next \in Runner
      /\ next.pc = "ensure" /\ next.batch = batch /\ next.country = k
    BY <1>4 DEF NoRunner, NoResult, Runner, Result, Holding
<1>6. \A p \in Ops : [request[p] EXCEPT !.status = "started", !.snapshot = 0, !.doneAt = 0]
                        \in Request
    BY Elements DEF Request
<1>7. /\ request' \in [Ops -> Request]
      /\ \A p \in batch : /\ request'[p].country = request[p].country
                           /\ request'[p].status = "started"
      /\ \A p \in Ops \ batch : request'[p] = request[p]
    BY <1>1, <1>6, Elements DEF Request
<1>8. \A p \in batch : p \in Ops /\ request[p].status # "none" /\ request[p].country = k
    BY <1>3
<1>9. runner' = [runner EXCEPT ![r] = next]
    BY <1>1
<1>. HIDE DEF next, batch, k
<1>20. \A p \in Ops :
        \/ request'[p] = request[p]
        \/ /\ request'[p].status = "started" /\ request'[p].country = request[p].country
           /\ request[p].status # "none"
    <2> SUFFICES ASSUME NEW p \in Ops
                 PROVE  \/ request'[p] = request[p]
                        \/ /\ request'[p].status = "started"
                           /\ request'[p].country = request[p].country
                           /\ request[p].status # "none"
        OBVIOUS
    <2>1. CASE p \in batch
        BY <1>7, <1>8, <2>1
    <2>2. CASE p \notin batch
        BY <1>7, <2>2
    <2>. QED BY <2>1, <2>2
<1>10. /\ runner' \in [Ops -> Runner] /\ runner'[r] = next
       /\ \A o \in Ops \ {r} : runner'[o] = runner[o] /\ Own(o)' = Own(o)
    BY <1>5, <1>9 DEF TypeOK, Own
<1>11. TypeOK'
    BY <1>2, <1>7, <1>10 DEF TypeOK
<1>12. OperationsBeforeRequests'
    BY <1>20, <1>2 DEF OperationsBeforeRequests
<1>13. PromotionsCommitted'
    BY <1>20, <1>2 DEF PromotionsCommitted, Promotions
<1>14. BatchesOfCountry'
    <2> SUFFICES ASSUME NEW o \in Ops, runner'[o].pc \in Refreshing
                 PROVE  /\ runner'[o].country \in Countries
                        /\ \A p \in runner'[o].batch : /\ request'[p].status # "none"
                                                       /\ request'[p].country = runner'[o].country
        BY DEF BatchesOfCountry
    <2>1. CASE o = r
        <3>1. /\ runner'[o].pc = "ensure" /\ runner'[o].batch = batch
              /\ runner'[o].country = k
            BY <1>5, <1>10, <2>1
        <3>2. \A p \in batch : request'[p].status # "none" /\ request'[p].country = k
            BY <1>20, <1>8
        <3>. QED BY <1>4, <3>1, <3>2
    <2>2. CASE o # r
        <3>1. runner'[o] = runner[o] /\ runner[o].batch \subseteq Ops
            BY <1>10, <2>2, ResultOf
        <3>. QED BY <1>20, <3>1 DEF BatchesOfCountry
    <2>. QED BY <2>1, <2>2
<1>15. \A p \in Ops : request'[p].status = "completed" => request'[p] = request[p]
    BY <1>20
<1>16. \A o \in Ops : runner'[o].pc \in Owning =>
                          o # r /\ Owns(o) /\ runner'[o] = runner[o] /\ Own(o)' = Own(o)
    BY <1>5, <1>10 DEF Owns, Owning
<1>17. SnapshotsOwned'
    BY <1>2, <1>15, <1>16 DEF SnapshotsOwned, Owns
<1>18. LoadsCoverBatches'
    BY <1>2, <1>16 DEF LoadsCoverBatches, Promotions, Owning
<1>19. LateBelongsToNobody' /\ CompletedIsCovered'
    BY <1>2, <1>15 DEF LateBelongsToNobody, CompletedIsCovered, Promotions
<1>. QED BY <1>11, <1>12, <1>13, <1>14, <1>17, <1>18, <1>19

\* A psql that is late completes a snapshot that nobody refers to.
LEMMA LateKeeps ==
    ASSUME IInv, NEW result \in late, LateCommit(result)
    PROVE  IInv'
<1>. USE DEF IInv
<1> DEFINE n == result.snapshot
           s == [status |-> "completed", country |-> snapshots[n].country,
                 content |-> result.content, at |-> result.at]
<1>1. n \in DOMAIN snapshots /\ result \in Result
    BY DEF LateBelongsToNobody, TypeOK
<1>2. /\ snapshots' = [snapshots EXCEPT ![n] = s]
      /\ snapshots' \in Seq(Snapshot) /\ DOMAIN snapshots' = DOMAIN snapshots
    BY <1>1, PersistedForm DEF LateCommit
<1>3. \A m \in DOMAIN snapshots : /\ snapshots'[m].country = snapshots[m].country
                                  /\ m # n => snapshots'[m] = snapshots[m]
    BY <1>1, <1>2
<1>4. UNCHANGED <<operation, request, changes, runner, lock, waking, now, faults, drops>>
      /\ late' \subseteq late
    BY DEF LateCommit
<1>5. TypeOK'
    BY <1>2, <1>4 DEF TypeOK
<1>6. OperationsBeforeRequests' /\ PromotionsCommitted' /\ BatchesOfCountry'
    BY <1>4 DEF OperationsBeforeRequests, PromotionsCommitted, Promotions, BatchesOfCountry
<1>7. \A o \in Ops : Owns(o) => Own(o) \in DOMAIN snapshots /\ Own(o) # n
    BY DEF SnapshotsOwned
<1>8. SnapshotsOwned'
    BY <1>2, <1>3, <1>4 DEF SnapshotsOwned, Owns, Own
<1>9. LoadsCoverBatches'
    BY <1>3, <1>4, <1>7 DEF LoadsCoverBatches, Owns, Owning, Own, Promotions
<1>10. LateBelongsToNobody'
    BY <1>2, <1>4 DEF LateBelongsToNobody
<1>11. CompletedIsCovered'
    <2>1. \A q \in Ops : request[q].status = "completed" => request[q].snapshot # n
        BY DEF LateBelongsToNobody
    <2>. QED BY <1>2, <1>3, <1>4, <2>1 DEF CompletedIsCovered, Promotions
<1>. QED BY <1>5, <1>6, <1>8, <1>9, <1>10, <1>11

\* An operation that commits is in no batch: it had no request before.
LEMMA CommitKeeps ==
    ASSUME IInv, NEW q \in Ops, NEW k \in Countries,
           operation[q].pc # "done",
           operation' = [operation EXCEPT ![q] = operation'[q]],
           operation'[q].pc = "done",
           request' \in {request, [request EXCEPT ![q] = Queued(k)]},
           \A c \in Countries : changes[c] \subseteq changes'[c],
           operation'[q].kind = "promotion" => /\ request' = [request EXCEPT ![q] = Queued(k)]
                                               /\ q \in changes'[k],
           UNCHANGED <<snapshots, late>>,
           UNCHANGED runner
    PROVE  Rest'
<1>. USE DEF IInv
<1>1. request[q].status = "none"
    BY DEF OperationsBeforeRequests
<1>2. /\ Queued(k).status = "queued" /\ Queued(k).country = k
    BY DEF Queued, NoRequest
<1>3. \A p \in Ops \ {q} : operation'[p] = operation[p] /\ request'[p] = request[p]
    BY DEF TypeOK
<1>4. \/ request'[q] = request[q]
      \/ request'[q].status = "queued" /\ request'[q].country = k
    BY <1>2 DEF TypeOK
<1>5. operation'[q].kind = "promotion" =>
          request'[q].country = k /\ q \in changes'[k]
    BY <1>2 DEF TypeOK
<1>6. Promotions' \subseteq Promotions \cup {q}
    BY <1>3 DEF Promotions
<1>7. OperationsBeforeRequests'
    BY <1>1, <1>3, <1>4 DEF OperationsBeforeRequests
<1>8. PromotionsCommitted'
    <2> SUFFICES ASSUME NEW p \in Ops, operation'[p].kind = "promotion", operation'[p].pc = "done"
                 PROVE  request'[p].country \in Countries /\ p \in changes'[request'[p].country]
        BY DEF PromotionsCommitted, Promotions
    <2>1. CASE p = q
        BY <1>5, <2>1
    <2>2. CASE p # q
        BY <1>3, <2>2 DEF PromotionsCommitted, Promotions
    <2>. QED BY <2>1, <2>2
<1>9. \A r \in Ops : runner[r].pc \in Refreshing => q \notin runner[r].batch
    BY <1>1 DEF BatchesOfCountry
<1>10. BatchesOfCountry'
    <2> SUFFICES ASSUME NEW r \in Ops, runner[r].pc \in Refreshing, NEW p \in runner[r].batch
                 PROVE  request'[p].status # "none" /\ request'[p].country = runner[r].country
        BY DEF BatchesOfCountry
    <2>1. p \in Ops /\ p # q
        BY <1>9, ResultOf
    <2>. QED BY <1>3, <2>1 DEF BatchesOfCountry
<1>11. \A p \in Ops : request'[p].status = "completed" => p # q /\ request'[p] = request[p]
    BY <1>1, <1>3, <1>4
<1>12. SnapshotsOwned'
    BY <1>11 DEF SnapshotsOwned, Owns, Own
<1>13. LoadsCoverBatches'
    <2>1. \A r \in Ops : runner[r].pc \in {"build", "persist", "complete"} => q \notin runner[r].batch
        BY <1>9 DEF Refreshing
    <2>. QED BY <1>6, <2>1 DEF LoadsCoverBatches, Own
<1>14. LateBelongsToNobody'
    BY <1>11 DEF LateBelongsToNobody
<1>15. CompletedIsCovered'
    BY <1>6, <1>11 DEF CompletedIsCovered
<1>. QED BY <1>7, <1>8, <1>10, <1>12, <1>13, <1>14, <1>15 DEF Rest

LEMMA OperationKeeps ==
    ASSUME IInv, NEW q \in Ops, OperationStep(q)
    PROVE  IInv'
<1>. USE DEF IInv
<1>1. TypeOK'
    BY OperationsTyped
<1>2. ASSUME NEW k \in Countries, Promote(q, k) PROVE Rest'
    <2>1. /\ operation' = [operation EXCEPT ![q] = operation'[q]]
          /\ operation'[q].pc = "done" /\ operation[q].pc # "done"
          /\ request' = [request EXCEPT ![q] = Queued(k)]
          /\ \A c \in Countries : changes[c] \subseteq changes'[c]
          /\ q \in changes'[k]
          /\ UNCHANGED <<snapshots, late>> /\ UNCHANGED runner
        BY <1>2 DEF Promote, TypeOK
    <2>. QED BY <2>1, CommitKeeps
<1>3. ASSUME NEW k \in Countries, NEW kind \in Kinds \ {"promotion"}, Ask(q, kind, k) PROVE Rest'
    <2>1. /\ operation[q].pc = "idle" /\ operation'[q].pc = "open"
          /\ operation'[q].country = k /\ operation'[q].kind = kind
          /\ \A p \in Ops \ {q} : operation'[p] = operation[p]
          /\ UNCHANGED <<request, changes, snapshots, runner, late>>
        BY <1>3 DEF Ask, TypeOK
    <2>2. Promotions' \subseteq Promotions
        BY <2>1 DEF Promotions
    <2>3. OperationsBeforeRequests'
        BY <2>1 DEF OperationsBeforeRequests
    <2>4. PromotionsCommitted'
        BY <2>1, <2>2 DEF PromotionsCommitted
    <2>5. BatchesOfCountry' /\ LateBelongsToNobody'
        BY <2>1 DEF BatchesOfCountry, LateBelongsToNobody
    <2>6. SnapshotsOwned'
        BY <2>1 DEF SnapshotsOwned, Owns, Own
    <2>7. LoadsCoverBatches'
        BY <2>1, <2>2 DEF LoadsCoverBatches, Own
    <2>8. CompletedIsCovered'
        BY <2>1, <2>2 DEF CompletedIsCovered
    <2>. QED BY <2>3, <2>4, <2>5, <2>6, <2>7, <2>8 DEF Rest
<1>4. ASSUME CommitAsk(q) PROVE Rest'
    <2> DEFINE k == operation[q].country
               next == [operation[q] EXCEPT !.pc = "done", !.asks = FALSE]
    <2>1. k \in Countries /\ operation[q].pc = "open" /\ operation[q].kind # "promotion"
        BY <1>4 DEF CommitAsk, OperationsBeforeRequests
    <2>2. next.pc = "done" /\ next.kind = operation[q].kind
        BY Elements DEF Operation
    <2>3. operation' = [operation EXCEPT ![q] = next]
        BY <1>4, Elements DEF CommitAsk, Operation, TypeOK
    <2>. HIDE DEF next
    <2>4. operation' = [operation EXCEPT ![q] = operation'[q]] /\ operation'[q] = next
        BY <2>3 DEF TypeOK
    <2>5. request' \in {request, [request EXCEPT ![q] = Queued(k)]}
        BY <1>4 DEF CommitAsk
    <2>6. \A c \in Countries : changes[c] \subseteq changes'[c]
        BY <1>4, <2>1 DEF CommitAsk, TypeOK
    <2>7. UNCHANGED <<snapshots, late>> /\ UNCHANGED runner
        BY <1>4 DEF CommitAsk
    <2>8. /\ operation[q].pc # "done" /\ operation'[q].pc = "done"
          /\ operation'[q].kind # "promotion"
        BY <2>1, <2>2, <2>4
    <2>9. IInv /\ k \in Countries /\ operation' = [operation EXCEPT ![q] = operation'[q]]
        BY <2>1, <2>4
    <2>10. operation'[q].kind = "promotion" => /\ request' = [request EXCEPT ![q] = Queued(k)]
                                              /\ q \in changes'[k]
        BY <2>8
    <2>. HIDE DEF k, IInv
    <2>. QED BY <2>5, <2>6, <2>7, <2>8, <2>9, <2>10, CommitKeeps
<1>5. ASSUME Launch(q) PROVE Rest'
    BY <1>5, OutsideKeeps DEF Rest
<1>6. ASSUME LaunchFails(q) PROVE Rest'
    <2>1. UNCHANGED <<operation, request, changes, snapshots, runner, late>>
        BY <1>6 DEF LaunchFails
    <2>2. OperationsBeforeRequests' /\ PromotionsCommitted' /\ BatchesOfCountry'
        BY <2>1 DEF OperationsBeforeRequests, PromotionsCommitted, Promotions, BatchesOfCountry
    <2>3. SnapshotsOwned' /\ LoadsCoverBatches'
        BY <2>1 DEF SnapshotsOwned, Owns, Own, LoadsCoverBatches, Promotions
    <2>4. LateBelongsToNobody' /\ CompletedIsCovered'
        BY <2>1 DEF LateBelongsToNobody, CompletedIsCovered, Promotions
    <2>. QED BY <2>2, <2>3, <2>4 DEF Rest
<1>7. Rest'
    BY <1>2, <1>3, <1>4, <1>5, <1>6, Zenon DEF OperationStep
<1>. QED BY <1>1, <1>7 DEF Rest

-----------------------------------------------------------------------------
(* Theorems *)

LEMMA Starts == Init => IInv
<1> SUFFICES ASSUME Init PROVE IInv
    OBVIOUS
<1>1. TypeOK
    BY NoRunnerType DEF Init, TypeOK, NoOperation, Operation, NoRequest, Request, NoRunner, BoundAssumption
<1>2. \A q \in Ops : /\ operation[q].pc = "idle" /\ request[q].status = "none"
                     /\ runner[q].pc = "none"
    BY DEF Init, NoOperation, NoRequest, NoRunner
<1>3. Promotions = {} /\ late = {}
    BY <1>2 DEF Init, Promotions
<1>. QED BY <1>1, <1>2, <1>3
         DEF IInv, OperationsBeforeRequests, PromotionsCommitted, BatchesOfCountry, SnapshotsOwned,
             Owns, Owning, Refreshing, LoadsCoverBatches, LateBelongsToNobody, CompletedIsCovered

LEMMA Keeps == IInv /\ [Next]_vars => IInv'
<1> SUFFICES ASSUME IInv, [Next]_vars PROVE IInv'
    OBVIOUS
<1>1. ASSUME UNCHANGED vars PROVE IInv'
    BY <1>1 DEF vars, IInv, TypeOK, OperationsBeforeRequests, PromotionsCommitted, Promotions,
                BatchesOfCountry, SnapshotsOwned, Owns, Own, LoadsCoverBatches,
                LateBelongsToNobody, CompletedIsCovered
<1>2. ASSUME NEW r \in Ops, RunnerStep(r) PROVE IInv'
    BY <1>2, EnsureKeeps, LoadKeeps, BuildKeeps, PersistKeeps, FailureKeeps, OutsideKeeps,
       BatchKeeps, ClaimKeeps DEF RunnerStep
<1>3. ASSUME NEW r \in Ops, OperationStep(r) \/ Killed(r) \/ ConnectionLost(r) PROVE IInv'
    BY <1>3, OperationKeeps, KilledKeeps, ConnectionLostKeeps
<1>4. ASSUME NEW result \in late, LateCommit(result) PROVE IInv'
    BY <1>4, LateKeeps
<1>. QED BY <1>1, <1>2, <1>3, <1>4 DEF Next

\* The refresh is well typed (aggregate_refresh.py, aggregate_refresh_runner.py).
THEOREM RefreshTyped == Spec => []TypeOK
<1>1. IInv => TypeOK
    BY DEF IInv
<1>. QED BY Starts, Keeps, <1>1, PTL DEF Spec

\* A request that is completed names a completed snapshot of its country in which
\* its promotion is, however many runners died or lost the lock on the way
\* (complete_aggregate_refresh_batch).
THEOREM CompletedRequestsAreCovered == Spec => []CompletedIsCovered
<1>1. IInv => CompletedIsCovered
    BY DEF IInv
<1>. QED BY Starts, Keeps, <1>1, PTL DEF Spec
=============================================================================
