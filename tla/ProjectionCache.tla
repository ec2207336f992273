--------------------------- MODULE ProjectionCache ---------------------------
(***************************************************************************)
(* The process-local cache of public snapshot rows, as the public read     *)
(* routes use it.  Every request runs in a thread of its own: it finds the *)
(* snapshot completed last, asks the cache for that snapshot's rows (the   *)
(* whole list, or one product), and on a miss either loads them or waits   *)
(* for the thread that is loading them already.                            *)
(*                                                                         *)
(*   public_projection_cache.py     the cache                              *)
(*   public_common.py               load_public_projection_rows            *)
(*                                                                         *)
(* Rows are known by the snapshot they are of and the moment they were     *)
(* read from the database, which is all the properties ask of them.  The   *)
(* parts of a key that one process never varies between two requests (the  *)
(* database, the role, the policy versions) are left out.                  *)
(***************************************************************************)
EXTENDS Naturals, SequencesExt

CONSTANTS
    Callers,      \* requests, each in a thread of the pool
    Products,     \* product_id
    All,          \* the rows of every product: product_id is None
    Ttl,          \* ttl_seconds
    MaxEntries,   \* max_entries
    MaxLoad,      \* bound on the ticks a load takes, from its miss to its end
    MaxSnapshots, \* bound on the snapshots published
    MaxClock      \* bound on the clock

ASSUME AllAssumption == All \notin Products
ASSUME SizeAssumption == Ttl \in Nat \ {0} /\ MaxLoad \in Nat /\ MaxEntries \in Nat \ {0}
ASSUME LimitAssumption == MaxSnapshots \in Nat \ {0} /\ MaxClock \in Nat

VARIABLES
    caller,   \* the requests: where they are, and what they ask and hold
    entries,  \* _entries, an OrderedDict: the entry used last is the last
    inflight, \* _inflight: the load that is running for a key
    future,   \* the Future a caller that loads shares with those who wait
    latest,   \* the snapshot completed last
    clock

vars == <<caller, entries, inflight, future, latest, clock>>

-----------------------------------------------------------------------------
(* Types *)

Keys == [snapshot : 1..MaxSnapshots, product : Products \cup {All}]
Rows == [snapshot : 1..MaxSnapshots, readAt : 0..MaxClock]
NoRows == [snapshot |-> 0, readAt |-> 0]
NoKey == [snapshot |-> 0, product |-> All]
Entry == [key : Keys, deadline : Nat, rows : Rows]
Future == [status : {"none", "pending", "result", "error"}, rows : Rows \cup {NoRows}]

\* from: the caller whose future is awaited.  lookedAt: when the cache was asked.
Caller == [pc : {"idle", "whole", "load", "query", "store", "resolve", "reject", "cleanup",
                 "wait", "served", "failed"},
           key : Keys \cup {NoKey}, from : Callers, rows : Rows \cup {NoRows},
           lookedAt : 0..MaxClock]

Loading == {"query", "store", "resolve", "reject", "cleanup"}

\* The cache holds each key once, and never more entries than it may.
TypeOK ==
    /\ caller \in [Callers -> Caller]
    /\ entries \in Seq(Entry) /\ Len(entries) <= MaxEntries
    /\ IsInjective([i \in DOMAIN entries |-> entries[i].key])
    /\ DOMAIN inflight \subseteq Keys /\ \A k \in DOMAIN inflight : inflight[k] \in Callers
    /\ future \in [Callers -> Future]
    /\ latest \in 1..MaxSnapshots
    /\ clock \in 0..MaxClock

Init ==
    /\ caller = [c \in Callers |->
                    [pc |-> "idle", key |-> NoKey, from |-> c, rows |-> NoRows,
                     lookedAt |-> 0]]
    /\ entries = <<>>
    /\ inflight = [k \in {} |-> NoKey]
    /\ future = [c \in Callers |-> [status |-> "none", rows |-> NoRows]]
    /\ latest = 1
    /\ clock = 0

-----------------------------------------------------------------------------
(* The cache *)

\* Mutant of Fresh: entries do not expire.
FreshForEver(k) == {e \in ToSet(entries) : e.key = k}
\* Mutant of Fresh: the snapshot is not part of the key.
FreshOfProduct(k) == {e \in ToSet(entries) : e.key.product = k.product /\ clock < e.deadline}

Fresh(k) == {e \in ToSet(entries) : e.key = k /\ clock < e.deadline}
Hit(k) == Fresh(k) # {}
Hitting(k) == CHOOSE e \in Fresh(k) : TRUE

\* del _entries[key]: a key is there once at most.
Without(s, k) ==
    IF \E i \in DOMAIN s : s[i].key = k
    THEN RemoveAt(s, CHOOSE i \in DOMAIN s : s[i].key = k)
    ELSE s

\* _get: an entry that is found is used now, and one that expired is dropped.
AfterGet(k) == IF Hit(k) THEN Append(Without(entries, k), Hitting(k)) ELSE Without(entries, k)

\* Mutant of Evicted: one entry too many is kept.
EvictedLate(s) == IF Len(s) > MaxEntries THEN SubSeq(s, Len(s) - MaxEntries, Len(s)) ELSE s

\* The oldest entries make room.
Evicted(s) == IF Len(s) > MaxEntries THEN SubSeq(s, Len(s) - MaxEntries + 1, Len(s)) ELSE s

\* The time to live starts when the load ends.
AfterStore(k, r) ==
    Evicted(Append(Without(entries, k), [key |-> k, deadline |-> clock + Ttl, rows |-> r]))

WholeKey(k) == [k EXCEPT !.product = All]

-----------------------------------------------------------------------------
(* Requests *)

\* load_latest_public_snapshot, and the key of what the request wants of it.
Begin(c) ==
    /\ caller[c].pc = "idle"
    /\ \E p \in Products \cup {All} :
          caller' = [caller EXCEPT ![c].pc = IF p = All THEN "load" ELSE "whole",
                                   ![c].key = [snapshot |-> latest, product |-> p]]
    /\ UNCHANGED <<entries, inflight, future, latest, clock>>

Serve(c, r) == [caller EXCEPT ![c].pc = "served", ![c].rows = r, ![c].lookedAt = clock]

\* A product is picked from the whole list when that is cached.
LookInWhole(c) ==
    /\ caller[c].pc = "whole"
    /\ LET k == WholeKey(caller[c].key)
       IN  /\ entries' = AfterGet(k)
           /\ caller' = IF Hit(k) THEN Serve(c, Hitting(k).rows)
                                  ELSE [caller EXCEPT ![c].pc = "load"]
    /\ UNCHANGED <<inflight, future, latest, clock>>

LoadHit(c) ==
    /\ caller[c].pc = "load"
    /\ Hit(caller[c].key)
    /\ entries' = AfterGet(caller[c].key)
    /\ caller' = Serve(c, Hitting(caller[c].key).rows)
    /\ UNCHANGED <<inflight, future, latest, clock>>

\* A miss joins the load that is in flight ...
LoadJoin(c) ==
    /\ caller[c].pc = "load"
    /\ ~Hit(caller[c].key)
    /\ caller[c].key \in DOMAIN inflight
    /\ entries' = AfterGet(caller[c].key)
    /\ caller' = [caller EXCEPT ![c].pc = "wait", ![c].from = inflight[caller[c].key],
                                ![c].lookedAt = clock]
    /\ UNCHANGED <<inflight, future, latest, clock>>

\* Mutant of LoadOwn: a load in flight is not joined.
LoadOwnAlways(c) ==
    /\ caller[c].pc = "load"
    /\ ~Hit(caller[c].key)
    /\ entries' = AfterGet(caller[c].key)
    /\ inflight' = [k \in DOMAIN inflight \cup {caller[c].key} |->
                       IF k = caller[c].key THEN c ELSE inflight[k]]
    /\ future' = [future EXCEPT ![c].status = "pending"]
    /\ caller' = [caller EXCEPT ![c].pc = "query", ![c].lookedAt = clock]
    /\ UNCHANGED <<latest, clock>>

\* ... or becomes the owner of a new one.
LoadOwn(c) ==
    /\ caller[c].pc = "load"
    /\ ~Hit(caller[c].key)
    /\ caller[c].key \notin DOMAIN inflight
    /\ entries' = AfterGet(caller[c].key)
    /\ inflight' = [k \in DOMAIN inflight \cup {caller[c].key} |->
                       IF k = caller[c].key THEN c ELSE inflight[k]]
    /\ future' = [future EXCEPT ![c].status = "pending"]
    /\ caller' = [caller EXCEPT ![c].pc = "query", ![c].lookedAt = clock]
    /\ UNCHANGED <<latest, clock>>

\* loader(): the rows are read, or the query fails.
Query(c) ==
    /\ caller[c].pc = "query"
    /\ caller' = [caller EXCEPT ![c].pc = "store",
                                ![c].rows = [snapshot |-> caller[c].key.snapshot,
                                             readAt |-> clock]]
    /\ UNCHANGED <<entries, inflight, future, latest, clock>>

QueryFails(c) ==
    /\ caller[c].pc = "query"
    /\ caller' = [caller EXCEPT ![c].pc = "reject"]
    /\ UNCHANGED <<entries, inflight, future, latest, clock>>

Store(c) ==
    /\ caller[c].pc = "store"
    /\ entries' = AfterStore(caller[c].key, caller[c].rows)
    /\ caller' = [caller EXCEPT ![c].pc = "resolve"]
    /\ UNCHANGED <<inflight, future, latest, clock>>

\* pending.set_result and pending.set_exception
Resolve(c) ==
    /\ caller[c].pc = "resolve"
    /\ future' = [future EXCEPT ![c] = [status |-> "result", rows |-> caller[c].rows]]
    /\ caller' = [caller EXCEPT ![c].pc = "cleanup"]
    /\ UNCHANGED <<entries, inflight, latest, clock>>

\* Mutant of Reject: the error is not shared with those who wait.
RejectAlone(c) ==
    /\ caller[c].pc = "reject"
    /\ caller' = [caller EXCEPT ![c].pc = "cleanup"]
    /\ UNCHANGED <<entries, inflight, future, latest, clock>>

Reject(c) ==
    /\ caller[c].pc = "reject"
    /\ future' = [future EXCEPT ![c].status = "error"]
    /\ caller' = [caller EXCEPT ![c].pc = "cleanup"]
    /\ UNCHANGED <<entries, inflight, latest, clock>>

\* finally: the load is no longer in flight.
Cleanup(c) ==
    /\ caller[c].pc = "cleanup"
    /\ inflight' = [k \in DOMAIN inflight \ {caller[c].key} |-> inflight[k]]
    /\ caller' = [caller EXCEPT ![c].pc = IF future[c].status = "result" THEN "served"
                                                                         ELSE "failed"]
    /\ UNCHANGED <<entries, future, latest, clock>>

\* pending.result() returns the rows of the other load, or raises its error.
Await(c) ==
    /\ caller[c].pc = "wait"
    /\ LET f == future[caller[c].from]
       IN  \/ /\ f.status = "result"
              /\ caller' = [caller EXCEPT ![c].pc = "served", ![c].rows = f.rows, ![c].from = c]
           \/ /\ f.status = "error"
              /\ caller' = [caller EXCEPT ![c].pc = "failed", ![c].from = c]
    /\ UNCHANGED <<entries, inflight, future, latest, clock>>

-----------------------------------------------------------------------------
(* The rest of the system *)

\* A refresh completes a new snapshot.
Publish ==
    /\ latest < MaxSnapshots
    /\ latest' = latest + 1
    /\ UNCHANGED <<caller, entries, inflight, future, clock>>

\* No load takes more than MaxLoad ticks.
Tick ==
    /\ clock < MaxClock
    /\ \A c \in Callers : caller[c].pc \in Loading => clock < caller[c].lookedAt + MaxLoad
    /\ clock' = clock + 1
    /\ UNCHANGED <<caller, entries, inflight, future, latest>>

\* What a thread does after it looked in the cache, and before.
Step(c) ==
    \/ LookInWhole(c) \/ LoadHit(c) \/ LoadJoin(c) \/ LoadOwn(c)
    \/ Query(c) \/ QueryFails(c) \/ Store(c) \/ Resolve(c) \/ Reject(c) \/ Cleanup(c)
    \/ Await(c)

Next ==
    \/ \E c \in Callers : Begin(c) \/ Step(c)
    \/ Publish
    \/ Tick

Spec == Init /\ [][Next]_vars

\* The threads that run are scheduled.
FairSpec == Spec /\ \A c \in Callers : WF_vars(Step(c))

-----------------------------------------------------------------------------
(* Properties *)

\* Two requests never load the same rows at the same time: the second joins
\* the first, in whatever order they miss, expire, fail and clean up (load).
OneLoadPerKey ==
    \A c, d \in Callers :
        (caller[c].pc \in Loading /\ caller[d].pc \in Loading /\ caller[c].key = caller[d].key)
            => c = d

\* A request shows the rows of the snapshot that was completed last when it
\* began, whatever other requests left in the cache or in flight: a publication
\* is seen at once, and rows are never shown under the date of another snapshot
\* (the key of load_public_projection_rows).
PublicationSeenAtOnce ==
    \A c \in Callers : caller[c].pc = "served" => caller[c].rows.snapshot = caller[c].key.snapshot

\* What a request shows was read from the database less than a time to live
\* and a load before the request looked: neither a hit, nor a load joined
\* late, nor one whose entry was evicted meanwhile serves anything older
\* (load, _get).
ServedRowsAreRecent ==
    \A c \in Callers :
        caller[c].pc = "served" => caller[c].lookedAt < caller[c].rows.readAt + Ttl + MaxLoad

\* A request that began is served or fails: nobody waits for ever for a load
\* that failed, was evicted, or ended before the request joined it (load).
RequestsEnd == \A c \in Callers : (caller[c].pc # "idle") ~> (caller[c].pc \in {"served", "failed"})
=============================================================================
