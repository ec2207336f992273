------------------------ MODULE ProjectionCacheProofs ------------------------
(***************************************************************************)
(* The cache, for any number of requests, products and snapshots, and for  *)
(* any limits.                                                             *)
(*                                                                         *)
(* Single flight: whoever loads is the one the cache knows to be in flight *)
(* for its key (FlightInv).                                                *)
(*                                                                         *)
(* What is served: the rows of an entry, and those of a future, are of the *)
(* snapshot they were asked for, and were read after the load began; and   *)
(* a request that waits looked at most a load after the one it waits for   *)
(* (CacheInv).                                                             *)
(***************************************************************************)
EXTENDS ProjectionCache, SequenceTheorems, TLAPS

\* Callers are records with these fields; what else they hold does not matter here.
CallerFields ==
    /\ DOMAIN caller = Callers
    /\ \A c \in Callers : {"pc", "key", "from", "rows", "lookedAt"} \subseteq DOMAIN caller[c]

LoadersInFlight == \A c \in Callers :
    caller[c].pc \in Loading => caller[c].key \in DOMAIN inflight /\ inflight[caller[c].key] = c

FlightInv == CallerFields /\ LoadersInFlight

\* A caller moves on, and who is in flight for which key stays as it is.
LEMMA MovesOn ==
    ASSUME FlightInv, NEW c \in Callers, NEW r,
           caller' = [caller EXCEPT ![c] = r], UNCHANGED inflight,
           {"pc", "key", "from", "rows", "lookedAt"} \subseteq DOMAIN r,
           r.pc \in Loading => caller[c].pc \in Loading /\ r.key = caller[c].key
    PROVE  FlightInv'
<1>1. \A d \in Callers : caller'[d] = IF d = c THEN r ELSE caller[d]
    BY DEF FlightInv, CallerFields
<1>2. CallerFields'
    BY <1>1 DEF FlightInv, CallerFields
<1>3. LoadersInFlight'
    BY <1>1 DEF FlightInv, LoadersInFlight
<1>. QED BY <1>2, <1>3 DEF FlightInv

LEMMA LoadOwnKeeps == ASSUME FlightInv, NEW c \in Callers, LoadOwn(c) PROVE FlightInv'
<1> DEFINE key == caller[c].key
<1>1. /\ DOMAIN caller = Callers
      /\ \A d \in Callers : {"pc", "key", "from", "rows", "lookedAt"} \subseteq DOMAIN caller[d]
    BY DEF FlightInv, CallerFields
<1>2. /\ caller' = [caller EXCEPT ![c].pc = "query", ![c].lookedAt = clock]
      /\ key \notin DOMAIN inflight
      /\ inflight' = [k \in DOMAIN inflight \cup {key} |-> IF k = key THEN c ELSE inflight[k]]
    BY DEF LoadOwn
<1>3. \A d \in Callers : d # c => caller'[d] = caller[d]
    BY <1>1, <1>2
<1>4. caller'[c].key = key /\ DOMAIN caller'[c] = DOMAIN caller[c] /\ DOMAIN caller' = Callers
    BY <1>1, <1>2
<1>5. CallerFields'
    BY <1>1, <1>3, <1>4 DEF CallerFields
<1> HIDE DEF key
<1>6. LoadersInFlight'
    BY <1>2, <1>3, <1>4 DEF FlightInv, LoadersInFlight
<1>. QED BY <1>5, <1>6 DEF FlightInv

LEMMA CleanupKeeps == ASSUME FlightInv, NEW c \in Callers, Cleanup(c) PROVE FlightInv'
<1> DEFINE key == caller[c].key
           pc == IF future[c].status = "result" THEN "served" ELSE "failed"
<1>1. /\ DOMAIN caller = Callers
      /\ \A d \in Callers : {"pc", "key", "from", "rows", "lookedAt"} \subseteq DOMAIN caller[d]
    BY DEF FlightInv, CallerFields
<1>2. /\ caller' = [caller EXCEPT ![c].pc = pc] /\ caller[c].pc = "cleanup"
      /\ inflight' = [k \in DOMAIN inflight \ {key} |-> inflight[k]]
    BY DEF Cleanup
<1>3. \A d \in Callers : d # c => caller'[d] = caller[d]
    BY <1>1, <1>2
<1>4. caller'[c].pc \notin Loading
    BY <1>1, <1>2 DEF Loading
<1>5. CallerFields'
    BY <1>1, <1>2 DEF CallerFields
<1>6. inflight[key] = c
    BY <1>2 DEF FlightInv, LoadersInFlight, Loading
<1> HIDE DEF key, pc
<1>7. LoadersInFlight'
    BY <1>2, <1>3, <1>4, <1>6 DEF FlightInv, LoadersInFlight
<1>. QED BY <1>5, <1>7 DEF FlightInv

\* A request that loads is in flight (every step of a request).
LEMMA StepKeeps == ASSUME FlightInv, NEW c \in Callers, Begin(c) \/ Step(c) PROVE FlightInv'
<1>1. /\ DOMAIN caller = Callers
      /\ {"pc", "key", "from", "rows", "lookedAt"} \subseteq DOMAIN caller[c]
    BY DEF FlightInv, CallerFields
<1>2. CASE Begin(c)
    <2>1. PICK p \in Products \cup {All} :
              caller' = [caller EXCEPT ![c].pc = IF p = All THEN "load" ELSE "whole",
                                       ![c].key = [snapshot |-> latest, product |-> p]]
        BY <1>2 DEF Begin
    <2> DEFINE r == [caller[c] EXCEPT !.pc = IF p = All THEN "load" ELSE "whole",
                                      !.key = [snapshot |-> latest, product |-> p]]
    <2>2. caller' = [caller EXCEPT ![c] = r]
        BY <1>1, <2>1
    <2>3. r.pc \notin Loading /\ {"pc", "key", "from", "rows", "lookedAt"} \subseteq DOMAIN r
        BY <1>1 DEF Loading
    <2>. QED BY <1>2, <2>2, <2>3, MovesOn DEF Begin
<1>3. ASSUME NEW rows, caller' = Serve(c, rows), UNCHANGED inflight PROVE FlightInv'
    <2> DEFINE r == [caller[c] EXCEPT !.pc = "served", !.rows = rows, !.lookedAt = clock]
    <2>1. caller' = [caller EXCEPT ![c] = r]
        BY <1>1, <1>3 DEF Serve
    <2>2. r.pc \notin Loading /\ {"pc", "key", "from", "rows", "lookedAt"} \subseteq DOMAIN r
        BY <1>1 DEF Loading
    <2>. QED BY <1>3, <2>1, <2>2, MovesOn
<1>4. ASSUME NEW pc, caller' = [caller EXCEPT ![c].pc = pc], UNCHANGED inflight,
             pc \in Loading => caller[c].pc \in Loading
      PROVE  FlightInv'
    <2> DEFINE r == [caller[c] EXCEPT !.pc = pc]
    <2>1. /\ r.pc = pc /\ r.key = caller[c].key
          /\ {"pc", "key", "from", "rows", "lookedAt"} \subseteq DOMAIN r
        BY <1>1
    <2>2. caller' = [caller EXCEPT ![c] = r]
        BY <1>1, <1>4
    <2>. QED BY <1>4, <2>1, <2>2, MovesOn
<1>5. CASE LookInWhole(c)
    <2>1. CASE Hit(WholeKey(caller[c].key))
        BY <1>3, <1>5, <2>1 DEF LookInWhole
    <2>2. CASE ~Hit(WholeKey(caller[c].key))
        BY <1>4, <1>5, <2>2 DEF LookInWhole, Loading
    <2>. QED BY <2>1, <2>2
<1>6. CASE LoadHit(c)
    BY <1>3, <1>6 DEF LoadHit
<1>7. CASE LoadJoin(c)
    <2> DEFINE r == [caller[c] EXCEPT !.pc = "wait", !.from = inflight[caller[c].key],
                                      !.lookedAt = clock]
    <2>1. caller' = [caller EXCEPT ![c] = r]
        BY <1>1, <1>7 DEF LoadJoin
    <2>2. r.pc \notin Loading /\ {"pc", "key", "from", "rows", "lookedAt"} \subseteq DOMAIN r
        BY <1>1 DEF Loading
    <2>. QED BY <1>7, <2>1, <2>2, MovesOn DEF LoadJoin
<1>8. CASE Query(c)
    <2> DEFINE rows == [snapshot |-> caller[c].key.snapshot, readAt |-> clock]
               r == [caller[c] EXCEPT !.pc = "store", !.rows = rows]
    <2>1. caller' = [caller EXCEPT ![c] = r]
        BY <1>1, <1>8 DEF Query
    <2>2. /\ caller[c].pc \in Loading /\ r.key = caller[c].key
          /\ {"pc", "key", "from", "rows", "lookedAt"} \subseteq DOMAIN r
        BY <1>1, <1>8 DEF Query, Loading
    <2>. QED BY <1>8, <2>1, <2>2, MovesOn DEF Query
<1>9. CASE QueryFails(c) \/ Store(c) \/ Resolve(c) \/ Reject(c)
    BY <1>4, <1>9 DEF QueryFails, Store, Resolve, Reject, Loading
<1>10. CASE Await(c)
    <2> DEFINE f == future[caller[c].from]
    <2>1. CASE caller' = [caller EXCEPT ![c].pc = "served", ![c].rows = f.rows, ![c].from = c]
        <3> DEFINE r == [caller[c] EXCEPT !.pc = "served", !.rows = f.rows, !.from = c]
        <3>1. caller' = [caller EXCEPT ![c] = r]
            BY <1>1, <2>1
        <3>2. r.pc \notin Loading /\ {"pc", "key", "from", "rows", "lookedAt"} \subseteq DOMAIN r
            BY <1>1 DEF Loading
        <3>. QED BY <1>10, <3>1, <3>2, MovesOn DEF Await
    <2>2. CASE caller' = [caller EXCEPT ![c].pc = "failed", ![c].from = c]
        <3> DEFINE r == [caller[c] EXCEPT !.pc = "failed", !.from = c]
        <3>1. caller' = [caller EXCEPT ![c] = r]
            BY <1>1, <2>2
        <3>2. r.pc \notin Loading /\ {"pc", "key", "from", "rows", "lookedAt"} \subseteq DOMAIN r
            BY <1>1 DEF Loading
        <3>. QED BY <1>10, <3>1, <3>2, MovesOn DEF Await
    <2>. QED BY <1>10, <2>1, <2>2 DEF Await
<1>. QED BY <1>2, <1>5, <1>6, <1>7, <1>8, <1>9, <1>10, LoadOwnKeeps, CleanupKeeps DEF Step

\* Two requests never load the same rows at the same time (PublicProjectionCache.load).
THEOREM OneLoadAtATime == Spec => []OneLoadPerKey
<1>1. Init => FlightInv
    BY DEF Init, FlightInv, CallerFields, LoadersInFlight, Loading
<1>2. FlightInv /\ [Next]_vars => FlightInv'
    <2> SUFFICES ASSUME FlightInv, [Next]_vars PROVE FlightInv'
        OBVIOUS
    <2>1. ASSUME UNCHANGED <<caller, inflight>> PROVE FlightInv'
        BY <2>1 DEF FlightInv, CallerFields, LoadersInFlight
    <2>. QED BY <2>1, StepKeeps DEF Next, Publish, Tick, vars
<1>3. FlightInv => OneLoadPerKey
    BY DEF FlightInv, LoadersInFlight, OneLoadPerKey
<1>. QED BY <1>1, <1>2, <1>3, PTL DEF Spec

-----------------------------------------------------------------------------
(* What the cache holds, and what its futures promise                       *)

\* An entry holds rows of the snapshot in its key, and is dropped within a time
\* to live and a load of the moment they were read.
EntrySound(e) ==
    /\ e.rows.snapshot = e.key.snapshot
    /\ e.deadline <= e.rows.readAt + MaxLoad + Ttl

EntriesOK(s) ==
    /\ s \in Seq(Entry)
    /\ \A i, j \in DOMAIN s : s[i].key = s[j].key => i = j
    /\ \A i \in DOMAIN s : EntrySound(s[i])

\* r: a request.  The rows answer it, and were read after it looked.
Answers(r, rows) ==
    rows \in Rows /\ rows.snapshot = r.key.snapshot /\ r.lookedAt <= rows.readAt

\* r: a request; f: its own future; now: the clock.
RequestOK(r, f, now) ==
    /\ r.pc # "idle" => r.key \in Keys
    /\ r.pc \in {"idle", "whole", "load", "wait"} => f.status = "none"
    /\ r.pc \in {"query", "store", "resolve", "reject"} => f.status = "pending"
    /\ r.pc = "cleanup" =>
          f.status = "error" \/ (f.status = "result" /\ r.rows = f.rows)
    /\ r.pc \in Loading => r.lookedAt <= now /\ now <= r.lookedAt + MaxLoad
    /\ r.pc \in {"store", "resolve"} => Answers(r, r.rows) /\ r.rows.readAt <= now
    /\ f.status = "result" => Answers(r, f.rows)
    /\ r.pc = "served" =>
          /\ r.rows.snapshot = r.key.snapshot
          /\ r.lookedAt < r.rows.readAt + Ttl + MaxLoad

\* r: a request; d, f: the request whose future it awaits, and that future.
WaitOK(r, d, f) ==
    r.pc = "wait" =>
        f.status # "none" /\ d.key = r.key /\ r.lookedAt <= d.lookedAt + MaxLoad

RequestsOK ==
    /\ caller \in [Callers -> Caller]
    /\ future \in [Callers -> Future]
    /\ \A c \in Callers : RequestOK(caller[c], future[c], clock)
    /\ \A c \in Callers : WaitOK(caller[c], caller[caller[c].from], future[caller[c].from])

InflightOK ==
    /\ DOMAIN inflight \subseteq Keys
    /\ \A k \in DOMAIN inflight :
          /\ inflight[k] \in Callers
          /\ caller[inflight[k]].pc \in Loading
          /\ caller[inflight[k]].key = k

CacheInv ==
    /\ EntriesOK(entries) /\ Len(entries) <= MaxEntries
    /\ RequestsOK
    /\ InflightOK
    /\ latest \in 1..MaxSnapshots
    /\ clock \in 0..MaxClock

-----------------------------------------------------------------------------
(* Lemmas about the entries                                                 *)

\* The sequence without its element at p.
LEMMA RemovedAt ==
    ASSUME NEW S, NEW s \in Seq(S), NEW p \in DOMAIN s
    PROVE  /\ RemoveAt(s, p) \in Seq(S)
           /\ Len(RemoveAt(s, p)) = Len(s) - 1
           /\ \A i \in 1..(Len(s) - 1) : RemoveAt(s, p)[i] = IF i < p THEN s[i] ELSE s[i + 1]
<1> DEFINE a == SubSeq(s, 1, p - 1)
           b == SubSeq(s, p + 1, Len(s))
<1>1. p \in 1..Len(s) /\ Len(s) \in Nat
    OBVIOUS
<1>2. a \in Seq(S) /\ Len(a) = p - 1 /\ \A i \in 1..(p - 1) : a[i] = s[i]
    BY <1>1, SubSeqProperties
<1>3. /\ b \in Seq(S) /\ Len(b) = Len(s) - p
      /\ \A i \in 1..(Len(s) - p) : b[i] = s[p + i]
    BY <1>1, SubSeqProperties
<1>4. RemoveAt(s, p) = a \o b
    BY DEF RemoveAt
<1> HIDE DEF a, b
<1>5. /\ a \o b \in Seq(S)
      /\ Len(a \o b) = Len(a) + Len(b)
      /\ \A i \in 1..(Len(a) + Len(b)) :
             (a \o b)[i] = IF i <= Len(a) THEN a[i] ELSE b[i - Len(a)]
    BY <1>2, <1>3, ConcatProperties
<1>6. ASSUME NEW i \in 1..(Len(s) - 1) PROVE (a \o b)[i] = IF i < p THEN s[i] ELSE s[i + 1]
    <2>1. i \in 1..(Len(a) + Len(b)) /\ Len(a) = p - 1 /\ i \in Nat /\ p \in Nat /\ Len(s) \in Nat
        BY <1>1, <1>2, <1>3
    <2>2. (a \o b)[i] = IF i <= Len(a) THEN a[i] ELSE b[i - Len(a)]
        BY <1>5, <2>1
    <2>3. CASE i < p
        <3>1. i \in 1..(p - 1) /\ i <= Len(a)
            BY <2>1, <2>3
        <3>. QED BY <1>2, <2>2, <2>3, <3>1
    <2>4. CASE ~(i < p)
        <3>1. /\ i - Len(a) \in 1..(Len(s) - p) /\ ~(i <= Len(a))
              /\ p + (i - Len(a)) = i + 1
            BY <1>1, <2>1, <2>4
        <3>2. b[i - Len(a)] = s[i + 1]
            BY <1>3, <3>1
        <3>. QED BY <2>2, <2>4, <3>1, <3>2
    <2>. QED BY <2>3, <2>4
<1>7. Len(a) + Len(b) = Len(s) - 1
    BY <1>1, <1>2, <1>3
<1>. QED BY <1>4, <1>5, <1>6, <1>7

\* What is left when a key is dropped is sound, and does not hold the key.
LEMMA WithoutKeeps ==
    ASSUME NEW s, NEW k, EntriesOK(s)
    PROVE  /\ EntriesOK(Without(s, k))
           /\ \A i \in DOMAIN Without(s, k) : Without(s, k)[i].key # k
           /\ Len(Without(s, k)) <= Len(s)
           /\ (\E i \in DOMAIN s : s[i].key = k) => Len(Without(s, k)) = Len(s) - 1
<1>1. /\ s \in Seq(Entry) /\ DOMAIN s = 1..Len(s) /\ Len(s) \in Nat
      /\ \A i, j \in DOMAIN s : s[i].key = s[j].key => i = j
      /\ \A i \in DOMAIN s : EntrySound(s[i])
    BY DEF EntriesOK
<1>2. CASE \E i \in DOMAIN s : s[i].key = k
    <2> DEFINE p == CHOOSE i \in DOMAIN s : s[i].key = k
               t == RemoveAt(s, p)
    <2>1. p \in DOMAIN s /\ s[p].key = k /\ Without(s, k) = t
        BY <1>2 DEF Without
    <2> HIDE DEF p
    <2>2. s \in Seq(Entry) /\ p \in DOMAIN s
        BY <1>1, <2>1
    <2>3. /\ t \in Seq(Entry) /\ Len(t) = Len(s) - 1
          /\ \A i \in 1..(Len(s) - 1) : t[i] = IF i < p THEN s[i] ELSE s[i + 1]
        BY <2>2, RemovedAt
    <2> HIDE DEF t
    <2>4. DOMAIN t = 1..(Len(s) - 1)
        BY <2>3
    <2>5. ASSUME NEW i \in DOMAIN t PROVE EntrySound(t[i]) /\ t[i].key # k
        <3>1. PICK j \in DOMAIN s : t[i] = s[j] /\ j # p
            <4>1. CASE i < p
                BY <1>1, <2>1, <2>3, <2>4, <4>1
            <4>2. CASE ~(i < p)
                <5>1. t[i] = s[i + 1] /\ i + 1 \in DOMAIN s /\ i + 1 # p
                    BY <1>1, <2>1, <2>3, <2>4, <4>2
                <5>. QED BY <5>1
            <4>. QED BY <4>1, <4>2
        <3>2. s[j].key # k
            BY <1>1, <2>1, <3>1
        <3>. QED BY <1>1, <3>1, <3>2
    <2>6. ASSUME NEW i \in DOMAIN t, NEW j \in DOMAIN t, t[i].key = t[j].key PROVE i = j
        <3>1. PICK ii \in DOMAIN s : t[i] = s[ii] /\ ii = IF i < p THEN i ELSE i + 1
            BY <1>1, <2>1, <2>3, <2>4
        <3>2. PICK jj \in DOMAIN s : t[j] = s[jj] /\ jj = IF j < p THEN j ELSE j + 1
            BY <1>1, <2>1, <2>3, <2>4
        <3>3. ii = jj
            BY <1>1, <2>6, <3>1, <3>2
        <3>. QED BY <1>1, <2>1, <2>4, <3>1, <3>2, <3>3
    <2>. QED BY <1>1, <2>1, <2>3, <2>5, <2>6 DEF EntriesOK
<1>3. CASE ~\E i \in DOMAIN s : s[i].key = k
    <2>1. Without(s, k) = s
        BY <1>3 DEF Without
    <2>2. \A i \in DOMAIN s : s[i].key # k
        BY <1>3
    <2>3. Len(s) <= Len(s)
        BY <1>1
    <2>. QED BY <1>3, <2>1, <2>2, <2>3
<1>. QED BY <1>2, <1>3

\* An entry whose key is not there is added at the end.
LEMMA AppendKeeps ==
    ASSUME NEW s, NEW e \in Entry, EntriesOK(s), EntrySound(e),
           \A i \in DOMAIN s : s[i].key # e.key
    PROVE  EntriesOK(Append(s, e)) /\ Len(Append(s, e)) = Len(s) + 1
<1> DEFINE t == Append(s, e)
<1>1. /\ s \in Seq(Entry) /\ DOMAIN s = 1..Len(s) /\ Len(s) \in Nat
      /\ \A i, j \in DOMAIN s : s[i].key = s[j].key => i = j
      /\ \A i \in DOMAIN s : EntrySound(s[i])
    BY DEF EntriesOK
<1>2. /\ t \in Seq(Entry) /\ Len(t) = Len(s) + 1
      /\ \A i \in 1..Len(s) : t[i] = s[i]
      /\ t[Len(s) + 1] = e
    BY <1>1, AppendProperties
<1> HIDE DEF t
<1>3. DOMAIN t = 1..(Len(s) + 1)
    BY <1>2
<1>4. ASSUME NEW i \in DOMAIN t PROVE EntrySound(t[i])
    <2>1. CASE i = Len(s) + 1
        BY <1>2, <2>1
    <2>2. CASE i \in 1..Len(s)
        BY <1>1, <1>2, <2>2
    <2>. QED BY <1>1, <1>3, <2>1, <2>2
<1>5. ASSUME NEW i \in DOMAIN t, NEW j \in DOMAIN t, t[i].key = t[j].key PROVE i = j
    BY <1>1, <1>2, <1>3, <1>5
<1>. QED BY <1>2, <1>4, <1>5 DEF EntriesOK, t

\* The entries that stay when the oldest make room.
LEMMA EvictedKeeps ==
    ASSUME NEW s, EntriesOK(s)
    PROVE  EntriesOK(Evicted(s)) /\ Len(Evicted(s)) <= MaxEntries
<1>1. /\ s \in Seq(Entry) /\ DOMAIN s = 1..Len(s) /\ Len(s) \in Nat
      /\ \A i, j \in DOMAIN s : s[i].key = s[j].key => i = j
      /\ \A i \in DOMAIN s : EntrySound(s[i])
    BY DEF EntriesOK
<1>2. MaxEntries \in Nat \ {0}
    BY SizeAssumption
<1>3. CASE Len(s) > MaxEntries
    <2> DEFINE n == Len(s) - MaxEntries
               t == SubSeq(s, n + 1, Len(s))
    <2>1. n \in Nat /\ n >= 1 /\ n + MaxEntries = Len(s)
        BY <1>1, <1>2, <1>3
    <2>2. Evicted(s) = t
        BY <1>3 DEF Evicted
    <2>3. /\ t \in Seq(Entry) /\ Len(t) = MaxEntries
          /\ \A i \in 1..MaxEntries : t[i] = s[n + i]
        <3>1. \A i \in (n + 1)..Len(s) : s[i] \in Entry
            BY <1>1, <2>1
        <3>2. /\ Len(t) = Len(s) - (n + 1) + 1 /\ t \in Seq(Entry)
              /\ \A i \in 1..(Len(s) - (n + 1) + 1) : t[i] = s[(n + 1) + i - 1]
            BY <1>1, <1>2, <2>1, <3>1, SubSeqProperties
        <3> HIDE DEF t
        <3>. QED BY <1>1, <1>2, <2>1, <3>2
    <2> HIDE DEF t, n
    <2>4. DOMAIN t = 1..MaxEntries /\ \A i \in DOMAIN t : n + i \in DOMAIN s /\ t[i] = s[n + i]
        BY <1>1, <1>2, <2>1, <2>3
    <2>5. \A i \in DOMAIN t : EntrySound(t[i])
        BY <1>1, <2>4
    <2>6. ASSUME NEW i \in DOMAIN t, NEW j \in DOMAIN t, t[i].key = t[j].key PROVE i = j
        <3>1. n + i = n + j
            BY <1>1, <2>4, <2>6
        <3>. QED BY <2>1, <2>4, <3>1
    <2>. QED BY <1>2, <2>2, <2>3, <2>5, <2>6 DEF EntriesOK
<1>4. CASE ~(Len(s) > MaxEntries)
    BY <1>1, <1>2, <1>4 DEF Evicted
<1>. QED BY <1>3, <1>4

\* A hit is an entry of the cache.
LEMMA HitIsEntry ==
    ASSUME NEW k, Hit(k), EntriesOK(entries)
    PROVE  /\ Hitting(k) \in Entry /\ EntrySound(Hitting(k))
           /\ Hitting(k).key = k /\ clock < Hitting(k).deadline
           /\ \E i \in DOMAIN entries : entries[i] = Hitting(k)
<1> DEFINE e == Hitting(k)
<1>1. e \in Fresh(k)
    BY DEF Hit, Hitting
<1> HIDE DEF e
<1>2. e \in ToSet(entries) /\ e.key = k /\ clock < e.deadline
    BY <1>1 DEF Fresh
<1>3. PICK i \in DOMAIN entries : entries[i] = e
    BY <1>2 DEF ToSet
<1>4. e \in Entry /\ EntrySound(e)
    BY <1>3 DEF EntriesOK
<1>. QED BY <1>2, <1>3, <1>4 DEF e

\* Asking the cache leaves it sound, and never larger.
LEMMA GetKeeps ==
    ASSUME NEW k, EntriesOK(entries), Len(entries) <= MaxEntries
    PROVE  EntriesOK(AfterGet(k)) /\ Len(AfterGet(k)) <= MaxEntries
<1> DEFINE t == Without(entries, k)
<1>1. /\ EntriesOK(t) /\ Len(t) <= Len(entries)
      /\ \A i \in DOMAIN t : t[i].key # k
      /\ (\E i \in DOMAIN entries : entries[i].key = k) => Len(t) = Len(entries) - 1
    BY WithoutKeeps
<1>2. Len(entries) \in Nat /\ Len(t) \in Nat /\ MaxEntries \in Nat
    BY <1>1, SizeAssumption DEF EntriesOK
<1>3. CASE Hit(k)
    <2> DEFINE e == Hitting(k)
    <2>1. /\ e \in Entry /\ EntrySound(e) /\ e.key = k
          /\ \E i \in DOMAIN entries : entries[i] = e
        BY <1>3, HitIsEntry
    <2>2. AfterGet(k) = Append(t, e)
        BY <1>3 DEF AfterGet
    <2> HIDE DEF e, t
    <2>3. EntriesOK(Append(t, e)) /\ Len(Append(t, e)) = Len(t) + 1
        BY <1>1, <2>1, AppendKeeps
    <2>. QED BY <1>1, <1>2, <2>1, <2>2, <2>3
<1>4. CASE ~Hit(k)
    <2>1. AfterGet(k) = t
        BY <1>4 DEF AfterGet
    <2> HIDE DEF t
    <2>. QED BY <1>1, <1>2, <2>1
<1>. QED BY <1>3, <1>4

\* Storing rows that were loaded leaves the cache sound, and within its limit.
LEMMA StoreKeeps ==
    ASSUME NEW k \in Keys, NEW r \in Rows, EntriesOK(entries), clock \in Nat,
           r.snapshot = k.snapshot, clock <= r.readAt + MaxLoad
    PROVE  EntriesOK(AfterStore(k, r)) /\ Len(AfterStore(k, r)) <= MaxEntries
<1> DEFINE t == Without(entries, k)
           e == [key |-> k, deadline |-> clock + Ttl, rows |-> r]
<1>1. EntriesOK(t) /\ \A i \in DOMAIN t : t[i].key # k
    BY WithoutKeeps
<1>2. e \in Entry /\ e.key = k
    BY SizeAssumption DEF Entry
<1>3. EntrySound(e)
    <2>1. r.readAt \in Nat
        BY LimitAssumption DEF Rows
    <2>. QED BY <2>1, SizeAssumption DEF EntrySound
<1>4. AfterStore(k, r) = Evicted(Append(t, e))
    BY DEF AfterStore
<1> HIDE DEF t, e
<1>5. EntriesOK(Append(t, e))
    BY <1>1, <1>2, <1>3, AppendKeeps
<1>. QED BY <1>4, <1>5, EvictedKeeps

-----------------------------------------------------------------------------
(* Lemmas about the requests                                                *)

\* A request moves on, with its own future: what the others hold stays sound,
\* for a future that somebody may await keeps its owner's key and its time.
LEMMA MoveKeepsRequests ==
    ASSUME RequestsOK, NEW c \in Callers, NEW r \in Caller, NEW f \in Future,
           caller' = [caller EXCEPT ![c] = r], future' = [future EXCEPT ![c] = f],
           clock' = clock,
           RequestOK(r, f, clock),
           WaitOK(r, caller[r.from], future[r.from]), r.pc = "wait" => r.from # c,
           future[c].status # "none" =>
               /\ f.status # "none"
               /\ r.key = caller[c].key /\ r.lookedAt = caller[c].lookedAt
    PROVE  RequestsOK'
<1>1. /\ caller \in [Callers -> Caller] /\ future \in [Callers -> Future]
      /\ \A d \in Callers : RequestOK(caller[d], future[d], clock)
      /\ \A d \in Callers : WaitOK(caller[d], caller[caller[d].from], future[caller[d].from])
    BY DEF RequestsOK
<1>2. /\ \A d \in Callers : caller'[d] = IF d = c THEN r ELSE caller[d]
      /\ \A d \in Callers : future'[d] = IF d = c THEN f ELSE future[d]
    BY <1>1
<1>3. caller' \in [Callers -> Caller] /\ future' \in [Callers -> Future]
    BY <1>1
<1>4. \A d \in Callers : caller'[d].from \in Callers
    BY <1>3 DEF Caller
<1>5. ASSUME NEW d \in Callers PROVE RequestOK(caller'[d], future'[d], clock')
    BY <1>1, <1>2
<1>6. ASSUME NEW d \in Callers
      PROVE  WaitOK(caller'[d], caller'[caller'[d].from], future'[caller'[d].from])
    <2> DEFINE o == caller'[d].from
    <2>1. o \in Callers
        BY <1>4
    <2>2. CASE d = c
        <3>1. caller'[d] = r /\ o = r.from
            BY <1>2, <2>2
        <3>2. CASE r.pc = "wait"
            <4>1. caller'[o] = caller[o] /\ future'[o] = future[o]
                BY <1>2, <2>1, <3>1, <3>2
            <4>. QED BY <3>1, <4>1
        <3>3. CASE r.pc # "wait"
            BY <3>1, <3>3 DEF WaitOK
        <3>. QED BY <3>2, <3>3
    <2>3. CASE d # c
        <3>1. caller'[d] = caller[d] /\ o = caller[d].from
            BY <1>2, <2>3
        <3>2. WaitOK(caller[d], caller[o], future[o])
            BY <1>1, <3>1
        <3>3. CASE o # c
            <4>1. caller'[o] = caller[o] /\ future'[o] = future[o]
                BY <1>2, <2>1, <3>3
            <4>. QED BY <3>1, <3>2, <4>1
        <3>4. CASE o = c
            <4>1. caller'[o] = r /\ future'[o] = f
                BY <1>2, <3>4
            <4> HIDE DEF o
            <4>2. WaitOK(caller[d], r, f)
                BY <3>2, <3>4 DEF WaitOK
            <4>. QED BY <3>1, <4>1, <4>2 DEF o
        <3>. QED BY <3>3, <3>4
    <2>. QED BY <2>2, <2>3
<1>. QED BY <1>3, <1>5, <1>6 DEF RequestsOK

\* ... and who is in flight stays in flight, for the same key.
LEMMA MoveKeepsInflight ==
    ASSUME InflightOK, RequestsOK, NEW c \in Callers, NEW r,
           caller' = [caller EXCEPT ![c] = r], UNCHANGED inflight,
           caller[c].pc \in Loading => r.pc \in Loading /\ r.key = caller[c].key
    PROVE  InflightOK'
<1>1. \A d \in Callers : caller'[d] = IF d = c THEN r ELSE caller[d]
    BY DEF RequestsOK
<1>. QED BY <1>1 DEF InflightOK

\* A request that moves on without touching its future or those in flight.
LEMMA MoveKeeps ==
    ASSUME CacheInv, NEW c \in Callers, NEW r \in Caller,
           caller' = [caller EXCEPT ![c] = r],
           UNCHANGED <<inflight, future, latest, clock>>,
           EntriesOK(entries'), Len(entries') <= MaxEntries,
           RequestOK(r, future[c], clock),
           WaitOK(r, caller[r.from], future[r.from]), r.pc = "wait" => r.from # c,
           future[c].status # "none" =>
               r.key = caller[c].key /\ r.lookedAt = caller[c].lookedAt,
           caller[c].pc \in Loading => r.pc \in Loading /\ r.key = caller[c].key
    PROVE  CacheInv'
<1>1. RequestsOK /\ InflightOK /\ latest \in 1..MaxSnapshots /\ clock \in 0..MaxClock
    BY DEF CacheInv
<1>2. future \in [Callers -> Future] /\ future[c] \in Future
    BY <1>1 DEF RequestsOK
<1>3. future' = [future EXCEPT ![c] = future[c]] /\ clock' = clock
    BY <1>2
<1>4. RequestsOK'
    BY <1>1, <1>2, <1>3, MoveKeepsRequests
<1>5. InflightOK'
    BY <1>1, MoveKeepsInflight
<1>6. EntriesOK(entries)' /\ (Len(entries) <= MaxEntries)'
    BY DEF EntriesOK
<1>. QED BY <1>1, <1>4, <1>5, <1>6 DEF CacheInv

\* What is known of one request and of its future.
LEMMA RequestFacts ==
    ASSUME CacheInv, NEW c \in Callers
    PROVE  /\ caller \in [Callers -> Caller] /\ caller[c] \in Caller
           /\ future \in [Callers -> Future] /\ future[c] \in Future
           /\ RequestOK(caller[c], future[c], clock)
           /\ WaitOK(caller[c], caller[caller[c].from], future[caller[c].from])
           /\ EntriesOK(entries) /\ Len(entries) <= MaxEntries
           /\ clock \in 0..MaxClock /\ clock \in Nat /\ MaxClock \in Nat
           /\ Ttl \in Nat \ {0} /\ MaxLoad \in Nat
BY SizeAssumption, LimitAssumption DEF CacheInv, RequestsOK

LEMMA BeginOK == ASSUME CacheInv, NEW c \in Callers, Begin(c) PROVE CacheInv'
<1>1. PICK p \in Products \cup {All} :
          caller' = [caller EXCEPT ![c].pc = IF p = All THEN "load" ELSE "whole",
                                   ![c].key = [snapshot |-> latest, product |-> p]]
    BY DEF Begin
<1> DEFINE pc == IF p = All THEN "load" ELSE "whole"
           k == [snapshot |-> latest, product |-> p]
           r == [caller[c] EXCEPT !.pc = pc, !.key = k]
<1>2. /\ caller \in [Callers -> Caller] /\ caller[c] \in Caller
      /\ RequestOK(caller[c], future[c], clock)
      /\ EntriesOK(entries) /\ Len(entries) <= MaxEntries
    BY RequestFacts
<1>3. k \in Keys /\ pc \in {"load", "whole"}
    BY DEF CacheInv, Keys
<1>4. caller' = [caller EXCEPT ![c] = r]
    BY <1>1, <1>2
<1> HIDE DEF pc, k
<1>5. r \in Caller /\ r.pc = pc /\ r.key = k /\ r.from = caller[c].from
    BY <1>2, <1>3 DEF Caller
<1> HIDE DEF r
<1>6. caller[c].pc = "idle" /\ UNCHANGED <<entries, inflight, future, latest, clock>>
    BY DEF Begin
<1>7. future[c].status = "none"
    BY <1>2, <1>6 DEF RequestOK
<1>8. RequestOK(r, future[c], clock)
    BY <1>3, <1>5, <1>7 DEF RequestOK, Loading
<1>9. WaitOK(r, caller[r.from], future[r.from]) /\ r.pc # "wait"
    BY <1>3, <1>5 DEF WaitOK
<1>10. caller[c].pc \notin Loading
    BY <1>6 DEF Loading
<1>. QED BY <1>2, <1>4, <1>5, <1>6, <1>7, <1>8, <1>9, <1>10, MoveKeeps

\* A hit serves rows of the snapshot asked for, that are recent.
LEMMA ServeOK ==
    ASSUME CacheInv, NEW c \in Callers, NEW k \in Keys, Hit(k),
           caller[c].pc \in {"whole", "load"}, k.snapshot = caller[c].key.snapshot,
           caller' = Serve(c, Hitting(k).rows), entries' = AfterGet(k),
           UNCHANGED <<inflight, future, latest, clock>>
    PROVE  CacheInv'
<1> DEFINE rows == Hitting(k).rows
           r == [caller[c] EXCEPT !.pc = "served", !.rows = rows, !.lookedAt = clock]
<1>1. /\ caller \in [Callers -> Caller] /\ caller[c] \in Caller
      /\ RequestOK(caller[c], future[c], clock)
      /\ EntriesOK(entries) /\ Len(entries) <= MaxEntries
      /\ clock \in 0..MaxClock /\ clock \in Nat /\ MaxClock \in Nat
      /\ Ttl \in Nat \ {0} /\ MaxLoad \in Nat
    BY RequestFacts
<1>2. /\ Hitting(k) \in Entry /\ EntrySound(Hitting(k))
      /\ Hitting(k).key = k /\ clock < Hitting(k).deadline
    BY <1>1, HitIsEntry
<1>3. /\ rows \in Rows /\ rows.snapshot = caller[c].key.snapshot
      /\ rows.readAt \in Nat /\ clock < rows.readAt + Ttl + MaxLoad
    <2>1. rows \in Rows /\ Hitting(k).deadline \in Nat
        BY <1>2 DEF Entry
    <2>2. rows.readAt \in Nat
        BY <1>1, <2>1 DEF Rows
    <2>3. Hitting(k).deadline <= rows.readAt + MaxLoad + Ttl /\ rows.snapshot = k.snapshot
        BY <1>2 DEF EntrySound
    <2>. QED BY <1>1, <1>2, <2>1, <2>2, <2>3
<1>4. caller' = [caller EXCEPT ![c] = r]
    BY <1>1 DEF Serve
<1> HIDE DEF rows
<1>5. /\ r \in Caller /\ r.pc = "served" /\ r.rows = rows /\ r.lookedAt = clock
      /\ r.key = caller[c].key
    BY <1>1, <1>3 DEF Caller
<1> HIDE DEF r
<1>6. future[c].status = "none" /\ caller[c].key \in Keys
    BY <1>1 DEF RequestOK
<1>7. RequestOK(r, future[c], clock)
    BY <1>3, <1>5, <1>6 DEF RequestOK, Loading
<1>8. WaitOK(r, caller[r.from], future[r.from]) /\ r.pc # "wait"
    BY <1>5 DEF WaitOK
<1>9. caller[c].pc \notin Loading
    BY DEF Loading
<1>10. EntriesOK(entries') /\ Len(entries') <= MaxEntries
    BY <1>1, GetKeeps
<1>. QED BY <1>4, <1>5, <1>6, <1>7, <1>8, <1>9, <1>10, MoveKeeps

LEMMA LookInWholeOK == ASSUME CacheInv, NEW c \in Callers, LookInWhole(c) PROVE CacheInv'
<1> DEFINE k == WholeKey(caller[c].key)
<1>1. /\ caller \in [Callers -> Caller] /\ caller[c] \in Caller
      /\ RequestOK(caller[c], future[c], clock)
      /\ EntriesOK(entries) /\ Len(entries) <= MaxEntries
    BY RequestFacts
<1>2. /\ caller[c].pc = "whole" /\ entries' = AfterGet(k)
      /\ caller' = IF Hit(k) THEN Serve(c, Hitting(k).rows) ELSE [caller EXCEPT ![c].pc = "load"]
      /\ UNCHANGED <<inflight, future, latest, clock>>
    BY DEF LookInWhole
<1>3. caller[c].key \in Keys /\ future[c].status = "none"
    BY <1>1, <1>2 DEF RequestOK
<1>4. k \in Keys /\ k.snapshot = caller[c].key.snapshot
    BY <1>3 DEF WholeKey, Keys
<1> HIDE DEF k
<1>5. CASE Hit(k)
    BY <1>2, <1>4, <1>5, ServeOK
<1>6. CASE ~Hit(k)
    <2> DEFINE r == [caller[c] EXCEPT !.pc = "load"]
    <2>1. caller' = [caller EXCEPT ![c] = r]
        BY <1>1, <1>2, <1>6
    <2>2. r \in Caller /\ r.pc = "load" /\ r.key = caller[c].key
        BY <1>1 DEF Caller
    <2> HIDE DEF r
    <2>3. RequestOK(r, future[c], clock)
        BY <1>3, <2>2 DEF RequestOK, Loading
    <2>4. WaitOK(r, caller[r.from], future[r.from]) /\ r.pc # "wait"
        BY <2>2 DEF WaitOK
    <2>5. caller[c].pc \notin Loading
        BY <1>2 DEF Loading
    <2>6. EntriesOK(entries') /\ Len(entries') <= MaxEntries
        BY <1>1, <1>2, GetKeeps
    <2>. QED BY <1>2, <1>3, <2>1, <2>2, <2>3, <2>4, <2>5, <2>6, MoveKeeps
<1>. QED BY <1>5, <1>6

LEMMA LoadHitOK == ASSUME CacheInv, NEW c \in Callers, LoadHit(c) PROVE CacheInv'
<1>1. caller[c].pc = "load" /\ Hit(caller[c].key)
    BY DEF LoadHit
<1>2. caller[c].key \in Keys
    BY <1>1, RequestFacts DEF RequestOK
<1>. QED BY <1>1, <1>2, ServeOK DEF LoadHit

LEMMA LoadJoinOK == ASSUME CacheInv, NEW c \in Callers, LoadJoin(c) PROVE CacheInv'
<1> DEFINE k == caller[c].key
           o == inflight[k]
           r == [caller[c] EXCEPT !.pc = "wait", !.from = o, !.lookedAt = clock]
<1>1. /\ caller \in [Callers -> Caller] /\ caller[c] \in Caller
      /\ RequestOK(caller[c], future[c], clock)
      /\ EntriesOK(entries) /\ Len(entries) <= MaxEntries
      /\ clock \in 0..MaxClock
    BY RequestFacts
<1>2. /\ caller[c].pc = "load" /\ k \in DOMAIN inflight /\ entries' = AfterGet(k)
      /\ caller' = [caller EXCEPT ![c].pc = "wait", ![c].from = o, ![c].lookedAt = clock]
      /\ UNCHANGED <<inflight, future, latest, clock>>
    BY DEF LoadJoin
<1>3. k \in Keys /\ future[c].status = "none"
    BY <1>1, <1>2 DEF RequestOK
<1>4. o \in Callers /\ caller[o].pc \in Loading /\ caller[o].key = k
    BY <1>2 DEF CacheInv, InflightOK
<1>5. caller' = [caller EXCEPT ![c] = r]
    BY <1>1, <1>2
<1>6. o # c
    BY <1>2, <1>4 DEF Loading
<1>7. future[o].status # "none" /\ clock <= caller[o].lookedAt + MaxLoad
    BY <1>4, RequestFacts DEF RequestOK, Loading
<1> HIDE DEF o
<1>8. /\ r \in Caller /\ r.pc = "wait" /\ r.key = k /\ r.lookedAt = clock /\ r.from = o
    BY <1>1, <1>4 DEF Caller
<1> HIDE DEF r
<1>9. RequestOK(r, future[c], clock)
    BY <1>3, <1>8 DEF RequestOK, Loading
<1>10. WaitOK(r, caller[r.from], future[r.from])
    BY <1>4, <1>7, <1>8 DEF WaitOK
<1>11. caller[c].pc \notin Loading
    BY <1>2 DEF Loading
<1>12. EntriesOK(entries') /\ Len(entries') <= MaxEntries
    BY <1>1, <1>2, GetKeeps
<1>. QED BY <1>2, <1>3, <1>5, <1>6, <1>8, <1>9, <1>10, <1>11, <1>12, MoveKeeps

LEMMA LoadOwnOK == ASSUME CacheInv, NEW c \in Callers, LoadOwn(c) PROVE CacheInv'
<1> DEFINE k == caller[c].key
           r == [caller[c] EXCEPT !.pc = "query", !.lookedAt = clock]
           f == [future[c] EXCEPT !.status = "pending"]
<1>1. /\ caller \in [Callers -> Caller] /\ caller[c] \in Caller
      /\ future \in [Callers -> Future] /\ future[c] \in Future
      /\ RequestOK(caller[c], future[c], clock)
      /\ EntriesOK(entries) /\ Len(entries) <= MaxEntries
      /\ clock \in 0..MaxClock /\ clock \in Nat /\ MaxLoad \in Nat
    BY RequestFacts
<1>2. /\ caller[c].pc = "load" /\ k \notin DOMAIN inflight /\ entries' = AfterGet(k)
      /\ caller' = [caller EXCEPT ![c].pc = "query", ![c].lookedAt = clock]
      /\ future' = [future EXCEPT ![c].status = "pending"]
      /\ inflight' = [i \in DOMAIN inflight \cup {k} |-> IF i = k THEN c ELSE inflight[i]]
      /\ UNCHANGED <<latest, clock>>
    BY DEF LoadOwn
<1>3. k \in Keys /\ future[c].status = "none"
    BY <1>1, <1>2 DEF RequestOK
<1>4. caller' = [caller EXCEPT ![c] = r] /\ future' = [future EXCEPT ![c] = f]
    BY <1>1, <1>2
<1>5. r \in Caller /\ r.pc = "query" /\ r.key = k /\ r.lookedAt = clock
    BY <1>1 DEF Caller
<1>6. f \in Future /\ f.status = "pending"
    BY <1>1 DEF Future
<1> HIDE DEF r, f, k
<1>7. RequestOK(r, f, clock)
    BY <1>1, <1>3, <1>5, <1>6 DEF RequestOK, Loading
<1>8. WaitOK(r, caller[r.from], future[r.from]) /\ r.pc # "wait"
    BY <1>5 DEF WaitOK
<1>9. RequestsOK'
    BY <1>2, <1>3, <1>4, <1>5, <1>6, <1>7, <1>8, MoveKeepsRequests DEF CacheInv
<1>10. InflightOK'
    <2>1. /\ DOMAIN inflight \subseteq Keys
          /\ \A i \in DOMAIN inflight :
                inflight[i] \in Callers /\ caller[inflight[i]].pc \in Loading
                /\ caller[inflight[i]].key = i
        BY DEF CacheInv, InflightOK
    <2>2. \A d \in Callers : caller'[d] = IF d = c THEN r ELSE caller[d]
        BY <1>1, <1>4
    <2>3. DOMAIN inflight' = DOMAIN inflight \cup {k} /\ DOMAIN inflight' \subseteq Keys
        BY <1>2, <1>3, <2>1
    <2>4. ASSUME NEW i \in DOMAIN inflight'
          PROVE  /\ inflight'[i] \in Callers
                 /\ caller'[inflight'[i]].pc \in Loading
                 /\ caller'[inflight'[i]].key = i
        <3>1. CASE i = k
            BY <1>2, <1>5, <2>2, <2>3, <3>1 DEF Loading
        <3>2. CASE i # k
            <4>1. i \in DOMAIN inflight /\ inflight'[i] = inflight[i]
                BY <1>2, <2>3, <3>2
            <4>2. inflight[i] # c
                BY <1>2, <2>1, <4>1 DEF Loading
            <4>. QED BY <2>1, <2>2, <4>1, <4>2
        <3>. QED BY <3>1, <3>2
    <2>. QED BY <2>3, <2>4 DEF InflightOK
<1>11. EntriesOK(entries') /\ Len(entries') <= MaxEntries
    BY <1>1, <1>2, GetKeeps
<1>12. latest' \in 1..MaxSnapshots /\ clock' \in 0..MaxClock
    BY <1>2 DEF CacheInv
<1>. QED BY <1>9, <1>10, <1>11, <1>12 DEF CacheInv

LEMMA QueryOK == ASSUME CacheInv, NEW c \in Callers, Query(c) PROVE CacheInv'
<1> DEFINE rows == [snapshot |-> caller[c].key.snapshot, readAt |-> clock]
           r == [caller[c] EXCEPT !.pc = "store", !.rows = rows]
<1>1. /\ caller \in [Callers -> Caller] /\ caller[c] \in Caller
      /\ RequestOK(caller[c], future[c], clock)
      /\ EntriesOK(entries) /\ Len(entries) <= MaxEntries
      /\ clock \in 0..MaxClock /\ clock \in Nat
    BY RequestFacts
<1>2. /\ caller[c].pc = "query"
      /\ caller' = [caller EXCEPT ![c].pc = "store", ![c].rows = rows]
      /\ UNCHANGED <<entries, inflight, future, latest, clock>>
    BY DEF Query
<1>3. /\ caller[c].key \in Keys /\ future[c].status = "pending"
      /\ caller[c].lookedAt <= clock /\ clock <= caller[c].lookedAt + MaxLoad
    BY <1>1, <1>2 DEF RequestOK, Loading
<1>4. rows \in Rows /\ rows.snapshot = caller[c].key.snapshot /\ rows.readAt = clock
    BY <1>1, <1>3 DEF Rows, Keys
<1>5. caller' = [caller EXCEPT ![c] = r]
    BY <1>1, <1>2
<1> HIDE DEF rows
<1>6. /\ r \in Caller /\ r.pc = "store" /\ r.rows = rows /\ r.key = caller[c].key
      /\ r.lookedAt = caller[c].lookedAt
    BY <1>1, <1>4 DEF Caller
<1> HIDE DEF r
<1>7. Answers(r, r.rows) /\ r.rows.readAt <= clock
    BY <1>1, <1>3, <1>4, <1>6 DEF Answers
<1>8. RequestOK(r, future[c], clock)
    BY <1>3, <1>6, <1>7 DEF RequestOK
<1>9. WaitOK(r, caller[r.from], future[r.from]) /\ r.pc # "wait" /\ r.pc \in Loading
    BY <1>6 DEF WaitOK, Loading
<1>. QED BY <1>1, <1>2, <1>5, <1>6, <1>8, <1>9, MoveKeeps

LEMMA QueryFailsOK == ASSUME CacheInv, NEW c \in Callers, QueryFails(c) PROVE CacheInv'
<1> DEFINE r == [caller[c] EXCEPT !.pc = "reject"]
<1>1. /\ caller \in [Callers -> Caller] /\ caller[c] \in Caller
      /\ RequestOK(caller[c], future[c], clock)
      /\ EntriesOK(entries) /\ Len(entries) <= MaxEntries
    BY RequestFacts
<1>2. /\ caller[c].pc = "query" /\ caller' = [caller EXCEPT ![c].pc = "reject"]
      /\ UNCHANGED <<entries, inflight, future, latest, clock>>
    BY DEF QueryFails
<1>3. caller' = [caller EXCEPT ![c] = r]
    BY <1>1, <1>2
<1>4. /\ r \in Caller /\ r.pc = "reject" /\ r.key = caller[c].key
      /\ r.lookedAt = caller[c].lookedAt
    BY <1>1 DEF Caller
<1> HIDE DEF r
<1>5. RequestOK(r, future[c], clock)
    BY <1>1, <1>2, <1>4 DEF RequestOK, Loading
<1>6. WaitOK(r, caller[r.from], future[r.from]) /\ r.pc # "wait" /\ r.pc \in Loading
    BY <1>4 DEF WaitOK, Loading
<1>. QED BY <1>1, <1>2, <1>3, <1>4, <1>5, <1>6, MoveKeeps

LEMMA StoreOK == ASSUME CacheInv, NEW c \in Callers, Store(c) PROVE CacheInv'
<1> DEFINE r == [caller[c] EXCEPT !.pc = "resolve"]
<1>1. /\ caller \in [Callers -> Caller] /\ caller[c] \in Caller
      /\ RequestOK(caller[c], future[c], clock)
      /\ EntriesOK(entries) /\ clock \in Nat /\ MaxClock \in Nat /\ MaxLoad \in Nat
    BY RequestFacts
<1>2. /\ caller[c].pc = "store" /\ caller' = [caller EXCEPT ![c].pc = "resolve"]
      /\ entries' = AfterStore(caller[c].key, caller[c].rows)
      /\ UNCHANGED <<inflight, future, latest, clock>>
    BY DEF Store
<1>3. /\ caller[c].key \in Keys /\ future[c].status = "pending"
      /\ caller[c].lookedAt <= clock /\ clock <= caller[c].lookedAt + MaxLoad
      /\ Answers(caller[c], caller[c].rows) /\ caller[c].rows.readAt <= clock
    BY <1>1, <1>2 DEF RequestOK, Loading
<1>4. /\ caller[c].rows \in Rows /\ caller[c].rows.snapshot = caller[c].key.snapshot
      /\ clock <= caller[c].rows.readAt + MaxLoad
    <2>1. /\ caller[c].rows \in Rows /\ caller[c].rows.snapshot = caller[c].key.snapshot
          /\ caller[c].lookedAt <= caller[c].rows.readAt
        BY <1>3 DEF Answers
    <2>2. caller[c].rows.readAt \in Nat /\ caller[c].lookedAt \in Nat
        BY <1>1, <2>1 DEF Rows, Caller
    <2>. QED BY <1>1, <1>3, <2>1, <2>2
<1>5. EntriesOK(entries') /\ Len(entries') <= MaxEntries
    BY <1>1, <1>2, <1>3, <1>4, StoreKeeps
<1>6. caller' = [caller EXCEPT ![c] = r]
    BY <1>1, <1>2
<1>7. /\ r \in Caller /\ r.pc = "resolve" /\ r.key = caller[c].key
      /\ r.lookedAt = caller[c].lookedAt /\ r.rows = caller[c].rows
    BY <1>1 DEF Caller
<1> HIDE DEF r
<1>8. Answers(r, r.rows)
    BY <1>3, <1>7 DEF Answers
<1>9. RequestOK(r, future[c], clock)
    BY <1>3, <1>7, <1>8 DEF RequestOK
<1>10. WaitOK(r, caller[r.from], future[r.from]) /\ r.pc # "wait" /\ r.pc \in Loading
    BY <1>7 DEF WaitOK, Loading
<1>. QED BY <1>2, <1>5, <1>6, <1>7, <1>9, <1>10, MoveKeeps

\* The future is resolved, or rejected.
LEMMA ResolveOK ==
    ASSUME CacheInv, NEW c \in Callers, Resolve(c) \/ Reject(c) PROVE CacheInv'
<1> DEFINE r == [caller[c] EXCEPT !.pc = "cleanup"]
<1>1. /\ caller \in [Callers -> Caller] /\ caller[c] \in Caller
      /\ future \in [Callers -> Future] /\ future[c] \in Future
      /\ RequestOK(caller[c], future[c], clock)
    BY RequestFacts
<1>2. /\ caller[c].pc \in {"resolve", "reject"}
      /\ caller' = [caller EXCEPT ![c].pc = "cleanup"]
      /\ UNCHANGED <<entries, inflight, latest, clock>>
    BY DEF Resolve, Reject
<1>3. /\ caller[c].key \in Keys /\ caller[c].lookedAt <= clock
      /\ clock <= caller[c].lookedAt + MaxLoad
    BY <1>1, <1>2 DEF RequestOK, Loading
<1>4. caller' = [caller EXCEPT ![c] = r]
    BY <1>1, <1>2
<1>5. /\ r \in Caller /\ r.pc = "cleanup" /\ r.key = caller[c].key
      /\ r.lookedAt = caller[c].lookedAt /\ r.rows = caller[c].rows
    BY <1>1 DEF Caller
<1> HIDE DEF r
<1>6. PICK f \in Future :
          /\ future' = [future EXCEPT ![c] = f]
          /\ f.status = "error" \/ (f.status = "result" /\ f.rows = r.rows /\ Answers(r, f.rows))
    <2>1. CASE Resolve(c)
        <3> DEFINE g == [status |-> "result", rows |-> caller[c].rows]
        <3>1. future' = [future EXCEPT ![c] = g] /\ Answers(caller[c], caller[c].rows)
            BY <1>1, <2>1 DEF Resolve, RequestOK
        <3>2. g \in Future /\ g.status = "result" /\ g.rows = r.rows
            BY <1>5, <3>1 DEF Future, Answers
        <3>3. Answers(r, g.rows)
            BY <1>5, <3>1 DEF Answers
        <3>. QED BY <3>1, <3>2, <3>3
    <2>2. CASE Reject(c)
        <3> DEFINE g == [future[c] EXCEPT !.status = "error"]
        <3>1. future' = [future EXCEPT ![c] = g]
            BY <1>1, <2>2 DEF Reject
        <3>2. g \in Future /\ g.status = "error"
            BY <1>1 DEF Future
        <3>. QED BY <3>1, <3>2
    <2>. QED BY <2>1, <2>2
<1>7. RequestOK(r, f, clock)
    BY <1>3, <1>5, <1>6 DEF RequestOK
<1>8. WaitOK(r, caller[r.from], future[r.from]) /\ r.pc # "wait" /\ r.pc \in Loading
    BY <1>5 DEF WaitOK, Loading
<1>9. RequestsOK'
    BY <1>2, <1>4, <1>5, <1>6, <1>7, <1>8, MoveKeepsRequests DEF CacheInv
<1>10. InflightOK'
    BY <1>2, <1>4, <1>5, <1>8, MoveKeepsInflight DEF CacheInv
<1>11. EntriesOK(entries') /\ Len(entries') <= MaxEntries /\ latest' \in 1..MaxSnapshots
    BY <1>2 DEF CacheInv
<1>. QED BY <1>2, <1>9, <1>10, <1>11 DEF CacheInv

LEMMA CleanupOK == ASSUME CacheInv, NEW c \in Callers, Cleanup(c) PROVE CacheInv'
<1> DEFINE pc == IF future[c].status = "result" THEN "served" ELSE "failed"
           k == caller[c].key
           r == [caller[c] EXCEPT !.pc = pc]
<1>1. /\ caller \in [Callers -> Caller] /\ caller[c] \in Caller
      /\ future \in [Callers -> Future] /\ future[c] \in Future
      /\ RequestOK(caller[c], future[c], clock)
      /\ Ttl \in Nat \ {0} /\ MaxLoad \in Nat /\ MaxClock \in Nat
    BY RequestFacts
<1>2. /\ caller[c].pc = "cleanup" /\ caller' = [caller EXCEPT ![c].pc = pc]
      /\ inflight' = [i \in DOMAIN inflight \ {k} |-> inflight[i]]
      /\ UNCHANGED <<entries, future, latest, clock>>
    BY DEF Cleanup
<1>3. /\ caller[c].key \in Keys
      /\ future[c].status = "error" \/ (future[c].status = "result" /\ caller[c].rows = future[c].rows)
      /\ future[c].status = "result" => Answers(caller[c], future[c].rows)
    BY <1>1, <1>2 DEF RequestOK
<1>4. caller' = [caller EXCEPT ![c] = r] /\ future' = [future EXCEPT ![c] = future[c]]
    BY <1>1, <1>2
<1>5. /\ r \in Caller /\ r.pc = pc /\ r.key = caller[c].key
      /\ r.lookedAt = caller[c].lookedAt /\ r.rows = caller[c].rows
    BY <1>1 DEF Caller
<1> HIDE DEF r
<1>6. future[c].status = "result" =>
          /\ Answers(r, future[c].rows) /\ r.rows.snapshot = r.key.snapshot
          /\ r.lookedAt < r.rows.readAt + Ttl + MaxLoad
    <2> SUFFICES ASSUME future[c].status = "result"
                 PROVE  /\ Answers(r, future[c].rows) /\ r.rows.snapshot = r.key.snapshot
                        /\ r.lookedAt < r.rows.readAt + Ttl + MaxLoad
        OBVIOUS
    <2>1. Answers(r, future[c].rows) /\ r.rows = future[c].rows
        BY <1>3, <1>5 DEF Answers
    <2>2. r.rows \in Rows /\ r.rows.snapshot = r.key.snapshot /\ r.lookedAt <= r.rows.readAt
        BY <2>1 DEF Answers
    <2>3. r.rows.readAt \in Nat /\ r.lookedAt \in Nat
        BY <1>1, <1>5, <2>2 DEF Rows, Caller
    <2>. QED BY <1>1, <2>1, <2>2, <2>3
<1>7. RequestOK(r, future[c], clock)
    <2>1. CASE future[c].status = "result"
        BY <1>3, <1>5, <1>6, <2>1 DEF RequestOK, Loading
    <2>2. CASE future[c].status = "error"
        BY <1>3, <1>5, <2>2 DEF RequestOK, Loading
    <2>. QED BY <1>3, <2>1, <2>2
<1>8. WaitOK(r, caller[r.from], future[r.from]) /\ r.pc # "wait"
    BY <1>5 DEF WaitOK
<1>9. RequestsOK'
    BY <1>1, <1>2, <1>4, <1>5, <1>7, <1>8, MoveKeepsRequests DEF CacheInv
<1> HIDE DEF pc, k
<1>10. InflightOK'
    <2>1. /\ DOMAIN inflight \subseteq Keys
          /\ \A i \in DOMAIN inflight :
                inflight[i] \in Callers /\ caller[inflight[i]].pc \in Loading
                /\ caller[inflight[i]].key = i
        BY DEF CacheInv, InflightOK
    <2>2. \A d \in Callers : caller'[d] = IF d = c THEN r ELSE caller[d]
        BY <1>1, <1>4
    <2>3. ASSUME NEW i \in DOMAIN inflight'
          PROVE  /\ i \in Keys /\ inflight'[i] \in Callers
                 /\ caller'[inflight'[i]].pc \in Loading
                 /\ caller'[inflight'[i]].key = i
        <3>1. i \in DOMAIN inflight /\ i # k /\ inflight'[i] = inflight[i]
            BY <1>2
        <3>2. inflight[i] # c
            BY <2>1, <3>1 DEF k
        <3>. QED BY <2>1, <2>2, <3>1, <3>2
    <2>. QED BY <2>3 DEF InflightOK
<1>11. /\ EntriesOK(entries') /\ Len(entries') <= MaxEntries
       /\ latest' \in 1..MaxSnapshots /\ clock' \in 0..MaxClock
    BY <1>2 DEF CacheInv
<1>. QED BY <1>9, <1>10, <1>11 DEF CacheInv

\* A request that joined a load looked at most a load after its owner did.
LEMMA AwaitOK == ASSUME CacheInv, NEW c \in Callers, Await(c) PROVE CacheInv'
<1> DEFINE o == caller[c].from
<1>1. /\ caller \in [Callers -> Caller] /\ caller[c] \in Caller
      /\ RequestOK(caller[c], future[c], clock)
      /\ WaitOK(caller[c], caller[o], future[o])
      /\ EntriesOK(entries) /\ Len(entries) <= MaxEntries
      /\ Ttl \in Nat \ {0} /\ MaxLoad \in Nat /\ MaxClock \in Nat
    BY RequestFacts
<1>2. /\ caller[c].pc = "wait" /\ UNCHANGED <<entries, inflight, future, latest, clock>>
    BY DEF Await
<1>3. /\ caller[c].key \in Keys /\ future[c].status = "none"
      /\ caller[o].key = caller[c].key /\ caller[c].lookedAt <= caller[o].lookedAt + MaxLoad
    BY <1>1, <1>2 DEF RequestOK, WaitOK
<1>4. /\ o \in Callers /\ caller[o] \in Caller /\ future[o] \in Future
      /\ RequestOK(caller[o], future[o], clock)
    BY <1>1, RequestFacts DEF Caller
<1>5. caller[c].pc \notin Loading
    BY <1>2 DEF Loading
<1>6. ASSUME NEW r \in Caller, caller' = [caller EXCEPT ![c] = r], r.pc \in {"served", "failed"},
             RequestOK(r, future[c], clock)
      PROVE  CacheInv'
    <2>1. WaitOK(r, caller[r.from], future[r.from]) /\ r.pc # "wait"
        BY <1>6 DEF WaitOK
    <2>. QED BY <1>1, <1>2, <1>3, <1>5, <1>6, <2>1, MoveKeeps
<1>7. CASE /\ future[o].status = "result"
           /\ caller' = [caller EXCEPT ![c].pc = "served", ![c].rows = future[o].rows,
                                       ![c].from = c]
    <2> DEFINE rows == future[o].rows
               r == [caller[c] EXCEPT !.pc = "served", !.rows = rows, !.from = c]
    <2>1. caller' = [caller EXCEPT ![c] = r]
        BY <1>1, <1>7
    <2>2. Answers(caller[o], rows)
        BY <1>4, <1>7 DEF RequestOK
    <2> HIDE DEF rows
    <2>3. /\ rows \in Rows /\ rows.snapshot = caller[c].key.snapshot
          /\ caller[o].lookedAt <= rows.readAt
        BY <1>3, <2>2 DEF Answers
    <2>4. rows.readAt \in Nat /\ caller[o].lookedAt \in Nat /\ caller[c].lookedAt \in Nat
        BY <1>1, <1>4, <2>3 DEF Rows, Caller
    <2>5. caller[c].lookedAt < rows.readAt + Ttl + MaxLoad
        <3> DEFINE a == caller[c].lookedAt
                   b == caller[o].lookedAt
                   n == rows.readAt
        <3>1. a \in Nat /\ b \in Nat /\ n \in Nat /\ a <= b + MaxLoad /\ b <= n
            BY <1>3, <2>3, <2>4
        <3> HIDE DEF a, b, n
        <3>2. a < n + Ttl + MaxLoad
            BY <1>1, <3>1
        <3>. QED BY <3>2 DEF a, n
    <2>6. /\ r \in Caller /\ r.pc = "served" /\ r.rows = rows /\ r.key = caller[c].key
          /\ r.lookedAt = caller[c].lookedAt
        BY <1>1, <2>3 DEF Caller
    <2> HIDE DEF r
    <2>7. RequestOK(r, future[c], clock)
        BY <1>3, <2>3, <2>5, <2>6 DEF RequestOK, Loading
    <2>. QED BY <1>6, <2>1, <2>6, <2>7
<1>8. CASE caller' = [caller EXCEPT ![c].pc = "failed", ![c].from = c]
    <2> DEFINE r == [caller[c] EXCEPT !.pc = "failed", !.from = c]
    <2>1. caller' = [caller EXCEPT ![c] = r]
        BY <1>1, <1>8
    <2>2. r \in Caller /\ r.pc = "failed" /\ r.key = caller[c].key
        BY <1>1 DEF Caller
    <2> HIDE DEF r
    <2>3. RequestOK(r, future[c], clock)
        BY <1>3, <2>2 DEF RequestOK, Loading
    <2>. QED BY <1>6, <2>1, <2>2, <2>3
<1>. QED BY <1>7, <1>8 DEF Await

\* A load that lasts holds the clock back.
LEMMA TickOK == ASSUME CacheInv, Tick PROVE CacheInv'
<1>1. /\ clock \in 0..MaxClock /\ MaxClock \in Nat /\ MaxLoad \in Nat
      /\ clock < MaxClock /\ clock' = clock + 1
      /\ UNCHANGED <<caller, entries, inflight, future, latest>>
      /\ \A c \in Callers : caller[c].pc \in Loading => clock < caller[c].lookedAt + MaxLoad
    BY SizeAssumption, LimitAssumption DEF Tick, CacheInv
<1>2. ASSUME NEW c \in Callers PROVE RequestOK(caller[c], future[c], clock + 1)
    <2>1. RequestOK(caller[c], future[c], clock) /\ caller[c] \in Caller
        BY RequestFacts
    <2>2. caller[c].lookedAt \in Nat
        BY <1>1, <2>1 DEF Caller
    <2>3. caller[c].pc \in Loading =>
              caller[c].lookedAt <= clock + 1 /\ clock + 1 <= caller[c].lookedAt + MaxLoad
        BY <1>1, <2>1, <2>2 DEF RequestOK
    <2>4. caller[c].pc \in {"store", "resolve"} => caller[c].rows.readAt <= clock + 1
        <3> SUFFICES ASSUME caller[c].pc \in {"store", "resolve"}
                     PROVE  caller[c].rows.readAt <= clock + 1
            OBVIOUS
        <3>1. caller[c].rows \in Rows /\ caller[c].rows.readAt <= clock
            BY <2>1 DEF RequestOK, Answers
        <3>2. caller[c].rows.readAt \in Nat
            BY <1>1, <3>1 DEF Rows
        <3>. QED BY <1>1, <3>1, <3>2
    <2>. QED BY <2>1, <2>3, <2>4 DEF RequestOK
<1>3. RequestsOK'
    BY <1>1, <1>2 DEF CacheInv, RequestsOK
<1>. QED BY <1>1, <1>3 DEF CacheInv, InflightOK, EntriesOK

-----------------------------------------------------------------------------
(* Theorems                                                                 *)

\* What the cache holds and promises is sound in every state that is reached.
THEOREM CacheIsSound == Spec => []CacheInv
<1>1. Init => CacheInv
    <2> SUFFICES ASSUME Init PROVE CacheInv
        OBVIOUS
    <2> DEFINE r(c) == [pc |-> "idle", key |-> NoKey, from |-> c, rows |-> NoRows, lookedAt |-> 0]
               f == [status |-> "none", rows |-> NoRows]
    <2>1. /\ caller = [c \in Callers |-> r(c)] /\ future = [c \in Callers |-> f]
          /\ entries = <<>> /\ DOMAIN inflight = {} /\ latest = 1 /\ clock = 0
        BY DEF Init
    <2>2. ASSUME NEW c \in Callers PROVE r(c) \in Caller
        BY LimitAssumption DEF Caller
    <2>3. f \in Future
        BY DEF Future
    <2>4. \A c \in Callers : RequestOK(caller[c], future[c], clock)
        BY <2>1 DEF RequestOK, Loading
    <2>5. \A c \in Callers : WaitOK(caller[c], caller[caller[c].from], future[caller[c].from])
        BY <2>1 DEF WaitOK
    <2>6. RequestsOK
        BY <2>1, <2>2, <2>3, <2>4, <2>5 DEF RequestsOK
    <2>7. InflightOK
        BY <2>1 DEF InflightOK
    <2>8. EntriesOK(entries) /\ Len(entries) <= MaxEntries
        BY <2>1, SizeAssumption DEF EntriesOK
    <2>. QED BY <2>1, <2>6, <2>7, <2>8, LimitAssumption DEF CacheInv
<1>2. CacheInv /\ [Next]_vars => CacheInv'
    <2> SUFFICES ASSUME CacheInv, [Next]_vars PROVE CacheInv'
        OBVIOUS
    <2>1. ASSUME NEW c \in Callers, Begin(c) \/ Step(c) PROVE CacheInv'
        BY <2>1, BeginOK, LookInWholeOK, LoadHitOK, LoadJoinOK, LoadOwnOK, QueryOK,
           QueryFailsOK, StoreOK, ResolveOK, CleanupOK, AwaitOK DEF Step
    <2>2. CASE Publish
        BY <2>2, LimitAssumption
        DEF Publish, CacheInv, RequestsOK, InflightOK, EntriesOK
    <2>3. CASE UNCHANGED vars
        BY <2>3 DEF vars, CacheInv, RequestsOK, InflightOK, EntriesOK
    <2>. QED BY <2>1, <2>2, <2>3, TickOK DEF Next
<1>. QED BY <1>1, <1>2, PTL DEF Spec

\* The cache holds each key once and never more entries than it may, and a
\* future is always somebody's who began (PublicProjectionCache).
THEOREM CacheTyped == Spec => []TypeOK
<1>1. CacheInv => TypeOK
    <2> SUFFICES ASSUME CacheInv PROVE TypeOK
        OBVIOUS
    <2>1. /\ entries \in Seq(Entry) /\ Len(entries) <= MaxEntries
          /\ \A i, j \in DOMAIN entries : entries[i].key = entries[j].key => i = j
        BY DEF CacheInv, EntriesOK
    <2>2. IsInjective([i \in DOMAIN entries |-> entries[i].key])
        BY <2>1 DEF IsInjective
    <2>. QED BY <2>1, <2>2 DEF TypeOK, CacheInv, RequestsOK, InflightOK
<1>. QED BY <1>1, CacheIsSound, PTL

\* Rows are served under the date of the snapshot that was completed last when
\* the request began (the key of load_public_projection_rows).
THEOREM PublicationIsSeen == Spec => []PublicationSeenAtOnce
<1>1. CacheInv => PublicationSeenAtOnce
    BY DEF CacheInv, RequestsOK, RequestOK, PublicationSeenAtOnce
<1>. QED BY <1>1, CacheIsSound, PTL

\* What a request shows is younger than a time to live and a load, whether it was
\* hit, joined or loaded (load, _get).
THEOREM ServedRowsAreYoung == Spec => []ServedRowsAreRecent
<1>1. CacheInv => ServedRowsAreRecent
    BY DEF CacheInv, RequestsOK, RequestOK, ServedRowsAreRecent
<1>. QED BY <1>1, CacheIsSound, PTL
=============================================================================
