--------------------------- MODULE SourceRegistry ---------------------------
(***************************************************************************)
(* The registry of the pages of one bank and product type.  The group of a *)
(* catalog collection discovers pages again and rewrites their rows in one *)
(* long transaction, which also looks for pages that can be reached, and   *)
(* commits together with the run it starts; an administrator removes a     *)
(* page at any time.  The row locks of the transaction and the conditions  *)
(* of its statements are all that keeps the two apart.                     *)
(*                                                                         *)
(*   source_catalog_collection_runner.py  _run_group                       *)
(*   source_catalog.py   _materialize_sources_for_catalog_item and what it *)
(*                       calls                                             *)
(*   source_registry.py  delete_source_registry_item,                      *)
(*                       prepare_source_collection                         *)
(*                                                                         *)
(* Whose preparation of the item it is, is CatalogCollection's subject;    *)
(* here the last discovery that claimed it holds it.                       *)
(***************************************************************************)
EXTENDS Naturals, FiniteSets

CONSTANTS
    Sources,     \* pages, by normalized_url
    Seeds,       \* pages whose source_id is not of the form AUTO-...
    Fold,        \* the page in small letters: case aliases share it
    Discoveries, \* groups of collection runs that work on this item
    Removals,    \* requests to remove a source
    None,
    MaxExpiries  \* bound on reservations that are taken over from a live runner

ASSUME SourcesAssumption == Seeds \subseteq Sources /\ DOMAIN Fold = Sources
ASSUME BoundAssumption == MaxExpiries \in Nat

VARIABLES
    row,      \* source_registry_item
    work,     \* the transactions of the discoveries
    removal,  \* delete_source_registry_item between its SELECT and its UPDATE
    holder,   \* the discovery that claimed the item last
    expiries

vars == <<row, work, removal, holder, expiries>>

-----------------------------------------------------------------------------
(* Types *)

\* context: entry pages, supporting pages and documents.
Roles == {"detail", "context"}

Row == [status : {"none", "active", "inactive", "removed"}, role : Roles]

ASSUME NoneAssumption == None \notin Discoveries \cup Sources \cup Row

\* Inside the transaction of a discovery.
Opened == {"generate", "select", "exclude", "upsert", "settle", "probe",
           "prepare", "start"}

\* done: no run was worth starting.  superseded: another discovery has the item.
Ends == {"done", "collecting", "superseded", "failed"}

\* rows: the rows written, which are locked.  details, context: the pages found.
\* stale: rows selected to be deactivated.  targets: pages of the run.  again: the
\* starting page was repaired.  blamed: all pages that were turned down.
Work == [pc : {"idle"} \cup Opened \cup Ends, rows : [Sources -> Row \cup {None}],
         details : SUBSET Sources, context : SUBSET Sources, stale : SUBSET Sources,
         targets : SUBSET Sources, again : BOOLEAN, blamed : SUBSET Sources]

TypeOK ==
    /\ row \in [Sources -> Row]
    /\ work \in [Discoveries -> Work]
    /\ removal \in [Removals -> [pc : {"idle", "write", "done"}, source : Sources \cup {None}]]
    /\ holder \in Discoveries \cup {None}
    /\ expiries \in Nat

NoRow == [status |-> "none", role |-> "context"]
NoWork == [pc |-> "idle", rows |-> [s \in Sources |-> None], details |-> {},
           context |-> {}, stale |-> {}, targets |-> {}, again |-> FALSE, blamed |-> {}]

\* What former collections have left.
Init ==
    /\ \E role \in [Sources -> Roles \cup {None}] :
        row = [s \in Sources |-> IF role[s] = None THEN NoRow
                                 ELSE [status |-> "active", role |-> role[s]]]
    /\ work = [d \in Discoveries |-> NoWork]
    /\ removal = [x \in Removals |-> [pc |-> "idle", source |-> None]]
    /\ holder = None
    /\ expiries = 0

-----------------------------------------------------------------------------
(* Rows and locks *)

At(d, pc) == work[d].pc = pc
Open(d) == work[d].pc \in Opened

\* A discovery sees what is committed, and what it wrote itself.
RowIn(d, s) == IF work[d].rows[s] = None THEN row[s] ELSE work[d].rows[s]
StatusIn(d, s) == RowIn(d, s).status
ActiveDetail(d, s) == RowIn(d, s) = [status |-> "active", role |-> "detail"]

Free(d, ss) == \A s \in ss, e \in Discoveries \ {d} : work[e].rows[s] = None

\* The statement waits for the rows it needs, then writes and keeps them.
Written(d, new) == [s \in Sources |-> IF s \in DOMAIN new THEN new[s] ELSE work[d].rows[s]]
Status(d, ss, status) == [s \in ss |-> [RowIn(d, s) EXCEPT !.status = status]]

Commits(d, pc) ==
    /\ row' = [s \in Sources |-> RowIn(d, s)]
    /\ work' = [work EXCEPT ![d] = [NoWork EXCEPT !.pc = pc]]
    /\ UNCHANGED <<removal, holder, expiries>>

RollsBack(d, pc) ==
    /\ work' = [work EXCEPT ![d] = [NoWork EXCEPT !.pc = pc]]
    /\ UNCHANGED <<row, removal, holder, expiries>>

-----------------------------------------------------------------------------
(* Discovery: _materialize_sources_for_catalog_item *)

\* claim_preparation: the item is free, or its reservation has aged out.
Begin(d) ==
    /\ At(d, "idle")
    /\ LET takesOver == \E e \in Discoveries : Open(e)
       IN  /\ takesOver => expiries < MaxExpiries
           /\ expiries' = IF takesOver THEN expiries + 1 ELSE expiries
    /\ holder' = d
    /\ work' = [work EXCEPT ![d].pc = "generate"]
    /\ UNCHANGED <<row, removal>>

\* Mutant of Superseded: context is replaced although no details were found.
SupersededAlways(d, details) ==
    {s \in Sources : RowIn(d, s).role = "context" /\ StatusIn(d, s) \in {"active", "inactive"}}

\* superseded_by_homepage_catalog_generation: the context of the details found
\* replaces all former context.
Superseded(d, details) ==
    {s \in Sources : /\ details # {}
                     /\ RowIn(d, s).role = "context"
                     /\ StatusIn(d, s) \in {"active", "inactive"}}

\* _exclude_terminal_404_supporting_rows: context whose last attempt ended with a 404.
Gone(d, gone) == {s \in gone : /\ RowIn(d, s).role = "context"
                               /\ StatusIn(d, s) \in {"active", "inactive"}}

\* Rows that discovery made and may unmake.
Generated(d) == {s \in Sources \ Seeds : ActiveDetail(d, s)}

Swept(d, details, rejected, gone) ==
    Gone(d, gone) \cup Superseded(d, details) \cup (rejected \cap Generated(d))

\* _generate_sources_from_homepage looks at the site: details are promoted or
\* rejected, and a page that is rejected as a detail may be kept as context.  Then
\* the UPDATEs of _exclude_terminal_404_supporting_rows, of the supersession and of
\* _deactivate_rejected_generated_detail_sources.
Generate(d) ==
    /\ At(d, "generate")
    /\ \E details \in SUBSET Sources :
        \E context, rejected \in SUBSET (Sources \ details) : \E gone \in SUBSET context :
            LET swept == Swept(d, details, rejected, gone)
            IN  /\ Free(d, swept)
                /\ work' = [work EXCEPT ![d].pc = "select",
                       ![d].details = details, ![d].context = context \ gone,
                       ![d].rows = Written(d, Status(d, swept, "inactive")),
                       ![d].blamed = @ \cup rejected \cup gone]
    /\ UNCHANGED <<row, removal, holder, expiries>>

\* _deactivate_hard_scope_excluded_generated_detail_sources and
\* _deactivate_case_alias_generated_detail_sources select rows without a lock:
\* those whose page is out of scope, and those which differ from a selected detail
\* by case only (if both spellings were found, one of them is selected).
SelectStale(d) ==
    /\ At(d, "select")
    /\ \E excluded \in SUBSET Generated(d), selected \in SUBSET work[d].details :
        /\ \A s \in work[d].details : Cardinality({t \in selected : Fold[t] = Fold[s]}) = 1
        /\ LET aliases == {s \in Generated(d) \ selected :
                               \E t \in selected : Fold[t] = Fold[s]}
           IN  work' = [work EXCEPT ![d].pc = "exclude",
                            ![d].stale = excluded \cup aliases,
                            ![d].blamed = @ \cup excluded \cup aliases]
    /\ UNCHANGED <<row, removal, holder, expiries>>

\* Their UPDATEs name the rows by source_id only, whatever they have become.
Exclude(d) ==
    LET stale == {s \in work[d].stale : row[s].status # "none"}
    IN  /\ At(d, "exclude")
        /\ Free(d, stale)
        /\ work' = [work EXCEPT ![d].pc = "upsert", ![d].stale = {},
                        ![d].rows = Written(d, Status(d, stale, "inactive"))]
        /\ UNCHANGED <<row, removal, holder, expiries>>

\* Mutant of Role: only details are given one.
RoleOfDetails(d, s) == IF s \in work[d].details THEN "detail" ELSE None

Role(d, s) == IF s \in work[d].details THEN "detail" ELSE "context"

\* Mutant of Upserted: ON CONFLICT overwrites the status.
UpsertedAlways(d, s) == [status |-> "active", role |-> Role(d, s)]

\* Mutant of Upserted: ON CONFLICT leaves every status as it is.
UpsertedAsItWas(d, s) ==
    [status |-> IF StatusIn(d, s) = "none" THEN "active" ELSE StatusIn(d, s),
     role |-> Role(d, s)]

\* _upsert_source_registry_rows: ON CONFLICT leaves a removed row removed.
Upserted(d, s) ==
    [status |-> IF StatusIn(d, s) = "removed" THEN "removed" ELSE "active",
     role |-> Role(d, s)]

Upsert(d) ==
    LET generated == work[d].details \cup work[d].context
    IN  /\ At(d, "upsert")
        /\ Free(d, generated)
        /\ work' = [work EXCEPT ![d].pc = "settle", ![d].context = {},
                        ![d].rows = Written(d, [s \in generated |-> Upserted(d, s)])]
        /\ UNCHANGED <<row, removal, holder, expiries>>

-----------------------------------------------------------------------------
(* The scope of the run: _run_group *)

\* _load_active_collection_scope: the active details, but for those that are blocked.
ActiveScopes(d) == SUBSET {s \in Sources : ActiveDetail(d, s)}

\* Standard mode: the registry is used as it is, if it has a detail.
Reuse(d) ==
    /\ At(d, "generate")
    /\ ~work[d].again
    /\ \E targets \in ActiveScopes(d) \ {{}} :
        work' = [work EXCEPT ![d].pc = "probe", ![d].targets = targets]
    /\ UNCHANGED <<row, removal, holder, expiries>>

\* All of them are blocked: there is no run.
ReuseBlocked(d) ==
    /\ At(d, "generate")
    /\ ~work[d].again
    /\ \E s \in Sources : ActiveDetail(d, s)
    /\ Commits(d, "done")

\* What was found, and what is active besides.
Targets(d, scope) == {s \in work[d].details : StatusIn(d, s) # "removed"} \cup scope

Settle(d) ==
    /\ At(d, "settle")
    /\ \E scope \in ActiveScopes(d) :
        /\ Targets(d, scope) # {}
        /\ work' = [work EXCEPT ![d].pc = "probe", ![d].targets = Targets(d, scope)]
    /\ UNCHANGED <<row, removal, holder, expiries>>

NothingToCollect(d) == \E scope \in ActiveScopes(d) : Targets(d, scope) = {}

\* repair_catalog_coverage_route finds another page to start from.
Repair(d) ==
    /\ At(d, "settle")
    /\ ~work[d].again
    /\ work[d].details = {}
    /\ NothingToCollect(d)
    /\ work' = [work EXCEPT ![d].pc = "generate", ![d].again = TRUE]
    /\ UNCHANGED <<row, removal, holder, expiries>>

\* There is no run, and what was discovered is kept, whoever holds the item now.
NoDetail(d) ==
    /\ At(d, "settle")
    /\ NothingToCollect(d)
    /\ Commits(d, "done")

\* probe_sources: some pages can be reached, and the item is still claimed.
Probe(d) ==
    /\ At(d, "probe")
    /\ holder = d
    /\ \E available \in SUBSET work[d].targets \ {{}} :
        work' = [work EXCEPT ![d].pc = "prepare", ![d].targets = available]
    /\ UNCHANGED <<row, removal, holder, expiries>>

\* None can be reached.
Unavailable(d) == At(d, "probe") /\ Commits(d, "done")

\* The claim is lost: what was discovered is discarded.
ClaimLost(d) == At(d, "probe") /\ holder # d /\ RollsBack(d, "superseded")

\* prepare_source_collection reads the rows again and refuses removed ones.
Refusable(d) == {s \in work[d].targets : StatusIn(d, s) = "removed"}

Prepare(d) ==
    /\ At(d, "prepare")
    /\ Refusable(d) = {}
    /\ work' = [work EXCEPT ![d].pc = "start"]
    /\ UNCHANGED <<row, removal, holder, expiries>>

Refused(d) == At(d, "prepare") /\ Refusable(d) # {} /\ RollsBack(d, "failed")

\* The run and the registry are committed together.
Start(d) == At(d, "start") /\ Commits(d, "collecting")

\* An exception, a timeout or the end of the process.
Fails(d) == Open(d) /\ RollsBack(d, "failed")

-----------------------------------------------------------------------------
(* Removal: delete_source_registry_item *)

ReadSource(x) ==
    /\ removal[x].pc = "idle"
    /\ \E s \in Sources :
        /\ row[s].status # "none"
        /\ removal' = [removal EXCEPT ![x] =
               [pc |-> IF row[s].status = "removed" THEN "done" ELSE "write", source |-> s]]
    /\ UNCHANGED <<row, work, holder, expiries>>

\* The UPDATE waits for discoveries that have written the row.
Remove(x) ==
    /\ removal[x].pc = "write"
    /\ \A d \in Discoveries : work[d].rows[removal[x].source] = None
    /\ row' = [row EXCEPT ![removal[x].source].status = "removed"]
    /\ removal' = [removal EXCEPT ![x].pc = "done"]
    /\ UNCHANGED <<work, holder, expiries>>

-----------------------------------------------------------------------------
Materialize(d) == Generate(d) \/ SelectStale(d) \/ Exclude(d) \/ Upsert(d)
Choose(d) == Reuse(d) \/ ReuseBlocked(d) \/ Settle(d) \/ Repair(d) \/ NoDetail(d)
Enter(d) == \/ Probe(d) \/ Unavailable(d) \/ ClaimLost(d)
            \/ Prepare(d) \/ Refused(d) \/ Start(d)

Next ==
    \/ \E d \in Discoveries : Begin(d) \/ Materialize(d) \/ Choose(d) \/ Enter(d) \/ Fails(d)
    \/ \E x \in Removals : ReadSource(x) \/ Remove(x)

Spec == Init /\ [][Next]_vars

-----------------------------------------------------------------------------
(* Properties *)

Committed(d) == Open(d) /\ work'[d].pc \in {"done", "collecting"}

\* A source that was removed does not come back, however often its page is found
\* again.  The exception is a row that a discovery had selected as out of scope or
\* as an alias before it was removed: the UPDATE that follows makes it inactive,
\* and then it may be found again
\* (_upsert_source_registry_rows, _deactivate_case_alias_generated_detail_sources).
RemovedStaysOut ==
    [][\A s \in Sources : row[s].status = "removed" /\ row'[s].status # "removed" =>
        \E d \in Discoveries : Committed(d) /\ s \in work[d].blamed]_vars

\* "a partial discovery pass does not accidentally shrink candidate-producing
\* coverage": what is active and becomes inactive was turned down by the discovery
\* that commits, or is context and that discovery has found the details to replace
\* it.  A detail of the seed list must have become context first, which takes a
\* second look at the site in the same transaction.
LeavesForAReason ==
    [][\A s \in Sources : row[s].status = "active" /\ row'[s].status = "inactive" =>
        \E d \in Discoveries :
            /\ Committed(d)
            /\ \/ s \in work[d].blamed
               \/ work[d].details # {} /\ (row[s].role = "detail" => work[d].again)
            /\ row[s].role = "detail" /\ s \in Seeds => work[d].again]_vars

\* A run starts with pages that are active in the registry when it starts: those
\* that its discovery has found because they are written in the order in which
\* they are (deactivated first), and locked until then.
CollectedIsActive ==
    [][\A d \in Discoveries : At(d, "start") /\ work'[d].pc = "collecting" =>
        \A s \in work[d].targets \cap work[d].details :
            row'[s] = [status |-> "active", role |-> "detail"]]_vars
=============================================================================
