------------------------ MODULE CandidatePublication ------------------------
(***************************************************************************)
(* From collected candidates to canonical products.  A collection run      *)
(* normalizes and validates its candidates and then promotes the accepted  *)
(* ones in one database transaction; the promotion CLI does the same over  *)
(* all runs; the remediation CLI retracts candidates and the products they *)
(* are the current version of.  Nothing serialises these transactions but  *)
(* the row locks they take and the unique keys they may violate.           *)
(*                                                                         *)
(*   candidate_auto_promotion.py     promote_auto_validated_candidates     *)
(*   review_detail.py                _apply_canonical_approval             *)
(*   candidate_safety_remediation.py retract_invalid_candidates            *)
(*   source_collection_runner.py     the steps of a run around promotion   *)
(*   fpds_normalization, fpds_validation_routing  what the stages persist  *)
(*                                                                         *)
(* A candidate is a number, in the order of created_at; every candidate    *)
(* here has the same country, bank, family and type, so that its name is   *)
(* its identity.  A product is known by the candidate that created it.     *)
(***************************************************************************)
EXTENDS Naturals, Sequences, FiniteSets

CONSTANTS
    Candidates,  \* candidate_id
    RunOf,       \* the run of each candidate, None for one of a former process
    Runs,        \* run_id
    Clis,        \* invocations of the promotion CLI
    Retractions, \* invocations of the remediation CLI
    Sources,     \* source_document_id of detail pages
    Names,       \* product names, as normalized for comparison
    MaxListed,   \* bound on the candidates one retraction lists
    None

Promoters == Runs \cup Clis
Transactions == Promoters \cup Retractions

ASSUME CandidatesAssumption ==
    /\ Candidates \subseteq Nat \ {0}
    /\ IsFiniteSet(Candidates)
    /\ None \notin Candidates
ASSUME RunsAssumption == RunOf \in [Candidates -> Runs \cup {None}] /\ None \notin Runs
ASSUME TransactionsAssumption ==
    /\ Runs \cap Clis = {}
    /\ Promoters \cap Retractions = {}
ASSUME BoundAssumption == MaxListed \in Nat \ {0}
ASSUME TextAssumption == None \notin Sources /\ None \notin Names

VARIABLES
    candidate, \* normalized_candidate
    review,    \* review_task: the review_state of each candidate's task
    product,   \* canonical_product with its product_version rows
    run,       \* what each collection run has done
    tx         \* the transactions of promotions and retractions

vars == <<candidate, review, product, run, tx>>

-----------------------------------------------------------------------------
(* Types *)

Open == {"queued", "deferred"}

Candidate == [state : {"none", "draft", "auto_validated", "in_review", "approved",
                       "rejected", "superseded"},
              name : Names \cup {None}, source : Sources \cup {None}]

Version == [candidate : Candidates, status : {"approved", "superseded"}]

\* status "none": there is no such product.
Product == [status : {"none", "active", "inactive"}, name : Names \cup {None},
            current : Nat, versions : Seq(Version)]

\* What a retraction read of a candidate: the product it is the current
\* version of, or None.
Row == [product : Candidates \cup {None}, active : BOOLEAN]

\* held: candidates locked.  rows: the products written, which are locked too.
\* decided: the candidate states written.  todo: candidates still to handle.
\* found, base: the product looked up for the first of them, and its version.
Tx == [pc : {"idle", "next", "write", "supersede", "lock", "retract", "done", "aborted"},
       held : SUBSET Candidates, todo : Seq(Candidates),
       rows : [Candidates -> Product \cup {None}],
       decided : [Candidates -> {"approved", "rejected", "superseded", None}],
       found : Candidates \cup {None}, base : Nat, read : [Candidates -> Row]]

ASSUME NoneAssumption ==
    None \notin Product /\ None \notin {"approved", "rejected", "superseded"}

TypeOK ==
    /\ candidate \in [Candidates -> Candidate]
    /\ review \in [Candidates -> Open \cup {"none", "rejected"}]
    /\ product \in [Candidates -> Product]
    /\ run \in [Runs -> {"new", "draft", "validated", "summarized", "promoting",
                         "promoted", "finished", "failed"}]
    /\ tx \in [Transactions -> Tx]

NoCandidate == [state |-> "none", name |-> None, source |-> None]
NoProduct == [status |-> "none", name |-> None, current |-> 0, versions |-> <<>>]
NoTx == [pc |-> "idle", held |-> {}, todo |-> <<>>, rows |-> [k \in Candidates |-> None],
         decided |-> [c \in Candidates |-> None], found |-> None, base |-> 0,
         read |-> [c \in Candidates |-> [product |-> None, active |-> FALSE]]]

\* Mutant of NewProduct: the first version has no number.
NewProductUnnumbered(c) ==
    [status |-> "active", name |-> candidate[c].name, current |-> None,
     versions |-> <<[candidate |-> c, status |-> "approved"]>>]

NewProduct(c) == [status |-> "active", name |-> candidate[c].name, current |-> 1,
                  versions |-> <<[candidate |-> c, status |-> "approved"]>>]

Former == {c \in Candidates : RunOf[c] = None}

\* Candidates of the former process wait for a review that nobody decides any
\* more, or were approved then, each for a product of its own.
Init ==
    /\ \E state \in [Former -> {"in_review", "approved"}], name \in [Former -> Names],
          source \in [Former -> Sources], open \in [Former -> Open] :
        /\ candidate = [c \in Candidates |->
               IF c \in Former
               THEN [state |-> state[c], name |-> name[c], source |-> source[c]]
               ELSE NoCandidate]
        /\ review = [c \in Candidates |->
               IF c \in Former /\ state[c] = "in_review" THEN open[c] ELSE "none"]
    /\ product = [k \in Candidates |->
           IF candidate[k].state = "approved" THEN NewProduct(k) ELSE NoProduct]
    /\ run = [r \in Runs |-> "new"]
    /\ tx = [t \in Transactions |-> NoTx]

-----------------------------------------------------------------------------
(* Row locks *)

Of(r) == {c \in Candidates : RunOf[c] = r}

HoldsCandidate(t, c) == c \in tx[t].held
HoldsProduct(t, k) == tx[t].rows[k] # None
FreeCandidate(t, c) == \A u \in Transactions \ {t} : ~HoldsCandidate(u, c)
FreeProduct(t, k) == \A u \in Transactions \ {t} : ~HoldsProduct(u, k)
Unlocked(cs) == \A c \in cs, u \in Transactions : ~HoldsCandidate(u, c)

\* A transaction reads what is committed, and what it wrote itself.
ProductIn(t, k) == IF HoldsProduct(t, k) THEN tx[t].rows[k] ELSE product[k]
StateIn(t, c) == IF tx[t].decided[c] = None THEN candidate[c].state ELSE tx[t].decided[c]
Exists(t, k) == ProductIn(t, k).status # "none"
CurrentIn(t, k) == ProductIn(t, k).versions[ProductIn(t, k).current]

-----------------------------------------------------------------------------
(* The stages of a run before promotion *)

\* fpds_normalization: the candidates are stored as drafts.
Normalize(r) ==
    /\ run[r] = "new"
    /\ run' = [run EXCEPT ![r] = "draft"]
    /\ \E name \in [Of(r) -> Names], source \in [Of(r) -> Sources] :
        candidate' = [c \in Candidates |->
            IF c \in Of(r)
            THEN [state |-> "draft", name |-> name[c], source |-> source[c]]
            ELSE candidate[c]]
    /\ UNCHANGED <<review, product, tx>>

\* fpds_validation_routing: every candidate is accepted or rejected, whatever
\* its state has become.
Validate(r) ==
    /\ run[r] = "draft"
    /\ Unlocked(Of(r))
    /\ run' = [run EXCEPT ![r] = "validated"]
    /\ \E accepted \in SUBSET Of(r) :
        candidate' = [c \in Candidates |->
            IF c \in Of(r)
            THEN [candidate[c] EXCEPT
                      !.state = IF c \in accepted THEN "auto_validated" ELSE "rejected"]
            ELSE candidate[c]]
    /\ UNCHANGED <<review, product, tx>>

AwaitsReview(c) == candidate[c].state = "in_review" /\ review[c] \in Open

\* Both supersessions of a run close older reviews in one statement.
Superseded(stale) ==
    /\ Unlocked(stale)
    /\ candidate' = [c \in Candidates |->
           IF c \in stale THEN [candidate[c] EXCEPT !.state = "superseded"] ELSE candidate[c]]
    /\ review' = [c \in Candidates |-> IF c \in stale THEN "rejected" ELSE review[c]]

\* Mutant of Replacing: a rejected candidate replaces others too.
ReplacingAny(r) == Of(r)

\* The candidates of the run that may replace others: the latest of each name.
Replacing(r) == {c \in Of(r) : candidate[c].state = "approved" \/ AwaitsReview(c)}
Newest(r) == {c \in Replacing(r) :
                 \A d \in Replacing(r) : candidate[d].name = candidate[c].name => d <= c}
OnlyOfSource(r, c) ==
    {d \in Replacing(r) : candidate[d].source = candidate[c].source} = {c}

\* _supersede_stale_logical_reviews_for_run runs before the promotion.
SupersedeLogical(r) ==
    /\ run[r] = "validated"
    /\ Superseded({d \in Candidates :
           /\ AwaitsReview(d)
           /\ \E c \in Newest(r) :
               /\ d < c
               /\ \/ candidate[d].name = candidate[c].name
                  \/ OnlyOfSource(r, c) /\ candidate[d].source = candidate[c].source})
    /\ run' = [run EXCEPT ![r] = "summarized"]
    /\ UNCHANGED <<product, tx>>

\* _supersede_reviews_covered_by_approved_candidates_for_run
SupersedeCovered(r) ==
    /\ run[r] = "promoted"
    /\ Superseded({d \in Of(r) :
           /\ AwaitsReview(d)
           /\ \E c \in Of(r) : candidate[c].state = "approved"
                            /\ candidate[c].name = candidate[d].name})
    /\ run' = [run EXCEPT ![r] = "finished"]
    /\ UNCHANGED <<product, tx>>

-----------------------------------------------------------------------------
(* The promotion transaction *)

Versions(k) == {product[k].versions[i].candidate : i \in DOMAIN product[k].versions}
HasVersion(c) == \E k \in Candidates : c \in Versions(k)

InOrder(cs) == CHOOSE s \in [1..Cardinality(cs) -> cs] :
                   \A i, j \in 1..Cardinality(cs) : i < j => s[i] < s[j]

\* _load_candidate_rows: FOR UPDATE OF nc SKIP LOCKED.  Its LIMIT, 1000 for the CLI
\* and for a run's own promotion alike, is not reached.
Loadable(t, c) ==
    /\ t \in Runs => RunOf[c] = t
    /\ candidate[c].state = "auto_validated"
    /\ review[c] \notin Open
    /\ ~HasVersion(c)
    /\ FreeCandidate(t, c)

Load(t) ==
    /\ tx[t].pc = "idle"
    /\ t \in Runs => run[t] = "summarized"
    /\ LET taken == {c \in Candidates : Loadable(t, c)}
       IN  tx' = [tx EXCEPT ![t] = [NoTx EXCEPT !.pc = "next", !.held = taken,
                                                !.todo = InOrder(taken)]]
    /\ run' = IF t \in Runs THEN [run EXCEPT ![t] = "promoting"] ELSE run
    /\ UNCHANGED <<candidate, review, product>>

\* Mutant of Refuse: the refused candidate keeps its state.
RefuseUnchanged(t) ==
    /\ t \in Promoters
    /\ tx[t].pc = "next"
    /\ tx[t].todo # <<>>
    /\ tx' = [tx EXCEPT ![t].todo = Tail(tx[t].todo)]
    /\ UNCHANGED <<candidate, review, product, run>>

\* One of the gates refuses the candidate: it is rejected.
Refuse(t) ==
    /\ t \in Promoters
    /\ tx[t].pc = "next"
    /\ tx[t].todo # <<>>
    /\ tx' = [tx EXCEPT ![t].decided[Head(tx[t].todo)] = "rejected",
                        ![t].todo = Tail(tx[t].todo)]
    /\ UNCHANGED <<candidate, review, product, run>>

\* _find_current_product: the one product whose current name is evidenced by
\* the same page, if the page yields one name in the run, or else one of that name.
SingleName(c) == \A d \in Candidates :
    RunOf[d] = RunOf[c] /\ candidate[d].source = candidate[c].source
        => candidate[d].name = candidate[c].name
OfSource(t, c) == {k \in Candidates :
    Exists(t, k) /\ candidate[CurrentIn(t, k).candidate].source = candidate[c].source}
OfName(t, c) == {k \in Candidates : Exists(t, k) /\ ProductIn(t, k).name = candidate[c].name}
Matches(t, c) == IF SingleName(c) /\ Cardinality(OfSource(t, c)) = 1
                 THEN OfSource(t, c) ELSE OfName(t, c)

\* The candidate passes the gates, and its product is looked up without a lock.
Find(t) ==
    /\ t \in Promoters
    /\ tx[t].pc = "next"
    /\ tx[t].todo # <<>>
    /\ LET matches == Matches(t, Head(tx[t].todo))
       IN  \E k \in IF matches = {} THEN {None} ELSE matches :
            tx' = [tx EXCEPT ![t].pc = "write", ![t].found = k,
                             ![t].base = IF k = None THEN 0 ELSE ProductIn(t, k).current]
    /\ UNCHANGED <<candidate, review, product, run>>

\* Mutant of NextVersion: the former version is not closed.
NextVersionBoth(row, base, c) ==
    [status |-> "active", name |-> candidate[c].name, current |-> base + 1,
     versions |-> Append(row.versions, [candidate |-> c, status |-> "approved"])]

\* The version after the one that was read.
NextVersion(row, base, c) ==
    [status |-> "active", name |-> candidate[c].name, current |-> base + 1,
     versions |-> Append([row.versions EXCEPT ![base].status = "superseded"],
                         [candidate |-> c, status |-> "approved"])]

\* Mutant of Conflict: product_version has no unique keys.
ConflictNever(t, k, c) == FALSE

\* UNIQUE (product_id, version_no): the version after the one read is taken;
\* UNIQUE (approved_candidate_id): the candidate is published already.
Conflict(t, k, c) == \/ k # None /\ Len(ProductIn(t, k).versions) > tx[t].base
                     \/ HasVersion(c)

VersionName(t, k, n) == candidate[ProductIn(t, k).versions[n].candidate].name

\* _apply_canonical_approval and _mark_candidate_auto_promoted.  The payload of
\* a product found differs from the candidate's, or agrees with it.
Write(t) ==
    LET c == Head(tx[t].todo)
        k == tx[t].found
        Approved(key, row) ==
            tx' = [tx EXCEPT ![t].pc = "supersede", ![t].rows[key] = row,
                             ![t].decided[c] = "approved"]
    IN  /\ tx[t].pc = "write"
        /\ \/ k = None /\ ~Conflict(t, k, c) /\ Approved(c, NewProduct(c))
           \/ /\ k # None
              /\ FreeProduct(t, k)
              /\ ~Conflict(t, k, c)
              /\ Approved(k, NextVersion(ProductIn(t, k), tx[t].base, c))
           \/ /\ k # None
              /\ FreeProduct(t, k)
              /\ VersionName(t, k, tx[t].base) = candidate[c].name
              /\ Approved(k, ProductIn(t, k))
        /\ UNCHANGED <<candidate, review, product, run>>

\* _supersede_stale_reviews_for_source: older open reviews of the same page.
StaleOfSource(t, c) == {d \in Candidates :
    /\ candidate[d].source = candidate[c].source
    /\ d < c
    /\ StateIn(t, d) \in {"in_review", "auto_validated"}
    /\ review[d] \in Open}

Supersede(t) ==
    LET stale == StaleOfSource(t, Head(tx[t].todo))
    IN  /\ tx[t].pc = "supersede"
        /\ \A d \in stale : FreeCandidate(t, d)
        /\ tx' = [tx EXCEPT ![t].pc = "next", ![t].todo = Tail(tx[t].todo),
                            ![t].held = @ \cup stale, ![t].found = None, ![t].base = 0,
                            ![t].decided = [d \in Candidates |->
                                IF d \in stale THEN "superseded" ELSE tx[t].decided[d]]]
        /\ UNCHANGED <<candidate, review, product, run>>

-----------------------------------------------------------------------------
(* The retraction transaction *)

\* The product that the statement's join finds for a candidate.
CurrentProduct(c) == {k \in Candidates :
    /\ product[k].status # "none"
    /\ product[k].versions[product[k].current].candidate = c}

\* Mutant of RowOf: the join finds a product by its name.
RowOfName(c) ==
    LET ks == {k \in Candidates : product[k].status # "none"
                                /\ product[k].name = candidate[c].name}
    IN  IF ks = {} THEN [product |-> None, active |-> FALSE]
        ELSE LET k == CHOOSE k \in ks : TRUE
             IN  [product |-> k, active |-> product[k].status = "active"]

RowOf(c) == IF CurrentProduct(c) = {} THEN [product |-> None, active |-> FALSE]
            ELSE LET k == CHOOSE k \in CurrentProduct(c) : TRUE
                 IN  [product |-> k, active |-> product[k].status = "active"]

\* The statement reads its rows, and locks the candidates in order afterwards:
\* what it read of products is not read again when it has to wait.
ReadRows(t, ids) ==
    /\ tx[t].pc = "idle"
    /\ ids # {} /\ Cardinality(ids) <= MaxListed
    /\ \A c \in ids : candidate[c].state # "none"
    /\ tx' = [tx EXCEPT ![t].pc = "lock", ![t].todo = InOrder(ids),
                        ![t].read = [c \in Candidates |->
                            IF c \in ids THEN RowOf(c) ELSE NoTx.read[c]]]
    /\ UNCHANGED <<candidate, review, product, run>>

LockRow(t) ==
    /\ tx[t].pc = "lock"
    /\ LET c == Head(tx[t].todo)
           rest == Tail(tx[t].todo)
       IN  /\ FreeCandidate(t, c)
           /\ tx' = [tx EXCEPT ![t].held = @ \cup {c},
                               ![t].pc = IF rest = <<>> THEN "retract" ELSE "lock",
                               ![t].todo = IF rest = <<>> THEN InOrder(tx[t].held \cup {c})
                                           ELSE rest]
    /\ UNCHANGED <<candidate, review, product, run>>

\* Mutant of Withdraws: the product is read as active or not, and left so.
WithdrawsNever(t, c) == FALSE

Withdraws(t, c) == tx[t].read[c].product # None /\ tx[t].read[c].active

\* The candidate is rejected, and the product it was read with is withdrawn.
Retract(t) ==
    LET c == Head(tx[t].todo)
        k == tx[t].read[c].product
    IN  /\ tx[t].pc = "retract"
        /\ tx[t].todo # <<>>
        /\ IF Withdraws(t, c)
           THEN /\ FreeProduct(t, k)
                /\ tx' = [tx EXCEPT ![t].decided[c] = "rejected", ![t].todo = Tail(@),
                        ![t].rows[k] = [ProductIn(t, k) EXCEPT !.status = "inactive"]]
           ELSE tx' = [tx EXCEPT ![t].decided[c] = "rejected", ![t].todo = Tail(@)]
        /\ UNCHANGED <<candidate, review, product, run>>

-----------------------------------------------------------------------------
(* The end of a transaction *)

\* A retraction's record keeps what it read and which candidates it rejected.
Ended(t, pc) ==
    IF t \in Retractions /\ pc = "done"
    THEN [NoTx EXCEPT !.pc = pc, !.read = tx[t].read, !.decided = tx[t].decided]
    ELSE [NoTx EXCEPT !.pc = pc]

\* A supersession closes the review, and so does a retraction.
ClosesReview(t, c) == tx[t].decided[c] \in
    (IF t \in Retractions THEN {"rejected"} ELSE {"superseded"})

\* Everything the transaction wrote becomes visible at once.
Commit(t) ==
    /\ tx[t].pc \in {"next", "retract"}
    /\ tx[t].todo = <<>>
    /\ candidate' = [c \in Candidates |-> [candidate[c] EXCEPT !.state = StateIn(t, c)]]
    /\ review' = [c \in Candidates |->
           IF review[c] \in Open /\ ClosesReview(t, c) THEN "rejected" ELSE review[c]]
    /\ product' = [k \in Candidates |-> ProductIn(t, k)]
    /\ run' = IF t \in Runs THEN [run EXCEPT ![t] = "promoted"] ELSE run
    /\ tx' = [tx EXCEPT ![t] = Ended(t, "done")]

\* The transaction rolls back; the runner marks its run failed.
RollBack(t) ==
    /\ run' = IF t \in Runs THEN [run EXCEPT ![t] = "failed"] ELSE run
    /\ tx' = [tx EXCEPT ![t] = Ended(t, "aborted")]
    /\ UNCHANGED <<candidate, review, product>>

\* The insertion of a version that exists already violates its unique key.
UniqueViolation(t) ==
    /\ tx[t].pc = "write"
    /\ tx[t].found # None => FreeProduct(t, tx[t].found)
    /\ Conflict(t, tx[t].found, Head(tx[t].todo))
    /\ RollBack(t)

\* The transactions that hold what t waits for.
WaitsFor(t) ==
    LET pc == tx[t].pc
        wanted == CASE pc = "lock" -> {Head(tx[t].todo)}
                    [] pc = "supersede" -> StaleOfSource(t, Head(tx[t].todo))
                    [] OTHER -> {}
        row == CASE pc = "write" -> {tx[t].found} \ {None}
                 [] pc = "retract" /\ tx[t].todo # <<>> ->
                        IF Withdraws(t, Head(tx[t].todo))
                        THEN {tx[t].read[Head(tx[t].todo)].product} ELSE {}
                 [] OTHER -> {}
    IN  {u \in Transactions \ {t} : \/ \E c \in wanted : HoldsCandidate(u, c)
                                   \/ \E k \in row : HoldsProduct(u, k)}

\* Everyone in the set waits for somebody in it.
Cyclic(ts) == ts # {} /\ \A t \in ts : WaitsFor(t) \cap ts # {}

\* PostgreSQL finds a cycle of waiting transactions and aborts one of them.
DeadlockVictim(t) ==
    /\ \E ts \in SUBSET Transactions :
        /\ t \in ts
        /\ Cyclic(ts)
        /\ \A us \in SUBSET ts \ {ts} : ~Cyclic(us)
    /\ RollBack(t)

-----------------------------------------------------------------------------
(* Specification *)

Stage(r) == Normalize(r) \/ Validate(r) \/ SupersedeLogical(r) \/ SupersedeCovered(r)

\* What an open transaction does next; it may have to wait.
Advance(t) ==
    \/ t \in Promoters /\ (Refuse(t) \/ Find(t) \/ Write(t) \/ Supersede(t))
    \/ t \in Retractions /\ (LockRow(t) \/ Retract(t))
    \/ Commit(t)
    \/ UniqueViolation(t)

Next ==
    \/ \E r \in Runs : Stage(r)
    \/ \E t \in Promoters : Load(t)
    \/ \E t \in Retractions, ids \in SUBSET Candidates : ReadRows(t, ids)
    \/ \E t \in Transactions : Advance(t) \/ DeadlockVictim(t)

Spec == Init /\ [][Next]_vars

-----------------------------------------------------------------------------
(* Properties *)

\* The versions of a product form one chain: the current one is the last and
\* the only one that is approved, although two transactions may have read the
\* same version before either wrote the next (_apply_canonical_approval).
OneCurrentVersion ==
    \A k \in Candidates : product[k].status # "none" =>
        /\ product[k].current = Len(product[k].versions)
        /\ \A i \in DOMAIN product[k].versions :
            product[k].versions[i].status = "approved" <=> i = product[k].current

\* What the public list shows of a product comes from a candidate that is
\* approved.  The exception: a retraction whose statement read the candidate
\* before its product was committed rejects it and withdraws nothing.
Retracted(t, c) == tx[t].pc = "done" /\ tx[t].decided[c] = "rejected"

ServedIsApproved ==
    \A k \in Candidates : product[k].status = "active" =>
        LET c == product[k].versions[product[k].current].candidate
        IN  \/ candidate[c].state = "approved"
            \/ \E t \in Retractions : Retracted(t, c) /\ tx[t].read[c].product = None

\* A product disappears from the public list only because a retraction named a
\* candidate that was its current version when the retraction read it.
WithdrawnByRetraction ==
    \A k \in Candidates : product[k].status = "inactive" =>
        \E t \in Retractions, c \in Candidates :
            /\ Retracted(t, c)
            /\ tx[t].read[c].product = k
            /\ c \in Versions(k)

\* A review is closed as stale only by the approval of a newer candidate of the
\* same page or name: no interleaving closes it for a candidate that was
\* rejected, or whose promotion was rolled back.
SupersededByApproval ==
    [][\A d \in Candidates :
        candidate'[d].state = "superseded" /\ candidate[d].state # "superseded" =>
            /\ review'[d] = "rejected"
            /\ \E c \in Candidates :
                /\ d < c
                /\ candidate'[c].state = "approved"
                /\ \/ candidate[c].source = candidate[d].source
                   \/ candidate[c].name = candidate[d].name]_vars

\* When a run's own promotion is over, nothing that validation accepted is left
\* undecided, unless another transaction holds it, or held it and was rolled back:
\* the promotion skips what is locked, and nobody comes back for it
\* (FOR UPDATE OF nc SKIP LOCKED).
AcceptedIsDecided ==
    \A c \in Candidates \ Former :
        run[RunOf[c]] \in {"promoted", "finished"} /\ candidate[c].state = "auto_validated" =>
            \E t \in Transactions \ {RunOf[c]} :
                HoldsCandidate(t, c) \/ tx[t].pc = "aborted"
=============================================================================
