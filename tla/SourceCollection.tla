-------------------------- MODULE SourceCollection --------------------------
(***************************************************************************)
(* A collection of selected sources: the request that registers its run    *)
(* and starts the runner, the runner and its worker stages, and the retry  *)
(* of a failed run.                                                        *)
(*                                                                         *)
(*   source_registry.py            start_source_collection                 *)
(*   run_retry.py                  retry_failed_run                        *)
(*   source_collection_runner.py   _run_group                              *)
(*   fpds_snapshot, fpds_parse_chunk, fpds_extraction, fpds_normalization, *)
(*   fpds_validation_routing       the stages' reads and persistence       *)
(*                                                                         *)
(* The runner is started inside the request's transaction, and a stage is  *)
(* a process of its own that reads the database when it begins and writes  *)
(* it once when it ends.  A snapshot is known by its content, which is     *)
(* what its identifier is computed from.  A run is one collection of one   *)
(* request; the catalog's collections are the subject of CatalogCollection *)
(* and the promotion at the end that of CandidatePublication.              *)
(***************************************************************************)
EXTENDS Naturals, FiniteSets

CONSTANTS
    Runs,       \* run_id
    Targets,    \* sources that yield candidates
    Supporting, \* sources selected with them
    Companions, \* further pages that evidence research may acquire
    Contents,   \* what a page may show
    MaxRounds,  \* research rounds (MAX_RESEARCH_ROUNDS)
    MaxChanges, \* bound on the changes of pages
    MaxFaults,  \* bound on timeouts, killed processes and aborted requests
    None

Selected == Targets \cup Supporting
Sources == Selected \cup Companions

ASSUME SourcesAssumption ==
    Targets # {} /\ Targets \cap Supporting = {} /\ Selected \cap Companions = {}
ASSUME NoneAssumption == None \notin Runs /\ None \notin Contents
ASSUME BoundsAssumption ==
    MaxRounds \in Nat /\ MaxChanges \in Nat /\ MaxFaults \in Nat

VARIABLES
    page,      \* what each page shows
    snapshot,  \* source_snapshot: when each content was first captured, 0 if never
    parsed,    \* parsed_document: the contents parsed
    row,       \* ingestion_run
    request,   \* the transaction that registers each run
    item,      \* run_source_item
    draft,     \* model_execution: the content of each run's extraction artifacts
    candidate, \* normalized_candidate
    job,       \* the runner of each run
    late,      \* stages that go on although their runner gave them up
    clock,     \* fetched_at of the last fetch
    changes, faults

vars == <<page, snapshot, parsed, row, request, item, draft, candidate, job, late,
          clock, changes, faults>>
evidence == <<snapshot, parsed, item, draft, candidate>>

-----------------------------------------------------------------------------
(* Types *)

Stages == {"snapshot", "parse_chunk", "extraction", "normalization", "validation_routing"}

Row == [state : {"none", "started", "completed", "failed", "retried"}, partial : BOOLEAN,
        stage : Stages \cup {"source_collection"},
        retryOf : Runs \cup {None}, retriedBy : Runs \cup {None}]

\* captured: the content the snapshot stage of the run met.  doc: the content
\* of the parsed document.  ok: error_count = 0.
Item == [selected : Contents \cup {None}, captured : Contents \cup {None},
         doc : Contents \cup {None}, ok : BOOLEAN]

Candidate == [state : {"none", "draft", "auto_validated", "rejected", "approved"},
              content : Contents \cup {None}]

\* pc: the stage to begin, or another step.  working: its process has begun.
\* input, read, at: the sources it works on, what it read of them and when.
\* observed: the documents of the pages it is to render again.
\* again: sources to be parsed again whatever the capture before brings.
\* scope, sources, targets: included, successful and successful target sources.
\* extracted: the sources extracted.  round: research rounds begun.
\* tainted: sources whose run_source_item a research stage may have left without
\* its parsed document.
Steps == Stages \cup {"none", "research", "summarize", "promote", "launch", "fail"}
Ends == {"done", "failed", "unrecorded", "killed"}
Job == [pc : Steps \cup Ends, working : BOOLEAN, input : SUBSET Sources,
        read : [Sources -> Contents \cup {None}], at : Nat, again : SUBSET Sources,
        observed : [Sources -> Contents \cup {None}], scope : SUBSET Sources,
        sources : SUBSET Sources, targets : SUBSET Targets, extracted : SUBSET Sources,
        round : 0..MaxRounds, tainted : SUBSET Sources]

TypeOK ==
    /\ page \in [Sources -> Contents]
    /\ snapshot \in [Sources -> [Contents -> Nat]]
    /\ parsed \in [Sources -> SUBSET Contents]
    /\ row \in [Runs -> Row]
    /\ request \in [Runs -> {"none", "open", "committed", "aborted"}]
    /\ item \in [Runs -> [Sources -> Item]]
    /\ draft \in [Runs -> [Sources -> Contents \cup {None}]]
    /\ candidate \in [Runs -> [Targets -> Candidate]]
    /\ job \in [Runs -> Job]
    /\ late \in [Runs -> SUBSET Job]
    /\ clock \in Nat /\ changes \in 0..MaxChanges /\ faults \in 0..MaxFaults

NoRow == [state |-> "none", partial |-> FALSE, stage |-> "source_collection",
          retryOf |-> None, retriedBy |-> None]
NoItem == [selected |-> None, captured |-> None, doc |-> None, ok |-> FALSE]
Unread == [s \in Sources |-> None]
NoJob == [pc |-> "none", working |-> FALSE, input |-> {}, read |-> Unread, at |-> 0,
          again |-> {}, observed |-> Unread, scope |-> {}, sources |-> {}, targets |-> {}, extracted |-> {}, round |-> 0,
          tainted |-> {}]

Init ==
    /\ page \in [Sources -> Contents]
    /\ snapshot = [s \in Sources |-> [c \in Contents |-> 0]]
    /\ parsed = [s \in Sources |-> {}]
    /\ row = [r \in Runs |-> NoRow]
    /\ request = [r \in Runs |-> "none"]
    /\ item = [r \in Runs |-> [s \in Sources |-> NoItem]]
    /\ draft = [r \in Runs |-> [s \in Sources |-> None]]
    /\ candidate = [r \in Runs |-> [s \in Targets |-> [state |-> "none", content |-> None]]]
    /\ job = [r \in Runs |-> NoJob]
    /\ late = [r \in Runs |-> {}]
    /\ clock = 0 /\ changes = 0 /\ faults = 0

-----------------------------------------------------------------------------
(* Requests and retries *)

\* The row is there for other transactions.
Visible(r) == row[r].state # "none" /\ request[r] # "open"

RetryState(o) ==
    /\ row[o].state = "failed" \/ (row[o].state = "completed" /\ row[o].partial)
    /\ row[o].retriedBy = None

\* Mutant of Retryable: the type of the run is not looked at.
RetryableAnyType(o) == Visible(o) /\ RetryState(o)

\* describe_run_retry_action; run_type is the stage last written.
Retryable(o) == Visible(o) /\ RetryState(o) /\ row[o].stage = "source_collection"

\* Mutant of Register: the original is linked before the replacement is certain.
RegisterLinked(r, o) ==
    /\ request[r] = "none"
    /\ o # None => Retryable(o)
    /\ request' = [request EXCEPT ![r] = "open"]
    /\ row' = [row EXCEPT ![r] = [NoRow EXCEPT !.state = "started", !.retryOf = o],
                          ![o] = [@ EXCEPT !.state = "retried", !.retriedBy = r]]
    /\ job' = [job EXCEPT ![r] = [NoJob EXCEPT !.pc = "snapshot", !.input = Selected,
                                    !.scope = Selected, !.sources = Selected, !.targets = Targets]]
    /\ UNCHANGED <<page, evidence, late, clock, changes, faults>>

\* The request inserts the run and starts the runner, and commits later.
Register(r, o) ==
    /\ request[r] = "none"
    /\ o # None => Retryable(o)
    /\ request' = [request EXCEPT ![r] = "open"]
    /\ row' = [row EXCEPT ![r] = [NoRow EXCEPT !.state = "started", !.retryOf = o]]
    /\ job' = [job EXCEPT ![r] = [NoJob EXCEPT !.pc = "snapshot", !.input = Selected,
                                    !.scope = Selected, !.sources = Selected, !.targets = Targets]]
    /\ UNCHANGED <<page, evidence, late, clock, changes, faults>>

\* The conditional UPDATE at the end of retry_failed_run finds the original as
\* it was: the condition does not look at the type.
Superseded(o, r) ==
    IF RetryState(o)
    THEN [row[o] EXCEPT !.state = "retried", !.retriedBy = r]
    ELSE row[o]

CommitRequest(r) ==
    /\ request[r] = "open"
    /\ request' = [request EXCEPT ![r] = "committed"]
    /\ row' = IF row[r].retryOf = None THEN row
              ELSE [row EXCEPT ![row[r].retryOf] = Superseded(row[r].retryOf, r)]
    /\ UNCHANGED <<page, evidence, job, late, clock, changes, faults>>

\* run_retry_multiple_groups, a failure after the launch, or the death of the
\* server: the row is gone, the runner is not.
AbortRequest(r) ==
    /\ request[r] = "open"
    /\ faults < MaxFaults /\ faults' = faults + 1
    /\ request' = [request EXCEPT ![r] = "aborted"]
    /\ row' = [row EXCEPT ![r] = NoRow]
    /\ UNCHANGED <<page, evidence, job, late, clock, changes>>

-----------------------------------------------------------------------------
(* The runner, up to a stage *)

Goto(r, pc) == job' = [job EXCEPT ![r].pc = pc]

\* The stage inserts the row, or sets it to started again.
Entered(r, stage) == [row[r] EXCEPT !.state = "started", !.stage = stage]

\* load_latest_snapshots: of all runs, the content first captured last.
Latest(s) == IF \A c \in Contents : snapshot[s][c] = 0 THEN None
             ELSE CHOOSE c \in Contents : \A d \in Contents : snapshot[s][d] <= snapshot[s][c]

\* Mutant of Context: what was parsed last, whichever run selected it.
ContextLatest(r, s) == IF Latest(s) \in parsed[s] THEN Latest(s) ELSE None

\* load_latest_document_contexts: what the run selected, parsed without error.
Context(r, s) ==
    IF item[r][s].ok /\ item[r][s].doc = item[r][s].selected THEN item[r][s].doc ELSE None

\* What a stage reads when it begins; the snapshot stage fetches its pages.
ReadBy(r, stage, s) ==
    CASE stage = "snapshot" -> None
      [] stage = "parse_chunk" -> Latest(s)
      [] stage = "extraction" -> Context(r, s)
      [] stage = "normalization" -> draft[r][s]
      [] stage = "validation_routing" -> IF s \in Targets THEN candidate[r][s].content ELSE None

\* The INSERT waits for the request to end.  A source without input makes the
\* whole stage fail, after it has entered the row.
Begin(r) ==
    LET stage == job[r].pc
        read == [s \in Sources |-> IF s \in job[r].input THEN ReadBy(r, stage, s) ELSE None]
        complete == stage = "snapshot" \/ \A s \in job[r].input : read[s] # None
    IN  /\ stage \in Stages /\ ~job[r].working
        /\ request[r] # "open"
        /\ row' = [row EXCEPT ![r] = Entered(r, stage)]
        /\ job' = IF complete
                  THEN [job EXCEPT ![r].working = TRUE, ![r].read = read, ![r].at = 0]
                  ELSE [job EXCEPT ![r].pc = "fail"]
        /\ UNCHANGED <<page, evidence, request, late, clock, changes, faults>>

\* The pages are fetched some time between the beginning and the end.
Fetch(r) ==
    /\ job[r].pc = "snapshot" /\ job[r].working /\ job[r].at = 0
    /\ clock' = clock + 1
    /\ job' = [job EXCEPT ![r].at = clock + 1,
                   ![r].read = [s \in Sources |-> IF s \in job[r].input THEN page[s] ELSE None]]
    /\ UNCHANGED <<page, evidence, row, request, late, changes, faults>>

PageChanges(s) ==
    /\ changes < MaxChanges /\ changes' = changes + 1
    /\ \E c \in Contents \ {page[s]} : page' = [page EXCEPT ![s] = c]
    /\ UNCHANGED <<evidence, row, request, job, late, clock, faults>>

-----------------------------------------------------------------------------
(* What a stage persists: w is the stage's own record, ok the sources it       *)
(* succeeds for                                                                *)

InResearch(w) == w.round > 0 /\ w.pc \in {"snapshot", "parse_chunk"}

\* Mutant of Kept: a failed render overwrites what the run had selected.
KeptNever(r, w, s) == FALSE

\* A failed render keeps what the run had selected and parsed, if it is still what
\* the plan of the render was made for.
Kept(r, w, s) == w.observed[s] # None /\ Context(r, s) = w.observed[s]

CapturedItem(r, w, ok, s) ==
    IF s \in ok THEN [selected |-> w.read[s], captured |-> w.read[s], doc |-> None, ok |-> TRUE]
    ELSE IF Kept(r, w, s) THEN item[r][s] ELSE NoItem

ParsedItem(r, w, ok, s) ==
    [item[r][s] EXCEPT !.selected = w.read[s], !.ok = s \in ok,
                       !.doc = IF s \in ok THEN w.read[s] ELSE @]

\* The later stages write the item again: the snapshot they worked on, and the error.
WorkedItems(r, w, ok) ==
    [item EXCEPT ![r] = [s \in Sources |->
        IF s \in w.input THEN [item[r][s] EXCEPT !.selected = w.read[s], !.ok = s \in ok]
        ELSE item[r][s]]]

\* ON CONFLICT (snapshot_id) DO NOTHING: fetched_at stays that of the first capture.
SnapshotStage(r, w, ok) ==
    /\ snapshot' = [s \in Sources |->
           IF s \in ok /\ snapshot[s][w.read[s]] = 0
           THEN [snapshot[s] EXCEPT ![w.read[s]] = w.at] ELSE snapshot[s]]
    /\ item' = [item EXCEPT ![r] = [s \in Sources |->
           IF s \in w.input THEN CapturedItem(r, w, ok, s) ELSE item[r][s]]]
    /\ UNCHANGED <<parsed, draft, candidate>>

ParseStage(r, w, ok) ==
    /\ parsed' = [s \in Sources |-> IF s \in ok THEN parsed[s] \cup {w.read[s]} ELSE parsed[s]]
    /\ item' = [item EXCEPT ![r] = [s \in Sources |->
           IF s \in w.input THEN ParsedItem(r, w, ok, s) ELSE item[r][s]]]
    /\ UNCHANGED <<snapshot, draft, candidate>>

ExtractionStage(r, w, ok) ==
    /\ draft' = [draft EXCEPT ![r] = [s \in Sources |->
           IF s \in ok THEN w.read[s] ELSE draft[r][s]]]
    /\ item' = WorkedItems(r, w, ok)
    /\ UNCHANGED <<snapshot, parsed, candidate>>

NormalizationStage(r, w, ok) ==
    /\ candidate' = [candidate EXCEPT ![r] = [s \in Targets |->
           IF s \in ok THEN [state |-> "draft", content |-> w.read[s]] ELSE candidate[r][s]]]
    /\ item' = WorkedItems(r, w, ok)
    /\ UNCHANGED <<snapshot, parsed, draft>>

ValidationStage(r, w, ok) ==
    /\ \E accepted \in SUBSET ok :
        candidate' = [candidate EXCEPT ![r] = [s \in Targets |->
            IF s \in ok
            THEN [candidate[r][s] EXCEPT
                      !.state = IF s \in accepted THEN "auto_validated" ELSE "rejected"]
            ELSE candidate[r][s]]]
    /\ item' = WorkedItems(r, w, ok)
    /\ UNCHANGED <<snapshot, parsed, draft>>

Writes(r, w, ok) ==
    /\ w.pc = "snapshot" => SnapshotStage(r, w, ok)
    /\ w.pc = "parse_chunk" => ParseStage(r, w, ok)
    /\ w.pc = "extraction" => ExtractionStage(r, w, ok)
    /\ w.pc = "normalization" => NormalizationStage(r, w, ok)
    /\ w.pc = "validation_routing" => ValidationStage(r, w, ok)

\* Every stage ends with an outcome for the run as if it were the last.
Left(r, w, ok) == [row[r] EXCEPT !.state = IF ok = {} THEN "failed" ELSE "completed",
                                 !.partial = ok # w.input, !.stage = w.pc]

Ready(w) == w.working /\ (w.pc = "snapshot" => w.at > 0)

-----------------------------------------------------------------------------
(* The runner, after a stage *)

Idle(r) == [job[r] EXCEPT !.working = FALSE, !.read = Unread, !.at = 0, !.again = {},
                           !.observed = Unread]
Fails(r) == [Idle(r) EXCEPT !.pc = "fail"]
NextStage(r, pc, input) == [Idle(r) EXCEPT !.pc = pc, !.input = input]

AfterSnapshot(r, ok) ==
    LET targets == Targets \cap ok
    IN  IF targets = {} THEN Fails(r)
        ELSE [NextStage(r, "parse_chunk", ok) EXCEPT !.sources = ok, !.targets = targets]

AfterParse(r, ok) ==
    LET targets == job[r].targets \cap ok
    IN  IF targets = {} THEN Fails(r)
        ELSE [NextStage(r, "research", {}) EXCEPT !.sources = ok, !.targets = targets]

\* The sources captured again are parsed again, and so are those whose parser is
\* out of date; a research stage that fails ends its round only.
AfterResearchSnapshot(r, ok) ==
    LET parse == ok \cup job[r].again
    IN  NextStage(r, IF parse = {} THEN "research" ELSE "parse_chunk", parse)
AfterResearchParse(r, ok) ==
    [NextStage(r, "research", {}) EXCEPT !.sources = @ \cup ok,
        !.tainted = (@ \cup job[r].input) \ (ok \ UNION {w.input : w \in late[r]})]

AfterExtraction(r, ok) ==
    LET targets == job[r].targets \cap ok
    IN  IF targets = {} THEN Fails(r)
        ELSE [NextStage(r, "normalization", targets) EXCEPT !.extracted = ok,
                                                             !.targets = targets]

AfterNormalization(r, ok) ==
    IF ok = {} THEN Fails(r)
    ELSE [NextStage(r, "validation_routing", ok) EXCEPT !.targets = ok]

AfterValidation(r, ok) == [NextStage(r, "summarize", {}) EXCEPT !.targets = ok]

After(r, ok) ==
    CASE job[r].pc = "snapshot" /\ ~InResearch(job[r]) -> AfterSnapshot(r, ok)
      [] job[r].pc = "snapshot" /\ InResearch(job[r]) -> AfterResearchSnapshot(r, ok)
      [] job[r].pc = "parse_chunk" /\ ~InResearch(job[r]) -> AfterParse(r, ok)
      [] job[r].pc = "parse_chunk" /\ InResearch(job[r]) -> AfterResearchParse(r, ok)
      [] job[r].pc = "extraction" -> AfterExtraction(r, ok)
      [] job[r].pc = "normalization" -> AfterNormalization(r, ok)
      [] job[r].pc = "validation_routing" -> AfterValidation(r, ok)

Persist(r) ==
    /\ Ready(job[r])
    /\ \E ok \in SUBSET job[r].input :
        /\ Writes(r, job[r], ok)
        /\ row' = [row EXCEPT ![r] = Left(r, job[r], ok)]
        /\ job' = [job EXCEPT ![r] = After(r, ok)]
    /\ UNCHANGED <<page, request, late, clock, changes, faults>>

\* A stage that exits with an error, or could not be started.
GivenUp(r) == IF InResearch(job[r])
              THEN [NextStage(r, "research", {}) EXCEPT !.tainted = @ \cup job[r].input]
              ELSE Fails(r)

StageFails(r) ==
    /\ job[r].pc \in Stages
    /\ job' = [job EXCEPT ![r] = GivenUp(r)]
    /\ UNCHANGED <<page, evidence, row, request, late, clock, changes, faults>>

\* A stage that takes too long: its process tree is not killed, only its root.
StageTimesOut(r) ==
    /\ Ready(job[r])
    /\ faults < MaxFaults /\ faults' = faults + 1
    /\ late' = [late EXCEPT ![r] = @ \cup {job[r]}]
    /\ job' = [job EXCEPT ![r] = GivenUp(r)]
    /\ UNCHANGED <<page, evidence, row, request, clock, changes>>

LateWrite(r) ==
    /\ \E w \in late[r] :
        /\ \E ok \in SUBSET w.input :
            /\ Writes(r, w, ok)
            /\ row' = [row EXCEPT ![r] = Left(r, w, ok)]
        /\ late' = [late EXCEPT ![r] = @ \ {w}]
    /\ UNCHANGED <<page, request, job, clock, changes, faults>>

\* The runner is killed; the stage it waits for goes on.  tainted is kept, and
\* grows, as after any stage that was given up.
RunnerDies(r) ==
    /\ job[r].pc \in Steps \ {"none"}
    /\ faults < MaxFaults /\ faults' = faults + 1
    /\ late' = IF Ready(job[r]) THEN [late EXCEPT ![r] = @ \cup {job[r]}] ELSE late
    /\ job' = [job EXCEPT ![r] = [NoJob EXCEPT !.pc = "killed", !.tainted = GivenUp(r).tainted]]
    /\ UNCHANGED <<page, evidence, row, request, clock, changes>>

-----------------------------------------------------------------------------
(* Evidence research *)

\* Nothing more is wanted, or the budget is spent.
ResearchEnds(r) ==
    /\ job[r].pc = "research"
    /\ job' = [job EXCEPT ![r] = NextStage(r, "extraction", job[r].sources)]
    /\ UNCHANGED <<page, evidence, row, request, late, clock, changes, faults>>

Planned(r, capture, again) ==
    [NextStage(r, IF capture = {} THEN "parse_chunk" ELSE "snapshot",
                  IF capture = {} THEN again ELSE capture) EXCEPT
        !.round = @ + 1, !.again = again, !.scope = @ \cup capture,
        !.observed = [s \in Sources |-> IF s \in capture THEN Context(r, s) ELSE None]]

\* Mutant of Acquire: rounds that only parse are not held to the budget.
AcquireUncounted(r) ==
    /\ job[r].pc = "research"
    /\ \E capture \in SUBSET (job[r].sources \cup (Companions \ job[r].scope)),
          again \in SUBSET job[r].sources :
        /\ capture # {} \/ again # {}
        /\ capture # {} => job[r].round < MaxRounds
        /\ job' = [job EXCEPT ![r] = Planned(r, capture, again)]
    /\ UNCHANGED <<page, evidence, row, request, late, clock, changes, faults>>

\* New companions and pages to render again are captured, and pages parsed by an
\* older version are parsed again.
Acquire(r) ==
    /\ job[r].pc = "research"
    /\ job[r].round < MaxRounds
    /\ \E capture \in SUBSET (job[r].sources \cup (Companions \ job[r].scope)),
          again \in SUBSET job[r].sources :
        /\ capture # {} \/ again # {}
        /\ job' = [job EXCEPT ![r] = Planned(r, capture, again)]
    /\ UNCHANGED <<page, evidence, row, request, late, clock, changes, faults>>

-----------------------------------------------------------------------------
(* The end of a run *)

\* Mutant of Successful: what the last stage was given counts as the scope.
SuccessfulOfLast(r) == job[r].scope \ (job[r].extracted \ job[r].targets)

\* _build_end_to_end_source_summary
Successful(r) == ((job[r].scope \ Targets) \cap job[r].extracted) \cup job[r].targets

Summarize(r) ==
    /\ job[r].pc = "summarize"
    /\ row' = [row EXCEPT ![r].state = IF Successful(r) = {} THEN "failed" ELSE "completed",
                          ![r].partial = Successful(r) # job[r].scope]
    /\ Goto(r, "promote")
    /\ UNCHANGED <<page, evidence, request, late, clock, changes, faults>>

\* promote_auto_validated_candidates leaves alone what another promotion holds (SKIP
\* LOCKED), what is beyond its LIMIT, and what has no current accuracy receipt.
Promote(r) ==
    /\ job[r].pc = "promote"
    /\ \E decided \in SUBSET {s \in Targets : candidate[r][s].state = "auto_validated"} :
        \E approved \in SUBSET decided :
            candidate' = [candidate EXCEPT ![r] = [s \in Targets |->
                IF s \notin decided THEN candidate[r][s]
                ELSE [candidate[r][s] EXCEPT
                          !.state = IF s \in approved THEN "approved" ELSE "rejected"]]]
    /\ Goto(r, "launch")
    /\ UNCHANGED <<page, snapshot, parsed, item, draft, row, request, late, clock,
                   changes, faults>>

\* The supersession of reviews or the promotion raises, or the refresh runner cannot be started after it.
EndFails(r) ==
    /\ \/ job[r].pc \in {"summarize", "promote"}
       \/ (job[r].pc = "launch" /\ \E s \in Targets : candidate[r][s].state = "approved")
    /\ Goto(r, "fail")
    /\ UNCHANGED <<page, evidence, row, request, late, clock, changes, faults>>

Launch(r) ==
    /\ job[r].pc = "launch"
    /\ Goto(r, "done")
    /\ UNCHANGED <<page, evidence, row, request, late, clock, changes, faults>>

\* Mutant of MarkFailed: the failure is logged only.
MarkFailedUnwritten(r) ==
    /\ job[r].pc = "fail"
    /\ Goto(r, "failed")
    /\ UNCHANGED <<page, evidence, row, request, late, clock, changes, faults>>

\* _mark_run_failed updates the row if it can see it.
MarkFailed(r) ==
    /\ job[r].pc = "fail"
    /\ IF Visible(r)
       THEN /\ row' = [row EXCEPT ![r].state = "failed", ![r].partial = TRUE,
                                  ![r].stage = "source_collection"]
            /\ Goto(r, "failed")
       ELSE row' = row /\ Goto(r, "unrecorded")
    /\ UNCHANGED <<page, evidence, request, late, clock, changes, faults>>

-----------------------------------------------------------------------------
(* Specification *)

Runner(r) ==
    \/ Begin(r) \/ Fetch(r) \/ Persist(r) \/ StageFails(r)
    \/ ResearchEnds(r) \/ Acquire(r)
    \/ Summarize(r) \/ Promote(r) \/ EndFails(r) \/ Launch(r) \/ MarkFailed(r)

Next ==
    \/ \E r \in Runs, o \in Runs \cup {None} : Register(r, o)
    \/ \E r \in Runs : CommitRequest(r) \/ AbortRequest(r)
    \/ \E r \in Runs : Runner(r)
    \/ \E r \in Runs : StageTimesOut(r) \/ LateWrite(r) \/ RunnerDies(r)
    \/ \E s \in Sources : PageChanges(s)

Spec == Init /\ [][Next]_vars

\* A request ends, and a runner goes on until it ends or is killed.
FairSpec ==
    /\ Spec
    /\ \A r \in Runs : WF_vars(CommitRequest(r)) /\ WF_vars(Runner(r))

-----------------------------------------------------------------------------
(* Properties *)

Ended(r) == job[r].pc \in Ends

\* A run that a retry has replaced is not in its runner's hands any more: the
\* stages pass the row through failed and through completed-and-partial while
\* they work, and a retry asked for then must not be let in (run_type).
ReplacedRunIsOver == \A r \in Runs : row[r].retriedBy # None => Ended(r)

\* The link to the next attempt is the inverse of the link back, and it is only
\* ever set by a request that committed.
RetryLinkSound ==
    \A o \in Runs : row[o].retriedBy # None =>
        /\ row[row[o].retriedBy].retryOf = o
        /\ request[row[o].retriedBy] = "committed"

\* A run that ends normally and clean has taken every source of its scope to the
\* stage it needs, research companions and supporting pages included, the targets
\* to a validated candidate: no source that was lost at an earlier stage is
\* forgotten in the summary.  Whether a validated candidate is then decided is a
\* question for CandidatePublication: a promotion may pass over it.  Left out are
\* rows that a late stage of a research round has written after the summary.
CleanRunIsComplete ==
    \A r \in Runs :
        /\ job[r].pc = "done" /\ row[r].stage = "validation_routing"
        /\ row[r].state = "completed" /\ ~row[r].partial
        => \A s \in job[r].scope :
            /\ draft[r][s] # None
            /\ s \in Targets => candidate[r][s].state \notin {"none", "draft"}

\* What was parsed stays usable for the extraction, whatever research does to
\* the same sources afterwards: a failed render does not cost the run the evidence
\* it had.  Left out are sources whose second parse failed or was given up.
ResearchKeepsEvidence ==
    \A r \in Runs : job[r].pc = "research" =>
        \A s \in job[r].sources \ job[r].tainted : Context(r, s) # None

\* The evidence of a run is of one piece: an extraction artifact and the candidate
\* made of it come from the snapshot that the run selected and parsed (where
\* normalization looks for the origin of its evidence), although other runs store
\* and parse newer snapshots of the page meanwhile.
OneSnapshotPerRun ==
    \A r \in Runs : job[r].tainted = {} =>
        /\ \A s \in Sources : draft[r][s] # None =>
            draft[r][s] = item[r][s].selected /\ draft[r][s] = item[r][s].doc
        /\ \A s \in Targets : candidate[r][s].content # None =>
            candidate[r][s].content = draft[r][s]

\* The worker's README has it that "the normal CLI binds parsing to the current
\* run's successful selected snapshot".
ParsesOwnSnapshot ==
    \A r \in Runs, s \in Sources : item[r][s].ok /\ item[r][s].doc # None =>
        item[r][s].selected = item[r][s].captured

\* A run that has started ends, unless its runner was killed or failed before
\* the request that registers the run had committed.
RunsSettle ==
    \A r \in Runs : row[r].state = "started" ~>
        (row[r].state # "started" /\ Ended(r)) \/ job[r].pc \in {"killed", "unrecorded"}

=============================================================================
