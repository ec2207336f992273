----------------------- MODULE SourceCollectionProofs -----------------------
(***************************************************************************)
(* Proofs about SourceCollection, for every value of its constants.        *)
(***************************************************************************)
EXTENDS SourceCollection, TLAPS

-----------------------------------------------------------------------------
(* Types *)

\* A stage under way is one of the stages, has read something of every source
\* it was given, and works on targets where only targets are worked on.
WorkOK(w) ==
    /\ w.working => w.pc \in Stages
    /\ Ready(w) => \A s \in w.input : w.read[s] \in Contents
    /\ w.pc \in {"normalization", "validation_routing"} => w.input \subseteq Targets

\* There is a content that was captured last.
LatestExists ==
    \A s \in Sources : \E c \in Contents : \A d \in Contents : snapshot[s][d] <= snapshot[s][c]

WorkTyped == \A r \in Runs : WorkOK(job[r]) /\ \A w \in late[r] : WorkOK(w) /\ Ready(w)

Shape == TypeOK /\ LatestExists /\ WorkTyped

LEMMA SourceSets == Targets \subseteq Sources /\ Supporting \subseteq Sources /\ Companions \subseteq Sources
                    /\ Selected \subseteq Sources
BY DEF Sources, Selected

LEMMA NoJobTyped == NoJob \in Job /\ WorkOK(NoJob) /\ ~NoJob.working
BY BoundsAssumption DEF NoJob, Job, Steps, Ends, Stages, Unread, WorkOK, Ready

LEMMA InitShape == Init => Shape
<1> SUFFICES ASSUME Init PROVE Shape
  OBVIOUS
<1>1. NoRow \in Row
  BY DEF NoRow, Row
<1>2. NoItem \in Item
  BY DEF NoItem, Item
<1>3. \E c \in Contents : TRUE
  BY SourcesAssumption, SourceSets DEF Init
<1>4. TypeOK
  BY <1>1, <1>2, NoJobTyped, BoundsAssumption DEF Init, TypeOK, Candidate
<1>5. LatestExists
  BY <1>3 DEF Init, LatestExists
<1>6. WorkTyped
  BY NoJobTyped DEF Init, WorkTyped
<1>7. QED
  BY <1>4, <1>5, <1>6 DEF Shape

\* What Shape says of one run.
LEMMA RunTyped ==
    ASSUME Shape, NEW r \in Runs
    PROVE  /\ job[r] \in Job /\ late[r] \subseteq Job /\ row[r] \in Row
           /\ item[r] \in [Sources -> Item] /\ draft[r] \in [Sources -> Contents \cup {None}]
           /\ candidate[r] \in [Targets -> Candidate]
           /\ WorkOK(job[r]) /\ \A w \in late[r] : WorkOK(w) /\ Ready(w) /\ w \in Job
BY DEF Shape, TypeOK, WorkTyped

\* What a stage reads.
LEMMA LatestTyped ==
    ASSUME Shape, NEW s \in Sources
    PROVE  Latest(s) \in Contents \cup {None}
BY DEF Shape, LatestExists, Latest

LEMMA ContextTyped ==
    ASSUME Shape, NEW r \in Runs, NEW s \in Sources
    PROVE  Context(r, s) \in Contents \cup {None}
<1>1. item[r][s] \in Item
  BY RunTyped
<1>2. QED
  BY <1>1 DEF Context, Item

LEMMA ReadByTyped ==
    ASSUME Shape, NEW r \in Runs, NEW s \in Sources, NEW stage \in Stages
    PROVE  ReadBy(r, stage, s) \in Contents \cup {None}
<1>1. draft[r][s] \in Contents \cup {None} /\ (s \in Targets => candidate[r][s].content \in Contents \cup {None})
  BY RunTyped DEF Candidate
<1>2. QED
  BY <1>1, LatestTyped, ContextTyped DEF ReadBy, Stages

\* Of what was captured before and a first capture, one is the last.
LEMMA LastCaptured ==
    ASSUME NEW a \in [Contents -> Nat], NEW new \in Contents, a[new] = 0, NEW n \in Nat,
           NEW c \in Contents, \A d \in Contents : a[d] <= a[c],
           NEW b, b = [a EXCEPT ![new] = n]
    PROVE  \E e \in Contents : \A d \in Contents : b[d] <= b[e]
<1>1. b[new] = n /\ \A d \in Contents \ {new} : b[d] = a[d]
  OBVIOUS
<1>2. \A d \in Contents : a[d] \in Nat
  OBVIOUS
<1>3. CASE a[c] <= n
  <2>1. \A d \in Contents : b[d] <= b[new]
    BY <1>1, <1>2, <1>3
  <2>2. QED
    BY <2>1
<1>4. CASE ~(a[c] <= n)
  <2>1. c # new
    BY <1>4
  <2>2. \A d \in Contents : b[d] <= b[c]
    BY <1>1, <1>2, <1>4, <2>1
  <2>3. QED
    BY <2>2
<1>5. QED
  BY <1>3, <1>4

\* An item that a stage writes.
LEMMA ItemsTyped ==
    ASSUME NEW it \in Item, NEW c \in Contents \cup {None}, NEW d \in Contents \cup {None}, NEW b \in BOOLEAN
    PROVE  /\ [it EXCEPT !.selected = c, !.ok = b] \in Item
           /\ [it EXCEPT !.selected = c, !.ok = b, !.doc = d] \in Item
           /\ it.doc \in Contents \cup {None}
BY DEF Item

\* What a stage writes.
LEMMA WritesShape ==
    ASSUME Shape, NEW r \in Runs, NEW w \in Job, WorkOK(w), Ready(w), NEW ok \in SUBSET w.input,
           Writes(r, w, ok)
    PROVE  /\ snapshot' \in [Sources -> [Contents -> Nat]] /\ LatestExists'
           /\ parsed' \in [Sources -> SUBSET Contents]
           /\ item' \in [Runs -> [Sources -> Item]]
           /\ draft' \in [Runs -> [Sources -> Contents \cup {None}]]
           /\ candidate' \in [Runs -> [Targets -> Candidate]]
<1> USE DEF Shape, TypeOK
<1>1. /\ w.input \subseteq Sources /\ w.at \in Nat /\ w.read \in [Sources -> Contents \cup {None}]
      /\ \A s \in w.input : w.read[s] \in Contents
      /\ w.pc \in Stages
  BY DEF Job, WorkOK, Ready
<1>2. LatestExists /\ \A s \in Sources : item[r][s] \in Item /\ snapshot[s] \in [Contents -> Nat]
  BY RunTyped
<1>3. \A its \in [Sources -> Item] : [item EXCEPT ![r] = its] \in [Runs -> [Sources -> Item]]
  OBVIOUS
<1>4. item' = WorkedItems(r, w, ok) => item' \in [Runs -> [Sources -> Item]]
  <2>1. \A s \in Sources : [item[r][s] EXCEPT !.selected = w.read[s], !.ok = s \in ok] \in Item
    <3> TAKE s \in Sources
    <3>1. item[r][s] \in Item /\ w.read[s] \in Contents \cup {None} /\ (s \in ok) \in BOOLEAN
      BY <1>1, <1>2
    <3>2. QED
      BY ZenonT(20), <3>1, ItemsTyped
  <2> DEFINE its == [s \in Sources |->
        IF s \in w.input THEN [item[r][s] EXCEPT !.selected = w.read[s], !.ok = s \in ok] ELSE item[r][s]]
  <2>2. its \in [Sources -> Item]
    BY <1>2, <2>1
  <2>3. WorkedItems(r, w, ok) = [item EXCEPT ![r] = its]
    BY DEF WorkedItems
  <2> HIDE DEF its
  <2>4. QED
    BY <1>3, <2>2, <2>3
<1>5. CASE w.pc = "snapshot"
  <2>1. SnapshotStage(r, w, ok)
    BY <1>5 DEF Writes
  <2>2. snapshot' \in [Sources -> [Contents -> Nat]]
    BY <1>1, <2>1 DEF SnapshotStage
  <2>3. LatestExists'
    <3> SUFFICES ASSUME NEW s \in Sources
                 PROVE  \E c \in Contents : \A d \in Contents : snapshot'[s][d] <= snapshot'[s][c]
      BY DEF LatestExists
    <3>1. PICK c \in Contents : \A d \in Contents : snapshot[s][d] <= snapshot[s][c]
      BY <1>2 DEF LatestExists
    <3>2. CASE snapshot'[s] = snapshot[s]
      BY <3>1, <3>2
    <3>3. CASE /\ w.read[s] \in Contents /\ snapshot[s][w.read[s]] = 0
               /\ snapshot'[s] = [snapshot[s] EXCEPT ![w.read[s]] = w.at]
      <4>1. snapshot[s] \in [Contents -> Nat] /\ w.at \in Nat
        BY <1>1, <1>2
      <4> PICK a : a = snapshot[s]
        OBVIOUS
      <4> PICK b : b = snapshot'[s]
        OBVIOUS
      <4> PICK new : new = w.read[s]
        OBVIOUS
      <4> PICK n : n = w.at
        OBVIOUS
      <4>2. /\ a \in [Contents -> Nat] /\ new \in Contents /\ a[new] = 0 /\ n \in Nat /\ b = [a EXCEPT ![new] = n]
            /\ \A d \in Contents : a[d] <= a[c]
        BY <3>1, <3>3, <4>1
      <4>3. \E e \in Contents : \A d \in Contents : b[d] <= b[e]
        <5> HIDE <3>1, <3>3
        <5>1. QED
          BY ONLY <4>2, LastCaptured, c \in Contents
      <4>4. QED
        BY <4>3
    <3>4. QED
      BY <1>1, <2>1, <3>2, <3>3 DEF SnapshotStage
  <2>4. item' \in [Runs -> [Sources -> Item]]
    <3>1. \A s \in Sources : CapturedItem(r, w, ok, s) \in Item
      BY <1>1, <1>2 DEF CapturedItem, NoItem, Item
    <3>2. QED
      BY <1>2, <1>3, <2>1, <3>1 DEF SnapshotStage
  <2>5. QED
    BY <2>1, <2>2, <2>3, <2>4 DEF SnapshotStage
<1>6. CASE w.pc = "parse_chunk"
  <2>1. ParseStage(r, w, ok)
    BY <1>6 DEF Writes
  <2>2. parsed' \in [Sources -> SUBSET Contents]
    BY <1>1, <2>1 DEF ParseStage
  <2>3. item' \in [Runs -> [Sources -> Item]]
    <3>1. ASSUME NEW s \in Sources
          PROVE  ParsedItem(r, w, ok, s) \in Item
      <4> DEFINE doc == IF s \in ok THEN w.read[s] ELSE item[r][s].doc
      <4>1. item[r][s] \in Item /\ w.read[s] \in Contents \cup {None} /\ (s \in ok) \in BOOLEAN
        BY <1>1, <1>2
      <4>2. doc \in Contents \cup {None}
        BY <4>1, ItemsTyped
      <4>3. ParsedItem(r, w, ok, s) = [item[r][s] EXCEPT !.selected = w.read[s], !.ok = s \in ok, !.doc = doc]
        BY DEF ParsedItem
      <4> HIDE DEF doc
      <4>4. [item[r][s] EXCEPT !.selected = w.read[s], !.ok = s \in ok, !.doc = doc] \in Item
        BY ZenonT(20), <4>1, <4>2, ItemsTyped
      <4>5. QED
        BY <4>3, <4>4
    <3>2. QED
      BY <1>2, <1>3, <2>1, <3>1 DEF ParseStage
  <2>4. QED
    BY <1>2, <2>1, <2>2, <2>3 DEF ParseStage, LatestExists
<1>7. CASE w.pc = "extraction"
  <2>1. ExtractionStage(r, w, ok)
    BY <1>7 DEF Writes
  <2>2. draft' \in [Runs -> [Sources -> Contents \cup {None}]]
    BY <1>1, <2>1 DEF ExtractionStage
  <2>3. QED
    BY <1>2, <1>4, <2>1, <2>2 DEF ExtractionStage, LatestExists
<1>8. CASE w.pc = "normalization"
  <2>1. NormalizationStage(r, w, ok)
    BY <1>8 DEF Writes
  <2>2. candidate' \in [Runs -> [Targets -> Candidate]]
    BY <1>1, <2>1 DEF NormalizationStage, Candidate
  <2>3. QED
    BY <1>2, <1>4, <2>1, <2>2 DEF NormalizationStage, LatestExists
<1>9. CASE w.pc = "validation_routing"
  <2>1. ValidationStage(r, w, ok)
    BY <1>9 DEF Writes
  <2>2. \A c \in Candidate, st \in {"auto_validated", "rejected"} : [c EXCEPT !.state = st] \in Candidate
    BY DEF Candidate
  <2> PICK accepted \in SUBSET ok :
        candidate' = [candidate EXCEPT ![r] = [s \in Targets |->
            IF s \in ok
            THEN [candidate[r][s] EXCEPT
                      !.state = IF s \in accepted THEN "auto_validated" ELSE "rejected"]
            ELSE candidate[r][s]]]
    BY <2>1 DEF ValidationStage
  <2> DEFINE cs == [s \in Targets |->
            IF s \in ok
            THEN [candidate[r][s] EXCEPT
                      !.state = IF s \in accepted THEN "auto_validated" ELSE "rejected"]
            ELSE candidate[r][s]]
  <2>5. cs \in [Targets -> Candidate]
    BY <2>2, RunTyped
  <2>6. candidate' = [candidate EXCEPT ![r] = cs]
    OBVIOUS
  <2> HIDE DEF cs
  <2>3. candidate' \in [Runs -> [Targets -> Candidate]]
    BY <2>5, <2>6
  <2>4. QED
    BY <1>2, <1>4, <2>1, <2>3 DEF ValidationStage, LatestExists
<1>10. QED
  BY <1>1, <1>5, <1>6, <1>7, <1>8, <1>9 DEF Stages

\* Two records of a runner that agree but for the stage, its input and what the
\* stage under way has read.
SameProgress(j, k) ==
    /\ j.scope = k.scope /\ j.sources = k.sources /\ j.targets = k.targets
    /\ j.extracted = k.extracted /\ j.round = k.round /\ j.tainted = k.tainted

LEMMA JobFields ==
    ASSUME NEW j \in Job
    PROVE  /\ j.pc \in Steps \cup Ends /\ j.working \in BOOLEAN /\ j.input \subseteq Sources
           /\ j.read \in [Sources -> Contents \cup {None}] /\ j.at \in Nat /\ j.again \subseteq Sources
           /\ j.observed \in [Sources -> Contents \cup {None}] /\ j.scope \subseteq Sources
           /\ j.sources \subseteq Sources /\ j.targets \subseteq Targets /\ j.extracted \subseteq Sources
           /\ j.round \in 0..MaxRounds /\ j.tainted \subseteq Sources
BY DEF Job

LEMMA UnreadTyped == Unread \in [Sources -> Contents \cup {None}]
BY DEF Unread

\* The runner between two stages.
LEMMA NextStageIs ==
    ASSUME Shape, NEW r \in Runs, NEW pc \in Steps \cup Ends, NEW input \in SUBSET Sources,
           NEW j, j = NextStage(r, pc, input)
    PROVE  /\ j \in Job /\ j.pc = pc /\ j.input = input /\ ~j.working
           /\ j.again = {} /\ j.observed = Unread
           /\ SameProgress(j, job[r])
<1>1. job[r] \in Job
  BY RunTyped
<1> DEFINE i == [job[r] EXCEPT !.working = FALSE, !.read = Unread, !.at = 0, !.again = {}, !.observed = Unread]
<1>2. /\ i \in Job /\ ~i.working /\ i.again = {} /\ i.observed = Unread /\ SameProgress(i, job[r])
  BY <1>1, UnreadTyped DEF Job, SameProgress
<1>3. j = [i EXCEPT !.pc = pc, !.input = input]
  BY DEF NextStage, Idle
<1> HIDE DEF i
<1>4. QED
  BY <1>2, <1>3 DEF Job, SameProgress

LEMMA FailsIs ==
    ASSUME Shape, NEW r \in Runs, NEW j, j = Fails(r)
    PROVE  j \in Job /\ j.pc = "fail" /\ ~j.working /\ SameProgress(j, job[r])
<1>1. job[r] \in Job
  BY RunTyped
<1> DEFINE i == [job[r] EXCEPT !.working = FALSE, !.read = Unread, !.at = 0, !.again = {}, !.observed = Unread]
<1>2. i \in Job /\ ~i.working /\ SameProgress(i, job[r])
  BY <1>1, UnreadTyped DEF Job, SameProgress
<1>3. j = [i EXCEPT !.pc = "fail"]
  BY DEF Fails, Idle
<1>4. "fail" \in Steps
  BY DEF Steps
<1> HIDE DEF i
<1>5. QED
  BY <1>2, <1>3, <1>4 DEF Job, SameProgress

\* The runner after each stage.
LEMMA AfterSnapshotIs ==
    ASSUME Shape, NEW r \in Runs, NEW ok \in SUBSET job[r].input, NEW j, j = AfterSnapshot(r, ok)
    PROVE  /\ j \in Job /\ ~j.working /\ j.tainted = job[r].tainted /\ j.round = job[r].round
           /\ j.pc = "fail" \/ (j.pc = "parse_chunk" /\ j.input = ok)
<1>1. ok \subseteq Sources /\ "parse_chunk" \in Steps
  BY RunTyped, JobFields DEF Steps, Stages
<1> DEFINE n == NextStage(r, "parse_chunk", ok)
           targets == Targets \cap ok
<1>2. n \in Job /\ n.pc = "parse_chunk" /\ n.input = ok /\ ~n.working /\ SameProgress(n, job[r])
  BY <1>1, NextStageIs
<1>3. CASE j = Fails(r)
  BY <1>3, FailsIs DEF SameProgress
<1>4. CASE j = [n EXCEPT !.sources = ok, !.targets = targets]
  <2>1. targets \subseteq Targets
    OBVIOUS
  <2> HIDE DEF n, targets
  <2>2. j \in Job
    BY <1>1, <1>2, <1>4, <2>1 DEF Job
  <2>3. j.working = n.working /\ j.tainted = n.tainted /\ j.round = n.round /\ j.pc = n.pc /\ j.input = n.input
    BY <1>2, <1>4 DEF Job
  <2>4. QED
    BY <1>2, <2>2, <2>3 DEF SameProgress
<1>5. QED
  BY <1>3, <1>4 DEF AfterSnapshot

LEMMA AfterParseIs ==
    ASSUME Shape, NEW r \in Runs, NEW ok \in SUBSET job[r].input, NEW j, j = AfterParse(r, ok)
    PROVE  /\ j \in Job /\ ~j.working /\ j.tainted = job[r].tainted
           /\ j.pc = "fail" \/ (j.pc = "research" /\ j.input = {} /\ j.sources = ok)
<1>1. ok \subseteq Sources /\ "research" \in Steps /\ job[r].targets \subseteq Targets
  BY RunTyped, JobFields DEF Steps, Stages
<1> DEFINE n == NextStage(r, "research", {})
           targets == job[r].targets \cap ok
<1>2. n \in Job /\ n.pc = "research" /\ n.input = {} /\ ~n.working /\ SameProgress(n, job[r])
  BY <1>1, NextStageIs
<1>3. CASE j = Fails(r)
  BY <1>3, FailsIs DEF SameProgress
<1>4. CASE j = [n EXCEPT !.sources = ok, !.targets = targets]
  <2>1. targets \subseteq Targets
    BY <1>1
  <2> HIDE DEF n, targets
  <2>2. j \in Job
    BY <1>1, <1>2, <1>4, <2>1 DEF Job
  <2>3. /\ j.working = n.working /\ j.tainted = n.tainted /\ j.pc = n.pc
        /\ j.input = n.input /\ j.sources = ok
    BY <1>2, <1>4 DEF Job
  <2>4. QED
    BY <1>2, <2>2, <2>3 DEF SameProgress
<1>5. QED
  BY <1>3, <1>4 DEF AfterParse

LEMMA AfterResearchSnapshotIs ==
    ASSUME Shape, NEW r \in Runs, NEW ok \in SUBSET job[r].input, NEW j, j = AfterResearchSnapshot(r, ok)
    PROVE  /\ j \in Job /\ ~j.working /\ SameProgress(j, job[r])
           /\ \/ j.pc = "research" /\ ok = {}
              \/ j.pc = "parse_chunk" /\ ok \subseteq j.input
<1>1. ok \cup job[r].again \in SUBSET Sources /\ {"research", "parse_chunk"} \subseteq Steps
  BY RunTyped, JobFields DEF Steps, Stages
<1>2. QED
  BY <1>1, NextStageIs DEF AfterResearchSnapshot

LEMMA AfterResearchParseIs ==
    ASSUME Shape, NEW r \in Runs, NEW ok \in SUBSET job[r].input, NEW j, j = AfterResearchParse(r, ok)
    PROVE  /\ j \in Job /\ ~j.working /\ j.pc = "research"
           /\ j.sources = job[r].sources \cup ok
           /\ j.tainted = (job[r].tainted \cup job[r].input) \ (ok \ UNION {w.input : w \in late[r]})
<1> DEFINE n == NextStage(r, "research", {})
           sources == job[r].sources \cup ok
           tainted == (job[r].tainted \cup job[r].input) \ (ok \ UNION {w.input : w \in late[r]})
<1>1. /\ "research" \in Steps /\ sources \subseteq Sources /\ tainted \subseteq Sources
  BY RunTyped, JobFields DEF Steps, Stages
<1>2. n \in Job /\ n.pc = "research" /\ ~n.working /\ SameProgress(n, job[r])
  BY <1>1, NextStageIs
<1>3. j = [n EXCEPT !.sources = sources, !.tainted = tainted]
  <2>1. n.sources = job[r].sources /\ n.tainted = job[r].tainted
    BY <1>2 DEF SameProgress
  <2>2. j = [n EXCEPT !.sources = n.sources \cup ok,
                      !.tainted = (n.tainted \cup job[r].input) \ (ok \ UNION {w.input : w \in late[r]})]
    BY <1>2 DEF AfterResearchParse, Job
  <2>3. QED
    BY <2>1, <2>2
<1> HIDE DEF n, sources, tainted
<1>4. j \in Job /\ ~j.working /\ j.pc = "research" /\ j.sources = sources /\ j.tainted = tainted
  BY <1>1, <1>2, <1>3 DEF Job
<1>5. QED
  BY <1>4 DEF sources, tainted

LEMMA AfterExtractionIs ==
    ASSUME Shape, NEW r \in Runs, NEW ok \in SUBSET job[r].input, NEW j, j = AfterExtraction(r, ok)
    PROVE  /\ j \in Job /\ ~j.working /\ j.tainted = job[r].tainted
           /\ \/ j.pc = "fail"
              \/ /\ j.pc = "normalization" /\ j.extracted = ok /\ j.scope = job[r].scope
                 /\ j.targets = job[r].targets \cap ok /\ j.input = j.targets
<1> DEFINE targets == job[r].targets \cap ok
           n == NextStage(r, "normalization", targets)
<1>1. ok \subseteq Sources /\ "normalization" \in Steps /\ targets \subseteq Targets /\ targets \subseteq Sources
  BY RunTyped, JobFields, SourceSets DEF Steps, Stages
<1>2. n \in Job /\ n.pc = "normalization" /\ n.input = targets /\ ~n.working /\ SameProgress(n, job[r])
  BY <1>1, NextStageIs
<1>3. CASE j = Fails(r)
  BY <1>3, FailsIs DEF SameProgress
<1>4. CASE j = [n EXCEPT !.extracted = ok, !.targets = targets]
  <2> HIDE DEF n, targets
  <2>1. j \in Job /\ ~j.working /\ j.tainted = job[r].tainted /\ j.pc = "normalization" /\ j.extracted = ok
        /\ j.scope = job[r].scope /\ j.targets = targets /\ j.input = targets
    BY <1>1, <1>2, <1>4 DEF Job, SameProgress
  <2>2. QED
    BY <2>1 DEF targets
<1>5. QED
  BY <1>3, <1>4 DEF AfterExtraction

LEMMA AfterNormalizationIs ==
    ASSUME Shape, NEW r \in Runs, NEW ok \in SUBSET job[r].input, job[r].input \subseteq Targets,
           NEW j, j = AfterNormalization(r, ok)
    PROVE  /\ j \in Job /\ ~j.working /\ j.tainted = job[r].tainted
           /\ \/ j.pc = "fail"
              \/ /\ j.pc = "validation_routing" /\ j.extracted = job[r].extracted /\ j.scope = job[r].scope
                 /\ j.targets = ok /\ j.input = ok
<1>1. ok \subseteq Sources /\ ok \subseteq Targets /\ "validation_routing" \in Steps
  BY RunTyped, JobFields DEF Steps, Stages
<1> DEFINE n == NextStage(r, "validation_routing", ok)
<1>2. n \in Job /\ n.pc = "validation_routing" /\ n.input = ok /\ ~n.working /\ SameProgress(n, job[r])
  BY <1>1, NextStageIs
<1>3. CASE j = Fails(r)
  BY <1>3, FailsIs DEF SameProgress
<1>4. CASE j = [n EXCEPT !.targets = ok]
  <2> HIDE DEF n
  <2>1. QED
    BY <1>1, <1>2, <1>4 DEF Job, SameProgress
<1>5. QED
  BY <1>3, <1>4 DEF AfterNormalization

LEMMA AfterValidationIs ==
    ASSUME Shape, NEW r \in Runs, NEW ok \in SUBSET job[r].input, job[r].input \subseteq Targets,
           NEW j, j = AfterValidation(r, ok)
    PROVE  /\ j \in Job /\ ~j.working /\ j.tainted = job[r].tainted
           /\ j.pc = "summarize" /\ j.extracted = job[r].extracted /\ j.scope = job[r].scope /\ j.targets = ok
<1>1. ok \subseteq Targets /\ "summarize" \in Steps
  BY DEF Steps
<1> DEFINE n == NextStage(r, "summarize", {})
<1>2. n \in Job /\ n.pc = "summarize" /\ ~n.working /\ SameProgress(n, job[r])
  BY <1>1, NextStageIs
<1>3. j = [n EXCEPT !.targets = ok]
  BY DEF AfterValidation
<1> HIDE DEF n
<1>4. QED
  BY <1>1, <1>2, <1>3 DEF Job, SameProgress

\* A stage that is given up.
LEMMA GivenUpIs ==
    ASSUME Shape, NEW r \in Runs, NEW j, j = GivenUp(r)
    PROVE  /\ j \in Job /\ ~j.working
           /\ IF InResearch(job[r])
              THEN /\ j.pc = "research" /\ j.sources = job[r].sources
                   /\ j.tainted = job[r].tainted \cup job[r].input
              ELSE j.pc = "fail" /\ j.tainted = job[r].tainted
<1> DEFINE n == NextStage(r, "research", {})
           tainted == job[r].tainted \cup job[r].input
<1>1. "research" \in Steps /\ tainted \subseteq Sources
  BY RunTyped, JobFields DEF Steps
<1>2. n \in Job /\ n.pc = "research" /\ ~n.working /\ SameProgress(n, job[r])
  BY <1>1, NextStageIs
<1>3. CASE ~InResearch(job[r])
  BY <1>3, FailsIs DEF GivenUp, SameProgress
<1>4. CASE InResearch(job[r])
  <2>1. j = [n EXCEPT !.tainted = n.tainted \cup job[r].input]
    BY <1>2, <1>4 DEF GivenUp, Job
  <2>2. j = [n EXCEPT !.tainted = tainted]
    BY <1>2, <2>1 DEF SameProgress
  <2> HIDE DEF n, tainted
  <2>3. j \in Job /\ ~j.working /\ j.pc = "research" /\ j.sources = job[r].sources /\ j.tainted = tainted
    BY <1>1, <1>2, <2>2 DEF Job, SameProgress
  <2>4. QED
    BY <1>4, <2>3 DEF tainted
<1>5. QED
  BY <1>3, <1>4

\* A research round that is planned.
LEMMA PlannedIs ==
    ASSUME Shape, NEW r \in Runs, NEW capture \in SUBSET Sources, NEW again \in SUBSET Sources,
           job[r].round < MaxRounds, NEW j, j = Planned(r, capture, again)
    PROVE  /\ j \in Job /\ ~j.working /\ j.tainted = job[r].tainted /\ j.sources = job[r].sources
           /\ j.round > 0
           /\ \/ j.pc = "parse_chunk"
              \/ /\ j.pc = "snapshot" /\ j.input = capture
                 /\ \A s \in capture : j.observed[s] = Context(r, s)
<1> DEFINE pc == IF capture = {} THEN "parse_chunk" ELSE "snapshot"
           input == IF capture = {} THEN again ELSE capture
           n == NextStage(r, pc, input)
           scope == job[r].scope \cup capture
           observed == [s \in Sources |-> IF s \in capture THEN Context(r, s) ELSE None]
<1>1. /\ pc \in Steps /\ pc \in {"parse_chunk", "snapshot"} /\ input \in SUBSET Sources /\ scope \in SUBSET Sources
      /\ pc = "snapshot" => input = capture
  BY RunTyped, JobFields DEF Steps, Stages
<1>2. n \in Job /\ n.pc = pc /\ n.input = input /\ ~n.working /\ SameProgress(n, job[r])
  BY <1>1, NextStageIs
<1>3. observed \in [Sources -> Contents \cup {None}] /\ \A s \in capture : observed[s] = Context(r, s)
  BY ContextTyped
<1>4. job[r].round + 1 \in 0..MaxRounds /\ job[r].round + 1 > 0
  BY RunTyped, JobFields, BoundsAssumption
<1>5. j = [n EXCEPT !.round = job[r].round + 1, !.again = again, !.scope = scope, !.observed = observed]
  BY <1>2 DEF Planned, SameProgress, Job
<1> HIDE DEF pc, input, n, scope, observed
<1> DEFINE round == job[r].round + 1
<1>6. /\ round \in 0..MaxRounds /\ again \in SUBSET Sources
      /\ j = [n EXCEPT !.round = round, !.again = again, !.scope = scope, !.observed = observed]
  BY <1>4, <1>5
<1>7. round > 0
  BY <1>4
<1> HIDE DEF round
<1>8. j \in Job
  BY <1>1, <1>2, <1>3, <1>6 DEF Job
<1>9. j.working = n.working /\ j.tainted = n.tainted /\ j.sources = n.sources /\ j.pc = n.pc /\ j.input = n.input
  BY <1>2, <1>6 DEF Job
<1>10. j.round = round /\ j.observed = observed
  BY <1>2, <1>6 DEF Job
<1>11. QED
  BY <1>1, <1>2, <1>3, <1>7, <1>8, <1>9, <1>10 DEF SameProgress

-----------------------------------------------------------------------------
(* Every action leaves the state well formed *)

\* A runner that is between stages has nothing under way.
LEMMA BetweenIsOK ==
    ASSUME NEW j \in Job, ~j.working, j.pc \in {"normalization", "validation_routing"} => j.input \subseteq Targets
    PROVE  WorkOK(j)
BY DEF WorkOK, Ready

\* The rows of the runners, when one of them moves.
LEMMA JobsShape ==
    ASSUME Shape, NEW r \in Runs, NEW j \in Job, WorkOK(j), job' = [job EXCEPT ![r] = j],
           \/ late' = late
           \/ Ready(job[r]) /\ late' = [late EXCEPT ![r] = @ \cup {job[r]}]
    PROVE  job' \in [Runs -> Job] /\ late' \in [Runs -> SUBSET Job] /\ WorkTyped'
<1>1. job \in [Runs -> Job] /\ late \in [Runs -> SUBSET Job] /\ WorkTyped
  BY DEF Shape, TypeOK
<1>2. job' \in [Runs -> Job] /\ \A q \in Runs : job'[q] = (IF q = r THEN j ELSE job[q])
  BY <1>1
<1>3. late' \in [Runs -> SUBSET Job]
  BY <1>1
<1>4. ASSUME NEW q \in Runs, NEW w \in late'[q]
      PROVE  WorkOK(w) /\ Ready(w)
  <2>1. w \in late[q] \/ (q = r /\ Ready(job[r]) /\ w = job[r])
    BY <1>1, <1>4
  <2>2. QED
    BY <1>1, <2>1 DEF WorkTyped
<1>5. \A q \in Runs : WorkOK(job'[q])
  BY <1>1, <1>2 DEF WorkTyped
<1>6. QED
  BY <1>2, <1>3, <1>4, <1>5 DEF WorkTyped

\* A change of the runner's step only.
LEMMA GotoIs ==
    ASSUME Shape, NEW r \in Runs, NEW pc \in (Steps \cup Ends) \ {"normalization", "validation_routing"},
           ~job[r].working, NEW j, j = [job[r] EXCEPT !.pc = pc]
    PROVE  j \in Job /\ WorkOK(j) /\ j.pc = pc /\ ~j.working /\ SameProgress(j, job[r])
<1>1. job[r] \in Job
  BY RunTyped
<1>2. j \in Job /\ j.pc = pc /\ ~j.working /\ SameProgress(j, job[r])
  BY <1>1 DEF Job, SameProgress
<1>3. QED
  BY <1>2, BetweenIsOK

LEMMA GotoJob ==
    ASSUME Shape, NEW r \in Runs, NEW pc, Goto(r, pc)
    PROVE  job' = [job EXCEPT ![r] = [job[r] EXCEPT !.pc = pc]]
BY DEF Goto, Shape, TypeOK

\* A stage that works is one of the stages.
LEMMA WorkingInStage ==
    ASSUME Shape, NEW r \in Runs, job[r].working
    PROVE  job[r].pc \in Stages
BY RunTyped DEF WorkOK

\* The stage that begins: it works, or the runner fails.
LEMMA BeginIs ==
    ASSUME Shape, NEW r \in Runs, Begin(r)
    PROVE  \E j \in Job :
              /\ job' = [job EXCEPT ![r] = j]
              /\ WorkOK(j) /\ SameProgress(j, job[r]) /\ j.input = job[r].input /\ j.observed = job[r].observed
              /\ \/ /\ j.pc = "fail" /\ ~j.working
                    /\ job[r].pc # "snapshot" /\ \E s \in job[r].input : ReadBy(r, job[r].pc, s) = None
                 \/ /\ j.pc = job[r].pc /\ j.working
                    /\ \A s \in j.input : j.read[s] = ReadBy(r, j.pc, s)
                    /\ j.pc # "snapshot" => \A s \in j.input : j.read[s] # None
<1> DEFINE stage == job[r].pc
           read == [s \in Sources |-> IF s \in job[r].input THEN ReadBy(r, stage, s) ELSE None]
           complete == stage = "snapshot" \/ \A s \in job[r].input : read[s] # None
           works == [job[r] EXCEPT !.working = TRUE, !.read = read, !.at = 0]
           fails == [job[r] EXCEPT !.pc = "fail"]
<1>1. job[r] \in Job /\ job[r].input \subseteq Sources /\ WorkOK(job[r]) /\ stage \in Stages /\ ~job[r].working
  BY RunTyped, JobFields DEF Begin
<1>2. read \in [Sources -> Contents \cup {None}] /\ \A s \in job[r].input : read[s] = ReadBy(r, stage, s)
  BY <1>1, ReadByTyped
<1>3. CASE complete
  <2>1. job' = [job EXCEPT ![r] = works]
    BY <1>3 DEF Begin
  <2> HIDE DEF read
  <2>2. works \in Job /\ works.working /\ works.pc = stage /\ works.input = job[r].input /\ works.read = read
        /\ works.at = 0 /\ works.observed = job[r].observed /\ SameProgress(works, job[r])
    BY <1>1, <1>2 DEF Job, SameProgress
  <2>3. stage # "snapshot" => \A s \in job[r].input : read[s] \in Contents /\ read[s] # None
    BY <1>1, <1>2, <1>3
  <2> HIDE DEF works
  <2>4. WorkOK(works)
    BY <1>1, <2>2, <2>3 DEF WorkOK, Ready
  <2>5. \A s \in works.input : works.read[s] = ReadBy(r, works.pc, s)
    BY <1>2, <2>2
  <2>6. works.pc # "snapshot" => \A s \in works.input : works.read[s] # None
    BY <2>2, <2>3
  <2>7. works.pc = job[r].pc
    BY <2>2
  <2> HIDE DEF stage, complete
  <2>8. QED
    BY <2>1, <2>2, <2>4, <2>5, <2>6, <2>7
<1>4. CASE ~complete
  <2>1. job' = [job EXCEPT ![r] = fails]
    BY <1>4 DEF Begin, Shape, TypeOK
  <2>2. fails \in Job /\ WorkOK(fails) /\ fails.pc = "fail" /\ ~fails.working /\ SameProgress(fails, job[r])
    BY <1>1, GotoIs DEF Steps
  <2>3. fails.input = job[r].input /\ fails.observed = job[r].observed
    BY <1>1 DEF Job
  <2>4. stage # "snapshot" /\ \E s \in job[r].input : ReadBy(r, stage, s) = None
    BY <1>2, <1>4
  <2> HIDE DEF fails
  <2>5. QED
    BY <2>1, <2>2, <2>3, <2>4
<1>5. QED
  BY <1>3, <1>4

\* The stage that fetches.
LEMMA FetchIs ==
    ASSUME Shape, NEW r \in Runs, Fetch(r)
    PROVE  \E j \in Job :
              /\ job' = [job EXCEPT ![r] = j]
              /\ WorkOK(j) /\ SameProgress(j, job[r]) /\ j.input = job[r].input /\ j.observed = job[r].observed
              /\ j.pc = "snapshot" /\ j.working
<1> DEFINE read == [s \in Sources |-> IF s \in job[r].input THEN page[s] ELSE None]
           j == [job[r] EXCEPT !.at = clock + 1, !.read = read]
<1>1. job[r] \in Job /\ job[r].input \subseteq Sources /\ job[r].pc = "snapshot" /\ job[r].working
  BY RunTyped, JobFields DEF Fetch
<1>2. page \in [Sources -> Contents] /\ clock + 1 \in Nat
  BY DEF Shape, TypeOK
<1>3. read \in [Sources -> Contents \cup {None}] /\ \A s \in job[r].input : read[s] \in Contents
  BY <1>1, <1>2
<1>4. job' = [job EXCEPT ![r] = j]
  BY DEF Fetch
<1> HIDE DEF read
<1>5. j \in Job /\ j.working /\ j.pc = "snapshot" /\ j.input = job[r].input /\ j.read = read
      /\ j.observed = job[r].observed /\ SameProgress(j, job[r])
  BY <1>1, <1>2, <1>3 DEF Job, SameProgress
<1> HIDE DEF j
<1>6. WorkOK(j)
  BY <1>3, <1>5 DEF WorkOK, Ready, Stages
<1>7. QED
  BY <1>4, <1>5, <1>6

\* The stage that ends.
LEMMA AfterIs ==
    ASSUME Shape, NEW r \in Runs, job[r].pc \in Stages, NEW ok \in SUBSET job[r].input
    PROVE  After(r, ok) \in Job /\ WorkOK(After(r, ok)) /\ ~After(r, ok).working
<1>1. job[r].pc \in {"normalization", "validation_routing"} => job[r].input \subseteq Targets
  BY RunTyped DEF WorkOK
<1>2. job[r].targets \subseteq Targets
  BY RunTyped, JobFields
<1> DEFINE j == After(r, ok)
<1>3. CASE job[r].pc = "snapshot" /\ ~InResearch(job[r])
  <2>1. j = AfterSnapshot(r, ok)
    BY <1>3 DEF After
  <2> HIDE DEF j
  <2>2. QED
    BY <2>1, AfterSnapshotIs, BetweenIsOK DEF j
<1>4. CASE job[r].pc = "snapshot" /\ InResearch(job[r])
  <2>1. j = AfterResearchSnapshot(r, ok)
    BY <1>4 DEF After
  <2> HIDE DEF j
  <2>2. QED
    BY <2>1, AfterResearchSnapshotIs, BetweenIsOK DEF j
<1>5. CASE job[r].pc = "parse_chunk" /\ ~InResearch(job[r])
  <2>1. j = AfterParse(r, ok)
    BY <1>5 DEF After
  <2> HIDE DEF j
  <2>2. QED
    BY <2>1, AfterParseIs, BetweenIsOK DEF j
<1>6. CASE job[r].pc = "parse_chunk" /\ InResearch(job[r])
  <2>1. j = AfterResearchParse(r, ok)
    BY <1>6 DEF After
  <2> HIDE DEF j
  <2>2. QED
    BY <2>1, AfterResearchParseIs, BetweenIsOK DEF j
<1>7. CASE job[r].pc = "extraction"
  <2>1. j = AfterExtraction(r, ok)
    BY <1>7 DEF After
  <2> HIDE DEF j
  <2>2. j \in Job /\ ~j.working /\ (j.pc = "fail" \/ (j.pc = "normalization" /\ j.input \subseteq Targets))
    BY <1>2, <2>1, AfterExtractionIs
  <2>3. QED
    BY <2>2, BetweenIsOK DEF j
<1>8. CASE job[r].pc = "normalization"
  <2>1. j = AfterNormalization(r, ok)
    BY <1>8 DEF After
  <2> HIDE DEF j
  <2>2. j \in Job /\ ~j.working /\ (j.pc = "fail" \/ (j.pc = "validation_routing" /\ j.input \subseteq Targets))
    BY <1>1, <1>8, <2>1, AfterNormalizationIs
  <2>3. QED
    BY <2>2, BetweenIsOK DEF j
<1>9. CASE job[r].pc = "validation_routing"
  <2>1. j = AfterValidation(r, ok)
    BY <1>9 DEF After
  <2> HIDE DEF j
  <2>2. QED
    BY <1>1, <1>9, <2>1, AfterValidationIs, BetweenIsOK DEF j
<1>10. QED
  BY <1>3, <1>4, <1>5, <1>6, <1>7, <1>8, <1>9 DEF Stages

\* The rows that the actions write.
LEMMA RowFields ==
    ASSUME NEW w \in Row
    PROVE  /\ w.state \in {"none", "started", "completed", "failed", "retried"} /\ w.partial \in BOOLEAN
           /\ w.stage \in Stages \cup {"source_collection"}
           /\ w.retryOf \in Runs \cup {None} /\ w.retriedBy \in Runs \cup {None}
BY DEF Row

LEMMA EnteredIs ==
    ASSUME Shape, NEW r \in Runs, NEW stage \in Stages, NEW n, n = Entered(r, stage)
    PROVE  /\ n \in Row /\ n.state = "started" /\ n.stage = stage
           /\ n.retryOf = row[r].retryOf /\ n.retriedBy = row[r].retriedBy /\ n.partial = row[r].partial
<1>1. row[r] \in Row
  BY RunTyped
<1>2. QED
  BY <1>1 DEF Entered, Row

LEMMA LeftIs ==
    ASSUME Shape, NEW r \in Runs, NEW w, w.pc \in Stages, NEW ok, NEW n, n = Left(r, w, ok)
    PROVE  /\ n \in Row /\ n.state \in {"failed", "completed"} /\ n.stage = w.pc
           /\ n.retryOf = row[r].retryOf /\ n.retriedBy = row[r].retriedBy
           /\ n.partial <=> ok # w.input
<1>1. row[r] \in Row
  BY RunTyped
<1> DEFINE state == IF ok = {} THEN "failed" ELSE "completed"
           partial == ok # w.input
<1>2. state \in {"failed", "completed"} /\ partial \in BOOLEAN
  OBVIOUS
<1>3. n = [row[r] EXCEPT !.state = state, !.partial = partial, !.stage = w.pc]
  BY DEF Left
<1>4. partial <=> ok # w.input
  OBVIOUS
<1> HIDE DEF state, partial
<1>5. /\ n \in Row /\ n.state = state /\ n.stage = w.pc /\ n.partial = partial
      /\ n.retryOf = row[r].retryOf /\ n.retriedBy = row[r].retriedBy
  BY <1>1, <1>2, <1>3 DEF Row
<1>6. QED
  BY <1>2, <1>4, <1>5

LEMMA SupersededIs ==
    ASSUME Shape, NEW o \in Runs, NEW r \in Runs, NEW n, n = Superseded(o, r)
    PROVE  /\ n \in Row /\ n.retryOf = row[o].retryOf /\ n.stage = row[o].stage
           /\ n.partial = row[o].partial
           /\ \/ n = row[o]
              \/ RetryState(o) /\ n.state = "retried" /\ n.retriedBy = r
<1>1. row[o] \in Row
  BY RunTyped
<1>2. QED
  BY <1>1 DEF Superseded, Row

\* The run that a request registers.
LEMMA RegisteredIs ==
    ASSUME NEW o \in Runs \cup {None},
           NEW n, n = [NoRow EXCEPT !.state = "started", !.retryOf = o],
           NEW j, j = [NoJob EXCEPT !.pc = "snapshot", !.input = Selected,
                                    !.scope = Selected, !.sources = Selected, !.targets = Targets]
    PROVE  /\ n \in Row /\ n.state = "started" /\ n.stage = "source_collection"
           /\ n.retryOf = o /\ n.retriedBy = None
           /\ j \in Job /\ WorkOK(j) /\ j.pc = "snapshot" /\ ~j.working /\ j.round = 0 /\ j.tainted = {}
           /\ j.extracted = {} /\ j.scope = Selected /\ j.sources = Selected
<1>1. NoRow \in Row /\ NoRow.retriedBy = None /\ NoRow.stage = "source_collection"
  BY DEF NoRow, Row
<1>2. n \in Row /\ n.state = "started" /\ n.stage = "source_collection" /\ n.retryOf = o /\ n.retriedBy = None
  BY <1>1 DEF Row
<1>3. NoJob \in Job /\ ~NoJob.working /\ NoJob.round = 0 /\ NoJob.tainted = {} /\ NoJob.extracted = {}
  BY NoJobTyped DEF NoJob
<1>4. j \in Job /\ j.pc = "snapshot" /\ ~j.working /\ j.round = 0 /\ j.tainted = {}
      /\ j.extracted = {} /\ j.scope = Selected /\ j.sources = Selected
  BY <1>3, SourceSets DEF Job, Steps, Stages
<1>5. QED
  BY <1>2, <1>4, BetweenIsOK

\* The runner that is killed.
LEMMA KilledIs ==
    ASSUME Shape, NEW r \in Runs,
           NEW j, j = [NoJob EXCEPT !.pc = "killed", !.tainted = GivenUp(r).tainted]
    PROVE  j \in Job /\ WorkOK(j) /\ j.pc = "killed" /\ ~j.working /\ j.tainted = GivenUp(r).tainted
           /\ j.extracted = {} /\ j.targets = {} /\ j.input = {} /\ j.sources = {}
<1>1. GivenUp(r).tainted \subseteq Sources
  BY GivenUpIs, JobFields
<1>2. NoJob \in Job /\ ~NoJob.working /\ NoJob.extracted = {} /\ NoJob.targets = {} /\ NoJob.input = {}
      /\ NoJob.sources = {}
  BY NoJobTyped DEF NoJob
<1> DEFINE tainted == GivenUp(r).tainted
<1>3. j = [NoJob EXCEPT !.pc = "killed", !.tainted = tainted]
  OBVIOUS
<1> HIDE DEF tainted
<1>4. tainted \subseteq Sources
  BY <1>1 DEF tainted
<1>5. j \in Job /\ j.pc = "killed" /\ ~j.working /\ j.tainted = tainted
      /\ j.extracted = {} /\ j.targets = {} /\ j.input = {} /\ j.sources = {}
  BY <1>2, <1>3, <1>4 DEF Job, Steps, Ends
<1>6. QED
  BY <1>5, BetweenIsOK DEF tainted

LEMMA RequestsShape ==
    ASSUME Shape, NEW r \in Runs,
           \/ \E o \in Runs \cup {None} : Register(r, o)
           \/ CommitRequest(r) \/ AbortRequest(r)
    PROVE  Shape'
<1> USE DEF Shape, TypeOK
<1>1. ASSUME NEW o \in Runs \cup {None}, Register(r, o)
      PROVE  Shape'
  <2> DEFINE n == [NoRow EXCEPT !.state = "started", !.retryOf = o]
             j == [NoJob EXCEPT !.pc = "snapshot", !.input = Selected,
                                !.scope = Selected, !.sources = Selected, !.targets = Targets]
  <2>1. n \in Row /\ j \in Job /\ WorkOK(j)
    BY RegisteredIs
  <2>2. row' = [row EXCEPT ![r] = n] /\ job' = [job EXCEPT ![r] = j]
    BY <1>1 DEF Register
  <2> HIDE DEF n, j, Shape
  <2>3. late' = late
    BY <1>1 DEF Register
  <2>4. WorkTyped' /\ job' \in [Runs -> Job] /\ late' \in [Runs -> SUBSET Job]
    BY <2>1, <2>2, <2>3, JobsShape
  <2>5. row \in [Runs -> Row] /\ request \in [Runs -> {"none", "open", "committed", "aborted"}]
    BY DEF Shape
  <2>6. /\ UNCHANGED <<page, evidence, clock, changes, faults>>
        /\ request' = [request EXCEPT ![r] = "open"]
    BY <1>1 DEF Register
  <2>7. row' \in [Runs -> Row] /\ request' \in [Runs -> {"none", "open", "committed", "aborted"}]
    BY <2>1, <2>2, <2>5, <2>6
  <2>8. QED
    BY <2>4, <2>6, <2>7 DEF evidence, LatestExists, Shape
<1>2. ASSUME CommitRequest(r)
      PROVE  Shape'
  <2>1. row[r] \in Row /\ row[r].retryOf \in Runs \cup {None}
    BY RunTyped, RowFields
  <2>2. row' \in [Runs -> Row]
    BY <1>2, <2>1, SupersededIs DEF CommitRequest
  <2>3. QED
    BY <1>2, <2>2 DEF CommitRequest, evidence, LatestExists, WorkTyped
<1>3. ASSUME AbortRequest(r)
      PROVE  Shape'
  <2>1. NoRow \in Row
    BY DEF NoRow, Row
  <2>2. faults' \in 0..MaxFaults
    BY <1>3, BoundsAssumption DEF AbortRequest
  <2>3. QED
    BY <1>3, <2>1, <2>2 DEF AbortRequest, evidence, LatestExists, WorkTyped
<1>4. QED
  BY <1>1, <1>2, <1>3

\* What a stage writes when it ends leaves the state well formed.
LEMMA PersistShape ==
    ASSUME Shape, NEW r \in Runs, Persist(r)
    PROVE  Shape'
<1>1. job[r] \in Job /\ WorkOK(job[r]) /\ Ready(job[r]) /\ job[r].pc \in Stages
  BY RunTyped, WorkingInStage DEF Persist, Ready
<1>2. PICK ok \in SUBSET job[r].input :
        /\ Writes(r, job[r], ok)
        /\ row' = [row EXCEPT ![r] = Left(r, job[r], ok)]
        /\ job' = [job EXCEPT ![r] = After(r, ok)]
  BY DEF Persist
<1>3. Left(r, job[r], ok) \in Row
  BY <1>1, LeftIs
<1> DEFINE j == After(r, ok)
<1>4. j \in Job /\ WorkOK(j)
  BY <1>1, AfterIs
<1> HIDE DEF j
<1>5. job' = [job EXCEPT ![r] = j]
  BY <1>2 DEF j
<1>6. late' = late /\ UNCHANGED <<page, request, clock, changes, faults>>
  BY DEF Persist
<1>7. job' \in [Runs -> Job] /\ late' \in [Runs -> SUBSET Job] /\ WorkTyped'
  BY <1>4, <1>5, <1>6, JobsShape
<1>8. QED
  <2>1. row' \in [Runs -> Row]
    BY <1>2, <1>3 DEF Shape, TypeOK
  <2>2. /\ snapshot' \in [Sources -> [Contents -> Nat]] /\ LatestExists'
        /\ parsed' \in [Sources -> SUBSET Contents]
        /\ item' \in [Runs -> [Sources -> Item]]
        /\ draft' \in [Runs -> [Sources -> Contents \cup {None}]]
        /\ candidate' \in [Runs -> [Targets -> Candidate]]
    BY <1>1, <1>2, WritesShape
  <2>3. QED
    BY <1>6, <1>7, <2>1, <2>2 DEF Shape, TypeOK

LEMMA LateWriteShape ==
    ASSUME Shape, NEW r \in Runs, LateWrite(r)
    PROVE  Shape'
<1>1. PICK w \in late[r] :
        /\ \E ok \in SUBSET w.input :
            /\ Writes(r, w, ok)
            /\ row' = [row EXCEPT ![r] = Left(r, w, ok)]
        /\ late' = [late EXCEPT ![r] = @ \ {w}]
  BY DEF LateWrite
<1>2. w \in Job /\ WorkOK(w) /\ Ready(w) /\ w.pc \in Stages
  BY RunTyped DEF WorkOK, Ready
<1>3. PICK ok \in SUBSET w.input : Writes(r, w, ok) /\ row' = [row EXCEPT ![r] = Left(r, w, ok)]
  BY <1>1
<1>4. Left(r, w, ok) \in Row
  BY <1>2, LeftIs
<1>5. job' = job /\ UNCHANGED <<page, request, clock, changes, faults>>
  BY DEF LateWrite
<1>6. late \in [Runs -> SUBSET Job] /\ \A q \in Runs : late'[q] \subseteq late[q]
  BY <1>1 DEF Shape, TypeOK
<1>7. late' \in [Runs -> SUBSET Job]
  BY <1>1, <1>6
<1>8. WorkTyped'
  BY <1>5, <1>6 DEF Shape, WorkTyped
<1>9. QED
  BY <1>2, <1>3, <1>4, <1>5, <1>7, <1>8, WritesShape DEF Shape, TypeOK

\* A step of the runner, other than the end of a stage.
LEMMA StepShape ==
    ASSUME Shape, NEW r \in Runs,
           \/ Begin(r) \/ Fetch(r) \/ StageFails(r) \/ StageTimesOut(r) \/ RunnerDies(r)
           \/ ResearchEnds(r) \/ Acquire(r)
           \/ Summarize(r) \/ Promote(r) \/ EndFails(r) \/ Launch(r) \/ MarkFailed(r)
    PROVE  /\ \E j \in Job : WorkOK(j) /\ job' = [job EXCEPT ![r] = j]
           /\ \/ late' = late
              \/ Ready(job[r]) /\ late' = [late EXCEPT ![r] = @ \cup {job[r]}]
<1> DEFINE Moves == \E j \in Job : WorkOK(j) /\ job' = [job EXCEPT ![r] = j]
<1>1. ASSUME NEW pc \in (Steps \cup Ends) \ {"normalization", "validation_routing"}, ~job[r].working, Goto(r, pc)
      PROVE  Moves
  <2>1. [job[r] EXCEPT !.pc = pc] \in Job /\ WorkOK([job[r] EXCEPT !.pc = pc])
    BY <1>1, GotoIs
  <2>2. QED
    BY <1>1, <2>1, GotoJob
<1>2. job[r].pc \notin Stages => ~job[r].working
  BY WorkingInStage
<1>3. ASSUME job' = [job EXCEPT ![r] = GivenUp(r)]
      PROVE  Moves
  <2> DEFINE j == GivenUp(r)
  <2>1. j \in Job /\ ~j.working /\ j.pc \in {"research", "fail"}
    BY GivenUpIs
  <2>2. WorkOK(j)
    BY <2>1, BetweenIsOK
  <2> HIDE DEF j
  <2>3. job' = [job EXCEPT ![r] = j]
    BY <1>3 DEF j
  <2>4. QED
    BY <2>1, <2>2, <2>3
<1>4. CASE Begin(r)
  BY <1>4, BeginIs DEF Begin
<1>5. CASE Fetch(r)
  BY <1>5, FetchIs DEF Fetch
<1>6. CASE StageFails(r)
  BY <1>3, <1>6 DEF StageFails
<1>7. CASE StageTimesOut(r)
  BY <1>3, <1>7 DEF StageTimesOut
<1>8. CASE RunnerDies(r)
  <2> DEFINE j == [NoJob EXCEPT !.pc = "killed", !.tainted = GivenUp(r).tainted]
  <2>1. j \in Job /\ WorkOK(j)
    BY KilledIs
  <2>2. job' = [job EXCEPT ![r] = j]
    BY <1>8 DEF RunnerDies
  <2> HIDE DEF j
  <2>3. QED
    BY <1>8, <2>1, <2>2 DEF RunnerDies
<1>9. CASE ResearchEnds(r)
  <2> DEFINE j == NextStage(r, "extraction", job[r].sources)
  <2>1. j \in Job /\ ~j.working /\ j.pc = "extraction"
    BY RunTyped, JobFields, NextStageIs DEF Steps, Stages
  <2>2. job' = [job EXCEPT ![r] = j]
    BY <1>9 DEF ResearchEnds
  <2> HIDE DEF j
  <2>3. QED
    BY <1>9, <2>1, <2>2, BetweenIsOK DEF ResearchEnds
<1>10. CASE Acquire(r)
  <2>1. PICK capture \in SUBSET (job[r].sources \cup (Companions \ job[r].scope)),
             again \in SUBSET job[r].sources : job' = [job EXCEPT ![r] = Planned(r, capture, again)]
    BY <1>10 DEF Acquire
  <2>2. capture \in SUBSET Sources /\ again \in SUBSET Sources /\ job[r].round < MaxRounds
    BY <1>10, RunTyped, JobFields, SourceSets DEF Acquire
  <2>3. PICK j : j = Planned(r, capture, again)
    OBVIOUS
  <2>4. j \in Job /\ ~j.working
    BY <2>2, <2>3, PlannedIs
  <2>5. j.pc = "parse_chunk" \/ j.pc = "snapshot"
    BY <2>2, <2>3, PlannedIs
  <2>6. job' = [job EXCEPT ![r] = j]
    BY <2>1, <2>3
  <2>7. QED
    BY <1>10, <2>4, <2>5, <2>6, BetweenIsOK DEF Acquire
<1>11. CASE Summarize(r)
  BY <1>1, <1>2, <1>11 DEF Summarize, Steps, Stages
<1>12. CASE Promote(r)
  BY <1>1, <1>2, <1>12 DEF Promote, Steps, Stages
<1>13. CASE EndFails(r)
  BY <1>1, <1>2, <1>13 DEF EndFails, Steps, Stages
<1>14. CASE Launch(r)
  BY <1>1, <1>2, <1>14 DEF Launch, Ends, Stages
<1>15. CASE MarkFailed(r)
  BY <1>1, <1>2, <1>15 DEF MarkFailed, Ends, Stages
<1>16. QED
  BY <1>4, <1>5, <1>6, <1>7, <1>8, <1>9, <1>10, <1>11, <1>12, <1>13, <1>14, <1>15

\* What the same steps do to the rest of the state.
LEMMA StepRest ==
    ASSUME Shape, NEW r \in Runs,
           \/ Begin(r) \/ Fetch(r) \/ StageFails(r) \/ StageTimesOut(r) \/ RunnerDies(r)
           \/ ResearchEnds(r) \/ Acquire(r)
           \/ Summarize(r) \/ Promote(r) \/ EndFails(r) \/ Launch(r) \/ MarkFailed(r)
    PROVE  /\ UNCHANGED <<page, snapshot, parsed, item, draft, request, changes>>
           /\ \/ row' = row
              \/ \E n \in Row : /\ row' = [row EXCEPT ![r] = n]
                                /\ n.retryOf = row[r].retryOf /\ n.retriedBy = row[r].retriedBy
           /\ \/ candidate' = candidate
              \/ \E cs \in [Targets -> Candidate] : candidate' = [candidate EXCEPT ![r] = cs]
           /\ clock' \in Nat /\ faults' \in 0..MaxFaults
<1> DEFINE Writing == \E n \in Row : /\ row' = [row EXCEPT ![r] = n]
                                     /\ n.retryOf = row[r].retryOf /\ n.retriedBy = row[r].retriedBy
<1>1. row[r] \in Row /\ row \in [Runs -> Row] /\ clock \in Nat /\ clock + 1 \in Nat
      /\ faults \in 0..MaxFaults /\ (faults < MaxFaults => faults + 1 \in 0..MaxFaults)
  BY RunTyped, BoundsAssumption DEF Shape, TypeOK
<1>2. CASE Begin(r)
  <2>1. job[r].pc \in Stages /\ row' = [row EXCEPT ![r] = Entered(r, job[r].pc)]
    BY <1>2 DEF Begin
  <2> DEFINE n == Entered(r, job[r].pc)
  <2>2. n \in Row
    BY <2>1, EnteredIs
  <2>3. n.retryOf = row[r].retryOf /\ n.retriedBy = row[r].retriedBy
    BY <2>1, EnteredIs
  <2>4. row' = [row EXCEPT ![r] = n]
    BY <2>1
  <2> HIDE DEF n
  <2>5. Writing
    BY <2>2, <2>3, <2>4
  <2>6. QED
    BY <1>1, <1>2, <2>5 DEF Begin, evidence
<1>3. CASE Fetch(r)
  BY <1>1, <1>3 DEF Fetch, evidence
<1>4. CASE StageFails(r)
  BY <1>1, <1>4 DEF StageFails, evidence
<1>5. CASE StageTimesOut(r)
  BY <1>1, <1>5 DEF StageTimesOut, evidence
<1>6. CASE RunnerDies(r)
  BY <1>1, <1>6 DEF RunnerDies, evidence
<1>7. CASE ResearchEnds(r) \/ Launch(r) \/ EndFails(r)
  BY <1>1, <1>7 DEF ResearchEnds, Launch, EndFails, evidence
<1>8. CASE Acquire(r)
  BY <1>1, <1>8 DEF Acquire, evidence
<1>9. CASE Summarize(r)
  <2> DEFINE state == IF Successful(r) = {} THEN "failed" ELSE "completed"
             partial == Successful(r) # job[r].scope
             n == [row[r] EXCEPT !.state = state, !.partial = partial]
  <2>1. state \in {"failed", "completed"} /\ partial \in BOOLEAN
    OBVIOUS
  <2>2. row' = [row EXCEPT ![r] = n]
    BY <1>1, <1>9 DEF Summarize
  <2> HIDE DEF state, partial
  <2>3. n \in Row /\ n.retryOf = row[r].retryOf /\ n.retriedBy = row[r].retriedBy
    BY <1>1, <2>1 DEF Row
  <2> HIDE DEF n
  <2>4. QED
    BY <1>1, <1>9, <2>2, <2>3 DEF Summarize, evidence
<1>10. CASE Promote(r)
  <2>1. PICK decided \in SUBSET {s \in Targets : candidate[r][s].state = "auto_validated"},
             approved \in SUBSET Targets :
          candidate' = [candidate EXCEPT ![r] = [s \in Targets |->
              IF s \notin decided THEN candidate[r][s]
              ELSE [candidate[r][s] EXCEPT
                        !.state = IF s \in approved THEN "approved" ELSE "rejected"]]]
    BY <1>10 DEF Promote
  <2> DEFINE cs == [s \in Targets |->
              IF s \notin decided THEN candidate[r][s]
              ELSE [candidate[r][s] EXCEPT
                        !.state = IF s \in approved THEN "approved" ELSE "rejected"]]
  <2>2. \A c \in Candidate, st \in {"approved", "rejected"} : [c EXCEPT !.state = st] \in Candidate
    BY DEF Candidate
  <2>3. cs \in [Targets -> Candidate]
    BY <2>2, RunTyped
  <2> HIDE DEF cs
  <2>4. candidate' = [candidate EXCEPT ![r] = cs]
    BY <2>1 DEF cs
  <2>5. QED
    BY <1>1, <1>10, <2>3, <2>4 DEF Promote
<1>11. CASE MarkFailed(r)
  <2> DEFINE n == [row[r] EXCEPT !.state = "failed", !.partial = TRUE, !.stage = "source_collection"]
  <2>1. row' = row \/ row' = [row EXCEPT ![r] = n]
    BY <1>1, <1>11 DEF MarkFailed
  <2>2. n \in Row /\ n.retryOf = row[r].retryOf /\ n.retriedBy = row[r].retriedBy
    BY <1>1 DEF Row
  <2> HIDE DEF n
  <2>3. QED
    BY <1>1, <1>11, <2>1, <2>2 DEF MarkFailed, evidence
<1>12. QED
  BY <1>2, <1>3, <1>4, <1>5, <1>6, <1>7, <1>8, <1>9, <1>10, <1>11

LEMMA NextShape == Shape /\ [Next]_vars => Shape'
<1> SUFFICES ASSUME Shape, [Next]_vars PROVE Shape'
  OBVIOUS
<1>1. ASSUME NEW r \in Runs,
             \/ Begin(r) \/ Fetch(r) \/ StageFails(r) \/ StageTimesOut(r) \/ RunnerDies(r)
             \/ ResearchEnds(r) \/ Acquire(r)
             \/ Summarize(r) \/ Promote(r) \/ EndFails(r) \/ Launch(r) \/ MarkFailed(r)
      PROVE  Shape'
  <2>1. job' \in [Runs -> Job] /\ late' \in [Runs -> SUBSET Job] /\ WorkTyped'
    BY <1>1, StepShape, JobsShape
  <2>2. UNCHANGED <<page, snapshot, parsed, item, draft, request, changes>>
        /\ clock' \in Nat /\ faults' \in 0..MaxFaults
    BY <1>1, StepRest
  <2>3. row' \in [Runs -> Row]
    BY <1>1, StepRest DEF Shape, TypeOK
  <2>4. candidate' \in [Runs -> [Targets -> Candidate]]
    BY <1>1, StepRest DEF Shape, TypeOK
  <2>5. QED
    BY <2>1, <2>2, <2>3, <2>4 DEF Shape, TypeOK, LatestExists
<1>2. ASSUME NEW s \in Sources, PageChanges(s)
      PROVE  Shape'
  <2>1. page' \in [Sources -> Contents] /\ changes' \in 0..MaxChanges
    BY <1>2, BoundsAssumption DEF PageChanges, Shape, TypeOK
  <2>2. QED
    BY <1>2, <2>1 DEF PageChanges, evidence, Shape, TypeOK, LatestExists, WorkTyped
<1>3. CASE UNCHANGED vars
  BY <1>3 DEF vars, Shape, TypeOK, LatestExists, WorkTyped
<1>4. QED
  BY <1>1, <1>2, <1>3, RequestsShape, PersistShape, LateWriteShape DEF Next, Runner

\* The state of a collection is well formed, the stages under way included.
THEOREM CollectionTypesCorrect == Spec => []TypeOK
<1>1. Spec => []Shape
  BY InitShape, NextShape, PTL DEF Spec
<1>2. Shape => TypeOK
  BY DEF Shape
<1>3. QED
  BY <1>1, <1>2, PTL

-----------------------------------------------------------------------------
(* Retries *)

\* A runner that has begun a stage, and has neither failed nor ended.
Begun(j) == j.pc \in Steps \ {"none", "fail"} /\ (j.working \/ j.round > 0 \/ j.pc # "snapshot")

\* A run that has begun is past the request that registers it, and its row says
\* which stage was entered last: only MarkFailed writes source_collection again.
RowOfRunner(r) ==
    Begun(job[r]) => request[r] \notin {"none", "open"} /\ row[r].stage \in Stages

\* Nothing is known of a run that no request has registered.
NotYet(r) == request[r] = "none" => job[r] = NoJob /\ late[r] = {} /\ row[r] = NoRow

\* A row that Retryable would take belongs to a run that is over, and so does the
\* original of every retry that is asked for.
RetryOver(r) ==
    /\ row[r].stage = "source_collection" /\ row[r].state \in {"failed", "completed"} => Ended(r)
    /\ request[r] = "open" /\ row[r].retryOf # None => Ended(row[r].retryOf)

RetryInv ==
    /\ Shape
    /\ \A r \in Runs : RowOfRunner(r) /\ NotYet(r) /\ RetryOver(r)
    /\ ReplacedRunIsOver
    /\ RetryLinkSound

\* What a runner may do to its run: to the record of the runner, and to the row.
RunnerMoves(r) ==
    /\ \A q \in Runs \ {r} : job'[q] = job[q] /\ late'[q] = late[q]
    /\ job[r].pc \notin Steps \ {"none"} => job'[r] = job[r] /\ late'[r] \subseteq late[r]
    /\ Begun(job'[r]) => Begun(job[r]) \/ (request[r] # "open" /\ row'[r].stage \in Stages)

RowMoves(r) ==
    /\ \A q \in Runs \ {r} : row'[q] = row[q]
    /\ row'[r].retryOf = row[r].retryOf /\ row'[r].retriedBy = row[r].retriedBy
    /\ row'[r].stage \in Stages \/ row'[r].stage = row[r].stage \/ job'[r].pc = "failed"
    /\ \/ row'[r].stage \in Stages
       \/ row'[r].state = row[r].state
       \/ job[r].pc = "summarize"
       \/ job'[r].pc = "failed"
    /\ job[r].pc \notin Steps \ {"none"} /\ late[r] = {} => row'[r] = row[r]

LEMMA StepMoves ==
    ASSUME Shape, NEW r \in Runs,
           \/ Begin(r) \/ Fetch(r) \/ StageFails(r) \/ StageTimesOut(r) \/ RunnerDies(r)
           \/ ResearchEnds(r) \/ Acquire(r)
           \/ Summarize(r) \/ Promote(r) \/ EndFails(r) \/ Launch(r) \/ MarkFailed(r)
    PROVE  request' = request /\ RunnerMoves(r) /\ RowMoves(r)
<1>1. /\ job \in [Runs -> Job] /\ late \in [Runs -> SUBSET Job] /\ row \in [Runs -> Row]
      /\ job[r] \in Job /\ row[r] \in Row /\ WorkOK(job[r])
  BY RunTyped DEF Shape, TypeOK
<1>2. \A q \in Runs \ {r} : job'[q] = job[q] /\ late'[q] = late[q]
  BY <1>1, StepShape
<1>3. request' = request
  BY StepRest
<1>4. \A q \in Runs \ {r} : row'[q] = row[q]
  BY <1>1, StepRest
<1>5. row'[r].retryOf = row[r].retryOf /\ row'[r].retriedBy = row[r].retriedBy
  BY <1>1, StepRest
<1>6. Stages \subseteq Steps /\ "none" \notin Stages /\ "fail" \notin Stages /\ "fail" \in Steps
      /\ "source_collection" \notin Stages
  BY DEF Stages, Steps
<1>7. job[r].pc \in Steps \ {"none"}
  BY <1>1, <1>6, WorkingInStage
     DEF Begin, Fetch, StageFails, StageTimesOut, RunnerDies, ResearchEnds, Acquire, Summarize, Promote,
         EndFails, Launch, MarkFailed, Ready, Steps, Stages
<1> DEFINE Row4 == /\ row'[r].stage \in Stages \/ row'[r].stage = row[r].stage \/ job'[r].pc = "failed"
                   /\ \/ row'[r].stage \in Stages
                      \/ row'[r].state = row[r].state
                      \/ job[r].pc = "summarize"
                      \/ job'[r].pc = "failed"
           Job3 == Begun(job'[r]) => Begun(job[r]) \/ (request[r] # "open" /\ row'[r].stage \in Stages)
<1>8. ASSUME NEW pc, Goto(r, pc)
      PROVE  job'[r] = [job[r] EXCEPT !.pc = pc] /\ job'[r].pc = pc
  BY <1>1, <1>8, GotoJob DEF Job
<1>9. ASSUME job' = [job EXCEPT ![r] = GivenUp(r)], job[r].pc \in Stages
      PROVE  Job3
  <2>1. job'[r] = GivenUp(r)
    BY <1>1, <1>9
  <2>2. InResearch(job[r]) \/ job'[r].pc = "fail"
    BY <2>1, GivenUpIs
  <2>3. InResearch(job[r]) => Begun(job[r])
    BY <1>6, <1>9 DEF InResearch, Begun
  <2>4. QED
    BY <2>2, <2>3 DEF Begun
<1>10. CASE Begin(r)
  <2>1. job[r].pc \in Stages /\ row' = [row EXCEPT ![r] = Entered(r, job[r].pc)] /\ request[r] # "open"
    BY <1>10 DEF Begin
  <2>2. row'[r].stage \in Stages
    BY <1>1, <2>1, EnteredIs
  <2>3. QED
    BY <1>2, <1>3, <1>4, <1>5, <1>7, <2>1, <2>2 DEF RunnerMoves, RowMoves
<1>11. CASE Fetch(r)
  <2>1. row' = row /\ Begun(job[r])
    BY <1>6, <1>11 DEF Fetch, Begun, Stages, Steps
  <2>2. QED
    BY <1>2, <1>3, <1>4, <1>5, <1>7, <2>1 DEF RunnerMoves, RowMoves
<1>12. CASE StageFails(r)
  <2>1. row' = row /\ Job3
    BY <1>9, <1>12 DEF StageFails
  <2>2. QED
    BY <1>2, <1>3, <1>4, <1>5, <1>7, <2>1 DEF RunnerMoves, RowMoves
<1>13. CASE StageTimesOut(r)
  <2>1. job[r].pc \in Stages
    BY <1>1, <1>13 DEF StageTimesOut, Ready, WorkOK
  <2>2. row' = row /\ Job3
    BY <1>9, <1>13, <2>1 DEF StageTimesOut
  <2>3. QED
    BY <1>2, <1>3, <1>4, <1>5, <1>7, <2>2 DEF RunnerMoves, RowMoves
<1>14. CASE RunnerDies(r)
  <2>1. row' = row /\ job'[r].pc = "killed"
    BY <1>1, <1>14, KilledIs DEF RunnerDies
  <2>2. ~Begun(job'[r])
    BY <2>1 DEF Begun, Steps, Stages
  <2>3. QED
    BY <1>2, <1>3, <1>4, <1>5, <1>7, <2>1, <2>2 DEF RunnerMoves, RowMoves
<1>15. CASE ResearchEnds(r) \/ Acquire(r) \/ Promote(r) \/ EndFails(r) \/ Launch(r)
  <2>1. row' = row /\ job[r].pc \in {"research", "summarize", "promote", "launch"}
    BY <1>15 DEF ResearchEnds, Acquire, Promote, EndFails, Launch
  <2>2. Begun(job[r])
    BY <2>1 DEF Begun, Steps
  <2>3. QED
    BY <1>2, <1>3, <1>4, <1>5, <1>7, <2>1, <2>2 DEF RunnerMoves, RowMoves
<1>16. CASE Summarize(r)
  <2>1. job[r].pc = "summarize" /\ row'[r].stage = row[r].stage
    BY <1>1, <1>16 DEF Summarize, Row
  <2>2. Begun(job[r])
    BY <2>1 DEF Begun, Steps
  <2>3. QED
    BY <1>2, <1>3, <1>4, <1>5, <1>7, <2>1, <2>2 DEF RunnerMoves, RowMoves
<1>17. CASE MarkFailed(r)
  <2>1. job'[r].pc = "failed" \/ (row' = row /\ job'[r].pc = "unrecorded")
    BY <1>8, <1>17 DEF MarkFailed
  <2>2. ~Begun(job'[r])
    BY <2>1 DEF Begun, Steps, Stages
  <2>3. QED
    BY <1>2, <1>3, <1>4, <1>5, <1>7, <2>1, <2>2 DEF RunnerMoves, RowMoves
<1>18. QED
  BY <1>10, <1>11, <1>12, <1>13, <1>14, <1>15, <1>16, <1>17

LEMMA PersistMoves ==
    ASSUME Shape, NEW r \in Runs, Persist(r)
    PROVE  request' = request /\ late' = late /\ RunnerMoves(r) /\ RowMoves(r)
<1>1. /\ job \in [Runs -> Job] /\ row \in [Runs -> Row] /\ job[r].pc \in Stages /\ job[r].working
      /\ request' = request /\ late' = late
  BY RunTyped, WorkingInStage DEF Shape, TypeOK, Persist, Ready
<1>2. PICK ok \in SUBSET job[r].input :
        /\ row' = [row EXCEPT ![r] = Left(r, job[r], ok)]
        /\ job' = [job EXCEPT ![r] = After(r, ok)]
  BY DEF Persist
<1>3. row'[r].stage \in Stages
  BY <1>1, <1>2, LeftIs
<1>4. row'[r].retryOf = row[r].retryOf /\ row'[r].retriedBy = row[r].retriedBy
  BY <1>1, <1>2, LeftIs
<1>5. Begun(job[r]) /\ job[r].pc \in Steps \ {"none"}
  BY <1>1 DEF Begun, Stages, Steps
<1>6. QED
  BY <1>1, <1>2, <1>3, <1>4, <1>5 DEF RunnerMoves, RowMoves

LEMMA LateWriteMoves ==
    ASSUME Shape, NEW r \in Runs, LateWrite(r)
    PROVE  request' = request /\ RunnerMoves(r) /\ RowMoves(r)
<1>1. PICK w \in late[r] :
        /\ \E ok \in SUBSET w.input :
            /\ Writes(r, w, ok)
            /\ row' = [row EXCEPT ![r] = Left(r, w, ok)]
        /\ late' = [late EXCEPT ![r] = @ \ {w}]
  BY DEF LateWrite
<1>2. /\ job' = job /\ request' = request /\ w.pc \in Stages /\ row \in [Runs -> Row]
      /\ late \in [Runs -> SUBSET Job]
  BY RunTyped DEF LateWrite, WorkOK, Ready, Shape, TypeOK
<1>3. PICK ok \in SUBSET w.input : row' = [row EXCEPT ![r] = Left(r, w, ok)]
  BY <1>1
<1>4. row'[r].stage \in Stages
  BY <1>2, <1>3, LeftIs
<1>5. row'[r].retryOf = row[r].retryOf /\ row'[r].retriedBy = row[r].retriedBy
  BY <1>2, <1>3, LeftIs
<1>6. late[r] # {} /\ late'[r] \subseteq late[r] /\ \A q \in Runs \ {r} : late'[q] = late[q]
  BY <1>1, <1>2
<1>7. QED
  BY <1>2, <1>3, <1>4, <1>5, <1>6 DEF RunnerMoves, RowMoves

LEMMA InitRetry == Init => RetryInv
<1> SUFFICES ASSUME Init PROVE RetryInv
  OBVIOUS
<1>1. NoJob.pc = "none" /\ NoRow.retriedBy = None /\ NoRow.retryOf = None /\ NoRow.state = "none"
  BY DEF NoJob, NoRow
<1>2. \A r \in Runs : job[r] = NoJob /\ late[r] = {} /\ row[r] = NoRow /\ request[r] = "none"
  BY DEF Init
<1>3. ASSUME NEW r \in Runs
      PROVE  RowOfRunner(r) /\ NotYet(r) /\ RetryOver(r)
  BY <1>1, <1>2 DEF RowOfRunner, Begun, NotYet, RetryOver
<1>4. QED
  BY <1>1, <1>2, <1>3, InitShape DEF RetryInv, ReplacedRunIsOver, RetryLinkSound

\* A runner's step, or a stage that goes on without it.
LEMMA MovesRetry ==
    ASSUME RetryInv, Shape', NEW r \in Runs, request' = request, RunnerMoves(r), RowMoves(r)
    PROVE  RetryInv'
<1>1. \A q \in Runs : RowOfRunner(q) /\ NotYet(q) /\ RetryOver(q)
  BY DEF RetryInv
<1>2. Ends \cap Steps = {} /\ NoJob.pc = "none" /\ "source_collection" \notin Stages
  BY DEF Ends, Steps, Stages, NoJob
<1>3. \A q \in Runs : Ended(q) => Ended(q)'
  BY <1>2 DEF RunnerMoves, Ended
<1>4. request[r] = "none" => job'[r] = NoJob /\ late'[r] = {} /\ row'[r] = NoRow
  BY <1>1, <1>2 DEF NotYet, RunnerMoves, RowMoves
<1>5. ASSUME NEW q \in Runs
      PROVE  NotYet(q)'
  BY <1>1, <1>4 DEF NotYet, RunnerMoves, RowMoves
<1>6. ASSUME NEW q \in Runs
      PROVE  RowOfRunner(q)'
  <2>1. CASE q # r
    BY <1>1, <2>1 DEF RowOfRunner, RunnerMoves, RowMoves
  <2>2. CASE q = r
    <3> SUFFICES ASSUME Begun(job'[r]) PROVE request[r] \notin {"none", "open"} /\ row'[r].stage \in Stages
      BY <2>2 DEF RowOfRunner
    <3>1. ~Begun(NoJob)
      BY <1>2 DEF Begun
    <3>2. request[r] # "none"
      BY <1>4, <3>1
    <3>3. job'[r].pc # "failed"
      BY DEF Begun, Steps, Stages
    <3>4. QED
      BY <1>1, <3>2, <3>3 DEF RunnerMoves, RowMoves, RowOfRunner
  <2>3. QED
    BY <2>1, <2>2
<1>7. ASSUME NEW q \in Runs
      PROVE  row'[q].stage = "source_collection" /\ row'[q].state \in {"failed", "completed"} => Ended(q)'
  <2>1. CASE q # r
    BY <1>1, <1>3, <2>1 DEF RowMoves, RetryOver
  <2>2. CASE q = r
    <3> SUFFICES ASSUME row'[r].stage = "source_collection", row'[r].state \in {"failed", "completed"},
                        job'[r].pc # "failed"
                 PROVE  Ended(r)'
      BY <2>2 DEF Ended, Ends
    <3>1. row'[r].stage = row[r].stage /\ (row'[r].state = row[r].state \/ job[r].pc = "summarize")
      BY <1>2 DEF RowMoves
    <3>2. job[r].pc # "summarize"
      BY <1>1, <1>2, <3>1 DEF RowOfRunner, Begun, Steps
    <3>3. QED
      BY <1>1, <1>3, <3>1, <3>2 DEF RetryOver
  <2>3. QED
    BY <2>1, <2>2
<1>8. \A q \in Runs : row'[q].retryOf = row[q].retryOf /\ row'[q].retriedBy = row[q].retriedBy
  BY DEF RowMoves
<1>9. \A q \in Runs : row[q].retryOf \in Runs \cup {None} /\ row[q].retriedBy \in Runs \cup {None}
  BY RunTyped, RowFields DEF RetryInv
<1>10. ASSUME NEW q \in Runs
       PROVE  RetryOver(q)'
  BY <1>1, <1>3, <1>7, <1>8, <1>9 DEF RetryOver, Ended
<1>11. ReplacedRunIsOver'
  BY <1>3, <1>8 DEF RetryInv, ReplacedRunIsOver
<1>12. RetryLinkSound'
  BY <1>8, <1>9 DEF RetryInv, RetryLinkSound
<1>13. QED
  BY <1>5, <1>6, <1>10, <1>11, <1>12 DEF RetryInv

LEMMA RegisterRetry ==
    ASSUME RetryInv, Shape', NEW r \in Runs, NEW o \in Runs \cup {None}, Register(r, o)
    PROVE  RetryInv'
<1> DEFINE n == [NoRow EXCEPT !.state = "started", !.retryOf = o]
           j == [NoJob EXCEPT !.pc = "snapshot", !.input = Selected,
                              !.scope = Selected, !.sources = Selected, !.targets = Targets]
<1>1. n.state = "started" /\ n.retryOf = o /\ n.retriedBy = None
  BY RegisteredIs
<1>2. j.pc = "snapshot" /\ ~j.working /\ j.round = 0
  BY RegisteredIs
<1>3. row' = [row EXCEPT ![r] = n] /\ job' = [job EXCEPT ![r] = j] /\ late' = late
      /\ request' = [request EXCEPT ![r] = "open"] /\ request[r] = "none"
  BY DEF Register
<1> HIDE DEF n, j
<1>4. row \in [Runs -> Row] /\ job \in [Runs -> Job] /\ DOMAIN request = Runs
  BY DEF RetryInv, Shape, TypeOK
<1>5. \A q \in Runs : RowOfRunner(q) /\ NotYet(q) /\ RetryOver(q)
  BY DEF RetryInv
<1>6. row[r] = NoRow /\ job[r] = NoJob
  BY <1>3, <1>5 DEF NotYet
<1>7. o # None => o # r /\ Ended(o)
  <2>1. o # None => row[o].state \in {"failed", "completed"} /\ row[o].stage = "source_collection"
    BY DEF Register, Retryable, RetryState
  <2>2. QED
    BY <1>5, <1>6, <2>1 DEF RetryOver, NoRow
<1>8. ~Ended(r)
  BY <1>6 DEF Ended, Ends, NoJob
<1>9. \A q \in Runs \ {r} : row'[q] = row[q] /\ job'[q] = job[q] /\ request'[q] = request[q] /\ late'[q] = late[q]
  BY <1>3, <1>4
<1>10. row'[r] = n /\ job'[r] = j /\ request'[r] = "open"
  BY <1>3, <1>4
<1>11. \A q \in Runs : Ended(q) => q # r /\ Ended(q)'
  BY <1>8, <1>9 DEF Ended
<1>12. \A q \in Runs : row[q].retryOf \in Runs \cup {None} /\ row[q].retriedBy \in Runs \cup {None}
  BY RunTyped, RowFields DEF RetryInv
<1>13. ASSUME NEW q \in Runs
       PROVE  RowOfRunner(q)' /\ NotYet(q)'
  <2>1. CASE q # r
    BY <1>5, <1>9, <2>1 DEF RowOfRunner, NotYet
  <2>2. CASE q = r
    BY <1>2, <1>10, <2>2 DEF RowOfRunner, NotYet, Begun
  <2>3. QED
    BY <2>1, <2>2
<1>14. ASSUME NEW q \in Runs
       PROVE  RetryOver(q)'
  <2>1. CASE q # r
    BY <1>5, <1>9, <1>11, <1>12, <2>1 DEF RetryOver, Ended
  <2>2. CASE q = r
    BY <1>1, <1>7, <1>10, <1>11, <2>2 DEF RetryOver, Ended
  <2>3. QED
    BY <2>1, <2>2
<1>15. ReplacedRunIsOver'
  BY <1>1, <1>9, <1>10, <1>11 DEF RetryInv, ReplacedRunIsOver
<1>16. RetryLinkSound'
  BY <1>1, <1>3, <1>9, <1>10, <1>12 DEF RetryInv, RetryLinkSound
<1>17. QED
  BY <1>13, <1>14, <1>15, <1>16 DEF RetryInv

LEMMA CommitRetry ==
    ASSUME RetryInv, Shape', NEW r \in Runs, CommitRequest(r)
    PROVE  RetryInv'
<1> DEFINE o == row[r].retryOf
<1>1. /\ request[r] = "open" /\ request' = [request EXCEPT ![r] = "committed"] /\ job' = job /\ late' = late
      /\ row' = IF o = None THEN row ELSE [row EXCEPT ![o] = Superseded(o, r)]
  BY DEF CommitRequest
<1>2. row \in [Runs -> Row] /\ DOMAIN request = Runs
  BY DEF RetryInv, Shape, TypeOK
<1>3. \A q \in Runs : RowOfRunner(q) /\ NotYet(q) /\ RetryOver(q)
  BY DEF RetryInv
<1>4. \A q \in Runs : row[q].retryOf \in Runs \cup {None} /\ row[q].retriedBy \in Runs \cup {None}
  BY RunTyped, RowFields DEF RetryInv
<1>5. o # None => o \in Runs /\ Ended(o)
  BY <1>1, <1>3, <1>4 DEF RetryOver
<1>6. ASSUME NEW q \in Runs
      PROVE  /\ row'[q].retryOf = row[q].retryOf /\ row'[q].stage = row[q].stage
             /\ \/ row'[q] = row[q]
                \/ q = o /\ RetryState(o) /\ row'[q].state = "retried" /\ row'[q].retriedBy = r
  <2>1. CASE o # None /\ q = o
    <3>1. row'[q] = Superseded(o, r) /\ o \in Runs /\ Shape
      BY <1>1, <1>2, <2>1 DEF RetryInv
    <3>2. QED
      BY <2>1, <3>1, SupersededIs
  <2>2. CASE ~(o # None /\ q = o)
    BY <1>1, <1>2, <2>2
  <2>3. QED
    BY <2>1, <2>2
<1>7. \A q \in Runs : request'[q] = (IF q = r THEN "committed" ELSE request[q])
  BY <1>1, <1>2
<1> HIDE DEF o
<1>8. ASSUME NEW q \in Runs
      PROVE  RowOfRunner(q)' /\ NotYet(q)' /\ RetryOver(q)'
  <2>1. RowOfRunner(q)'
    BY <1>1, <1>3, <1>6, <1>7 DEF RowOfRunner
  <2>2. NotYet(q)'
    <3> SUFFICES ASSUME request'[q] = "none" PROVE job'[q] = NoJob /\ late'[q] = {} /\ row'[q] = NoRow
      BY DEF NotYet
    <3>1. request[q] = "none"
      BY <1>7
    <3>2. row[q] = NoRow /\ job[q] = NoJob /\ late[q] = {}
      BY <1>3, <3>1 DEF NotYet
    <3>3. ~RetryState(q)
      BY <3>2 DEF RetryState, NoRow
    <3>4. row'[q] = row[q]
      BY <1>6, <3>3
    <3>5. QED
      BY <1>1, <3>2, <3>4
  <2>3. RetryOver(q)'
    BY <1>1, <1>3, <1>4, <1>6, <1>7 DEF RetryOver, Ended
  <2>4. QED
    BY <2>1, <2>2, <2>3
<1>9. ReplacedRunIsOver'
  <2> SUFFICES ASSUME NEW q \in Runs, row'[q].retriedBy # None PROVE Ended(q)'
    BY DEF ReplacedRunIsOver
  <2>1. CASE row'[q] = row[q]
    BY <1>1, <2>1 DEF RetryInv, ReplacedRunIsOver, Ended
  <2>2. CASE row'[q] # row[q]
    BY <1>1, <1>5, <1>6, <2>2, NoneAssumption DEF Ended
  <2>3. QED
    BY <2>1, <2>2
<1>10. RetryLinkSound'
  <2> SUFFICES ASSUME NEW q \in Runs, row'[q].retriedBy # None
               PROVE  row'[row'[q].retriedBy].retryOf = q /\ request'[row'[q].retriedBy] = "committed"
    BY DEF RetryLinkSound
  <2>1. CASE row'[q] = row[q]
    BY <1>4, <1>6, <1>7, <2>1 DEF RetryInv, RetryLinkSound
  <2>2. CASE row'[q] # row[q]
    BY <1>6, <1>7, <2>2 DEF o
  <2>3. QED
    BY <2>1, <2>2
<1>11. QED
  BY <1>8, <1>9, <1>10 DEF RetryInv

LEMMA AbortRetry ==
    ASSUME RetryInv, Shape', NEW r \in Runs, AbortRequest(r)
    PROVE  RetryInv'
<1>1. /\ request[r] = "open" /\ request' = [request EXCEPT ![r] = "aborted"] /\ job' = job /\ late' = late
      /\ row' = [row EXCEPT ![r] = NoRow]
  BY DEF AbortRequest
<1>2. row \in [Runs -> Row] /\ DOMAIN request = Runs
  BY DEF RetryInv, Shape, TypeOK
<1>3. \A q \in Runs : RowOfRunner(q) /\ NotYet(q) /\ RetryOver(q)
  BY DEF RetryInv
<1>4. \A q \in Runs : row[q].retryOf \in Runs \cup {None} /\ row[q].retriedBy \in Runs \cup {None}
  BY RunTyped, RowFields DEF RetryInv
<1>5. \A q \in Runs \ {r} : row'[q] = row[q] /\ request'[q] = request[q]
  BY <1>1, <1>2
<1>6. row'[r] = NoRow /\ request'[r] = "aborted"
  BY <1>1, <1>2
<1>7. NoRow.state = "none" /\ NoRow.retryOf = None /\ NoRow.retriedBy = None
  BY DEF NoRow
<1>8. ASSUME NEW q \in Runs
      PROVE  RowOfRunner(q)' /\ NotYet(q)' /\ RetryOver(q)'
  <2>1. CASE q = r
    BY <1>1, <1>3, <1>6, <1>7, <2>1 DEF RowOfRunner, NotYet, RetryOver
  <2>2. CASE q # r
    BY <1>1, <1>3, <1>4, <1>5, <2>2 DEF RowOfRunner, NotYet, RetryOver, Ended
  <2>3. QED
    BY <2>1, <2>2
<1>9. ReplacedRunIsOver'
  BY <1>1, <1>5, <1>6, <1>7 DEF RetryInv, ReplacedRunIsOver, Ended
<1>10. RetryLinkSound'
  <2> SUFFICES ASSUME NEW q \in Runs, row'[q].retriedBy # None
               PROVE  row'[row'[q].retriedBy].retryOf = q /\ request'[row'[q].retriedBy] = "committed"
    BY DEF RetryLinkSound
  <2>1. q # r
    BY <1>6, <1>7
  <2>2. row'[q] = row[q]
    BY <1>5, <2>1
  <2>3. row[q].retriedBy \in Runs /\ row[row[q].retriedBy].retryOf = q /\ request[row[q].retriedBy] = "committed"
    BY <1>4, <2>2 DEF RetryInv, RetryLinkSound
  <2>4. row[q].retriedBy # r
    BY <1>1, <2>3
  <2>5. QED
    BY <1>5, <2>2, <2>3, <2>4
<1>11. QED
  BY <1>8, <1>9, <1>10 DEF RetryInv

LEMMA NextRetry == RetryInv /\ [Next]_vars => RetryInv'
<1> SUFFICES ASSUME RetryInv, [Next]_vars PROVE RetryInv'
  OBVIOUS
<1>1. Shape /\ Shape'
  BY NextShape DEF RetryInv
<1>2. ASSUME NEW r \in Runs, Runner(r) \/ StageTimesOut(r) \/ LateWrite(r) \/ RunnerDies(r)
      PROVE  RetryInv'
  <2>1. request' = request /\ RunnerMoves(r) /\ RowMoves(r)
    BY <1>1, <1>2, StepMoves, PersistMoves, LateWriteMoves DEF Runner
  <2>2. QED
    BY <1>1, <2>1, MovesRetry
<1>3. ASSUME UNCHANGED <<row, request, job, late>>
      PROVE  RetryInv'
  BY <1>1, <1>3 DEF RetryInv, RowOfRunner, NotYet, RetryOver, ReplacedRunIsOver, RetryLinkSound, Ended
<1>4. ASSUME NEW s \in Sources, PageChanges(s)
      PROVE  RetryInv'
  BY <1>3, <1>4 DEF PageChanges
<1>5. CASE UNCHANGED vars
  BY <1>3, <1>5 DEF vars
<1>6. QED
  BY <1>1, <1>2, <1>4, <1>5, RegisterRetry, CommitRetry, AbortRetry DEF Next

LEMMA RetryInvariant == Spec => []RetryInv
BY InitRetry, NextRetry, PTL DEF Spec

\* A run that a retry has replaced is over: its runner neither works nor writes
\* the row, whatever the row passed through before (retry_failed_run,
\* describe_run_retry_action).
THEOREM RetriesReplaceEndedRuns == Spec => []ReplacedRunIsOver
<1>1. RetryInv => ReplacedRunIsOver
  BY DEF RetryInv
<1>2. QED
  BY <1>1, RetryInvariant, PTL

\* A link to the next attempt has its link back, and its request has committed
\* (retry_failed_run).
THEOREM RetryLinksAreSound == Spec => []RetryLinkSound
<1>1. RetryInv => RetryLinkSound
  BY DEF RetryInv
<1>2. QED
  BY <1>1, RetryInvariant, PTL

-----------------------------------------------------------------------------
(* What a stage writes, by the run's items, drafts and candidates before and after *)

ContextOf(it, s) == IF it[s].ok /\ it[s].doc = it[s].selected THEN it[s].doc ELSE None

CaptureWrote(w, ok, it, it2) ==
    \A s \in Sources :
        (s \notin w.input \/ (s \notin ok /\ w.observed[s] # None /\ ContextOf(it, s) = w.observed[s]))
        => it2[s] = it[s]

ParseWrote(w, ok, it, it2) ==
    \A s \in Sources :
        /\ s \notin w.input => it2[s] = it[s]
        /\ s \in ok => it2[s].ok /\ it2[s].doc = w.read[s] /\ it2[s].selected = w.read[s]

WorkWrote(w, it, it2) ==
    \A s \in Sources :
        /\ s \notin w.input => it2[s] = it[s]
        /\ s \in w.input => it2[s].selected = w.read[s] /\ it2[s].doc = it[s].doc

Wrote(w, ok, it, it2, d, d2, c, c2) ==
    /\ w.pc = "snapshot" => CaptureWrote(w, ok, it, it2) /\ d2 = d /\ c2 = c
    /\ w.pc = "parse_chunk" => ParseWrote(w, ok, it, it2) /\ d2 = d /\ c2 = c
    /\ w.pc = "extraction" =>
          /\ WorkWrote(w, it, it2) /\ c2 = c
          /\ \A s \in Sources : d2[s] = IF s \in ok THEN w.read[s] ELSE d[s]
    /\ w.pc = "normalization" =>
          /\ WorkWrote(w, it, it2) /\ d2 = d
          /\ \A s \in Targets : c2[s].content = IF s \in ok THEN w.read[s] ELSE c[s].content
    /\ w.pc = "validation_routing" =>
          /\ WorkWrote(w, it, it2) /\ d2 = d
          /\ \A s \in Targets : /\ c2[s].content = c[s].content
                                /\ s \in ok => c2[s].state \in {"auto_validated", "rejected"}

LEMMA WorkedWrote ==
    ASSUME Shape, NEW r \in Runs, NEW w, NEW ok, item' = WorkedItems(r, w, ok)
    PROVE  WorkWrote(w, item[r], item'[r]) /\ \A q \in Runs \ {r} : item'[q] = item[q]
<1>1. item \in [Runs -> [Sources -> Item]]
  BY DEF Shape, TypeOK
<1>2. /\ \A q \in Runs \ {r} : item'[q] = item[q]
      /\ \A s \in Sources : item'[r][s] =
            IF s \in w.input THEN [item[r][s] EXCEPT !.selected = w.read[s], !.ok = s \in ok] ELSE item[r][s]
  BY <1>1 DEF WorkedItems
<1>3. ASSUME NEW s \in Sources, s \in w.input
      PROVE  item'[r][s].selected = w.read[s] /\ item'[r][s].doc = item[r][s].doc
  <2>1. item[r][s] \in Item
    BY <1>1
  <2>2. item'[r][s] = [item[r][s] EXCEPT !.selected = w.read[s], !.ok = s \in ok]
    BY <1>2, <1>3
  <2>3. QED
    BY <2>1, <2>2 DEF Item
<1>4. QED
  BY <1>2, <1>3 DEF WorkWrote

LEMMA WritesWrote ==
    ASSUME Shape, NEW r \in Runs, NEW w \in Job, w.pc \in Stages, NEW ok \in SUBSET w.input, Writes(r, w, ok)
    PROVE  /\ Wrote(w, ok, item[r], item'[r], draft[r], draft'[r], candidate[r], candidate'[r])
           /\ \A q \in Runs \ {r} : item'[q] = item[q] /\ draft'[q] = draft[q] /\ candidate'[q] = candidate[q]
<1>1. /\ item \in [Runs -> [Sources -> Item]] /\ draft \in [Runs -> [Sources -> Contents \cup {None}]]
      /\ candidate \in [Runs -> [Targets -> Candidate]]
  BY DEF Shape, TypeOK
<1> DEFINE Others == \A q \in Runs \ {r} :
                         item'[q] = item[q] /\ draft'[q] = draft[q] /\ candidate'[q] = candidate[q]
<1>2. CASE w.pc = "snapshot"
  <2>1. SnapshotStage(r, w, ok)
    BY <1>2 DEF Writes
  <2>2. Others /\ draft'[r] = draft[r] /\ candidate'[r] = candidate[r]
    BY <1>1, <2>1 DEF SnapshotStage
  <2>3. \A s \in Sources : item'[r][s] = IF s \in w.input THEN CapturedItem(r, w, ok, s) ELSE item[r][s]
    BY <1>1, <2>1 DEF SnapshotStage
  <2>4. CaptureWrote(w, ok, item[r], item'[r])
    BY <2>3 DEF CaptureWrote, CapturedItem, Kept, Context, ContextOf
  <2>5. QED
    BY <1>2, <2>2, <2>4 DEF Wrote
<1>3. CASE w.pc = "parse_chunk"
  <2>1. ParseStage(r, w, ok)
    BY <1>3 DEF Writes
  <2>2. Others /\ draft'[r] = draft[r] /\ candidate'[r] = candidate[r]
    BY <1>1, <2>1 DEF ParseStage
  <2>3. \A s \in Sources : item'[r][s] = IF s \in w.input THEN ParsedItem(r, w, ok, s) ELSE item[r][s]
    BY <1>1, <2>1 DEF ParseStage
  <2>4. ASSUME NEW s \in Sources, s \in ok
        PROVE  item'[r][s].ok /\ item'[r][s].doc = w.read[s] /\ item'[r][s].selected = w.read[s]
    <3>1. item[r][s] \in Item /\ (s \in ok) \in BOOLEAN /\ s \in w.input
      BY <1>1, <2>4
    <3>2. item'[r][s] = [item[r][s] EXCEPT !.selected = w.read[s], !.ok = s \in ok, !.doc = w.read[s]]
      BY <2>3, <2>4, <3>1 DEF ParsedItem
    <3>3. (s \in ok) = TRUE
      BY <2>4
    <3>4. item'[r][s] = [item[r][s] EXCEPT !.selected = w.read[s], !.ok = TRUE, !.doc = w.read[s]]
      BY ZenonT(20), <3>2, <3>3
    <3>5. QED
      BY <3>1, <3>4 DEF Item
  <2>5. ParseWrote(w, ok, item[r], item'[r])
    BY <2>3, <2>4 DEF ParseWrote
  <2>6. QED
    BY <1>3, <2>2, <2>5 DEF Wrote
<1>4. CASE w.pc = "extraction"
  <2>1. ExtractionStage(r, w, ok)
    BY <1>4 DEF Writes
  <2>2. WorkWrote(w, item[r], item'[r]) /\ \A q \in Runs \ {r} : item'[q] = item[q]
    BY <2>1, WorkedWrote DEF ExtractionStage
  <2>3. /\ candidate' = candidate /\ \A q \in Runs \ {r} : draft'[q] = draft[q]
        /\ \A s \in Sources : draft'[r][s] = IF s \in ok THEN w.read[s] ELSE draft[r][s]
    BY <1>1, <2>1 DEF ExtractionStage
  <2>4. QED
    BY <1>4, <2>2, <2>3 DEF Wrote
<1>5. CASE w.pc = "normalization"
  <2>1. NormalizationStage(r, w, ok)
    BY <1>5 DEF Writes
  <2>2. WorkWrote(w, item[r], item'[r]) /\ \A q \in Runs \ {r} : item'[q] = item[q]
    BY <2>1, WorkedWrote DEF NormalizationStage
  <2>3. /\ draft' = draft /\ \A q \in Runs \ {r} : candidate'[q] = candidate[q]
        /\ \A s \in Targets : candidate'[r][s] =
              IF s \in ok THEN [state |-> "draft", content |-> w.read[s]] ELSE candidate[r][s]
    BY <1>1, <2>1 DEF NormalizationStage
  <2>4. ASSUME NEW s \in Targets
        PROVE  candidate'[r][s].content = IF s \in ok THEN w.read[s] ELSE candidate[r][s].content
    <3>1. CASE s \in ok
      <4>1. candidate'[r][s] = [state |-> "draft", content |-> w.read[s]]
        BY <2>3, <3>1
      <4>2. QED
        BY <3>1, <4>1
    <3>2. CASE s \notin ok
      BY <2>3, <3>2
    <3>3. QED
      BY <3>1, <3>2
  <2>5. QED
    BY <1>5, <2>2, <2>3, <2>4 DEF Wrote
<1>6. CASE w.pc = "validation_routing"
  <2>1. ValidationStage(r, w, ok)
    BY <1>6 DEF Writes
  <2>2. WorkWrote(w, item[r], item'[r]) /\ \A q \in Runs \ {r} : item'[q] = item[q]
    BY <2>1, WorkedWrote DEF ValidationStage
  <2> PICK accepted \in SUBSET ok :
        candidate' = [candidate EXCEPT ![r] = [s \in Targets |->
            IF s \in ok
            THEN [candidate[r][s] EXCEPT
                      !.state = IF s \in accepted THEN "auto_validated" ELSE "rejected"]
            ELSE candidate[r][s]]]
    BY <2>1 DEF ValidationStage
  <2>3. /\ draft' = draft /\ \A q \in Runs \ {r} : candidate'[q] = candidate[q]
        /\ \A s \in Targets : candidate'[r][s] =
              IF s \in ok
              THEN [candidate[r][s] EXCEPT
                        !.state = IF s \in accepted THEN "auto_validated" ELSE "rejected"]
              ELSE candidate[r][s]
    BY <1>1, <2>1 DEF ValidationStage
  <2>4. ASSUME NEW s \in Targets
        PROVE  /\ candidate'[r][s].content = candidate[r][s].content
               /\ s \in ok => candidate'[r][s].state \in {"auto_validated", "rejected"}
    <3>1. candidate[r][s] \in Candidate
      BY <1>1
    <3>2. \A st \in {"auto_validated", "rejected"} :
              /\ [candidate[r][s] EXCEPT !.state = st].content = candidate[r][s].content
              /\ [candidate[r][s] EXCEPT !.state = st].state = st
      BY <3>1 DEF Candidate
    <3>3. CASE s \in ok
      BY <2>3, <3>2, <3>3
    <3>4. CASE s \notin ok
      BY <2>3, <3>4
    <3>5. QED
      BY <3>3, <3>4
  <2>5. QED
    BY <1>6, <2>2, <2>3, <2>4 DEF Wrote
<1>7. QED
  BY <1>2, <1>3, <1>4, <1>5, <1>6 DEF Stages

-----------------------------------------------------------------------------
(* The evidence of a run is of one piece *)

Given == {"fail", "failed", "unrecorded", "killed"}
PreDraft == {"none", "snapshot", "parse_chunk", "research", "extraction"}
PreCandidate == PreDraft \cup {"normalization"}

\* Of the stages that go on alone, those of a research round work on tainted
\* sources, and any other was the last its runner began.
LateFits(j, L) ==
    /\ \A w \in L : IF InResearch(w) THEN w.input \subseteq j.tainted ELSE j.pc \in Given
    /\ \A w, v \in L : InResearch(w) \/ InResearch(v) \/ w = v

\* Drafts are not there before the extraction, nor candidates before the normalization.
InOrder(pc, d, c) ==
    /\ pc \in PreDraft => \A s \in Sources : d[s] = None
    /\ pc \in PreCandidate => \A s \in Targets : c[s].content = None

OnePiece(T, it, d, c) ==
    /\ \A s \in Sources \ T : d[s] # None => d[s] = it[s].selected /\ d[s] = it[s].doc
    /\ \A s \in Targets \ T : c[s].content # None => c[s].content = d[s]

\* What a stage works on is what is there when it writes.
Fits(T, it, d, c, w) ==
    \A s \in w.input \ T :
        /\ w.pc = "extraction" => w.read[s] = it[s].selected /\ w.read[s] = it[s].doc
        /\ w.pc = "normalization" => w.read[s] = d[s]
        /\ w.pc = "validation_routing" => w.read[s] = c[s].content

Piece(j, L, it, d, c) ==
    /\ LateFits(j, L)
    /\ InOrder(j.pc, d, c)
    /\ OnePiece(j.tainted, it, d, c)
    /\ j.working => Fits(j.tainted, it, d, c, j)
    /\ \A w \in L : ~InResearch(w) => InOrder(w.pc, d, c) /\ Fits(j.tainted, it, d, c, w)

\* A stage that writes what it was given leaves the evidence of one piece, and
\* so does a research stage that writes tainted sources only.
LEMMA WriteKeepsPiece ==
    ASSUME NEW T, NEW it, NEW it2, NEW d, NEW d2, NEW c, NEW c2, NEW w \in Job, NEW ok \in SUBSET w.input,
           w.pc \in Stages, \A s \in w.input : w.read[s] \in Contents,
           w.pc \in {"normalization", "validation_routing"} => w.input \subseteq Targets,
           Wrote(w, ok, it, it2, d, d2, c, c2), OnePiece(T, it, d, c),
           \/ InResearch(w) /\ w.input \subseteq T
           \/ InOrder(w.pc, d, c) /\ Fits(T, it, d, c, w)
    PROVE  OnePiece(T, it2, d2, c2)
<1>1. w.input \subseteq Sources
  BY JobFields
<1>2. \A s \in w.input : w.read[s] # None
  BY NoneAssumption
<1>3. CASE w.pc \in {"snapshot", "parse_chunk"} /\ InOrder(w.pc, d, c)
  <2>1. d2 = d /\ c2 = c
    BY <1>3 DEF Wrote
  <2>2. QED
    BY <1>3, <2>1, SourceSets DEF OnePiece, InOrder, PreDraft, PreCandidate
<1>4. CASE InResearch(w) /\ w.input \subseteq T
  <2>1. d2 = d /\ c2 = c /\ \A s \in Sources \ w.input : it2[s] = it[s]
    BY <1>4 DEF Wrote, InResearch, CaptureWrote, ParseWrote
  <2>2. \A s \in Sources \ T : it2[s] = it[s]
    BY <1>4, <2>1
  <2>3. QED
    BY <2>1, <2>2 DEF OnePiece
<1>5. CASE w.pc = "extraction" /\ InOrder(w.pc, d, c) /\ Fits(T, it, d, c, w)
  <2>1. /\ WorkWrote(w, it, it2) /\ c2 = c
        /\ \A s \in Sources : d2[s] = IF s \in ok THEN w.read[s] ELSE d[s]
    BY <1>5 DEF Wrote
  <2>2. (\A s \in Sources : d[s] = None) /\ (\A s \in Targets : c[s].content = None)
    BY <1>5 DEF InOrder, PreDraft, PreCandidate
  <2>3. ASSUME NEW s \in Sources \ T, d2[s] # None
        PROVE  d2[s] = it2[s].selected /\ d2[s] = it2[s].doc
    <3>1. s \in ok /\ d2[s] = w.read[s]
      BY <2>1, <2>2, <2>3
    <3>2. w.read[s] = it[s].doc
      BY <1>5, <2>3, <3>1 DEF Fits
    <3>3. it2[s].selected = w.read[s] /\ it2[s].doc = it[s].doc
      BY <2>1, <2>3, <3>1 DEF WorkWrote
    <3>4. QED
      BY <3>1, <3>2, <3>3
  <2>4. QED
    BY <2>1, <2>2, <2>3 DEF OnePiece
<1>6. ASSUME w.pc \in {"normalization", "validation_routing"}, WorkWrote(w, it, it2), d2 = d,
             \A s \in w.input \ T : w.read[s] = d[s]
      PROVE  \A s \in Sources \ T : d2[s] # None => d2[s] = it2[s].selected /\ d2[s] = it2[s].doc
  <2> SUFFICES ASSUME NEW s \in Sources \ T, d[s] # None
               PROVE  d[s] = it2[s].selected /\ d[s] = it2[s].doc
    BY <1>6
  <2>1. d[s] = it[s].selected /\ d[s] = it[s].doc
    BY DEF OnePiece
  <2>2. CASE s \notin w.input
    <3>1. it2[s] = it[s]
      BY <1>6, <2>2 DEF WorkWrote
    <3>2. QED
      BY <2>1, <3>1
  <2>3. CASE s \in w.input
    <3>1. it2[s].selected = w.read[s] /\ it2[s].doc = it[s].doc
      BY <1>6, <2>3 DEF WorkWrote
    <3>2. w.read[s] = d[s]
      BY <1>6, <2>3
    <3>3. QED
      BY <2>1, <3>1, <3>2
  <2>4. QED
    BY <2>2, <2>3
<1>7. CASE w.pc = "normalization" /\ InOrder(w.pc, d, c) /\ Fits(T, it, d, c, w)
  <2>1. /\ WorkWrote(w, it, it2) /\ d2 = d
        /\ \A s \in Targets : c2[s].content = IF s \in ok THEN w.read[s] ELSE c[s].content
    BY <1>7 DEF Wrote
  <2>2. \A s \in w.input \ T : w.read[s] = d[s]
    BY <1>7 DEF Fits
  <2>3. \A s \in Sources \ T : d2[s] # None => d2[s] = it2[s].selected /\ d2[s] = it2[s].doc
    BY <1>6, <1>7, <2>1, <2>2
  <2>4. \A s \in Targets \ T : c2[s].content # None => c2[s].content = d2[s]
    BY <2>1, <2>2 DEF OnePiece
  <2>5. QED
    BY <2>3, <2>4 DEF OnePiece
<1>8. CASE w.pc = "validation_routing" /\ InOrder(w.pc, d, c) /\ Fits(T, it, d, c, w)
  <2>1. /\ WorkWrote(w, it, it2) /\ d2 = d
        /\ \A s \in Targets : c2[s].content = c[s].content
    BY <1>8 DEF Wrote
  <2>2. ASSUME NEW s \in w.input \ T
        PROVE  w.read[s] = d[s]
    <3>1. s \in Targets /\ w.read[s] = c[s].content /\ w.read[s] # None
      BY <1>2, <1>8, <2>2 DEF Fits
    <3>2. QED
      BY <2>2, <3>1 DEF OnePiece
  <2>3. \A s \in Sources \ T : d2[s] # None => d2[s] = it2[s].selected /\ d2[s] = it2[s].doc
    BY <1>6, <1>8, <2>1, <2>2
  <2>4. \A s \in Targets \ T : c2[s].content # None => c2[s].content = d2[s]
    BY <2>1 DEF OnePiece
  <2>5. QED
    BY <2>3, <2>4 DEF OnePiece
<1>9. QED
  BY <1>3, <1>4, <1>5, <1>7, <1>8 DEF Stages

\* The runner moves on, or gives its stage up; the evidence is as it was.
LEMMA StepKeepsPiece ==
    ASSUME NEW j, NEW j2, NEW L, NEW it, NEW d, NEW c, Piece(j, L, it, d, c),
           j.tainted \subseteq j2.tainted,
           j.pc \in Given => j2.pc \in Given,
           j2.pc \in PreDraft => j.pc \in PreDraft,
           j2.pc \in PreCandidate => j.pc \in PreCandidate,
           j2.working => Fits(j2.tainted, it, d, c, j2)
    PROVE  /\ Piece(j2, L, it, d, c)
           /\ j.working /\ j.pc \in Stages /\ (IF InResearch(j) THEN j.input \subseteq j2.tainted ELSE j2.pc \in Given)
              => Piece(j2, L \cup {j}, it, d, c)
<1>1. LateFits(j2, L)
  BY DEF Piece, LateFits
<1>2. InOrder(j2.pc, d, c) /\ OnePiece(j2.tainted, it, d, c)
  BY DEF Piece, InOrder, OnePiece
<1>3. \A w : Fits(j.tainted, it, d, c, w) => Fits(j2.tainted, it, d, c, w)
  BY DEF Fits
<1>4. Piece(j2, L, it, d, c)
  BY <1>1, <1>2, <1>3 DEF Piece
<1>5. ASSUME j.working, j.pc \in Stages, IF InResearch(j) THEN j.input \subseteq j2.tainted ELSE j2.pc \in Given
      PROVE  Piece(j2, L \cup {j}, it, d, c)
  <2>1. \A w \in L : InResearch(w)
    BY <1>5 DEF Piece, LateFits, Stages, Given
  <2>2. LateFits(j2, L \cup {j})
    BY <1>1, <1>5, <2>1 DEF LateFits
  <2>3. InOrder(j.pc, d, c) /\ Fits(j2.tainted, it, d, c, j)
    BY <1>3, <1>5 DEF Piece
  <2>4. QED
    BY <1>2, <1>4, <2>1, <2>2, <2>3 DEF Piece
<1>6. QED
  BY <1>4, <1>5

\* The stage of the runner writes; j2 is the runner after it.
LEMMA PersistKeepsPiece ==
    ASSUME NEW j \in Job, NEW j2, NEW L, NEW it, NEW it2, NEW d, NEW d2, NEW c, NEW c2,
           Piece(j, L, it, d, c), j.working, j.pc \in Stages, NEW ok \in SUBSET j.input,
           \A s \in j.input : j.read[s] \in Contents,
           j.pc \in {"normalization", "validation_routing"} => j.input \subseteq Targets,
           Wrote(j, ok, it, it2, d, d2, c, c2), ~j2.working,
           j.tainted = j2.tainted \/ j.pc \in {"snapshot", "parse_chunk"},
           \A w \in L : w.input \subseteq j.tainted => w.input \subseteq j2.tainted,
           j2.pc \in PreDraft => j.pc \in {"snapshot", "parse_chunk"},
           j2.pc \in PreCandidate => j.pc \in {"snapshot", "parse_chunk", "extraction"}
    PROVE  Piece(j2, L, it2, d2, c2)
<1>1. \A w \in L : InResearch(w) /\ w.input \subseteq j.tainted
  BY DEF Piece, LateFits, Stages, Given
<1>2. LateFits(j2, L)
  BY <1>1 DEF LateFits
<1>3. InOrder(j.pc, d, c) /\ Fits(j.tainted, it, d, c, j)
  BY DEF Piece
<1>4. InOrder(j2.pc, d2, c2)
  BY <1>3 DEF InOrder, Wrote, PreDraft, PreCandidate
<1>5. OnePiece(j2.tainted, it2, d2, c2)
  <2>1. CASE j.tainted = j2.tainted
    BY <1>3, <2>1, WriteKeepsPiece DEF Piece
  <2>2. CASE j.pc \in {"snapshot", "parse_chunk"}
    BY <1>3, <2>2, SourceSets DEF OnePiece, InOrder, Wrote, PreDraft, PreCandidate
  <2>3. QED
    BY <2>1, <2>2
<1>6. QED
  BY <1>1, <1>2, <1>4, <1>5 DEF Piece

\* A stage that goes on alone writes.
LEMMA LateKeepsPiece ==
    ASSUME NEW j \in Job, NEW L \in SUBSET Job, NEW it, NEW it2, NEW d, NEW d2, NEW c, NEW c2,
           Piece(j, L, it, d, c), j.working => j.pc \in Stages, NEW w \in L, w.pc \in Stages,
           NEW ok \in SUBSET w.input,
           \A s \in w.input : w.read[s] \in Contents,
           w.pc \in {"normalization", "validation_routing"} => w.input \subseteq Targets,
           Wrote(w, ok, it, it2, d, d2, c, c2)
    PROVE  Piece(j, L \ {w}, it2, d2, c2)
<1>1. CASE InResearch(w)
  <2>1. w.input \subseteq j.tainted
    BY <1>1 DEF Piece, LateFits
  <2>2. d2 = d /\ c2 = c /\ \A s \in Sources \ w.input : it2[s] = it[s]
    BY <1>1 DEF Wrote, InResearch, CaptureWrote, ParseWrote
  <2>3. \A s \in Sources \ j.tainted : it2[s] = it[s]
    BY <2>1, <2>2
  <2>4. OnePiece(j.tainted, it2, d2, c2)
    BY <2>2, <2>3 DEF Piece, OnePiece
  <2>5. ASSUME NEW v \in Job, Fits(j.tainted, it, d, c, v)
        PROVE  Fits(j.tainted, it2, d2, c2, v)
    BY <2>2, <2>3, <2>5, JobFields DEF Fits
  <2>6. LateFits(j, L \ {w}) /\ InOrder(j.pc, d2, c2)
    BY <2>2 DEF Piece, LateFits
  <2>7. \A v \in L \ {w} : ~InResearch(v) => InOrder(v.pc, d2, c2) /\ Fits(j.tainted, it2, d2, c2, v)
    BY <2>2, <2>5 DEF Piece
  <2>8. QED
    BY <1>1, <2>2, <2>3, <2>4, <2>5, <2>6, <2>7 DEF Piece
<1>2. CASE ~InResearch(w)
  <2>1. j.pc \in Given /\ ~j.working
    BY <1>2 DEF Piece, LateFits, Given, Stages
  <2>2. \A v \in L \ {w} : InResearch(v)
    BY <1>2 DEF Piece, LateFits
  <2>3. OnePiece(j.tainted, it2, d2, c2)
    BY <1>2, WriteKeepsPiece DEF Piece
  <2>4. InOrder(j.pc, d2, c2)
    BY <2>1 DEF InOrder, PreDraft, PreCandidate, Given
  <2>5. LateFits(j, L \ {w})
    BY DEF Piece, LateFits
  <2>6. QED
    BY <1>2, <2>1, <2>2, <2>3, <2>4, <2>5 DEF Piece
<1>3. QED
  BY <1>1, <1>2

-----------------------------------------------------------------------------
(* Research keeps the evidence, and the summary forgets nothing *)

\* What was parsed can still be used, outside of the tainted sources: in research,
\* before a render (whose plan was made for it) and before another parse.
KeepsEvidence(j, it) ==
    \A s \in j.sources \ j.tainted :
        /\ j.pc = "research" => ContextOf(it, s) # None
        /\ j.pc = "snapshot" /\ j.round > 0 =>
               ContextOf(it, s) # None /\ (s \in j.input => j.observed[s] = ContextOf(it, s))
        /\ j.pc = "parse_chunk" /\ j.round > 0 /\ s \notin j.input => ContextOf(it, s) # None

Extracted == {"normalization", "validation_routing", "summarize", "promote", "launch", "done"}

SuccessfulOf(j) == ((j.scope \ Targets) \cap j.extracted) \cup j.targets

\* The sources that are left have come as far as the runner has, and the row that
\* the summary leaves as clean has taken account of all.
CompleteSoFar(j, d, c, w) ==
    /\ j.pc \in Extracted => (\A s \in j.extracted : d[s] # None) /\ j.targets \subseteq j.extracted
    /\ j.pc \in {"normalization", "validation_routing"} => j.input \subseteq j.extracted
    /\ j.pc \in {"summarize", "promote", "launch", "done"} =>
          \A s \in j.targets : c[s].state \notin {"none", "draft"}
    /\ j.pc \in {"promote", "launch", "done"} /\ w.stage = "validation_routing"
       /\ w.state = "completed" /\ ~w.partial => SuccessfulOf(j) = j.scope

RunOK(j, L, it, d, c, w) == Piece(j, L, it, d, c) /\ KeepsEvidence(j, it) /\ CompleteSoFar(j, d, c, w)

EvidenceInv ==
    /\ RetryInv
    /\ \A r \in Runs : RunOK(job[r], late[r], item[r], draft[r], candidate[r], row[r])

LEMMA PhasesApart ==
    /\ Given \cap Stages = {} /\ Stages \subseteq Steps /\ PreDraft \subseteq PreCandidate
    /\ Given \cap PreCandidate = {} /\ Extracted \cap PreDraft = {}
    /\ {"snapshot", "parse_chunk", "extraction"} \subseteq Stages \cap PreDraft
    /\ Extracted \cap PreCandidate = {"normalization"}
    /\ {"normalization", "validation_routing"} \subseteq Stages
BY DEF Given, Stages, Steps, PreDraft, PreCandidate, Extracted

LEMMA NothingKept ==
    ASSUME NEW j, NEW it, j.pc \notin {"research", "snapshot", "parse_chunk"}
    PROVE  KeepsEvidence(j, it)
BY DEF KeepsEvidence

LEMMA NothingComplete ==
    ASSUME NEW j, NEW d, NEW c, NEW w, j.pc \notin Extracted
    PROVE  CompleteSoFar(j, d, c, w)
BY DEF CompleteSoFar, Extracted

\* The runner gives up the stage it is at.
LEMMA GivenUpKeeps ==
    ASSUME Shape, NEW r \in Runs, KeepsEvidence(job[r], item[r])
    PROVE  KeepsEvidence(GivenUp(r), item[r])
<1> PICK j : j = GivenUp(r)
  OBVIOUS
<1>1. CASE ~InResearch(job[r])
  <2>1. j.pc = "fail"
    BY <1>1, GivenUpIs
  <2>2. QED
    BY <2>1, NothingKept
<1>2. CASE InResearch(job[r])
  <2>1. j.pc = "research" /\ j.sources = job[r].sources /\ j.tainted = job[r].tainted \cup job[r].input
    BY <1>2, GivenUpIs
  <2>2. KeepsEvidence(j, item[r])
    BY <1>2, <2>1 DEF KeepsEvidence, InResearch
  <2>3. QED
    BY <2>2
<1>3. QED
  BY <1>1, <1>2

\* A stage that begins, or fetches, works on what the run has.
LEMMA BeginOK ==
    ASSUME RetryInv, NEW r \in Runs,
           RunOK(job[r], late[r], item[r], draft[r], candidate[r], row[r]), Begin(r) \/ Fetch(r)
    PROVE  RunOK(job'[r], late'[r], item'[r], draft'[r], candidate'[r], row'[r])
<1>1. Shape /\ job \in [Runs -> Job] /\ WorkOK(job[r]) /\ job[r] \in Job
  BY RunTyped DEF RetryInv, Shape, TypeOK
<1>2. late' = late /\ item' = item /\ draft' = draft /\ candidate' = candidate /\ job[r].pc \in Stages
  BY PhasesApart DEF Begin, Fetch, evidence
<1>3. /\ SameProgress(job'[r], job[r]) /\ job'[r].input = job[r].input /\ job'[r].observed = job[r].observed
      /\ \/ job'[r].pc = "fail" /\ ~job'[r].working
         \/ /\ job'[r].pc = job[r].pc
            /\ \/ job'[r].pc = "snapshot"
               \/ \A s \in job'[r].input : job'[r].read[s] = ReadBy(r, job'[r].pc, s) /\ job'[r].read[s] # None
  <2>1. CASE Begin(r)
    <3> PICK j \in Job :
              /\ job' = [job EXCEPT ![r] = j]
              /\ WorkOK(j) /\ SameProgress(j, job[r]) /\ j.input = job[r].input /\ j.observed = job[r].observed
              /\ \/ /\ j.pc = "fail" /\ ~j.working
                    /\ job[r].pc # "snapshot" /\ \E s \in job[r].input : ReadBy(r, job[r].pc, s) = None
                 \/ /\ j.pc = job[r].pc /\ j.working
                    /\ \A s \in j.input : j.read[s] = ReadBy(r, j.pc, s)
                    /\ j.pc # "snapshot" => \A s \in j.input : j.read[s] # None
      BY <1>1, <2>1, BeginIs
    <3>1. job'[r] = j
      BY <1>1
    <3>2. QED
      BY <3>1
  <2>2. CASE Fetch(r)
    <3> PICK j \in Job :
              /\ job' = [job EXCEPT ![r] = j]
              /\ WorkOK(j) /\ SameProgress(j, job[r]) /\ j.input = job[r].input /\ j.observed = job[r].observed
              /\ j.pc = "snapshot" /\ j.working
      BY <1>1, <2>2, FetchIs
    <3>1. job'[r] = j /\ job[r].pc = "snapshot"
      BY <1>1, <2>2 DEF Fetch
    <3>2. QED
      BY <3>1
  <2>3. QED
    BY <2>1, <2>2
<1> DEFINE j == job'[r]
<1>4. j.working => Fits(j.tainted, item[r], draft[r], candidate[r], j)
  <2> SUFFICES ASSUME j.working, NEW s \in j.input
               PROVE  /\ j.pc = "extraction" => j.read[s] = item[r][s].selected /\ j.read[s] = item[r][s].doc
                      /\ j.pc = "normalization" => j.read[s] = draft[r][s]
                      /\ j.pc = "validation_routing" => j.read[s] = candidate[r][s].content
    BY DEF Fits
  <2>1. CASE j.pc = "snapshot"
    BY <2>1
  <2>2. CASE j.pc # "snapshot"
    <3>1. j.read[s] = ReadBy(r, j.pc, s) /\ j.read[s] # None /\ j.pc = job[r].pc /\ s \in job[r].input
      BY <1>3, <2>2
    <3>2. j.pc = "validation_routing" => s \in Targets
      BY <1>1, <3>1 DEF WorkOK
    <3>3. QED
      BY <3>1, <3>2 DEF ReadBy, Context
  <2>3. QED
    BY <2>1, <2>2
<1>5. Piece(j, late[r], item[r], draft[r], candidate[r])
  <2>1. /\ j.tainted = job[r].tainted /\ job[r].pc \notin Given
        /\ j.pc \in PreDraft => job[r].pc \in PreDraft
        /\ j.pc \in PreCandidate => job[r].pc \in PreCandidate
    BY <1>2, <1>3, PhasesApart DEF SameProgress, Given, PreDraft, PreCandidate, Stages
  <2>2. Piece(job[r], late[r], item[r], draft[r], candidate[r])
    BY DEF RunOK
  <2> HIDE DEF j
  <2>3. QED
    BY <1>4, <2>1, <2>2, StepKeepsPiece
<1>6. KeepsEvidence(j, item[r])
  BY <1>3 DEF RunOK, KeepsEvidence, SameProgress
<1>7. CompleteSoFar(j, draft[r], candidate[r], row'[r])
  BY <1>2, <1>3, PhasesApart DEF RunOK, CompleteSoFar, SameProgress, Stages, Extracted
<1>8. QED
  BY <1>2, <1>5, <1>6, <1>7 DEF RunOK

\* A stage that is given up, or goes on alone.
LEMMA GivenUpOK ==
    ASSUME RetryInv, NEW r \in Runs,
           RunOK(job[r], late[r], item[r], draft[r], candidate[r], row[r]),
           StageFails(r) \/ StageTimesOut(r) \/ RunnerDies(r)
    PROVE  RunOK(job'[r], late'[r], item'[r], draft'[r], candidate'[r], row'[r])
<1>1. /\ Shape /\ job \in [Runs -> Job] /\ late \in [Runs -> SUBSET Job] /\ WorkOK(job[r]) /\ job[r] \in Job
      /\ Piece(job[r], late[r], item[r], draft[r], candidate[r]) /\ KeepsEvidence(job[r], item[r])
  BY RunTyped DEF RetryInv, Shape, TypeOK, RunOK
<1>2. item' = item /\ draft' = draft /\ candidate' = candidate
  BY DEF StageFails, StageTimesOut, RunnerDies, evidence
<1>3. late'[r] = late[r] \/ (job[r].working /\ job[r].pc \in Stages /\ late'[r] = late[r] \cup {job[r]})
  BY <1>1 DEF StageFails, StageTimesOut, RunnerDies, Ready, WorkOK
<1> DEFINE j == job'[r]
           g == GivenUp(r)
<1>4. /\ ~j.working
      /\ j.pc = "killed" \/ (j = g /\ job[r].pc \in Stages)
      /\ j.tainted = g.tainted
  <2>1. CASE RunnerDies(r)
    BY <1>1, <2>1, KilledIs DEF RunnerDies
  <2>2. CASE StageFails(r) \/ StageTimesOut(r)
    <3>1. j = g /\ job[r].pc \in Stages
      BY <1>1, <2>2 DEF StageFails, StageTimesOut, Ready, WorkOK
    <3>2. QED
      BY <1>1, <3>1, GivenUpIs
  <2>3. QED
    BY <2>1, <2>2
<1>5. IF InResearch(job[r])
      THEN g.pc = "research" /\ g.tainted = job[r].tainted \cup job[r].input
      ELSE g.pc = "fail" /\ g.tainted = job[r].tainted
  BY <1>1, GivenUpIs
<1>6. KeepsEvidence(j, item[r])
  <2>1. CASE j.pc = "killed"
    BY <2>1, NothingKept
  <2>2. CASE j = g
    BY <1>1, <2>2, GivenUpKeeps
  <2>3. QED
    BY <1>4, <2>1, <2>2
<1>7. CompleteSoFar(j, draft[r], candidate[r], row'[r])
  BY <1>4, <1>5, NothingComplete DEF Extracted
<1>8. Piece(j, late'[r], item[r], draft[r], candidate[r])
  <2>1. job[r].tainted \subseteq j.tainted
    BY <1>4, <1>5
  <2>2. /\ job[r].pc \in Given => j.pc \in Given
        /\ j.pc \in PreDraft => job[r].pc \in PreDraft
        /\ j.pc \in PreCandidate => job[r].pc \in PreCandidate
    BY <1>4, <1>5, PhasesApart DEF Given, PreDraft, PreCandidate, InResearch
  <2>3. IF InResearch(job[r]) THEN job[r].input \subseteq j.tainted ELSE j.pc \in Given
    BY <1>4, <1>5 DEF Given
  <2>4. ~j.working
    BY <1>4
  <2> HIDE DEF j
  <2>5. Piece(j, late[r], item[r], draft[r], candidate[r])
    BY <1>1, <2>1, <2>2, <2>4, StepKeepsPiece
  <2>6. job[r].working /\ job[r].pc \in Stages => Piece(j, late[r] \cup {job[r]}, item[r], draft[r], candidate[r])
    BY <1>1, <2>1, <2>2, <2>3, <2>4, StepKeepsPiece
  <2>7. QED
    BY <1>3, <2>5, <2>6
<1>9. QED
  BY <1>2, <1>6, <1>7, <1>8 DEF RunOK

\* Research ends, or plans a round.
LEMMA ResearchOK ==
    ASSUME RetryInv, NEW r \in Runs,
           RunOK(job[r], late[r], item[r], draft[r], candidate[r], row[r]), ResearchEnds(r) \/ Acquire(r)
    PROVE  RunOK(job'[r], late'[r], item'[r], draft'[r], candidate'[r], row'[r])
<1>1. /\ Shape /\ job \in [Runs -> Job] /\ job[r] \in Job
      /\ Piece(job[r], late[r], item[r], draft[r], candidate[r]) /\ KeepsEvidence(job[r], item[r])
  BY RunTyped DEF RetryInv, Shape, TypeOK, RunOK
<1>2. late' = late /\ item' = item /\ draft' = draft /\ candidate' = candidate /\ job[r].pc = "research"
  BY DEF ResearchEnds, Acquire, evidence
<1>3. \A s \in job[r].sources \ job[r].tainted : ContextOf(item[r], s) # None
  BY <1>1, <1>2 DEF KeepsEvidence
<1>4. PICK j : j = job'[r]
  OBVIOUS
<1>5. ~j.working /\ j.tainted = job[r].tainted /\ j.pc \in {"snapshot", "parse_chunk", "extraction"}
      /\ KeepsEvidence(j, item[r])
  <2>1. CASE ResearchEnds(r)
    <3>1. j = NextStage(r, "extraction", job[r].sources)
      BY <1>1, <1>4, <2>1 DEF ResearchEnds
    <3>2. "extraction" \in Steps \cup Ends /\ job[r].sources \in SUBSET Sources
      BY <1>1, JobFields DEF Steps, Stages
    <3>3. j.pc = "extraction" /\ ~j.working /\ SameProgress(j, job[r])
      BY <1>1, <3>1, <3>2, NextStageIs
    <3>4. QED
      BY <3>3, NothingKept DEF SameProgress
  <2>2. CASE Acquire(r)
    <3>1. PICK capture \in SUBSET (job[r].sources \cup (Companions \ job[r].scope)),
               again \in SUBSET job[r].sources : job' = [job EXCEPT ![r] = Planned(r, capture, again)]
      BY <2>2 DEF Acquire
    <3>2. j = Planned(r, capture, again)
      BY <1>1, <1>4, <3>1
    <3>3. capture \in SUBSET Sources /\ again \in SUBSET Sources /\ job[r].round < MaxRounds
      BY <1>1, <2>2, JobFields, SourceSets DEF Acquire
    <3>4. ~j.working /\ j.tainted = job[r].tainted /\ j.sources = job[r].sources
      BY <1>1, <3>2, <3>3, PlannedIs
    <3>5. \/ j.pc = "parse_chunk"
          \/ /\ j.pc = "snapshot" /\ j.input = capture
             /\ \A s \in capture : j.observed[s] = Context(r, s)
      BY <1>1, <3>2, <3>3, PlannedIs
    <3>6. \A s : Context(r, s) = ContextOf(item[r], s)
      BY DEF Context, ContextOf
    <3>7. KeepsEvidence(j, item[r])
      BY <1>3, <3>4, <3>5, <3>6 DEF KeepsEvidence
    <3>8. QED
      BY <3>4, <3>5, <3>7
  <2>3. QED
    BY <2>1, <2>2
<1>6. Piece(j, late[r], item[r], draft[r], candidate[r])
  BY <1>1, <1>2, <1>5, PhasesApart, StepKeepsPiece DEF PreDraft, PreCandidate, Given
<1>7. CompleteSoFar(j, draft[r], candidate[r], row'[r])
  BY <1>5, NothingComplete DEF Extracted
<1>8. QED
  BY <1>2, <1>4, <1>5, <1>6, <1>7 DEF RunOK

\* The end of a run.
LEMMA EndOK ==
    ASSUME RetryInv, NEW r \in Runs,
           RunOK(job[r], late[r], item[r], draft[r], candidate[r], row[r]),
           Summarize(r) \/ Promote(r) \/ EndFails(r) \/ Launch(r) \/ MarkFailed(r)
    PROVE  RunOK(job'[r], late'[r], item'[r], draft'[r], candidate'[r], row'[r])
<1>1. /\ Shape /\ job \in [Runs -> Job] /\ job[r] \in Job /\ WorkOK(job[r]) /\ row[r] \in Row
      /\ row \in [Runs -> Row]
      /\ Piece(job[r], late[r], item[r], draft[r], candidate[r])
      /\ CompleteSoFar(job[r], draft[r], candidate[r], row[r])
  BY RunTyped DEF RetryInv, Shape, TypeOK, RunOK
<1>2. late' = late /\ item' = item /\ draft' = draft
  BY DEF Summarize, Promote, EndFails, Launch, MarkFailed, evidence
<1>3. job[r].pc \in {"summarize", "promote", "launch", "fail"} /\ ~job[r].working
  BY <1>1 DEF Summarize, Promote, EndFails, Launch, MarkFailed, WorkOK, Stages
<1>4. PICK j : j = job'[r]
  OBVIOUS
<1>5. PICK pc \in {"promote", "launch", "fail", "done", "failed", "unrecorded"} :
          /\ Goto(r, pc)
          /\ \/ pc = "promote" /\ Summarize(r)
             \/ pc = "launch" /\ Promote(r)
             \/ pc = "fail" /\ EndFails(r)
             \/ pc = "done" /\ Launch(r)
             \/ pc \in {"failed", "unrecorded"} /\ MarkFailed(r)
  BY DEF Summarize, Promote, EndFails, Launch, MarkFailed
<1>6. ~j.working /\ j.pc = pc /\ SameProgress(j, job[r])
  <2>1. pc \in (Steps \cup Ends) \ {"normalization", "validation_routing"}
    BY DEF Steps, Ends
  <2>2. j = [job[r] EXCEPT !.pc = pc]
    BY <1>1, <1>4, <1>5, GotoJob
  <2>3. QED
    BY <1>1, <1>3, <2>1, <2>2, GotoIs
<1>7. Piece(j, late[r], item[r], draft[r], candidate[r])
  <2>1. /\ j.tainted = job[r].tainted
        /\ job[r].pc \in Given => j.pc \in Given
        /\ j.pc \notin PreDraft /\ j.pc \notin PreCandidate
    BY <1>5, <1>6
       DEF SameProgress, Given, PreDraft, PreCandidate, Summarize, Promote, EndFails, Launch, MarkFailed
  <2>2. QED
    BY <1>1, <1>6, <2>1, StepKeepsPiece
<1>8. KeepsEvidence(j, item[r])
  BY <1>6, NothingKept
<1>9. SuccessfulOf(j) = SuccessfulOf(job[r]) /\ j.scope = job[r].scope /\ j.extracted = job[r].extracted
      /\ j.targets = job[r].targets
  BY <1>6 DEF SameProgress, SuccessfulOf
<1>10. CASE pc = "promote" /\ Summarize(r)
  <2>1. candidate' = candidate /\ job[r].pc = "summarize" /\ pc = "promote"
    BY <1>10 DEF Summarize, evidence
  <2> DEFINE partial == Successful(r) # job[r].scope
             state == IF Successful(r) = {} THEN "failed" ELSE "completed"
             n == [row[r] EXCEPT !.state = state, !.partial = partial]
  <2>2. row'[r] = n
    BY <1>1, <1>10 DEF Summarize
  <2>3. partial \in BOOLEAN
    OBVIOUS
  <2> HIDE DEF partial, state
  <2>4. n.partial = partial
    BY <1>1 DEF Row
  <2>5. ~row'[r].partial => Successful(r) = job[r].scope
    BY <2>2, <2>4 DEF partial
  <2>6. CompleteSoFar(j, draft[r], candidate[r], row'[r])
    BY <1>1, <1>6, <1>9, <2>1, <2>5 DEF CompleteSoFar, Extracted, Successful, SuccessfulOf
  <2>7. QED
    BY <1>2, <1>4, <1>7, <1>8, <2>1, <2>6 DEF RunOK
<1>11. CASE pc = "launch" /\ Promote(r)
  <2>1. row' = row /\ job[r].pc = "promote" /\ pc = "launch"
    BY <1>11 DEF Promote
  <2>2. \A s \in Targets :
          /\ candidate'[r][s].content = candidate[r][s].content
          /\ candidate[r][s].state \notin {"none", "draft"} =>
                 candidate'[r][s].state \notin {"none", "draft"}
    <3> PICK decided \in SUBSET {s \in Targets : candidate[r][s].state = "auto_validated"},
             approved \in SUBSET Targets :
          candidate' = [candidate EXCEPT ![r] = [s \in Targets |->
              IF s \notin decided THEN candidate[r][s]
              ELSE [candidate[r][s] EXCEPT
                        !.state = IF s \in approved THEN "approved" ELSE "rejected"]]]
      BY <1>11 DEF Promote
    <3> TAKE s \in Targets
    <3>1. candidate[r][s] \in Candidate
      BY <1>1, RunTyped
    <3>2. candidate'[r][s] = IF s \notin decided THEN candidate[r][s]
              ELSE [candidate[r][s] EXCEPT
                        !.state = IF s \in approved THEN "approved" ELSE "rejected"]
      BY <1>1 DEF Shape, TypeOK
    <3>3. \A st \in {"approved", "rejected"} :
              /\ [candidate[r][s] EXCEPT !.state = st].content = candidate[r][s].content
              /\ [candidate[r][s] EXCEPT !.state = st].state = st
      BY <3>1 DEF Candidate
    <3>4. CASE s \notin decided
      BY <3>2, <3>4
    <3>5. CASE s \in decided
      BY <3>2, <3>3, <3>5
    <3>6. QED
      BY <3>4, <3>5
  <2>3. Piece(j, late[r], item[r], draft[r], candidate'[r])
    <3>1. \A T : OnePiece(T, item[r], draft[r], candidate[r]) => OnePiece(T, item[r], draft[r], candidate'[r])
      BY <2>2 DEF OnePiece
    <3>2. InOrder(j.pc, draft[r], candidate'[r])
      BY <1>6, <2>1 DEF InOrder, PreDraft, PreCandidate
    <3>3. \A w \in late[r] : InResearch(w)
      BY <1>6, <1>7, <2>1 DEF Piece, LateFits, Given
    <3>4. QED
      BY <1>6, <1>7, <3>1, <3>2, <3>3 DEF Piece
  <2>4. job[r].targets \subseteq Targets
    BY <1>1, JobFields
  <2>5. CompleteSoFar(j, draft[r], candidate'[r], row'[r])
    BY <1>1, <1>6, <1>9, <2>1, <2>2, <2>4 DEF CompleteSoFar, Extracted
  <2>6. QED
    BY <1>2, <1>4, <1>8, <2>3, <2>5 DEF RunOK
<1>12. CASE (pc = "fail" /\ EndFails(r)) \/ (pc \in {"failed", "unrecorded"} /\ MarkFailed(r))
  <2>1. candidate' = candidate /\ pc \notin Extracted
    BY <1>12 DEF EndFails, MarkFailed, evidence, Extracted
  <2>2. CompleteSoFar(j, draft[r], candidate[r], row'[r])
    BY <1>6, <2>1, NothingComplete
  <2>3. QED
    BY <1>2, <1>4, <1>7, <1>8, <2>1, <2>2 DEF RunOK
<1>13. CASE pc = "done" /\ Launch(r)
  <2>1. candidate' = candidate /\ row' = row /\ job[r].pc = "launch"
    BY <1>13 DEF Launch, evidence
  <2>2. CompleteSoFar(j, draft[r], candidate[r], row'[r])
    BY <1>1, <1>6, <1>9, <1>13, <2>1 DEF CompleteSoFar, Extracted
  <2>3. QED
    BY <1>2, <1>4, <1>7, <1>8, <2>1, <2>2 DEF RunOK
<1>14. QED
  BY <1>5, <1>10, <1>11, <1>12, <1>13

\* A stage of the runner ends.
LEMMA PersistOK ==
    ASSUME RetryInv, NEW r \in Runs,
           RunOK(job[r], late[r], item[r], draft[r], candidate[r], row[r]), Persist(r)
    PROVE  /\ RunOK(job'[r], late'[r], item'[r], draft'[r], candidate'[r], row'[r])
           /\ \A q \in Runs \ {r} : item'[q] = item[q] /\ draft'[q] = draft[q] /\ candidate'[q] = candidate[q]
<1>1. /\ Shape /\ job \in [Runs -> Job] /\ job[r] \in Job /\ WorkOK(job[r]) /\ late' = late
      /\ Piece(job[r], late[r], item[r], draft[r], candidate[r]) /\ KeepsEvidence(job[r], item[r])
      /\ CompleteSoFar(job[r], draft[r], candidate[r], row[r])
  BY RunTyped DEF RetryInv, Shape, TypeOK, RunOK, Persist
<1>2. PICK ok \in SUBSET job[r].input : Writes(r, job[r], ok) /\ job' = [job EXCEPT ![r] = After(r, ok)]
  BY DEF Persist
<1>3. /\ job[r].working /\ job[r].pc \in Stages
      /\ \A s \in job[r].input : job[r].read[s] \in Contents
      /\ job[r].pc \in {"normalization", "validation_routing"} => job[r].input \subseteq Targets
      /\ job[r].input \subseteq Sources /\ job[r].round \in Nat
  BY <1>1, JobFields, BoundsAssumption DEF Persist, WorkOK, Ready
<1>4. /\ Wrote(job[r], ok, item[r], item'[r], draft[r], draft'[r], candidate[r], candidate'[r])
      /\ \A q \in Runs \ {r} : item'[q] = item[q] /\ draft'[q] = draft[q] /\ candidate'[q] = candidate[q]
  BY <1>1, <1>2, <1>3, WritesWrote
<1>5. PICK j : j = job'[r]
  OBVIOUS
<1>6. j = After(r, ok)
  BY <1>1, <1>2, <1>5
<1>7. ~j.working
  BY <1>1, <1>3, <1>6, AfterIs
<1>8. ASSUME job[r].tainted = j.tainted \/ job[r].pc \in {"snapshot", "parse_chunk"},
             \A w \in late[r] : w.input \subseteq job[r].tainted => w.input \subseteq j.tainted,
             j.pc \in PreDraft => job[r].pc \in {"snapshot", "parse_chunk"},
             j.pc \in PreCandidate => job[r].pc \in {"snapshot", "parse_chunk", "extraction"},
             KeepsEvidence(j, item'[r]),
             CompleteSoFar(j, draft'[r], candidate'[r], row'[r])
      PROVE  RunOK(job'[r], late'[r], item'[r], draft'[r], candidate'[r], row'[r])
  <2>1. Piece(j, late[r], item'[r], draft'[r], candidate'[r])
    BY <1>1, <1>3, <1>4, <1>7, <1>8, PersistKeepsPiece
  <2>2. QED
    BY <1>1, <1>5, <1>8, <2>1 DEF RunOK
<1>9. CASE job[r].pc = "snapshot" /\ ~InResearch(job[r])
  <2>1. j = AfterSnapshot(r, ok)
    BY <1>6, <1>9 DEF After
  <2>2. j.tainted = job[r].tainted /\ j.round = job[r].round /\ (j.pc = "fail" \/ j.pc = "parse_chunk")
    BY <1>1, <2>1, AfterSnapshotIs
  <2>3. ~(j.round > 0)
    BY <1>9, <2>2 DEF InResearch
  <2>4. KeepsEvidence(j, item'[r])
    BY <2>2, <2>3 DEF KeepsEvidence
  <2>5. CompleteSoFar(j, draft'[r], candidate'[r], row'[r])
    BY <2>2, NothingComplete DEF Extracted
  <2>6. QED
    BY <1>4, <1>8, <1>9, <2>2, <2>4, <2>5
<1>10. CASE job[r].pc = "snapshot" /\ InResearch(job[r])
  <2>1. j = AfterResearchSnapshot(r, ok)
    BY <1>6, <1>10 DEF After
  <2>2. SameProgress(j, job[r])
    BY <1>1, <2>1, AfterResearchSnapshotIs
  <2>3. (j.pc = "research" /\ ok = {}) \/ (j.pc = "parse_chunk" /\ ok \subseteq j.input)
    BY <1>1, <2>1, AfterResearchSnapshotIs
  <2>4. CaptureWrote(job[r], ok, item[r], item'[r])
    BY <1>4, <1>10 DEF Wrote
  <2>5. ASSUME NEW s \in j.sources \ j.tainted, s \notin ok
        PROVE  ContextOf(item'[r], s) # None
    <3>1. s \in job[r].sources \ job[r].tainted /\ s \in Sources
      BY <1>1, <2>2, <2>5, JobFields DEF SameProgress
    <3>2. ContextOf(item[r], s) # None /\ (s \in job[r].input => job[r].observed[s] = ContextOf(item[r], s))
      BY <1>1, <1>10, <3>1 DEF KeepsEvidence, InResearch
    <3>3. item'[r][s] = item[r][s]
      BY <2>4, <2>5, <3>1, <3>2 DEF CaptureWrote
    <3>4. QED
      BY <3>2, <3>3 DEF ContextOf
  <2>6. KeepsEvidence(j, item'[r])
    BY <2>3, <2>5 DEF KeepsEvidence
  <2>7. CompleteSoFar(j, draft'[r], candidate'[r], row'[r])
    BY <2>3, NothingComplete DEF Extracted
  <2>8. QED
    BY <1>4, <1>8, <1>10, <2>2, <2>3, <2>6, <2>7 DEF SameProgress
<1>11. CASE job[r].pc = "parse_chunk"
  <2>1. ParseWrote(job[r], ok, item[r], item'[r])
    BY <1>4, <1>11 DEF Wrote
  <2>2. \A s \in ok : ContextOf(item'[r], s) # None
    <3> SUFFICES ASSUME NEW s \in ok PROVE ContextOf(item'[r], s) # None
      OBVIOUS
    <3>1. s \in Sources /\ s \in job[r].input /\ job[r].read[s] # None
      BY <1>3, NoneAssumption
    <3>2. QED
      BY <2>1, <3>1 DEF ParseWrote, ContextOf
  <2>3. CASE ~InResearch(job[r])
    <3>1. j = AfterParse(r, ok)
      BY <1>6, <1>11, <2>3 DEF After
    <3>2. j.tainted = job[r].tainted /\ (j.pc = "fail" \/ (j.pc = "research" /\ j.sources = ok))
      BY <1>1, <3>1, AfterParseIs
    <3>3. KeepsEvidence(j, item'[r])
      BY <2>2, <3>2 DEF KeepsEvidence
    <3>4. CompleteSoFar(j, draft'[r], candidate'[r], row'[r])
      BY <3>2, NothingComplete DEF Extracted
    <3>5. QED
      BY <1>4, <1>8, <1>11, <3>2, <3>3, <3>4
  <2>4. CASE InResearch(job[r])
    <3>1. j = AfterResearchParse(r, ok)
      BY <1>6, <1>11, <2>4 DEF After
    <3>2. /\ j.pc = "research" /\ j.sources = job[r].sources \cup ok
          /\ j.tainted = (job[r].tainted \cup job[r].input) \ (ok \ UNION {w.input : w \in late[r]})
      BY <1>1, <3>1, AfterResearchParseIs
    <3>3. \A w \in late[r] : w.input \subseteq UNION {v.input : v \in late[r]}
      OBVIOUS
    <3>4. \A w \in late[r] : w.input \subseteq job[r].tainted => w.input \subseteq j.tainted
      BY <3>2, <3>3
    <3>5. ASSUME NEW s \in j.sources \ j.tainted
          PROVE  ContextOf(item'[r], s) # None
      <4>1. CASE s \in ok
        BY <2>2, <4>1
      <4>2. CASE s \notin ok
        <5>1. s \in job[r].sources \ job[r].tainted /\ s \notin job[r].input /\ s \in Sources
          BY <1>1, <3>2, <3>5, <4>2, JobFields
        <5>2. ContextOf(item[r], s) # None
          BY <1>1, <1>11, <2>4, <5>1 DEF KeepsEvidence, InResearch
        <5>3. item'[r][s] = item[r][s]
          BY <2>1, <5>1 DEF ParseWrote
        <5>4. QED
          BY <5>2, <5>3 DEF ContextOf
      <4>3. QED
        BY <4>1, <4>2
    <3>6. KeepsEvidence(j, item'[r])
      BY <3>2, <3>5 DEF KeepsEvidence
    <3>7. CompleteSoFar(j, draft'[r], candidate'[r], row'[r])
      BY <3>2, NothingComplete DEF Extracted
    <3>8. QED
      BY <1>4, <1>8, <1>11, <3>4, <3>6, <3>7
  <2>5. QED
    BY <2>3, <2>4
<1>12. CASE job[r].pc = "extraction"
  <2>1. j = AfterExtraction(r, ok)
    BY <1>6, <1>12 DEF After
  <2>2. /\ j.tainted = job[r].tainted
        /\ \/ j.pc = "fail"
           \/ /\ j.pc = "normalization" /\ j.extracted = ok
              /\ j.targets = job[r].targets \cap ok /\ j.input = j.targets
    BY <1>1, <2>1, AfterExtractionIs
  <2>3. \A s \in ok : draft'[r][s] # None
    BY <1>3, <1>4, <1>12, NoneAssumption DEF Wrote
  <2>4. CompleteSoFar(j, draft'[r], candidate'[r], row'[r])
    BY <2>2, <2>3 DEF CompleteSoFar, Extracted
  <2>5. KeepsEvidence(j, item'[r])
    BY <2>2, NothingKept
  <2>6. j.pc \notin PreDraft
    BY <2>2 DEF PreDraft
  <2>7. QED
    BY <1>4, <1>8, <1>12, <2>2, <2>4, <2>5, <2>6
<1>13. CASE job[r].pc = "normalization"
  <2>1. j = AfterNormalization(r, ok)
    BY <1>6, <1>13 DEF After
  <2>2. /\ j.tainted = job[r].tainted
        /\ \/ j.pc = "fail"
           \/ /\ j.pc = "validation_routing" /\ j.extracted = job[r].extracted
              /\ j.targets = ok /\ j.input = ok
    BY <1>1, <1>3, <1>13, <2>1, AfterNormalizationIs
  <2>3. /\ draft'[r] = draft[r] /\ \A s \in job[r].extracted : draft[r][s] # None
        /\ ok \subseteq job[r].extracted
    BY <1>1, <1>4, <1>13 DEF CompleteSoFar, Extracted, Wrote
  <2>4. CompleteSoFar(j, draft'[r], candidate'[r], row'[r])
    BY <2>2, <2>3 DEF CompleteSoFar, Extracted
  <2>5. KeepsEvidence(j, item'[r])
    BY <2>2, NothingKept
  <2>6. j.pc \notin PreDraft /\ j.pc \notin PreCandidate
    BY <2>2 DEF PreDraft, PreCandidate
  <2>7. QED
    BY <1>4, <1>8, <2>2, <2>4, <2>5, <2>6
<1>14. CASE job[r].pc = "validation_routing"
  <2>1. j = AfterValidation(r, ok)
    BY <1>6, <1>14 DEF After
  <2>2. /\ j.tainted = job[r].tainted /\ j.pc = "summarize" /\ j.extracted = job[r].extracted /\ j.targets = ok
    BY <1>1, <1>3, <1>14, <2>1, AfterValidationIs
  <2>3. /\ draft'[r] = draft[r] /\ \A s \in job[r].extracted : draft[r][s] # None
        /\ ok \subseteq job[r].extracted
        /\ \A s \in ok : candidate'[r][s].state \notin {"none", "draft"}
    BY <1>1, <1>3, <1>4, <1>14 DEF CompleteSoFar, Extracted, Wrote
  <2>4. CompleteSoFar(j, draft'[r], candidate'[r], row'[r])
    BY <2>2, <2>3 DEF CompleteSoFar, Extracted
  <2>5. KeepsEvidence(j, item'[r])
    BY <2>2, NothingKept
  <2>6. j.pc \notin PreDraft /\ j.pc \notin PreCandidate
    BY <2>2 DEF PreDraft, PreCandidate
  <2>7. QED
    BY <1>4, <1>8, <2>2, <2>4, <2>5, <2>6
<1>15. QED
  BY <1>3, <1>9, <1>10, <1>11, <1>12, <1>13, <1>14 DEF Stages

\* A stage that its runner gave up ends.
LEMMA LateWriteOK ==
    ASSUME RetryInv, NEW r \in Runs,
           RunOK(job[r], late[r], item[r], draft[r], candidate[r], row[r]), LateWrite(r)
    PROVE  /\ RunOK(job'[r], late'[r], item'[r], draft'[r], candidate'[r], row'[r])
           /\ \A q \in Runs \ {r} : item'[q] = item[q] /\ draft'[q] = draft[q] /\ candidate'[q] = candidate[q]
<1>1. /\ Shape /\ late \in [Runs -> SUBSET Job] /\ row \in [Runs -> Row]
      /\ job[r] \in Job /\ WorkOK(job[r]) /\ job' = job
      /\ \A w \in late[r] : WorkOK(w) /\ Ready(w) /\ w \in Job
      /\ Piece(job[r], late[r], item[r], draft[r], candidate[r]) /\ KeepsEvidence(job[r], item[r])
      /\ CompleteSoFar(job[r], draft[r], candidate[r], row[r])
  BY RunTyped DEF RetryInv, Shape, TypeOK, RunOK, LateWrite
<1>2. PICK w \in late[r] :
        /\ \E ok \in SUBSET w.input :
            /\ Writes(r, w, ok)
            /\ row' = [row EXCEPT ![r] = Left(r, w, ok)]
        /\ late' = [late EXCEPT ![r] = @ \ {w}]
  BY DEF LateWrite
<1>3. PICK ok \in SUBSET w.input : Writes(r, w, ok) /\ row' = [row EXCEPT ![r] = Left(r, w, ok)]
  BY <1>2
<1>4. /\ w \in Job /\ w.pc \in Stages /\ late'[r] = late[r] \ {w} /\ late[r] \in SUBSET Job
      /\ \A s \in w.input : w.read[s] \in Contents
      /\ w.pc \in {"normalization", "validation_routing"} => w.input \subseteq Targets
      /\ job[r].working => job[r].pc \in Stages
  BY <1>1, <1>2 DEF WorkOK, Ready
<1>5. /\ Wrote(w, ok, item[r], item'[r], draft[r], draft'[r], candidate[r], candidate'[r])
      /\ \A q \in Runs \ {r} : item'[q] = item[q] /\ draft'[q] = draft[q] /\ candidate'[q] = candidate[q]
  BY <1>1, <1>3, <1>4, WritesWrote
<1>6. Piece(job[r], late[r] \ {w}, item'[r], draft'[r], candidate'[r])
  BY <1>1, <1>2, <1>4, <1>5, LateKeepsPiece
<1>7. /\ InResearch(w) =>
            /\ draft'[r] = draft[r] /\ candidate'[r] = candidate[r]
            /\ \A s \in Sources \ job[r].tainted : item'[r][s] = item[r][s]
      /\ ~InResearch(w) => job[r].pc \in Given
  <2>1. InResearch(w) => draft'[r] = draft[r] /\ candidate'[r] = candidate[r]
    BY <1>5 DEF InResearch, Wrote
  <2>2. InResearch(w) => w.input \subseteq job[r].tainted
    BY <1>1, <1>2 DEF Piece, LateFits
  <2>3. InResearch(w) => \A s \in Sources \ w.input : item'[r][s] = item[r][s]
    BY <1>5 DEF InResearch, Wrote, CaptureWrote, ParseWrote
  <2>4. ~InResearch(w) => job[r].pc \in Given
    BY <1>1, <1>2 DEF Piece, LateFits
  <2>5. QED
    BY <2>1, <2>2, <2>3, <2>4
<1>8. CASE ~InResearch(w)
  <2>1. KeepsEvidence(job[r], item'[r]) /\ CompleteSoFar(job[r], draft'[r], candidate'[r], row'[r])
    BY <1>7, <1>8, NothingKept, NothingComplete DEF Given, Extracted
  <2>2. QED
    BY <1>1, <1>4, <1>5, <1>6, <2>1 DEF RunOK
<1>9. CASE InResearch(w)
  <2>1. row'[r].stage # "validation_routing"
    BY <1>1, <1>3, <1>4, <1>9, LeftIs DEF InResearch
  <2>2. CompleteSoFar(job[r], draft'[r], candidate'[r], row'[r])
    BY <1>1, <1>7, <1>9, <2>1 DEF CompleteSoFar
  <2>3. job[r].sources \subseteq Sources
    BY <1>1, JobFields
  <2>4. \A s \in job[r].sources \ job[r].tainted : ContextOf(item'[r], s) = ContextOf(item[r], s)
    BY <1>7, <1>9, <2>3 DEF ContextOf
  <2>5. KeepsEvidence(job[r], item'[r])
    BY <1>1, <2>4 DEF KeepsEvidence
  <2>6. QED
    BY <1>1, <1>4, <1>5, <1>6, <2>2, <2>5 DEF RunOK
<1>10. QED
  BY <1>8, <1>9

\* A row that is not completed, or as it was, is no worse.
LEMMA RowMattersLittle ==
    ASSUME NEW j, NEW L, NEW it, NEW d, NEW c, NEW w, NEW w2, RunOK(j, L, it, d, c, w),
           w2.state = "completed" => w2 = w
    PROVE  RunOK(j, L, it, d, c, w2)
BY DEF RunOK, CompleteSoFar

LEMMA InitEvidence == Init => EvidenceInv
<1> SUFFICES ASSUME Init, NEW r \in Runs
             PROVE  RunOK(job[r], late[r], item[r], draft[r], candidate[r], row[r])
  BY InitRetry DEF EvidenceInv
<1>1. /\ job[r] = NoJob /\ late[r] = {} /\ \A s \in Sources : draft[r][s] = None
      /\ \A s \in Targets : candidate[r][s].content = None
  BY DEF Init
<1>2. NoJob.pc = "none" /\ ~NoJob.working
  BY DEF NoJob
<1>3. Piece(NoJob, {}, item[r], draft[r], candidate[r])
  BY <1>1, <1>2, SourceSets DEF Piece, LateFits, InOrder, OnePiece
<1>4. KeepsEvidence(NoJob, item[r]) /\ CompleteSoFar(NoJob, draft[r], candidate[r], row[r])
  BY <1>2, NothingKept, NothingComplete DEF Extracted
<1>5. QED
  BY <1>1, <1>3, <1>4 DEF RunOK

LEMMA RegisterEvidence ==
    ASSUME EvidenceInv, RetryInv', NEW r \in Runs, NEW o \in Runs \cup {None}, Register(r, o)
    PROVE  EvidenceInv'
<1> DEFINE j == [NoJob EXCEPT !.pc = "snapshot", !.input = Selected,
                              !.scope = Selected, !.sources = Selected, !.targets = Targets]
<1>1. j.pc = "snapshot" /\ ~j.working /\ j.round = 0 /\ j.tainted = {}
  BY RegisteredIs
<1>2. job \in [Runs -> Job] /\ row \in [Runs -> Row]
  BY DEF EvidenceInv, RetryInv, Shape, TypeOK
<1>3. /\ job' = [job EXCEPT ![r] = j] /\ UNCHANGED <<item, draft, candidate, late>> /\ request[r] = "none"
      /\ \A q \in Runs \ {r} : row'[q] = row[q]
  BY <1>2 DEF Register, evidence
<1> HIDE DEF j
<1>4. job[r] = NoJob
  BY <1>3 DEF EvidenceInv, RetryInv, NotYet
<1>5. NoJob.pc = "none" /\ NoJob.tainted = {}
  BY DEF NoJob
<1>6. Piece(j, late[r], item[r], draft[r], candidate[r])
  <2>1. Piece(NoJob, late[r], item[r], draft[r], candidate[r])
    BY <1>4 DEF EvidenceInv, RunOK
  <2>2. QED
    BY <1>1, <1>5, <2>1, StepKeepsPiece DEF Given, PreDraft, PreCandidate
<1>7. KeepsEvidence(j, item[r])
  BY <1>1 DEF KeepsEvidence
<1>8. CompleteSoFar(j, draft[r], candidate[r], row'[r])
  BY <1>1, NothingComplete DEF Extracted
<1>9. job'[r] = j /\ \A q \in Runs \ {r} : job'[q] = job[q]
  BY <1>2, <1>3
<1>10. ASSUME NEW q \in Runs
       PROVE  RunOK(job'[q], late'[q], item'[q], draft'[q], candidate'[q], row'[q])
  <2>1. CASE q = r
    BY <1>3, <1>6, <1>7, <1>8, <1>9, <2>1 DEF RunOK
  <2>2. CASE q # r
    BY <1>3, <1>9, <2>2 DEF EvidenceInv
  <2>3. QED
    BY <2>1, <2>2
<1>11. QED
  BY <1>10 DEF EvidenceInv

LEMMA RequestEvidence ==
    ASSUME EvidenceInv, RetryInv', NEW r \in Runs, CommitRequest(r) \/ AbortRequest(r)
    PROVE  EvidenceInv'
<1>1. UNCHANGED <<item, draft, candidate, late, job>>
  BY DEF CommitRequest, AbortRequest, evidence
<1>2. Shape /\ row \in [Runs -> Row] /\ row[r].retryOf \in Runs \cup {None}
  BY RunTyped, RowFields DEF EvidenceInv, RetryInv, Shape, TypeOK
<1>3. ASSUME NEW q \in Runs
      PROVE  row'[q].state = "completed" => row'[q] = row[q]
  <2>1. CASE CommitRequest(r)
    <3> DEFINE o == row[r].retryOf
    <3>1. row'[q] = row[q] \/ (o \in Runs /\ row'[q] = Superseded(o, r) /\ q = o)
      BY <1>2, <2>1 DEF CommitRequest
    <3>2. QED
      BY <1>2, <3>1, SupersededIs
  <2>2. CASE AbortRequest(r)
    <3>1. row'[q] = row[q] \/ row'[q] = NoRow
      BY <1>2, <2>2 DEF AbortRequest
    <3>2. QED
      BY <3>1 DEF NoRow
  <2>3. QED
    BY <2>1, <2>2
<1>4. ASSUME NEW q \in Runs
      PROVE  RunOK(job'[q], late'[q], item'[q], draft'[q], candidate'[q], row'[q])
  BY <1>1, <1>3, RowMattersLittle DEF EvidenceInv
<1>5. QED
  BY <1>4 DEF EvidenceInv

LEMMA NextEvidence == EvidenceInv /\ [Next]_vars => EvidenceInv'
<1> SUFFICES ASSUME EvidenceInv, [Next]_vars PROVE EvidenceInv'
  OBVIOUS
<1>1. RetryInv /\ RetryInv' /\ Shape
  BY NextRetry DEF EvidenceInv, RetryInv
<1>2. ASSUME NEW r \in Runs, Runner(r) \/ StageTimesOut(r) \/ LateWrite(r) \/ RunnerDies(r)
      PROVE  EvidenceInv'
  <2>1. \A q \in Runs \ {r} : job'[q] = job[q] /\ late'[q] = late[q] /\ row'[q] = row[q]
    BY <1>1, <1>2, StepMoves, PersistMoves, LateWriteMoves DEF Runner, RunnerMoves, RowMoves
  <2>2. RunOK(job[r], late[r], item[r], draft[r], candidate[r], row[r])
    BY DEF EvidenceInv
  <2>3. /\ RunOK(job'[r], late'[r], item'[r], draft'[r], candidate'[r], row'[r])
        /\ \A q \in Runs \ {r} : item'[q] = item[q] /\ draft'[q] = draft[q] /\ candidate'[q] = candidate[q]
    <3>1. CASE Persist(r)
      BY <1>1, <2>2, <3>1, PersistOK
    <3>2. CASE LateWrite(r)
      BY <1>1, <2>2, <3>2, LateWriteOK
    <3>3. CASE ~Persist(r) /\ ~LateWrite(r)
      <4>1. RunOK(job'[r], late'[r], item'[r], draft'[r], candidate'[r], row'[r])
        BY <1>1, <1>2, <2>2, <3>3, BeginOK, GivenUpOK, ResearchOK, EndOK DEF Runner
      <4>2. /\ item' = item /\ draft' = draft
            /\ \/ candidate' = candidate
               \/ \E cs \in [Targets -> Candidate] : candidate' = [candidate EXCEPT ![r] = cs]
        BY <1>1, <1>2, <3>3, StepRest DEF Runner
      <4>3. \A q \in Runs \ {r} : candidate'[q] = candidate[q]
        BY <1>1, <4>2 DEF Shape, TypeOK
      <4>4. QED
        BY <4>1, <4>2, <4>3
    <3>4. QED
      BY <3>1, <3>2, <3>3
  <2>4. ASSUME NEW q \in Runs
        PROVE  RunOK(job'[q], late'[q], item'[q], draft'[q], candidate'[q], row'[q])
    <3>1. CASE q = r
      BY <2>3, <3>1
    <3>2. CASE q # r
      BY <2>1, <2>3, <3>2 DEF EvidenceInv
    <3>3. QED
      BY <3>1, <3>2
  <2>5. QED
    BY <1>1, <2>4 DEF EvidenceInv
<1>3. ASSUME UNCHANGED <<job, late, item, draft, candidate, row>>
      PROVE  EvidenceInv'
  BY <1>1, <1>3 DEF EvidenceInv
<1>4. ASSUME NEW s \in Sources, PageChanges(s)
      PROVE  EvidenceInv'
  BY <1>3, <1>4 DEF PageChanges, evidence
<1>5. CASE UNCHANGED vars
  BY <1>3, <1>5 DEF vars
<1>6. QED
  BY <1>1, <1>2, <1>4, <1>5, RegisterEvidence, RequestEvidence DEF Next

LEMMA EvidenceInvariant == Spec => []EvidenceInv
BY InitEvidence, NextEvidence, PTL DEF Spec

\* The extraction artifacts and the candidates of a run come from the snapshot it
\* selected and parsed, whatever other runs store, whatever goes on after its
\* runner gave it up (fpds_extraction, fpds_normalization, fpds_validation_routing).
THEOREM EvidenceIsOfOnePiece == Spec => []OneSnapshotPerRun
<1>1. ASSUME EvidenceInv
      PROVE  OneSnapshotPerRun
  <2> SUFFICES ASSUME NEW r \in Runs, job[r].tainted = {}
               PROVE  /\ \A s \in Sources : draft[r][s] # None =>
                          draft[r][s] = item[r][s].selected /\ draft[r][s] = item[r][s].doc
                      /\ \A s \in Targets : candidate[r][s].content # None =>
                          candidate[r][s].content = draft[r][s]
    BY DEF OneSnapshotPerRun
  <2>1. OnePiece({}, item[r], draft[r], candidate[r])
    BY <1>1 DEF EvidenceInv, RunOK, Piece
  <2>2. QED
    BY <2>1 DEF OnePiece
<1>2. QED
  BY <1>1, EvidenceInvariant, PTL

\* In research, every source that is not tainted can still be extracted
\* (_run_group's research rounds, fpds_snapshot's failed renders).
THEOREM ResearchCostsNoEvidence == Spec => []ResearchKeepsEvidence
<1>1. ASSUME EvidenceInv
      PROVE  ResearchKeepsEvidence
  <2>1. \A r \in Runs : KeepsEvidence(job[r], item[r])
    BY <1>1 DEF EvidenceInv, RunOK
  <2>2. \A r \in Runs, s \in Sources : Context(r, s) = ContextOf(item[r], s)
    BY DEF Context, ContextOf
  <2>3. \A r \in Runs : job[r].sources \subseteq Sources
    BY <1>1, RunTyped, JobFields DEF EvidenceInv, RetryInv
  <2>4. QED
    BY <2>1, <2>2, <2>3 DEF KeepsEvidence, ResearchKeepsEvidence
<1>2. QED
  BY <1>1, EvidenceInvariant, PTL

\* A clean run has taken every source of its scope to where it had to go, targets
\* to a validated candidate, decided or passed over by the promotion
\* (_build_end_to_end_source_summary).
THEOREM CleanRunsAreComplete == Spec => []CleanRunIsComplete
<1>1. ASSUME EvidenceInv
      PROVE  CleanRunIsComplete
  <2> SUFFICES ASSUME NEW r \in Runs, job[r].pc = "done", row[r].stage = "validation_routing",
                      row[r].state = "completed", ~row[r].partial, NEW s \in job[r].scope
               PROVE  /\ draft[r][s] # None
                      /\ s \in Targets => candidate[r][s].state \notin {"none", "draft"}
    BY DEF CleanRunIsComplete
  <2>1. CompleteSoFar(job[r], draft[r], candidate[r], row[r])
    BY <1>1 DEF EvidenceInv, RunOK
  <2>2. /\ \A t \in job[r].extracted : draft[r][t] # None
        /\ job[r].targets \subseteq job[r].extracted
        /\ \A t \in job[r].targets : candidate[r][t].state \notin {"none", "draft"}
        /\ SuccessfulOf(job[r]) = job[r].scope
    BY <2>1 DEF CompleteSoFar, Extracted
  <2>3. QED
    BY <2>2 DEF SuccessfulOf
<1>2. QED
  BY <1>1, EvidenceInvariant, PTL
=============================================================================
