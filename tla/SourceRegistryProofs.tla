------------------------ MODULE SourceRegistryProofs ------------------------
(* What SourceRegistry promises for any number of pages, discoveries and   *)
(* removals.  The invariant says of every transaction, in terms of what is *)
(* committed, what it may have written: that is what its commit shows.     *)
EXTENDS SourceRegistry, TLAPS

-----------------------------------------------------------------------------
(* The inductive invariant *)

\* No row is written by two transactions.
LocksExclude ==
    \A d, e \in Discoveries : d # e =>
        \A s \in Sources : work[d].rows[s] = None \/ work[e].rows[s] = None

\* Why the transaction of w may deactivate an active row.
Reason(w, s) ==
    /\ s \in w.blamed \/ (w.details # {} /\ (row[s].role = "detail" => w.again))
    /\ row[s].role = "detail" /\ s \in Seeds => w.again

\* Rows to be deactivated were turned down, and are not of the seed list.
StaleSound(w) == w.stale \subseteq w.blamed /\ w.stale \cap Seeds = {}

\* Before the first look at the site nothing is found or written; before the second,
\* nothing is found.
FreshSound(w) ==
    w.pc \in {"idle", "generate"} =>
        w.details = {} /\ (w.again \/ \A s \in Sources : w.rows[s] = None)

RowsSound(w) == \A s \in Sources : w.rows[s] # None =>
    /\ row[s].status = "removed" => w.rows[s].status = "removed" \/ s \in w.blamed
    /\ row[s].status = "active" /\ w.rows[s].status = "inactive" => Reason(w, s)

\* The details found are written last.
FoundSound(w) ==
    w.pc = "settle" => \A s \in w.details :
        w.rows[s] # None /\ w.rows[s].role = "detail" /\ w.rows[s].status \in {"active", "removed"}

TargetsSound(w) ==
    w.pc \in {"probe", "prepare", "start"} => \A s \in w.targets \cap w.details :
        w.rows[s] = [status |-> "active", role |-> "detail"]

Sound(w) ==
    StaleSound(w) /\ FreshSound(w) /\ RowsSound(w) /\ FoundSound(w) /\ TargetsSound(w)

IInv == TypeOK /\ LocksExclude /\ \A d \in Discoveries : Sound(work[d])

-----------------------------------------------------------------------------
(* Types *)

LEMMA WorkOf == ASSUME TypeOK, NEW d \in Discoveries PROVE work[d] \in Work
BY DEF TypeOK

\* A discovery reads rows.
LEMMA RowInType ==
    ASSUME TypeOK, NEW d \in Discoveries, NEW s \in Sources
    PROVE  RowIn(d, s) \in Row
<1>1. row[s] \in Row
    BY DEF TypeOK
<1>2. work[d].rows[s] \in Row \cup {None}
    BY WorkOf DEF Work
<1>. QED BY <1>1, <1>2 DEF RowIn

\* What a statement writes is rows, and what it does not write is left alone.
LEMMA WrittenType ==
    ASSUME TypeOK, NEW d \in Discoveries, NEW ss \in SUBSET Sources,
           NEW new \in [ss -> Row]
    PROVE  /\ Written(d, new) \in [Sources -> Row \cup {None}]
           /\ \A s \in Sources \ ss : Written(d, new)[s] = work[d].rows[s]
           /\ \A s \in ss : Written(d, new)[s] = new[s] /\ new[s] # None
<1>1. work[d].rows \in [Sources -> Row \cup {None}]
    BY WorkOf DEF Work
<1>. QED BY <1>1, NoneAssumption DEF Written

LEMMA StatusType ==
    ASSUME TypeOK, NEW d \in Discoveries, NEW ss \in SUBSET Sources,
           NEW status \in {"active", "inactive", "removed"}
    PROVE  /\ Status(d, ss, status) \in [ss -> Row]
           /\ \A s \in ss : Status(d, ss, status)[s].status = status
<1> SUFFICES ASSUME NEW s \in ss
             PROVE  /\ [RowIn(d, s) EXCEPT !.status = status] \in Row
                    /\ [RowIn(d, s) EXCEPT !.status = status].status = status
    BY DEF Status
<1>. QED BY RowInType DEF Row

LEMMA NoWorkType == ASSUME NEW pc \in Ends
                    PROVE  [NoWork EXCEPT !.pc = pc] \in Work
BY DEF NoWork, Work

-----------------------------------------------------------------------------
(* The two ways in which the invariant is kept *)

\* A statement of d changes its transaction only, and writes rows that no other
\* transaction has written.
LEMMA OwnStep ==
    ASSUME IInv, NEW d \in Discoveries, NEW w \in Work,
           work' = [work EXCEPT ![d] = w], UNCHANGED <<row, removal>>,
           holder' \in Discoveries \cup {None}, expiries' \in Nat,
           Sound(w),
           \A s \in Sources : w.rows[s] # None => work[d].rows[s] # None \/ Free(d, {s})
    PROVE  IInv'
<1>1. TypeOK'
    BY DEF IInv, TypeOK
<1>2. \A e \in Discoveries : work'[e] = IF e = d THEN w ELSE work[e]
    BY DEF IInv, TypeOK
<1>3. LocksExclude'
    BY <1>2 DEF IInv, LocksExclude, Free
<1>4. \A e \in Discoveries : Sound(work'[e])
    BY <1>2 DEF IInv
<1>5. ASSUME NEW e \in Discoveries PROVE Sound(work[e])'
    <2>1. StaleSound(work[e])' /\ FreshSound(work[e])' /\ FoundSound(work[e])'
        BY <1>4 DEF Sound, StaleSound, FreshSound, FoundSound
    <2>2. TargetsSound(work[e])'
        BY <1>4 DEF Sound, TargetsSound
    <2>3. RowsSound(work[e])'
        <3>1. RowsSound(work'[e])
            BY <1>4 DEF Sound
        <3>2. \A s \in Sources : Reason(work[e], s)' <=> Reason(work'[e], s)
            BY DEF Reason
        <3>. QED BY <3>1, <3>2 DEF RowsSound
    <2>. QED BY <2>1, <2>2, <2>3 DEF Sound
<1>. QED BY <1>1, <1>3, <1>5 DEF IInv

\* Rows change that no transaction but d has written, and d is over.
LEMMA RowStep ==
    ASSUME IInv, TypeOK',
           \A e \in Discoveries :
               \/ \E pc \in Ends : work'[e] = [NoWork EXCEPT !.pc = pc]
               \/ /\ work'[e] = work[e]
                  /\ \A s \in Sources : work[e].rows[s] # None => row'[s] = row[s]
    PROVE  IInv'
<1>1. LocksExclude'
    <2>1. \A e \in Discoveries, s \in Sources :
              work'[e].rows[s] = None \/ work'[e].rows[s] = work[e].rows[s]
        <3> SUFFICES ASSUME NEW e \in Discoveries, NEW s \in Sources,
                            NEW pc \in Ends, work'[e] = [NoWork EXCEPT !.pc = pc]
                     PROVE  work'[e].rows[s] = None
            OBVIOUS
        <3>. QED BY DEF NoWork
    <2>. QED BY <2>1 DEF IInv, LocksExclude
<1>2. ASSUME NEW e \in Discoveries PROVE Sound(work[e])'
    <2>1. CASE \E pc \in Ends : work'[e] = [NoWork EXCEPT !.pc = pc]
        BY <2>1 DEF NoWork, Sound, StaleSound, FreshSound, RowsSound, FoundSound,
                    TargetsSound, Ends
    <2>2. CASE /\ work'[e] = work[e]
               /\ \A s \in Sources : work[e].rows[s] # None => row'[s] = row[s]
        BY <2>2 DEF IInv, Sound, StaleSound, FreshSound, RowsSound, FoundSound,
                    TargetsSound, Reason
    <2>. QED BY <2>1, <2>2
<1>. QED BY <1>1, <1>2 DEF IInv

-----------------------------------------------------------------------------
(* The statements of a discovery *)

LEMMA BeginKeeps == ASSUME IInv, NEW d \in Discoveries, Begin(d) PROVE IInv'
<1> DEFINE w == [work[d] EXCEPT !.pc = "generate"]
<1>1. work[d] \in Work /\ TypeOK
    BY WorkOf DEF IInv
<1>2. w \in Work
    BY <1>1 DEF Work, Opened
<1>3. work' = [work EXCEPT ![d] = w]
    BY <1>1 DEF Begin, TypeOK
<1>4. Sound(w)
    <2>1. Sound(work[d]) /\ work[d].pc = "idle"
        BY DEF IInv, Begin, At
    <2>. QED BY <1>1, <2>1 DEF Sound, StaleSound, FreshSound, RowsSound, FoundSound,
                               TargetsSound, Reason, Work
<1>5. holder' \in Discoveries \cup {None} /\ expiries' \in Nat
    BY <1>1, BoundAssumption DEF Begin, TypeOK
<1>6. \A s \in Sources : w.rows[s] = work[d].rows[s]
    BY <1>1 DEF Work
<1>. QED BY <1>2, <1>3, <1>4, <1>5, <1>6, OwnStep DEF Begin

\* What the look at the site yields, as far as the transaction of d goes.
Look(d, details, context, rejected, gone) ==
    LET swept == Swept(d, details, rejected, gone)
    IN  /\ Free(d, swept)
        /\ work' = [work EXCEPT ![d].pc = "select",
               ![d].details = details, ![d].context = context \ gone,
               ![d].rows = Written(d, Status(d, swept, "inactive")),
               ![d].blamed = @ \cup rejected \cup gone]

LEMMA GenerateLooks ==
    ASSUME NEW d \in Discoveries, Generate(d)
    PROVE  \E details, context, rejected, gone \in SUBSET Sources :
               Look(d, details, context, rejected, gone)
<1>1. \E details \in SUBSET Sources : \E context, rejected \in SUBSET (Sources \ details) :
          \E gone \in SUBSET context : Look(d, details, context, rejected, gone)
    BY DEF Generate, Look
<1>. QED BY <1>1

LEMMA GenerateKeeps == ASSUME IInv, NEW d \in Discoveries, Generate(d) PROVE IInv'
<1>1. PICK details, context, rejected, gone \in SUBSET Sources :
          Look(d, details, context, rejected, gone)
    BY GenerateLooks
<1> DEFINE swept == Swept(d, details, rejected, gone)
           new == Status(d, swept, "inactive")
           rows == Written(d, new)
           w == [work[d] EXCEPT !.pc = "select", !.details = details,
                     !.context = context \ gone, !.rows = rows,
                     !.blamed = @ \cup rejected \cup gone]
<1>2. work[d] \in Work /\ TypeOK
    BY WorkOf DEF IInv
<1>3. swept \in SUBSET Sources
    BY DEF Swept, Gone, Superseded, Generated
<1>4. /\ new \in [swept -> Row]
      /\ \A s \in swept : new[s].status = "inactive"
    BY <1>2, <1>3, StatusType
<1>5. /\ rows \in [Sources -> Row \cup {None}]
      /\ \A s \in Sources \ swept : rows[s] = work[d].rows[s]
      /\ \A s \in swept : rows[s] = new[s]
    BY <1>2, <1>3, <1>4, WrittenType
<1> HIDE DEF swept, new, rows
<1>6. /\ w \in Work
      /\ w.pc = "select" /\ w.rows = rows /\ w.details = details
      /\ w.blamed = work[d].blamed \cup rejected \cup gone
      /\ w.again = work[d].again /\ w.stale = work[d].stale
    BY <1>2, <1>5 DEF Work, Opened
<1>7. work' = [work EXCEPT ![d] = w]
    BY <1>1, <1>2 DEF Look, TypeOK, swept, new, rows
<1> HIDE DEF w
<1>8. /\ StaleSound(work[d]) /\ RowsSound(work[d])
      /\ work[d].details = {}
      /\ work[d].again \/ \A s \in Sources : work[d].rows[s] = None
    BY DEF IInv, Sound, FreshSound, Generate, At
<1>9. ASSUME NEW s \in Sources, rows[s] # None
      PROVE  /\ row[s].status = "removed" => rows[s].status = "removed" \/ s \in w.blamed
             /\ row[s].status = "active" /\ rows[s].status = "inactive" => Reason(w, s)
    <2>1. CASE s \in swept
        <3>1. rows[s].status = "inactive"
            BY <1>4, <1>5, <2>1
        <3>2. RowIn(d, s).status # "removed"
            BY <1>2, <2>1 DEF swept, Swept, Gone, Superseded, Generated, ActiveDetail,
                              StatusIn
        <3>3. row[s].status = "removed" => s \in w.blamed
            <4>1. ASSUME row[s].status = "removed" PROVE work[d].rows[s] # None
                BY <3>2, <4>1 DEF RowIn
            <4>2. ASSUME row[s].status = "removed"
                  PROVE  s \in work[d].blamed
                BY <1>8, <3>2, <4>1, <4>2 DEF RowsSound, RowIn
            <4>. QED BY <1>6, <4>2
        <3>4. Reason(w, s)
            <4>1. ~work[d].again => RowIn(d, s) = row[s]
                BY <1>8 DEF RowIn
            <4>2. CASE s \in gone /\ RowIn(d, s).role = "context"
                BY <1>6, <4>1, <4>2 DEF Reason
            <4>3. CASE details # {} /\ RowIn(d, s).role = "context"
                BY <1>6, <4>1, <4>3 DEF Reason
            <4>4. CASE s \in rejected /\ s \notin Seeds
                BY <1>6, <4>4 DEF Reason
            <4>. QED BY <2>1, <4>2, <4>3, <4>4 DEF swept, Swept, Gone, Superseded, Generated
        <3>. QED BY <3>3, <3>4
    <2>2. CASE s \notin swept
        <3>1. rows[s] = work[d].rows[s]
            BY <1>5, <2>2
        <3>. QED BY <1>6, <1>8, <1>9, <3>1 DEF RowsSound, Reason
    <2>. QED BY <2>1, <2>2
<1>10. Sound(w)
    BY <1>6, <1>8, <1>9 DEF Sound, StaleSound, FreshSound, RowsSound, FoundSound, TargetsSound
<1>11. \A s \in Sources : w.rows[s] # None => work[d].rows[s] # None \/ Free(d, {s})
    BY <1>1, <1>5, <1>6 DEF Look, Free, swept
<1>12. holder' \in Discoveries \cup {None} /\ expiries' \in Nat
    BY <1>2 DEF Generate, TypeOK
<1>. QED BY <1>6, <1>7, <1>10, <1>11, <1>12, OwnStep DEF Generate

LEMMA SelectStaleSelects ==
    ASSUME TypeOK, NEW d \in Discoveries, SelectStale(d)
    PROVE  \E stale \in SUBSET Generated(d) :
               work' = [work EXCEPT ![d].pc = "exclude", ![d].stale = stale,
                                    ![d].blamed = @ \cup stale]
<1>1. PICK excluded \in SUBSET Generated(d), selected \in SUBSET work[d].details :
          LET aliases == {s \in Generated(d) \ selected :
                             \E t \in selected : Fold[t] = Fold[s]}
          IN  work' = [work EXCEPT ![d].pc = "exclude",
                          ![d].stale = excluded \cup aliases,
                          ![d].blamed = @ \cup excluded \cup aliases]
    BY DEF SelectStale
<1> DEFINE aliases == {s \in Generated(d) \ selected :
                          \E t \in selected : Fold[t] = Fold[s]}
<1>2. excluded \cup aliases \in SUBSET Generated(d)
    OBVIOUS
<1>3. work[d].blamed \cup excluded \cup aliases
          = work[d].blamed \cup (excluded \cup aliases)
    OBVIOUS
<1>4. work[d] \in Work /\ TypeOK
    BY WorkOf
<1> HIDE DEF aliases
<1>5. work' = [work EXCEPT ![d].pc = "exclude", ![d].stale = excluded \cup aliases,
                           ![d].blamed = @ \cup (excluded \cup aliases)]
    BY <1>1, <1>3, <1>4 DEF TypeOK, Work, aliases
<1>. QED BY <1>2, <1>5

LEMMA SelectStaleKeeps == ASSUME IInv, NEW d \in Discoveries, SelectStale(d) PROVE IInv'
<1>1. PICK stale \in SUBSET Generated(d) :
          work' = [work EXCEPT ![d].pc = "exclude", ![d].stale = stale,
                               ![d].blamed = @ \cup stale]
    BY SelectStaleSelects DEF IInv
<1> DEFINE w == [work[d] EXCEPT !.pc = "exclude", !.stale = stale, !.blamed = @ \cup stale]
<1>2. work[d] \in Work /\ TypeOK
    BY WorkOf DEF IInv
<1>3. stale \in SUBSET Sources /\ stale \cap Seeds = {}
    BY DEF Generated
<1>4. /\ w \in Work
      /\ w.pc = "exclude" /\ w.rows = work[d].rows /\ w.details = work[d].details
      /\ w.blamed = work[d].blamed \cup stale
      /\ w.again = work[d].again /\ w.stale = stale
    BY <1>2, <1>3 DEF Work, Opened
<1>5. work' = [work EXCEPT ![d] = w]
    BY <1>1, <1>2 DEF TypeOK
<1> HIDE DEF w
<1>6. Sound(w)
    <2>1. RowsSound(work[d])
        BY DEF IInv, Sound
    <2>2. RowsSound(w)
        BY <1>4, <2>1 DEF RowsSound, Reason
    <2>. QED BY <1>3, <1>4, <2>2 DEF Sound, StaleSound, FreshSound, FoundSound, TargetsSound
<1>7. holder' \in Discoveries \cup {None} /\ expiries' \in Nat
    BY <1>2 DEF SelectStale, TypeOK
<1>. QED BY <1>4, <1>5, <1>6, <1>7, OwnStep DEF SelectStale

LEMMA ExcludeKeeps == ASSUME IInv, NEW d \in Discoveries, Exclude(d) PROVE IInv'
<1> DEFINE stale == {s \in work[d].stale : row[s].status # "none"}
           new == Status(d, stale, "inactive")
           rows == Written(d, new)
           w == [work[d] EXCEPT !.pc = "upsert", !.stale = {}, !.rows = rows]
<1>1. work[d] \in Work /\ TypeOK
    BY WorkOf DEF IInv
<1>2. stale \in SUBSET Sources
    BY <1>1 DEF Work
<1>3. /\ new \in [stale -> Row]
      /\ \A s \in stale : new[s].status = "inactive"
    BY <1>1, <1>2, StatusType
<1>4. /\ rows \in [Sources -> Row \cup {None}]
      /\ \A s \in Sources \ stale : rows[s] = work[d].rows[s]
      /\ \A s \in stale : rows[s] = new[s]
    BY <1>1, <1>2, <1>3, WrittenType
<1>5. Free(d, stale) /\ work' = [work EXCEPT ![d].pc = "upsert", ![d].stale = {}, ![d].rows = rows]
    BY DEF Exclude
<1>6. stale \subseteq work[d].blamed /\ stale \cap Seeds = {}
    BY DEF IInv, Sound, StaleSound
<1> HIDE DEF stale, new, rows
<1>7. /\ w \in Work
      /\ w.pc = "upsert" /\ w.rows = rows /\ w.details = work[d].details
      /\ w.blamed = work[d].blamed /\ w.again = work[d].again /\ w.stale = {}
    BY <1>1, <1>4 DEF Work, Opened
<1>8. work' = [work EXCEPT ![d] = w]
    BY <1>1, <1>5 DEF TypeOK
<1> HIDE DEF w
<1>9. Sound(w)
    <2>1. RowsSound(work[d])
        BY DEF IInv, Sound
    <2>2. ASSUME NEW s \in Sources, rows[s] # None
          PROVE  /\ row[s].status = "removed" => rows[s].status = "removed" \/ s \in w.blamed
                 /\ row[s].status = "active" /\ rows[s].status = "inactive" => Reason(w, s)
        <3>1. CASE s \in stale
            BY <1>6, <1>7, <3>1 DEF Reason
        <3>2. CASE s \notin stale
            BY <1>4, <1>7, <2>1, <2>2, <3>2 DEF RowsSound, Reason
        <3>. QED BY <3>1, <3>2
    <2>. QED BY <1>7, <2>2 DEF Sound, StaleSound, FreshSound, RowsSound, FoundSound,
                               TargetsSound
<1>10. \A s \in Sources : w.rows[s] # None => work[d].rows[s] # None \/ Free(d, {s})
    BY <1>4, <1>5, <1>7 DEF Free
<1>11. holder' \in Discoveries \cup {None} /\ expiries' \in Nat
    BY <1>1 DEF Exclude, TypeOK
<1>. QED BY <1>7, <1>8, <1>9, <1>10, <1>11, OwnStep DEF Exclude

LEMMA UpsertedType ==
    ASSUME NEW d \in Discoveries, NEW s
    PROVE  /\ Upserted(d, s) \in Row
           /\ Upserted(d, s).status
                  = IF StatusIn(d, s) = "removed" THEN "removed" ELSE "active"
           /\ Upserted(d, s).role = IF s \in work[d].details THEN "detail" ELSE "context"
BY DEF Upserted, Role, Row, Roles

LEMMA UpsertKeeps == ASSUME IInv, NEW d \in Discoveries, Upsert(d) PROVE IInv'
<1> DEFINE generated == work[d].details \cup work[d].context
           new == [s \in generated |-> Upserted(d, s)]
           rows == Written(d, new)
           w == [work[d] EXCEPT !.pc = "settle", !.context = {}, !.rows = rows]
<1>1. work[d] \in Work /\ TypeOK
    BY WorkOf DEF IInv
<1>2. generated \in SUBSET Sources /\ work[d].details \subseteq generated
    BY <1>1 DEF Work
<1>3. new \in [generated -> Row] /\ \A s \in generated : new[s] = Upserted(d, s)
    BY UpsertedType
<1> HIDE DEF new
<1>4. /\ rows \in [Sources -> Row \cup {None}]
      /\ \A s \in Sources \ generated : rows[s] = work[d].rows[s]
      /\ \A s \in generated : rows[s] = Upserted(d, s) /\ rows[s] # None
    <2> HIDE DEF generated
    <2>. QED BY <1>1, <1>2, <1>3, WrittenType
<1>5. /\ Free(d, generated)
      /\ work' = [work EXCEPT ![d].pc = "settle", ![d].context = {}, ![d].rows = rows]
    BY DEF Upsert, new
<1> HIDE DEF generated, rows
<1>6. /\ w \in Work
      /\ w.pc = "settle" /\ w.rows = rows /\ w.details = work[d].details
      /\ w.blamed = work[d].blamed /\ w.again = work[d].again /\ w.stale = work[d].stale
    BY <1>1, <1>4 DEF Work, Opened
<1>7. work' = [work EXCEPT ![d] = w]
    BY <1>1, <1>5 DEF TypeOK
<1> HIDE DEF w
<1>8. RowsSound(work[d]) /\ StaleSound(work[d])
    BY DEF IInv, Sound
<1>9. RowsSound(w)
    <2> SUFFICES ASSUME NEW s \in Sources, rows[s] # None
        PROVE  /\ row[s].status = "removed" => rows[s].status = "removed" \/ s \in w.blamed
               /\ row[s].status = "active" /\ rows[s].status = "inactive" => Reason(w, s)
        BY <1>6 DEF RowsSound
    <2>1. CASE s \in generated
        <3>1. rows[s].status = IF StatusIn(d, s) = "removed" THEN "removed" ELSE "active"
            BY <1>4, <2>1, UpsertedType
        <3>2. CASE row[s].status = "removed" /\ work[d].rows[s] = None
            BY <3>1, <3>2 DEF StatusIn, RowIn
        <3>3. CASE row[s].status = "removed" /\ work[d].rows[s] # None
            BY <1>6, <1>8, <3>1, <3>3 DEF RowsSound, StatusIn, RowIn
        <3>. QED BY <3>1, <3>2, <3>3
    <2>2. CASE s \notin generated
        BY <1>4, <1>6, <1>8, <2>2 DEF RowsSound, Reason
    <2>. QED BY <2>1, <2>2
<1>10. FoundSound(w)
    <2> SUFFICES ASSUME NEW s \in work[d].details
                 PROVE  /\ rows[s] # None /\ rows[s].role = "detail"
                        /\ rows[s].status \in {"active", "removed"}
        BY <1>6 DEF FoundSound
    <2>. QED BY <1>2, <1>4, UpsertedType
<1>11. Sound(w)
    BY <1>6, <1>8, <1>9, <1>10 DEF Sound, StaleSound, FreshSound, TargetsSound
<1>12. \A s \in Sources : w.rows[s] # None => work[d].rows[s] # None \/ Free(d, {s})
    BY <1>4, <1>5, <1>6 DEF Free
<1>13. holder' \in Discoveries \cup {None} /\ expiries' \in Nat
    BY <1>1 DEF Upsert, TypeOK
<1>. QED BY <1>6, <1>7, <1>11, <1>12, <1>13, OwnStep DEF Upsert

\* What a discovery does between its statements: its rows stay as they are.
LEMMA LocalStep ==
    ASSUME IInv, NEW d \in Discoveries, NEW w \in Work,
           work' = [work EXCEPT ![d] = w], UNCHANGED <<row, removal, holder, expiries>>,
           w.rows = work[d].rows, w.details = work[d].details, w.stale = work[d].stale,
           w.blamed = work[d].blamed, work[d].again => w.again,
           FreshSound(w), w.pc # "settle", TargetsSound(w),
           work[d].again # w.again => w.details = {}
    PROVE  IInv'
<1>1. StaleSound(work[d]) /\ RowsSound(work[d])
    BY DEF IInv, Sound
<1>2. RowsSound(w)
    BY <1>1 DEF RowsSound, Reason
<1>3. Sound(w)
    BY <1>1, <1>2 DEF Sound, StaleSound, FoundSound
<1>4. holder' \in Discoveries \cup {None} /\ expiries' \in Nat
    BY DEF IInv, TypeOK
<1>. QED BY <1>3, <1>4, OwnStep

LEMMA ReuseKeeps == ASSUME IInv, NEW d \in Discoveries, Reuse(d) PROVE IInv'
<1>1. PICK targets \in ActiveScopes(d) :
          work' = [work EXCEPT ![d].pc = "probe", ![d].targets = targets]
    BY DEF Reuse
<1> DEFINE w == [work[d] EXCEPT !.pc = "probe", !.targets = targets]
<1>2. work[d] \in Work /\ TypeOK
    BY WorkOf DEF IInv
<1>3. targets \in SUBSET Sources
    BY DEF ActiveScopes
<1>4. /\ w \in Work
      /\ w.pc = "probe" /\ w.rows = work[d].rows /\ w.details = work[d].details
      /\ w.blamed = work[d].blamed /\ w.again = work[d].again /\ w.stale = work[d].stale
    BY <1>2, <1>3 DEF Work, Opened
<1>5. work' = [work EXCEPT ![d] = w]
    BY <1>1, <1>2 DEF TypeOK
<1> HIDE DEF w
<1>6. work[d].details = {}
    BY DEF IInv, Sound, FreshSound, Reuse, At
<1>7. FreshSound(w) /\ TargetsSound(w)
    BY <1>4, <1>6 DEF FreshSound, TargetsSound
<1>. QED BY <1>4, <1>5, <1>7, LocalStep DEF Reuse

LEMMA SettleKeeps == ASSUME IInv, NEW d \in Discoveries, Settle(d) PROVE IInv'
<1>1. PICK scope \in ActiveScopes(d) :
          work' = [work EXCEPT ![d].pc = "probe", ![d].targets = Targets(d, scope)]
    BY DEF Settle
<1> DEFINE targets == Targets(d, scope)
           w == [work[d] EXCEPT !.pc = "probe", !.targets = targets]
<1>2. work[d] \in Work /\ TypeOK
    BY WorkOf DEF IInv
<1>3. targets \in SUBSET Sources
    BY <1>2 DEF ActiveScopes, Targets, Work
<1>4. ASSUME NEW s \in targets \cap work[d].details
      PROVE  work[d].rows[s] = [status |-> "active", role |-> "detail"]
    <2>1. /\ work[d].rows[s] # None /\ work[d].rows[s].role = "detail"
          /\ work[d].rows[s].status \in {"active", "removed"}
        BY DEF IInv, Sound, FoundSound, Settle, At
    <2>2. work[d].rows[s] \in Row
        BY <1>2, <1>3, <2>1 DEF Work
    <2>3. work[d].rows[s].status # "removed"
        BY <2>1 DEF Targets, ActiveScopes, ActiveDetail, StatusIn, RowIn
    <2>. QED BY <2>1, <2>2, <2>3 DEF Row
<1> HIDE DEF targets
<1>5. /\ w \in Work
      /\ w.pc = "probe" /\ w.rows = work[d].rows /\ w.details = work[d].details
      /\ w.blamed = work[d].blamed /\ w.again = work[d].again /\ w.stale = work[d].stale
      /\ w.targets = targets
    BY <1>2, <1>3 DEF Work, Opened
<1>6. work' = [work EXCEPT ![d] = w]
    BY <1>1, <1>2 DEF TypeOK, targets
<1> HIDE DEF w
<1>7. FreshSound(w) /\ TargetsSound(w)
    BY <1>4, <1>5 DEF FreshSound, TargetsSound
<1>. QED BY <1>5, <1>6, <1>7, LocalStep DEF Settle

LEMMA RepairKeeps == ASSUME IInv, NEW d \in Discoveries, Repair(d) PROVE IInv'
<1> DEFINE w == [work[d] EXCEPT !.pc = "generate", !.again = TRUE]
<1>1. work[d] \in Work /\ TypeOK
    BY WorkOf DEF IInv
<1>2. /\ w \in Work
      /\ w.pc = "generate" /\ w.rows = work[d].rows /\ w.details = work[d].details
      /\ w.blamed = work[d].blamed /\ w.again /\ w.stale = work[d].stale
    BY <1>1 DEF Work, Opened
<1>3. work' = [work EXCEPT ![d] = w]
    BY <1>1 DEF Repair, TypeOK
<1> HIDE DEF w
<1>4. FreshSound(w) /\ TargetsSound(w) /\ w.details = {}
    BY <1>2 DEF FreshSound, TargetsSound, Repair
<1>. QED BY <1>2, <1>3, <1>4, LocalStep DEF Repair

LEMMA ProbeKeeps == ASSUME IInv, NEW d \in Discoveries, Probe(d) PROVE IInv'
<1>1. PICK available \in SUBSET work[d].targets :
          work' = [work EXCEPT ![d].pc = "prepare", ![d].targets = available]
    BY DEF Probe
<1> DEFINE w == [work[d] EXCEPT !.pc = "prepare", !.targets = available]
<1>2. work[d] \in Work /\ TypeOK
    BY WorkOf DEF IInv
<1>3. available \in SUBSET Sources
    BY <1>2 DEF Work
<1>4. /\ w \in Work
      /\ w.pc = "prepare" /\ w.rows = work[d].rows /\ w.details = work[d].details
      /\ w.blamed = work[d].blamed /\ w.again = work[d].again /\ w.stale = work[d].stale
      /\ w.targets = available
    BY <1>2, <1>3 DEF Work, Opened
<1>5. work' = [work EXCEPT ![d] = w]
    BY <1>1, <1>2 DEF TypeOK
<1> HIDE DEF w
<1>6. TargetsSound(work[d]) /\ work[d].pc = "probe"
    BY DEF IInv, Sound, Probe, At
<1>7. FreshSound(w) /\ TargetsSound(w)
    BY <1>4, <1>6 DEF FreshSound, TargetsSound
<1>. QED BY <1>4, <1>5, <1>7, LocalStep DEF Probe

LEMMA PrepareKeeps == ASSUME IInv, NEW d \in Discoveries, Prepare(d) PROVE IInv'
<1> DEFINE w == [work[d] EXCEPT !.pc = "start"]
<1>1. work[d] \in Work /\ TypeOK
    BY WorkOf DEF IInv
<1>2. /\ w \in Work
      /\ w.pc = "start" /\ w.rows = work[d].rows /\ w.details = work[d].details
      /\ w.blamed = work[d].blamed /\ w.again = work[d].again /\ w.stale = work[d].stale
      /\ w.targets = work[d].targets
    BY <1>1 DEF Work, Opened
<1>3. work' = [work EXCEPT ![d] = w]
    BY <1>1 DEF Prepare, TypeOK
<1> HIDE DEF w
<1>4. TargetsSound(work[d]) /\ work[d].pc = "prepare"
    BY DEF IInv, Sound, Prepare, At
<1>5. FreshSound(w) /\ TargetsSound(w)
    BY <1>2, <1>4 DEF FreshSound, TargetsSound
<1>. QED BY <1>2, <1>3, <1>5, LocalStep DEF Prepare

-----------------------------------------------------------------------------
(* The end of a transaction, and the administrator *)

LEMMA CommitKeeps ==
    ASSUME IInv, NEW d \in Discoveries, NEW pc \in Ends, Commits(d, pc)
    PROVE  IInv'
<1>1. TypeOK
    BY DEF IInv
<1>2. row' \in [Sources -> Row]
    BY <1>1, RowInType DEF Commits
<1>3. TypeOK'
    BY <1>1, <1>2, NoWorkType DEF Commits, TypeOK
<1>4. work'[d] = [NoWork EXCEPT !.pc = pc]
    BY <1>1 DEF Commits, TypeOK
<1>5. ASSUME NEW e \in Discoveries, e # d
      PROVE  /\ work'[e] = work[e]
             /\ \A s \in Sources : work[e].rows[s] # None => row'[s] = row[s]
    BY <1>1, <1>5 DEF Commits, TypeOK, IInv, LocksExclude, RowIn
<1>. QED BY <1>3, <1>4, <1>5, RowStep

LEMMA RollbackKeeps ==
    ASSUME IInv, NEW d \in Discoveries, NEW pc \in Ends, RollsBack(d, pc)
    PROVE  IInv'
<1>1. TypeOK /\ TypeOK'
    BY NoWorkType DEF RollsBack, IInv, TypeOK
<1>2. work'[d] = [NoWork EXCEPT !.pc = pc]
    BY <1>1 DEF RollsBack, TypeOK
<1>3. ASSUME NEW e \in Discoveries, e # d
      PROVE  /\ work'[e] = work[e]
             /\ \A s \in Sources : work[e].rows[s] # None => row'[s] = row[s]
    BY <1>1, <1>3 DEF RollsBack, TypeOK
<1>. QED BY <1>1, <1>2, <1>3, RowStep

LEMMA ReadSourceKeeps == ASSUME IInv, NEW x \in Removals, ReadSource(x) PROVE IInv'
<1>1. TypeOK'
    BY DEF IInv, TypeOK, ReadSource
<1>. QED BY <1>1, RowStep DEF ReadSource

LEMMA RemoveKeeps == ASSUME IInv, NEW x \in Removals, Remove(x) PROVE IInv'
<1>1. TypeOK'
    BY DEF IInv, TypeOK, Remove, Row
<1>2. ASSUME NEW e \in Discoveries, NEW s \in Sources, work[e].rows[s] # None
      PROVE  row'[s] = row[s]
    BY <1>2 DEF IInv, TypeOK, Remove
<1>. QED BY <1>1, <1>2, RowStep DEF Remove

-----------------------------------------------------------------------------
(* The theorems *)

\* The steps that end a transaction with what it wrote.
LEMMA NextCases ==
    ASSUME Next
    PROVE  \/ \E d \in Discoveries :
                  \/ Begin(d) \/ Generate(d) \/ SelectStale(d) \/ Exclude(d) \/ Upsert(d)
                  \/ Reuse(d) \/ Settle(d) \/ Repair(d) \/ Probe(d) \/ Prepare(d)
                  \/ \E pc \in {"superseded", "failed"} : RollsBack(d, pc)
                  \/ Open(d) /\ Commits(d, "done")
                  \/ At(d, "start") /\ Commits(d, "collecting")
           \/ \E x \in Removals : ReadSource(x) \/ Remove(x)
BY DEF Next, Materialize, Choose, Enter, ReuseBlocked, NoDetail, Unavailable, ClaimLost,
       Refused, Start, Fails, Ends, At, Open, Opened

\* The invariant is inductive (every statement of _materialize_sources_for_catalog_item
\* and _run_group, and delete_source_registry_item).
THEOREM Inductive == Spec => []IInv
<1>1. Init => IInv
    <2> SUFFICES ASSUME Init PROVE IInv
        OBVIOUS
    <2>1. row \in [Sources -> Row]
        <3>1. PICK role \in [Sources -> Roles \cup {None}] :
                  row = [s \in Sources |-> IF role[s] = None THEN NoRow
                                           ELSE [status |-> "active", role |-> role[s]]]
            BY DEF Init
        <3>. QED BY <3>1 DEF NoRow, Row, Roles
    <2>2. NoWork \in Work
        BY DEF NoWork, Work
    <2>3. TypeOK
        BY <2>1, <2>2 DEF Init, TypeOK
    <2>4. LocksExclude
        BY DEF Init, LocksExclude, NoWork
    <2>5. Sound(NoWork)
        BY DEF NoWork, Sound, StaleSound, FreshSound, RowsSound, FoundSound, TargetsSound
    <2>. QED BY <2>3, <2>4, <2>5 DEF IInv, Init
<1>2. IInv /\ [Next]_vars => IInv'
    <2> SUFFICES ASSUME IInv, [Next]_vars PROVE IInv'
        OBVIOUS
    <2>1. CASE Next
        BY <2>1, NextCases, BeginKeeps, GenerateKeeps, SelectStaleKeeps, ExcludeKeeps,
           UpsertKeeps, ReuseKeeps, SettleKeeps, RepairKeeps, ProbeKeeps, PrepareKeeps,
           CommitKeeps, RollbackKeeps, ReadSourceKeeps, RemoveKeeps DEF Ends
    <2>2. CASE UNCHANGED vars
        <3>1. TypeOK'
            BY <2>2 DEF IInv, TypeOK, vars
        <3>. QED BY <2>2, <3>1, RowStep DEF vars
    <2>. QED BY <2>1, <2>2
<1>. QED BY <1>1, <1>2, PTL DEF Spec

\* Every step keeps the types (all of the handlers that SourceRegistry models).
THEOREM Typed == Spec => []TypeOK
<1>1. IInv => TypeOK
    BY DEF IInv
<1>. QED BY <1>1, Inductive, PTL

\* What is committed changes at the commit of a discovery, or by a removal.
LEMMA Changed ==
    ASSUME IInv, [Next]_vars, NEW s \in Sources, row'[s] # row[s],
           row'[s].status # "removed"
    PROVE  \E d \in Discoveries :
               /\ Committed(d) /\ row'[s] = RowIn(d, s)
               /\ work[d].rows[s] # None /\ row'[s] = work[d].rows[s]
<1>1. TypeOK
    BY DEF IInv
<1>2. ASSUME NEW x \in Removals, Remove(x) PROVE FALSE
    BY <1>1, <1>2 DEF Remove, TypeOK, Row
<1>3. PICK d \in Discoveries : \/ Open(d) /\ Commits(d, "done")
                               \/ At(d, "start") /\ Commits(d, "collecting")
    BY <1>2, NextCases DEF vars, Begin, Generate, SelectStale, Exclude, Upsert, Reuse, Settle,
       Repair, Probe, Prepare, RollsBack, ReadSource
<1>4. Committed(d)
    BY <1>1, <1>3 DEF Committed, Commits, NoWork, TypeOK, At, Open, Opened
<1>5. row'[s] = RowIn(d, s)
    BY <1>3 DEF Commits
<1>. QED BY <1>4, <1>5 DEF RowIn

\* A removed source comes back only through a discovery that had turned its page down
\* (_upsert_source_registry_rows, _deactivate_case_alias_generated_detail_sources).
THEOREM RemovedSourcesStayOut == Spec => RemovedStaysOut
<1>1. IInv /\ [Next]_vars =>
          [\A s \in Sources : row[s].status = "removed" /\ row'[s].status # "removed" =>
              \E d \in Discoveries : Committed(d) /\ s \in work[d].blamed]_vars
    <2> SUFFICES ASSUME IInv, [Next]_vars, NEW s \in Sources,
                        row[s].status = "removed", row'[s].status # "removed"
                 PROVE  \E d \in Discoveries : Committed(d) /\ s \in work[d].blamed
        OBVIOUS
    <2>. QED BY Changed DEF IInv, Sound, RowsSound
<1>. QED BY <1>1, Inductive, PTL DEF Spec, RemovedStaysOut

\* An active source becomes inactive only for a reason of the discovery that commits
\* (_materialize_sources_for_catalog_item).
THEOREM SourcesLeaveForAReason == Spec => LeavesForAReason
<1>1. IInv /\ [Next]_vars =>
          [\A s \in Sources : row[s].status = "active" /\ row'[s].status = "inactive" =>
              \E d \in Discoveries :
                  /\ Committed(d)
                  /\ \/ s \in work[d].blamed
                     \/ work[d].details # {} /\ (row[s].role = "detail" => work[d].again)
                  /\ row[s].role = "detail" /\ s \in Seeds => work[d].again]_vars
    <2> SUFFICES ASSUME IInv, [Next]_vars, NEW s \in Sources,
                        row[s].status = "active", row'[s].status = "inactive"
                 PROVE  \E d \in Discoveries : Committed(d) /\ Reason(work[d], s)
        BY DEF Reason
    <2>. QED BY Changed DEF IInv, Sound, RowsSound
<1>. QED BY <1>1, Inductive, PTL DEF Spec, LeavesForAReason

\* A run starts with the pages its discovery has found as they are in the registry then
\* (_run_group).
THEOREM CollectedSourcesAreActive == Spec => CollectedIsActive
<1>1. IInv /\ [Next]_vars =>
          [\A d \in Discoveries : At(d, "start") /\ work'[d].pc = "collecting" =>
              \A s \in work[d].targets \cap work[d].details :
                  row'[s] = [status |-> "active", role |-> "detail"]]_vars
    <2> SUFFICES ASSUME IInv, [Next]_vars, NEW d \in Discoveries,
                        At(d, "start"), work'[d].pc = "collecting",
                        NEW s \in work[d].targets \cap work[d].details
                 PROVE  row'[s] = [status |-> "active", role |-> "detail"]
        OBVIOUS
    <2>1. TypeOK /\ work[d] \in Work
        BY WorkOf DEF IInv
    <2>2. work[d].rows[s] = [status |-> "active", role |-> "detail"] /\ s \in Sources
        BY <2>1 DEF IInv, Sound, TargetsSound, At, Work
    <2>3. work[d].rows[s] # None
        BY <2>2, NoneAssumption DEF Row, Roles
    <2>4. Commits(d, "collecting")
        <3>1. ASSUME NEW e \in Discoveries, Commits(e, "done") PROVE FALSE
            BY <2>1, <3>1 DEF Commits, TypeOK, NoWork, At
        <3>2. ASSUME NEW e \in Discoveries, e # d, Commits(e, "collecting") PROVE FALSE
            BY <2>1, <3>2 DEF Commits, TypeOK, NoWork, At
        <3>3. ASSUME NEW e \in Discoveries, NEW pc \in {"superseded", "failed"},
                     RollsBack(e, pc)
              PROVE  FALSE
            BY <2>1, <3>3 DEF RollsBack, TypeOK, NoWork, At
        <3>4. ASSUME NEW e \in Discoveries,
                     Begin(e) \/ Generate(e) \/ SelectStale(e) \/ Exclude(e) \/ Upsert(e)
              PROVE  FALSE
            <4> DEFINE keeps(f) == f[d].pc # "collecting"
            <4>1. keeps(work) /\ DOMAIN work = Discoveries
                BY <2>1 DEF TypeOK, At
            <4>2. Begin(e) => keeps(work')
                BY <4>1 DEF Begin
            <4>3. Generate(e) => keeps(work')
                <5> SUFFICES ASSUME Generate(e) PROVE keeps(work')
                    OBVIOUS
                <5>1. PICK details, context, rejected, gone \in SUBSET Sources :
                          Look(e, details, context, rejected, gone)
                    BY GenerateLooks
                <5>. QED BY <2>1, <4>1, <5>1 DEF Look, TypeOK
            <4>4. SelectStale(e) => keeps(work')
                <5> SUFFICES ASSUME SelectStale(e) PROVE keeps(work')
                    OBVIOUS
                <5>1. PICK stale \in SUBSET Generated(e) :
                          work' = [work EXCEPT ![e].pc = "exclude", ![e].stale = stale,
                                               ![e].blamed = @ \cup stale]
                    BY <2>1, SelectStaleSelects
                <5>. QED BY <2>1, <4>1, <5>1 DEF TypeOK
            <4>5. Exclude(e) => keeps(work')
                BY <2>1, <4>1 DEF Exclude, TypeOK
            <4>6. Upsert(e) => keeps(work')
                BY <2>1, <4>1 DEF Upsert, TypeOK
            <4>. QED BY <3>4, <4>2, <4>3, <4>4, <4>5, <4>6
        <3>5. ASSUME NEW e \in Discoveries,
                     Reuse(e) \/ Settle(e) \/ Repair(e) \/ Probe(e) \/ Prepare(e)
              PROVE  FALSE
            BY <2>1, <3>5 DEF Reuse, Settle, Repair, Probe, Prepare, TypeOK, At
        <3>6. ASSUME (\E x \in Removals : ReadSource(x) \/ Remove(x)) \/ UNCHANGED vars
              PROVE  FALSE
            BY <3>6 DEF ReadSource, Remove, At, vars
        <3>. QED BY <3>1, <3>2, <3>3, <3>4, <3>5, <3>6, NextCases
    <2>. QED BY <2>2, <2>3, <2>4 DEF Commits, RowIn
<1>. QED BY <1>1, Inductive, PTL DEF Spec, CollectedIsActive
=============================================================================
