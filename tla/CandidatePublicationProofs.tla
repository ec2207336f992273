---------------------- MODULE CandidatePublicationProofs ----------------------
(***************************************************************************)
(* Theorems about CandidatePublication, for any number of candidates,      *)
(* runs, promotions and retractions.  IInv says who holds which row, what  *)
(* an open transaction has decided so far, and how the rows it wrote       *)
(* relate to the committed ones.                                           *)
(***************************************************************************)
EXTENDS CandidatePublication, TLAPS, Integers, FunctionTheorems, FiniteSetTheorems,
        WellFoundedInduction

-----------------------------------------------------------------------------
(* The inductive invariant *)

Elements(s) == {s[i] : i \in DOMAIN s}
Ascending(s) == \A i, j \in DOMAIN s : i < j => s[i] < s[j]

VersionsOf(row) == {row.versions[i].candidate : i \in DOMAIN row.versions}
CurrentOf(row) == row.versions[row.current].candidate

\* The current version is the last and the only one that is approved.
Chain(row) ==
    /\ row.current # 0
    /\ row.current = Len(row.versions)
    /\ \A i \in DOMAIN row.versions :
        row.versions[i].status = "approved" <=> i = row.current

\* The row has the versions of the former one, and perhaps more.
Extends(row, former) ==
    /\ Len(former.versions) <= Len(row.versions)
    /\ \A i \in DOMAIN former.versions :
        former.versions[i].candidate = row.versions[i].candidate

Busy == {"next", "write", "supersede"}
Locking == {"lock", "retract"}

\* A transaction that is not open holds and decides nothing, but a retraction
\* that committed keeps what it read and rejected.
PhaseOf(t) ==
    /\ tx[t].pc \in {"idle", "done", "aborted"} \cup (IF t \in Promoters THEN Busy ELSE Locking)
    /\ tx[t].pc \notin Busy \cup Locking =>
        /\ tx[t].held = {} /\ tx[t].todo = <<>> /\ tx[t].rows = NoTx.rows
        /\ t \in Promoters \/ tx[t].pc # "done" => tx[t].decided = NoTx.decided
    /\ tx[t].pc \in {"write", "supersede", "lock"} => tx[t].todo # <<>>
Phases == \A t \in Transactions : PhaseOf(t)

RunPhases == \A r \in Runs :
    /\ run[r] \in {"new", "draft", "validated", "summarized"} => tx[r].pc = "idle"
    /\ run[r] = "promoting" <=> tx[r].pc \in Busy
    /\ run[r] \in {"promoted", "finished"} <=> tx[r].pc = "done"

\* No two transactions hold the same row.
HeldByOne == \A t, u \in Transactions : t # u => tx[t].held \cap tx[u].held = {}
WrittenByOne == \A t, u \in Transactions, k \in Candidates :
    t # u => tx[t].rows[k] = None \/ tx[u].rows[k] = None

\* The candidates that a promotion has still to decide.
Left(t) == Elements(IF tx[t].pc = "supersede" THEN Tail(tx[t].todo) ELSE tx[t].todo)

\* A promotion holds what it decided and what is left; what it closes as stale
\* is an open review, older than a candidate of the same page that it approved.
StaleFor(t, c) ==
    /\ review[c] \in Open
    /\ \E d \in Candidates : /\ c < d
                             /\ tx[t].decided[d] = "approved"
                             /\ candidate[d].source = candidate[c].source
PromotionOf(t) ==
    /\ Ascending(tx[t].todo)
    /\ tx[t].pc = "supersede" => tx[t].decided[Head(tx[t].todo)] = "approved"
    /\ \A c \in Candidates :
        /\ c \in tx[t].held <=> c \in Left(t) \/ tx[t].decided[c] # None
        /\ c \in Left(t) => candidate[c].state = "auto_validated" /\ tx[t].decided[c] = None
        /\ tx[t].decided[c] # None => candidate[c].state \in {"auto_validated", "in_review"}
        /\ tx[t].decided[c] = "approved" => candidate[c].state = "auto_validated"
        /\ tx[t].decided[c] = "superseded" => StaleFor(t, c)
Promotions == \A t \in Promoters : PromotionOf(t)

RetractionOf(t) ==
    /\ Ascending(tx[t].todo)
    /\ \A c \in tx[t].held \cup Elements(tx[t].todo) : candidate[c].state # "none"
    /\ tx[t].pc = "lock" => tx[t].decided = NoTx.decided
    /\ \A c \in Candidates :
        /\ tx[t].decided[c] \in {"rejected", None}
        /\ tx[t].pc = "retract" =>
            (c \in tx[t].held <=> c \in Elements(tx[t].todo) \/ tx[t].decided[c] # None)
RetractionsHold == \A t \in Retractions : RetractionOf(t)

\* Only former candidates are under review, and a candidate has a state from
\* the normalization of its run on.
KnownCandidates == \A c \in Candidates :
    /\ c \in Former => candidate[c].state # "none"
    /\ c \notin Former => /\ candidate[c].state # "in_review"
                          /\ review[c] = "none"
                          /\ candidate[c].state = "none" <=> run[RunOf[c]] = "new"
    /\ candidate[c].state = "auto_validated" => c \notin Former /\ run[RunOf[c]] # "draft"

ProductShape == \A k \in Candidates :
    /\ product[k].status = "none" => product[k].versions = <<>>
    /\ product[k].status # "none" => Chain(product[k]) /\ k \in Versions(k)

\* A row that was written extends the committed one, by candidates that the
\* transaction approved and that nobody published.
RowShapeOf(t) == \A k \in Candidates : HoldsProduct(t, k) =>
    LET row == tx[t].rows[k]
    IN  /\ row.status # "none" /\ Chain(row) /\ k \in VersionsOf(row)
        /\ Extends(row, product[k])
        /\ \A c \in VersionsOf(row) :
            c \in Versions(k) \/ (~HasVersion(c) /\ tx[t].decided[c] = "approved")
RowShapes == \A t \in Transactions : RowShapeOf(t)

VersionedIsDecided == \A c \in Candidates : HasVersion(c) =>
    /\ candidate[c].state \in {"approved", "rejected"}
    /\ c \in Former \/ run[RunOf[c]] # "draft"

\* A candidate is a version of one product.
OneProduct == \A k, l \in Candidates : Versions(k) \cap Versions(l) # {} => k = l
OneRowOf(t) == \A k, l \in Candidates :
    /\ HoldsProduct(t, k) /\ HoldsProduct(t, l)
    /\ VersionsOf(tx[t].rows[k]) \cap VersionsOf(tx[t].rows[l]) # {}
    => k = l
OneRow == \A t \in Transactions : OneRowOf(t)

\* The version that was read exists still.
BaseOf(t) == \A k \in Candidates : tx[t].pc = "write" /\ tx[t].found = k =>
    Exists(t, k) /\ tx[t].base \in 1..Len(ProductIn(t, k).versions)
Bases == \A t \in Promoters : BaseOf(t)

\* What a retraction read of a candidate it names: the product has it still, but
\* not as an active current version if the product was inactive; a product that
\* was active is written together with the candidate.
NotServing(row, c) == row.status = "inactive" \/ CurrentOf(row) # c
ReadOf(x) == \A c, k \in Candidates : tx[x].read[c].product = k =>
    /\ c \in Versions(k)
    /\ ~tx[x].read[c].active =>
        /\ NotServing(product[k], c)
        /\ \A u \in Transactions : HoldsProduct(u, k) => NotServing(tx[u].rows[k], c)
    /\ tx[x].read[c].active /\ tx[x].decided[c] = "rejected" /\ tx[x].pc # "done"
        => HoldsProduct(x, k)
Reads == \A x \in Retractions : ReadOf(x)

\* A candidate that a retraction rejected without a product to withdraw.
MissedBy(x, c) == Retracted(x, c) /\ tx[x].read[c].product = None
Missed(c) == \E x \in Retractions : MissedBy(x, c)

\* A product is withdrawn by retractions only, served again for a new version
\* only, and served for an approved candidate.
RowStatusOf(t) == \A k \in Candidates : HoldsProduct(t, k) =>
    LET row == tx[t].rows[k]
    IN  /\ t \in Promoters /\ row.status = "inactive" => product[k].status = "inactive"
        /\ t \in Retractions =>
            /\ row.status = "inactive"
            /\ \E c \in Candidates : tx[t].decided[c] = "rejected" /\ tx[t].read[c].product = k
        /\ row.status = "active" /\ product[k].status = "inactive" => CurrentOf(row) \notin Versions(k)
        /\ row.status = "active" =>
            \E c \in Candidates : c = CurrentOf(row) /\ (StateIn(t, c) = "approved" \/ Missed(c))
RowStatuses == \A t \in Transactions : RowStatusOf(t)

\* What validation accepted and the run's promotion did not take is, or was,
\* held by another transaction.
TakenElsewhere(c) == \E t \in Transactions \ {RunOf[c]} :
    HoldsCandidate(t, c) \/ tx[t].pc = "aborted"
AcceptedIsTaken == \A c \in Candidates \ Former :
    /\ run[RunOf[c]] \in {"promoting", "promoted", "finished"}
    /\ candidate[c].state = "auto_validated"
    => HoldsCandidate(RunOf[c], c) \/ TakenElsewhere(c)

IInv ==
    /\ TypeOK
    /\ Phases /\ RunPhases
    /\ HeldByOne /\ WrittenByOne
    /\ Promotions /\ RetractionsHold
    /\ KnownCandidates /\ VersionedIsDecided
    /\ ProductShape /\ RowShapes
    /\ OneProduct /\ OneRow
    /\ Bases /\ Reads
    /\ RowStatuses
    /\ AcceptedIsTaken
    /\ ServedIsApproved /\ WithdrawnByRetraction

-----------------------------------------------------------------------------
(* Sequences of candidates *)

LEMMA Least == ASSUME NEW T \in SUBSET Nat, T # {} PROVE \E n \in T : \A m \in T : n <= m
<1> DEFINE R == OpToRel(<, Nat)
<1>1. IsWellFoundedOn(R, Nat)
  BY NatLessThanWellFounded
<1>2. \A m, n \in Nat : m < n => <<m, n>> \in R
  BY DEF OpToRel
<1> HIDE DEF R
<1>3. PICK n \in T : \A m \in T : ~ (<<m, n>> \in R)
  BY <1>1, WFMin
<1>4. SUFFICES ASSUME NEW m \in T, m < n PROVE FALSE
  OBVIOUS
<1>5. <<m, n>> \in R
  BY <1>2, <1>4
<1> QED BY <1>3, <1>5

Sorts(s, cs) == /\ s \in [1..Cardinality(cs) -> cs]
                /\ \A i, j \in 1..Cardinality(cs) : i < j => s[i] < s[j]

LEMMA Sortable ==
  ASSUME NEW cs \in SUBSET Nat, IsFiniteSet(cs)
  PROVE  \E s : Sorts(s, cs)
<1> DEFINE Bad(n) == \E ds \in SUBSET Nat : /\ IsFiniteSet(ds) /\ Cardinality(ds) = n
                                            /\ ~ \E s : Sorts(s, ds)
<1> DEFINE T == {n \in Nat : Bad(n)}
<1>1. SUFFICES ASSUME T # {} PROVE FALSE
  <2>1. Cardinality(cs) \in Nat
    BY FS_CardinalityType
  <2> QED BY <2>1
<1>2. PICK n \in T : \A m \in T : n <= m
  <2> HIDE DEF Bad
  <2>1. T \in SUBSET Nat
    OBVIOUS
  <2> HIDE DEF T
  <2> QED BY <1>1, <2>1, Least
<1>3. PICK ds \in SUBSET Nat : /\ IsFiniteSet(ds) /\ Cardinality(ds) = n
                               /\ ~ \E s : Sorts(s, ds)
  BY <1>2
<1>4. ds # {}
  <2>1. SUFFICES ASSUME ds = {} PROVE FALSE
    OBVIOUS
  <2>2. Cardinality(ds) = 0
    BY <2>1, FS_EmptySet
  <2>3. Sorts([i \in 1..0 |-> i], ds)
    BY <2>1, <2>2 DEF Sorts
  <2> QED BY <2>3, <1>3
<1>5. PICK least \in ds : \A d \in ds : least <= d
  BY <1>4, Least
<1> DEFINE rest == ds \ {least}
<1>6. IsFiniteSet(rest) /\ Cardinality(rest) = n - 1 /\ n \in Nat /\ n - 1 \in Nat
  <2>1. IsFiniteSet(rest) /\ Cardinality(rest) = n - 1
    BY <1>3, FS_RemoveElement
  <2>2. Cardinality(rest) \in Nat
    BY <2>1, FS_CardinalityType
  <2>3. n \in Nat
    BY <1>2
  <2> HIDE DEF rest
  <2> QED BY <2>1, <2>2, <2>3
<1>7. n - 1 \notin T
  <2> HIDE DEF T
  <2> QED BY <1>2, <1>6
<1>8. PICK s : Sorts(s, rest)
  <2>1. ~Bad(n - 1)
    BY <1>6, <1>7
  <2>2. rest \in SUBSET Nat
    OBVIOUS
  <2> QED BY <1>6, <2>1, <2>2
<1> DEFINE longer == [i \in 1..n |-> IF i = 1 THEN least ELSE s[i - 1]]
<1>9. Sorts(longer, ds)
  <2>1. \A i \in 1..n : i # 1 => i - 1 \in 1..(n - 1) /\ s[i - 1] \in rest
    <3> HIDE DEF rest
    <3>1. s \in [1..(n - 1) -> rest]
      BY <1>6, <1>8 DEF Sorts
    <3>2. \A i \in 1..n : i # 1 => i - 1 \in 1..(n - 1)
      BY <1>6
    <3> QED BY <3>1, <3>2
  <2>2. longer \in [1..n -> ds]
    BY <2>1
  <2>3. ASSUME NEW i \in 1..n, NEW j \in 1..n, i < j PROVE longer[i] < longer[j]
    <3>1. j # 1 /\ longer[j] = s[j - 1] /\ s[j - 1] \in rest
      BY <2>1, <2>3, <1>6
    <3>2. CASE i = 1
      <4>1. longer[i] = least
        BY <3>2
      <4>2. s[j - 1] \in ds /\ s[j - 1] # least /\ s[j - 1] \in Nat /\ least \in Nat
        BY <3>1
      <4>3. least <= s[j - 1]
        BY <4>2, <1>5
      <4> HIDE DEF longer, rest
      <4> QED BY <3>1, <4>1, <4>2, <4>3
    <3>3. CASE i # 1
      <4>1. longer[i] = s[i - 1] /\ i - 1 < j - 1 /\ i - 1 \in 1..(n - 1) /\ j - 1 \in 1..(n - 1)
        BY <2>1, <2>3, <3>1, <3>3, <1>6
      <4> QED BY <3>1, <4>1, <1>6, <1>8 DEF Sorts
    <3> QED BY <3>2, <3>3
  <2> HIDE DEF longer
  <2> QED BY <1>3, <2>2, <2>3 DEF Sorts
<1> QED BY <1>3, <1>9

LEMMA InOrderSorts ==
  ASSUME NEW cs \in SUBSET Candidates
  PROVE  /\ InOrder(cs) \in Seq(Candidates)
         /\ Elements(InOrder(cs)) = cs
         /\ Ascending(InOrder(cs))
         /\ cs # {} => InOrder(cs) # <<>>
<1>1. IsFiniteSet(cs) /\ cs \in SUBSET Nat
  BY CandidatesAssumption, FS_Subset
<1> DEFINE n == Cardinality(cs)  s == InOrder(cs)
<1>2. n \in Nat
  BY <1>1, FS_CardinalityType
<1>3. Sorts(s, cs)
  <2>1. \E o \in [1..n -> cs] : \A i, j \in 1..n : i < j => o[i] < o[j]
    BY <1>1, Sortable DEF Sorts
  <2> QED BY <2>1 DEF Sorts, InOrder
<1> HIDE DEF s
<1>4. s \in [1..n -> cs] /\ \A i, j \in 1..n : i < j => s[i] < s[j]
  BY <1>3 DEF Sorts
<1>5. s \in Seq(Candidates) /\ Len(s) = n /\ DOMAIN s = 1..n
  <2>1. s \in [1..n -> Candidates]
    BY <1>4
  <2> HIDE DEF n
  <2> QED BY <1>2, <2>1
<1>6. s \in Injection(1..n, cs)
  <2>1. ASSUME NEW i \in 1..n, NEW j \in 1..n, s[i] = s[j] PROVE i = j
    <3>1. s[i] \in Nat /\ s[j] \in Nat /\ i \in Nat /\ j \in Nat
      <4>1. s[i] \in cs /\ s[j] \in cs
        BY <1>4
      <4>2. \A m \in Nat : \A o \in 1..m : o \in Nat
        OBVIOUS
      <4> QED BY <1>1, <1>2, <4>1, <4>2
    <3>2. ~(i < j) /\ ~(j < i)
      BY <1>4, <2>1, <3>1
    <3> QED BY <3>1, <3>2
  <2> QED BY <1>4, <2>1 DEF Injection, IsInjective
<1>7. s \in Surjection(1..n, cs)
  <2>1. IsFiniteSet(1..n) /\ Cardinality(1..n) = n
    BY <1>2, FS_Interval
  <2> QED BY <1>1, <1>6, <2>1, FS_Injection
<1>8. Elements(s) = cs
  BY <1>4, <1>5, <1>7 DEF Elements, Surjection
<1>9. cs # {} => s # <<>>
  BY <1>5, <1>8 DEF Elements
<1> QED BY <1>4, <1>5, <1>8, <1>9 DEF s, Ascending

LEMMA TailOf ==
  ASSUME NEW s \in Seq(Candidates), s # <<>>, Ascending(s)
  PROVE  /\ Head(s) \in Candidates
         /\ Tail(s) \in Seq(Candidates)
         /\ Elements(s) = {Head(s)} \cup Elements(Tail(s))
         /\ Head(s) \notin Elements(Tail(s))
         /\ Ascending(Tail(s))
         /\ Elements(Tail(s)) \subseteq Candidates
<1>1. Candidates \subseteq Nat
  BY CandidatesAssumption
<1>2. /\ DOMAIN s = 1..Len(s) /\ Len(s) \in Nat \ {0}
      /\ DOMAIN Tail(s) = 1..(Len(s) - 1)
      /\ \A i \in 1..(Len(s) - 1) : Tail(s)[i] = s[i + 1]
      /\ Head(s) = s[1]
  OBVIOUS
<1>3. \A i \in 1..Len(s) : s[i] \in Candidates /\ s[i] \in Nat
  <2>1. \A i \in 1..Len(s) : s[i] \in Candidates
    OBVIOUS
  <2> QED BY <1>1, <2>1
<1>4. Elements(s) = {Head(s)} \cup Elements(Tail(s))
  <2>1. \A i \in 2..Len(s) : i - 1 \in 1..(Len(s) - 1) /\ Tail(s)[i - 1] = s[i]
    BY <1>2
  <2>2. \A i \in 1..Len(s) : i = 1 \/ i \in 2..Len(s)
    BY <1>2
  <2>3. \A i \in 1..(Len(s) - 1) : i + 1 \in 1..Len(s)
    BY <1>2
  <2>4. 1 \in 1..Len(s)
    BY <1>2
  <2>5. \A e \in Elements(s) : e = Head(s) \/ e \in Elements(Tail(s))
    <3> SUFFICES ASSUME NEW i \in 1..Len(s), i # 1 PROVE s[i] \in Elements(Tail(s))
      BY <1>2 DEF Elements
    <3>1. i - 1 \in DOMAIN Tail(s) /\ Tail(s)[i - 1] = s[i]
      BY <1>2, <2>1, <2>2
    <3> QED BY <3>1 DEF Elements
  <2>6. \A e \in Elements(Tail(s)) : e \in Elements(s)
    BY <1>2, <2>3 DEF Elements
  <2>7. Head(s) \in Elements(s)
    BY <1>2, <2>4 DEF Elements
  <2> QED BY <2>5, <2>6, <2>7
<1>5. Head(s) \notin Elements(Tail(s))
  <2>1. \A i \in 1..(Len(s) - 1) : s[1] < s[i + 1]
    BY <1>2 DEF Ascending
  <2>2. \A i \in 1..(Len(s) - 1) : s[i + 1] \in Nat /\ s[1] \in Nat
    BY <1>2, <1>3
  <2> QED BY <1>2, <2>1, <2>2 DEF Elements
<1>6. Ascending(Tail(s))
  <2>1. \A i, j \in 1..(Len(s) - 1) : i < j => s[i + 1] < s[j + 1]
    BY <1>2 DEF Ascending
  <2> QED BY <1>2, <2>1 DEF Ascending
<1> QED BY <1>2, <1>4, <1>5, <1>6 DEF Elements
-----------------------------------------------------------------------------
(* Types *)

LEMMA TxOf ==
    ASSUME TypeOK, NEW t \in Transactions
    PROVE  /\ tx[t] \in Tx
           /\ tx[t].pc \in {"idle", "next", "write", "supersede", "lock", "retract", "done", "aborted"}
           /\ tx[t].held \in SUBSET Candidates
           /\ tx[t].todo \in Seq(Candidates)
           /\ tx[t].rows \in [Candidates -> Product \cup {None}]
           /\ tx[t].decided \in [Candidates -> {"approved", "rejected", "superseded", None}]
           /\ tx[t].found \in Candidates \cup {None}
           /\ tx[t].base \in Nat
           /\ tx[t].read \in [Candidates -> Row]
<1>1. tx[t] \in Tx
    BY DEF TypeOK
<1>. QED BY <1>1 DEF Tx

LEMMA NoTxType ==
    /\ NoTx \in Tx
    /\ NoTx.pc = "idle" /\ NoTx.held = {} /\ NoTx.todo = <<>>
    /\ NoTx.rows = [k \in Candidates |-> None]
    /\ NoTx.decided = [c \in Candidates |-> None]
    /\ NoTx.found = None /\ NoTx.base = 0
    /\ NoTx.read \in [Candidates -> Row]
    /\ \A c \in Candidates : NoTx.read[c].product = None
BY DEF NoTx, Tx, Row

\* The transaction t becomes r, and no other changes.
Becomes(t, r) ==
    /\ r \in Tx
    /\ tx' \in [Transactions -> Tx]
    /\ tx'[t] = r
    /\ \A u \in Transactions \ {t} : tx'[u] = tx[u]

LEMMA BecomesIt ==
    ASSUME TypeOK, NEW t \in Transactions, NEW r \in Tx, tx' = [tx EXCEPT ![t] = r]
    PROVE  Becomes(t, r)
BY DEF Becomes, TypeOK

LEMMA RowIn ==
    ASSUME TypeOK, NEW t \in Transactions, NEW k \in Candidates
    PROVE  /\ ProductIn(t, k) \in Product
           /\ HoldsProduct(t, k) => tx[t].rows[k] \in Product
           /\ product[k] \in Product
<1>1. product[k] \in Product
    BY DEF TypeOK
<1>2. tx[t].rows[k] \in Product \cup {None}
    BY TxOf
<1>. QED BY <1>1, <1>2 DEF ProductIn, HoldsProduct

-----------------------------------------------------------------------------
(* Product rows *)

LEMMA RowFields ==
    ASSUME NEW row \in Product
    PROVE  /\ row.status \in {"none", "active", "inactive"}
           /\ row.name \in Names \cup {None}
           /\ row.current \in Nat
           /\ row.versions \in Seq(Version)
           /\ DOMAIN row.versions = 1..Len(row.versions)
           /\ Len(row.versions) \in Nat
           /\ \A i \in DOMAIN row.versions : row.versions[i] \in Version
BY DEF Product

LEMMA FirstRowOf ==
    ASSUME NEW c \in Candidates, candidate[c].name \in Names \cup {None}
    PROVE  /\ NewProduct(c) \in Product
           /\ NewProduct(c).status = "active"
           /\ Chain(NewProduct(c))
           /\ VersionsOf(NewProduct(c)) = {c}
           /\ CurrentOf(NewProduct(c)) = c
           /\ Len(NewProduct(c).versions) = 1
<1> DEFINE v == [candidate |-> c, status |-> "approved"]  row == NewProduct(c)
<1>1. v \in Version /\ v.candidate = c /\ v.status = "approved"
    BY DEF Version
<1>2. /\ row.status = "active" /\ row.name = candidate[c].name
      /\ row.current = 1 /\ row.versions = <<v>>
    BY DEF NewProduct
<1>4. row \in Product
    <2> HIDE DEF v
    <2>1. <<v>> \in Seq(Version)
        BY <1>1
    <2>. QED BY <2>1 DEF NewProduct, Product, v
<1>. HIDE DEF v, row
<1>5. Len(<<v>>) = 1 /\ DOMAIN <<v>> = {1} /\ <<v>>[1] = v
    OBVIOUS
<1>6. Chain(row) /\ VersionsOf(row) = {c} /\ CurrentOf(row) = c
    BY <1>1, <1>2, <1>5 DEF Chain, VersionsOf, CurrentOf
<1>. QED BY <1>2, <1>4, <1>5, <1>6 DEF row

LEMMA FirstRow ==
    ASSUME TypeOK, NEW c \in Candidates
    PROVE  /\ NewProduct(c) \in Product
           /\ NewProduct(c).status = "active"
           /\ Chain(NewProduct(c))
           /\ VersionsOf(NewProduct(c)) = {c}
           /\ CurrentOf(NewProduct(c)) = c
           /\ Len(NewProduct(c).versions) = 1
<1>1. candidate[c].name \in Names \cup {None}
    BY DEF TypeOK, Candidate
<1>. QED BY <1>1, FirstRowOf

LEMMA NextRow ==
    ASSUME TypeOK, NEW row \in Product, Chain(row), NEW c \in Candidates,
           NEW base \in Nat, base = Len(row.versions)
    PROVE  LET next == NextVersion(row, base, c)
           IN  /\ next \in Product
               /\ next.status = "active"
               /\ Chain(next)
               /\ Extends(next, row)
               /\ VersionsOf(next) = VersionsOf(row) \cup {c}
               /\ CurrentOf(next) = c
               /\ Len(next.versions) = base + 1
<1> DEFINE v == [candidate |-> c, status |-> "approved"]
           next == NextVersion(row, base, c)
           closed == [row.versions EXCEPT ![base].status = "superseded"]
<1>1. /\ row.versions \in Seq(Version) /\ DOMAIN row.versions = 1..base /\ base # 0
      /\ row.current = base
      /\ \A i \in 1..base : row.versions[i] \in Version
    BY RowFields DEF Chain
<1>2. v \in Version /\ v.candidate = c /\ v.status = "approved"
    BY DEF Version
<1>3. /\ next.status = "active" /\ next.name = candidate[c].name
      /\ next.current = base + 1 /\ next.versions = Append(closed, v)
    BY DEF NextVersion
<1>4. candidate[c].name \in Names \cup {None}
    BY DEF TypeOK, Candidate
<1> DEFINE last == [row.versions[base] EXCEPT !.status = "superseded"]
<1>5. last \in Version /\ last.candidate = row.versions[base].candidate /\ last.status = "superseded"
    BY <1>1 DEF Version
<1>6. closed = [row.versions EXCEPT ![base] = last]
    BY <1>1
<1>. HIDE DEF last
<1>7. /\ closed \in Seq(Version) /\ Len(closed) = base
      /\ closed[base] = last
      /\ \A i \in 1..base : i # base => closed[i] = row.versions[i]
    BY <1>1, <1>5, <1>6
<1>8. next \in Product
    <2>1. Append(closed, v) \in Seq(Version)
        <3>. HIDE DEF closed, v
        <3>. QED BY <1>2, <1>7
    <2>2. base + 1 \in Nat
        OBVIOUS
    <2>. HIDE DEF closed
    <2>3. NextVersion(row, base, c) = [status |-> "active", name |-> candidate[c].name,
                                       current |-> base + 1, versions |-> Append(closed, v)]
        BY DEF NextVersion, closed
    <2>. HIDE DEF v
    <2>. QED BY <1>4, <2>1, <2>2, <2>3 DEF Product
<1>. HIDE DEF closed, v, next
<1>9. /\ Len(next.versions) = base + 1
      /\ DOMAIN next.versions = 1..(base + 1)
      /\ next.versions[base + 1] = v
      /\ \A i \in 1..base : next.versions[i] = closed[i]
    BY <1>1, <1>2, <1>3, <1>7
<1>10. \A i \in 1..base : next.versions[i].candidate = row.versions[i].candidate
    BY <1>5, <1>7, <1>9
<1>11. \A i \in 1..(base + 1) : i = base + 1 \/ i \in 1..base
    OBVIOUS
<1>12. Chain(next)
    <2>1. ASSUME NEW i \in 1..(base + 1)
          PROVE  next.versions[i].status = "approved" <=> i = base + 1
        <3>1. CASE i = base + 1
            BY <1>2, <1>9, <3>1
        <3>2. CASE i \in 1..base /\ i # base + 1
            <4>1. next.versions[i].status # "approved"
                BY SMTT(30), <3>2, <1>1, <1>5, <1>7, <1>9 DEF Chain
            <4>. QED BY <3>2, <4>1
        <3>. QED BY <3>1, <3>2, <1>11
    <2>. QED BY <2>1, <1>3, <1>9 DEF Chain
<1>13. Extends(next, row)
    BY <1>1, <1>9, <1>10 DEF Extends
<1>14. VersionsOf(next) = VersionsOf(row) \cup {c}
    <2>1. \A d \in VersionsOf(next) : d = c \/ d \in VersionsOf(row)
        BY <1>1, <1>2, <1>9, <1>10, <1>11 DEF VersionsOf
    <2>2. \A d \in VersionsOf(row) : d \in VersionsOf(next)
        BY <1>1, <1>9, <1>10 DEF VersionsOf
    <2>3. c \in VersionsOf(next)
        BY <1>2, <1>9 DEF VersionsOf
    <2>. QED BY <2>1, <2>2, <2>3
<1>15. CurrentOf(next) = c
    BY <1>2, <1>3, <1>9 DEF CurrentOf
<1>. QED BY <1>3, <1>8, <1>9, <1>12, <1>13, <1>14, <1>15 DEF next

LEMMA InactiveRow ==
    ASSUME NEW row \in Product
    PROVE  LET closed == [row EXCEPT !.status = "inactive"]
           IN  /\ closed \in Product
               /\ closed.status = "inactive"
               /\ closed.current = row.current
               /\ closed.versions = row.versions
BY DEF Product

LEMMA ExtendsVersions ==
    ASSUME NEW row \in Product, NEW former \in Product, Extends(row, former)
    PROVE  VersionsOf(former) \subseteq VersionsOf(row)
<1>1. \A i \in DOMAIN former.versions : i \in DOMAIN row.versions
    BY RowFields DEF Extends
<1>. QED BY <1>1 DEF Extends, VersionsOf

LEMMA ExtendsSelf ==
    ASSUME NEW row \in Product
    PROVE  Extends(row, row)
BY RowFields DEF Extends

LEMMA ExtendsOn ==
    ASSUME NEW a \in Product, NEW b \in Product, NEW c \in Product, Extends(a, b), Extends(b, c)
    PROVE  Extends(a, c)
<1>1. \A i \in DOMAIN c.versions : i \in DOMAIN b.versions
    BY RowFields DEF Extends
<1>2. Len(c.versions) <= Len(a.versions)
    BY RowFields DEF Extends
<1>. QED BY <1>1, <1>2 DEF Extends

LEMMA CurrentIsVersion ==
    ASSUME NEW row \in Product, Chain(row)
    PROVE  CurrentOf(row) \in VersionsOf(row) /\ CurrentOf(row) \in Candidates
<1>1. row.current \in DOMAIN row.versions
    BY RowFields DEF Chain
<1>2. row.versions[row.current] \in Version
    BY <1>1, RowFields
<1>. QED BY <1>1, <1>2 DEF CurrentOf, VersionsOf, Version

LEMMA VersionsAreCandidates ==
    ASSUME NEW row \in Product
    PROVE  VersionsOf(row) \subseteq Candidates
<1>1. \A i \in DOMAIN row.versions : row.versions[i].candidate \in Candidates
    BY RowFields DEF Version
<1>. QED BY <1>1 DEF VersionsOf

-----------------------------------------------------------------------------
(* What the steps of an open transaction do to its record *)

Moves(t, pc, held, todo, rows, decided) ==
    /\ tx' \in [Transactions -> Tx]
    /\ \A u \in Transactions \ {t} : tx'[u] = tx[u]
    /\ tx'[t].pc = pc /\ tx'[t].held = held /\ tx'[t].todo = todo
    /\ tx'[t].rows = rows /\ tx'[t].decided = decided

LEMMA HeadOf ==
    ASSUME TypeOK, NEW t \in Transactions, tx[t].todo # <<>>
    PROVE  Head(tx[t].todo) \in Candidates /\ Tail(tx[t].todo) \in Seq(Candidates)
<1>1. tx[t].todo \in Seq(Candidates)
    BY TxOf
<1>. QED BY <1>1

LEMMA RefuseMoves ==
    ASSUME TypeOK, NEW t \in Transactions, Refuse(t)
    PROVE  /\ Moves(t, "next", tx[t].held, Tail(tx[t].todo), tx[t].rows,
                    [tx[t].decided EXCEPT ![Head(tx[t].todo)] = "rejected"])
           /\ tx'[t].read = tx[t].read
<1> DEFINE h == Head(tx[t].todo)  rest == Tail(tx[t].todo)
           d == [tx[t].decided EXCEPT ![h] = "rejected"]
           r == [tx[t] EXCEPT !.decided = d, !.todo = rest]
<1>1. tx[t] \in Tx /\ tx[t].todo # <<>> /\ tx[t].pc = "next"
    BY TxOf DEF Refuse
<1>2. h \in Candidates /\ rest \in Seq(Candidates)
    BY <1>1, HeadOf
<1>3. tx' = [tx EXCEPT ![t] = r]
    <2>1. tx' = [tx EXCEPT ![t].decided[h] = "rejected", ![t].todo = rest]
        BY DEF Refuse
    <2>. HIDE DEF h, rest
    <2>. QED BY <1>1, <2>1 DEF TypeOK
<1>4. d \in [Candidates -> {"approved", "rejected", "superseded", None}]
    <2>. HIDE DEF h
    <2>. QED BY <1>2, TxOf
<1>. HIDE DEF h, rest, d
<1>5. /\ r \in Tx /\ r.pc = "next" /\ r.held = tx[t].held /\ r.todo = rest
      /\ r.rows = tx[t].rows /\ r.decided = d /\ r.read = tx[t].read
    BY <1>1, <1>2, <1>4 DEF Tx
<1>. HIDE DEF r
<1>6. Becomes(t, r)
    BY <1>3, <1>5, BecomesIt
<1>. QED BY <1>5, <1>6 DEF Moves, Becomes, h, rest, d

LEMMA FindMoves ==
    ASSUME TypeOK, NEW t \in Transactions, Find(t)
    PROVE  /\ Moves(t, "write", tx[t].held, tx[t].todo, tx[t].rows, tx[t].decided)
           /\ tx'[t].read = tx[t].read
           /\ tx'[t].found # None =>
                /\ tx'[t].found \in Candidates
                /\ Exists(t, tx'[t].found)
                /\ tx'[t].base = ProductIn(t, tx'[t].found).current
<1>1. tx[t] \in Tx /\ tx[t].todo # <<>>
    BY TxOf DEF Find
<1> DEFINE matches == Matches(t, Head(tx[t].todo))
<1>2. PICK k \in IF matches = {} THEN {None} ELSE matches :
        tx' = [tx EXCEPT ![t].pc = "write", ![t].found = k,
                         ![t].base = IF k = None THEN 0 ELSE ProductIn(t, k).current]
    BY DEF Find
<1>3. \A m \in matches : m \in Candidates /\ Exists(t, m)
    BY DEF Matches, OfSource, OfName
<1>. HIDE DEF matches
<1>4. k = None \/ (k \in Candidates /\ Exists(t, k))
    BY <1>2, <1>3
<1> DEFINE base == IF k = None THEN 0 ELSE ProductIn(t, k).current
           r == [tx[t] EXCEPT !.pc = "write", !.found = k, !.base = base]
<1>5. base \in Nat
    BY <1>4, RowIn, RowFields
<1>6. tx' = [tx EXCEPT ![t] = r]
    BY <1>1, <1>2 DEF TypeOK
<1>. HIDE DEF base
<1>7. /\ r \in Tx /\ r.pc = "write" /\ r.held = tx[t].held /\ r.todo = tx[t].todo
      /\ r.rows = tx[t].rows /\ r.decided = tx[t].decided /\ r.read = tx[t].read
      /\ r.found = k /\ r.base = base
    BY <1>1, <1>4, <1>5 DEF Tx
<1>. HIDE DEF r
<1>8. Becomes(t, r)
    BY <1>6, <1>7, BecomesIt
<1>. QED BY <1>4, <1>7, <1>8 DEF Moves, Becomes, base

\* What a promotion writes: the first version of a product, the next version of
\* the product found, or that product as it is.
Written(t, k, row) ==
    LET c == Head(tx[t].todo)
    IN  \/ /\ tx[t].found = None /\ k = c
           /\ ~HasVersion(c)
           /\ row = NewProduct(c)
        \/ /\ k = tx[t].found /\ FreeProduct(t, k)
           /\ ~HasVersion(c)
           /\ Len(ProductIn(t, k).versions) <= tx[t].base
           /\ row = NextVersion(ProductIn(t, k), tx[t].base, c)
        \/ /\ k = tx[t].found /\ FreeProduct(t, k)
           /\ row = ProductIn(t, k)

LEMMA WriteMoves ==
    ASSUME IInv, NEW t \in Promoters, Write(t)
    PROVE  \E k \in Candidates, row \in Product :
            /\ Written(t, k, row)
            /\ Moves(t, "supersede", tx[t].held, tx[t].todo, [tx[t].rows EXCEPT ![k] = row],
                     [tx[t].decided EXCEPT ![Head(tx[t].todo)] = "approved"])
            /\ tx'[t].read = tx[t].read
<1>. TypeOK /\ t \in Transactions
    BY DEF IInv, Transactions
<1> DEFINE c == Head(tx[t].todo)
           k == IF tx[t].found = None THEN c ELSE tx[t].found
           d == [tx[t].decided EXCEPT ![c] = "approved"]
<1>1. tx[t] \in Tx /\ tx[t].todo # <<>> /\ tx[t].pc = "write"
    BY TxOf DEF Write, IInv, Phases, PhaseOf
<1>2. c \in Candidates
    BY <1>1, HeadOf
<1>3. k \in Candidates
    BY <1>2, TxOf
<1>4. PICK row : /\ Written(t, k, row)
                 /\ tx' = [tx EXCEPT ![t].pc = "supersede", ![t].rows[k] = row,
                                     ![t].decided[c] = "approved"]
    <2>1. ASSUME tx[t].found = None, ~Conflict(t, tx[t].found, c)
          PROVE  k = c /\ Written(t, k, NewProduct(c))
        BY <2>1 DEF Conflict, Written
    <2>2. ASSUME tx[t].found # None, FreeProduct(t, tx[t].found), ~Conflict(t, tx[t].found, c)
          PROVE  k = tx[t].found /\ Written(t, k, NextVersion(ProductIn(t, k), tx[t].base, c))
        <3>1. ProductIn(t, tx[t].found) \in Product /\ tx[t].base \in Nat
            BY <2>2, <1>3, RowIn, TxOf
        <3>2. Len(ProductIn(t, tx[t].found).versions) <= tx[t].base
            BY <2>2, <3>1, RowFields DEF Conflict
        <3>. QED BY <2>2, <3>2 DEF Conflict, Written
    <2>3. ASSUME tx[t].found # None, FreeProduct(t, tx[t].found)
          PROVE  k = tx[t].found /\ Written(t, k, ProductIn(t, k))
        BY <2>3 DEF Written
    <2>4. \/ tx[t].found = None /\ ~Conflict(t, tx[t].found, c)
             /\ tx' = [tx EXCEPT ![t].pc = "supersede", ![t].rows[c] = NewProduct(c),
                                 ![t].decided[c] = "approved"]
          \/ /\ tx[t].found # None /\ FreeProduct(t, tx[t].found) /\ ~Conflict(t, tx[t].found, c)
             /\ tx' = [tx EXCEPT ![t].pc = "supersede",
                                 ![t].rows[tx[t].found] =
                                     NextVersion(ProductIn(t, tx[t].found), tx[t].base, c),
                                 ![t].decided[c] = "approved"]
          \/ /\ tx[t].found # None /\ FreeProduct(t, tx[t].found)
             /\ tx' = [tx EXCEPT ![t].pc = "supersede",
                                 ![t].rows[tx[t].found] = ProductIn(t, tx[t].found),
                                 ![t].decided[c] = "approved"]
        BY DEF Write
    <2>. HIDE DEF c, k
    <2>. QED BY <2>1, <2>2, <2>3, <2>4
<1>5. row \in Product
    <2>1. NewProduct(c) \in Product /\ ProductIn(t, k) \in Product /\ tx[t].base \in Nat
        BY <1>2, <1>3, FirstRow, RowIn, TxOf
    <2>2. CASE row = NewProduct(c) \/ row = ProductIn(t, k)
        BY <2>1, <2>2
    <2>3. CASE /\ k = tx[t].found /\ k # None
               /\ Len(ProductIn(t, k).versions) <= tx[t].base
               /\ row = NextVersion(ProductIn(t, k), tx[t].base, c)
        <3>1. Exists(t, k) /\ tx[t].base \in 1..Len(ProductIn(t, k).versions)
            BY <2>3, <1>1, <1>3 DEF IInv, Bases, BaseOf
        <3>2. tx[t].base = Len(ProductIn(t, k).versions)
            BY <2>1, <2>3, <3>1, RowFields
        <3>3. Chain(ProductIn(t, k))
            BY <1>3, <3>1 DEF IInv, ProductShape, RowShapes, RowShapeOf, Exists, ProductIn
        <3>. HIDE DEF c, k
        <3>. QED BY <1>2, <2>1, <2>3, <3>2, <3>3, NextRow
    <2>. QED BY <1>4, <1>3, <2>2, <2>3, CandidatesAssumption DEF Written
<1>6. row # None
    BY <1>5, NoneAssumption
<1> DEFINE rows == [tx[t].rows EXCEPT ![k] = row]
           r == [tx[t] EXCEPT !.pc = "supersede", !.rows = rows, !.decided = d]
<1>7. tx' = [tx EXCEPT ![t] = r]
    <2>. HIDE DEF c, k
    <2>. QED BY ZenonT(40), <1>1, <1>4 DEF TypeOK
<1>8. /\ d \in [Candidates -> {"approved", "rejected", "superseded", None}]
      /\ rows \in [Candidates -> Product \cup {None}]
    <2>. HIDE DEF c, k
    <2>. QED BY <1>2, <1>3, <1>5, TxOf
<1>. HIDE DEF c, k, d, rows
<1>9. /\ r \in Tx /\ r.pc = "supersede" /\ r.held = tx[t].held /\ r.todo = tx[t].todo
      /\ r.rows = rows /\ r.decided = d /\ r.read = tx[t].read
    BY <1>1, <1>8 DEF Tx
<1>. HIDE DEF r
<1>10. Becomes(t, r)
    BY <1>7, <1>9, BecomesIt
<1>11. /\ Moves(t, "supersede", tx[t].held, tx[t].todo, [tx[t].rows EXCEPT ![k] = row],
               [tx[t].decided EXCEPT ![Head(tx[t].todo)] = "approved"])
       /\ tx'[t].read = tx[t].read
    BY <1>9, <1>10 DEF Moves, Becomes, rows, d, c
<1>. QED BY <1>3, <1>4, <1>5, <1>11

LEMMA SupersedeMoves ==
    ASSUME TypeOK, NEW t \in Transactions, tx[t].todo # <<>>, Supersede(t)
    PROVE  LET stale == StaleOfSource(t, Head(tx[t].todo))
           IN  /\ Moves(t, "next", tx[t].held \cup stale, Tail(tx[t].todo), tx[t].rows,
                        [d \in Candidates |->
                            IF d \in stale THEN "superseded" ELSE tx[t].decided[d]])
               /\ tx'[t].read = tx[t].read
<1> DEFINE stale == StaleOfSource(t, Head(tx[t].todo))  rest == Tail(tx[t].todo)
           ds == [d \in Candidates |-> IF d \in stale THEN "superseded" ELSE tx[t].decided[d]]
           r == [tx[t] EXCEPT !.pc = "next", !.todo = rest, !.held = @ \cup stale,
                              !.found = None, !.base = 0, !.decided = ds]
<1>1. tx[t] \in Tx
    BY TxOf
<1>2. stale \in SUBSET Candidates /\ rest \in Seq(Candidates)
    BY HeadOf DEF StaleOfSource
<1>3. tx' = [tx EXCEPT ![t] = r]
    <2>1. tx' = [tx EXCEPT ![t].pc = "next", ![t].todo = rest, ![t].held = @ \cup stale,
                           ![t].found = None, ![t].base = 0, ![t].decided = ds]
        BY DEF Supersede
    <2>. HIDE DEF stale, rest, ds
    <2>. QED BY <1>1, <2>1 DEF TypeOK
<1>4. ds \in [Candidates -> {"approved", "rejected", "superseded", None}]
    <2>. HIDE DEF stale
    <2>. QED BY TxOf
<1>. HIDE DEF stale, rest, ds
<1>5. /\ r \in Tx /\ r.pc = "next" /\ r.held = tx[t].held \cup stale /\ r.todo = rest
      /\ r.rows = tx[t].rows /\ r.decided = ds /\ r.read = tx[t].read
    BY <1>1, <1>2, <1>4, TxOf DEF Tx
<1>. HIDE DEF r
<1>6. Becomes(t, r)
    BY <1>3, <1>5, BecomesIt
<1>. QED BY <1>5, <1>6 DEF Moves, Becomes, stale, rest, ds

LEMMA LockRowMoves ==
    ASSUME TypeOK, NEW t \in Transactions, tx[t].todo # <<>>, LockRow(t)
    PROVE  LET c == Head(tx[t].todo)  held == tx[t].held \cup {c}  rest == Tail(tx[t].todo)
           IN  /\ IF rest = <<>>
                  THEN Moves(t, "retract", held, InOrder(held), tx[t].rows, tx[t].decided)
                  ELSE Moves(t, "lock", held, rest, tx[t].rows, tx[t].decided)
               /\ tx'[t].read = tx[t].read
<1> DEFINE c == Head(tx[t].todo)  held == tx[t].held \cup {c}  rest == Tail(tx[t].todo)
           pc == IF rest = <<>> THEN "retract" ELSE "lock"
           todo == IF rest = <<>> THEN InOrder(held) ELSE rest
           r == [tx[t] EXCEPT !.held = held, !.pc = pc, !.todo = todo]
<1>1. tx[t] \in Tx
    BY TxOf
<1>2. c \in Candidates /\ rest \in Seq(Candidates) /\ held \in SUBSET Candidates
    BY HeadOf, TxOf
<1>3. todo \in Seq(Candidates)
    <2>. HIDE DEF held, rest
    <2>. QED BY <1>2, InOrderSorts
<1>4. tx' = [tx EXCEPT ![t] = r]
    <2>1. tx' = [tx EXCEPT ![t].held = held, ![t].pc = pc, ![t].todo = todo]
        BY <1>1 DEF LockRow, TypeOK
    <2>. HIDE DEF held, pc, todo
    <2>. QED BY <1>1, <2>1 DEF TypeOK
<1>. HIDE DEF c, held, rest, todo
<1>5. /\ r \in Tx /\ r.pc = pc /\ r.held = held /\ r.todo = todo
      /\ r.rows = tx[t].rows /\ r.decided = tx[t].decided /\ r.read = tx[t].read
    BY <1>1, <1>2, <1>3 DEF Tx
<1>. HIDE DEF r
<1>6. Becomes(t, r)
    BY <1>4, <1>5, BecomesIt
<1>. QED BY <1>5, <1>6 DEF Moves, Becomes, c, held, rest, todo

\* A retraction writes the product it withdraws, with the candidate it rejects.
LEMMA RetractMoves ==
    ASSUME TypeOK, NEW t \in Transactions, Retract(t)
    PROVE  LET c == Head(tx[t].todo)
               k == tx[t].read[c].product
               decided == [tx[t].decided EXCEPT ![c] = "rejected"]
               closed == [ProductIn(t, k) EXCEPT !.status = "inactive"]
           IN  /\ IF Withdraws(t, c)
                  THEN /\ k \in Candidates /\ FreeProduct(t, k)
                       /\ Moves(t, "retract", tx[t].held, Tail(tx[t].todo),
                                [tx[t].rows EXCEPT ![k] = closed], decided)
                  ELSE Moves(t, "retract", tx[t].held, Tail(tx[t].todo), tx[t].rows, decided)
               /\ tx'[t].read = tx[t].read
<1> DEFINE c == Head(tx[t].todo)
           rest == Tail(tx[t].todo)
           k == tx[t].read[c].product
           ds == [tx[t].decided EXCEPT ![c] = "rejected"]
           closed == [ProductIn(t, k) EXCEPT !.status = "inactive"]
<1>1. tx[t] \in Tx /\ tx[t].todo # <<>> /\ tx[t].pc = "retract"
    BY TxOf DEF Retract
<1>2. c \in Candidates /\ rest \in Seq(Candidates)
    BY <1>1, HeadOf
<1>3. tx[t].read[c] \in Row
    <2>. HIDE DEF c
    <2>. QED BY <1>2, TxOf
<1>4. k \in Candidates \cup {None}
    BY <1>3 DEF Row
<1>5. ds \in [Candidates -> {"approved", "rejected", "superseded", None}]
    <2>. HIDE DEF c
    <2>. QED BY <1>2, TxOf
<1>6. CASE Withdraws(t, c)
    <2> DEFINE rows == [tx[t].rows EXCEPT ![k] = closed]
               r == [tx[t] EXCEPT !.decided = ds, !.todo = rest, !.rows = rows]
    <2>1. k \in Candidates /\ FreeProduct(t, k)
        BY <1>4, <1>6 DEF Withdraws, Retract
    <2>2. tx' = [tx EXCEPT ![t] = r]
        <3>1. tx' = [tx EXCEPT ![t].decided[c] = "rejected", ![t].todo = rest, ![t].rows[k] = closed]
            BY <1>1, <1>6 DEF Retract, TypeOK
        <3>. HIDE DEF c, rest, k, closed
        <3>. QED BY <1>1, <3>1 DEF TypeOK
    <2>3. closed \in Product
        <3>1. ProductIn(t, k) \in Product
            BY <2>1, RowIn
        <3>. QED BY <3>1, InactiveRow
    <2>4. rows \in [Candidates -> Product \cup {None}]
        <3>. HIDE DEF k, closed
        <3>. QED BY <2>1, <2>3, TxOf
    <2>. HIDE DEF c, rest, ds, k, closed, rows
    <2>5. /\ r \in Tx /\ r.pc = "retract" /\ r.held = tx[t].held /\ r.todo = rest
          /\ r.rows = rows /\ r.decided = ds /\ r.read = tx[t].read
        BY <1>1, <1>2, <1>5, <2>4 DEF Tx
    <2>. HIDE DEF r
    <2>6. Becomes(t, r)
        BY <2>2, <2>5, BecomesIt
    <2>. QED BY <1>6, <2>1, <2>5, <2>6 DEF Moves, Becomes, c, rest, ds, k, closed, rows
<1>7. CASE ~Withdraws(t, c)
    <2> DEFINE r == [tx[t] EXCEPT !.decided = ds, !.todo = rest]
    <2>1. tx' = [tx EXCEPT ![t] = r]
        <3>1. tx' = [tx EXCEPT ![t].decided[c] = "rejected", ![t].todo = rest]
            BY <1>1, <1>7 DEF Retract, TypeOK
        <3>. HIDE DEF c, rest
        <3>. QED BY <1>1, <3>1 DEF TypeOK
    <2>. HIDE DEF c, rest, ds
    <2>2. /\ r \in Tx /\ r.pc = "retract" /\ r.held = tx[t].held /\ r.todo = rest
          /\ r.rows = tx[t].rows /\ r.decided = ds /\ r.read = tx[t].read
        BY <1>1, <1>2, <1>5 DEF Tx
    <2>. HIDE DEF r
    <2>3. Becomes(t, r)
        BY <2>1, <2>2, BecomesIt
    <2>. QED BY <1>7, <2>2, <2>3 DEF Moves, Becomes, c, rest, ds
<1>. QED BY <1>6, <1>7

LEMMA LoadMoves ==
    ASSUME TypeOK, NEW t \in Transactions, Load(t)
    PROVE  LET taken == {c \in Candidates : Loadable(t, c)}
           IN  /\ Moves(t, "next", taken, InOrder(taken), NoTx.rows, NoTx.decided)
               /\ tx'[t].read = NoTx.read
<1> DEFINE taken == {c \in Candidates : Loadable(t, c)}
           r == [NoTx EXCEPT !.pc = "next", !.held = taken, !.todo = InOrder(taken)]
<1>1. taken \in SUBSET Candidates
    OBVIOUS
<1>2. tx' = [tx EXCEPT ![t] = r]
    BY DEF Load
<1>. HIDE DEF taken
<1>3. InOrder(taken) \in Seq(Candidates)
    BY <1>1, InOrderSorts
<1>4. /\ r \in Tx /\ r.pc = "next" /\ r.held = taken /\ r.todo = InOrder(taken)
      /\ r.rows = NoTx.rows /\ r.decided = NoTx.decided /\ r.read = NoTx.read
    BY <1>1, <1>3, NoTxType DEF Tx
<1>. HIDE DEF r
<1>5. Becomes(t, r)
    BY <1>2, <1>4, BecomesIt
<1>. QED BY <1>4, <1>5 DEF Moves, Becomes, taken

\* The product that a retraction reads is one that the candidate is current in.
LEMMA RowRead ==
    ASSUME TypeOK, NEW c \in Candidates
    PROVE  /\ RowOf(c) \in Row
           /\ RowOf(c).product # None =>
                /\ product[RowOf(c).product].status # "none"
                /\ CurrentOf(product[RowOf(c).product]) = c
                /\ RowOf(c).active <=> product[RowOf(c).product].status = "active"
<1>1. CASE CurrentProduct(c) = {}
    BY <1>1 DEF RowOf, Row
<1>2. CASE CurrentProduct(c) # {}
    <2> DEFINE k == CHOOSE k \in CurrentProduct(c) : TRUE
    <2>1. k \in CurrentProduct(c)
        BY <1>2
    <2>2. RowOf(c) = [product |-> k, active |-> product[k].status = "active"]
        BY <1>2 DEF RowOf
    <2>. HIDE DEF k
    <2>3. k \in Candidates /\ product[k].status # "none" /\ CurrentOf(product[k]) = c
        BY <2>1 DEF CurrentProduct, CurrentOf
    <2> DEFINE b == product[k].status = "active"
    <2>4. RowOf(c) = [product |-> k, active |-> b] /\ b \in BOOLEAN
        BY <2>2
    <2>. HIDE DEF b
    <2>5. RowOf(c) \in Row /\ RowOf(c).product = k /\ RowOf(c).active = b
        BY <2>3, <2>4 DEF Row
    <2>6. RowOf(c).active <=> product[k].status = "active"
        BY <2>5 DEF b
    <2>. QED BY <2>3, <2>5, <2>6
<1>. QED BY <1>1, <1>2

LEMMA ReadMoves ==
    ASSUME TypeOK, NEW t \in Transactions, tx[t].held = {}, tx[t].decided = NoTx.decided,
           tx[t].rows = NoTx.rows, NEW ids \in SUBSET Candidates, ReadRows(t, ids)
    PROVE  /\ Moves(t, "lock", tx[t].held, InOrder(ids), tx[t].rows, tx[t].decided)
           /\ \A c \in Candidates :
                \/ c \in ids /\ tx'[t].read[c] = RowOf(c)
                \/ c \notin ids /\ tx'[t].read[c] = NoTx.read[c]
<1> DEFINE read == [c \in Candidates |-> IF c \in ids THEN RowOf(c) ELSE NoTx.read[c]]
           r == [tx[t] EXCEPT !.pc = "lock", !.todo = InOrder(ids), !.read = read]
<1>1. tx[t] \in Tx
    BY TxOf
<1>2. read \in [Candidates -> Row]
    BY RowRead, NoTxType
<1>3. tx' = [tx EXCEPT ![t] = r]
    BY <1>1 DEF ReadRows, TypeOK
<1>4. InOrder(ids) \in Seq(Candidates)
    BY InOrderSorts
<1>5. \A c \in Candidates :
        \/ c \in ids /\ read[c] = RowOf(c)
        \/ c \notin ids /\ read[c] = NoTx.read[c]
    OBVIOUS
<1>. HIDE DEF read
<1>6. /\ r \in Tx /\ r.pc = "lock" /\ r.held = tx[t].held /\ r.todo = InOrder(ids)
      /\ r.rows = tx[t].rows /\ r.decided = tx[t].decided /\ r.read = read
    BY <1>1, <1>2, <1>4 DEF Tx
<1>. HIDE DEF r
<1>7. Becomes(t, r)
    BY <1>3, <1>6, BecomesIt
<1>. QED BY <1>5, <1>6, <1>7 DEF Moves, Becomes

\* A transaction that ends holds nothing any more.
LEMMA EndMoves ==
    ASSUME TypeOK, NEW t \in Transactions, NEW pc \in {"done", "aborted"},
           tx' = [tx EXCEPT ![t] = Ended(t, pc)]
    PROVE  LET kept == t \in Retractions /\ pc = "done"
           IN  /\ Moves(t, pc, {}, <<>>, NoTx.rows,
                        IF kept THEN tx[t].decided ELSE NoTx.decided)
               /\ tx'[t].read = IF kept THEN tx[t].read ELSE NoTx.read
<1> DEFINE kept == t \in Retractions /\ pc = "done"
           r == IF kept
                THEN [NoTx EXCEPT !.pc = pc, !.read = tx[t].read, !.decided = tx[t].decided]
                ELSE [NoTx EXCEPT !.pc = pc]
<1>1. tx' = [tx EXCEPT ![t] = r]
    BY DEF Ended
<1>2. /\ r \in Tx /\ r.pc = pc /\ r.held = {} /\ r.todo = <<>> /\ r.rows = NoTx.rows
      /\ r.decided = (IF kept THEN tx[t].decided ELSE NoTx.decided)
      /\ r.read = (IF kept THEN tx[t].read ELSE NoTx.read)
    BY NoTxType, TxOf DEF Tx
<1>. HIDE DEF r
<1>3. Becomes(t, r)
    BY <1>1, <1>2, BecomesIt
<1>. QED BY <1>2, <1>3 DEF Moves, Becomes

-----------------------------------------------------------------------------
(* What the steps of an open transaction leave alone *)

LEMMA Disjoint ==
    /\ Promoters \subseteq Transactions /\ Retractions \subseteq Transactions
    /\ Runs \subseteq Promoters
    /\ \A t \in Transactions : t \in Promoters <=> t \notin Retractions
BY TransactionsAssumption DEF Promoters, Transactions

\* Nothing of the tables is written, and only t, which is not over, moves.
Quiet(t) ==
    /\ UNCHANGED <<candidate, review, product>>
    /\ tx' \in [Transactions -> Tx]
    /\ \A u \in Transactions \ {t} : tx'[u] = tx[u]
    /\ tx[t].pc \in {"idle"} \cup Busy \cup Locking

\* The same, and t does not end.
OpenStep(t) ==
    /\ UNCHANGED <<candidate, review, product>>
    /\ tx' \in [Transactions -> Tx]
    /\ \A u \in Transactions \ {t} : tx'[u] = tx[u]
    /\ tx[t].pc \in {"idle"} \cup Busy \cup Locking
    /\ tx'[t].pc \in Busy \cup Locking

LEMMA ReadTables ==
    ASSUME UNCHANGED product
    PROVE  /\ \A k \in Candidates : Versions(k)' = Versions(k)
           /\ \A c : HasVersion(c)' <=> HasVersion(c)
BY DEF Versions, HasVersion

\* What a retraction read stays true while no product changes, if the rows that
\* others write, and its own for what it rejects, are as it needs them.
LEMMA ReadCarries ==
    ASSUME UNCHANGED product, NEW x \in Retractions, ReadOf(x), tx'[x].read = tx[x].read,
           \A c, k \in Candidates, u \in Transactions :
               /\ tx[x].read[c].product = k /\ ~tx[x].read[c].active
               /\ tx'[u].rows[k] # None
               => NotServing(tx'[u].rows[k], c),
           \A c, k \in Candidates :
               /\ tx[x].read[c].product = k /\ tx[x].read[c].active
               /\ tx'[x].decided[c] = "rejected" /\ tx'[x].pc # "done"
               => tx'[x].rows[k] # None
    PROVE  ReadOf(x)'
BY ReadTables DEF ReadOf, HoldsProduct, NotServing, CurrentOf

\* The same for the shape of the rows a transaction has written.
LEMMA RowShapeCarries ==
    ASSUME UNCHANGED product, NEW t, RowShapeOf(t), tx'[t].rows = tx[t].rows,
           \A k \in Candidates : HoldsProduct(t, k) => \A c \in VersionsOf(tx[t].rows[k]) :
               tx[t].decided[c] = "approved" => tx'[t].decided[c] = "approved"
    PROVE  RowShapeOf(t)'
BY ReadTables DEF RowShapeOf, HoldsProduct, Chain, Extends, VersionsOf

LEMMA TablesStay ==
    ASSUME IInv, NEW t \in Transactions, Quiet(t),
           run' \in [Runs -> {"new", "draft", "validated", "summarized", "promoting",
                              "promoted", "finished", "failed"}],
           \A r \in Runs : \/ run'[r] = run[r]
                           \/ /\ run[r] \in {"summarized", "promoting"}
                              /\ run'[r] \in {"promoting", "failed"}
    PROVE  /\ TypeOK'
           /\ KnownCandidates' /\ VersionedIsDecided'
           /\ ProductShape' /\ OneProduct'
           /\ \A c \in Candidates : Missed(c) => Missed(c)'
           /\ ServedIsApproved' /\ WithdrawnByRetraction'
<1>. USE DEF Quiet
<1>1. TypeOK'
    BY DEF IInv, TypeOK
<1>2. \A c \in Candidates : c \notin Former => RunOf[c] \in Runs
    BY RunsAssumption DEF Former
<1>3. KnownCandidates'
    BY <1>2 DEF IInv, KnownCandidates, Former
<1>4. VersionedIsDecided'
    BY <1>2, ReadTables DEF IInv, VersionedIsDecided, Former
<1>5. ProductShape' /\ OneProduct'
    BY ReadTables DEF IInv, ProductShape, OneProduct, Chain
<1>6. \A x \in Retractions : tx[x].pc = "done" => tx'[x] = tx[x]
    BY Disjoint DEF Busy, Locking
<1>7. \A x \in Retractions, c \in Candidates : Retracted(x, c) =>
          Retracted(x, c)' /\ tx'[x].read = tx[x].read
    BY <1>6 DEF Retracted
<1>8. \A c \in Candidates : Missed(c) => Missed(c)'
    BY <1>7 DEF Missed, MissedBy
<1>9. ServedIsApproved'
    <2> SUFFICES ASSUME NEW k \in Candidates, product[k].status = "active"
                 PROVE  LET c == product[k].versions[product[k].current].candidate
                        IN  \/ candidate[c].state = "approved"
                            \/ \E x \in Retractions : Retracted(x, c)' /\ tx'[x].read[c].product = None
        BY DEF ServedIsApproved
    <2>1. product[k].versions[product[k].current].candidate \in Candidates
        BY CurrentIsVersion, RowIn DEF IInv, ProductShape, CurrentOf, TypeOK
    <2>. QED BY <2>1, <1>7 DEF IInv, ServedIsApproved
<1>10. WithdrawnByRetraction'
    BY <1>7, ReadTables DEF IInv, WithdrawnByRetraction
<1>. QED BY <1>1, <1>3, <1>4, <1>5, <1>8, <1>9, <1>10

LEMMA OthersStay ==
    ASSUME IInv, NEW t \in Transactions, Quiet(t),
           \A c \in Candidates : Missed(c) => Missed(c)',
           NEW u \in Transactions, u # t
    PROVE  /\ PhaseOf(u)' /\ RowShapeOf(u)' /\ OneRowOf(u)' /\ RowStatusOf(u)'
           /\ u \in Promoters => PromotionOf(u)' /\ BaseOf(u)'
           /\ u \in Retractions => RetractionOf(u)'
<1>. USE DEF Quiet
<1>1. tx'[u] = tx[u]
    OBVIOUS
<1>2. PhaseOf(u)'
    BY <1>1 DEF IInv, Phases, PhaseOf
<1>3. RowShapeOf(u)'
    <2>1. RowShapeOf(u)
        BY DEF IInv, RowShapes
    <2>. QED BY <1>1, <2>1, RowShapeCarries
<1>4. OneRowOf(u)'
    <2> SUFFICES ASSUME NEW k \in Candidates, NEW l \in Candidates,
                        tx'[u].rows[k] # None, tx'[u].rows[l] # None,
                        VersionsOf(tx'[u].rows[k]) \cap VersionsOf(tx'[u].rows[l]) # {}
                 PROVE  k = l
        BY DEF OneRowOf, HoldsProduct, VersionsOf
    <2>. QED BY <1>1 DEF IInv, OneRow, OneRowOf, HoldsProduct
<1>5. RowStatusOf(u)'
    <2>1. RowStatusOf(u)
        BY DEF IInv, RowStatuses
    <2>2. \A c \in Candidates : StateIn(u, c)' = StateIn(u, c)
        BY <1>1 DEF StateIn
    <2>3. \A k \in Candidates : CurrentOf(tx[u].rows[k])' = CurrentOf(tx[u].rows[k])
        BY <1>1 DEF CurrentOf
    <2>. QED BY <1>1, <2>1, <2>2, <2>3, ReadTables DEF RowStatusOf, HoldsProduct
<1>6. ASSUME u \in Promoters PROVE PromotionOf(u)' /\ BaseOf(u)'
    <2>1. PromotionOf(u) /\ BaseOf(u)
        BY <1>6 DEF IInv, Promotions, Bases
    <2>2. Left(u)' = Left(u) /\ (Ascending(tx[u].todo)' <=> Ascending(tx[u].todo))
        BY <1>1 DEF Left, Elements, Ascending
    <2>3. \A c \in Candidates : StaleFor(u, c)' <=> StaleFor(u, c)
        BY <1>1 DEF StaleFor
    <2>4. PromotionOf(u)'
        BY <1>1, <2>1, <2>2, <2>3 DEF PromotionOf
    <2>5. BaseOf(u)'
        BY <1>1, <2>1 DEF BaseOf, Exists, ProductIn, HoldsProduct
    <2>. QED BY <2>4, <2>5
<1>7. ASSUME u \in Retractions PROVE RetractionOf(u)'
    BY <1>1, <1>7 DEF IInv, RetractionsHold, RetractionOf, Ascending, Elements
<1>. QED BY <1>2, <1>3, <1>4, <1>5, <1>6, <1>7

LEMMA TablesKept ==
    ASSUME IInv, NEW t \in Transactions, OpenStep(t),
           run' \in [Runs -> {"new", "draft", "validated", "summarized", "promoting",
                              "promoted", "finished", "failed"}],
           \A r \in Runs : \/ run'[r] = run[r]
                           \/ run[r] = "summarized" /\ run'[r] = "promoting"
    PROVE  /\ TypeOK'
           /\ KnownCandidates' /\ VersionedIsDecided'
           /\ ProductShape' /\ OneProduct'
           /\ \A c \in Candidates : Missed(c) => Missed(c)'
           /\ ServedIsApproved' /\ WithdrawnByRetraction'
<1>1. Quiet(t)
    BY DEF OpenStep, Quiet
<1>. QED BY <1>1, TablesStay

LEMMA OthersKept ==
    ASSUME IInv, NEW t \in Transactions, OpenStep(t),
           \A c \in Candidates : Missed(c) => Missed(c)',
           NEW u \in Transactions, u # t
    PROVE  /\ PhaseOf(u)' /\ RowShapeOf(u)' /\ OneRowOf(u)' /\ RowStatusOf(u)'
           /\ u \in Promoters => PromotionOf(u)' /\ BaseOf(u)'
           /\ u \in Retractions => RetractionOf(u)'
<1>1. Quiet(t)
    BY DEF OpenStep, Quiet
<1>. QED BY <1>1, OthersStay

\* A transaction that goes on keeps its candidates, and no run moves.
LEMMA SameRuns ==
    ASSUME IInv, NEW t \in Transactions, OpenStep(t), UNCHANGED run,
           tx[t].pc \in Busy \/ t \in Retractions, PhaseOf(t)',
           tx[t].held \subseteq tx'[t].held
    PROVE  RunPhases' /\ AcceptedIsTaken'
<1>1. RunPhases'
    <2>1. t \in Promoters => tx[t].pc \in Busy /\ tx'[t].pc \in Busy
        BY Disjoint DEF OpenStep, PhaseOf, Busy, Locking
    <2>. QED BY <2>1, Disjoint DEF IInv, RunPhases, OpenStep, Busy
<1>2. AcceptedIsTaken'
    <2>1. \A u \in Transactions, c \in Candidates :
            /\ HoldsCandidate(u, c) => HoldsCandidate(u, c)'
            /\ tx[u].pc = "aborted" => tx'[u].pc = "aborted"
        BY DEF OpenStep, HoldsCandidate, Busy, Locking
    <2>2. \A c \in Candidates \ Former : RunOf[c] \in Transactions
        BY RunsAssumption, Disjoint DEF Former
    <2> SUFFICES ASSUME NEW c \in Candidates \ Former,
                        run[RunOf[c]] \in {"promoting", "promoted", "finished"},
                        candidate[c].state = "auto_validated"
                 PROVE  HoldsCandidate(RunOf[c], c)' \/ TakenElsewhere(c)'
        BY DEF AcceptedIsTaken, Former, OpenStep
    <2>3. HoldsCandidate(RunOf[c], c) \/ TakenElsewhere(c)
        BY DEF IInv, AcceptedIsTaken
    <2>. QED BY <2>1, <2>2, <2>3 DEF TakenElsewhere
<1>. QED BY <1>1, <1>2

\* A step of a promotion or a retraction keeps the invariant if it keeps what
\* the invariant says of its own record, and locks only what is free.
LEMMA OpenStepKeeps ==
    ASSUME IInv, NEW t \in Transactions, OpenStep(t),
           run' \in [Runs -> {"new", "draft", "validated", "summarized", "promoting",
                              "promoted", "finished", "failed"}],
           \A r \in Runs : \/ run'[r] = run[r]
                           \/ run[r] = "summarized" /\ run'[r] = "promoting",
           \A c \in tx'[t].held \ tx[t].held : FreeCandidate(t, c),
           PhaseOf(t)', RowShapeOf(t)', OneRowOf(t)', RowStatusOf(t)',
           t \in Promoters => PromotionOf(t)' /\ BaseOf(t)',
           t \in Retractions => RetractionOf(t)',
           WrittenByOne', Reads', RunPhases', AcceptedIsTaken'
    PROVE  IInv'
<1>1. /\ TypeOK' /\ KnownCandidates' /\ VersionedIsDecided' /\ ProductShape' /\ OneProduct'
      /\ \A c \in Candidates : Missed(c) => Missed(c)'
      /\ ServedIsApproved' /\ WithdrawnByRetraction'
    BY TablesKept
<1>2. \A u \in Transactions \ {t} :
        /\ PhaseOf(u)' /\ RowShapeOf(u)' /\ OneRowOf(u)' /\ RowStatusOf(u)'
        /\ u \in Promoters => PromotionOf(u)' /\ BaseOf(u)'
        /\ u \in Retractions => RetractionOf(u)'
    BY <1>1, OthersKept
<1>3. /\ Phases' /\ RowShapes' /\ OneRow' /\ RowStatuses'
      /\ Promotions' /\ Bases' /\ RetractionsHold'
    BY <1>2, Disjoint DEF Phases, RowShapes, OneRow, RowStatuses, Promotions, Bases, RetractionsHold
<1>4. HeldByOne'
    BY DEF IInv, HeldByOne, OpenStep, FreeCandidate, HoldsCandidate
<1>. QED BY <1>1, <1>3, <1>4 DEF IInv

\* A step that writes no product keeps what is said of the rows written.
LEMMA RowsKept ==
    ASSUME IInv, NEW t \in Transactions, OpenStep(t), tx'[t].rows = tx[t].rows,
           \A c \in Candidates : Missed(c) => Missed(c)',
           \A c \in Candidates : tx[t].decided[c] # None => tx'[t].decided[c] = tx[t].decided[c],
           t \in Promoters => PromotionOf(t)',
           t \in Retractions => \/ tx'[t].read = tx[t].read
                                \/ tx[t].rows = NoTx.rows
    PROVE  /\ RowShapeOf(t)' /\ OneRowOf(t)' /\ RowStatusOf(t)' /\ WrittenByOne'
           /\ \A x \in Retractions \ {t} : ReadOf(x)'
<1>. USE DEF OpenStep
<1>1. \A u \in Transactions : tx'[u].rows = tx[u].rows
    OBVIOUS
<1>2. RowShapeOf(t)'
    <2>1. RowShapeOf(t)
        BY DEF IInv, RowShapes
    <2>2. \A c \in Candidates : tx[t].decided[c] = "approved" => tx'[t].decided[c] = "approved"
        BY NoneAssumption
    <2>3. \A k \in Candidates : HoldsProduct(t, k) => VersionsOf(tx[t].rows[k]) \subseteq Candidates
        BY RowIn, VersionsAreCandidates DEF IInv
    <2>. QED BY <1>1, <2>1, <2>2, <2>3, RowShapeCarries
<1>3. OneRowOf(t)'
    <2> SUFFICES ASSUME NEW k \in Candidates, NEW l \in Candidates,
                        tx'[t].rows[k] # None, tx'[t].rows[l] # None,
                        VersionsOf(tx'[t].rows[k]) \cap VersionsOf(tx'[t].rows[l]) # {}
                 PROVE  k = l
        BY DEF OneRowOf, HoldsProduct, VersionsOf
    <2>. QED BY <1>1 DEF IInv, OneRow, OneRowOf, HoldsProduct
<1>4. WrittenByOne'
    BY <1>1 DEF IInv, WrittenByOne
<1>5. RowStatusOf(t)'
    <2>1. RowStatusOf(t)
        BY DEF IInv, RowStatuses
    <2>2. \A k \in Candidates : CurrentOf(tx[t].rows[k])' = CurrentOf(tx[t].rows[k])
        BY <1>1 DEF CurrentOf
    <2>3. \A k \in Candidates : HoldsProduct(t, k) /\ t \in Retractions => tx'[t].read = tx[t].read
        BY NoTxType DEF HoldsProduct
    <2>4. ASSUME t \in Promoters, NEW c \in Candidates, StateIn(t, c) = "approved"
          PROVE  StateIn(t, c)' = "approved"
        <3>1. tx[t].decided[c] = None => candidate[c].state = "approved"
            BY <2>4 DEF StateIn
        <3>2. tx'[t].decided[c] # None => candidate[c].state # "approved"
            BY <2>4 DEF PromotionOf
        <3>. QED BY <2>4, <3>1, <3>2 DEF StateIn
    <2>5. \A c \in Candidates : tx[t].decided[c] = "rejected" => tx'[t].decided[c] = "rejected"
        BY NoneAssumption
    <2>6. \A k \in Candidates : HoldsProduct(t, k)' <=> HoldsProduct(t, k)
        BY <1>1 DEF HoldsProduct
    <2> SUFFICES ASSUME NEW k \in Candidates, HoldsProduct(t, k)
                 PROVE  /\ t \in Promoters /\ tx'[t].rows[k].status = "inactive"
                            => product'[k].status = "inactive"
                        /\ tx'[t].rows[k].status = "active" /\ product'[k].status = "inactive"
                            => CurrentOf(tx[t].rows[k])' \notin Versions(k)'
                        /\ t \in Retractions =>
                            /\ tx'[t].rows[k].status = "inactive"
                            /\ \E c \in Candidates : tx'[t].decided[c] = "rejected"
                                                  /\ tx'[t].read[c].product = k
                        /\ tx'[t].rows[k].status = "active" =>
                            \E c \in Candidates :
                                /\ c = CurrentOf(tx[t].rows[k])'
                                /\ StateIn(t, c)' = "approved" \/ Missed(c)'
        BY <2>6 DEF RowStatusOf
    <2>7. t \in Promoters \/ t \in Retractions
        BY Disjoint
    <2>. QED BY <1>1, <2>1, <2>2, <2>3, <2>4, <2>5, <2>7, Disjoint, ReadTables DEF RowStatusOf
<1>6. ASSUME NEW x \in Retractions \ {t} PROVE ReadOf(x)'
    <2>1. tx'[x] = tx[x] /\ ReadOf(x)
        BY Disjoint DEF IInv, Reads
    <2>. QED BY <1>1, <2>1, ReadTables DEF ReadOf, HoldsProduct, NotServing, CurrentOf
<1>. QED BY <1>2, <1>3, <1>4, <1>5, <1>6

-----------------------------------------------------------------------------
(* The steps of a promotion *)

\* Facts about an open promotion that its steps share.
LEMMA OpenPromotion ==
    ASSUME IInv, NEW t \in Promoters, tx[t].pc \in Busy, tx[t].todo # <<>>
    PROVE  /\ t \in Transactions /\ t \notin Retractions
           /\ PromotionOf(t)
           /\ Head(tx[t].todo) \in Candidates
           /\ Tail(tx[t].todo) \in Seq(Candidates) /\ Ascending(Tail(tx[t].todo))
           /\ Elements(tx[t].todo) = {Head(tx[t].todo)} \cup Elements(Tail(tx[t].todo))
           /\ Head(tx[t].todo) \notin Elements(Tail(tx[t].todo))
           /\ tx[t].pc # "supersede" =>
                /\ Left(t) = Elements(tx[t].todo)
                /\ tx[t].decided[Head(tx[t].todo)] = None
                /\ candidate[Head(tx[t].todo)].state = "auto_validated"
           /\ tx[t].pc = "supersede" => Left(t) = Elements(Tail(tx[t].todo))
           /\ tx[t].decided \in [Candidates -> {"approved", "rejected", "superseded", None}]
           /\ tx[t].held \subseteq Candidates
<1>1. t \in Transactions /\ t \notin Retractions
    BY Disjoint
<1>2. PromotionOf(t) /\ TypeOK
    BY DEF IInv, Promotions
<1>3. tx[t].todo \in Seq(Candidates) /\ Ascending(tx[t].todo)
    BY <1>1, <1>2, TxOf DEF PromotionOf
<1>4. /\ Head(tx[t].todo) \in Candidates
      /\ Tail(tx[t].todo) \in Seq(Candidates) /\ Ascending(Tail(tx[t].todo))
      /\ Elements(tx[t].todo) = {Head(tx[t].todo)} \cup Elements(Tail(tx[t].todo))
      /\ Head(tx[t].todo) \notin Elements(Tail(tx[t].todo))
    BY <1>3, TailOf
<1>5. tx[t].pc # "supersede" => Left(t) = Elements(tx[t].todo)
    BY DEF Left
<1>6. tx[t].pc = "supersede" => Left(t) = Elements(Tail(tx[t].todo))
    BY DEF Left
<1>7. tx[t].pc # "supersede" => /\ tx[t].decided[Head(tx[t].todo)] = None
                                /\ candidate[Head(tx[t].todo)].state = "auto_validated"
    BY <1>2, <1>4, <1>5 DEF PromotionOf
<1>. QED BY <1>1, <1>2, <1>4, <1>5, <1>6, <1>7, TxOf

LEMMA RefuseKeeps ==
    ASSUME IInv, NEW t \in Transactions, Refuse(t)
    PROVE  IInv'
<1> DEFINE h == Head(tx[t].todo)
<1>1. t \in Promoters /\ tx[t].pc = "next" /\ tx[t].todo # <<>> /\ TypeOK
    BY DEF Refuse, IInv
<1>2. /\ Moves(t, "next", tx[t].held, Tail(tx[t].todo), tx[t].rows,
               [tx[t].decided EXCEPT ![h] = "rejected"])
      /\ tx'[t].read = tx[t].read
    BY <1>1, RefuseMoves
<1>3. OpenStep(t) /\ UNCHANGED run
    BY <1>1, <1>2 DEF OpenStep, Moves, Refuse, Busy
<1>4. /\ h \in Candidates /\ tx[t].decided[h] = None /\ candidate[h].state = "auto_validated"
      /\ PromotionOf(t) /\ Ascending(Tail(tx[t].todo))
      /\ Left(t) = {h} \cup Elements(Tail(tx[t].todo))
      /\ h \notin Elements(Tail(tx[t].todo))
      /\ tx[t].decided \in [Candidates -> {"approved", "rejected", "superseded", None}]
      /\ t \notin Retractions
    BY <1>1, OpenPromotion DEF Busy
<1>5. /\ tx'[t].decided[h] = "rejected"
      /\ \A c \in Candidates \ {h} : tx'[t].decided[c] = tx[t].decided[c]
      /\ tx'[t].held = tx[t].held /\ tx'[t].pc = "next" /\ tx'[t].todo = Tail(tx[t].todo)
    BY <1>2, <1>4 DEF Moves
<1>6. PhaseOf(t)' /\ BaseOf(t)'
    BY <1>1, <1>5 DEF PhaseOf, BaseOf, Busy, Locking
<1>7. PromotionOf(t)'
    <2>1. Left(t)' = Elements(Tail(tx[t].todo)) /\ Ascending(tx[t].todo)'
        BY <1>4, <1>5 DEF Left, Elements, Ascending
    <2>2. \A c \in Candidates : StaleFor(t, c) => StaleFor(t, c)'
        BY <1>3, <1>4, <1>5, NoneAssumption DEF StaleFor, OpenStep
    <2>. HIDE DEF h
    <2>. QED BY <1>3, <1>4, <1>5, <2>1, <2>2, NoneAssumption DEF PromotionOf, OpenStep
<1>8. \A c \in Candidates : Missed(c) => Missed(c)'
    BY <1>1, <1>3, TablesKept DEF TypeOK
<1>9. /\ RowShapeOf(t)' /\ OneRowOf(t)' /\ RowStatusOf(t)' /\ WrittenByOne'
      /\ \A x \in Retractions \ {t} : ReadOf(x)'
    <2>1. tx'[t].rows = tx[t].rows
        BY <1>2 DEF Moves
    <2>. HIDE DEF h
    <2>. QED BY <1>3, <1>4, <1>5, <1>7, <1>8, <2>1, RowsKept
<1>10. Reads'
    BY <1>4, <1>9 DEF Reads
<1>11. RunPhases' /\ AcceptedIsTaken'
    BY <1>1, <1>3, <1>5, <1>6, SameRuns DEF Busy
<1>. QED BY <1>1, <1>3, <1>4, <1>5, <1>6, <1>7, <1>9, <1>10, <1>11, OpenStepKeeps DEF TypeOK

LEMMA FindKeeps ==
    ASSUME IInv, NEW t \in Transactions, Find(t)
    PROVE  IInv'
<1>1. t \in Promoters /\ tx[t].pc = "next" /\ tx[t].todo # <<>> /\ TypeOK
    BY DEF Find, IInv
<1>2. /\ Moves(t, "write", tx[t].held, tx[t].todo, tx[t].rows, tx[t].decided)
      /\ tx'[t].read = tx[t].read
      /\ tx'[t].found # None =>
           /\ tx'[t].found \in Candidates
           /\ Exists(t, tx'[t].found)
           /\ tx'[t].base = ProductIn(t, tx'[t].found).current
    BY <1>1, FindMoves
<1>3. OpenStep(t) /\ UNCHANGED run
    BY <1>1, <1>2 DEF OpenStep, Moves, Find, Busy
<1>4. PromotionOf(t) /\ t \notin Retractions
    BY <1>1, OpenPromotion DEF Busy
<1>5. PhaseOf(t)'
    BY <1>1, <1>2 DEF PhaseOf, Moves, Busy, Locking
<1>6. PromotionOf(t)'
    <2>1. Left(t)' = Left(t) /\ (Ascending(tx[t].todo)' <=> Ascending(tx[t].todo))
        BY <1>1, <1>2 DEF Left, Elements, Ascending, Moves
    <2>2. \A c \in Candidates : StaleFor(t, c)' <=> StaleFor(t, c)
        BY <1>2, <1>3 DEF StaleFor, OpenStep, Moves
    <2>. QED BY <1>2, <1>3, <1>4, <2>1, <2>2 DEF PromotionOf, OpenStep, Moves
<1>7. BaseOf(t)'
    <2> SUFFICES ASSUME NEW k \in Candidates, tx'[t].found = k
                 PROVE  Exists(t, k)' /\ tx'[t].base \in 1..Len(ProductIn(t, k).versions)'
        BY DEF BaseOf
    <2>1. Exists(t, k) /\ tx'[t].base = ProductIn(t, k).current
        BY <1>2, CandidatesAssumption
    <2>2. ProductIn(t, k) \in Product
        BY <1>1, RowIn
    <2>3. Chain(ProductIn(t, k))
        BY <1>1, <2>1 DEF IInv, ProductShape, RowShapes, RowShapeOf, Exists, ProductIn, Transactions
    <2>4. tx'[t].base \in 1..Len(ProductIn(t, k).versions)
        BY <2>1, <2>2, <2>3, RowFields DEF Chain
    <2>5. ProductIn(t, k)' = ProductIn(t, k)
        BY <1>2, <1>3 DEF ProductIn, HoldsProduct, Moves, OpenStep
    <2>. QED BY <2>1, <2>4, <2>5 DEF Exists
<1>8. \A c \in Candidates : Missed(c) => Missed(c)'
    BY <1>1, <1>3, TablesKept DEF TypeOK
<1>9. /\ RowShapeOf(t)' /\ OneRowOf(t)' /\ RowStatusOf(t)' /\ WrittenByOne'
      /\ \A x \in Retractions \ {t} : ReadOf(x)'
    BY <1>2, <1>3, <1>4, <1>6, <1>8, RowsKept DEF Moves
<1>10. Reads'
    BY <1>4, <1>9 DEF Reads
<1>11. RunPhases' /\ AcceptedIsTaken'
    BY <1>1, <1>2, <1>3, <1>5, SameRuns DEF Busy, Moves
<1>. QED BY <1>1, <1>2, <1>3, <1>4, <1>5, <1>6, <1>7, <1>9, <1>10, <1>11, OpenStepKeeps
         DEF TypeOK, Moves

LEMMA SupersedeKeeps ==
    ASSUME IInv, NEW t \in Promoters, Supersede(t)
    PROVE  IInv'
<1> DEFINE h == Head(tx[t].todo)
           stale == StaleOfSource(t, h)
<1>1. t \in Transactions /\ tx[t].pc = "supersede" /\ tx[t].todo # <<>> /\ TypeOK
    BY Disjoint DEF Supersede, IInv, Phases, PhaseOf
<1>2. /\ Moves(t, "next", tx[t].held \cup stale, Tail(tx[t].todo), tx[t].rows,
               [d \in Candidates |-> IF d \in stale THEN "superseded" ELSE tx[t].decided[d]])
      /\ tx'[t].read = tx[t].read
    BY <1>1, SupersedeMoves
<1>3. OpenStep(t) /\ UNCHANGED run /\ \A c \in stale : FreeCandidate(t, c)
    BY <1>1, <1>2 DEF OpenStep, Moves, Supersede, Busy
<1>4. /\ h \in Candidates /\ tx[t].decided[h] = "approved"
      /\ PromotionOf(t) /\ Ascending(Tail(tx[t].todo))
      /\ Left(t) = Elements(Tail(tx[t].todo))
      /\ tx[t].decided \in [Candidates -> {"approved", "rejected", "superseded", None}]
      /\ t \notin Retractions
    BY <1>1, OpenPromotion DEF Busy, PromotionOf
<1>5. \A c \in stale :
        /\ c \in Candidates /\ c \notin Left(t) /\ tx[t].decided[c] = None /\ c < h
        /\ candidate[c].state \in {"in_review", "auto_validated"}
        /\ review[c] \in Open /\ candidate[c].source = candidate[h].source
    <2> SUFFICES ASSUME NEW c \in stale
                 PROVE  /\ c \in Candidates /\ c \notin Left(t) /\ tx[t].decided[c] = None /\ c < h
                        /\ candidate[c].state \in {"in_review", "auto_validated"}
                        /\ review[c] \in Open /\ candidate[c].source = candidate[h].source
        OBVIOUS
    <2>1. /\ c \in Candidates /\ c < h /\ review[c] \in Open
          /\ candidate[c].source = candidate[h].source
          /\ StateIn(t, c) \in {"in_review", "auto_validated"}
        BY DEF StaleOfSource
    <2>2. tx[t].decided[c] = None /\ candidate[c].state \in {"in_review", "auto_validated"}
        BY <1>4, <2>1 DEF StateIn
    <2>3. c \in Former
        BY <2>1 DEF IInv, KnownCandidates, Open
    <2>4. c \notin Left(t)
        BY <1>4, <2>1, <2>3 DEF PromotionOf, IInv, KnownCandidates
    <2>. QED BY <2>1, <2>2, <2>4
<1>. HIDE DEF stale, h
<1>6. /\ \A c \in stale : tx'[t].decided[c] = "superseded"
      /\ \A c \in Candidates \ stale : tx'[t].decided[c] = tx[t].decided[c]
      /\ tx'[t].held = tx[t].held \cup stale /\ tx'[t].pc = "next"
      /\ tx'[t].todo = Tail(tx[t].todo)
    BY <1>2, <1>5 DEF Moves
<1>7. PhaseOf(t)' /\ BaseOf(t)'
    BY <1>1, <1>6 DEF PhaseOf, BaseOf, Busy, Locking
<1>8. h \notin stale
    <2>1. h \in Nat
        BY <1>4, CandidatesAssumption
    <2>. QED BY <1>5, <2>1
<1>9. PromotionOf(t)'
    <2>1. Left(t)' = Left(t) /\ Ascending(tx[t].todo)'
        <3>1. Left(t)' = Elements(Tail(tx[t].todo)) /\ Ascending(tx[t].todo)'
            BY <1>4, <1>6 DEF Left, Elements, Ascending
        <3>. QED BY <1>4, <3>1
    <2>2. \A c \in Candidates : tx[t].decided[c] # None => tx'[t].decided[c] = tx[t].decided[c]
        BY <1>5, <1>6
    <2>3. \A c \in Candidates : StaleFor(t, c) => StaleFor(t, c)'
        BY <1>3, <2>2, NoneAssumption DEF StaleFor, OpenStep
    <2>4. ASSUME NEW c \in stale PROVE StaleFor(t, c)'
        BY <1>3, <1>4, <1>5, <1>6, <1>8 DEF StaleFor, OpenStep
    <2> SUFFICES ASSUME NEW c \in Candidates
                 PROVE  /\ c \in tx'[t].held <=> c \in Left(t)' \/ tx'[t].decided[c] # None
                        /\ c \in Left(t)' => candidate'[c].state = "auto_validated" /\ tx'[t].decided[c] = None
                        /\ tx'[t].decided[c] # None => candidate'[c].state \in {"auto_validated", "in_review"}
                        /\ tx'[t].decided[c] = "approved" => candidate'[c].state = "auto_validated"
                        /\ tx'[t].decided[c] = "superseded" => StaleFor(t, c)'
        BY <2>1, <1>6 DEF PromotionOf
    <2>5. CASE c \in stale
        BY <1>3, <1>5, <1>6, <2>1, <2>4, <2>5, NoneAssumption DEF OpenStep
    <2>6. CASE c \notin stale
        BY <1>3, <1>4, <1>6, <2>1, <2>3, <2>6 DEF OpenStep, PromotionOf
    <2>. QED BY <2>5, <2>6
<1>10. \A c \in Candidates : Missed(c) => Missed(c)'
    BY <1>1, <1>3, TablesKept DEF TypeOK
<1>11. /\ RowShapeOf(t)' /\ OneRowOf(t)' /\ RowStatusOf(t)' /\ WrittenByOne'
       /\ \A x \in Retractions \ {t} : ReadOf(x)'
    <2>1. tx'[t].rows = tx[t].rows
        BY <1>2 DEF Moves
    <2>2. \A c \in Candidates : tx[t].decided[c] # None => tx'[t].decided[c] = tx[t].decided[c]
        BY <1>5, <1>6
    <2>. QED BY <1>1, <1>3, <1>4, <1>9, <1>10, <2>1, <2>2, RowsKept
<1>12. Reads'
    BY <1>4, <1>11 DEF Reads
<1>13. RunPhases' /\ AcceptedIsTaken'
    BY <1>1, <1>3, <1>6, <1>7, SameRuns DEF Busy
<1>. QED BY <1>1, <1>3, <1>4, <1>6, <1>7, <1>9, <1>11, <1>12, <1>13, OpenStepKeeps DEF TypeOK

\* What a promotion writes extends what is there, and serves an approved candidate.
LEMMA WrittenSound ==
    ASSUME IInv, NEW t \in Promoters, tx[t].pc = "write", tx[t].todo # <<>>,
           NEW k \in Candidates, NEW row \in Product, Written(t, k, row)
    PROVE  LET c == Head(tx[t].todo)
           IN  /\ row.status # "none" /\ Chain(row) /\ k \in VersionsOf(row)
               /\ Extends(row, product[k])
               /\ \/ VersionsOf(row) = VersionsOf(ProductIn(t, k)) /\ row = ProductIn(t, k)
                     /\ Exists(t, k)
                  \/ /\ VersionsOf(row) = VersionsOf(ProductIn(t, k)) \cup {c}
                     /\ ~HasVersion(c) /\ CurrentOf(row) = c /\ row.status = "active"
               /\ \A u \in Transactions \ {t} : ~HoldsProduct(u, k)
<1> DEFINE c == Head(tx[t].todo)  old == ProductIn(t, k)
<1>1. TypeOK /\ t \in Transactions
    BY Disjoint DEF IInv
<1>2. c \in Candidates /\ tx[t].base \in Nat /\ old \in Product /\ product[k] \in Product
    BY <1>1, HeadOf, TxOf, RowIn
<1>3. tx[t].decided[c] = None /\ c \in tx[t].held
    <2>1. Left(t) = {c} \cup Elements(Tail(tx[t].todo)) /\ PromotionOf(t) /\ tx[t].decided[c] = None
        BY <1>1, OpenPromotion DEF Busy
    <2>. HIDE DEF c
    <2>. QED BY <1>2, <2>1 DEF PromotionOf
<1>. HIDE DEF c
<1>4. ASSUME Exists(t, k)
      PROVE  /\ old.status # "none" /\ Chain(old) /\ k \in VersionsOf(old)
             /\ Extends(old, product[k])
    BY <1>1, <1>2, <1>4, ExtendsSelf
       DEF IInv, ProductShape, RowShapes, RowShapeOf, Exists, ProductIn, Versions, VersionsOf
<1>5. CASE tx[t].found = None /\ k = c /\ ~HasVersion(c) /\ row = NewProduct(c)
    <2>1. /\ row.status = "active" /\ Chain(row) /\ VersionsOf(row) = {c} /\ CurrentOf(row) = c
          /\ Len(row.versions) = 1
        BY <1>1, <1>2, <1>5, FirstRow
    <2>2. c \notin Versions(c) /\ product[c].versions = <<>>
        BY <1>2, <1>5 DEF HasVersion, IInv, ProductShape
    <2>3. Extends(row, product[k])
        BY <1>5, <2>1, <2>2 DEF Extends
    <2>4. ASSUME NEW u \in Transactions, HoldsProduct(u, k) PROVE u \in Promoters /\ c \in tx[u].held
        <3>1. c \in VersionsOf(tx[u].rows[c])
            BY <1>2, <1>5, <2>4 DEF IInv, RowShapes, RowShapeOf
        <3>2. tx[u].decided[c] = "approved"
            BY <1>2, <1>5, <2>2, <2>4, <3>1 DEF IInv, RowShapes, RowShapeOf
        <3>3. u \in Promoters
            BY <1>2, <3>2, Disjoint, NoneAssumption DEF IInv, RetractionsHold, RetractionOf
        <3>. QED BY <1>2, <3>2, <3>3, NoneAssumption DEF IInv, Promotions, PromotionOf
    <2>5. \A u \in Transactions \ {t} : ~HoldsProduct(u, k)
        BY <1>1, <1>3, <2>4 DEF IInv, HeldByOne
    <2>6. ~HoldsProduct(t, k)
        <3> SUFFICES ASSUME HoldsProduct(t, c) PROVE FALSE
            BY <1>5
        <3>1. c \in VersionsOf(tx[t].rows[c])
            BY <1>1, <1>2 DEF IInv, RowShapes, RowShapeOf
        <3>2. tx[t].decided[c] = "approved"
            BY <1>1, <1>2, <2>2, <3>1 DEF IInv, RowShapes, RowShapeOf
        <3>. QED BY <1>3, <3>2, NoneAssumption
    <2>7. VersionsOf(old) = {}
        BY <1>5, <2>2, <2>6 DEF ProductIn, VersionsOf
    <2>. QED BY <1>5, <2>1, <2>3, <2>5, <2>7 DEF c
<1>6. CASE /\ k = tx[t].found /\ FreeProduct(t, k) /\ ~HasVersion(c)
           /\ Len(old.versions) <= tx[t].base /\ row = NextVersion(old, tx[t].base, c)
    <2>1. Exists(t, k) /\ tx[t].base \in 1..Len(old.versions)
        BY <1>6 DEF IInv, Bases, BaseOf
    <2>2. tx[t].base = Len(old.versions)
        BY <1>2, <1>6, <2>1, RowFields
    <2>3. /\ row.status = "active" /\ Chain(row) /\ Extends(row, old)
          /\ VersionsOf(row) = VersionsOf(old) \cup {c} /\ CurrentOf(row) = c
        <3>. HIDE DEF old
        <3>. QED BY <1>1, <1>2, <1>4, <1>6, <2>1, <2>2, NextRow
    <2>4. Extends(row, product[k])
        <3>. HIDE DEF old
        <3>. QED BY <1>2, <1>4, <2>1, <2>3, ExtendsOn
    <2>. QED BY <1>4, <1>6, <2>1, <2>3, <2>4 DEF FreeProduct, c
<1>7. CASE k = tx[t].found /\ FreeProduct(t, k) /\ row = old
    <2>1. Exists(t, k)
        BY <1>7 DEF IInv, Bases, BaseOf
    <2>. QED BY <1>4, <1>7, <2>1 DEF FreeProduct
<1>. QED BY <1>5, <1>6, <1>7 DEF Written, c

LEMMA WriteKeeps ==
    ASSUME IInv, NEW t \in Promoters, Write(t)
    PROVE  IInv'
<1> DEFINE c == Head(tx[t].todo)
<1>1. t \in Transactions /\ tx[t].pc = "write" /\ tx[t].todo # <<>> /\ TypeOK
    BY Disjoint DEF Write, IInv, Phases, PhaseOf
<1>2. PICK k \in Candidates, row \in Product :
        /\ Written(t, k, row)
        /\ Moves(t, "supersede", tx[t].held, tx[t].todo, [tx[t].rows EXCEPT ![k] = row],
                 [tx[t].decided EXCEPT ![c] = "approved"])
        /\ tx'[t].read = tx[t].read
    BY WriteMoves
<1>3. OpenStep(t) /\ UNCHANGED run
    BY <1>1, <1>2 DEF OpenStep, Moves, Write, Busy
<1>4. /\ c \in Candidates /\ tx[t].decided[c] = None /\ candidate[c].state = "auto_validated"
      /\ PromotionOf(t) /\ Ascending(tx[t].todo)
      /\ Left(t) = {c} \cup Elements(Tail(tx[t].todo))
      /\ c \notin Elements(Tail(tx[t].todo))
      /\ tx[t].decided \in [Candidates -> {"approved", "rejected", "superseded", None}]
      /\ t \notin Retractions
    BY <1>1, OpenPromotion DEF Busy, PromotionOf
<1>5. /\ row.status # "none" /\ Chain(row) /\ k \in VersionsOf(row)
      /\ Extends(row, product[k])
      /\ \/ VersionsOf(row) = VersionsOf(ProductIn(t, k)) /\ row = ProductIn(t, k) /\ Exists(t, k)
         \/ /\ VersionsOf(row) = VersionsOf(ProductIn(t, k)) \cup {c}
            /\ ~HasVersion(c) /\ CurrentOf(row) = c /\ row.status = "active"
      /\ \A u \in Transactions \ {t} : ~HoldsProduct(u, k)
    BY <1>1, <1>2, WrittenSound
<1>6. Head(tx'[t].todo) = c
    BY <1>2 DEF Moves
<1>. HIDE DEF c
<1>7. /\ tx'[t].decided[c] = "approved"
      /\ \A d \in Candidates \ {c} : tx'[t].decided[d] = tx[t].decided[d]
      /\ tx'[t].held = tx[t].held /\ tx'[t].pc = "supersede" /\ tx'[t].todo = tx[t].todo
      /\ tx'[t].rows[k] = row
      /\ \A l \in Candidates \ {k} : tx'[t].rows[l] = tx[t].rows[l]
    <2>1. tx[t].rows \in [Candidates -> Product \cup {None}]
        BY <1>1, TxOf
    <2>. QED BY <1>2, <1>4, <2>1 DEF Moves
<1>8. row # None
    BY NoneAssumption
<1>9. PhaseOf(t)' /\ BaseOf(t)'
    BY <1>1, <1>7 DEF PhaseOf, BaseOf, Busy, Locking
<1>10. PromotionOf(t)'
    <2>1. Left(t)' = Elements(Tail(tx[t].todo)) /\ Ascending(tx[t].todo)'
        BY <1>4, <1>7 DEF Left, Elements, Ascending
    <2>2. \A d \in Candidates : StaleFor(t, d) => StaleFor(t, d)'
        BY <1>3, <1>4, <1>7, NoneAssumption DEF StaleFor, OpenStep
    <2> SUFFICES ASSUME NEW d \in Candidates
                 PROVE  /\ d \in tx'[t].held <=> d \in Left(t)' \/ tx'[t].decided[d] # None
                        /\ d \in Left(t)' => candidate'[d].state = "auto_validated" /\ tx'[t].decided[d] = None
                        /\ tx'[t].decided[d] # None => candidate'[d].state \in {"auto_validated", "in_review"}
                        /\ tx'[t].decided[d] = "approved" => candidate'[d].state = "auto_validated"
                        /\ tx'[t].decided[d] = "superseded" => StaleFor(t, d)'
        BY <1>6, <1>7, <2>1 DEF PromotionOf
    <2>3. CASE d = c
        BY <1>3, <1>4, <1>7, <2>1, <2>3, NoneAssumption DEF OpenStep, PromotionOf
    <2>4. CASE d # c
        BY <1>3, <1>4, <1>7, <2>1, <2>2, <2>4 DEF OpenStep, PromotionOf
    <2>. QED BY <2>3, <2>4
<1>11. \A d \in Candidates : Missed(d) => Missed(d)'
    BY <1>1, <1>3, TablesKept DEF TypeOK
<1>12. \A d \in Candidates : tx[t].decided[d] = "approved" => tx'[t].decided[d] = "approved"
    BY <1>7
<1>13. RowShapeOf(t)'
    <2> SUFFICES ASSUME NEW l \in Candidates, tx'[t].rows[l] # None
                 PROVE  /\ tx'[t].rows[l].status # "none" /\ Chain(tx'[t].rows[l])
                        /\ l \in VersionsOf(tx'[t].rows[l])
                        /\ Extends(tx'[t].rows[l], product[l])
                        /\ \A d \in VersionsOf(tx'[t].rows[l]) :
                            d \in Versions(l) \/ (~HasVersion(d) /\ tx'[t].decided[d] = "approved")
        BY <1>3, ReadTables
           DEF RowShapeOf, HoldsProduct, OpenStep, Chain, VersionsOf, Extends
    <2>1. CASE l # k
        <3>1. tx[t].rows[l] # None /\ tx'[t].rows[l] = tx[t].rows[l]
            BY <1>7, <2>1
        <3>2. VersionsOf(tx[t].rows[l]) \subseteq Candidates
            BY <1>1, <3>1, RowIn, VersionsAreCandidates DEF HoldsProduct
        <3>. QED BY <1>1, <1>12, <3>1, <3>2 DEF IInv, RowShapes, RowShapeOf, HoldsProduct
    <2>2. CASE l = k
        <3>1. \A d \in VersionsOf(ProductIn(t, k)) :
                d \in Versions(k) \/ (~HasVersion(d) /\ tx'[t].decided[d] = "approved")
            <4>1. CASE HoldsProduct(t, k)
                <5>1. VersionsOf(tx[t].rows[k]) \subseteq Candidates
                    BY <1>1, <4>1, RowIn, VersionsAreCandidates
                <5>. QED BY <1>1, <1>12, <4>1, <5>1 DEF IInv, RowShapes, RowShapeOf, ProductIn
            <4>2. CASE ~HoldsProduct(t, k)
                BY <4>2 DEF ProductIn, Versions, VersionsOf
            <4>. QED BY <4>1, <4>2
        <3>. QED BY <1>5, <1>7, <2>2, <3>1
    <2>. QED BY <2>1, <2>2
<1>14. OneRowOf(t)'
    <2> SUFFICES ASSUME NEW l \in Candidates, tx'[t].rows[l] # None, l # k,
                        NEW d, d \in VersionsOf(row), d \in VersionsOf(tx'[t].rows[l])
                 PROVE  FALSE
        <3>1. \A l, m \in Candidates :
                /\ tx'[t].rows[l] # None /\ tx'[t].rows[m] # None
                /\ VersionsOf(tx'[t].rows[l]) \cap VersionsOf(tx'[t].rows[m]) # {}
                /\ l # k /\ m # k
                => l = m
            BY <1>1, <1>7 DEF IInv, OneRow, OneRowOf, HoldsProduct
        <3>2. \A l, m \in Candidates :
                /\ tx'[t].rows[l] # None /\ tx'[t].rows[m] # None
                /\ VersionsOf(tx'[t].rows[l]) \cap VersionsOf(tx'[t].rows[m]) # {}
                => l = m
            BY <1>7, <3>1
        <3>. QED BY <3>2 DEF OneRowOf, HoldsProduct, VersionsOf
    <2>1. HoldsProduct(t, l) /\ d \in VersionsOf(tx[t].rows[l])
        BY <1>7 DEF HoldsProduct
    <2>2. d \in Versions(l) \/ (~HasVersion(d) /\ tx[t].decided[d] = "approved")
        BY <1>1, <2>1 DEF IInv, RowShapes, RowShapeOf
    <2>3. CASE d = c /\ ~HasVersion(c)
        BY <1>4, <2>2, <2>3, NoneAssumption DEF HasVersion
    <2>4. CASE d \in VersionsOf(ProductIn(t, k))
        <3>1. CASE HoldsProduct(t, k)
            BY <1>1, <2>1, <2>4, <3>1 DEF IInv, OneRow, OneRowOf, ProductIn
        <3>2. CASE ~HoldsProduct(t, k)
            <4>1. d \in Versions(k)
                BY <2>4, <3>2 DEF ProductIn, Versions, VersionsOf
            <4>. QED BY <2>2, <4>1 DEF IInv, OneProduct, HasVersion
        <3>. QED BY <3>1, <3>2
    <2>. QED BY <1>5, <2>3, <2>4
<1>15. WrittenByOne'
    BY <1>3, <1>5, <1>7 DEF IInv, WrittenByOne, OpenStep, HoldsProduct
<1>16. RowStatusOf(t)'
    <2>1. ASSUME NEW d \in Candidates, StateIn(t, d) = "approved" PROVE StateIn(t, d)' = "approved"
        BY <1>3, <1>4, <1>7, <2>1, NoneAssumption DEF StateIn, OpenStep
    <2>2. \A l \in Candidates : CurrentOf(tx[t].rows[l])' = CurrentOf(tx'[t].rows[l])
        BY DEF CurrentOf
    <2> SUFFICES ASSUME NEW l \in Candidates, tx'[t].rows[l] # None
                 PROVE  /\ tx'[t].rows[l].status = "inactive" => product[l].status = "inactive"
                        /\ tx'[t].rows[l].status = "active" /\ product[l].status = "inactive"
                            => CurrentOf(tx'[t].rows[l]) \notin Versions(l)
                        /\ tx'[t].rows[l].status = "active" =>
                            \E d \in Candidates : /\ d = CurrentOf(tx'[t].rows[l])
                                                  /\ StateIn(t, d)' = "approved" \/ Missed(d)'
        BY <1>3, <1>4, <2>2, ReadTables DEF RowStatusOf, HoldsProduct, OpenStep
    <2>3. ASSUME HoldsProduct(t, l), tx'[t].rows[l] = tx[t].rows[l]
          PROVE  /\ tx'[t].rows[l].status = "inactive" => product[l].status = "inactive"
                 /\ tx'[t].rows[l].status = "active" /\ product[l].status = "inactive"
                      => CurrentOf(tx'[t].rows[l]) \notin Versions(l)
                 /\ tx'[t].rows[l].status = "active" =>
                      \E d \in Candidates : /\ d = CurrentOf(tx'[t].rows[l])
                                            /\ StateIn(t, d)' = "approved" \/ Missed(d)'
        <3>1. /\ tx[t].rows[l].status = "inactive" => product[l].status = "inactive"
              /\ tx[t].rows[l].status = "active" /\ product[l].status = "inactive"
                   => CurrentOf(tx[t].rows[l]) \notin Versions(l)
              /\ tx[t].rows[l].status = "active" =>
                   \E d \in Candidates : /\ d = CurrentOf(tx[t].rows[l])
                                         /\ StateIn(t, d) = "approved" \/ Missed(d)
            BY <1>1, <2>3 DEF IInv, RowStatuses, RowStatusOf
        <3>. QED BY <1>11, <2>1, <2>3, <3>1
    <2>4. CASE l # k
        BY <1>7, <2>3, <2>4 DEF HoldsProduct
    <2>5. CASE l = k /\ CurrentOf(row) = c /\ row.status = "active" /\ ~HasVersion(c)
        <3>1. PICK d \in Candidates : d = c
            BY <1>4
        <3>2. StateIn(t, d)' = "approved"
            BY <1>7, <3>1, NoneAssumption DEF StateIn
        <3>3. c \notin Versions(k)
            BY <2>5 DEF HasVersion
        <3>. QED BY <1>7, <2>5, <3>1, <3>2, <3>3
    <2>6. CASE l = k /\ row = ProductIn(t, k) /\ Exists(t, k)
        <3>1. CASE HoldsProduct(t, k)
            BY <1>7, <2>3, <2>6, <3>1 DEF ProductIn
        <3>2. CASE ~HoldsProduct(t, k)
            <4>1. row = product[k] /\ tx'[t].rows[l] = product[k]
                BY <1>7, <2>6, <3>2 DEF ProductIn
            <4>2. ASSUME product[k].status = "active"
                  PROVE  \E d \in Candidates : /\ d = CurrentOf(product[k])
                                               /\ StateIn(t, d) = "approved" \/ Missed(d)
                <5> DEFINE d == CurrentOf(product[k])
                <5>1. d \in Candidates /\ d \in Versions(k)
                    BY <1>1, <4>1, <1>5, CurrentIsVersion DEF Versions, VersionsOf
                <5>2. candidate[d].state = "approved" \/ Missed(d)
                    BY <4>2 DEF IInv, ServedIsApproved, CurrentOf, Missed, MissedBy
                <5>3. tx[t].decided[d] = None
                    <6>. HIDE DEF d
                    <6>1. candidate[d].state \in {"approved", "rejected"}
                        BY <5>1 DEF IInv, VersionedIsDecided, HasVersion
                    <6>. QED BY <1>4, <5>1, <6>1 DEF PromotionOf
                <5>. HIDE DEF d
                <5>4. StateIn(t, d) = candidate[d].state
                    BY <5>3 DEF StateIn
                <5>. QED BY <5>1, <5>2, <5>4 DEF d
            <4>. QED BY <1>11, <2>1, <2>6, <4>1, <4>2
        <3>. QED BY <3>1, <3>2
    <2>. QED BY <1>5, <2>4, <2>5, <2>6
<1>17. Reads'
    <2> SUFFICES ASSUME NEW x \in Retractions PROVE ReadOf(x)'
        BY DEF Reads
    <2>1. tx'[x] = tx[x] /\ x # t /\ ReadOf(x)
        BY <1>3, <1>4, Disjoint DEF IInv, Reads, OpenStep
    <2> SUFFICES ASSUME NEW d \in Candidates, NEW l \in Candidates, tx[x].read[d].product = l,
                        ~tx[x].read[d].active, NEW u \in Transactions, tx'[u].rows[l] # None
                 PROVE  NotServing(tx'[u].rows[l], d)
        BY <1>3, <2>1, ReadCarries DEF ReadOf, HoldsProduct, OpenStep
    <2>2. /\ d \in Versions(l) /\ NotServing(product[l], d)
          /\ \A w \in Transactions : HoldsProduct(w, l) => NotServing(tx[w].rows[l], d)
        BY <2>1 DEF ReadOf
    <2>3. CASE u # t \/ l # k
        <3>1. tx'[u].rows[l] = tx[u].rows[l]
            BY <1>3, <1>7, <2>3 DEF OpenStep
        <3>. QED BY <2>2, <3>1 DEF HoldsProduct
    <2>4. CASE u = t /\ l = k /\ CurrentOf(row) = c /\ ~HasVersion(c)
        BY <1>7, <2>2, <2>4 DEF NotServing, HasVersion
    <2>5. CASE u = t /\ l = k /\ row = ProductIn(t, k)
        BY <1>1, <1>7, <2>2, <2>5 DEF ProductIn
    <2>. QED BY <1>5, <2>3, <2>4, <2>5
<1>18. RunPhases' /\ AcceptedIsTaken'
    BY <1>1, <1>3, <1>7, <1>9, SameRuns DEF Busy
<1>. QED BY <1>1, <1>3, <1>4, <1>7, <1>9, <1>10, <1>13, <1>14, <1>15, <1>16, <1>17, <1>18,
            OpenStepKeeps DEF TypeOK

\* A promotion takes what it can lock; what it cannot, somebody else holds.
LEMMA LoadKeeps ==
    ASSUME IInv, NEW t \in Promoters, Load(t)
    PROVE  IInv'
<1> DEFINE taken == {c \in Candidates : Loadable(t, c)}
<1>1. t \in Transactions /\ t \notin Retractions /\ TypeOK /\ tx[t].pc = "idle"
    BY Disjoint DEF IInv, Load
<1>2. /\ Moves(t, "next", taken, InOrder(taken), NoTx.rows, NoTx.decided)
      /\ tx'[t].read = NoTx.read
    BY <1>1, LoadMoves
<1>3. OpenStep(t) /\ \A c \in taken : FreeCandidate(t, c)
    BY <1>1, <1>2 DEF OpenStep, Moves, Load, Loadable, Busy
<1>4. /\ tx[t].held = {} /\ tx[t].rows = NoTx.rows /\ tx[t].decided = NoTx.decided
    BY <1>1 DEF IInv, Phases, PhaseOf, Busy, Locking
<1>5. /\ Elements(InOrder(taken)) = taken /\ Ascending(InOrder(taken))
      /\ taken \subseteq Candidates
      /\ \A c \in taken : candidate[c].state = "auto_validated"
    BY InOrderSorts DEF Loadable
<1>6. \A r \in Runs : run'[r] = IF r = t THEN "promoting" ELSE run[r]
    BY <1>1 DEF Load, TypeOK
<1>7. t \in Runs => run[t] = "summarized"
    BY DEF Load
<1>8. run' \in [Runs -> {"new", "draft", "validated", "summarized", "promoting",
                         "promoted", "finished", "failed"}]
    BY <1>1 DEF Load, TypeOK
<1>9. \A c : Loadable(t, c) <=>
            /\ t \in Runs => RunOf[c] = t
            /\ candidate[c].state = "auto_validated"
            /\ review[c] \notin Open
            /\ ~HasVersion(c)
            /\ FreeCandidate(t, c)
    BY DEF Loadable
<1>10. \A c \in Candidates : c \in taken <=> Loadable(t, c)
    OBVIOUS
<1>. HIDE DEF taken
<1>11. /\ tx'[t].held = taken /\ tx'[t].pc = "next" /\ tx'[t].todo = InOrder(taken)
       /\ tx'[t].rows = NoTx.rows /\ \A c \in Candidates : tx'[t].decided[c] = None
    BY <1>2, NoTxType DEF Moves
<1>12. PhaseOf(t)' /\ BaseOf(t)'
    BY <1>1, <1>11 DEF PhaseOf, BaseOf, Busy, Locking
<1>13. PromotionOf(t)'
    <2>1. Left(t)' = taken /\ Ascending(tx[t].todo)'
        BY <1>5, <1>11 DEF Left, Elements, Ascending
    <2>. QED BY <1>3, <1>5, <1>11, <2>1, NoneAssumption DEF PromotionOf, OpenStep
<1>14. \A c \in Candidates : Missed(c) => Missed(c)'
    BY <1>1, <1>3, <1>6, <1>7, <1>8, TablesKept
<1>15. /\ RowShapeOf(t)' /\ OneRowOf(t)' /\ RowStatusOf(t)' /\ WrittenByOne'
       /\ \A x \in Retractions \ {t} : ReadOf(x)'
    <2>1. \A c \in Candidates : tx[t].decided[c] = None
        BY <1>4, NoTxType
    <2>. QED BY <1>1, <1>3, <1>4, <1>11, <1>13, <1>14, <2>1, RowsKept
<1>16. Reads'
    BY <1>1, <1>15 DEF Reads
<1>17. RunPhases'
    <2>1. \A r \in Runs : r # t => tx'[r] = tx[r]
        BY <1>3, Disjoint DEF OpenStep
    <2>. QED BY <1>6, <1>11, <2>1 DEF IInv, RunPhases, Busy
<1>18. AcceptedIsTaken'
    <2> SUFFICES ASSUME NEW c \in Candidates \ Former,
                        run'[RunOf[c]] \in {"promoting", "promoted", "finished"},
                        candidate[c].state = "auto_validated"
                 PROVE  HoldsCandidate(RunOf[c], c)' \/ TakenElsewhere(c)'
        BY <1>3 DEF AcceptedIsTaken, Former, OpenStep
    <2>1. RunOf[c] \in Runs /\ RunOf[c] \in Transactions
        BY RunsAssumption, Disjoint DEF Former
    <2>2. \A u \in Transactions \ {t} :
            /\ HoldsCandidate(u, c) => HoldsCandidate(u, c)'
            /\ tx[u].pc = "aborted" => tx'[u].pc = "aborted"
        BY <1>3 DEF OpenStep, HoldsCandidate
    <2>3. CASE RunOf[c] = t
        <3>1. review[c] \notin Open /\ ~HasVersion(c)
            BY DEF IInv, KnownCandidates, Open, VersionedIsDecided
        <3>2. CASE FreeCandidate(t, c)
            <4>1. c \in taken
                BY <1>9, <1>10, <2>3, <3>1, <3>2
            <4>. QED BY <1>11, <2>3, <4>1 DEF HoldsCandidate
        <3>3. CASE ~FreeCandidate(t, c)
            BY <2>2, <2>3, <3>3 DEF FreeCandidate, TakenElsewhere
        <3>. QED BY <3>2, <3>3
    <2>4. CASE RunOf[c] # t
        <3>1. HoldsCandidate(RunOf[c], c) \/ TakenElsewhere(c)
            BY <1>6, <2>1, <2>4 DEF IInv, AcceptedIsTaken
        <3>2. ~HoldsCandidate(t, c) /\ tx[t].pc # "aborted"
            BY <1>1, <1>4 DEF HoldsCandidate
        <3>. QED BY <2>1, <2>2, <2>4, <3>1, <3>2 DEF TakenElsewhere
    <2>. QED BY <2>3, <2>4
<1>. QED BY <1>1, <1>3, <1>4, <1>6, <1>7, <1>8, <1>11, <1>12, <1>13, <1>15, <1>16, <1>17, <1>18,
            OpenStepKeeps

-----------------------------------------------------------------------------
(* The steps of a retraction *)

LEMMA ReadRowsKeeps ==
    ASSUME IInv, NEW t \in Retractions, NEW ids \in SUBSET Candidates, ReadRows(t, ids)
    PROVE  IInv'
<1>1. t \in Transactions /\ t \notin Promoters /\ TypeOK /\ tx[t].pc = "idle"
    BY Disjoint DEF IInv, ReadRows
<1>2. /\ tx[t].held = {} /\ tx[t].rows = NoTx.rows /\ tx[t].decided = NoTx.decided
    BY <1>1 DEF IInv, Phases, PhaseOf, Busy, Locking
<1>3. /\ Moves(t, "lock", tx[t].held, InOrder(ids), tx[t].rows, tx[t].decided)
      /\ \A c \in Candidates :
           \/ c \in ids /\ tx'[t].read[c] = RowOf(c)
           \/ c \notin ids /\ tx'[t].read[c] = NoTx.read[c]
    BY <1>1, <1>2, ReadMoves
<1>4. OpenStep(t) /\ UNCHANGED run
    BY <1>1, <1>3 DEF OpenStep, Moves, ReadRows, Locking
<1>5. /\ Elements(InOrder(ids)) = ids /\ Ascending(InOrder(ids)) /\ InOrder(ids) # <<>>
      /\ \A c \in ids : candidate[c].state # "none"
    BY InOrderSorts DEF ReadRows
<1>6. /\ tx'[t].held = {} /\ tx'[t].pc = "lock" /\ tx'[t].todo = InOrder(ids)
      /\ tx'[t].rows = tx[t].rows /\ tx'[t].decided = tx[t].decided
    BY <1>2, <1>3 DEF Moves
<1>7. PhaseOf(t)'
    BY <1>1, <1>5, <1>6 DEF PhaseOf, Busy, Locking
<1>8. RetractionOf(t)'
    <2>1. Elements(tx[t].todo)' = ids /\ Ascending(tx[t].todo)'
        BY <1>5, <1>6 DEF Elements, Ascending
    <2>2. \A c \in Candidates : tx'[t].decided[c] = None
        BY <1>2, <1>6, NoTxType
    <2>3. (NoTx.decided)' = NoTx.decided
        BY DEF NoTx
    <2>. QED BY <1>2, <1>4, <1>5, <1>6, <2>1, <2>2, <2>3 DEF RetractionOf, OpenStep
<1>9. \A c \in Candidates : Missed(c) => Missed(c)'
    BY <1>1, <1>4, TablesKept DEF TypeOK
<1>10. /\ RowShapeOf(t)' /\ OneRowOf(t)' /\ RowStatusOf(t)' /\ WrittenByOne'
       /\ \A x \in Retractions \ {t} : ReadOf(x)'
    BY <1>1, <1>2, <1>4, <1>6, <1>9, RowsKept
<1>11. ReadOf(t)'
    <2> SUFFICES ASSUME NEW c \in Candidates, NEW k \in Candidates, tx'[t].read[c].product = k
                 PROVE  /\ c \in Versions(k)
                        /\ ~tx'[t].read[c].active =>
                            /\ NotServing(product[k], c)
                            /\ \A u \in Transactions : tx[u].rows[k] # None => NotServing(tx[u].rows[k], c)
                        /\ tx'[t].decided[c] # "rejected"
        <3>1. \A u \in Transactions : tx'[u].rows = tx[u].rows
            BY <1>4, <1>6 DEF OpenStep
        <3>. QED BY <1>4, <3>1, ReadTables
                 DEF ReadOf, HoldsProduct, NotServing, CurrentOf, OpenStep
    <2>1. tx'[t].read[c] = RowOf(c)
        BY <1>3, NoTxType, CandidatesAssumption
    <2>2. /\ product[k].status # "none" /\ CurrentOf(product[k]) = c
          /\ tx'[t].read[c].active <=> product[k].status = "active"
        BY <1>1, <2>1, RowRead, CandidatesAssumption
    <2>3. product[k] \in Product /\ Chain(product[k])
        BY <1>1, <2>2, RowIn DEF IInv, ProductShape
    <2>4. c \in Versions(k)
        BY <2>2, <2>3, CurrentIsVersion DEF Versions, VersionsOf
    <2>5. tx'[t].decided[c] # "rejected"
        BY <1>2, <1>6, NoTxType, NoneAssumption
    <2>6. ASSUME ~tx'[t].read[c].active
          PROVE  /\ NotServing(product[k], c)
                 /\ \A u \in Transactions : tx[u].rows[k] # None => NotServing(tx[u].rows[k], c)
        <3>1. product[k].status = "inactive"
            BY <2>2, <2>3, <2>6, RowFields
        <3> SUFFICES ASSUME NEW u \in Transactions, tx[u].rows[k] # None
                     PROVE  NotServing(tx[u].rows[k], c)
            BY <3>1 DEF NotServing
        <3> DEFINE row == tx[u].rows[k]
        <3>2. HoldsProduct(u, k)
            BY DEF HoldsProduct
        <3>3. row \in Product /\ Chain(row) /\ row.status # "none"
            BY <1>1, <3>2, RowIn DEF IInv, RowShapes, RowShapeOf
        <3>4. row.status = "active" => CurrentOf(row) \notin Versions(k)
            BY <3>1, <3>2 DEF IInv, RowStatuses, RowStatusOf
        <3>. QED BY <2>4, <3>3, <3>4, RowFields DEF NotServing
    <2>. QED BY <2>4, <2>5, <2>6
<1>12. Reads'
    BY <1>10, <1>11 DEF Reads
<1>13. RunPhases' /\ AcceptedIsTaken'
    BY <1>1, <1>2, <1>4, <1>6, <1>7, SameRuns
<1>. QED BY <1>1, <1>2, <1>4, <1>6, <1>7, <1>8, <1>10, <1>12, <1>13, OpenStepKeeps DEF TypeOK

LEMMA LockRowKeeps ==
    ASSUME IInv, NEW t \in Retractions, LockRow(t)
    PROVE  IInv'
<1> DEFINE c == Head(tx[t].todo)
           held == tx[t].held \cup {c}
           todo == tx'[t].todo
<1>1. t \in Transactions /\ t \notin Promoters /\ TypeOK /\ tx[t].pc = "lock" /\ tx[t].todo # <<>>
    BY Disjoint DEF IInv, LockRow, Phases, PhaseOf
<1>2. /\ tx'[t].read = tx[t].read
      /\ \/ Moves(t, "retract", held, InOrder(held), tx[t].rows, tx[t].decided)
         \/ /\ Tail(tx[t].todo) # <<>>
            /\ Moves(t, "lock", held, Tail(tx[t].todo), tx[t].rows, tx[t].decided)
    BY <1>1, LockRowMoves
<1>3. OpenStep(t) /\ UNCHANGED run /\ FreeCandidate(t, c)
    BY <1>1, <1>2 DEF OpenStep, Moves, LockRow, Locking
<1>4. RetractionOf(t)
    BY DEF IInv, RetractionsHold
<1>5. /\ c \in Candidates /\ Ascending(Tail(tx[t].todo))
      /\ Elements(tx[t].todo) = {c} \cup Elements(Tail(tx[t].todo))
      /\ held \in SUBSET Candidates
    <2>1. tx[t].todo \in Seq(Candidates) /\ tx[t].held \subseteq Candidates
        BY <1>1, TxOf
    <2>. QED BY <1>1, <1>4, <2>1, TailOf DEF RetractionOf
<1>6. \A d \in held \cup Elements(Tail(tx[t].todo)) : candidate[d].state # "none"
    BY <1>4, <1>5 DEF RetractionOf
<1>. HIDE DEF c, held
<1>7. Elements(InOrder(held)) = held /\ Ascending(InOrder(held))
    BY <1>5, InOrderSorts
<1>8. \A d \in Candidates : tx[t].decided[d] = None
    BY <1>1, <1>4, NoTxType DEF RetractionOf
<1>9. /\ tx'[t].held = held /\ tx'[t].rows = tx[t].rows /\ tx'[t].decided = tx[t].decided
      /\ \/ tx'[t].pc = "retract" /\ todo = InOrder(held)
         \/ tx'[t].pc = "lock" /\ todo = Tail(tx[t].todo) /\ todo # <<>>
    BY <1>2 DEF Moves
<1>10. PhaseOf(t)'
    BY <1>1, <1>9 DEF PhaseOf, Busy, Locking
<1>11. RetractionOf(t)'
    <2>1. Ascending(todo) /\ Elements(todo) \subseteq held \cup Elements(Tail(tx[t].todo))
        BY <1>5, <1>7, <1>9
    <2>2. tx'[t].pc = "retract" => Elements(todo) = held
        BY <1>7, <1>9
    <2>3. (NoTx.decided)' = NoTx.decided
        BY DEF NoTx
    <2>4. Ascending(tx[t].todo)' <=> Ascending(todo)
        BY DEF Ascending
    <2>5. Elements(tx[t].todo)' = Elements(todo)
        BY DEF Elements
    <2>6. tx[t].decided = NoTx.decided
        BY <1>1, <1>4 DEF RetractionOf
    <2>. HIDE DEF todo
    <2>. QED BY <1>3, <1>6, <1>8, <1>9, <2>1, <2>2, <2>3, <2>4, <2>5, <2>6, NoneAssumption
             DEF RetractionOf, OpenStep
<1>12. \A d \in Candidates : Missed(d) => Missed(d)'
    BY <1>1, <1>3, TablesKept DEF TypeOK
<1>13. /\ RowShapeOf(t)' /\ OneRowOf(t)' /\ RowStatusOf(t)' /\ WrittenByOne'
       /\ \A x \in Retractions \ {t} : ReadOf(x)'
    BY <1>1, <1>2, <1>3, <1>9, <1>12, RowsKept
<1>14. ReadOf(t)'
    <2>1. \A u \in Transactions : tx'[u].rows = tx[u].rows
        BY <1>3, <1>9 DEF OpenStep
    <2>2. ReadOf(t)
        BY DEF IInv, Reads
    <2>. QED BY <1>2, <1>3, <1>8, <1>9, <2>1, <2>2, ReadCarries, NoneAssumption
             DEF ReadOf, HoldsProduct, OpenStep
<1>15. Reads'
    BY <1>13, <1>14 DEF Reads
<1>16. RunPhases' /\ AcceptedIsTaken'
    <2>1. tx[t].held \subseteq tx'[t].held
        BY <1>9 DEF held
    <2>. QED BY <1>3, <1>1, <1>10, <2>1, SameRuns
<1>17. \A d \in tx'[t].held \ tx[t].held : FreeCandidate(t, d)
    BY <1>3, <1>9 DEF held
<1>. QED BY <1>1, <1>3, <1>10, <1>11, <1>13, <1>15, <1>16, <1>17, OpenStepKeeps DEF TypeOK

\* What all cases of Retract do to the list of candidates.
LEMMA RetractList ==
    ASSUME IInv, NEW t \in Retractions, Retract(t)
    PROVE  LET c == Head(tx[t].todo)
           IN  /\ t \in Transactions /\ t \notin Promoters /\ TypeOK
               /\ OpenStep(t) /\ UNCHANGED run
               /\ c \in Candidates
               /\ tx'[t].held = tx[t].held /\ tx'[t].read = tx[t].read
               /\ tx'[t].decided[c] = "rejected"
               /\ \A d \in Candidates \ {c} : tx'[t].decided[d] = tx[t].decided[d]
               /\ \A d \in Candidates : tx[t].decided[d] # None => tx'[t].decided[d] = tx[t].decided[d]
               /\ PhaseOf(t)' /\ RetractionOf(t)' /\ RunPhases' /\ AcceptedIsTaken'
<1> DEFINE c == Head(tx[t].todo)
           decided == [tx[t].decided EXCEPT ![c] = "rejected"]
<1>1. /\ t \in Transactions /\ t \notin Promoters /\ TypeOK
      /\ tx[t].pc = "retract" /\ tx[t].todo # <<>>
    BY Disjoint DEF IInv, Retract
<1>2. /\ tx'[t].read = tx[t].read
      /\ \E rows : Moves(t, "retract", tx[t].held, Tail(tx[t].todo), rows, decided)
    BY <1>1, RetractMoves
<1>3. OpenStep(t) /\ UNCHANGED run
    BY <1>1, <1>2 DEF OpenStep, Moves, Retract, Locking
<1>4. RetractionOf(t)
    BY DEF IInv, RetractionsHold
<1>5. /\ c \in Candidates /\ Ascending(Tail(tx[t].todo))
      /\ Elements(tx[t].todo) = {c} \cup Elements(Tail(tx[t].todo))
      /\ Elements(Tail(tx[t].todo)) \subseteq Candidates
      /\ tx[t].decided \in [Candidates -> {"approved", "rejected", "superseded", None}]
    <2>1. tx[t].todo \in Seq(Candidates)
        BY <1>1, TxOf
    <2>. QED BY <1>1, <1>4, <2>1, TailOf, TxOf DEF RetractionOf
<1>. HIDE DEF c
<1>6. /\ tx'[t].decided[c] = "rejected"
      /\ \A d \in Candidates \ {c} : tx'[t].decided[d] = tx[t].decided[d]
      /\ tx'[t].held = tx[t].held /\ tx'[t].pc = "retract" /\ tx'[t].todo = Tail(tx[t].todo)
    BY <1>2, <1>5 DEF Moves
<1>7. \A d \in Candidates : tx[t].decided[d] # None => tx'[t].decided[d] = tx[t].decided[d]
    BY <1>4, <1>6 DEF RetractionOf
<1>8. PhaseOf(t)'
    BY <1>1, <1>6 DEF PhaseOf, Busy, Locking
<1>9. RetractionOf(t)'
    <2>1. Elements(tx[t].todo)' = Elements(Tail(tx[t].todo)) /\ Ascending(tx[t].todo)'
        BY <1>5, <1>6 DEF Elements, Ascending
    <2> SUFFICES ASSUME NEW d \in Candidates
                 PROVE  /\ d \in tx'[t].held \cup Elements(Tail(tx[t].todo)) => candidate[d].state # "none"
                        /\ tx'[t].decided[d] \in {"rejected", None}
                        /\ d \in tx'[t].held <=> d \in Elements(Tail(tx[t].todo)) \/ tx'[t].decided[d] # None
        <3>1. tx'[t].held \cup Elements(Tail(tx[t].todo)) \subseteq Candidates
            BY <1>1, <1>5, <1>6, TxOf
        <3>. QED BY <1>3, <1>6, <2>1, <3>1 DEF RetractionOf, OpenStep
    <2>2. CASE d = c
        BY <1>1, <1>4, <1>5, <1>6, <2>2, NoneAssumption DEF RetractionOf
    <2>3. CASE d # c
        BY <1>1, <1>4, <1>5, <1>6, <2>3 DEF RetractionOf
    <2>. QED BY <2>2, <2>3
<1>10. RunPhases' /\ AcceptedIsTaken'
    BY <1>1, <1>3, <1>6, <1>8, SameRuns
<1>. QED BY <1>1, <1>2, <1>3, <1>5, <1>6, <1>7, <1>8, <1>9, <1>10 DEF c

LEMMA RetractKeeps ==
    ASSUME IInv, NEW t \in Retractions, Retract(t)
    PROVE  IInv'
<1> DEFINE c == Head(tx[t].todo)
           k == tx[t].read[c].product
           closed == [ProductIn(t, k) EXCEPT !.status = "inactive"]
<1>1. /\ t \in Transactions /\ t \notin Promoters /\ TypeOK
      /\ OpenStep(t) /\ UNCHANGED run
      /\ c \in Candidates
      /\ tx'[t].held = tx[t].held /\ tx'[t].read = tx[t].read
      /\ tx'[t].decided[c] = "rejected"
      /\ \A d \in Candidates \ {c} : tx'[t].decided[d] = tx[t].decided[d]
      /\ \A d \in Candidates : tx[t].decided[d] # None => tx'[t].decided[d] = tx[t].decided[d]
      /\ PhaseOf(t)' /\ RetractionOf(t)' /\ RunPhases' /\ AcceptedIsTaken'
    BY RetractList
<1>2. \A d \in Candidates : Missed(d) => Missed(d)'
    BY <1>1, TablesKept DEF TypeOK
<1>3. IF Withdraws(t, c)
      THEN /\ k \in Candidates /\ FreeProduct(t, k)
           /\ tx'[t].rows = [tx[t].rows EXCEPT ![k] = closed]
      ELSE tx'[t].rows = tx[t].rows
    BY <1>1, RetractMoves DEF Moves
<1>4. tx[t].pc # "done" /\ tx'[t].pc # "done"
    <2>1. tx'[t].pc = "retract"
        BY <1>1, RetractMoves DEF Moves
    <2>. QED BY <2>1 DEF Retract
<1>5. SUFFICES RowShapeOf(t)' /\ OneRowOf(t)' /\ RowStatusOf(t)' /\ WrittenByOne' /\ Reads'
    <2>. HIDE DEF c
    <2>. QED BY <1>1, OpenStepKeeps DEF TypeOK
<1>6. CASE ~Withdraws(t, c)
    <2>. HIDE DEF c
    <2>1. /\ RowShapeOf(t)' /\ OneRowOf(t)' /\ RowStatusOf(t)' /\ WrittenByOne'
          /\ \A x \in Retractions \ {t} : ReadOf(x)'
        BY <1>1, <1>2, <1>3, <1>6, RowsKept
    <2>2. ReadOf(t)'
        <3>1. \A u \in Transactions : tx'[u].rows = tx[u].rows
            BY <1>1, <1>3, <1>6 DEF OpenStep
        <3>2. ReadOf(t)
            BY DEF IInv, Reads
        <3> SUFFICES ASSUME NEW d \in Candidates, NEW l \in Candidates, tx[t].read[d].product = l,
                            tx[t].read[d].active, tx'[t].decided[d] = "rejected"
                     PROVE  tx[t].rows[l] # None
            BY <1>1, <3>1, <3>2, ReadCarries DEF ReadOf, HoldsProduct, OpenStep
        <3>3. d # c
            BY <1>6, CandidatesAssumption DEF Withdraws
        <3>. QED BY <1>1, <1>4, <3>2, <3>3 DEF ReadOf, HoldsProduct
    <2>. QED BY <2>1, <2>2 DEF Reads
<1>7. CASE Withdraws(t, c)
    <2>1. k \in Candidates /\ ProductIn(t, k) \in Product /\ product[k] \in Product
        BY <1>1, <1>3, <1>7, RowIn
    <2>2. /\ closed \in Product /\ closed.status = "inactive"
          /\ closed.current = ProductIn(t, k).current
          /\ closed.versions = ProductIn(t, k).versions
        BY <2>1, InactiveRow
    <2>. HIDE DEF closed
    <2>3. /\ tx'[t].rows[k] = closed
          /\ \A l \in Candidates \ {k} : tx'[t].rows[l] = tx[t].rows[l]
        <3>1. tx[t].rows \in [Candidates -> Product \cup {None}]
            BY <1>1, TxOf
        <3>. HIDE DEF c, k
        <3>. QED BY <1>3, <1>7, <2>1, <3>1
    <2>4. c \in Versions(k)
        BY <1>1, <2>1 DEF IInv, Reads, ReadOf
    <2>. HIDE DEF c, k
    <2>5. closed # None /\ \A u \in Transactions \ {t} : ~HoldsProduct(u, k)
        BY <1>3, <1>7, <2>2, NoneAssumption DEF FreeProduct
    <2>6. VersionsOf(closed) = VersionsOf(ProductIn(t, k))
        BY <2>2 DEF VersionsOf
    <2>7. ASSUME NEW l \in Candidates, HoldsProduct(t, l), NEW d, d \in VersionsOf(tx[t].rows[l])
          PROVE  d \in Versions(l)
        <3>1. d \in Candidates
            BY <1>1, <2>7, RowIn, VersionsAreCandidates
        <3>2. tx[t].decided[d] # "approved"
            BY <3>1, NoneAssumption DEF IInv, RetractionsHold, RetractionOf
        <3>. QED BY <1>1, <2>7, <3>2 DEF IInv, RowShapes, RowShapeOf
    <2>8. \A d \in VersionsOf(closed) : d \in Versions(k)
        BY <2>1, <2>6, <2>7 DEF ProductIn, Versions, VersionsOf
    <2>9. Chain(ProductIn(t, k)) /\ k \in VersionsOf(ProductIn(t, k))
          /\ Extends(ProductIn(t, k), product[k])
        <3>1. CASE HoldsProduct(t, k)
            BY <1>1, <2>1, <3>1 DEF IInv, RowShapes, RowShapeOf, ProductIn
        <3>2. CASE ~HoldsProduct(t, k)
            <4>1. product[k].status # "none"
                BY <2>1, <2>4 DEF IInv, ProductShape, Versions
            <4>. QED BY <2>1, <3>2, <4>1, ExtendsSelf
                     DEF IInv, ProductShape, ProductIn, Versions, VersionsOf
        <3>. QED BY <3>1, <3>2
    <2>10. Chain(closed) /\ k \in VersionsOf(closed) /\ Extends(closed, product[k])
        BY <2>2, <2>6, <2>9 DEF Chain, Extends
    <2>11. RowShapeOf(t)'
        <3> SUFFICES ASSUME NEW l \in Candidates, tx'[t].rows[l] # None
                     PROVE  /\ tx'[t].rows[l].status # "none" /\ Chain(tx'[t].rows[l])
                            /\ l \in VersionsOf(tx'[t].rows[l])
                            /\ Extends(tx'[t].rows[l], product[l])
                            /\ \A d \in VersionsOf(tx'[t].rows[l]) : d \in Versions(l)
            BY <1>1, ReadTables
               DEF RowShapeOf, HoldsProduct, OpenStep, Chain, VersionsOf, Extends
        <3>1. CASE l = k
            BY <2>2, <2>3, <2>8, <2>10, <3>1
        <3>2. CASE l # k
            BY <1>1, <2>3, <2>7, <3>2 DEF IInv, RowShapes, RowShapeOf, HoldsProduct
        <3>. QED BY <3>1, <3>2
    <2>12. OneRowOf(t)'
        <3> SUFFICES ASSUME NEW l \in Candidates, NEW m \in Candidates,
                            tx'[t].rows[l] # None, tx'[t].rows[m] # None,
                            NEW d, d \in VersionsOf(tx'[t].rows[l]), d \in VersionsOf(tx'[t].rows[m])
                     PROVE  l = m
            BY DEF OneRowOf, HoldsProduct, VersionsOf
        <3>1. \A n \in Candidates : tx'[t].rows[n] # None /\ d \in VersionsOf(tx'[t].rows[n])
                => d \in Versions(n)
            BY <2>3, <2>7, <2>8 DEF HoldsProduct
        <3>. QED BY <3>1 DEF IInv, OneProduct
    <2>13. RowStatusOf(t)'
        <3> SUFFICES ASSUME NEW l \in Candidates, tx'[t].rows[l] # None
                     PROVE  /\ tx'[t].rows[l].status = "inactive"
                            /\ \E d \in Candidates : tx'[t].decided[d] = "rejected"
                                                  /\ tx'[t].read[d].product = l
            BY <1>1 DEF RowStatusOf, HoldsProduct
        <3>1. CASE l = k
            BY <1>1, <2>2, <2>3, <3>1 DEF k
        <3>2. CASE l # k
            <4>1. HoldsProduct(t, l) /\ tx'[t].rows[l] = tx[t].rows[l]
                BY <2>3, <3>2 DEF HoldsProduct
            <4>. QED BY <1>1, <4>1, NoneAssumption DEF IInv, RowStatuses, RowStatusOf
        <3>. QED BY <3>1, <3>2
    <2>14. WrittenByOne'
        BY <1>1, <2>3, <2>5 DEF IInv, WrittenByOne, OpenStep, HoldsProduct
    <2>15. ASSUME NEW x \in Retractions PROVE ReadOf(x)'
        <3>1. ReadOf(x) /\ x \in Transactions
            BY Disjoint DEF IInv, Reads
        <3>2. tx'[x].read = tx[x].read
            BY <1>1, <3>1 DEF OpenStep
        <3>3. \A u \in Transactions, l \in Candidates, d \in Candidates :
                /\ HoldsProduct(u, l) => NotServing(tx[u].rows[l], d)
                /\ tx'[u].rows[l] # None
                => NotServing(tx'[u].rows[l], d)
            BY <1>1, <2>2, <2>3 DEF NotServing, OpenStep, HoldsProduct
        <3>4. ASSUME NEW d \in Candidates, NEW l \in Candidates, tx[x].read[d].product = l,
                     tx[x].read[d].active, tx'[x].decided[d] = "rejected", tx'[x].pc # "done"
              PROVE  tx'[x].rows[l] # None
            <4>1. CASE x # t
                BY <1>1, <3>1, <3>4, <4>1 DEF ReadOf, HoldsProduct, OpenStep
            <4>2. CASE x = t /\ d = c
                BY <2>3, <2>5, <3>4, <4>2 DEF k
            <4>3. CASE x = t /\ d # c
                <5>1. HoldsProduct(t, l)
                    BY <1>1, <1>4, <3>1, <3>4, <4>3 DEF ReadOf
                <5>. QED BY <2>3, <2>5, <4>3, <5>1 DEF HoldsProduct
            <4>. QED BY <4>1, <4>2, <4>3
        <3> SUFFICES ASSUME NEW d \in Candidates, NEW l \in Candidates, tx[x].read[d].product = l
                     PROVE  /\ d \in Versions(l)
                            /\ ~tx[x].read[d].active =>
                                /\ NotServing(product[l], d)
                                /\ \A u \in Transactions : tx'[u].rows[l] # None
                                        => NotServing(tx'[u].rows[l], d)
            BY <1>1, <3>2, <3>4, ReadTables
               DEF ReadOf, HoldsProduct, NotServing, CurrentOf, OpenStep
        <3>. QED BY <3>1, <3>3 DEF ReadOf
    <2>. QED BY <2>11, <2>12, <2>13, <2>14, <2>15 DEF Reads
<1>. QED BY <1>6, <1>7

-----------------------------------------------------------------------------
(* The stages of a run *)

\* A stage rewrites candidates that nobody holds and nobody published.
LEMMA StageKeeps ==
    ASSUME IInv, UNCHANGED <<product, tx>>,
           candidate' \in [Candidates -> Candidate],
           review' \in [Candidates -> Open \cup {"none", "rejected"}],
           run' \in [Runs -> {"new", "draft", "validated", "summarized", "promoting",
                              "promoted", "finished", "failed"}],
           NEW changed \in SUBSET Candidates,
           Unlocked(changed),
           \A c \in changed : ~HasVersion(c) /\ candidate'[c].state # "none",
           \A c \in Candidates \ changed : candidate'[c] = candidate[c] /\ review'[c] = review[c],
           KnownCandidates', RunPhases', AcceptedIsTaken',
           \A c \in Candidates : HasVersion(c) => c \in Former \/ run'[RunOf[c]] # "draft"
    PROVE  IInv'
<1>1. TypeOK'
    BY DEF IInv, TypeOK
<1>2. /\ Phases' /\ HeldByOne' /\ WrittenByOne' /\ OneRow' /\ Bases' /\ ProductShape' /\ OneProduct'
    <2>1. Phases' /\ HeldByOne' /\ WrittenByOne' /\ OneProduct'
        BY ReadTables DEF IInv, Phases, PhaseOf, NoTx, HeldByOne, WrittenByOne, OneProduct
    <2>2. OneRow'
        <3> SUFFICES ASSUME NEW t \in Transactions, NEW k \in Candidates, NEW l \in Candidates,
                            tx'[t].rows[k] # None, tx'[t].rows[l] # None,
                            VersionsOf(tx'[t].rows[k]) \cap VersionsOf(tx'[t].rows[l]) # {}
                     PROVE  k = l
            BY DEF OneRow, OneRowOf, HoldsProduct, VersionsOf
        <3>. QED BY DEF IInv, OneRow, OneRowOf, HoldsProduct
    <2>3. Bases'
        BY DEF IInv, Bases, BaseOf, Exists, ProductIn, HoldsProduct
    <2>4. ProductShape'
        BY ReadTables DEF IInv, ProductShape, Chain
    <2>. QED BY <2>1, <2>2, <2>3, <2>4
<1>3. \A t \in Transactions, c \in Candidates : c \in tx[t].held =>
        candidate'[c] = candidate[c] /\ review'[c] = review[c]
    BY DEF Unlocked, HoldsCandidate
<1>4. Promotions'
    <2> SUFFICES ASSUME NEW t \in Promoters PROVE PromotionOf(t)'
        BY DEF Promotions
    <2>1. PromotionOf(t) /\ t \in Transactions
        BY Disjoint DEF IInv, Promotions
    <2>2. Left(t)' = Left(t) /\ (Ascending(tx[t].todo)' <=> Ascending(tx[t].todo))
        BY DEF Left, Elements, Ascending
    <2>3. \A c \in Candidates : c \in Left(t) \/ tx[t].decided[c] # None => c \in tx[t].held
        BY <2>1 DEF PromotionOf
    <2>4. ASSUME NEW c \in Candidates, tx[t].decided[c] = "superseded", StaleFor(t, c)
          PROVE  StaleFor(t, c)'
        <3>1. PICK d \in Candidates : /\ c < d
                                      /\ tx[t].decided[d] = "approved"
                                      /\ candidate[d].source = candidate[c].source
            BY <2>4 DEF StaleFor
        <3>2. candidate'[c] = candidate[c] /\ review'[c] = review[c] /\ candidate'[d] = candidate[d]
            BY <1>3, <2>1, <2>3, <2>4, <3>1, NoneAssumption
        <3>. QED BY <2>4, <3>1, <3>2 DEF StaleFor
    <2>5. ASSUME NEW c \in Candidates
          PROVE  /\ c \in tx'[t].held <=> c \in Left(t)' \/ tx'[t].decided[c] # None
                 /\ c \in Left(t)' => candidate'[c].state = "auto_validated" /\ tx'[t].decided[c] = None
                 /\ tx'[t].decided[c] # None => candidate'[c].state \in {"auto_validated", "in_review"}
                 /\ tx'[t].decided[c] = "approved" => candidate'[c].state = "auto_validated"
                 /\ tx'[t].decided[c] = "superseded" => StaleFor(t, c)'
        <3>1. c \in tx[t].held => candidate'[c] = candidate[c]
            BY <1>3, <2>1
        <3>2. c \in Left(t)' <=> c \in Left(t)
            BY <2>2
        <3>3. tx'[t].decided[c] = "approved" => tx[t].decided[c] # None
            BY NoneAssumption
        <3>4. tx'[t].decided[c] = "superseded" => StaleFor(t, c)'
            BY <2>1, <2>4 DEF PromotionOf
        <3>. QED BY <2>1, <3>1, <3>2, <3>3, <3>4 DEF PromotionOf
    <2>6. /\ Ascending(tx'[t].todo)
          /\ tx'[t].pc = "supersede" => tx'[t].decided[Head(tx'[t].todo)] = "approved"
        BY <2>1 DEF PromotionOf
    <2>. QED BY <2>5, <2>6 DEF PromotionOf, Ascending
<1>5. RetractionsHold'
    <2> SUFFICES ASSUME NEW t \in Retractions PROVE RetractionOf(t)'
        BY DEF RetractionsHold
    <2>1. RetractionOf(t) /\ t \in Transactions
        BY Disjoint DEF IInv, RetractionsHold
    <2>2. /\ Elements(tx[t].todo)' = Elements(tx[t].todo)
          /\ Ascending(tx[t].todo)' <=> Ascending(tx[t].todo)
          /\ (NoTx.decided)' = NoTx.decided
        BY DEF Elements, Ascending, NoTx
    <2>3. \A c \in tx[t].held \cup Elements(tx[t].todo) : c \in Candidates
        <3>1. tx[t].held \subseteq Candidates /\ tx[t].todo \in Seq(Candidates)
            BY <2>1, TxOf DEF IInv
        <3>. QED BY <3>1 DEF Elements
    <2>. QED BY <2>1, <2>2, <2>3 DEF RetractionOf
<1>6. VersionedIsDecided'
    BY ReadTables DEF IInv, VersionedIsDecided, Former
<1>7. RowShapes'
    <2> SUFFICES ASSUME NEW t \in Transactions PROVE RowShapeOf(t)'
        BY DEF RowShapes
    <2>1. RowShapeOf(t)
        BY DEF IInv, RowShapes
    <2>. QED BY <2>1, RowShapeCarries
<1>8. Reads'
    <2> SUFFICES ASSUME NEW x \in Retractions PROVE ReadOf(x)'
        BY DEF Reads
    <2>1. ReadOf(x)
        BY DEF IInv, Reads
    <2>. QED BY <2>1, ReadCarries DEF ReadOf, HoldsProduct
<1>9. \A c \in Candidates : Missed(c)' <=> Missed(c)
    BY DEF Missed, MissedBy, Retracted
<1>10. RowStatuses'
    <2> SUFFICES ASSUME NEW t \in Transactions PROVE RowStatusOf(t)'
        BY DEF RowStatuses
    <2>1. RowStatusOf(t)
        BY DEF IInv, RowStatuses
    <2>2. \A k \in Candidates : CurrentOf(tx[t].rows[k])' = CurrentOf(tx[t].rows[k])
        BY DEF CurrentOf
    <2>3. ASSUME NEW k \in Candidates, HoldsProduct(t, k), NEW c \in Candidates,
                 c = CurrentOf(tx[t].rows[k]), StateIn(t, c) = "approved"
          PROVE  StateIn(t, c)' = "approved"
        <3>1. c \in VersionsOf(tx[t].rows[k])
            BY <2>3, RowIn, CurrentIsVersion DEF IInv, RowShapes, RowShapeOf
        <3>2. HasVersion(c) \/ tx[t].decided[c] = "approved"
            BY <2>3, <3>1 DEF IInv, RowShapes, RowShapeOf, HasVersion
        <3>. QED BY <2>3, <3>2, NoneAssumption DEF StateIn
    <2>. QED BY <1>9, <2>1, <2>2, <2>3, ReadTables DEF RowStatusOf, HoldsProduct
<1>11. ServedIsApproved'
    <2> SUFFICES ASSUME NEW k \in Candidates, product[k].status = "active"
                 PROVE  LET c == product[k].versions[product[k].current].candidate
                        IN  \/ candidate'[c].state = "approved"
                            \/ \E x \in Retractions : Retracted(x, c)' /\ tx[x].read[c].product = None
        BY DEF ServedIsApproved
    <2>1. CurrentOf(product[k]) \in Versions(k) /\ CurrentOf(product[k]) \in Candidates
        BY RowIn, CurrentIsVersion DEF IInv, ProductShape, Versions, VersionsOf, TypeOK
    <2>2. HasVersion(CurrentOf(product[k]))
        BY <2>1 DEF HasVersion
    <2>. QED BY <2>1, <2>2 DEF IInv, ServedIsApproved, CurrentOf, Retracted
<1>12. WithdrawnByRetraction'
    BY ReadTables DEF IInv, WithdrawnByRetraction, Retracted
<1>. QED BY <1>1, <1>2, <1>4, <1>5, <1>6, <1>7, <1>8, <1>10, <1>11, <1>12 DEF IInv

\* A run that is not open moves on; its candidates change before the promotion only.
LEMMA RunMoves ==
    ASSUME IInv, UNCHANGED tx, NEW r \in Runs, NEW next, run' = [run EXCEPT ![r] = next],
           \/ /\ run[r] \in {"new", "draft", "validated"}
              /\ next \in {"draft", "validated", "summarized"}
           \/ run[r] = "promoted" /\ next = "finished",
           \A c \in Candidates \ Of(r) : candidate'[c].state = "auto_validated"
                => candidate[c].state = "auto_validated",
           \A c \in Of(r) : run[r] = "promoted" => candidate'[c] = candidate[c]
    PROVE  RunPhases' /\ AcceptedIsTaken'
<1>1. /\ \A q \in Runs : run'[q] = IF q = r THEN next ELSE run[q]
    BY DEF IInv, TypeOK
<1>2. RunPhases'
    BY <1>1 DEF IInv, RunPhases, Busy
<1>3. AcceptedIsTaken'
    <2> SUFFICES ASSUME NEW c \in Candidates \ Former,
                        run'[RunOf[c]] \in {"promoting", "promoted", "finished"},
                        candidate'[c].state = "auto_validated"
                 PROVE  HoldsCandidate(RunOf[c], c) \/ TakenElsewhere(c)
        BY DEF AcceptedIsTaken, Former, HoldsCandidate, TakenElsewhere
    <2>1. RunOf[c] \in Runs
        BY RunsAssumption DEF Former
    <2>. QED BY <1>1, <2>1 DEF IInv, AcceptedIsTaken, Of
<1>. QED BY <1>2, <1>3

LEMMA NormalizeKeeps ==
    ASSUME IInv, NEW r \in Runs, Normalize(r)
    PROVE  IInv'
<1>1. PICK name \in [Of(r) -> Names], source \in [Of(r) -> Sources] :
        candidate' = [c \in Candidates |->
            IF c \in Of(r)
            THEN [state |-> "draft", name |-> name[c], source |-> source[c]]
            ELSE candidate[c]]
    BY DEF Normalize
<1>2. Of(r) \in SUBSET Candidates /\ \A c \in Of(r) : c \notin Former /\ RunOf[c] = r
    BY RunsAssumption DEF Of, Former
<1>3. candidate' \in [Candidates -> Candidate]
    <2>1. \A c \in Of(r) :
            [state |-> "draft", name |-> name[c], source |-> source[c]] \in Candidate
        BY DEF Candidate
    <2>. QED BY <1>1, <2>1 DEF IInv, TypeOK
<1>4. /\ UNCHANGED <<product, tx, review>> /\ run[r] = "new" /\ run' = [run EXCEPT ![r] = "draft"]
      /\ run' \in [Runs -> {"new", "draft", "validated", "summarized", "promoting",
                            "promoted", "finished", "failed"}]
      /\ \A q \in Runs : run'[q] = IF q = r THEN "draft" ELSE run[q]
    BY DEF Normalize, IInv, TypeOK
<1>5. \A c \in Of(r) : candidate[c].state = "none" /\ ~HasVersion(c)
    BY <1>2, <1>4 DEF IInv, KnownCandidates, VersionedIsDecided
<1>6. Unlocked(Of(r))
    <2> SUFFICES ASSUME NEW c \in Of(r), NEW t \in Transactions, c \in tx[t].held PROVE FALSE
        BY DEF Unlocked, HoldsCandidate
    <2>1. CASE t \in Promoters
        BY <1>2, <1>5, <2>1 DEF IInv, Promotions, PromotionOf
    <2>2. CASE t \in Retractions
        BY <1>2, <1>5, <2>2 DEF IInv, RetractionsHold, RetractionOf
    <2>. QED BY <2>1, <2>2, Disjoint
<1>7. /\ \A c \in Of(r) : candidate'[c].state = "draft"
      /\ \A c \in Candidates \ Of(r) : candidate'[c] = candidate[c]
    BY <1>1, <1>2
<1>8. KnownCandidates'
    <2>1. \A c \in Candidates : c \notin Former => RunOf[c] \in Runs
        BY RunsAssumption DEF Former
    <2>. QED BY <1>2, <1>4, <1>7, <2>1 DEF IInv, KnownCandidates, Former, Of
<1>9. RunPhases' /\ AcceptedIsTaken'
    <2>1. run' = [run EXCEPT ![r] = "draft"] /\ run[r] \in {"new", "draft", "validated"}
        BY <1>4
    <2>2. \A c \in Candidates \ Of(r) : candidate'[c].state = "auto_validated"
                                        => candidate[c].state = "auto_validated"
        BY <1>7
    <2>3. \A c \in Of(r) : run[r] = "promoted" => candidate'[c] = candidate[c]
        BY <2>1
    <2>4. UNCHANGED tx
        BY <1>4
    <2>. QED BY <2>1, <2>2, <2>3, <2>4, RunMoves
<1>10. \A c \in Candidates : HasVersion(c) => c \in Former \/ run'[RunOf[c]] # "draft"
    <2>1. \A c \in Candidates : c \notin Former => RunOf[c] \in Runs
        BY RunsAssumption DEF Former
    <2>. QED BY <1>4, <1>5, <2>1 DEF IInv, VersionedIsDecided, Of
<1>. QED BY <1>2, <1>3, <1>4, <1>5, <1>6, <1>7, <1>8, <1>9, <1>10, StageKeeps DEF IInv, TypeOK

LEMMA ValidateKeeps ==
    ASSUME IInv, NEW r \in Runs, Validate(r)
    PROVE  IInv'
<1>1. PICK accepted \in SUBSET Of(r) :
        candidate' = [c \in Candidates |->
            IF c \in Of(r)
            THEN [candidate[c] EXCEPT
                      !.state = IF c \in accepted THEN "auto_validated" ELSE "rejected"]
            ELSE candidate[c]]
    BY DEF Validate
<1>2. Of(r) \in SUBSET Candidates /\ \A c \in Of(r) : c \notin Former /\ RunOf[c] = r
    BY RunsAssumption DEF Of, Former
<1>3. /\ candidate' \in [Candidates -> Candidate]
      /\ \A c \in Of(r) : candidate'[c].state \in {"auto_validated", "rejected"}
      /\ \A c \in Candidates \ Of(r) : candidate'[c] = candidate[c]
    <2>1. \A c \in Candidates, s \in {"auto_validated", "rejected"} :
            /\ [candidate[c] EXCEPT !.state = s] \in Candidate
            /\ [candidate[c] EXCEPT !.state = s].state = s
        <3>1. \A c \in Candidates : candidate[c] \in Candidate
            BY DEF IInv, TypeOK
        <3>. QED BY <3>1 DEF Candidate
    <2>. QED BY <1>1, <1>2, <2>1 DEF IInv, TypeOK
<1>4. /\ UNCHANGED <<product, tx, review>> /\ run[r] = "draft" /\ run' = [run EXCEPT ![r] = "validated"]
      /\ run' \in [Runs -> {"new", "draft", "validated", "summarized", "promoting",
                            "promoted", "finished", "failed"}]
      /\ \A q \in Runs : run'[q] = IF q = r THEN "validated" ELSE run[q]
      /\ Unlocked(Of(r))
    BY DEF Validate, IInv, TypeOK
<1>5. \A c \in Of(r) : ~HasVersion(c)
    BY <1>2, <1>4 DEF IInv, VersionedIsDecided
<1>6. \A c \in Candidates : c \notin Former => RunOf[c] \in Runs
    BY RunsAssumption DEF Former
<1>7. KnownCandidates'
    BY <1>2, <1>3, <1>4, <1>6 DEF IInv, KnownCandidates, Former, Of
<1>8. RunPhases' /\ AcceptedIsTaken'
    BY <1>3, <1>4, RunMoves
<1>9. \A c \in Candidates : HasVersion(c) => c \in Former \/ run'[RunOf[c]] # "draft"
    BY <1>4, <1>6 DEF IInv, VersionedIsDecided
<1>. QED BY <1>2, <1>3, <1>4, <1>5, <1>7, <1>8, <1>9, StageKeeps DEF IInv, TypeOK

\* Only reviews that are open are superseded.
LEMMA SupersededKeeps ==
    ASSUME IInv, NEW r \in Runs, NEW stale \in SUBSET Candidates, Superseded(stale),
           \A c \in stale : AwaitsReview(c), UNCHANGED <<product, tx>>,
           \/ run[r] = "validated" /\ run' = [run EXCEPT ![r] = "summarized"]
           \/ run[r] = "promoted" /\ run' = [run EXCEPT ![r] = "finished"]
    PROVE  IInv'
<1>1. /\ candidate' \in [Candidates -> Candidate]
      /\ \A c \in stale : candidate'[c].state = "superseded"
      /\ \A c \in Candidates \ stale : candidate'[c] = candidate[c] /\ review'[c] = review[c]
      /\ review' \in [Candidates -> Open \cup {"none", "rejected"}]
    <2>1. \A c \in Candidates :
            /\ [candidate[c] EXCEPT !.state = "superseded"] \in Candidate
            /\ [candidate[c] EXCEPT !.state = "superseded"].state = "superseded"
        <3>1. \A c \in Candidates : candidate[c] \in Candidate
            BY DEF IInv, TypeOK
        <3>. QED BY <3>1 DEF Candidate
    <2>. QED BY <2>1 DEF Superseded, IInv, TypeOK
<1>2. \A c \in stale : c \in Former /\ ~HasVersion(c)
    BY DEF AwaitsReview, IInv, KnownCandidates, VersionedIsDecided
<1>3. \A c \in Candidates : c \notin Former => RunOf[c] \in Runs
    BY RunsAssumption DEF Former
<1>4. /\ \A q \in Runs : \/ run'[q] = run[q]
                         \/ run[q] = "validated" /\ run'[q] = "summarized"
                         \/ run[q] = "promoted" /\ run'[q] = "finished"
      /\ run' \in [Runs -> {"new", "draft", "validated", "summarized", "promoting",
                            "promoted", "finished", "failed"}]
    BY DEF IInv, TypeOK
<1>5. KnownCandidates'
    BY <1>1, <1>2, <1>3, <1>4 DEF IInv, KnownCandidates, Former
<1>6. \A c \in Of(r) : c \notin stale
    BY <1>2, RunsAssumption DEF Of, Former
<1>7. RunPhases' /\ AcceptedIsTaken'
    <2>1. \A c \in Of(r) : candidate'[c] = candidate[c]
        BY <1>1, <1>6 DEF Of
    <2>2. \A c \in Candidates \ Of(r) : candidate'[c].state = "auto_validated"
                => candidate[c].state = "auto_validated"
        BY <1>1
    <2>. QED BY <2>1, <2>2, RunMoves
<1>8. \A c \in Candidates : HasVersion(c) => c \in Former \/ run'[RunOf[c]] # "draft"
    BY <1>3, <1>4 DEF IInv, VersionedIsDecided
<1>. QED BY <1>1, <1>2, <1>4, <1>5, <1>7, <1>8, StageKeeps DEF Superseded

LEMMA StagesKeep ==
    ASSUME IInv, NEW r \in Runs, Stage(r)
    PROVE  IInv'
<1>1. CASE SupersedeLogical(r)
    BY <1>1, SupersededKeeps DEF SupersedeLogical
<1>2. CASE SupersedeCovered(r)
    <2>1. Of(r) \subseteq Candidates
        BY DEF Of
    <2>. QED BY <1>2, <2>1, SupersededKeeps DEF SupersedeCovered
<1>. QED BY <1>1, <1>2, NormalizeKeeps, ValidateKeeps DEF Stage

-----------------------------------------------------------------------------
(* The end of a transaction *)

LEMMA RollBackKeeps ==
    ASSUME IInv, NEW t \in Transactions, tx[t].pc \in Busy \cup Locking, RollBack(t)
    PROVE  IInv'
<1>1. /\ Moves(t, "aborted", {}, <<>>, NoTx.rows, NoTx.decided)
      /\ tx'[t].read = NoTx.read
    BY EndMoves DEF RollBack, IInv
<1>2. Quiet(t)
    BY <1>1 DEF Quiet, Moves, RollBack
<1>3. /\ run' \in [Runs -> {"new", "draft", "validated", "summarized", "promoting",
                            "promoted", "finished", "failed"}]
      /\ \A r \in Runs : run'[r] = IF r = t THEN "failed" ELSE run[r]
      /\ t \in Runs => run[t] = "promoting"
    <2>1. t \in Runs => tx[t].pc \in Busy
        BY Disjoint DEF IInv, Phases, PhaseOf, Busy, Locking
    <2>. QED BY <2>1 DEF RollBack, IInv, TypeOK, RunPhases
<1>4. /\ TypeOK' /\ KnownCandidates' /\ VersionedIsDecided' /\ ProductShape' /\ OneProduct'
      /\ \A c \in Candidates : Missed(c) => Missed(c)'
      /\ ServedIsApproved' /\ WithdrawnByRetraction'
    BY <1>2, <1>3, TablesStay
<1>5. \A u \in Transactions \ {t} :
        /\ PhaseOf(u)' /\ RowShapeOf(u)' /\ OneRowOf(u)' /\ RowStatusOf(u)'
        /\ u \in Promoters => PromotionOf(u)' /\ BaseOf(u)'
        /\ u \in Retractions => RetractionOf(u)'
    BY <1>2, <1>4, OthersStay
<1>6. /\ tx'[t].pc = "aborted" /\ tx'[t].held = {} /\ tx'[t].todo = <<>>
      /\ tx'[t].rows = NoTx.rows /\ tx'[t].decided = NoTx.decided
      /\ \A k \in Candidates : tx'[t].rows[k] = None
      /\ \A c \in Candidates : tx'[t].decided[c] = None /\ tx'[t].read[c].product = None
    BY <1>1, NoTxType DEF Moves
<1>7. PhaseOf(t)'
    BY <1>6 DEF PhaseOf, NoTx, Busy, Locking
<1>8. RowShapeOf(t)' /\ OneRowOf(t)' /\ RowStatusOf(t)'
    BY <1>6 DEF RowShapeOf, OneRowOf, RowStatusOf, HoldsProduct
<1>9. PromotionOf(t)' /\ BaseOf(t)' /\ RetractionOf(t)'
    <2>1. Left(t)' = {} /\ Ascending(tx[t].todo)' /\ Elements(tx[t].todo)' = {}
        BY <1>6 DEF Left, Elements, Ascending
    <2>2. PromotionOf(t)'
        BY <1>6, <2>1, NoneAssumption DEF PromotionOf
    <2>3. BaseOf(t)'
        BY <1>6 DEF BaseOf
    <2>4. RetractionOf(t)'
        BY <1>6, <2>1 DEF RetractionOf
    <2>. QED BY <2>2, <2>3, <2>4
<1>10. /\ Phases' /\ RowShapes' /\ OneRow' /\ RowStatuses'
       /\ Promotions' /\ Bases' /\ RetractionsHold'
    BY <1>5, <1>7, <1>8, <1>9, Disjoint
       DEF Phases, RowShapes, OneRow, RowStatuses, Promotions, Bases, RetractionsHold
<1>11. HeldByOne' /\ WrittenByOne'
    BY <1>2, <1>6 DEF IInv, HeldByOne, WrittenByOne, Quiet
<1>12. Reads'
    <2> SUFFICES ASSUME NEW x \in Retractions PROVE ReadOf(x)'
        BY DEF Reads
    <2>1. CASE x = t
        <3>1. \A c, k \in Candidates : tx'[x].read[c].product # k
            BY <1>6, <2>1, CandidatesAssumption
        <3>. QED BY <3>1 DEF ReadOf
    <2>2. CASE x # t
        <3>1. tx'[x] = tx[x] /\ ReadOf(x)
            BY <1>2, <2>2, Disjoint DEF IInv, Reads, Quiet
        <3>2. \A u \in Transactions, k \in Candidates : tx'[u].rows[k] # None =>
                tx'[u].rows[k] = tx[u].rows[k]
            BY <1>2, <1>6 DEF Quiet
        <3>. QED BY <1>2, <3>1, <3>2, ReadCarries DEF ReadOf, HoldsProduct, Quiet
    <2>. QED BY <2>1, <2>2
<1>13. RunPhases'
    BY <1>2, <1>3, <1>6, Disjoint DEF IInv, RunPhases, Quiet, Busy
<1>14. AcceptedIsTaken'
    <2> SUFFICES ASSUME NEW c \in Candidates \ Former,
                        run'[RunOf[c]] \in {"promoting", "promoted", "finished"},
                        candidate[c].state = "auto_validated"
                 PROVE  HoldsCandidate(RunOf[c], c)' \/ TakenElsewhere(c)'
        BY <1>2 DEF AcceptedIsTaken, Former, Quiet
    <2>1. RunOf[c] \in Runs /\ RunOf[c] \in Transactions
        BY RunsAssumption, Disjoint DEF Former
    <2>2. RunOf[c] # t /\ run'[RunOf[c]] = run[RunOf[c]]
        BY <1>3, <2>1
    <2>3. HoldsCandidate(RunOf[c], c) \/ TakenElsewhere(c)
        BY <2>2 DEF IInv, AcceptedIsTaken
    <2>4. HoldsCandidate(RunOf[c], c) => HoldsCandidate(RunOf[c], c)'
        BY <1>2, <2>1, <2>2 DEF HoldsCandidate, Quiet
    <2>5. ASSUME NEW u \in Transactions \ {RunOf[c]},
                 HoldsCandidate(u, c) \/ tx[u].pc = "aborted"
          PROVE  HoldsCandidate(u, c)' \/ tx'[u].pc = "aborted"
        BY <1>2, <1>6, <2>5 DEF HoldsCandidate, Quiet
    <2>. QED BY <2>3, <2>4, <2>5 DEF TakenElsewhere
<1>. QED BY <1>4, <1>10, <1>11, <1>12, <1>13, <1>14 DEF IInv

LEMMA AbortsKeep ==
    ASSUME IInv, NEW t \in Transactions, UniqueViolation(t) \/ DeadlockVictim(t)
    PROVE  IInv'
<1>1. RollBack(t)
    BY DEF UniqueViolation, DeadlockVictim
<1>2. tx[t].pc \in Busy \cup Locking
    <2>1. CASE UniqueViolation(t)
        BY <2>1 DEF UniqueViolation, Busy
    <2>2. CASE DeadlockVictim(t)
        <3>1. PICK ts \in SUBSET Transactions : t \in ts /\ Cyclic(ts)
            BY <2>2 DEF DeadlockVictim
        <3>2. WaitsFor(t) # {}
            BY <3>1 DEF Cyclic
        <3>3. tx[t].pc \in {"lock", "supersede", "write", "retract"}
            BY <3>2 DEF WaitsFor
        <3>. QED BY <3>3 DEF Busy, Locking
    <2>. QED BY <2>1, <2>2
<1>. QED BY <1>1, <1>2, RollBackKeeps

\* What a commit writes.
Committing(t) ==
    /\ TypeOK'
    /\ \A u \in Transactions \ {t} : tx'[u] = tx[u]
    /\ tx'[t].pc = "done" /\ tx'[t].held = {} /\ tx'[t].todo = <<>>
    /\ \A k \in Candidates : tx'[t].rows[k] = None
    /\ t \in Promoters => /\ tx'[t].decided = NoTx.decided
                          /\ \A c \in Candidates : tx'[t].read[c].product = None
    /\ t \in Retractions => tx'[t].decided = tx[t].decided /\ tx'[t].read = tx[t].read
    /\ \A c \in Candidates : /\ candidate'[c].state = StateIn(t, c)
                             /\ candidate'[c].source = candidate[c].source
                             /\ candidate'[c].name = candidate[c].name
    /\ \A c \in Candidates : tx[t].decided[c] = None => candidate'[c] = candidate[c] /\ review'[c] = review[c]
    /\ \A c \in Candidates : review[c] \notin Open => review'[c] = review[c]
    /\ \A c \in Candidates : c \in tx[t].held <=> tx[t].decided[c] # None
    /\ \A k \in Candidates : product'[k] = ProductIn(t, k)
    /\ \A r \in Runs : run'[r] = IF r = t THEN "promoted" ELSE run[r]
    /\ t \in Runs => run[t] = "promoting"

LEMMA CommitWrites ==
    ASSUME IInv, NEW t \in Transactions, Commit(t)
    PROVE  Committing(t) /\ tx'[t].rows = NoTx.rows
<1>1. /\ TypeOK /\ tx[t].todo = <<>> /\ tx[t].pc \in {"next", "retract"}
      /\ candidate' = [c \in Candidates |-> [candidate[c] EXCEPT !.state = StateIn(t, c)]]
      /\ review' = [c \in Candidates |->
             IF review[c] \in Open /\ ClosesReview(t, c) THEN "rejected" ELSE review[c]]
      /\ product' = [k \in Candidates |-> ProductIn(t, k)]
      /\ run' = IF t \in Runs THEN [run EXCEPT ![t] = "promoted"] ELSE run
      /\ tx' = [tx EXCEPT ![t] = Ended(t, "done")]
    BY DEF Commit, IInv
<1>2. LET kept == t \in Retractions
      IN  /\ Moves(t, "done", {}, <<>>, NoTx.rows, IF kept THEN tx[t].decided ELSE NoTx.decided)
          /\ tx'[t].read = IF kept THEN tx[t].read ELSE NoTx.read
    BY <1>1, EndMoves
<1>3. /\ tx' \in [Transactions -> Tx]
      /\ \A u \in Transactions \ {t} : tx'[u] = tx[u]
      /\ tx'[t].pc = "done" /\ tx'[t].held = {} /\ tx'[t].todo = <<>> /\ tx'[t].rows = NoTx.rows
    BY <1>2 DEF Moves
<1>4. \A k \in Candidates : tx'[t].rows[k] = None
    BY <1>3, NoTxType
<1>5. /\ t \in Promoters => /\ tx'[t].decided = NoTx.decided
                            /\ \A c \in Candidates : tx'[t].read[c].product = None
      /\ t \in Retractions => tx'[t].decided = tx[t].decided /\ tx'[t].read = tx[t].read
    BY <1>2, Disjoint, NoTxType DEF Moves
<1>6. ASSUME NEW c \in Candidates
      PROVE  /\ candidate'[c] \in Candidate
             /\ candidate'[c].state = StateIn(t, c)
             /\ candidate'[c].source = candidate[c].source
             /\ candidate'[c].name = candidate[c].name
             /\ tx[t].decided[c] = None => candidate'[c] = candidate[c]
    <2>1. candidate[c] \in Candidate
        BY <1>1 DEF TypeOK
    <2>2. StateIn(t, c) \in {"none", "draft", "auto_validated", "in_review", "approved",
                             "rejected", "superseded"}
        <3>1. candidate[c].state \in {"none", "draft", "auto_validated", "in_review", "approved",
                                      "rejected", "superseded"}
            BY <2>1 DEF Candidate
        <3>2. tx[t].decided[c] \in {"approved", "rejected", "superseded", None}
            BY <1>1, TxOf
        <3>. QED BY <3>1, <3>2 DEF StateIn
    <2>3. tx[t].decided[c] = None => StateIn(t, c) = candidate[c].state
        BY DEF StateIn
    <2>4. candidate'[c] = [candidate[c] EXCEPT !.state = StateIn(t, c)]
        BY <1>1
    <2> HIDE DEF StateIn
    <2>. QED BY <2>1, <2>2, <2>3, <2>4 DEF Candidate
<1>7. candidate' \in [Candidates -> Candidate]
    BY <1>1, <1>6
<1>8. review' \in [Candidates -> Open \cup {"none", "rejected"}]
    BY <1>1 DEF TypeOK
<1>9. \A c \in Candidates : tx[t].decided[c] = None \/ review[c] \notin Open => review'[c] = review[c]
    BY <1>1, NoneAssumption DEF ClosesReview
<1>10. product' \in [Candidates -> Product] /\ \A k \in Candidates : product'[k] = ProductIn(t, k)
    BY <1>1, RowIn
<1>11. t \in Runs => run[t] = "promoting"
    BY <1>1, Disjoint DEF IInv, RunPhases, Phases, PhaseOf, Busy, Locking
<1>12. /\ run' \in [Runs -> {"new", "draft", "validated", "summarized", "promoting",
                             "promoted", "finished", "failed"}]
       /\ \A r \in Runs : run'[r] = IF r = t THEN "promoted" ELSE run[r]
    BY <1>1 DEF TypeOK
<1>13. \A c \in Candidates : c \in tx[t].held <=> tx[t].decided[c] # None
    <2>1. Elements(tx[t].todo) = {}
        BY <1>1 DEF Elements
    <2>2. CASE t \in Promoters
        <3>1. tx[t].pc = "next"
            BY <1>1, <2>2 DEF IInv, Phases, PhaseOf, Busy
        <3>2. Left(t) = {}
            BY <2>1, <3>1 DEF Left
        <3>. QED BY <2>2, <3>2 DEF IInv, Promotions, PromotionOf
    <2>3. CASE t \in Retractions
        <3>1. tx[t].pc = "retract"
            BY <1>1, <2>3, Disjoint DEF IInv, Phases, PhaseOf, Locking
        <3>. QED BY <2>1, <2>3, <3>1 DEF IInv, RetractionsHold, RetractionOf
    <2>. QED BY <2>2, <2>3, Disjoint
<1>14. TypeOK'
    BY <1>3, <1>7, <1>8, <1>10, <1>12 DEF TypeOK
<1>. QED BY <1>3, <1>4, <1>5, <1>6, <1>9, <1>10, <1>11, <1>12, <1>13, <1>14 DEF Committing

\* What a candidate decided by a promotion was before.
LEMMA DecidedBefore ==
    ASSUME IInv, NEW t \in Transactions, NEW c \in Candidates, tx[t].decided[c] # None
    PROVE  /\ t \in Promoters =>
                /\ c \in tx[t].held
                /\ candidate[c].state \in {"auto_validated", "in_review"}
                /\ ~HasVersion(c)
                /\ tx[t].decided[c] = "approved" => candidate[c].state = "auto_validated"
           /\ t \in Retractions => tx[t].decided[c] = "rejected"
<1>1. ASSUME t \in Promoters
      PROVE  /\ c \in tx[t].held
             /\ candidate[c].state \in {"auto_validated", "in_review"}
             /\ tx[t].decided[c] = "approved" => candidate[c].state = "auto_validated"
    BY <1>1 DEF IInv, Promotions, PromotionOf
<1>2. t \in Promoters => ~HasVersion(c)
    BY <1>1 DEF IInv, VersionedIsDecided
<1>3. t \in Retractions => tx[t].decided[c] = "rejected"
    BY DEF IInv, RetractionsHold, RetractionOf
<1>. QED BY <1>1, <1>2, <1>3

LEMMA CommitVersions ==
    ASSUME IInv, NEW t \in Transactions, Committing(t)
    PROVE  /\ \A k, c \in Candidates : c \in Versions(k) => c \in Versions(k)'
           /\ \A k, c \in Candidates : c \in Versions(k)' =>
                \/ c \in Versions(k)
                \/ /\ HoldsProduct(t, k) /\ c \in VersionsOf(tx[t].rows[k])
                   /\ ~HasVersion(c) /\ tx[t].decided[c] = "approved" /\ t \in Promoters
           /\ \A c \in Candidates : HasVersion(c) => HasVersion(c)'
           /\ \A c \in Candidates : HasVersion(c)' =>
                HasVersion(c) \/ (tx[t].decided[c] = "approved" /\ t \in Promoters)
           /\ \A k \in Candidates : ~HoldsProduct(t, k) =>
                product'[k] = product[k] /\ Versions(k)' = Versions(k)
           /\ \A k \in Candidates : HoldsProduct(t, k) => product'[k] = tx[t].rows[k]
<1>1. \A k \in Candidates : ~HoldsProduct(t, k) => product'[k] = product[k] /\ Versions(k)' = Versions(k)
    BY DEF Committing, ProductIn, Versions
<1>2. \A k \in Candidates : HoldsProduct(t, k) => /\ product'[k] = tx[t].rows[k]
                                                  /\ Versions(k)' = VersionsOf(tx[t].rows[k])
    BY DEF Committing, ProductIn, Versions, VersionsOf
<1>3. ASSUME NEW k \in Candidates, HoldsProduct(t, k), NEW c \in Candidates
      PROVE  /\ c \in Versions(k) => c \in VersionsOf(tx[t].rows[k])
             /\ c \in VersionsOf(tx[t].rows[k]) =>
                    \/ c \in Versions(k)
                    \/ ~HasVersion(c) /\ tx[t].decided[c] = "approved" /\ t \in Promoters
    <2>1. RowShapeOf(t)
        BY DEF IInv, RowShapes
    <2>2. tx[t].rows[k] \in Product /\ product[k] \in Product
        BY <1>3, RowIn DEF IInv
    <2>3. c \in Versions(k) => c \in VersionsOf(tx[t].rows[k])
        BY <1>3, <2>1, <2>2, ExtendsVersions DEF RowShapeOf, Versions, VersionsOf
    <2>4. tx[t].decided[c] = "approved" => t \in Promoters
        BY DecidedBefore, Disjoint, NoneAssumption
    <2>. QED BY <1>3, <2>1, <2>3, <2>4 DEF RowShapeOf
<1>4. \A k, c \in Candidates : c \in Versions(k) => c \in Versions(k)'
    BY <1>1, <1>2, <1>3
<1>5. \A k, c \in Candidates : c \in Versions(k)' =>
        \/ c \in Versions(k)
        \/ /\ HoldsProduct(t, k) /\ c \in VersionsOf(tx[t].rows[k])
           /\ ~HasVersion(c) /\ tx[t].decided[c] = "approved" /\ t \in Promoters
    BY <1>1, <1>2, <1>3
<1>6. \A c \in Candidates : HasVersion(c) => HasVersion(c)'
    BY <1>4 DEF HasVersion
<1>7. \A c \in Candidates : HasVersion(c)' =>
        HasVersion(c) \/ (tx[t].decided[c] = "approved" /\ t \in Promoters)
    <2> SUFFICES ASSUME NEW c \in Candidates, NEW k \in Candidates, c \in Versions(k)'
                 PROVE  HasVersion(c) \/ (tx[t].decided[c] = "approved" /\ t \in Promoters)
        BY DEF HasVersion
    <2>1. c \in Versions(k) => HasVersion(c)
        BY DEF HasVersion
    <2>. QED BY <1>5, <2>1
<1>. QED BY <1>1, <1>2, <1>4, <1>5, <1>6, <1>7

\* A candidate that a committing retraction names is the current version of no
\* product that another transaction, or nobody, keeps active.
LEMMA NamedIsNotServed ==
    ASSUME IInv, NEW t \in Retractions, NEW c \in Candidates, NEW k \in Candidates,
           c \in Versions(k), tx[t].decided[c] = "rejected", tx[t].pc # "done",
           ~HoldsProduct(t, k), tx[t].read[c].product # None
    PROVE  /\ NotServing(product[k], c)
           /\ \A u \in Transactions : HoldsProduct(u, k) => NotServing(tx[u].rows[k], c)
<1>1. tx[t].read[c].product \in Candidates
    <2>1. tx[t].read \in [Candidates -> Row]
        BY TxOf, Disjoint DEF IInv
    <2>. QED BY <2>1 DEF Row
<1>2. ReadOf(t)
    BY DEF IInv, Reads
<1>3. tx[t].read[c].product = k
    BY <1>1, <1>2 DEF ReadOf, IInv, OneProduct
<1>. QED BY <1>2, <1>3 DEF ReadOf

LEMMA CommitKeepsTransactions ==
    ASSUME IInv, NEW t \in Transactions, tx[t].pc \in {"next", "retract"}, Committing(t),
           tx'[t].rows = NoTx.rows
    PROVE  /\ Phases' /\ RunPhases' /\ HeldByOne' /\ WrittenByOne'
           /\ Promotions' /\ RetractionsHold'
           /\ AcceptedIsTaken'
<1>. USE DEF Committing
<1>1. \A u \in Transactions \ {t}, c \in Candidates : c \in tx[u].held =>
        tx[t].decided[c] = None /\ candidate'[c] = candidate[c] /\ review'[c] = review[c]
    BY DEF IInv, HeldByOne
<1>2. Phases'
    <2> SUFFICES ASSUME NEW u \in Transactions PROVE PhaseOf(u)'
        BY DEF Phases
    <2>1. CASE u = t
        BY <2>1, Disjoint DEF PhaseOf, NoTx, Busy, Locking
    <2>2. CASE u # t
        BY <2>2 DEF IInv, Phases, PhaseOf, NoTx
    <2>. QED BY <2>1, <2>2
<1>3. RunPhases'
    BY Disjoint DEF IInv, RunPhases, Busy
<1>4. HeldByOne' /\ WrittenByOne'
    BY DEF IInv, HeldByOne, WrittenByOne
<1>5. ASSUME NEW u \in Promoters PROVE PromotionOf(u)'
    <2>1. CASE u = t
        <3>1. Left(u)' = {} /\ Ascending(tx[u].todo)'
            BY <2>1 DEF Left, Elements, Ascending
        <3>2. \A c \in Candidates : tx'[u].decided[c] = None
            BY <2>1, NoTxType
        <3>. QED BY <2>1, <3>1, <3>2, NoneAssumption DEF PromotionOf
    <2>2. CASE u # t
        <3>1. tx'[u] = tx[u] /\ PromotionOf(u) /\ u \in Transactions
            BY <2>2, Disjoint DEF IInv, Promotions
        <3>2. Left(u)' = Left(u) /\ (Ascending(tx[u].todo)' <=> Ascending(tx[u].todo))
            BY <3>1 DEF Left, Elements, Ascending
        <3>3. \A c \in Candidates : c \in Left(u) \/ tx[u].decided[c] # None =>
                candidate'[c] = candidate[c] /\ review'[c] = review[c]
            BY <1>1, <2>2, <3>1 DEF PromotionOf
        <3>4. ASSUME NEW c \in Candidates, tx[u].decided[c] = "superseded"
              PROVE  StaleFor(u, c)'
            <4>1. StaleFor(u, c) /\ review'[c] = review[c]
                BY <3>1, <3>3, <3>4, NoneAssumption DEF PromotionOf
            <4>. QED BY <3>1, <4>1 DEF StaleFor
        <3>5. ASSUME NEW c \in Candidates
              PROVE  /\ c \in tx'[u].held <=> c \in Left(u)' \/ tx'[u].decided[c] # None
                     /\ c \in Left(u)' => candidate'[c].state = "auto_validated" /\ tx'[u].decided[c] = None
                     /\ tx'[u].decided[c] # None => candidate'[c].state \in {"auto_validated", "in_review"}
                     /\ tx'[u].decided[c] = "approved" => candidate'[c].state = "auto_validated"
                     /\ tx'[u].decided[c] = "superseded" => StaleFor(u, c)'
            <4>1. tx[u].decided[c] = "approved" => tx[u].decided[c] # None
                BY NoneAssumption
            <4>. QED BY <3>1, <3>2, <3>3, <3>4, <4>1 DEF PromotionOf
        <3>. QED BY <3>1, <3>2, <3>5 DEF PromotionOf
    <2>. QED BY <2>1, <2>2
<1>6. ASSUME NEW u \in Retractions PROVE RetractionOf(u)'
    <2>1. RetractionOf(u) /\ u \in Transactions
        BY Disjoint DEF IInv, RetractionsHold
    <2>2. CASE u = t
        <3>1. Ascending(tx[u].todo)' /\ Elements(tx[u].todo)' = {}
            BY <2>2 DEF Elements, Ascending
        <3>. QED BY <2>1, <2>2, <3>1 DEF RetractionOf
    <2>3. CASE u # t
        <3>1. tx'[u] = tx[u]
            BY <2>1, <2>3
        <3>2. /\ Elements(tx[u].todo)' = Elements(tx[u].todo)
              /\ Ascending(tx[u].todo)' <=> Ascending(tx[u].todo)
            BY <3>1 DEF Elements, Ascending
        <3>3. ASSUME NEW c \in Candidates, candidate[c].state # "none"
              PROVE  candidate'[c].state # "none"
            <4>1. tx[t].decided[c] \in {"approved", "rejected", "superseded", None}
                BY TxOf DEF IInv
            <4>. QED BY <3>3, <4>1 DEF StateIn
        <3>4. tx[u].held \cup Elements(tx[u].todo) \subseteq Candidates
            <4>1. tx[u].held \subseteq Candidates /\ tx[u].todo \in Seq(Candidates)
                BY <2>1, TxOf DEF IInv
            <4>. QED BY <4>1 DEF Elements
        <3>. QED BY <2>1, <3>1, <3>2, <3>3, <3>4 DEF RetractionOf, NoTx
    <2>. QED BY <2>2, <2>3
<1>7. AcceptedIsTaken'
    <2> SUFFICES ASSUME NEW c \in Candidates \ Former,
                        run'[RunOf[c]] \in {"promoting", "promoted", "finished"},
                        candidate'[c].state = "auto_validated"
                 PROVE  HoldsCandidate(RunOf[c], c)' \/ TakenElsewhere(c)'
        BY DEF AcceptedIsTaken, Former
    <2>1. RunOf[c] \in Runs /\ RunOf[c] \in Transactions
        BY RunsAssumption, Disjoint DEF Former
    <2>2. tx[t].decided[c] = None /\ candidate[c].state = "auto_validated"
        <3>1. tx[t].decided[c] \in {"approved", "rejected", "superseded", None}
            BY TxOf DEF IInv
        <3>. QED BY <3>1 DEF StateIn
    <2>3. HoldsCandidate(RunOf[c], c) \/ TakenElsewhere(c)
        BY <2>1, <2>2 DEF IInv, AcceptedIsTaken
    <2>4. c \notin tx[t].held
        BY <2>2
    <2>5. HoldsCandidate(RunOf[c], c) => HoldsCandidate(RunOf[c], c)'
        BY <2>1, <2>4 DEF HoldsCandidate
    <2>6. ASSUME NEW u \in Transactions \ {RunOf[c]},
                 HoldsCandidate(u, c) \/ tx[u].pc = "aborted"
          PROVE  u # t => HoldsCandidate(u, c)' \/ tx'[u].pc = "aborted"
        BY <2>6 DEF HoldsCandidate
    <2>7. ~HoldsCandidate(t, c) /\ tx[t].pc # "aborted"
        BY <2>4 DEF HoldsCandidate
    <2>. QED BY <2>3, <2>4, <2>5, <2>6, <2>7 DEF TakenElsewhere
<1>. QED BY <1>2, <1>3, <1>4, <1>5, <1>6, <1>7 DEF Promotions, RetractionsHold

LEMMA CommitKeepsTables ==
    ASSUME IInv, NEW t \in Transactions, tx[t].pc \in {"next", "retract"}, Committing(t),
           tx'[t].rows = NoTx.rows
    PROVE  /\ KnownCandidates' /\ VersionedIsDecided' /\ ProductShape' /\ OneProduct'
           /\ \A c \in Candidates : Missed(c) => Missed(c)'
           /\ ServedIsApproved' /\ WithdrawnByRetraction'
<1>. USE DEF Committing
<1>1. \A c \in Candidates : c \notin Former => RunOf[c] \in Runs
    BY RunsAssumption DEF Former
<1>2. \A c \in Candidates : tx[t].decided[c] \in {"approved", "rejected", "superseded", None}
    BY TxOf DEF IInv
<1>3. \A r \in Runs : (run'[r] = "new" <=> run[r] = "new") /\ (run'[r] = "draft" <=> run[r] = "draft")
    OBVIOUS
<1>4. KnownCandidates'
    <2> SUFFICES ASSUME NEW c \in Candidates
                 PROVE  /\ c \in Former => candidate'[c].state # "none"
                        /\ c \notin Former => /\ candidate'[c].state # "in_review"
                                              /\ review'[c] = "none"
                                              /\ candidate'[c].state = "none" <=> run'[RunOf[c]] = "new"
                        /\ candidate'[c].state = "auto_validated" =>
                                c \notin Former /\ run'[RunOf[c]] # "draft"
        BY DEF KnownCandidates, Former
    <2>1. /\ c \in Former => candidate[c].state # "none"
          /\ c \notin Former => /\ candidate[c].state # "in_review"
                                /\ review[c] = "none"
                                /\ candidate[c].state = "none" <=> run[RunOf[c]] = "new"
          /\ candidate[c].state = "auto_validated" => c \notin Former /\ run[RunOf[c]] # "draft"
        BY DEF IInv, KnownCandidates
    <2>2. CASE tx[t].decided[c] = None
        BY <1>1, <1>3, <2>1, <2>2
    <2>3. CASE tx[t].decided[c] # None
        <3>1. candidate'[c].state \in {"approved", "rejected", "superseded"}
            BY <1>2, <2>3 DEF StateIn
        <3>2. candidate[c].state # "none"
            <4>1. CASE t \in Promoters
                BY <2>3, <4>1, DecidedBefore
            <4>2. CASE t \in Retractions
                BY <2>3, <4>2 DEF IInv, RetractionsHold, RetractionOf
            <4>. QED BY <4>1, <4>2, Disjoint
        <3>3. c \notin Former => review'[c] = "none"
            BY <2>1 DEF Open
        <3>. QED BY <1>1, <1>3, <2>1, <3>1, <3>2, <3>3
    <2>. QED BY <2>2, <2>3
<1>5. VersionedIsDecided'
    <2> SUFFICES ASSUME NEW c \in Candidates, HasVersion(c)'
                 PROVE  /\ candidate'[c].state \in {"approved", "rejected"}
                        /\ c \in Former \/ run'[RunOf[c]] # "draft"
        BY DEF VersionedIsDecided, Former
    <2>1. CASE HasVersion(c)
        <3>1. candidate[c].state \in {"approved", "rejected"} /\ (c \in Former \/ run[RunOf[c]] # "draft")
            BY <2>1 DEF IInv, VersionedIsDecided
        <3>2. tx[t].decided[c] \in {None, "rejected"}
            BY <2>1, DecidedBefore, Disjoint
        <3>. QED BY <1>1, <1>3, <3>1, <3>2 DEF StateIn
    <2>2. CASE tx[t].decided[c] = "approved" /\ t \in Promoters
        <3>1. candidate[c].state = "auto_validated" /\ candidate'[c].state = "approved"
            BY <2>2, DecidedBefore, NoneAssumption DEF StateIn
        <3>. QED BY <1>1, <1>3, <3>1 DEF IInv, KnownCandidates
    <2>. QED BY <2>1, <2>2, CommitVersions
<1>6. ProductShape'
    <2> SUFFICES ASSUME NEW k \in Candidates
                 PROVE  /\ product'[k].status = "none" => product'[k].versions = <<>>
                        /\ product'[k].status # "none" => Chain(product'[k]) /\ k \in Versions(k)'
        BY DEF ProductShape, Chain
    <2>1. CASE HoldsProduct(t, k)
        <3>1. product'[k] = tx[t].rows[k] /\ Versions(k)' = VersionsOf(tx[t].rows[k])
            BY <2>1 DEF ProductIn, Versions, VersionsOf
        <3>. QED BY <2>1, <3>1 DEF IInv, RowShapes, RowShapeOf
    <2>2. CASE ~HoldsProduct(t, k)
        BY <2>2, CommitVersions DEF IInv, ProductShape
    <2>. QED BY <2>1, <2>2
<1>7. OneProduct'
    <2> SUFFICES ASSUME NEW k \in Candidates, NEW l \in Candidates, NEW c \in Candidates,
                        c \in Versions(k)', c \in Versions(l)'
                 PROVE  k = l
        <3>1. \A k \in Candidates : Versions(k)' \subseteq Candidates
            <4>1. \A k \in Candidates : product'[k] \in Product
                BY DEF TypeOK
            <4>2. \A k \in Candidates : VersionsOf(product'[k]) \subseteq Candidates
                BY <4>1, VersionsAreCandidates
            <4>. QED BY <4>2 DEF Versions, VersionsOf
        <3>. QED BY <3>1 DEF OneProduct
    <2>1. CASE HasVersion(c)
        BY <2>1, CommitVersions DEF IInv, OneProduct
    <2>2. CASE ~HasVersion(c)
        <3>1. c \notin Versions(k) /\ c \notin Versions(l)
            BY <2>2 DEF HasVersion
        <3>2. /\ HoldsProduct(t, k) /\ c \in VersionsOf(tx[t].rows[k])
              /\ HoldsProduct(t, l) /\ c \in VersionsOf(tx[t].rows[l])
            BY <3>1, CommitVersions
        <3>. QED BY <3>2 DEF IInv, OneRow, OneRowOf
    <2>. QED BY <2>1, <2>2
<1>8. ASSUME NEW x \in Retractions, NEW c \in Candidates, Retracted(x, c)
      PROVE  Retracted(x, c)' /\ tx'[x].read = tx[x].read
    BY <1>8, Disjoint DEF Retracted
<1>9. \A c \in Candidates : Missed(c) => Missed(c)'
    BY <1>8 DEF Missed, MissedBy
<1>10. ServedIsApproved'
    <2> SUFFICES ASSUME NEW k \in Candidates, product'[k].status = "active",
                        NEW c, c = CurrentOf(product'[k])
                 PROVE  candidate'[c].state = "approved" \/ Missed(c)'
        BY DEF ServedIsApproved, CurrentOf, Missed, MissedBy
    <2>1. CASE HoldsProduct(t, k)
        <3>1. product'[k] = tx[t].rows[k]
            BY <2>1, CommitVersions
        <3>2. PICK d \in Candidates : /\ d = CurrentOf(tx[t].rows[k])
                                      /\ StateIn(t, d) = "approved" \/ Missed(d)
            BY <2>1, <3>1 DEF IInv, RowStatuses, RowStatusOf
        <3>. QED BY <1>9, <3>1, <3>2
    <2>2. CASE ~HoldsProduct(t, k)
        <3>1. product'[k] = product[k] /\ product[k].status = "active"
            BY <2>2, CommitVersions
        <3>2. c \in Versions(k) /\ c \in Candidates /\ HasVersion(c)
            <4>1. product[k] \in Product /\ Chain(product[k])
                BY <3>1, RowIn DEF IInv, ProductShape
            <4>2. CurrentOf(product[k]) \in VersionsOf(product[k]) /\ CurrentOf(product[k]) \in Candidates
                BY <4>1, CurrentIsVersion
            <4>. QED BY <3>1, <4>2 DEF Versions, VersionsOf, HasVersion
        <3>3. candidate[c].state = "approved" \/ Missed(c)
            BY <3>1 DEF IInv, ServedIsApproved, CurrentOf, Missed, MissedBy
        <3>4. CASE tx[t].decided[c] = None \/ Missed(c)
            BY <1>9, <3>2, <3>3, <3>4
        <3>5. CASE tx[t].decided[c] # None
            <4>1. t \in Retractions /\ tx[t].decided[c] = "rejected"
                BY <3>2, <3>5, DecidedBefore, Disjoint
            <4>2. tx[t].read[c].product = None
                BY <2>2, <3>1, <3>2, <4>1, NamedIsNotServed DEF NotServing
            <4>3. MissedBy(t, c)'
                BY <4>1, <4>2 DEF MissedBy, Retracted
            <4>. QED BY <4>1, <4>3 DEF Missed
        <3>. QED BY <3>4, <3>5
    <2>. QED BY <2>1, <2>2
<1>11. WithdrawnByRetraction'
    <2> SUFFICES ASSUME NEW k \in Candidates, product'[k].status = "inactive"
                 PROVE  \E x \in Retractions, c \in Candidates :
                            Retracted(x, c)' /\ tx'[x].read[c].product = k /\ c \in Versions(k)'
        BY DEF WithdrawnByRetraction
    <2>1. CASE product[k].status = "inactive"
        <3>1. PICK x \in Retractions, c \in Candidates :
                Retracted(x, c) /\ tx[x].read[c].product = k /\ c \in Versions(k)
            BY <2>1 DEF IInv, WithdrawnByRetraction
        <3>. QED BY <1>8, <3>1, CommitVersions
    <2>2. CASE product[k].status # "inactive"
        <3>1. HoldsProduct(t, k) /\ tx[t].rows[k].status = "inactive"
            BY <2>2, CommitVersions
        <3>2. t \in Retractions
            BY <2>2, <3>1, Disjoint DEF IInv, RowStatuses, RowStatusOf
        <3>3. PICK c \in Candidates : tx[t].decided[c] = "rejected" /\ tx[t].read[c].product = k
            BY <3>1, <3>2 DEF IInv, RowStatuses, RowStatusOf
        <3>4. c \in Versions(k)
            BY <3>2, <3>3 DEF IInv, Reads, ReadOf
        <3>5. Retracted(t, c)' /\ tx'[t].read[c].product = k /\ c \in Versions(k)'
            BY <3>2, <3>3, <3>4, CommitVersions DEF Retracted
        <3>. QED BY <3>2, <3>5
    <2>. QED BY <2>1, <2>2
<1>. QED BY <1>4, <1>5, <1>6, <1>7, <1>9, <1>10, <1>11

LEMMA CommitKeepsRows ==
    ASSUME IInv, NEW t \in Transactions, tx[t].pc \in {"next", "retract"}, Committing(t),
           tx'[t].rows = NoTx.rows,
           \A c \in Candidates : Missed(c) => Missed(c)'
    PROVE  /\ RowShapes' /\ OneRow' /\ Bases' /\ Reads' /\ RowStatuses'
<1>. USE DEF Committing
<1>1. ASSUME NEW u \in Transactions, NEW k \in Candidates, tx'[u].rows[k] # None
      PROVE  /\ u # t /\ tx'[u] = tx[u] /\ HoldsProduct(u, k) /\ ~HoldsProduct(t, k)
             /\ product'[k] = product[k] /\ Versions(k)' = Versions(k)
    <2>1. u # t /\ tx'[u] = tx[u] /\ HoldsProduct(u, k)
        BY <1>1 DEF HoldsProduct
    <2>2. ~HoldsProduct(t, k)
        BY <2>1 DEF IInv, WrittenByOne, HoldsProduct
    <2>. QED BY <2>1, <2>2, CommitVersions
<1>2. RowShapes'
    <2> SUFFICES ASSUME NEW u \in Transactions, NEW k \in Candidates, tx'[u].rows[k] # None
                 PROVE  LET row == tx'[u].rows[k]
                        IN  /\ row.status # "none" /\ Chain(row) /\ k \in VersionsOf(row)
                            /\ Extends(row, product'[k])
                            /\ \A c \in VersionsOf(row) :
                                c \in Versions(k)' \/ (~HasVersion(c)' /\ tx'[u].decided[c] = "approved")
        BY DEF RowShapes, RowShapeOf, HoldsProduct, Chain, VersionsOf, Extends
    <2>1. LET row == tx[u].rows[k]
          IN  /\ row.status # "none" /\ Chain(row) /\ k \in VersionsOf(row)
              /\ Extends(row, product[k])
              /\ \A c \in VersionsOf(row) :
                    c \in Versions(k) \/ (~HasVersion(c) /\ tx[u].decided[c] = "approved")
        BY <1>1 DEF IInv, RowShapes, RowShapeOf
    <2>2. VersionsOf(tx[u].rows[k]) \subseteq Candidates
        BY <1>1, RowIn, VersionsAreCandidates DEF IInv
    <2>3. ASSUME NEW c \in Candidates, ~HasVersion(c), tx[u].decided[c] = "approved"
          PROVE  ~HasVersion(c)'
        <3>1. u \in Promoters /\ c \in tx[u].held
            BY <2>3, DecidedBefore, Disjoint, NoneAssumption
        <3>2. c \notin tx[t].held
            BY <1>1, <3>1 DEF IInv, HeldByOne
        <3>3. tx[t].decided[c] # "approved"
            BY <3>2, NoneAssumption
        <3>. QED BY <2>3, <3>3, CommitVersions
    <2>. QED BY <1>1, <2>1, <2>2, <2>3
<1>3. OneRow'
    <2> SUFFICES ASSUME NEW u \in Transactions, NEW k \in Candidates, NEW l \in Candidates,
                        tx'[u].rows[k] # None, tx'[u].rows[l] # None,
                        VersionsOf(tx'[u].rows[k]) \cap VersionsOf(tx'[u].rows[l]) # {}
                 PROVE  k = l
        BY ZenonT(40) DEF OneRow, OneRowOf, HoldsProduct, VersionsOf
    <2>. QED BY <1>1 DEF IInv, OneRow, OneRowOf
<1>4. Bases'
    <2> SUFFICES ASSUME NEW u \in Promoters, NEW k \in Candidates,
                        tx'[u].pc = "write", tx'[u].found = k
                 PROVE  Exists(u, k)' /\ tx'[u].base \in 1..Len(ProductIn(u, k).versions)'
        BY DEF Bases, BaseOf
    <2>1. u \in Transactions /\ u # t /\ tx'[u] = tx[u]
        BY Disjoint
    <2>2. Exists(u, k) /\ tx[u].base \in 1..Len(ProductIn(u, k).versions)
        BY <2>1 DEF IInv, Bases, BaseOf
    <2>3. CASE HoldsProduct(u, k)
        BY <2>1, <2>2, <2>3 DEF Exists, ProductIn, HoldsProduct
    <2>4. CASE ~HoldsProduct(u, k)
        <3>1. ProductIn(u, k) = product[k] /\ ProductIn(u, k)' = product'[k]
            BY <2>1, <2>4 DEF ProductIn, HoldsProduct
        <3>2. CASE HoldsProduct(t, k)
            <4>1. product'[k] = tx[t].rows[k] /\ tx[t].rows[k] \in Product /\ product[k] \in Product
                BY <3>2, CommitVersions, RowIn DEF IInv
            <4>2. tx[t].rows[k].status # "none" /\ Len(product[k].versions) <= Len(tx[t].rows[k].versions)
                BY <3>2 DEF IInv, RowShapes, RowShapeOf, Extends
            <4>3. Len(product[k].versions) \in Nat /\ Len(tx[t].rows[k].versions) \in Nat
                BY <4>1, RowFields
            <4>4. tx'[u].base \in 1..Len(product'[k].versions)
                <5>1. tx'[u].base = tx[u].base /\ tx[u].base \in 1..Len(product[k].versions)
                    BY <2>1, <2>2, <3>1
                <5>2. Len(product[k].versions) <= Len(product'[k].versions)
                    BY <4>1, <4>2
                <5>. QED BY SMTT(30), <4>1, <4>3, <5>1, <5>2
            <4>. QED BY <3>1, <4>1, <4>2, <4>4 DEF Exists
        <3>3. CASE ~HoldsProduct(t, k)
            <4>1. product'[k] = product[k]
                BY <3>3, CommitVersions
            <4>. QED BY <2>1, <2>2, <3>1, <4>1 DEF Exists
        <3>. QED BY <3>2, <3>3
    <2>. QED BY <2>3, <2>4
<1>5. Reads'
    <2> SUFFICES ASSUME NEW x \in Retractions, NEW c \in Candidates, NEW k \in Candidates,
                        tx'[x].read[c].product = k
                 PROVE  /\ c \in Versions(k)'
                        /\ ~tx'[x].read[c].active =>
                            /\ NotServing(product'[k], c)
                            /\ \A u \in Transactions : tx'[u].rows[k] # None =>
                                    NotServing(tx'[u].rows[k], c)
                        /\ tx'[x].read[c].active /\ tx'[x].decided[c] = "rejected" /\ tx'[x].pc # "done"
                            => tx'[x].rows[k] # None
        BY DEF Reads, ReadOf, HoldsProduct, NotServing, CurrentOf
    <2>1. tx'[x].read = tx[x].read /\ x \in Transactions
        BY Disjoint
    <2>2. /\ c \in Versions(k)
          /\ ~tx[x].read[c].active =>
                /\ NotServing(product[k], c)
                /\ \A u \in Transactions : HoldsProduct(u, k) => NotServing(tx[u].rows[k], c)
          /\ tx[x].read[c].active /\ tx[x].decided[c] = "rejected" /\ tx[x].pc # "done"
                => HoldsProduct(x, k)
        BY <2>1 DEF IInv, Reads, ReadOf
    <2>3. ~tx'[x].read[c].active => NotServing(product'[k], c)
        BY <2>1, <2>2, CommitVersions
    <2>4. ASSUME ~tx'[x].read[c].active, NEW u \in Transactions, tx'[u].rows[k] # None
          PROVE  NotServing(tx'[u].rows[k], c)
        BY <1>1, <2>1, <2>2, <2>4
    <2>5. tx'[x].pc # "done" => tx'[x] = tx[x]
        BY <2>1
    <2>. QED BY <2>1, <2>2, <2>3, <2>4, <2>5, CommitVersions DEF HoldsProduct
<1>6. RowStatuses'
    <2> SUFFICES ASSUME NEW u \in Transactions, NEW k \in Candidates, tx'[u].rows[k] # None
                 PROVE  /\ u \in Promoters /\ tx'[u].rows[k].status = "inactive"
                            => product'[k].status = "inactive"
                        /\ u \in Retractions =>
                            /\ tx'[u].rows[k].status = "inactive"
                            /\ \E c \in Candidates : tx'[u].decided[c] = "rejected"
                                                  /\ tx'[u].read[c].product = k
                        /\ tx'[u].rows[k].status = "active" /\ product'[k].status = "inactive"
                            => CurrentOf(tx'[u].rows[k]) \notin Versions(k)'
                        /\ tx'[u].rows[k].status = "active" =>
                            \E c \in Candidates : /\ c = CurrentOf(tx'[u].rows[k])
                                                  /\ StateIn(u, c)' = "approved" \/ Missed(c)'
        BY DEF RowStatuses, RowStatusOf, HoldsProduct, CurrentOf
    <2>1. /\ u # t /\ tx'[u] = tx[u] /\ HoldsProduct(u, k) /\ ~HoldsProduct(t, k)
          /\ product'[k] = product[k] /\ Versions(k)' = Versions(k)
        BY <1>1
    <2>2. RowStatusOf(u) /\ RowShapeOf(u)
        BY DEF IInv, RowStatuses, RowShapes
    <2>3. ASSUME tx[u].rows[k].status = "active"
          PROVE  \E c \in Candidates : /\ c = CurrentOf(tx[u].rows[k])
                                       /\ StateIn(u, c)' = "approved" \/ Missed(c)'
        <3>1. PICK c \in Candidates : /\ c = CurrentOf(tx[u].rows[k])
                                      /\ StateIn(u, c) = "approved" \/ Missed(c)
            BY <2>1, <2>2, <2>3 DEF RowStatusOf
        <3>2. CASE Missed(c) \/ tx[u].decided[c] # None \/ tx[t].decided[c] = None
            <4>1. StateIn(u, c) = "approved" /\ (tx[u].decided[c] # None \/ tx[t].decided[c] = None)
                    => StateIn(u, c)' = "approved"
                BY <2>1 DEF StateIn
            <4>. QED BY <3>1, <3>2, <4>1
        <3>3. CASE ~Missed(c) /\ tx[u].decided[c] = None /\ tx[t].decided[c] # None
            <4>1. candidate[c].state = "approved"
                BY <3>1, <3>3 DEF StateIn
            <4>2. t \in Retractions /\ tx[t].decided[c] = "rejected"
                BY <3>3, <4>1, DecidedBefore, Disjoint
            <4>3. c \in Versions(k)
                <5>1. tx[u].rows[k] \in Product /\ Chain(tx[u].rows[k])
                    BY <2>1, <2>2, RowIn DEF RowShapeOf, IInv
                <5>2. c \in VersionsOf(tx[u].rows[k])
                    BY <3>1, <5>1, CurrentIsVersion
                <5>. QED BY <2>1, <2>2, <3>3, <5>2, NoneAssumption DEF RowShapeOf
            <4>4. tx[t].read[c].product = None
                BY <2>1, <2>3, <3>1, <4>2, <4>3, NamedIsNotServed DEF NotServing
            <4>5. MissedBy(t, c)'
                BY <4>2, <4>4 DEF MissedBy, Retracted
            <4>. QED BY <3>1, <4>2, <4>5 DEF Missed
        <3>. QED BY <3>2, <3>3
    <2>. QED BY <2>1, <2>2, <2>3 DEF RowStatusOf
<1>. QED BY <1>2, <1>3, <1>4, <1>5, <1>6

LEMMA CommitKeeps ==
    ASSUME IInv, NEW t \in Transactions, Commit(t)
    PROVE  IInv'
<1>1. tx[t].pc \in {"next", "retract"}
    BY DEF Commit
<1>2. Committing(t) /\ tx'[t].rows = NoTx.rows
    BY CommitWrites
<1>3. /\ Phases' /\ RunPhases' /\ HeldByOne' /\ WrittenByOne' /\ Promotions' /\ RetractionsHold'
      /\ AcceptedIsTaken'
    BY <1>1, <1>2, CommitKeepsTransactions
<1>4. /\ KnownCandidates' /\ VersionedIsDecided' /\ ProductShape' /\ OneProduct'
      /\ \A c \in Candidates : Missed(c) => Missed(c)'
      /\ ServedIsApproved' /\ WithdrawnByRetraction'
    BY <1>1, <1>2, CommitKeepsTables
<1>5. RowShapes' /\ OneRow' /\ Bases' /\ Reads' /\ RowStatuses'
    BY <1>1, <1>2, <1>4, CommitKeepsRows
<1>6. TypeOK'
    BY <1>2 DEF Committing
<1>. QED BY <1>3, <1>4, <1>5, <1>6 DEF IInv
-----------------------------------------------------------------------------
(* The invariant holds *)

LEMMA Starts ==
    ASSUME Init
    PROVE  IInv
<1>1. PICK state \in [Former -> {"in_review", "approved"}], name \in [Former -> Names],
           source \in [Former -> Sources], open \in [Former -> Open] :
        /\ candidate = [c \in Candidates |->
               IF c \in Former
               THEN [state |-> state[c], name |-> name[c], source |-> source[c]]
               ELSE NoCandidate]
        /\ review = [c \in Candidates |->
               IF c \in Former /\ state[c] = "in_review" THEN open[c] ELSE "none"]
    BY DEF Init
<1>2. /\ product = [k \in Candidates |->
             IF candidate[k].state = "approved" THEN NewProduct(k) ELSE NoProduct]
      /\ run = [r \in Runs |-> "new"]
      /\ tx = [t \in Transactions |-> NoTx]
    BY DEF Init
<1>3. \A c \in Candidates :
        /\ candidate[c] \in Candidate
        /\ candidate[c].name \in Names \cup {None}
        /\ c \in Former => candidate[c].state \in {"in_review", "approved"}
        /\ c \notin Former => candidate[c].state = "none" /\ review[c] = "none"
        /\ review[c] \in Open \cup {"none", "rejected"}
    BY <1>1 DEF Candidate, NoCandidate
<1>4. NoProduct \in Product /\ NoProduct.status = "none" /\ NoProduct.versions = <<>>
    BY DEF NoProduct, Product
<1>5. ASSUME NEW k \in Candidates
      PROVE  /\ product[k] \in Product
             /\ \/ product[k].status = "none" /\ product[k].versions = <<>> /\ Versions(k) = {}
                \/ /\ candidate[k].state = "approved"
                   /\ product[k].status = "active" /\ Chain(product[k])
                   /\ Versions(k) = {k} /\ CurrentOf(product[k]) = k
    <2>1. CASE candidate[k].state = "approved"
        <3>1. product[k] = NewProduct(k)
            BY <1>2, <2>1
        <3>. QED BY <1>3, <2>1, <3>1, FirstRowOf DEF Versions, VersionsOf
    <2>2. CASE candidate[k].state # "approved"
        <3>1. product[k] = NoProduct
            BY <1>2, <2>2
        <3>. QED BY <1>4, <3>1 DEF Versions
    <2>. QED BY <2>1, <2>2
<1>6. TypeOK
    <2>1. candidate \in [Candidates -> Candidate]
          /\ review \in [Candidates -> Open \cup {"none", "rejected"}]
        BY <1>1, <1>3
    <2>2. product \in [Candidates -> Product]
        BY <1>2, <1>5
    <2>3. tx \in [Transactions -> Tx]
        BY <1>2, NoTxType
    <2>. QED BY <1>2, <2>1, <2>2, <2>3 DEF TypeOK
<1>7. \A t \in Transactions :
        /\ tx[t] = NoTx
        /\ tx[t].pc = "idle" /\ tx[t].held = {} /\ tx[t].todo = <<>>
        /\ \A c \in Candidates :
            tx[t].rows[c] = None /\ tx[t].decided[c] = None /\ tx[t].read[c].product = None
    BY <1>2, NoTxType
<1>8. Phases /\ RunPhases /\ HeldByOne /\ WrittenByOne
    <2>1. Phases
        BY <1>7 DEF Phases, PhaseOf, Busy, Locking
    <2>2. RunPhases
        BY <1>2, <1>7, Disjoint DEF RunPhases, Busy
    <2>. QED BY <1>7, <2>1, <2>2 DEF HeldByOne, WrittenByOne
<1>9. Promotions /\ RetractionsHold
    <2>1. \A t \in Transactions : Left(t) = {} /\ Elements(tx[t].todo) = {} /\ Ascending(tx[t].todo)
        BY <1>7 DEF Left, Elements, Ascending
    <2>2. Promotions
        BY <1>7, <2>1, Disjoint, NoneAssumption DEF Promotions, PromotionOf
    <2>3. RetractionsHold
        BY <1>7, <2>1, Disjoint DEF RetractionsHold, RetractionOf
    <2>. QED BY <2>2, <2>3
<1>10. KnownCandidates
    BY <1>2, <1>3, RunsAssumption DEF KnownCandidates, Former
<1>11. VersionedIsDecided /\ ProductShape /\ OneProduct
    <2>1. \A c \in Candidates : HasVersion(c) => candidate[c].state = "approved"
        BY <1>5 DEF HasVersion
    <2>2. VersionedIsDecided
        BY <1>3, <2>1 DEF VersionedIsDecided
    <2>. QED BY <1>5, <2>2 DEF ProductShape, OneProduct
<1>12. RowShapes /\ OneRow /\ Bases /\ RowStatuses
    BY <1>7, Disjoint DEF RowShapes, RowShapeOf, OneRow, OneRowOf, Bases, BaseOf, RowStatuses,
                RowStatusOf, HoldsProduct
<1>13. Reads
    <2>1. \A x \in Retractions, c \in Candidates, k \in Candidates : tx[x].read[c].product # k
        BY <1>7, Disjoint, CandidatesAssumption
    <2>. QED BY <2>1 DEF Reads, ReadOf
<1>14. AcceptedIsTaken
    BY <1>3 DEF AcceptedIsTaken
<1>15. ServedIsApproved /\ WithdrawnByRetraction
    BY <1>5 DEF ServedIsApproved, WithdrawnByRetraction, CurrentOf
<1>. QED BY <1>6, <1>8, <1>9, <1>10, <1>11, <1>12, <1>13, <1>14, <1>15 DEF IInv

LEMMA StaysUnchanged ==
    ASSUME IInv, UNCHANGED vars
    PROVE  IInv'
<1>1. UNCHANGED <<candidate, review, product, run, tx>>
    BY DEF vars
<1>2. TypeOK' /\ Phases' /\ RunPhases' /\ HeldByOne' /\ WrittenByOne'
    BY <1>1 DEF IInv, TypeOK, Phases, PhaseOf, RunPhases, HeldByOne, WrittenByOne, NoTx
<1>3. Promotions' /\ RetractionsHold'
    <2>1. \A t \in Transactions : /\ Left(t)' = Left(t)
                                  /\ Ascending(tx[t].todo)' <=> Ascending(tx[t].todo)
                                  /\ Elements(tx[t].todo)' = Elements(tx[t].todo)
        BY <1>1 DEF Left, Elements, Ascending
    <2>2. \A t, c : StaleFor(t, c)' <=> StaleFor(t, c)
        BY <1>1 DEF StaleFor
    <2>. QED BY <1>1, <2>1, <2>2, Disjoint
             DEF IInv, Promotions, PromotionOf, RetractionsHold, RetractionOf, NoTx
<1>4. KnownCandidates' /\ VersionedIsDecided' /\ ProductShape' /\ OneProduct'
    BY <1>1, ReadTables DEF IInv, KnownCandidates, Former, VersionedIsDecided, ProductShape,
                            OneProduct, Chain
<1>5. RowShapes'
    <2> SUFFICES ASSUME NEW t \in Transactions PROVE RowShapeOf(t)'
        BY DEF RowShapes
    <2>1. RowShapeOf(t)
        BY DEF IInv, RowShapes
    <2>. QED BY <1>1, <2>1, RowShapeCarries
<1>6. OneRow'
    <2> SUFFICES ASSUME NEW t \in Transactions, NEW k \in Candidates, NEW l \in Candidates,
                        tx'[t].rows[k] # None, tx'[t].rows[l] # None,
                        VersionsOf(tx'[t].rows[k]) \cap VersionsOf(tx'[t].rows[l]) # {}
                 PROVE  k = l
        BY DEF OneRow, OneRowOf, HoldsProduct, VersionsOf
    <2>. QED BY <1>1 DEF IInv, OneRow, OneRowOf, HoldsProduct
<1>7. Bases'
    BY <1>1 DEF IInv, Bases, BaseOf, Exists, ProductIn, HoldsProduct
<1>8. Reads'
    BY <1>1, ReadTables DEF IInv, Reads, ReadOf, HoldsProduct, NotServing, CurrentOf
<1>9. \A c : Missed(c)' <=> Missed(c)
    BY <1>1 DEF Missed, MissedBy, Retracted
<1>10. RowStatuses'
    <2> SUFFICES ASSUME NEW t \in Transactions PROVE RowStatusOf(t)'
        BY DEF RowStatuses
    <2>1. RowStatusOf(t)
        BY DEF IInv, RowStatuses
    <2>2. /\ \A c : StateIn(t, c)' = StateIn(t, c)
          /\ \A k : CurrentOf(tx[t].rows[k])' = CurrentOf(tx[t].rows[k])
        BY <1>1 DEF StateIn, CurrentOf
    <2>. QED BY <1>1, <1>9, <2>1, <2>2, ReadTables DEF RowStatusOf, HoldsProduct
<1>11. AcceptedIsTaken' /\ ServedIsApproved' /\ WithdrawnByRetraction'
    <2>1. AcceptedIsTaken'
        BY <1>1 DEF IInv, AcceptedIsTaken, TakenElsewhere, HoldsCandidate, Former
    <2>2. ServedIsApproved'
        BY <1>1 DEF IInv, ServedIsApproved, Retracted
    <2>3. WithdrawnByRetraction'
        BY <1>1, ReadTables DEF IInv, WithdrawnByRetraction, Retracted
    <2>. QED BY <2>1, <2>2, <2>3
<1>. QED BY <1>2, <1>3, <1>4, <1>5, <1>6, <1>7, <1>8, <1>10, <1>11 DEF IInv

LEMMA Keeps == IInv /\ [Next]_vars => IInv'
<1> SUFFICES ASSUME IInv, [Next]_vars PROVE IInv'
    OBVIOUS
<1>1. ASSUME NEW r \in Runs, Stage(r) PROVE IInv'
    BY <1>1, StagesKeep
<1>2. ASSUME NEW t \in Promoters, Load(t) PROVE IInv'
    BY <1>2, LoadKeeps
<1>3. ASSUME NEW t \in Retractions, NEW ids \in SUBSET Candidates, ReadRows(t, ids) PROVE IInv'
    BY <1>3, ReadRowsKeeps
<1>4. ASSUME NEW t \in Transactions, Advance(t) PROVE IInv'
    <2>1. CASE t \in Promoters /\ (Refuse(t) \/ Find(t) \/ Write(t) \/ Supersede(t))
        BY <2>1, RefuseKeeps, FindKeeps, WriteKeeps, SupersedeKeeps
    <2>2. CASE t \in Retractions /\ (LockRow(t) \/ Retract(t))
        BY <2>2, LockRowKeeps, RetractKeeps
    <2>3. CASE Commit(t)
        BY <2>3, CommitKeeps
    <2>4. CASE UniqueViolation(t)
        BY <2>4, AbortsKeep
    <2>. QED BY <1>4, <2>1, <2>2, <2>3, <2>4 DEF Advance
<1>5. ASSUME NEW t \in Transactions, DeadlockVictim(t) PROVE IInv'
    BY <1>5, AbortsKeep
<1>6. CASE UNCHANGED vars
    BY <1>6, StaysUnchanged
<1>. QED BY <1>1, <1>2, <1>3, <1>4, <1>5, <1>6 DEF Next

-----------------------------------------------------------------------------
(* Theorems *)

\* The tables only hold what their columns allow, and a transaction's record
\* what the code keeps in it.
THEOREM PublicationTyped == Spec => []TypeOK
<1>1. IInv => TypeOK
    BY DEF IInv
<1>. QED BY <1>1, Starts, Keeps, PTL DEF Spec

\* A product's versions are one chain, however many promotions read the same
\* version before one of them wrote the next (_apply_canonical_approval).
THEOREM VersionsFormOneChain == Spec => []OneCurrentVersion
<1>1. IInv => OneCurrentVersion
    BY DEF IInv, ProductShape, Chain, OneCurrentVersion
<1>. QED BY <1>1, Starts, Keeps, PTL DEF Spec

\* What is served comes from an approved candidate, or from one that a retraction
\* read before its product was committed (retract_invalid_candidates).
THEOREM ServedProductsAreApproved == Spec => []ServedIsApproved
<1>1. IInv => ServedIsApproved
    BY DEF IInv
<1>. QED BY <1>1, Starts, Keeps, PTL DEF Spec

\* Only a retraction that named one of its versions withdraws a product.
THEOREM OnlyRetractionsWithdraw == Spec => []WithdrawnByRetraction
<1>1. IInv => WithdrawnByRetraction
    BY DEF IInv
<1>. QED BY <1>1, Starts, Keeps, PTL DEF Spec

\* A run's promotion leaves no accepted candidate undecided but one that another
\* transaction holds, or held and was rolled back (_load_candidate_rows).
THEOREM AcceptedCandidatesAreDecided == Spec => []AcceptedIsDecided
<1>1. IInv => AcceptedIsDecided
    <2> SUFFICES ASSUME IInv, NEW c \in Candidates \ Former,
                        run[RunOf[c]] \in {"promoted", "finished"},
                        candidate[c].state = "auto_validated"
                 PROVE  TakenElsewhere(c)
        BY DEF AcceptedIsDecided, TakenElsewhere
    <2>1. RunOf[c] \in Runs /\ RunOf[c] \in Transactions
        BY RunsAssumption, Disjoint DEF Former
    <2>2. tx[RunOf[c]].pc = "done"
        BY <2>1 DEF IInv, RunPhases
    <2>3. tx[RunOf[c]].held = {}
        BY <2>1, <2>2 DEF IInv, Phases, PhaseOf, Busy, Locking
    <2>. QED BY <2>3 DEF IInv, AcceptedIsTaken, HoldsCandidate
<1>. QED BY <1>1, Starts, Keeps, PTL DEF Spec

\* A review is closed as stale for a newer approved candidate only
\* (_supersede_stale_reviews_for_source, the two supersessions of a run).
THEOREM SupersededForApproved == Spec => SupersededByApproval
<1> DEFINE Approval(d) ==
        candidate'[d].state = "superseded" /\ candidate[d].state # "superseded" =>
            /\ review'[d] = "rejected"
            /\ \E c \in Candidates :
                /\ d < c
                /\ candidate'[c].state = "approved"
                /\ \/ candidate[c].source = candidate[d].source
                   \/ candidate[c].name = candidate[d].name
<1>1. IInv /\ [Next]_vars => [\A d \in Candidates : Approval(d)]_vars
    <2> SUFFICES ASSUME IInv, Next, NEW d \in Candidates,
                        candidate'[d].state = "superseded", candidate[d].state # "superseded"
                 PROVE  /\ review'[d] = "rejected"
                        /\ \E c \in Candidates :
                            /\ d < c
                            /\ candidate'[c].state = "approved"
                            /\ \/ candidate[c].source = candidate[d].source
                               \/ candidate[c].name = candidate[d].name
        OBVIOUS
    <2>1. ASSUME NEW r \in Runs, Normalize(r) PROVE FALSE
        <3>1. candidate'[d] = candidate[d] \/ candidate'[d].state = "draft"
            BY <2>1 DEF Normalize
        <3>. QED BY <3>1
    <2>2. ASSUME NEW r \in Runs, Validate(r) PROVE FALSE
        <3>1. PICK accepted \in SUBSET Of(r) :
                candidate'[d] = IF d \in Of(r)
                    THEN [candidate[d] EXCEPT
                              !.state = IF d \in accepted THEN "auto_validated" ELSE "rejected"]
                    ELSE candidate[d]
            BY <2>2 DEF Validate
        <3>2. candidate[d] \in Candidate
            BY DEF IInv, TypeOK
        <3>. QED BY <3>1, <3>2 DEF Candidate
    <2>3. ASSUME NEW r \in Runs, SupersedeLogical(r)
          PROVE  /\ review'[d] = "rejected"
                 /\ \E c \in Candidates :
                        /\ d < c
                        /\ candidate'[c].state = "approved"
                        /\ \/ candidate[c].source = candidate[d].source
                           \/ candidate[c].name = candidate[d].name
        <3>1. PICK stale \in SUBSET Candidates :
                /\ Superseded(stale)
                /\ \A e \in stale : /\ AwaitsReview(e)
                                    /\ \E c \in Newest(r) :
                                        /\ e < c
                                        /\ \/ candidate[e].name = candidate[c].name
                                           \/ candidate[e].source = candidate[c].source
            BY <2>3 DEF SupersedeLogical
        <3>2. d \in stale /\ review'[d] = "rejected"
            BY <3>1 DEF Superseded
        <3>3. PICK c \in Newest(r) : /\ d < c
                                     /\ \/ candidate[d].name = candidate[c].name
                                        \/ candidate[d].source = candidate[c].source
            BY <3>1, <3>2
        <3>4. c \in Candidates /\ c \notin Former /\ (candidate[c].state = "approved" \/ AwaitsReview(c))
            BY RunsAssumption DEF Newest, Replacing, Of, Former
        <3>5. candidate[c].state = "approved"
            BY <3>4 DEF IInv, KnownCandidates, AwaitsReview
        <3>6. candidate'[c] = candidate[c]
            BY <3>1, <3>4, <3>5 DEF Superseded, AwaitsReview
        <3>. QED BY <3>2, <3>3, <3>4, <3>5, <3>6
    <2>4. ASSUME NEW r \in Runs, SupersedeCovered(r) PROVE FALSE
        <3>1. PICK stale \in SUBSET Of(r) : Superseded(stale) /\ \A e \in stale : AwaitsReview(e)
            BY <2>4 DEF SupersedeCovered
        <3>2. d \in stale
            BY <3>1 DEF Superseded, Of
        <3>3. d \notin Former
            BY <3>2, RunsAssumption DEF Of, Former
        <3>. QED BY <3>1, <3>2, <3>3 DEF IInv, KnownCandidates, AwaitsReview
    <2>5. ASSUME NEW t \in Transactions, Commit(t)
          PROVE  /\ review'[d] = "rejected"
                 /\ \E c \in Candidates :
                        /\ d < c
                        /\ candidate'[c].state = "approved"
                        /\ candidate[c].source = candidate[d].source
        <3>1. Committing(t)
            BY <2>5, CommitWrites
        <3>2. tx[t].decided[d] = "superseded" /\ t \in Promoters
            <4>1. StateIn(t, d) = "superseded"
                BY <3>1 DEF Committing
            <4>2. tx[t].decided[d] = "superseded"
                BY <4>1 DEF StateIn
            <4>. QED BY <4>2, DecidedBefore, Disjoint, NoneAssumption
        <3>3. StaleFor(t, d)
            BY <3>2 DEF IInv, Promotions, PromotionOf
        <3>4. PICK c \in Candidates : /\ d < c
                                      /\ tx[t].decided[c] = "approved"
                                      /\ candidate[c].source = candidate[d].source
            BY <3>3 DEF StaleFor
        <3>5. candidate'[c].state = "approved"
            BY <3>1, <3>4, NoneAssumption DEF Committing, StateIn
        <3>6. review'[d] = "rejected"
            BY <2>5, <3>2, <3>3, Disjoint DEF Commit, ClosesReview, StaleFor
        <3>. QED BY <3>4, <3>5, <3>6
    <2>6. UNCHANGED candidate \/ (\E r \in Runs : Stage(r)) \/ (\E t \in Transactions : Commit(t))
        <3>1. ASSUME NEW t \in Promoters, Load(t) PROVE UNCHANGED candidate
            BY <3>1 DEF Load
        <3>2. ASSUME NEW t \in Retractions, NEW ids \in SUBSET Candidates, ReadRows(t, ids)
              PROVE  UNCHANGED candidate
            BY <3>2 DEF ReadRows
        <3>3. ASSUME NEW t \in Transactions, DeadlockVictim(t) PROVE UNCHANGED candidate
            BY <3>3 DEF DeadlockVictim, RollBack
        <3>4. ASSUME NEW t \in Transactions, Advance(t) PROVE UNCHANGED candidate \/ Commit(t)
            <4>1. ASSUME Refuse(t) \/ Find(t) PROVE UNCHANGED candidate
                BY <4>1 DEF Refuse, Find
            <4>2. ASSUME Write(t) PROVE UNCHANGED candidate
                BY <4>2 DEF Write
            <4>3. ASSUME Supersede(t) PROVE UNCHANGED candidate
                BY <4>3 DEF Supersede
            <4>4. ASSUME LockRow(t) PROVE UNCHANGED candidate
                BY <4>4 DEF LockRow
            <4>5. ASSUME Retract(t) PROVE UNCHANGED candidate
                BY <4>5 DEF Retract
            <4>6. ASSUME UniqueViolation(t) PROVE UNCHANGED candidate
                BY <4>6 DEF UniqueViolation, RollBack
            <4>. QED BY <3>4, <4>1, <4>2, <4>3, <4>4, <4>5, <4>6 DEF Advance
        <3>. QED BY <3>1, <3>2, <3>3, <3>4 DEF Next
    <2>. QED BY <2>1, <2>2, <2>3, <2>4, <2>5, <2>6 DEF Stage
<1>. QED BY <1>1, Starts, Keeps, PTL DEF Spec, SupersededByApproval
=============================================================================
