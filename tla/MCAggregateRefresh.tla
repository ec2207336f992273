------------------------- MODULE MCAggregateRefresh -------------------------
(* Small instances of AggregateRefresh for TLC: the operations are numbers,  *)
(* because their order is the order of requested_at and last_changed_at.     *)
EXTENDS AggregateRefresh, FiniteSets

TwoOps == 1..2
ThreeOps == 1..3

\* In one country, operations of all kinds with a process that dies or a connection
\* that is lost, or promotions and retractions with both; in two countries,
\* promotions and retractions with all connections up.
Asked(q) == operation[q].pc # "idle"
OneCountry == Cardinality({operation[q].country : q \in {p \in Ops : Asked(p)}}) <= 1
NoManual == \A q \in Ops : operation[q].kind # "manual"
Scenarios ==
    \/ OneCountry /\ faults + drops <= 1
    \/ OneCountry /\ NoManual
    \/ NoManual /\ drops = 0
=============================================================================
