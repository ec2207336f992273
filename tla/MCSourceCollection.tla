------------------------- MODULE MCSourceCollection -------------------------
(* Small instances of SourceCollection. *)
EXTENDS SourceCollection, TLC

CONSTANTS A, B
Symmetry == Permutations(Contents) \cup Permutations(Runs)

\* Two runs, one perhaps a retry of the other, with the faults and the changes of
\* pages that the bounds allow.
TwoRuns == \E r \in Runs : request[r] = "none"

\* Three runs, two of them perhaps retries of the first.
TwoRetries == faults = 0 /\ changes = 0

Scenarios == TwoRuns \/ TwoRetries
=============================================================================
