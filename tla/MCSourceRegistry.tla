--------------------------- MODULE MCSourceRegistry ---------------------------
(* Small instances of SourceRegistry. *)
EXTENDS SourceRegistry, TLC
CONSTANTS s1, s2
\* Two spellings of one address.
OneAddress == [s \in Sources |-> s1]
Symmetry == Permutations(Discoveries)

\* The limits of the run: a second look at the site belongs to a discovery alone,
\* and when one takes over from the other, one page at most is turned down.
Turned == UNION {work[d].blamed : d \in Discoveries}
Begun == {d \in Discoveries : work[d].pc # "idle"}
Scenarios ==
    \/ Cardinality(Begun) <= 1
    \/ /\ expiries = 1 => Cardinality(Turned) <= 1
       /\ \A d \in Discoveries : ~work[d].again
=============================================================================
