----------------------- MODULE MCCandidatePublication -----------------------
(* Small instances of CandidatePublication. *)
EXTENDS CandidatePublication, TLC
CONSTANTS r1, r2, c1, x1, s1, s2, n1, n2
FourCandidates == 1..4
\* One of a former process, two of one run, and one of the other.
FormerTwoAndOne == 1 :> None @@ 2 :> r1 @@ 3 :> r1 @@ 4 :> r2
Symmetry == Permutations({s1, s2}) \cup Permutations({n1, n2})

\* Without the CLI: two runs, or a run and a retraction, or both runs and the
\* retraction when the former candidate is published and all candidates share a
\* page, or a name.  With the CLI: a run and a retraction, all of one page and name.
Known == {c \in Candidates : candidate[c].state # "none"}
OnePage == Cardinality({candidate[c].source : c \in Known}) = 1
OneName == Cardinality({candidate[c].name : c \in Known}) = 1
Idle(t) == tx[t].pc = "idle"
Listed(t) == tx[t].held \cup {c \in Candidates : tx[t].decided[c] # None}
                        \cup {tx[t].todo[i] : i \in DOMAIN tx[t].todo}
ListsOne == Cardinality(Listed(x1)) <= 1
Scenarios ==
    \/ /\ Idle(c1) /\ ListsOne
       /\ \/ Idle(x1)
          \/ run[r1] = "new" \/ run[r2] = "new"
          \/ candidate[1].state # "in_review" /\ (OnePage \/ OneName)
    \/ run[r2] = "new" /\ OnePage /\ OneName
=============================================================================
