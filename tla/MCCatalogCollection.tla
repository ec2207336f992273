------------------------ MODULE MCCatalogCollection ------------------------
(* CatalogCollection on small sets of requests and items, for TLC. *)
EXTENDS CatalogCollection, TLC

\* Requests and versions are interchangeable: each request names its own runs.
Symmetry == Permutations(Ops) \cup Permutations(Versions)

\* One of the requests is never made.
TwoRequests == \E op \in Ops : plan[op].pc = "idle"

\* Three requests, retries of retries among them, or two and a process or a
\* write that is lost.
Retries == used["edit"] + used["expiry"] = 0 /\ (used["fault"] = 0 \/ TwoRequests)

\* Two requests, and an edit or a reservation that ages out.
Edits == used["fault"] = 0 /\ used["edit"] + used["expiry"] <= 1 /\ TwoRequests

\* Three first attempts: a reservation that ages out is taken over, and its
\* runner comes back.
Takeover == /\ used["edit"] + used["fault"] = 0
            /\ \A op \in Ops : plan[op].retryOf = None
            /\ \A r \in Runs : run[r].retryOf = None

\* One of these, out of all that the bounds allow.
Scenarios == Edits \/ Retries \/ Takeover

\* For liveness: one request over several items, or several requests for one.
Asked(op, i) == i \in plan[op].items \cup plan[op].blocked \/ run[<<op, i>>].state # "none"
Settling == TwoRequests \/ \E i \in Items : \A op \in Ops, j \in Items \ {i} : ~Asked(op, j)
=============================================================================
