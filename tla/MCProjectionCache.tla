------------------------- MODULE MCProjectionCache -------------------------
(* ProjectionCache with a few requests, for TLC. *)
EXTENDS ProjectionCache

\* Three requests while entries expire or while a snapshot is published, two
\* while both happen.
Scenarios == clock = 0 \/ latest = 1 \/ \E c \in Callers : caller[c].pc = "idle"
=============================================================================
