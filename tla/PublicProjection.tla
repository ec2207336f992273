--------------------------- MODULE PublicProjection ---------------------------
(***************************************************************************)
(* What the aggregate refresh promises to the readers of the public        *)
(* product list: the list of a country follows its canonical products, it  *)
(* never loses a change it once showed, and a change that is reported as   *)
(* refreshed is in it.                                                     *)
(***************************************************************************)
CONSTANTS Countries, Changes

VARIABLES
    canonical, \* the changes of each country that are committed
    public,    \* the changes its public list takes into account
    reported   \* the changes whose refresh request is reported completed

Init ==
    /\ canonical = [k \in Countries |-> {}]
    /\ public = [k \in Countries |-> {}]
    /\ reported = {}

Change(k, c) ==
    /\ \A other \in Countries : c \notin canonical[other]
    /\ canonical' = [canonical EXCEPT ![k] = @ \cup {c}]
    /\ UNCHANGED <<public, reported>>

Publish(k, content) ==
    /\ public[k] \subseteq content
    /\ public' = [public EXCEPT ![k] = content]
    /\ UNCHANGED <<canonical, reported>>

Report(k, shown) ==
    /\ reported' = reported \cup shown
    /\ UNCHANGED <<canonical, public>>

Next == \E k \in Countries :
    \/ \E c \in Changes : Change(k, c)
    \/ \E content \in SUBSET canonical[k] : Publish(k, content)
    \/ \E shown \in SUBSET public[k] : Report(k, shown)

Spec == Init /\ [][Next]_<<canonical, public, reported>>
=============================================================================
