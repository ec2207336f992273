--------------------------- MODULE MCAdminAccess ---------------------------
(* AdminAccess with a few requests, for TLC. *)
EXTENDS AdminAccess

AboutAccounts == {"signup", "approve", "reject"}

\* Three requests about accounts, or two about countries and sessions.
Scenarios ==
    \/ /\ \A op \in Ops : request[op].kind \notin AboutAccounts /\ signup[op].status = "none"
       /\ \E op \in Ops : request[op].pc = "idle"
    \/ \A op \in Ops : request[op].kind \in AboutAccounts \cup {None} /\ session[op].status = "none"
=============================================================================
