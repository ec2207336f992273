----------------------------- MODULE AdminAccess -----------------------------
(***************************************************************************)
(* Administration of countries, sessions and accounts: the requests of     *)
(* several administrators, served by several instances of the API that     *)
(* share a PostgreSQL database.                                            *)
(*                                                                         *)
(*   auth.py        login, switch of country, logout, signup and its review *)
(*   countries.py   activation and deactivation of countries               *)
(*   main.py        the routes: a session is resolved in a transaction of   *)
(*                  its own, and the request's transaction comes after      *)
(*                                                                         *)
(* A transaction reads what is committed (READ COMMITTED) and locks rows;   *)
(* the statements between two points where it may wait, or where another   *)
(* transaction could make a difference, are one action.  A login that is    *)
(* refused is rolled back and leaves nothing; passwords, roles, timeouts of *)
(* sessions and the audit trail are left out.                              *)
(***************************************************************************)
EXTENDS FiniteSets, Naturals

CONSTANTS
    Ops,        \* requests; a login opens the session of its name
    Former,     \* sessions that are open at first
    Countries,
    Logins,     \* login ids that people sign up for
    None

ASSUME NameAssumption == Ops \cap Former = {} /\ None \notin Countries \cup Ops

Sessions == Ops \cup Former

VARIABLES
    country,      \* country_registry: the status of each country
    countryLock,  \* who holds the row FOR UPDATE
    session,      \* admin_auth_session
    sessionLock,  \* who holds the row FOR UPDATE
    signup,       \* user_signup_request: a request is named after its op
    account,      \* user_account
    request       \* the requests that are being served

vars == <<country, countryLock, session, sessionLock, signup, account, request>>

-----------------------------------------------------------------------------
(* Types *)

Kinds == {"login", "switch", "logout", "activate", "deactivate", "signup", "approve", "reject"}

ASSUME KindAssumption == None \notin Kinds

SessionRow == [status : {"none", "active", "revoked", "expired"}, country : Countries \cup {None}]
SignupRow == [status : {"none", "pending", "approved", "rejected"}, login : Logins \cup {None},
              user : Ops \cup {None}]
Account == [login : Logins, user : Ops]

\* known: the country the session was in when it was resolved.  todo and found:
\* the active countries a deactivation has yet to lock, and has locked.
Request == [kind : Kinds \cup {None},
            pc : {"idle", "resolve", "open", "lock", "write", "ended"},
            session : Sessions \cup {None}, country : Countries \cup {None},
            known : Countries \cup {None}, login : Logins \cup {None},
            signup : Ops \cup {None}, todo : SUBSET Countries, found : SUBSET Countries]

TypeOK ==
    /\ country \in [Countries -> {"active", "inactive"}]
    /\ countryLock \in [Countries -> Ops \cup {None}]
    /\ session \in [Sessions -> SessionRow]
    /\ sessionLock \in [Sessions -> Ops \cup {None}]
    /\ signup \in [Ops -> SignupRow]
    /\ account \subseteq Account
    /\ request \in [Ops -> Request]

Idle == [kind |-> None, pc |-> "idle", session |-> None, country |-> None, known |-> None,
         login |-> None, signup |-> None, todo |-> {}, found |-> {}]

Init ==
    /\ country \in [Countries -> {"active", "inactive"}]
    /\ \E c \in Countries : country[c] = "active"
    /\ countryLock = [c \in Countries |-> None]
    /\ session \in [Sessions -> SessionRow]
    /\ \A s \in Former : session[s].status = "active" /\ session[s].country # None
                         /\ country[session[s].country] = "active"
    /\ \A s \in Ops : session[s] = [status |-> "none", country |-> None]
    /\ sessionLock = [s \in Sessions |-> None]
    /\ signup = [op \in Ops |-> [status |-> "none", login |-> None, user |-> None]]
    /\ account = {}
    /\ request = [op \in Ops |-> Idle]

-----------------------------------------------------------------------------
(* Helpers *)

Active == {c \in Countries : country[c] = "active"}
At(op, kind, pc) == request[op].kind = kind /\ request[op].pc = pc
Goto(op, pc) == request' = [request EXCEPT ![op].pc = pc]

\* A request that is served, refused or aborted keeps nothing.
Ends(op) == request' = [request EXCEPT ![op] = [Idle EXCEPT !.pc = "ended"]]

\* Mutant of Unlocked: the rows go with their locks.
UnlockedGone(locks, op) == [x \in {y \in DOMAIN locks : locks[y] # op} |-> locks[x]]

Unlocked(locks, op) == [x \in DOMAIN locks |-> IF locks[x] = op THEN None ELSE locks[x]]
ReleaseAll(op) == /\ countryLock' = Unlocked(countryLock, op)
                  /\ sessionLock' = Unlocked(sessionLock, op)

\* get_session_by_token: a session of an inactive country is not valid.
Valid(s) == session[s].status = "active" /\ country[session[s].country] = "active"

\* The foreign key of a session takes a share of its country's row.
MayRefer(c) == countryLock[c] = None

-----------------------------------------------------------------------------
(* Requests *)

Asks(op, r) == request' = [request EXCEPT ![op] = r]

Begin(op) ==
    /\ request[op].pc = "idle"
    /\ \/ \E c \in Countries :
             Asks(op, [Idle EXCEPT !.kind = "login", !.pc = "open", !.country = c])
       \/ \E kind \in {"switch", "activate", "deactivate"}, s \in Sessions, c \in Countries :
             /\ session[s].status # "none"
             /\ Asks(op, [Idle EXCEPT !.kind = kind, !.pc = "resolve", !.session = s,
                                      !.country = c])
       \/ \E s \in Sessions :
             /\ session[s].status # "none"
             /\ Asks(op, [Idle EXCEPT !.kind = "logout", !.pc = "resolve", !.session = s])
       \/ \E l \in Logins :
             Asks(op, [Idle EXCEPT !.kind = "signup", !.pc = "open", !.login = l])
       \/ \E kind \in {"approve", "reject"}, s \in Sessions, r \in Ops :
             /\ session[s].status # "none" /\ signup[r].status # "none"
             /\ Asks(op, [Idle EXCEPT !.kind = kind, !.pc = "resolve", !.session = s,
                                      !.signup = r])
    /\ UNCHANGED <<country, countryLock, session, sessionLock, signup, account>>

\* _resolve_session
Resolve(op) ==
    /\ request[op].pc = "resolve"
    /\ request[op].kind # "logout"
    /\ LET s == request[op].session
       IN  \/ /\ Valid(s)
              /\ request' = [request EXCEPT ![op].pc = "open", ![op].known = session[s].country]
           \/ /\ ~Valid(s)
              /\ Ends(op)
    /\ UNCHANGED <<country, countryLock, session, sessionLock, signup, account>>

\* validate_admin_country, which locks nothing
CheckCountry(op) ==
    /\ At(op, "login", "open")
    /\ \/ request[op].country \in Active /\ Goto(op, "write")
       \/ request[op].country \notin Active /\ Ends(op)
    /\ UNCHANGED <<country, countryLock, session, sessionLock, signup, account>>

\* create_session
Login(op) ==
    /\ At(op, "login", "write")
    /\ MayRefer(request[op].country)
    /\ session' = [session EXCEPT ![op] = [status |-> "active", country |-> request[op].country]]
    /\ Ends(op)
    /\ UNCHANGED <<country, countryLock, sessionLock, signup, account>>

-----------------------------------------------------------------------------
(* switch_session_country *)

CheckNextCountry(op) ==
    /\ At(op, "switch", "open")
    /\ \/ request[op].country \in Active /\ Goto(op, "lock")
       \/ request[op].country \notin Active /\ Ends(op)
    /\ UNCHANGED <<country, countryLock, session, sessionLock, signup, account>>

\* Mutant of LockSession: the session is taken as it was when it was resolved.
LockSessionAnyway(op) ==
    /\ At(op, "switch", "lock")
    /\ sessionLock[request[op].session] = None
    /\ sessionLock' = [sessionLock EXCEPT ![request[op].session] = op]
    /\ Goto(op, "write")
    /\ UNCHANGED <<country, countryLock, session, signup, account>>

LockSession(op) ==
    /\ At(op, "switch", "lock")
    /\ LET s == request[op].session
       IN  /\ sessionLock[s] = None
           /\ \/ /\ session[s].status = "active" /\ session[s].country # request[op].country
                 /\ sessionLock' = [sessionLock EXCEPT ![s] = op]
                 /\ Goto(op, "write")
              \/ /\ session[s].status = "active" /\ session[s].country = request[op].country
                 /\ Ends(op)
                 /\ UNCHANGED sessionLock
              \/ /\ session[s].status # "active"
                 /\ Ends(op)
                 /\ UNCHANGED sessionLock
    /\ UNCHANGED <<country, countryLock, session, signup, account>>

\* The session's row stays locked while the switch waits for the country's.
SwitchCountry(op) ==
    /\ At(op, "switch", "write")
    /\ MayRefer(request[op].country)
    /\ session' = [session EXCEPT ![request[op].session].country = request[op].country]
    /\ ReleaseAll(op)
    /\ Ends(op)
    /\ UNCHANGED <<country, signup, account>>

-----------------------------------------------------------------------------
(* logout: the session is resolved and revoked in one transaction. *)

ResolveLogout(op) ==
    /\ At(op, "logout", "resolve")
    /\ request' = [request EXCEPT ![op].pc = "write",
                                  ![op].known = IF Valid(request[op].session)
                                                THEN session[request[op].session].country
                                                ELSE None]
    /\ UNCHANGED <<country, countryLock, session, sessionLock, signup, account>>

\* A session that did not resolve is marked as expired, unless it is closed.
Logout(op) ==
    /\ At(op, "logout", "write")
    /\ LET s == request[op].session
       IN  /\ sessionLock[s] = None
           /\ session' = [session EXCEPT ![s].status =
                             IF request[op].known # None THEN "revoked"
                             ELSE IF session[s].status = "active" THEN "expired"
                             ELSE session[s].status]
    /\ Ends(op)
    /\ UNCHANGED <<country, countryLock, sessionLock, signup, account>>

-----------------------------------------------------------------------------
(* activate_country and deactivate_country *)

Activate(op) ==
    /\ At(op, "activate", "open")
    /\ countryLock[request[op].country] = None
    /\ country' = [country EXCEPT ![request[op].country] = "active"]
    /\ Ends(op)
    /\ UNCHANGED <<countryLock, session, sessionLock, signup, account>>

\* The country the session was in is refused; one that is not active is done.
LockCountry(op) ==
    /\ At(op, "deactivate", "open")
    /\ LET c == request[op].country
       IN  \/ /\ c = request[op].known
              /\ Ends(op)
              /\ UNCHANGED countryLock
           \/ /\ c # request[op].known /\ countryLock[c] = None /\ c \notin Active
              /\ Ends(op)
              /\ UNCHANGED countryLock
           \/ /\ c # request[op].known /\ countryLock[c] = None /\ c \in Active
              /\ countryLock' = [countryLock EXCEPT ![c] = op]
              /\ Goto(op, "lock")
    /\ UNCHANGED <<country, session, sessionLock, signup, account>>

\* Mutant of FindOthers: the rows are read and not locked.
FindOthersUnlocked(op) ==
    /\ At(op, "deactivate", "lock")
    /\ request' = [request EXCEPT ![op].pc = "write",
                                  ![op].found = Active \ {request[op].country}]
    /\ UNCHANGED <<country, countryLock, session, sessionLock, signup, account>>

\* SELECT ... WHERE status = 'active' FOR UPDATE: the rows that are active when
\* the statement begins are locked in any order.
FindOthers(op) ==
    /\ At(op, "deactivate", "lock")
    /\ request' = [request EXCEPT ![op].pc = "write",
                                  ![op].todo = Active \ {request[op].country}]
    /\ UNCHANGED <<country, countryLock, session, sessionLock, signup, account>>

\* ... and one that is not active any more, once it is unlocked, is skipped.
LockOther(op) ==
    /\ At(op, "deactivate", "write")
    /\ \E c \in request[op].todo :
          /\ countryLock[c] = None
          /\ \/ /\ c \in Active
                /\ request' = [request EXCEPT ![op].todo = @ \ {c}, ![op].found = @ \cup {c}]
                /\ countryLock' = [countryLock EXCEPT ![c] = op]
             \/ /\ c \notin Active
                /\ request' = [request EXCEPT ![op].todo = @ \ {c}]
                /\ UNCHANGED countryLock
    /\ UNCHANGED <<country, session, sessionLock, signup, account>>

RefuseLast(op) ==
    /\ At(op, "deactivate", "write")
    /\ request[op].todo = {} /\ request[op].found = {}
    /\ ReleaseAll(op)
    /\ Ends(op)
    /\ UNCHANGED <<country, session, signup, account>>

\* The active sessions of the country, whose rows must be free.
OfCountry(c) == {s \in Sessions : session[s].status = "active" /\ session[s].country = c}

\* Both updates, and the commit.
Deactivate(op) ==
    /\ At(op, "deactivate", "write")
    /\ request[op].todo = {} /\ request[op].found # {}
    /\ LET c == request[op].country
       IN  /\ \A s \in OfCountry(c) : sessionLock[s] = None
           /\ country' = [country EXCEPT ![c] = "inactive"]
           /\ session' = [s \in Sessions |-> IF s \in OfCountry(c)
                                             THEN [session[s] EXCEPT !.status = "revoked"]
                                             ELSE session[s]]
    /\ ReleaseAll(op)
    /\ Ends(op)
    /\ UNCHANGED <<signup, account>>

-----------------------------------------------------------------------------
(* create_signup_request and review_signup_request *)

Accounts(l) == {a \in account : a.login = l}

CheckLogin(op) ==
    /\ At(op, "signup", "open")
    /\ \/ Accounts(request[op].login) = {} /\ Goto(op, "lock")
       \/ Accounts(request[op].login) # {} /\ Ends(op)
    /\ UNCHANGED <<country, countryLock, session, sessionLock, signup, account>>

Pending(l) == {r \in Ops : signup[r].status = "pending" /\ signup[r].login = l}

CheckPending(op) ==
    /\ At(op, "signup", "lock")
    /\ \/ Pending(request[op].login) = {} /\ Goto(op, "write")
       \/ Pending(request[op].login) # {} /\ Ends(op)
    /\ UNCHANGED <<country, countryLock, session, sessionLock, signup, account>>

\* The unique index on the login of pending requests refuses a second one.
SignUp(op) ==
    /\ At(op, "signup", "write")
    /\ \/ /\ Pending(request[op].login) = {}
          /\ signup' = [signup EXCEPT ![op] = [status |-> "pending", login |-> request[op].login,
                                           user |-> None]]
          /\ Ends(op)
       \/ /\ Pending(request[op].login) # {}
          /\ Ends(op)
          /\ UNCHANGED signup
    /\ UNCHANGED <<country, countryLock, session, sessionLock, account>>

Reviews == {"approve", "reject"}

\* The request is read, and not locked.
ReadSignup(op) ==
    /\ request[op].kind \in Reviews /\ request[op].pc = "open"
    /\ \/ /\ signup[request[op].signup].status = "pending"
          /\ Goto(op, IF request[op].kind = "approve" THEN "lock" ELSE "write")
       \/ /\ signup[request[op].signup].status # "pending"
          /\ Ends(op)
    /\ UNCHANGED <<country, countryLock, session, sessionLock, signup, account>>

CheckAccount(op) ==
    /\ At(op, "approve", "lock")
    /\ \/ Accounts(signup[request[op].signup].login) = {} /\ Goto(op, "write")
       \/ Accounts(signup[request[op].signup].login) # {} /\ Ends(op)
    /\ UNCHANGED <<country, countryLock, session, sessionLock, signup, account>>

\* Mutant of Taken: no unique index on the login of accounts.
TakenNever(l) == FALSE

\* The unique index on the login of accounts
Taken(l) == Accounts(l) # {}

\* The new account is named after the review; the request is updated whatever its
\* status is by now.
Approve(op) ==
    /\ At(op, "approve", "write")
    /\ LET r == request[op].signup
       IN  \/ /\ ~Taken(signup[r].login)
              /\ account' = account \cup {[login |-> signup[r].login, user |-> op]}
              /\ signup' = [signup EXCEPT ![r].status = "approved", ![r].user = op]
              /\ Ends(op)
           \/ /\ Taken(signup[r].login)
              /\ Ends(op)
              /\ UNCHANGED <<signup, account>>
    /\ UNCHANGED <<country, countryLock, session, sessionLock>>

Reject(op) ==
    /\ At(op, "reject", "write")
    /\ signup' = [signup EXCEPT ![request[op].signup].status = "rejected",
                                ![request[op].signup].user = None]
    /\ Ends(op)
    /\ UNCHANGED <<country, countryLock, session, sessionLock, account>>

-----------------------------------------------------------------------------
(* Deadlocks *)

\* Whose locks a request may be waiting for.
WaitsFor(op) ==
    LET r == request[op]
        rows == IF At(op, "deactivate", "write") THEN r.todo
                ELSE IF At(op, "deactivate", "open") \/ At(op, "activate", "open")
                        \/ (r.kind \in {"login", "switch"} /\ r.pc = "write")
                     THEN {r.country}
                ELSE {}
        open == IF At(op, "deactivate", "write") /\ r.todo = {} THEN OfCountry(r.country)
                ELSE IF At(op, "switch", "lock") \/ At(op, "logout", "write") THEN {r.session}
                ELSE {}
    IN  ({countryLock[c] : c \in rows} \cup {sessionLock[s] : s \in open}) \ {None, op}

\* Mutant of Cyclic: nobody looks for cycles.
CyclicNever(ops) == FALSE

Cyclic(ops) == ops # {} /\ \A op \in ops : WaitsFor(op) \cap ops # {}

\* PostgreSQL aborts one of the transactions that wait for each other.
DeadlockVictim(op) ==
    /\ \E ops \in SUBSET Ops : op \in ops /\ Cyclic(ops)
                              /\ \A some \in SUBSET ops \ {ops} : ~Cyclic(some)
    /\ ReleaseAll(op)
    /\ Ends(op)
    /\ UNCHANGED <<country, session, signup, account>>

-----------------------------------------------------------------------------
(* Specification *)

Advance(op) ==
    \/ Resolve(op) \/ CheckCountry(op) \/ Login(op)
    \/ CheckNextCountry(op) \/ LockSession(op) \/ SwitchCountry(op)
    \/ ResolveLogout(op) \/ Logout(op)
    \/ Activate(op) \/ LockCountry(op) \/ FindOthers(op) \/ LockOther(op)
    \/ RefuseLast(op) \/ Deactivate(op)
    \/ CheckLogin(op) \/ CheckPending(op) \/ SignUp(op)
    \/ ReadSignup(op) \/ CheckAccount(op) \/ Approve(op) \/ Reject(op)

Next == \E op \in Ops : Begin(op) \/ Advance(op) \/ DeadlockVictim(op)

Spec == Init /\ [][Next]_vars

\* A request that was made runs in its handler, and the database breaks every
\* cycle of waiting transactions.
FairSpec ==
    /\ Spec
    /\ \A op \in Ops : WF_vars(Advance(op))
    /\ WF_vars(\E op \in Ops : DeadlockVictim(op))

-----------------------------------------------------------------------------
(* Properties *)

\* A country is active at all times, although each deactivation counts the active
\* ones before it commits: of two that race, one sees the other, is refused, or
\* is the victim of a deadlock (deactivate_country).
LastCountryStays == Active # {}

\* A session that is closed stays closed, in the country it was in: a switch that
\* races with a logout or with a deactivation does not move it
\* (switch_session_country).
ClosedSessionStays ==
    [][\A s \in Sessions : session[s].status \in {"revoked", "expired"} =>
            /\ session'[s].status \in {"revoked", "expired"}
            /\ session'[s].country = session[s].country]_vars

\* Signup requests and accounts agree, however reviews race: a login has one
\* account at most, an approved request has the account it names, and nobody
\* gets an account without a request that was reviewed.  (A rejection that races
\* with an approval may leave a rejected request whose account exists.)
SignupsAgree ==
    /\ \A a, b \in account : a.login = b.login => a = b
    /\ \A r \in Ops : signup[r].status = "approved" =>
            [login |-> signup[r].login, user |-> signup[r].user] \in account
    /\ \A a \in account : \E r \in Ops :
            signup[r].login = a.login /\ signup[r].status \in {"approved", "rejected"}

\* Every request ends: deactivations wait for each other's countries, and for
\* the sessions of switches that wait for their countries.
RequestsEnd ==
    \A op \in Ops : request[op].pc # "idle" ~> request[op].pc = "ended"
=============================================================================
