-------------------------- MODULE AdminAccessProofs --------------------------
(* What AdminAccess promises for any number of requests, sessions,          *)
(* countries and logins.                                                    *)
EXTENDS AdminAccess, TLAPS

-----------------------------------------------------------------------------
(* The inductive invariant *)

\* A request names what its kind needs.
Asked ==
    \A op \in Ops :
        LET r == request[op]
        IN  /\ r.kind \in {"login", "switch", "activate", "deactivate"} => r.country \in Countries
            /\ r.pc = "resolve" \/ r.kind \in {"switch", "logout"}
                    => r.session \in Sessions /\ session[r.session].status # "none"
            /\ r.kind = "signup" => r.login \in Logins
            /\ r.kind \in Reviews => r.signup \in Ops /\ signup[r.signup].status # "none"
            /\ r.kind = "deactivate" /\ r.pc \in {"resolve", "open"} => r.found = {} /\ r.todo = {}

\* A login opens its session, and a signup its row, at its end.
RowsOfEnded ==
    \A op \in Ops :
        /\ session[op].status # "none" => request[op].pc = "ended"
        /\ signup[op].status # "none" => request[op].pc = "ended" /\ signup[op].login \in Logins

\* A switch that is about to write has locked a session that is active.
SwitchHoldsSession ==
    \A op \in Ops : At(op, "switch", "write") =>
        /\ sessionLock[request[op].session] = op
        /\ session[request[op].session].status = "active"

\* A deactivation has locked its country, and the active ones that it found.
DeactivationHoldsCountries ==
    \A op \in Ops : At(op, "deactivate", "lock") \/ At(op, "deactivate", "write") =>
        /\ countryLock[request[op].country] = op
        /\ request[op].country \notin request[op].todo \cup request[op].found
        /\ \A c \in request[op].found : countryLock[c] = op /\ c \in Active

IInv == /\ TypeOK /\ Asked /\ RowsOfEnded /\ SwitchHoldsSession /\ DeactivationHoldsCountries
        /\ LastCountryStays /\ SignupsAgree

-----------------------------------------------------------------------------
(* What a step does to the requests *)

Pcs == {"resolve", "open", "lock", "write"}

LEMMA RequestOf ==
    ASSUME TypeOK, NEW op \in Ops
    PROVE  /\ request[op] \in Request
           /\ request[op].kind \in Kinds \cup {None}
           /\ request[op].session \in Sessions \cup {None}
           /\ request[op].country \in Countries \cup {None}
           /\ request[op].login \in Logins \cup {None}
           /\ request[op].signup \in Ops \cup {None}
           /\ request[op].todo \subseteq Countries
           /\ request[op].found \subseteq Countries
BY DEF TypeOK, Request

\* One request changes.
Becomes(op, r) ==
    /\ request' \in [Ops -> Request]
    /\ request'[op] = r
    /\ \A o \in Ops \ {op} : request'[o] = request[o]

LEMMA BecomesIt ==
    ASSUME TypeOK, NEW op \in Ops, NEW r \in Request, request' = [request EXCEPT ![op] = r]
    PROVE  Becomes(op, r)
BY DEF Becomes, TypeOK

\* It is at its end.
Over(op) == /\ request' \in [Ops -> Request]
            /\ request'[op].kind = None /\ request'[op].pc = "ended"
            /\ \A o \in Ops \ {op} : request'[o] = request[o]

LEMMA EndsOver == ASSUME TypeOK, NEW op \in Ops, Ends(op) PROVE Over(op)
<1> DEFINE r == [Idle EXCEPT !.pc = "ended"]
<1>1. r \in Request /\ r.kind = None /\ r.pc = "ended"
    BY DEF Idle, Request
<1>2. request' = [request EXCEPT ![op] = r]
    BY DEF Ends
<1>. HIDE DEF r
<1>. QED BY <1>1, <1>2, BecomesIt DEF Becomes, Over

\* It goes on and asks for the same.
Goes(op, pc) ==
    /\ request' \in [Ops -> Request]
    /\ \A o \in Ops \ {op} : request'[o] = request[o]
    /\ LET r == request'[op]
       IN  /\ r.pc = pc
           /\ r.kind = request[op].kind /\ r.session = request[op].session
           /\ r.country = request[op].country /\ r.login = request[op].login
           /\ r.signup = request[op].signup

LEMMA GotoGoes ==
    ASSUME TypeOK, NEW op \in Ops, NEW pc \in Pcs, Goto(op, pc)
    PROVE  /\ Goes(op, pc)
           /\ request'[op].todo = request[op].todo /\ request'[op].found = request[op].found
<1> DEFINE r == [request[op] EXCEPT !.pc = pc]
<1>1. request[op] \in Request
    BY RequestOf
<1>2. /\ r \in Request /\ r.pc = pc
      /\ r.kind = request[op].kind /\ r.session = request[op].session
      /\ r.country = request[op].country /\ r.login = request[op].login
      /\ r.signup = request[op].signup /\ r.todo = request[op].todo
      /\ r.found = request[op].found
    BY <1>1 DEF Request, Pcs
<1>3. request' = [request EXCEPT ![op] = r]
    BY DEF Goto
<1>. HIDE DEF r
<1>. QED BY <1>2, <1>3, BecomesIt DEF Becomes, Goes

LEMMA IdleType == Idle \in Request /\ Idle.found = {} /\ Idle.todo = {}
BY DEF Idle, Request

LEMMA Begun ==
    ASSUME TypeOK, NEW op \in Ops, Begin(op)
    PROVE  /\ request' \in [Ops -> Request]
           /\ \A o \in Ops \ {op} : request'[o] = request[o]
           /\ LET r == request'[op]
              IN  /\ r.pc \in {"open", "resolve"}
                  /\ r.kind \in {"login", "switch", "activate", "deactivate"}
                        => r.country \in Countries
                  /\ r.pc = "resolve" \/ r.kind \in {"switch", "logout"}
                        => r.session \in Sessions /\ session[r.session].status # "none"
                  /\ r.kind = "signup" => r.login \in Logins
                  /\ r.kind \in Reviews => r.signup \in Ops /\ signup[r.signup].status # "none"
                  /\ r.found = {} /\ r.todo = {}
<1>1. ASSUME NEW c \in Countries,
             Asks(op, [Idle EXCEPT !.kind = "login", !.pc = "open", !.country = c])
      PROVE  \E r \in Request : Becomes(op, r) /\ r.pc = "open" /\ r.kind = "login"
                                /\ r.country \in Countries /\ r.found = {} /\ r.todo = {}
    <2> DEFINE r == [Idle EXCEPT !.kind = "login", !.pc = "open", !.country = c]
    <2>1. r \in Request /\ r.pc = "open" /\ r.kind = "login" /\ r.country \in Countries
          /\ r.found = {} /\ r.todo = {}
        BY IdleType DEF Request, Kinds
    <2>2. request' = [request EXCEPT ![op] = r]
        BY <1>1 DEF Asks
    <2>. HIDE DEF r
    <2>. QED BY <2>1, <2>2, BecomesIt
<1>2. ASSUME NEW kind \in {"switch", "activate", "deactivate"}, NEW s \in Sessions,
             NEW c \in Countries, session[s].status # "none",
             Asks(op, [Idle EXCEPT !.kind = kind, !.pc = "resolve", !.session = s, !.country = c])
      PROVE  \E r \in Request : /\ Becomes(op, r) /\ r.pc = "resolve"
                                /\ r.kind \in {"switch", "activate", "deactivate"}
                                /\ r.session \in Sessions /\ r.country \in Countries
                                /\ session[r.session].status # "none"
                                /\ r.found = {} /\ r.todo = {}
    <2> DEFINE r == [Idle EXCEPT !.kind = kind, !.pc = "resolve", !.session = s, !.country = c]
    <2>1. r \in Request /\ r.pc = "resolve" /\ r.kind = kind
          /\ r.session = s /\ r.country \in Countries /\ r.found = {} /\ r.todo = {}
        BY IdleType DEF Request, Kinds
    <2>2. request' = [request EXCEPT ![op] = r]
        BY <1>2 DEF Asks
    <2>. HIDE DEF r
    <2>. QED BY <1>2, <2>1, <2>2, BecomesIt
<1>3. ASSUME NEW s \in Sessions, session[s].status # "none",
             Asks(op, [Idle EXCEPT !.kind = "logout", !.pc = "resolve", !.session = s])
      PROVE  \E r \in Request : Becomes(op, r) /\ r.pc = "resolve" /\ r.kind = "logout"
                                /\ r.session \in Sessions /\ r.found = {} /\ r.todo = {}
                                /\ session[r.session].status # "none"
    <2> DEFINE r == [Idle EXCEPT !.kind = "logout", !.pc = "resolve", !.session = s]
    <2>1. r \in Request /\ r.pc = "resolve" /\ r.kind = "logout" /\ r.session = s
          /\ r.found = {} /\ r.todo = {}
        BY IdleType DEF Request, Kinds
    <2>2. request' = [request EXCEPT ![op] = r]
        BY <1>3 DEF Asks
    <2>. HIDE DEF r
    <2>. QED BY <1>3, <2>1, <2>2, BecomesIt
<1>4. ASSUME NEW l \in Logins,
             Asks(op, [Idle EXCEPT !.kind = "signup", !.pc = "open", !.login = l])
      PROVE  \E r \in Request : Becomes(op, r) /\ r.pc = "open" /\ r.kind = "signup"
                                /\ r.login \in Logins /\ r.found = {} /\ r.todo = {}
    <2> DEFINE r == [Idle EXCEPT !.kind = "signup", !.pc = "open", !.login = l]
    <2>1. r \in Request /\ r.pc = "open" /\ r.kind = "signup" /\ r.login \in Logins
          /\ r.found = {} /\ r.todo = {}
        BY IdleType DEF Request, Kinds
    <2>2. request' = [request EXCEPT ![op] = r]
        BY <1>4 DEF Asks
    <2>. HIDE DEF r
    <2>. QED BY <2>1, <2>2, BecomesIt
<1>5. ASSUME NEW kind \in {"approve", "reject"}, NEW s \in Sessions, NEW q \in Ops,
             session[s].status # "none", signup[q].status # "none",
             Asks(op, [Idle EXCEPT !.kind = kind, !.pc = "resolve", !.session = s, !.signup = q])
      PROVE  \E r \in Request : /\ Becomes(op, r) /\ r.pc = "resolve" /\ r.kind \in Reviews
                                /\ r.session \in Sessions /\ session[r.session].status # "none"
                                /\ r.signup \in Ops /\ signup[r.signup].status # "none"
                                /\ r.found = {} /\ r.todo = {}
    <2> DEFINE r == [Idle EXCEPT !.kind = kind, !.pc = "resolve", !.session = s, !.signup = q]
    <2>1. r \in Request /\ r.pc = "resolve" /\ r.kind \in Reviews /\ r.session = s
          /\ r.signup = q /\ r.found = {} /\ r.todo = {}
        BY IdleType DEF Request, Kinds, Reviews
    <2>2. request' = [request EXCEPT ![op] = r]
        BY <1>5 DEF Asks
    <2>. HIDE DEF r
    <2>. QED BY <1>5, <2>1, <2>2, BecomesIt
<1>. QED BY ZenonT(40), <1>1, <1>2, <1>3, <1>4, <1>5 DEF Begin, Becomes, Reviews

\* What is resolved, and what a deactivation finds and locks.
LEMMA Resolved ==
    ASSUME TypeOK, NEW op \in Ops, NEW pc \in Pcs, NEW known \in Countries \cup {None},
           request' = [request EXCEPT ![op].pc = pc, ![op].known = known]
    PROVE  /\ Goes(op, pc)
           /\ request'[op].todo = request[op].todo /\ request'[op].found = request[op].found
<1> DEFINE r == [request[op] EXCEPT !.pc = pc, !.known = known]
<1>1. request[op] \in Request
    BY RequestOf
<1>2. /\ r \in Request /\ r.pc = pc
      /\ r.kind = request[op].kind /\ r.session = request[op].session
      /\ r.country = request[op].country /\ r.login = request[op].login
      /\ r.signup = request[op].signup /\ r.todo = request[op].todo
      /\ r.found = request[op].found
    BY ZenonT(40), <1>1 DEF Request, Pcs
<1>3. request' = [request EXCEPT ![op] = r]
    BY DEF TypeOK
<1>. HIDE DEF r
<1>. QED BY <1>2, <1>3, BecomesIt DEF Becomes, Goes

LEMMA Found ==
    ASSUME TypeOK, NEW op \in Ops
    PROVE  /\ FindOthers(op) =>
                /\ Goes(op, "write")
                /\ request'[op].todo = Active \ {request[op].country}
                /\ request'[op].found = request[op].found
           /\ \A c \in request[op].todo :
                /\ request' = [request EXCEPT ![op].todo = @ \ {c}, ![op].found = @ \cup {c}] =>
                      /\ Goes(op, request[op].pc)
                      /\ request'[op].todo = request[op].todo \ {c}
                      /\ request'[op].found = request[op].found \cup {c}
                /\ request' = [request EXCEPT ![op].todo = @ \ {c}] =>
                      /\ Goes(op, request[op].pc)
                      /\ request'[op].todo = request[op].todo \ {c}
                      /\ request'[op].found = request[op].found
<1>1. request[op] \in Request
    BY RequestOf
<1>2. /\ request[op].todo \subseteq Countries /\ request[op].found \subseteq Countries
      /\ Active \subseteq Countries
    BY RequestOf DEF Active
<1>3. ASSUME FindOthers(op)
      PROVE  /\ Goes(op, "write")
             /\ request'[op].todo = Active \ {request[op].country}
             /\ request'[op].found = request[op].found
    <2> DEFINE r == [request[op] EXCEPT !.pc = "write", !.todo = Active \ {request[op].country}]
    <2>1. /\ r \in Request /\ r.pc = "write"
          /\ r.kind = request[op].kind /\ r.session = request[op].session
          /\ r.country = request[op].country /\ r.login = request[op].login
          /\ r.signup = request[op].signup
          /\ r.todo = Active \ {request[op].country} /\ r.found = request[op].found
        BY <1>1, <1>2 DEF Request
    <2>2. request' = [request EXCEPT ![op] = r]
        BY <1>3 DEF FindOthers, TypeOK
    <2>. HIDE DEF r
    <2>. QED BY <2>1, <2>2, BecomesIt DEF Becomes, Goes
<1>4. ASSUME NEW c \in request[op].todo,
             request' = [request EXCEPT ![op].todo = @ \ {c}, ![op].found = @ \cup {c}]
      PROVE  /\ Goes(op, request[op].pc)
             /\ request'[op].todo = request[op].todo \ {c}
             /\ request'[op].found = request[op].found \cup {c}
    <2> DEFINE r == [request[op] EXCEPT !.todo = @ \ {c}, !.found = @ \cup {c}]
    <2>1. /\ r \in Request /\ r.pc = request[op].pc
          /\ r.kind = request[op].kind /\ r.session = request[op].session
          /\ r.country = request[op].country /\ r.login = request[op].login
          /\ r.signup = request[op].signup
          /\ r.todo = request[op].todo \ {c} /\ r.found = request[op].found \cup {c}
        BY <1>1, <1>2, <1>4 DEF Request
    <2>2. request' = [request EXCEPT ![op] = r]
        BY <1>4 DEF TypeOK
    <2>. HIDE DEF r
    <2>. QED BY <2>1, <2>2, BecomesIt DEF Becomes, Goes
<1>5. ASSUME NEW c \in request[op].todo, request' = [request EXCEPT ![op].todo = @ \ {c}]
      PROVE  /\ Goes(op, request[op].pc)
             /\ request'[op].todo = request[op].todo \ {c}
             /\ request'[op].found = request[op].found
    <2> DEFINE r == [request[op] EXCEPT !.todo = @ \ {c}]
    <2>1. /\ r \in Request /\ r.pc = request[op].pc
          /\ r.kind = request[op].kind /\ r.session = request[op].session
          /\ r.country = request[op].country /\ r.login = request[op].login
          /\ r.signup = request[op].signup
          /\ r.todo = request[op].todo \ {c} /\ r.found = request[op].found
        BY <1>1, <1>2, <1>5 DEF Request
    <2>2. request' = [request EXCEPT ![op] = r]
        BY <1>5 DEF TypeOK
    <2>. HIDE DEF r
    <2>. QED BY <2>1, <2>2, BecomesIt DEF Becomes, Goes
<1>. QED BY <1>3, <1>4, <1>5

LEMMA ReleaseType ==
    ASSUME TypeOK, NEW op \in Ops, ReleaseAll(op)
    PROVE  /\ countryLock' \in [Countries -> Ops \cup {None}]
           /\ sessionLock' \in [Sessions -> Ops \cup {None}]
           /\ \A c \in Countries : countryLock[c] # op => countryLock'[c] = countryLock[c]
           /\ \A s \in Sessions : sessionLock[s] # op => sessionLock'[s] = sessionLock[s]
BY DEF ReleaseAll, Unlocked, TypeOK

Step(op) == Begin(op) \/ Advance(op) \/ DeadlockVictim(op)

LEMMA RequestSteps ==
    ASSUME IInv, NEW op \in Ops, Step(op)
    PROVE  \/ Begin(op) /\ request[op].pc = "idle"
           \/ Over(op)
           \/ /\ request[op].pc \in Pcs
              /\ \E pc \in Pcs : Goes(op, pc)
              /\ \/ FindOthers(op) \/ LockOther(op)
                 \/ /\ request'[op].todo = request[op].todo
                    /\ request'[op].found = request[op].found
                    /\ request'[op].pc # "resolve"
                    /\ request[op].kind = "deactivate" =>
                            \/ request[op].pc = "resolve" /\ request'[op].pc = "open"
                            \/ LockCountry(op)
                    /\ request[op].kind = "switch" /\ request'[op].pc = "write"
                            => LockSession(op)
<1>. USE DEF IInv
<1>1. CASE Ends(op)
    BY <1>1, EndsOver
<1>2. CASE Begin(op)
    BY <1>2 DEF Begin
<1>3. CASE DeadlockVictim(op)
    BY <1>1, <1>3 DEF DeadlockVictim
<1>4. ASSUME NEW pc \in {"open", "lock", "write"}, Goto(op, pc), request[op].pc \in Pcs,
             request[op].kind = "deactivate" => LockCountry(op),
             request[op].kind = "switch" /\ pc = "write" => LockSession(op)
      PROVE  /\ \E p \in Pcs : Goes(op, p)
             /\ request'[op].todo = request[op].todo
             /\ request'[op].found = request[op].found
             /\ request'[op].pc # "resolve"
             /\ request[op].kind = "switch" /\ request'[op].pc = "write" => LockSession(op)
    BY <1>4, GotoGoes DEF Goes, Pcs
<1>5. CASE Resolve(op)
    <2>1. CASE /\ Valid(request[op].session)
               /\ request' = [request EXCEPT ![op].pc = "open",
                                             ![op].known = session[request[op].session].country]
        <3>1. session[request[op].session].country \in Countries \cup {None}
            BY <1>5 DEF Resolve, Asked, TypeOK, SessionRow
        <3>. QED BY <1>5, <2>1, <3>1, Resolved DEF Resolve, Pcs, Goes
    <2>. QED BY <1>1, <1>5, <2>1 DEF Resolve
<1>6. CASE ResolveLogout(op)
    <2> DEFINE known == IF Valid(request[op].session)
                        THEN session[request[op].session].country ELSE None
    <2>1. known \in Countries \cup {None}
        BY <1>6 DEF ResolveLogout, At, Asked, TypeOK, SessionRow
    <2>2. request' = [request EXCEPT ![op].pc = "write", ![op].known = known]
        BY <1>6 DEF ResolveLogout
    <2>. HIDE DEF known
    <2>3. request[op].pc = "resolve" /\ request[op].kind = "logout"
        BY <1>6 DEF ResolveLogout, At
    <2>. QED BY <2>1, <2>2, <2>3, Resolved DEF Pcs, Goes
<1>7. CASE FindOthers(op)
    BY <1>7, Found DEF FindOthers, At, Pcs
<1>8. CASE LockOther(op)
    BY <1>8, Found DEF LockOther, At, Pcs
<1>9. CASE \/ CheckCountry(op) \/ CheckNextCountry(op) \/ LockSession(op) \/ LockCountry(op)
           \/ CheckLogin(op) \/ CheckPending(op) \/ ReadSignup(op) \/ CheckAccount(op)
    BY <1>1, <1>4, <1>9 DEF CheckCountry, CheckNextCountry, LockSession, LockCountry, CheckLogin,
       CheckPending, ReadSignup, CheckAccount, At, Pcs, Reviews
<1>10. CASE \/ Login(op) \/ SwitchCountry(op) \/ Logout(op) \/ Activate(op) \/ RefuseLast(op)
            \/ Deactivate(op) \/ SignUp(op) \/ Approve(op) \/ Reject(op)
    BY <1>1, <1>10 DEF Login, SwitchCountry, Logout, Activate, RefuseLast, Deactivate, SignUp,
       Approve, Reject
<1>. QED BY <1>2, <1>3, <1>5, <1>6, <1>7, <1>8, <1>9, <1>10 DEF Step, Advance

LEMMA RequestsChange ==
    ASSUME IInv, NEW op \in Ops, Step(op)
    PROVE  /\ request' \in [Ops -> Request]
           /\ \A o \in Ops \ {op} : request'[o] = request[o]
BY RequestSteps, Begun, Found DEF IInv, Over, Goes

\* Which steps change which table.
LEMMA TableSteps ==
    ASSUME NEW op \in Ops, Step(op)
    PROVE  /\ country' = country \/ Activate(op) \/ Deactivate(op)
           /\ \/ session' = session
              \/ Login(op) \/ SwitchCountry(op) \/ Logout(op) \/ Deactivate(op)
           /\ countryLock' = countryLock \/ LockCountry(op) \/ LockOther(op) \/ ReleaseAll(op)
           /\ sessionLock' = sessionLock \/ LockSession(op) \/ ReleaseAll(op)
           /\ \/ UNCHANGED <<signup, account>>
              \/ SignUp(op) \/ Approve(op) \/ Reject(op)
<1>1. CASE Begin(op) \/ DeadlockVictim(op)
    BY <1>1 DEF Begin, DeadlockVictim
<1>2. CASE \/ Resolve(op) \/ CheckCountry(op) \/ Login(op)
           \/ CheckNextCountry(op) \/ LockSession(op) \/ SwitchCountry(op)
           \/ ResolveLogout(op) \/ Logout(op)
    BY <1>2 DEF Resolve, CheckCountry, Login, CheckNextCountry, LockSession, SwitchCountry,
                ResolveLogout, Logout
<1>3. CASE \/ Activate(op) \/ LockCountry(op) \/ FindOthers(op) \/ LockOther(op)
           \/ RefuseLast(op) \/ Deactivate(op)
    BY <1>3 DEF Activate, LockCountry, FindOthers, LockOther, RefuseLast, Deactivate
<1>4. CASE \/ CheckLogin(op) \/ CheckPending(op) \/ SignUp(op)
           \/ ReadSignup(op) \/ CheckAccount(op) \/ Approve(op) \/ Reject(op)
    BY <1>4 DEF CheckLogin, CheckPending, SignUp, ReadSignup, CheckAccount, Approve, Reject
<1>. QED BY <1>1, <1>2, <1>3, <1>4 DEF Step, Advance

-----------------------------------------------------------------------------
(* What a step does to the tables *)

\* A session is opened, moved by who holds its row, or closed while nobody does.
LEMMA SessionSteps ==
    ASSUME IInv, NEW op \in Ops, Step(op)
    PROVE  /\ session' \in [Sessions -> SessionRow]
           /\ \A s \in Sessions :
                \/ session'[s] = session[s]
                \/ /\ s = op /\ Over(op) /\ session[s].status = "none"
                   /\ session'[s].status = "active"
                \/ /\ sessionLock[s] = op /\ Over(op)
                   /\ session[s].status = "active" /\ session'[s].status = "active"
                \/ /\ sessionLock[s] = None
                   /\ session[s].status # "none"
                   /\ session'[s].status \in {"revoked", "expired"}
                   /\ session'[s].country = session[s].country
<1>. USE DEF IInv
<1>1. CASE Login(op)
    <2> DEFINE row == [status |-> "active", country |-> request[op].country]
    <2>1. row \in SessionRow /\ row.status = "active"
        BY <1>1 DEF Login, At, Asked, SessionRow
    <2>2. session' = [session EXCEPT ![op] = row] /\ Over(op)
        BY <1>1, EndsOver DEF Login
    <2>3. session[op].status = "none"
        BY <1>1 DEF Login, At, RowsOfEnded
    <2>. HIDE DEF row
    <2>. QED BY <2>1, <2>2, <2>3 DEF Sessions, TypeOK
<1>2. CASE SwitchCountry(op)
    <2> DEFINE id == request[op].session
               row == [session[id] EXCEPT !.country = request[op].country]
    <2>1. /\ id \in Sessions /\ request[op].country \in Countries
          /\ sessionLock[id] = op /\ session[id].status = "active"
        BY <1>2 DEF SwitchCountry, At, Asked, SwitchHoldsSession
    <2>2. row \in SessionRow /\ row.status = "active"
        BY <2>1 DEF TypeOK, SessionRow
    <2>3. session' = [session EXCEPT ![id] = row] /\ Over(op)
        BY <1>2, EndsOver DEF SwitchCountry
    <2>. HIDE DEF row
    <2>4. /\ session' \in [Sessions -> SessionRow] /\ session'[id] = row
          /\ \A s \in Sessions \ {id} : session'[s] = session[s]
        BY <2>1, <2>2, <2>3 DEF TypeOK
    <2>. QED BY <2>1, <2>2, <2>3, <2>4
<1>3. CASE Logout(op)
    <2> DEFINE id == request[op].session
               status == IF request[op].known # None THEN "revoked"
                         ELSE IF session[id].status = "active" THEN "expired"
                         ELSE session[id].status
               row == [session[id] EXCEPT !.status = status]
    <2>1. id \in Sessions /\ sessionLock[id] = None /\ session[id].status # "none"
        BY <1>3 DEF Logout, At, Asked
    <2>2. status \in {"revoked", "expired"}
        BY <2>1 DEF TypeOK, SessionRow
    <2>3. session' = [session EXCEPT ![id] = row]
        BY <1>3 DEF Logout
    <2>. HIDE DEF status
    <2>4. row \in SessionRow /\ row.status = status /\ row.country = session[id].country
        BY <2>1, <2>2 DEF TypeOK, SessionRow
    <2>. HIDE DEF row
    <2>5. /\ session' \in [Sessions -> SessionRow] /\ session'[id] = row
          /\ \A s \in Sessions \ {id} : session'[s] = session[s]
        BY <2>1, <2>3, <2>4 DEF TypeOK
    <2>. QED BY <2>1, <2>2, <2>4, <2>5
<1>4. CASE Deactivate(op)
    <2> DEFINE own == OfCountry(request[op].country)
               row(s) == [session[s] EXCEPT !.status = "revoked"]
    <2>1. /\ session' = [s \in Sessions |-> IF s \in own THEN row(s) ELSE session[s]]
          /\ \A s \in own : sessionLock[s] = None
        BY <1>4 DEF Deactivate
    <2>2. \A s \in Sessions : /\ row(s) \in SessionRow /\ row(s).status = "revoked"
                              /\ row(s).country = session[s].country
                              /\ session[s] \in SessionRow
        BY DEF TypeOK, SessionRow
    <2>3. \A s \in own : session[s].status = "active"
        BY DEF OfCountry
    <2>. HIDE DEF own, row
    <2>. QED BY <2>1, <2>2, <2>3
<1>5. CASE session' = session
    BY <1>5 DEF TypeOK
<1>. QED BY <1>1, <1>2, <1>3, <1>4, <1>5, TableSteps

\* The locks a request has are its own until it is over, or it takes one more.
LEMMA LockSteps ==
    ASSUME IInv, NEW op \in Ops, Step(op)
    PROVE  /\ countryLock' \in [Countries -> Ops \cup {None}]
           /\ sessionLock' \in [Sessions -> Ops \cup {None}]
           /\ \A o \in Ops \ {op} :
                /\ \A c \in Countries : countryLock[c] = o => countryLock'[c] = o
                /\ \A s \in Sessions : sessionLock[s] = o => sessionLock'[s] = o
<1>. USE DEF IInv
<1>1. CASE ReleaseAll(op)
    BY <1>1, ReleaseType
<1>2. ASSUME LockCountry(op)
      PROVE  \/ countryLock' = countryLock
             \/ \E c \in Countries : /\ countryLock[c] = None
                                     /\ countryLock' = [countryLock EXCEPT ![c] = op]
    BY <1>2 DEF LockCountry, At, Asked
<1>3. ASSUME LockOther(op)
      PROVE  \/ countryLock' = countryLock
             \/ \E c \in Countries : /\ countryLock[c] = None
                                     /\ countryLock' = [countryLock EXCEPT ![c] = op]
    BY <1>3, RequestOf DEF LockOther
<1>4. ASSUME LockSession(op)
      PROVE  \/ sessionLock' = sessionLock
             \/ \E s \in Sessions : /\ sessionLock[s] = None
                                    /\ sessionLock' = [sessionLock EXCEPT ![s] = op]
    BY <1>4 DEF LockSession, At, Asked
<1>5. /\ countryLock' \in [Countries -> Ops \cup {None}]
      /\ \A o \in Ops \ {op}, c \in Countries : countryLock[c] = o => countryLock'[c] = o
    BY <1>1, <1>2, <1>3, TableSteps, NameAssumption, ReleaseType DEF TypeOK
<1>6. /\ sessionLock' \in [Sessions -> Ops \cup {None}]
      /\ \A o \in Ops \ {op}, s \in Sessions : sessionLock[s] = o => sessionLock'[s] = o
    BY <1>1, <1>4, TableSteps, NameAssumption, ReleaseType DEF TypeOK
<1>. QED BY <1>5, <1>6

\* A country becomes inactive only by who holds it, and only with another one
\* that is active and held as well.
LEMMA CountrySteps ==
    ASSUME IInv, NEW op \in Ops, Step(op)
    PROVE  /\ country' \in [Countries -> {"active", "inactive"}]
           /\ \A c \in Countries : country[c] = "active" =>
                \/ country'[c] = "active"
                \/ /\ countryLock[c] = op /\ Over(op)
                   /\ \E d \in Countries \ {c} : country'[d] = "active"
<1>. USE DEF IInv
<1>1. CASE Activate(op)
    BY <1>1 DEF Activate, At, Asked, TypeOK
<1>2. CASE Deactivate(op)
    <2>1. /\ request[op].country \in Countries /\ request[op].found # {}
          /\ countryLock[request[op].country] = op
          /\ \A c \in request[op].found : c \in Active /\ c # request[op].country
        BY <1>2 DEF Deactivate, At, Asked, DeactivationHoldsCountries
    <2>2. /\ country' = [country EXCEPT ![request[op].country] = "inactive"]
          /\ Over(op)
        BY <1>2, EndsOver DEF Deactivate
    <2>3. PICK d \in request[op].found : TRUE
        BY <2>1
    <2>4. d \in Countries /\ d # request[op].country /\ country[d] = "active"
        BY <2>1, <2>3 DEF Active
    <2>5. country'[d] = "active"
        BY <2>2, <2>4 DEF TypeOK
    <2>. QED BY <2>1, <2>2, <2>4, <2>5 DEF TypeOK
<1>3. CASE country' = country
    BY <1>3 DEF TypeOK
<1>. QED BY <1>1, <1>2, <1>3, TableSteps

LEMMA SignupSteps ==
    ASSUME IInv, NEW op \in Ops, Step(op)
    PROVE  /\ signup' \in [Ops -> SignupRow]
           /\ account' \subseteq Account
           /\ \/ UNCHANGED <<signup, account>>
              \/ /\ account' = account /\ Over(op)
                 /\ signup[op].status = "none"
                 /\ signup'[op].status = "pending" /\ signup'[op].login \in Logins
                 /\ \A o \in Ops \ {op} : signup'[o] = signup[o]
              \/ \E r \in Ops :
                    /\ account' = account \cup {[login |-> signup[r].login, user |-> op]}
                    /\ Accounts(signup[r].login) = {}
                    /\ signup[r].status # "none"
                    /\ signup'[r].status = "approved" /\ signup'[r].login = signup[r].login
                    /\ signup'[r].user = op
                    /\ \A o \in Ops \ {r} : signup'[o] = signup[o]
                    /\ Over(op)
              \/ \E r \in Ops :
                    /\ account' = account /\ Over(op)
                    /\ signup[r].status # "none"
                    /\ signup'[r].status = "rejected" /\ signup'[r].login = signup[r].login
                    /\ \A o \in Ops \ {r} : signup'[o] = signup[o]
<1>. USE DEF IInv
<1>1. CASE SignUp(op)
    <2>1. CASE UNCHANGED <<signup, account>>
        BY <2>1 DEF TypeOK
    <2>2. CASE /\ signup' = [signup EXCEPT ![op] = [status |-> "pending",
                                login |-> request[op].login, user |-> None]]
               /\ Ends(op)
        <3> DEFINE row == [status |-> "pending", login |-> request[op].login, user |-> None]
        <3>1. row \in SignupRow /\ row.status = "pending" /\ row.login \in Logins
            BY <1>1 DEF SignUp, At, Asked, SignupRow
        <3>2. signup[op].status = "none" /\ account' = account
            BY <1>1 DEF SignUp, At, RowsOfEnded
        <3>. HIDE DEF row
        <3>3. signup' = [signup EXCEPT ![op] = row]
            BY <2>2 DEF row
        <3>4. Over(op)
            BY <2>2, EndsOver
        <3>. QED BY <3>1, <3>2, <3>3, <3>4 DEF TypeOK
    <2>. QED BY <1>1, <2>1, <2>2 DEF SignUp
<1>2. CASE Approve(op)
    <2> DEFINE r == request[op].signup
               row == [signup[r] EXCEPT !.status = "approved", !.user = op]
    <2>1. r \in Ops /\ signup[r].status # "none"
        BY <1>2 DEF Approve, At, Asked, Reviews
    <2>2. CASE UNCHANGED <<signup, account>>
        BY <2>2 DEF TypeOK
    <2>3. CASE /\ ~Taken(signup[r].login)
               /\ account' = account \cup {[login |-> signup[r].login, user |-> op]}
               /\ signup' = [signup EXCEPT ![r].status = "approved", ![r].user = op]
               /\ Ends(op)
        <3>1. signup[r] \in SignupRow /\ signup[r].login \in Logins
            BY <2>1 DEF TypeOK, RowsOfEnded
        <3>2. /\ row \in SignupRow /\ row.status = "approved" /\ row.user = op
              /\ row.login = signup[r].login
            BY <3>1 DEF SignupRow
        <3>3. signup' = [signup EXCEPT ![r] = row]
            BY <2>3 DEF TypeOK
        <3>. HIDE DEF row
        <3>4. /\ signup' \in [Ops -> SignupRow] /\ signup'[r] = row
              /\ \A o \in Ops \ {r} : signup'[o] = signup[o]
            BY <2>1, <3>2, <3>3 DEF TypeOK
        <3>5. Over(op) /\ Accounts(signup[r].login) = {}
            BY <2>3, EndsOver DEF Taken
        <3>6. [login |-> signup[r].login, user |-> op] \in Account
            BY <3>1 DEF Account
        <3>7. account' \subseteq Account
            BY <2>3, <3>6 DEF TypeOK
        <3>. QED BY ZenonT(40), <2>1, <2>3, <3>2, <3>4, <3>5, <3>7
    <2>. QED BY <1>2, <2>2, <2>3 DEF Approve
<1>3. CASE Reject(op)
    <2> DEFINE r == request[op].signup
               row == [signup[r] EXCEPT !.status = "rejected", !.user = None]
    <2>1. r \in Ops /\ signup[r].status # "none"
        BY <1>3 DEF Reject, At, Asked, Reviews
    <2>2. signup[r] \in SignupRow
        BY <2>1 DEF TypeOK
    <2>3. /\ row \in SignupRow /\ row.status = "rejected" /\ row.login = signup[r].login
        BY <2>2 DEF SignupRow
    <2>4. signup' = [signup EXCEPT ![r] = row]
        BY <1>3 DEF Reject, TypeOK
    <2>. HIDE DEF row
    <2>5. /\ signup' \in [Ops -> SignupRow] /\ signup'[r] = row
          /\ \A o \in Ops \ {r} : signup'[o] = signup[o]
        BY <2>1, <2>3, <2>4 DEF TypeOK
    <2>6. account' = account /\ Over(op)
        BY <1>3, EndsOver DEF Reject
    <2>. QED BY <2>1, <2>3, <2>5, <2>6 DEF TypeOK
<1>4. CASE UNCHANGED <<signup, account>>
    BY <1>4 DEF TypeOK
<1>. QED BY <1>1, <1>2, <1>3, <1>4, TableSteps

-----------------------------------------------------------------------------
(* The invariant, step by step *)

LEMMA AskedKept ==
    ASSUME IInv, NEW op \in Ops, Step(op)
    PROVE  Asked'
<1>. USE DEF IInv
<1>1. \A s \in Sessions : session[s].status # "none" => session'[s].status # "none"
    BY SessionSteps
<1>2. \A r \in Ops : signup[r].status # "none" => signup'[r].status # "none"
    BY SignupSteps
<1> SUFFICES ASSUME NEW o \in Ops
             PROVE  LET r == request'[o]
                    IN  /\ r.kind \in {"login", "switch", "activate", "deactivate"}
                                => r.country \in Countries
                        /\ r.pc = "resolve" \/ r.kind \in {"switch", "logout"}
                                => r.session \in Sessions /\ session'[r.session].status # "none"
                        /\ r.kind = "signup" => r.login \in Logins
                        /\ r.kind \in Reviews
                                => r.signup \in Ops /\ signup'[r.signup].status # "none"
                        /\ r.kind = "deactivate" /\ r.pc \in {"resolve", "open"}
                                => r.found = {} /\ r.todo = {}
    BY DEF Asked
<1>3. CASE o # op
    <2>1. request'[o] = request[o]
        BY <1>3, RequestsChange
    <2>. QED BY <1>1, <1>2, <2>1 DEF Asked
<1>4. CASE o = op /\ Begin(op)
    BY <1>1, <1>2, <1>4, Begun
<1>5. CASE o = op /\ Over(op)
    BY <1>5, KindAssumption DEF Over, Reviews, Kinds
<1>6. CASE /\ o = op /\ request[op].pc \in Pcs
           /\ \E pc \in Pcs : Goes(op, pc)
           /\ \/ FindOthers(op) \/ LockOther(op)
              \/ /\ request'[op].todo = request[op].todo
                 /\ request'[op].found = request[op].found
                 /\ request'[op].pc # "resolve"
                 /\ request[op].kind = "deactivate" =>
                        \/ request[op].pc = "resolve" /\ request'[op].pc = "open"
                        \/ LockCountry(op)
    <2>1. /\ request'[op].kind = request[op].kind /\ request'[op].session = request[op].session
          /\ request'[op].country = request[op].country /\ request'[op].login = request[op].login
          /\ request'[op].signup = request[op].signup
        BY <1>6 DEF Goes
    <2>2. CASE FindOthers(op) \/ LockOther(op)
        <3>1. request[op].kind = "deactivate" /\ request'[op].pc = "write"
            BY <2>2, Found DEF FindOthers, LockOther, At, Goes
        <3>. QED BY <1>1, <1>2, <1>6, <2>1, <3>1 DEF Asked, Reviews
    <2>3. CASE /\ request'[op].todo = request[op].todo
               /\ request'[op].found = request[op].found
               /\ request'[op].pc # "resolve"
               /\ request[op].kind = "deactivate" =>
                        \/ request[op].pc = "resolve" /\ request'[op].pc = "open"
                        \/ LockCountry(op)
        <3>1. request[op].kind = "deactivate" /\ request'[op].pc = "open"
                    => request[op].pc \in {"resolve", "open"}
            BY <2>3 DEF LockCountry, At
        <3>. QED BY <1>1, <1>2, <1>6, <2>1, <2>3, <3>1 DEF Asked
    <2>. QED BY <1>6, <2>2, <2>3
<1>. QED BY <1>3, <1>4, <1>5, <1>6, RequestSteps

LEMMA RowsKept ==
    ASSUME IInv, NEW op \in Ops, Step(op)
    PROVE  RowsOfEnded'
<1>. USE DEF IInv
<1>1. \A o \in Ops : request[o].pc = "ended" => request'[o].pc = "ended"
    BY RequestSteps, RequestsChange DEF Over, Pcs
<1>2. Over(op) => request'[op].pc = "ended"
    BY DEF Over
<1>3. \A o \in Ops : session'[o].status # "none" => request'[o].pc = "ended"
    BY <1>1, <1>2, SessionSteps DEF RowsOfEnded, Sessions
<1>4. \A o \in Ops : signup'[o].status # "none"
                        => request'[o].pc = "ended" /\ signup'[o].login \in Logins
    BY <1>1, <1>2, SignupSteps DEF RowsOfEnded
<1>. QED BY <1>3, <1>4 DEF RowsOfEnded

LEMMA SwitchKept ==
    ASSUME IInv, NEW op \in Ops, Step(op)
    PROVE  SwitchHoldsSession'
<1>. USE DEF IInv
<1> SUFFICES ASSUME NEW o \in Ops, request'[o].kind = "switch", request'[o].pc = "write"
             PROVE  /\ sessionLock'[request'[o].session] = o
                    /\ session'[request'[o].session].status = "active"
    BY DEF SwitchHoldsSession, At
<1>1. CASE o # op
    <2>1. request'[o] = request[o]
        BY <1>1, RequestsChange
    <2>2. /\ request[o].session \in Sessions
          /\ sessionLock[request[o].session] = o
          /\ session[request[o].session].status = "active"
        BY <2>1 DEF SwitchHoldsSession, At, Asked
    <2>. QED BY <1>1, <2>1, <2>2, LockSteps, SessionSteps, NameAssumption
<1>2. CASE o = op
    <2>1. LockSession(op) /\ request'[op].session = request[op].session
        BY <1>2, RequestSteps, Begun DEF Over, Goes, FindOthers, LockOther, At
    <2>2. /\ sessionLock' = [sessionLock EXCEPT ![request[op].session] = op]
          /\ session[request[op].session].status = "active"
          /\ request[op].session \in Sessions
        BY <1>2, <2>1, EndsOver DEF LockSession, At, Asked, Over
    <2>3. session' = session
        BY <2>1 DEF LockSession
    <2>. QED BY <1>2, <2>1, <2>2, <2>3 DEF TypeOK
<1>. QED BY <1>1, <1>2

LEMMA DeactivationKept ==
    ASSUME IInv, NEW op \in Ops, Step(op)
    PROVE  DeactivationHoldsCountries'
<1>. USE DEF IInv
<1> SUFFICES ASSUME NEW o \in Ops, request'[o].kind = "deactivate",
                    request'[o].pc \in {"lock", "write"}
             PROVE  /\ countryLock'[request'[o].country] = o
                    /\ request'[o].country \notin request'[o].todo \cup request'[o].found
                    /\ \A c \in request'[o].found : countryLock'[c] = o /\ c \in Active'
    BY DEF DeactivationHoldsCountries, At
<1>1. CASE o # op
    <2>1. request'[o] = request[o]
        BY <1>1, RequestsChange
    <2>2. /\ request[o].country \in Countries
          /\ countryLock[request[o].country] = o
          /\ request[o].country \notin request[o].todo \cup request[o].found
          /\ \A c \in request[o].found : countryLock[c] = o /\ c \in Active
        BY <2>1 DEF DeactivationHoldsCountries, At, Asked
    <2>3. \A c \in request[o].found : c \in Countries /\ country[c] = "active"
        BY <2>2 DEF Active
    <2>. QED BY <1>1, <2>1, <2>2, <2>3, LockSteps, CountrySteps DEF Active
<1>2. CASE o = op /\ LockCountry(op) /\ request'[op].found = request[op].found
                  /\ request'[op].todo = request[op].todo
    <2>1. /\ request[op].kind = "deactivate" /\ request[op].pc = "open"
          /\ request[op].country \in Countries
        BY <1>2 DEF LockCountry, At, Asked
    <2>2. /\ countryLock' = [countryLock EXCEPT ![request[op].country] = op]
          /\ request'[op].country = request[op].country
        BY <1>2, EndsOver, GotoGoes DEF LockCountry, Over, Goes, Pcs
    <2>3. request[op].found = {} /\ request[op].todo = {}
        BY <2>1 DEF Asked
    <2>. QED BY <1>2, <2>1, <2>2, <2>3 DEF TypeOK
<1>3. CASE o = op /\ FindOthers(op)
    <2>1. /\ request'[op].country = request[op].country
          /\ request'[op].todo = Active \ {request[op].country}
          /\ request'[op].found = request[op].found
        BY <1>3, Found DEF Goes
    <2>2. UNCHANGED <<country, countryLock>>
        BY <1>3 DEF FindOthers
    <2>3. Active' = Active
        BY <2>2 DEF Active
    <2>4. At(op, "deactivate", "lock")
        BY <1>3 DEF FindOthers
    <2>5. /\ countryLock[request[op].country] = op
          /\ request[op].country \notin request[op].found
          /\ \A c \in request[op].found : countryLock[c] = op /\ c \in Active
        BY <2>4 DEF DeactivationHoldsCountries
    <2>. QED BY <1>3, <2>1, <2>2, <2>3, <2>5
<1>4. CASE o = op /\ LockOther(op)
    <2>1. PICK c \in request[op].todo :
            \/ /\ c \in Active
               /\ request' = [request EXCEPT ![op].todo = @ \ {c}, ![op].found = @ \cup {c}]
               /\ countryLock' = [countryLock EXCEPT ![c] = op]
            \/ /\ request' = [request EXCEPT ![op].todo = @ \ {c}]
               /\ UNCHANGED countryLock
        BY <1>4 DEF LockOther
    <2>2. /\ request[op].kind = "deactivate" /\ request[op].pc = "write"
          /\ UNCHANGED country /\ c \in Countries /\ request[op].country \in Countries
        BY <1>4, <2>1, RequestOf DEF LockOther, At, Asked
    <2>3. /\ countryLock[request[op].country] = op
          /\ request[op].country \notin request[op].todo \cup request[op].found
          /\ \A d \in request[op].found : countryLock[d] = op /\ d \in Active
        BY <2>2 DEF DeactivationHoldsCountries, At
    <2>4. CASE /\ c \in Active
               /\ request' = [request EXCEPT ![op].todo = @ \ {c}, ![op].found = @ \cup {c}]
               /\ countryLock' = [countryLock EXCEPT ![c] = op]
        <3>1. /\ request'[op].country = request[op].country
              /\ request'[op].todo = request[op].todo \ {c}
              /\ request'[op].found = request[op].found \cup {c}
            BY <2>1, <2>4, Found DEF Goes
        <3>2. \A d \in Countries : countryLock'[d] = IF d = c THEN op ELSE countryLock[d]
            BY <2>4 DEF TypeOK
        <3>3. request[op].found \subseteq Countries /\ Active' = Active
            BY <2>2, RequestOf DEF Active
        <3>4. countryLock'[request[op].country] = op
            BY <2>2, <2>3, <3>2
        <3>5. \A d \in request[op].found \cup {c} : countryLock'[d] = op /\ d \in Active'
            BY <2>2, <2>3, <2>4, <3>2, <3>3
        <3>6. request[op].country \notin (request[op].todo \ {c}) \cup request[op].found \cup {c}
            BY <2>1, <2>3
        <3>. QED BY <1>4, <3>1, <3>4, <3>5, <3>6
    <2>5. CASE request' = [request EXCEPT ![op].todo = @ \ {c}] /\ UNCHANGED countryLock
        <3>1. /\ request'[op].country = request[op].country
              /\ request'[op].todo = request[op].todo \ {c}
              /\ request'[op].found = request[op].found
            BY <2>1, <2>5, Found DEF Goes
        <3>. QED BY <1>4, <2>2, <2>3, <2>5, <3>1 DEF Active
    <2>. QED BY <2>1, <2>4, <2>5
<1>5. CASE o = op /\ Begin(op)
    BY <1>5, Begun
<1>. QED BY <1>1, <1>2, <1>3, <1>4, <1>5, RequestSteps DEF Over, Goes

LEMMA LastCountryKept ==
    ASSUME IInv, NEW op \in Ops, Step(op)
    PROVE  LastCountryStays'
<1>1. PICK c \in Countries : country[c] = "active"
    BY DEF IInv, LastCountryStays, Active
<1>2. \E d \in Countries : country'[d] = "active"
    BY <1>1, CountrySteps
<1>. QED BY <1>2 DEF LastCountryStays, Active

LEMMA SignupsKept ==
    ASSUME IInv, NEW op \in Ops, Step(op)
    PROVE  SignupsAgree'
<1>. USE DEF IInv
<1>1. /\ \A a, b \in account : a.login = b.login => a = b
      /\ \A r \in Ops : signup[r].status = "approved" =>
            [login |-> signup[r].login, user |-> signup[r].user] \in account
      /\ \A a \in account : \E r \in Ops :
            signup[r].login = a.login /\ signup[r].status \in {"approved", "rejected"}
    BY DEF SignupsAgree
<1>2. CASE UNCHANGED <<signup, account>>
    BY <1>2 DEF SignupsAgree
<1>3. ASSUME NEW r \in Ops, account' = account,
             signup'[r].status \in {"pending", "rejected"},
             \/ signup[r].status = "none"
             \/ signup'[r].status = "rejected" /\ signup'[r].login = signup[r].login,
             \A o \in Ops \ {r} : signup'[o] = signup[o]
      PROVE  SignupsAgree'
    <2>1. \A o \in Ops : signup'[o].status = "approved" => signup'[o] = signup[o]
        BY <1>3
    <2>2. \A a \in account : \E o \in Ops :
            signup'[o].login = a.login /\ signup'[o].status \in {"approved", "rejected"}
        <3> SUFFICES ASSUME NEW a \in account
                     PROVE  \E o \in Ops : /\ signup'[o].login = a.login
                                           /\ signup'[o].status \in {"approved", "rejected"}
            OBVIOUS
        <3>1. PICK o \in Ops : /\ signup[o].login = a.login
                               /\ signup[o].status \in {"approved", "rejected"}
            BY <1>1
        <3>. QED BY <1>3, <3>1
    <2>. QED BY <1>1, <1>3, <2>1, <2>2 DEF SignupsAgree
<1>4. ASSUME NEW r \in Ops,
             account' = account \cup {[login |-> signup[r].login, user |-> op]},
             Accounts(signup[r].login) = {},
             signup'[r].status = "approved", signup'[r].login = signup[r].login,
             signup'[r].user = op,
             \A o \in Ops \ {r} : signup'[o] = signup[o]
      PROVE  SignupsAgree'
    <2>1. \A a \in account : a.login # signup[r].login
        BY <1>4 DEF Accounts
    <2> DEFINE new == [login |-> signup[r].login, user |-> op]
    <2>2. new.login = signup[r].login /\ account' = account \cup {new}
        BY <1>4
    <2>3. [login |-> signup'[r].login, user |-> signup'[r].user] = new
        BY <1>4
    <2>. HIDE DEF new
    <2>4. \A a, b \in account' : a.login = b.login => a = b
        BY <1>1, <2>1, <2>2
    <2>5. \A o \in Ops : signup'[o].status = "approved" =>
            [login |-> signup'[o].login, user |-> signup'[o].user] \in account'
        BY <1>1, <1>4, <2>2, <2>3
    <2>6. \A a \in account : \E o \in Ops :
            signup'[o].login = a.login /\ signup'[o].status \in {"approved", "rejected"}
        <3> SUFFICES ASSUME NEW a \in account
                     PROVE  \E o \in Ops : /\ signup'[o].login = a.login
                                           /\ signup'[o].status \in {"approved", "rejected"}
            OBVIOUS
        <3>1. PICK o \in Ops : /\ signup[o].login = a.login
                               /\ signup[o].status \in {"approved", "rejected"}
            BY <1>1
        <3>. QED BY <1>4, <3>1
    <2>. QED BY <1>4, <2>2, <2>4, <2>5, <2>6 DEF SignupsAgree
<1>. QED BY <1>2, <1>3, <1>4, SignupSteps

LEMMA Starts == Init => IInv
<1> SUFFICES ASSUME Init PROVE IInv
    OBVIOUS
<1>. USE DEF Init
<1>1. \A op \in Ops : request[op] = Idle
    OBVIOUS
<1>2. Idle.kind = None /\ Idle.pc = "idle"
    BY DEF Idle
<1>3. TypeOK
    <2>1. [status |-> "none", login |-> None, user |-> None] \in SignupRow
        BY DEF SignupRow
    <2>. QED BY <2>1, IdleType DEF TypeOK
<1>4. Asked
    BY <1>1, <1>2, KindAssumption DEF Asked, Kinds, Reviews
<1>5. RowsOfEnded
    BY DEF RowsOfEnded
<1>6. SwitchHoldsSession /\ DeactivationHoldsCountries
    BY <1>1, <1>2 DEF SwitchHoldsSession, DeactivationHoldsCountries, At
<1>7. LastCountryStays
    BY DEF LastCountryStays, Active
<1>8. SignupsAgree
    BY DEF SignupsAgree
<1>. QED BY <1>3, <1>4, <1>5, <1>6, <1>7, <1>8 DEF IInv

LEMMA Keeps == IInv /\ [Next]_vars => IInv'
<1> SUFFICES ASSUME IInv, [Next]_vars PROVE IInv'
    OBVIOUS
<1>1. CASE UNCHANGED vars
    BY <1>1 DEF vars, IInv, TypeOK, Asked, RowsOfEnded, SwitchHoldsSession,
       DeactivationHoldsCountries, LastCountryStays, SignupsAgree, At, Active
<1>2. ASSUME NEW op \in Ops, Step(op) PROVE IInv'
    <2>1. TypeOK'
        BY <1>2, CountrySteps, LockSteps, SessionSteps, SignupSteps, RequestsChange DEF TypeOK
    <2>. QED BY <1>2, <2>1, AskedKept, RowsKept, SwitchKept, DeactivationKept, LastCountryKept,
                SignupsKept DEF IInv
<1>. QED BY <1>1, <1>2 DEF Next, Step

-----------------------------------------------------------------------------
(* What follows *)

\* The tables of auth.py and countries.py only hold what their columns allow.
THEOREM AccessTyped == Spec => []TypeOK
<1>1. IInv => TypeOK
    BY DEF IInv
<1>. QED BY <1>1, Starts, Keeps, PTL DEF Spec

\* However many deactivations race, one country stays active (deactivate_country).
THEOREM OneCountryStaysActive == Spec => []LastCountryStays
<1>1. IInv => LastCountryStays
    BY DEF IInv
<1>. QED BY <1>1, Starts, Keeps, PTL DEF Spec

\* Accounts and signup requests agree, however many reviews race
\* (review_signup_request).
THEOREM AccountsAgreeWithSignups == Spec => []SignupsAgree
<1>1. IInv => SignupsAgree
    BY DEF IInv
<1>. QED BY <1>1, Starts, Keeps, PTL DEF Spec

\* A session that is revoked or expired is not opened again and does not move,
\* whatever switch was under way (switch_session_country).
THEOREM ClosedSessionsStayClosed == Spec => ClosedSessionStays
<1>1. IInv /\ [Next]_vars
        => [\A s \in Sessions : session[s].status \in {"revoked", "expired"} =>
                /\ session'[s].status \in {"revoked", "expired"}
                /\ session'[s].country = session[s].country]_vars
    <2> SUFFICES ASSUME IInv, Next, NEW s \in Sessions,
                        session[s].status \in {"revoked", "expired"}
                 PROVE  /\ session'[s].status \in {"revoked", "expired"}
                        /\ session'[s].country = session[s].country
        OBVIOUS
    <2>. QED BY SessionSteps DEF Next, Step
<1>. QED BY <1>1, Starts, Keeps, PTL DEF Spec, ClosedSessionStays
=============================================================================
