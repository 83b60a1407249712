---------------------------- MODULE AccessProofs ----------------------------
(***************************************************************************)
(* Access, for any number of clients, accounts, identities and emails, and *)
(* any lockout.  Each half of a step is one of a few moves: on the users   *)
(* collection, on the failure counts, on the cookies.  Three invariants,   *)
(* one per half and one for the cookies, follow the moves.                 *)
(***************************************************************************)
EXTENDS Access, TLAPS

(***************************************************************************)
(* The moves                                                               *)
(***************************************************************************)
Stop ==
    /\ signing' = Nobody
    /\ UNCHANGED <<users, visits>>

IdentityMove ==
    \/ UNCHANGED identityVars
    \/ \E g \in Subs, u \in Accounts : FindBySub(g, u)
    \/ \E g \in Subs, e \in Emails : NoneBySub(g, e)
    \/ FindByEmail
    \/ \E u \in Accounts : Attach(u)
    \/ \E u \in Accounts : AddUser(u)
    \/ \E u \in Accounts, e \in Emails \cup {NoEmail} : Patch(u, e)
    \/ Stop

GateMove ==
    \/ UNCHANGED <<now, gateVars>>
    \/ now' = now + 1 /\ UNCHANGED gateVars
    \/ \E c \in Clients : Forgive(c) /\ UNCHANGED now
    \/ \E c \in Clients : ~LockedOut(c) /\ RecordFailure(c) /\ UNCHANGED now
    \/ ForgetFailures /\ UNCHANGED now

LEMMA IdentityMoves == TypeOK /\ [Next]_vars => IdentityMove
<1> SUFFICES ASSUME TypeOK, [Next]_vars PROVE IdentityMove
  OBVIOUS
<1> USE DEF TypeOK, identityVars
<1>1. CASE \E c \in Clients : Send(c) \/ Arrive(c) \/ Lose(c)
  BY <1>1 DEF Send, Arrive, Lose, IdentityMove
<1>2. ASSUME NEW c \in Clients, NEW slow \in BOOLEAN, Handle(c, slow)
      PROVE  IdentityMove
  <2>1. CASE \E g \in Subs : Callback(c, slow, g)
    BY <2>1 DEF Callback, IdentityMove
  <2>2. CASE UserLogout(c, slow)
    BY <2>2 DEF UserLogout, IdentityMove
  <2>3. CASE \E e \in Emails \cup {NoEmail} : EditProfile(c, slow, e)
    <3>1. Session(c, slow).user \in Accounts \cup {NoAccount}
      BY DEF Session, Sessions, OnTheWay
    <3> QED
      BY <2>3, <3>1 DEF EditProfile, IdentityMove
  <2>4. CASE AdminPage(c, slow) \/ Unlock(c, slow) \/ UnlockRefused(c, slow) \/ Lock(c, slow)
    BY <2>4 DEF AdminPage, Unlock, UnlockRefused, Lock, IdentityMove
  <2> QED
    BY <1>2, <2>1, <2>2, <2>3, <2>4 DEF Handle
<1>3. CASE KeepSearching \/ SignInFails \/ \E u \in Accounts : SignIn(u)
  BY <1>3 DEF KeepSearching, SignInFails, AddUserFails, SignIn, Stop, IdentityMove
<1>4. CASE Tick \/ Restart
  BY <1>4 DEF Tick, Restart, Stop, IdentityMove
<1>5. CASE UNCHANGED vars
  BY <1>5 DEF vars, IdentityMove
<1> QED
  BY <1>1, <1>2, <1>3, <1>4, <1>5 DEF Next

LEMMA GateMoves == [Next]_vars => GateMove
<1> SUFFICES ASSUME [Next]_vars PROVE GateMove
  OBVIOUS
<1> USE DEF gateVars
<1>1. CASE \E c \in Clients : Send(c) \/ Arrive(c) \/ Lose(c)
  BY <1>1 DEF Send, Arrive, Lose, GateMove
<1>2. ASSUME NEW c \in Clients, NEW slow \in BOOLEAN, Handle(c, slow)
      PROVE  GateMove
  <2>1. CASE \E g \in Subs : Callback(c, slow, g)
    BY <2>1 DEF Callback, GateMove
  <2>2. CASE UserLogout(c, slow)
    BY <2>2 DEF UserLogout, GateMove
  <2>3. CASE \E e \in Emails \cup {NoEmail} : EditProfile(c, slow, e)
    BY <2>3 DEF EditProfile, GateMove
  <2>4. CASE AdminPage(c, slow) \/ Lock(c, slow)
    BY <2>4 DEF AdminPage, Lock, GateMove
  <2>5. CASE Unlock(c, slow)
    BY <2>5 DEF Unlock, GateMove
  <2>6. CASE UnlockRefused(c, slow)
    BY <2>6 DEF UnlockRefused, GateMove
  <2> QED
    BY <1>2, <2>1, <2>2, <2>3, <2>4, <2>5, <2>6 DEF Handle
<1>3. CASE KeepSearching \/ SignInFails \/ \E u \in Accounts : SignIn(u)
  BY <1>3 DEF KeepSearching, SignInFails, SignIn, GateMove
<1>4. CASE Tick \/ Restart
  BY <1>4 DEF Tick, Restart, GateMove
<1>5. CASE UNCHANGED vars
  BY <1>5 DEF vars, GateMove
<1> QED
  BY <1>1, <1>2, <1>3, <1>4, <1>5 DEF Next

(***************************************************************************)
(* Types                                                                   *)
(***************************************************************************)
LEMMA IdentityTypes == IdentityTypeOK /\ IdentityMove => IdentityTypeOK'
<1> SUFFICES ASSUME IdentityTypeOK, IdentityMove PROVE IdentityTypeOK'
  OBVIOUS
<1> USE DEF IdentityTypeOK, Callbacks, Users, Nobody, Resolve
<1>1. CASE UNCHANGED identityVars
  BY <1>1 DEF identityVars
<1>2. CASE \E g \in Subs, u \in Accounts : FindBySub(g, u)
  BY <1>2 DEF FindBySub
<1>3. CASE \E g \in Subs, e \in Emails : NoneBySub(g, e)
  BY <1>3 DEF NoneBySub
<1>4. CASE FindByEmail
  <2>1. signing \in [step : {"by_email", "attach", "insert"}, sub : Subs, email : Emails,
                     found : Accounts \cup {NoAccount}]
    <3>1. signing.step = "by_email"
      BY <1>4 DEF FindByEmail
    <3>2. signing # Nobody
      BY ONLY <3>1 DEF Nobody
    <3> QED
      BY <3>2
  <2>2. signing' \in [step : {"by_email", "attach", "insert"}, sub : Subs, email : Emails,
                      found : Accounts \cup {NoAccount}]
    BY <1>4, <2>1 DEF FindByEmail
  <2> QED
    BY <1>4, <2>2 DEF FindByEmail
<1>5. CASE \E u \in Accounts : Attach(u)
  BY <1>5 DEF Attach
<1>6. CASE \E u \in Accounts : AddUser(u)
  BY <1>6 DEF AddUser
<1>7. CASE \E u \in Accounts, e \in Emails \cup {NoEmail} : Patch(u, e)
  BY <1>7 DEF Patch
<1>8. CASE Stop
  BY <1>8 DEF Stop
<1> QED
  BY <1>1, <1>2, <1>3, <1>4, <1>5, <1>6, <1>7, <1>8 DEF IdentityMove

LEMMA LockoutBounds ==
    /\ Lockout \in Nat /\ Second <= Lockout
    /\ Wait \in Nat
    /\ \A k \in Nat : k * Wait \in Nat /\ (k + 1) * Wait = k * Wait + Wait
<1>1. LockoutSeconds \in Nat \ {0} /\ Second \in Nat \ {0}
  BY LockoutAssumption
<1>2. Lockout \in Nat /\ Second <= Lockout
  BY <1>1, SMT DEF Lockout
<1>3. Wait \in Nat
  BY <1>1, <1>2 DEF Wait
<1>4. ASSUME NEW w \in Nat, NEW k \in Nat
      PROVE  k * w \in Nat /\ (k + 1) * w = k * w + w
  BY SMT
<1> QED
  BY <1>2, <1>3, <1>4

LEMMA GateTypes == GateTypeOK /\ GateMove => GateTypeOK'
<1> SUFFICES ASSUME GateTypeOK, GateMove PROVE GateTypeOK'
  OBVIOUS
<1> USE LockoutBounds DEF GateTypeOK, gateVars
<1>1. CASE UNCHANGED <<now, gateVars>>
  BY <1>1
<1>2. CASE now' = now + 1 /\ UNCHANGED gateVars
  BY <1>2
<1>3. CASE \E c \in Clients : Forgive(c) /\ UNCHANGED now
  BY <1>3 DEF Forgive, NoFailures
<1>4. CASE \E c \in Clients : ~LockedOut(c) /\ RecordFailure(c) /\ UNCHANGED now
  BY <1>4 DEF RecordFailure
<1>5. CASE ForgetFailures /\ UNCHANGED now
  BY <1>5 DEF ForgetFailures, NoFailures
<1> QED
  BY <1>1, <1>2, <1>3, <1>4, <1>5 DEF GateMove
(***************************************************************************)
(* The accounts                                                            *)
(***************************************************************************)
\* An identity on an account has been let into it; an account only one identity was let
\* into carries that one; and no account carries the identity a search is for.
IdentityInv ==
    /\ \A u, v \in Accounts : users[u].sub = users[v].sub => u = v \/ users[u].sub = NoSub
    /\ \A g \in Subs, u \in Accounts :
          <<g, u>> \in visits => users[u].sub = g \/ Shared(u)
    /\ signing # Nobody => \A u \in Accounts : users[u].sub # signing.sub

LEMMA SharedStays ==
    ASSUME NEW u, visits \subseteq visits', Shared(u) PROVE Shared(u)'
BY DEF Shared

\* The moves that leave every account its identity.
LEMMA SameSubs ==
    ASSUME IdentityInv, visits' = visits,
           \A u \in Accounts : users'[u].sub = users[u].sub,
           signing' = signing \/ signing' = Nobody \/
               (signing # Nobody /\ signing'.sub = signing.sub)
    PROVE  IdentityInv'
<1>1. \A u : Shared(u)' <=> Shared(u)
  BY DEF Shared
<1> QED
  BY <1>1 DEF IdentityInv

\* The moves that let identity g into account u, which no account carries.
LEMMA NewSub ==
    ASSUME IdentityInv, NEW g \in Subs, NEW u \in Accounts,
           visits' = visits \cup {<<g, u>>}, signing' = Nobody,
           \A v \in Accounts : users[v].sub # g,
           users'[u].sub = g,
           \A v \in Accounts \ {u} : users'[v].sub = users[v].sub
    PROVE  IdentityInv'
<1>1. \A v, w \in Accounts : users'[v].sub = users'[w].sub => v = w \/ users'[v].sub = NoSub
  BY DEF IdentityInv
<1>2. ASSUME NEW h \in Subs, NEW v \in Accounts, <<h, v>> \in visits'
      PROVE  users'[v].sub = h \/ Shared(v)'
  <2>1. CASE v = u
    BY <1>2, <2>1 DEF Shared
  <2>2. CASE v # u
    <3>1. <<h, v>> \in visits
      BY <1>2, <2>2
    <3>2. Shared(v) => Shared(v)'
      BY SharedStays
    <3> QED
      BY <2>2, <3>1, <3>2 DEF IdentityInv
  <2> QED
    BY <2>1, <2>2
<1> QED
  BY <1>1, <1>2 DEF IdentityInv

LEMMA IdentityStep == IdentityTypeOK /\ IdentityInv /\ IdentityMove => IdentityInv'
<1> SUFFICES ASSUME IdentityTypeOK, IdentityInv, IdentityMove PROVE IdentityInv'
  OBVIOUS
<1>1. CASE UNCHANGED identityVars
  BY <1>1, SameSubs DEF identityVars
<1>2. ASSUME NEW g \in Subs, NEW u \in Accounts, FindBySub(g, u)
      PROVE  IdentityInv'
  <2>1. ASSUME NEW h \in Subs, NEW v \in Accounts, <<h, v>> \in visits'
        PROVE  users'[v].sub = h \/ Shared(v)'
    <3>1. CASE <<h, v>> = <<g, u>>
      BY <1>2, <3>1 DEF FindBySub
    <3>2. CASE <<h, v>> \in visits
      BY <1>2, <3>2, SharedStays DEF FindBySub, Resolve, IdentityInv
    <3> QED
      BY <1>2, <2>1, <3>1, <3>2 DEF FindBySub, Resolve
  <2> QED
    BY <1>2, <2>1 DEF FindBySub, Resolve, IdentityInv
<1>3. ASSUME NEW g \in Subs, NEW e \in Emails, NoneBySub(g, e)
      PROVE  IdentityInv'
  <2>1. signing'.sub = g
    BY <1>3 DEF NoneBySub
  <2>2. \A v \in Accounts : users'[v].sub # g
    BY <1>3 DEF NoneBySub
  <2>3. users' = users /\ visits' = visits
    BY <1>3 DEF NoneBySub
  <2>4. \A h \in Subs, v \in Accounts : <<h, v>> \in visits' =>
            users'[v].sub = h \/ Shared(v)'
    BY <2>3, SharedStays DEF IdentityInv
  <2> QED
    BY <2>1, <2>2, <2>3, <2>4 DEF IdentityInv
<1>4. CASE FindByEmail
  <2>1. signing # Nobody
    <3>1. signing.step = "by_email"
      BY <1>4 DEF FindByEmail
    <3> QED
      BY ONLY <3>1 DEF Nobody
  <2>2. signing \in [step : {"by_email", "attach", "insert"}, sub : Subs, email : Emails,
                     found : Accounts \cup {NoAccount}]
    BY <2>1 DEF IdentityTypeOK, Callbacks
  <2>3. signing'.sub = signing.sub
    BY <1>4, <2>2 DEF FindByEmail
  <2> QED
    BY <1>4, <2>1, <2>3, SameSubs DEF FindByEmail
<1>5. ASSUME NEW u \in Accounts, Attach(u) \/ AddUser(u)
      PROVE  IdentityInv'
  <2>1. signing # Nobody /\ signing.sub \in Subs
    BY <1>5 DEF Attach, AddUser, Nobody, IdentityTypeOK, Callbacks
  <2>2. users'[u].sub = signing.sub
    BY <1>5 DEF Attach, AddUser, IdentityTypeOK, Users
  <2>3. \A v \in Accounts \ {u} : users'[v].sub = users[v].sub
    BY <1>5 DEF Attach, AddUser, IdentityTypeOK, Users
  <2>4. visits' = visits \cup {<<signing.sub, u>>} /\ signing' = Nobody
    BY <1>5 DEF Attach, AddUser, Resolve
  <2>5. \A v \in Accounts : users[v].sub # signing.sub
    BY <2>1 DEF IdentityInv
  <2> QED
    BY <2>1, <2>2, <2>3, <2>4, <2>5, NewSub
<1>6. CASE \E u \in Accounts, e \in Emails \cup {NoEmail} : Patch(u, e)
  <2>1. \A u \in Accounts : users'[u].sub = users[u].sub
    BY <1>6 DEF Patch, IdentityTypeOK, Users
  <2> QED
    BY <1>6, <2>1, SameSubs DEF Patch
<1>7. CASE Stop
  BY <1>7, SameSubs DEF Stop
<1> QED
  BY <1>1, <1>2, <1>3, <1>4, <1>5, <1>6, <1>7 DEF IdentityMove

(***************************************************************************)
(* The failure counts                                                      *)
(***************************************************************************)
\* A count that has reached the limit ends its wait no earlier than all the waits it has
\* already cost would.
GateInv ==
    \A c \in Clients :
        /\ wrong[c] = failures[c].count
        /\ since[c] <= now
        /\ failures[c].until <= now + Lockout
        /\ failures[c].count > 0 => since[c] + Lockout <= failures[c].until
        /\ failures[c].count >= LockoutAfter =>
              since[c] + Lockout + (failures[c].count - LockoutAfter) * Wait
                  <= failures[c].until

LEMMA GateStep == GateTypeOK /\ GateInv /\ GateMove => GateInv'
<1> SUFFICES ASSUME GateTypeOK, GateInv, GateMove PROVE GateInv'
  OBVIOUS
<1> USE LockoutBounds, LockoutAssumption DEF GateTypeOK, gateVars
<1>1. CASE UNCHANGED <<now, gateVars>>
  BY <1>1 DEF GateInv
<1>2. CASE now' = now + 1 /\ UNCHANGED gateVars
  BY <1>2 DEF GateInv
<1>3. CASE \E c \in Clients : Forgive(c) /\ UNCHANGED now
  BY <1>3 DEF Forgive, NoFailures, GateInv
<1>4. ASSUME NEW c \in Clients, ~LockedOut(c), RecordFailure(c), UNCHANGED now
      PROVE  GateInv'
  <2> DEFINE k == failures[c].count
  <2>1. failures'[c].count = k + 1 /\ failures'[c].until = now + Lockout /\ k \in Nat
    BY <1>4 DEF RecordFailure
  <2>2. wrong'[c] = k + 1 /\ since'[c] = since[c] /\ now' = now
    BY <1>4 DEF RecordFailure, GateInv
  <2>3. CASE k + 1 < LockoutAfter
    BY <1>4, <2>1, <2>2, <2>3 DEF RecordFailure, GateInv
  <2>4. CASE k + 1 = LockoutAfter
    <3>1. (k + 1 - LockoutAfter) * Wait = 0
      BY <2>1, <2>4
    <3> QED
      BY <1>4, <2>1, <2>2, <2>4, <3>1 DEF RecordFailure, GateInv
  <2>5. CASE k >= LockoutAfter
    <3>1. failures[c].until + 1 <= now + Second
      BY <1>4, <2>5 DEF LockedOut
    <3>2. PICK d \in Nat : d = k - LockoutAfter
      BY <2>1, <2>5
    <3>3. k + 1 - LockoutAfter = d + 1
      BY <2>1, <3>2
    <3>4. since[c] + Lockout + d * Wait <= failures[c].until
      BY <2>5, <3>2 DEF GateInv
    <3>5. d * Wait \in Nat /\ (d + 1) * Wait = d * Wait + Wait
      BY <3>2
    <3>6. since[c] + Lockout + (d + 1) * Wait <= now + Lockout
      BY <3>1, <3>4, <3>5 DEF Wait
    <3>7. failures'[c].count - LockoutAfter = d + 1
      BY <2>1, <3>3
    <3>8. since'[c] + Lockout + (failures'[c].count - LockoutAfter) * Wait
              <= failures'[c].until
      BY <2>1, <2>2, <3>6, <3>7
    <3>9. since'[c] + Lockout <= failures'[c].until
      BY <2>1, <2>2 DEF GateInv
    <3> QED
      BY <1>4, <2>1, <2>2, <3>8, <3>9 DEF RecordFailure, GateInv
  <2>6. k + 1 < LockoutAfter \/ k + 1 = LockoutAfter \/ k >= LockoutAfter
    <3> HIDE DEF k
    <3> QED
      BY <2>1
  <2> QED
    BY <2>3, <2>4, <2>5, <2>6
<1>5. CASE ForgetFailures /\ UNCHANGED now
  BY <1>5 DEF ForgetFailures, NoFailures, GateInv
<1> QED
  BY <1>1, <1>2, <1>3, <1>4, <1>5 DEF GateMove

(***************************************************************************)
(* The cookies                                                             *)
(***************************************************************************)
\* An unlock in a session of client c, wherever the session is, is no younger than the
\* last right key of c.
Aged(c, session) ==
    session.unlocked # NoTime => answered[c] # NoTime /\ session.unlocked <= answered[c]

CookieInv ==
    /\ \A c \in Clients : Aged(c, jar[c]) /\ Aged(c, late[c].session)
    /\ \A c \in Clients : caller.client = c => Aged(c, caller.session)
    /\ \A c \in Clients : answered[c] # NoTime => answered[c] <= now
    /\ PagesEndWithUnlock

\* What a client holds, in its cookie or on its way, after an answer: what it held, or the
\* answer.
LEMMA Responded ==
    ASSUME TypeOK, NEW c \in Clients, NEW slow \in BOOLEAN, NEW session \in Sessions,
           Respond(c, slow, session)
    PROVE  /\ jar' \in [Clients -> Sessions] /\ late' \in [Clients -> OnTheWay]
           /\ \A d \in Clients : jar'[d] = jar[d] \/ (d = c /\ jar'[d] = session)
           /\ \A d \in Clients : late'[d].session = late[d].session
                                  \/ (d = c /\ late'[d].session = session)
<1>1. CASE slow
  BY <1>1 DEF Respond, TypeOK, OnTheWay
<1>2. CASE ~slow
  BY <1>2 DEF Respond, TypeOK
<1> QED
  BY <1>1, <1>2

LEMMA SessionType ==
    ASSUME TypeOK, NEW c \in Clients, NEW slow \in BOOLEAN
    PROVE  Session(c, slow) \in Sessions
BY DEF TypeOK, Session, OnTheWay

LEMMA Edited ==
    ASSUME NEW s \in Sessions, NEW u \in Accounts \cup {NoAccount}, NEW t \in Times
    PROVE  /\ [s EXCEPT !.user = u] \in Sessions
           /\ [s EXCEPT !.user = u].unlocked = s.unlocked
           /\ [s EXCEPT !.unlocked = t] \in Sessions
           /\ [s EXCEPT !.unlocked = t].unlocked = t
BY DEF Sessions

\* A handler that leaves now, caller and the ghosts alone and answers with a session whose
\* unlock is none or the one it was sent.
LEMMA Answered ==
    ASSUME TypeOK, CookieInv, NEW c \in Clients, NEW slow \in BOOLEAN,
           NEW session \in Sessions, Respond(c, slow, session),
           session.unlocked \in {NoTime, Session(c, slow).unlocked},
           UNCHANGED <<now, caller, answered>>, PagesEndWithUnlock'
    PROVE  CookieInv'
<1>1. Aged(c, session)
  BY DEF Aged, CookieInv, Session
<1>2. \A d \in Clients : Aged(d, jar'[d]) /\ Aged(d, late'[d].session)
  BY <1>1, Responded DEF CookieInv
<1> QED
  BY <1>2 DEF CookieInv, Aged

\* The types of the cookies' half of the state.
CookieTypeOK ==
    /\ jar \in [Clients -> Sessions]
    /\ late \in [Clients -> OnTheWay]
    /\ caller \in [client : Clients \cup {NoClient}, slow : BOOLEAN, session : Sessions]
    /\ answered \in [Clients -> Times] /\ shown \in [Clients -> Times]
    /\ requests \in Nat

LEMMA EmptyType == Empty \in Sessions /\ Empty.unlocked = NoTime /\ Nothing \in OnTheWay
BY DEF Empty, Sessions, Times, Nothing, OnTheWay

LEMMA HandlerStep ==
    ASSUME TypeOK, CookieInv, NEW c \in Clients, NEW slow \in BOOLEAN, Handle(c, slow)
    PROVE  CookieTypeOK' /\ CookieInv'
<1> DEFINE s == Session(c, slow)
<1>s. s \in Sessions
  BY SessionType
<1>n. now \in Nat /\ now \in Times /\ NoTime \in Times /\ now # NoTime
  BY AccessAssumption DEF TypeOK, GateTypeOK, Times
<1>a. Aged(c, s)
  BY DEF Aged, CookieInv, Session
<1>r. ASSUME Received(c, slow) PROVE requests' \in Nat
  BY <1>r DEF Received, TypeOK
<1> HIDE DEF s
<1>1. ASSUME NEW g \in Subs, Callback(c, slow, g)
      PROVE  CookieTypeOK' /\ CookieInv'
  <2>1. ASSUME NEW u \in Accounts, Respond(c, slow, [s EXCEPT !.user = u]),
               UNCHANGED caller
        PROVE  CookieTypeOK' /\ CookieInv'
    <3>1. [s EXCEPT !.user = u] \in Sessions /\ [s EXCEPT !.user = u].unlocked = s.unlocked
      BY <1>s, <1>n, Edited
    <3>2. UNCHANGED <<now, caller, answered, shown>>
      BY <1>1, <2>1 DEF Callback, ghostVars
    <3>3. CookieInv'
      BY <2>1, <3>1, <3>2, Answered DEF s, CookieInv, PagesEndWithUnlock
    <3> QED
      BY <1>1, <1>r, <2>1, <3>1, <3>2, <3>3, Responded DEF Callback, CookieTypeOK, TypeOK
  <2>2. ASSUME caller' = [client |-> c, slow |-> slow, session |-> s],
               late' = IF slow THEN [late EXCEPT ![c].stage = "handling"] ELSE late,
               UNCHANGED jar
        PROVE  CookieTypeOK' /\ CookieInv'
    <3>1. late' \in [Clients -> OnTheWay]
      BY <2>2 DEF TypeOK, OnTheWay
    <3>2. \A d \in Clients : late'[d].session = late[d].session
      BY <2>2 DEF TypeOK, OnTheWay
    <3>3. UNCHANGED <<now, answered, shown>>
      BY <1>1 DEF Callback, ghostVars
    <3>4. CookieTypeOK'
      BY <1>1, <1>r, <1>s, <2>2, <3>1, <3>3 DEF Callback, CookieTypeOK, TypeOK
    <3>5. caller'.client = c /\ caller'.session = s
      BY <2>2
    <3> QED
      BY <1>a, <2>2, <3>2, <3>3, <3>4, <3>5 DEF CookieInv, Aged, PagesEndWithUnlock
  <2> QED
    BY <1>1, <2>1, <2>2 DEF Callback, s
<1>2. CASE UserLogout(c, slow)
  <2>1. Respond(c, slow, Empty) /\ UNCHANGED <<now, caller, answered, shown>>
    BY <1>2 DEF UserLogout, ghostVars
  <2>2. CookieInv'
    BY <2>1, EmptyType, Answered DEF CookieInv, PagesEndWithUnlock
  <2> QED
    BY <1>2, <1>r, <2>1, <2>2, EmptyType, Responded DEF UserLogout, CookieTypeOK, TypeOK
<1>3. CASE \E e \in Emails \cup {NoEmail} : EditProfile(c, slow, e)
  <2>1. /\ Respond(c, slow, s) /\ Received(c, slow)
        /\ UNCHANGED <<now, caller, answered, shown>>
    BY <1>3 DEF EditProfile, ghostVars, s
  <2>2. CookieInv'
    BY <1>s, <2>1, Answered DEF s, CookieInv, PagesEndWithUnlock
  <2> QED
    BY <1>r, <1>s, <2>1, <2>2, Responded DEF CookieTypeOK, TypeOK
<1>4. CASE AdminPage(c, slow)
  <2>1. UNCHANGED <<now, caller, answered>> /\ Received(c, slow) /\ s.unlocked # NoTime
    BY <1>4 DEF AdminPage, s
  <2>2. CASE Expired(s.unlocked)
    <3>1. Respond(c, slow, [s EXCEPT !.unlocked = NoTime]) /\ UNCHANGED shown
      BY <1>4, <2>2 DEF AdminPage, s
    <3>2. /\ [s EXCEPT !.unlocked = NoTime] \in Sessions
          /\ [s EXCEPT !.unlocked = NoTime].unlocked = NoTime
      BY <1>s, <1>n, Edited
    <3>3. CookieInv'
      BY <2>1, <3>1, <3>2, Answered DEF CookieInv, PagesEndWithUnlock
    <3> QED
      BY <1>r, <2>1, <3>1, <3>2, <3>3, Responded DEF CookieTypeOK, TypeOK
  <2>3. CASE ~Expired(s.unlocked)
    <3>1. Respond(c, slow, s) /\ shown' = [shown EXCEPT ![c] = now]
      BY <1>4, <2>3 DEF AdminPage, s
    <3>2. answered[c] # NoTime /\ s.unlocked <= answered[c]
      BY <1>a, <2>1 DEF Aged
    <3>3. s.unlocked \in Nat /\ answered[c] \in Nat
      BY <1>s, <2>1, <3>2 DEF Sessions, Times, TypeOK
    <3>4. now <= answered[c] + SessionTtl
      BY <1>n, <2>3, <3>2, <3>3, AccessAssumption DEF Expired
    <3>5. PagesEndWithUnlock'
      BY <2>1, <3>1, <3>2, <3>4 DEF CookieInv, PagesEndWithUnlock, TypeOK
    <3>6. CookieInv'
      BY <1>s, <2>1, <3>1, <3>5, Answered DEF s
    <3> QED
      BY <1>r, <1>s, <1>n, <2>1, <3>1, <3>6, Responded DEF CookieTypeOK, TypeOK
  <2> QED
    BY <2>2, <2>3
<1>5. CASE Unlock(c, slow)
  <2>1. /\ UNCHANGED <<now, caller, shown>> /\ Received(c, slow)
        /\ Respond(c, slow, [s EXCEPT !.unlocked = now])
        /\ answered' = [answered EXCEPT ![c] = now]
    BY <1>5 DEF Unlock, s
  <2>2. [s EXCEPT !.unlocked = now] \in Sessions /\ [s EXCEPT !.unlocked = now].unlocked = now
    BY <1>s, <1>n, Edited
  <2>3. CookieTypeOK'
    BY <1>r, <1>n, <2>1, <2>2, Responded DEF CookieTypeOK, TypeOK
  <2>4. \A d \in Clients : answered'[d] = answered[d] \/ (d = c /\ answered'[d] = now)
    BY <2>1 DEF TypeOK
  <2>5. answered'[c] = now
    BY <2>1 DEF TypeOK
  <2>6. ASSUME NEW d \in Clients, NEW t \in Sessions, Aged(d, t)
        PROVE  Aged(d, t)'
    <3>1. CASE t.unlocked = NoTime
      BY <3>1 DEF Aged
    <3>2. CASE t.unlocked # NoTime
      <4>1. answered[d] # NoTime /\ t.unlocked <= answered[d] /\ answered[d] <= now
        BY <2>6, <3>2 DEF Aged, CookieInv
      <4>2. t.unlocked \in Nat /\ answered[d] \in Nat
        BY <3>2, <4>1 DEF Sessions, Times, TypeOK
      <4> QED
        BY <1>n, <2>4, <4>1, <4>2 DEF Aged
    <3> QED
      BY <3>1, <3>2
  <2>7. ASSUME NEW d \in Clients
        PROVE  Aged(d, jar[d])' /\ Aged(d, late[d].session)'
    <3>1. jar[d] \in Sessions /\ late[d].session \in Sessions
      BY DEF TypeOK, OnTheWay
    <3>2. \A t \in Sessions : t.unlocked = now => Aged(c, t)'
      BY <1>n, <2>5 DEF Aged
    <3>3. Aged(d, jar[d]) /\ Aged(d, late[d].session)
      BY DEF CookieInv
    <3>4. /\ jar'[d] = jar[d] \/ (d = c /\ jar'[d] = [s EXCEPT !.unlocked = now])
          /\ late'[d].session = late[d].session
              \/ (d = c /\ late'[d].session = [s EXCEPT !.unlocked = now])
      BY <2>1, <2>2, Responded
    <3> QED
      BY <2>2, <2>6, <3>1, <3>2, <3>3, <3>4 DEF Aged
  <2>8. ASSUME NEW d \in Clients, caller'.client = d
        PROVE  Aged(d, caller.session)'
    BY <2>1, <2>6, <2>8 DEF CookieInv, TypeOK, Aged
  <2>9. \A d \in Clients : answered'[d] # NoTime => answered'[d] <= now'
    BY <1>n, <2>1, <2>4 DEF CookieInv
  <2>x. PagesEndWithUnlock'
    <3> SUFFICES ASSUME NEW d \in Clients, shown'[d] # NoTime
                 PROVE  answered'[d] # NoTime /\ shown'[d] <= answered'[d] + SessionTtl
      BY DEF PagesEndWithUnlock
    <3>1. answered[d] # NoTime /\ shown[d] <= answered[d] + SessionTtl /\ answered[d] <= now
      BY <2>1 DEF CookieInv, PagesEndWithUnlock
    <3>2. answered[d] \in Nat /\ shown[d] \in Nat
      BY <2>1, <3>1 DEF TypeOK, Times
    <3> QED
      BY <1>n, <2>1, <2>4, <3>1, <3>2, AccessAssumption
  <2> QED
    BY <2>3, <2>7, <2>8, <2>9, <2>x DEF CookieInv
<1>6. CASE UnlockRefused(c, slow)
  <2>1. /\ Respond(c, slow, s) /\ Received(c, slow)
        /\ UNCHANGED <<now, caller, answered, shown>>
    BY <1>6 DEF UnlockRefused, ghostVars, s
  <2>2. CookieInv'
    BY <1>s, <2>1, Answered DEF s, CookieInv, PagesEndWithUnlock
  <2> QED
    BY <1>r, <1>s, <2>1, <2>2, Responded DEF CookieTypeOK, TypeOK
<1>7. CASE Lock(c, slow)
  <2>1. /\ Respond(c, slow, [s EXCEPT !.unlocked = NoTime]) /\ Received(c, slow)
        /\ UNCHANGED <<now, caller, answered, shown>>
    BY <1>7 DEF Lock, ghostVars, s
  <2>2. /\ [s EXCEPT !.unlocked = NoTime] \in Sessions
        /\ [s EXCEPT !.unlocked = NoTime].unlocked = NoTime
    BY <1>s, <1>n, Edited
  <2>3. CookieInv'
    BY <2>1, <2>2, Answered DEF CookieInv, PagesEndWithUnlock
  <2> QED
    BY <1>r, <2>1, <2>2, <2>3, Responded DEF CookieTypeOK, TypeOK
<1> QED
  BY <1>1, <1>2, <1>3, <1>4, <1>5, <1>6, <1>7 DEF Handle

LEMMA CookieStep == TypeOK /\ CookieInv /\ [Next]_vars => CookieTypeOK' /\ CookieInv'
<1> SUFFICES ASSUME TypeOK, CookieInv, [Next]_vars PROVE CookieTypeOK' /\ CookieInv'
  OBVIOUS
<1> USE DEF CookieTypeOK, ghostVars, cookieVars
<1>1. CASE UNCHANGED <<now, jar, late, caller, answered, shown, requests>>
  BY <1>1 DEF TypeOK, CookieInv, Aged, PagesEndWithUnlock
<1>2. ASSUME NEW c \in Clients, Send(c)
      PROVE  CookieTypeOK' /\ CookieInv'
  BY <1>2 DEF Send, TypeOK, OnTheWay, CookieInv, Aged, PagesEndWithUnlock
<1>3. ASSUME NEW c \in Clients, Arrive(c)
      PROVE  CookieTypeOK' /\ CookieInv'
  BY <1>3, EmptyType DEF Arrive, Nothing, TypeOK, OnTheWay, CookieInv, Aged, PagesEndWithUnlock
<1>4. ASSUME NEW c \in Clients, Lose(c)
      PROVE  CookieTypeOK' /\ CookieInv'
  BY <1>4, EmptyType DEF Lose, Nothing, TypeOK, OnTheWay, CookieInv, Aged, PagesEndWithUnlock
<1>5. CASE \E c \in Clients, slow \in BOOLEAN : Handle(c, slow)
  BY <1>5, HandlerStep
<1>6. ASSUME NEW u \in Accounts, SignIn(u)
      PROVE  CookieTypeOK' /\ CookieInv'
  <2> DEFINE t == [caller.session EXCEPT !.user = u]
             c == caller.client
  <2>1. /\ Respond(c, caller.slow, t) /\ caller' = NoCaller
        /\ UNCHANGED <<now, answered, shown, requests>>
    BY <1>6 DEF SignIn
  <2>2. caller.session \in Sessions /\ caller.slow \in BOOLEAN /\ c \in Clients \cup {NoClient}
    BY DEF TypeOK
  <2>3. t \in Sessions /\ t.unlocked = caller.session.unlocked
    BY <2>2, AccessAssumption, Edited DEF Times
  <2>4. /\ jar' \in [Clients -> Sessions] /\ late' \in [Clients -> OnTheWay]
        /\ \A d \in Clients : jar'[d] = jar[d] \/ (d = c /\ jar'[d] = t)
        /\ \A d \in Clients : late'[d].session = late[d].session
                               \/ (d = c /\ late'[d].session = t)
    <3> HIDE DEF t
    <3>1. CASE c \in Clients
      BY <2>1, <2>2, <2>3, <3>1, Responded
    <3>2. CASE c = NoClient
      <4>1. jar' = jar /\ late' = late
        BY <2>1, <3>2, AccessAssumption DEF Respond, TypeOK
      <4> QED
        BY <4>1 DEF TypeOK
    <3> QED
      BY <2>2, <3>1, <3>2
  <2>5. caller' \in [client : Clients \cup {NoClient}, slow : BOOLEAN, session : Sessions]
    BY <2>1, EmptyType DEF NoCaller
  <2>6. c \in Clients => Aged(c, t)
    BY <2>3 DEF CookieInv, Aged
  <2>7. \A d \in Clients : caller'.client # d
    BY <2>1, AccessAssumption DEF NoCaller
  <2> HIDE DEF t
  <2> QED
    BY <2>1, <2>4, <2>5, <2>6, <2>7 DEF TypeOK, CookieInv, Aged, PagesEndWithUnlock
<1>7. CASE SignInFails \/ Restart
  <2>1. /\ UNCHANGED <<now, jar, answered, shown, requests>> /\ caller' = NoCaller
        /\ late' \in [Clients -> OnTheWay]
        /\ \A d \in Clients : late'[d].session = late[d].session \/ late'[d].session = Empty
    BY <1>7, EmptyType DEF SignInFails, Restart, TypeOK, Nothing
  <2>2. caller' \in [client : Clients \cup {NoClient}, slow : BOOLEAN, session : Sessions]
    BY <2>1, EmptyType DEF NoCaller
  <2>3. \A d \in Clients : caller'.client # d
    BY <2>1, AccessAssumption DEF NoCaller
  <2> QED
    BY <2>1, <2>2, <2>3, EmptyType DEF TypeOK, CookieInv, Aged, PagesEndWithUnlock
<1>8. CASE Tick
  BY <1>8 DEF Tick, TypeOK, GateTypeOK, Times, CookieInv, Aged, PagesEndWithUnlock
<1>9. CASE KeepSearching \/ UNCHANGED vars
  BY <1>1, <1>9 DEF KeepSearching, vars
<1> QED
  BY <1>2, <1>3, <1>4, <1>5, <1>6, <1>7, <1>8, <1>9 DEF Next

(***************************************************************************)
(* The theorems                                                            *)
(***************************************************************************)
IInv == TypeOK /\ IdentityInv /\ GateInv /\ CookieInv

LEMMA InitIInv == Init => IInv
<1> SUFFICES ASSUME Init PROVE IInv
  OBVIOUS
<1>1. IdentityTypeOK /\ IdentityInv
  <2>1. ASSUME NEW u \in Accounts
        PROVE  users[u] \in Users /\ users[u].sub = NoSub
    <3>1. CASE users[u] = Absent
      BY <3>1 DEF Users, Absent
    <3>2. CASE users[u] \in [made : {TRUE}, email : Emails, sub : {NoSub}]
      <4>1. users[u].sub = NoSub
        BY <3>2
      <4>2. {TRUE} \subseteq BOOLEAN
        OBVIOUS
      <4>3. users[u] \in Users
        BY <3>2, <4>2 DEF Users
      <4> QED
        BY <4>1, <4>3
    <3> QED
      BY <3>1, <3>2 DEF Init, IdentityInit
  <2>2. users \in [Accounts -> Users]
    BY <2>1 DEF Init, IdentityInit
  <2>3. signing = Nobody /\ visits = {}
    BY DEF Init, IdentityInit
  <2> QED
    BY <2>1, <2>2, <2>3 DEF IdentityTypeOK, IdentityInv, Callbacks
<1>2. GateTypeOK /\ GateInv
  BY LockoutBounds, LockoutAssumption DEF Init, GateInit, GateTypeOK, GateInv, NoFailures
<1>3. TypeOK
  BY <1>1, <1>2, EmptyType DEF Init, TypeOK, Times, NoCaller
<1>4. CookieInv
  BY EmptyType, AccessAssumption
     DEF Init, CookieInv, Aged, PagesEndWithUnlock, Nothing, NoCaller
<1> QED
  BY <1>1, <1>2, <1>3, <1>4 DEF IInv

LEMMA StepIInv == IInv /\ [Next]_vars => IInv'
<1> SUFFICES ASSUME IInv, [Next]_vars PROVE IInv'
  OBVIOUS
<1>1. IdentityTypeOK /\ GateTypeOK
  BY DEF IInv, TypeOK
<1>2. IdentityTypeOK' /\ IdentityInv'
  BY <1>1, IdentityMoves, IdentityTypes, IdentityStep DEF IInv
<1>3. GateTypeOK' /\ GateInv'
  BY <1>1, GateMoves, GateTypes, GateStep DEF IInv
<1>4. CookieTypeOK' /\ CookieInv'
  BY CookieStep DEF IInv
<1>5. TypeOK'
  BY <1>2, <1>3, <1>4 DEF TypeOK, CookieTypeOK
<1> QED
  BY <1>2, <1>3, <1>4, <1>5 DEF IInv

LEMMA Invariance == Spec => []IInv
<1>1. Init => IInv
  BY InitIInv
<1>2. IInv /\ [Next]_vars => IInv'
  BY StepIInv
<1> QED
  BY <1>1, <1>2, PTL DEF Spec

\* Every variable of Access keeps its type.
THEOREM TypeCorrect == Spec => []TypeOK
<1>1. IInv => TypeOK
  BY DEF IInv
<1> QED
  BY <1>1, Invariance, PTL

\* Signing in again leads back to the same account (get_or_create_google_user): an
\* account one identity was let into carries that identity until another is let in.
THEOREM IdentitiesComeHome == Spec => []ComesHome
<1>1. IInv => ComesHome
  <2> SUFFICES ASSUME IInv, NEW g \in Subs, NEW u \in Accounts, NEW v \in Accounts,
                      <<g, u>> \in visits, <<g, v>> \in visits, ~Shared(u), ~Shared(v)
               PROVE  u = v
    BY DEF ComesHome
  <2>1. users[u].sub = g /\ users[v].sub = g
    BY DEF IInv, IdentityInv
  <2> QED
    BY <2>1, SubsAssumption DEF IInv, IdentityInv
<1> QED
  BY <1>1, Invariance, PTL

\* Every wrong key past the limit has cost a whole wait (_locked_out, _record_failure),
\* for every limit and every length of the wait.
THEOREM KeysAreBraked == Spec => []GuessesBounded
<1>1. IInv => GuessesBounded
  <2> SUFFICES ASSUME IInv, NEW c \in Clients, wrong[c] > LockoutAfter
               PROVE  (wrong[c] - LockoutAfter) * Wait <= now - since[c]
    BY DEF GuessesBounded
  <2>1. wrong[c] = failures[c].count /\ failures[c].until <= now + Lockout
    BY DEF IInv, GateInv
  <2>2. wrong[c] \in Nat /\ since[c] \in Nat /\ now \in Nat /\ failures[c].until \in Nat
    BY DEF IInv, TypeOK, GateTypeOK
  <2>3. PICK d \in Nat : d = wrong[c] - LockoutAfter
    BY <2>2, LockoutAssumption
  <2>4. since[c] + Lockout + d * Wait <= failures[c].until
    BY <2>1, <2>2, <2>3, LockoutAssumption DEF IInv, GateInv
  <2>5. d * Wait \in Nat /\ Lockout \in Nat
    BY LockoutBounds
  <2>6. d * Wait <= now - since[c]
    BY <2>1, <2>2, <2>4, <2>5
  <2> QED
    BY <2>3, <2>6
<1> QED
  BY <1>1, Invariance, PTL

\* No page is shown past the lifetime of the last unlock, however late and in whatever
\* order responses put cookies back (session_expired, _is_unlocked).
THEOREM PagesEnd == Spec => []PagesEndWithUnlock
<1>1. IInv => PagesEndWithUnlock
  BY DEF IInv, CookieInv
<1> QED
  BY <1>1, Invariance, PTL
=============================================================================
