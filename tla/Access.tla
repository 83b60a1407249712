------------------------------- MODULE Access -------------------------------
(***************************************************************************)
(* Who is in front of the site: the signed session cookie of app/main.py   *)
(* (Starlette's SessionMiddleware, external), which carries the signed-in  *)
(* user and the unlock of the admin area, as app/auth.py, app/api/admin.py *)
(* and app/api/deps.py read and write it.                                  *)
(*                                                                         *)
(* The session lives in the cookie only: a request carries the one its     *)
(* client had when it was sent, and its response, whenever it arrives,     *)
(* puts that one back as the handler left it.  One request of each client  *)
(* may be late; the others arrive and are answered at once.                *)
(***************************************************************************)
EXTENDS Identity, AdminGate

CONSTANTS
    NoTime, NoClient,
    SessionTtl,             \* SESSION_TTL_SECONDS, in clock units
    MaxTime, MaxRequests    \* bounds of the exploration

ASSUME AccessAssumption ==
    /\ NoTime \notin Nat /\ NoClient \notin Clients
    /\ SessionTtl \in Nat /\ MaxTime \in Nat /\ MaxRequests \in Nat

VARIABLES
    jar,        \* per client: the session in its cookie
    late,       \* per client: the late request, and later its response
    caller,     \* whom the callback in progress answers
    answered,   \* per client: when it last gave the right key
    shown,      \* per client: when an admin page was last shown to it
    requests    \* requests handled so far

cookieVars == <<jar, late>>
ghostVars == <<answered, shown>>
vars == <<identityVars, now, gateVars, cookieVars, caller, ghostVars, requests>>

Times == Nat \cup {NoTime}
Sessions == [user : Accounts \cup {NoAccount}, unlocked : Times]
Empty == [user |-> NoAccount, unlocked |-> NoTime]
OnTheWay == [stage : {"none", "request", "handling", "response"}, session : Sessions]
Nothing == [stage |-> "none", session |-> Empty]
NoCaller == [client |-> NoClient, slow |-> FALSE, session |-> Empty]

TypeOK ==
    /\ IdentityTypeOK /\ GateTypeOK
    /\ jar \in [Clients -> Sessions]
    /\ late \in [Clients -> OnTheWay]
    /\ caller \in [client : Clients \cup {NoClient}, slow : BOOLEAN, session : Sessions]
    /\ answered \in [Clients -> Times] /\ shown \in [Clients -> Times]
    /\ requests \in Nat

Init ==
    /\ IdentityInit /\ GateInit
    /\ jar = [c \in Clients |-> Empty]
    /\ late = [c \in Clients |-> Nothing]
    /\ caller = NoCaller
    /\ answered = [c \in Clients |-> NoTime] /\ shown = [c \in Clients |-> NoTime]
    /\ requests = 0

(***************************************************************************)
(* A request of client c: the late one (slow) or one answered at once      *)
(***************************************************************************)
Received(c, slow) ==
    /\ requests < MaxRequests
    /\ requests' = requests + 1
    /\ slow => late[c].stage = "request"

Session(c, slow) == IF slow THEN late[c].session ELSE jar[c]

\* The response carries the session as the handler leaves it.
Respond(c, slow, session) ==
    IF slow THEN /\ late' = [late EXCEPT ![c] = [stage |-> "response", session |-> session]]
                 /\ UNCHANGED jar
            ELSE /\ jar' = [jar EXCEPT ![c] = session]
                 /\ UNCHANGED late

Send(c) ==
    /\ late[c].stage = "none"
    /\ late' = [late EXCEPT ![c] = [stage |-> "request", session |-> jar[c]]]
    /\ UNCHANGED <<identityVars, now, gateVars, jar, caller, ghostVars, requests>>

Arrive(c) ==
    /\ late[c].stage = "response"
    /\ jar' = [jar EXCEPT ![c] = late[c].session]
    /\ late' = [late EXCEPT ![c] = Nothing]
    /\ UNCHANGED <<identityVars, now, gateVars, caller, ghostVars, requests>>

\* The request or the response is lost, or the response sets no cookie.
Lose(c) ==
    /\ late[c].stage \in {"request", "response"}
    /\ late' = [late EXCEPT ![c] = Nothing]
    /\ UNCHANGED <<identityVars, now, gateVars, jar, caller, ghostVars, requests>>

(***************************************************************************)
(* app/auth.py and the profile route                                       *)
(***************************************************************************)
\* /auth/callback for identity g: an account is found at once, or a search begins.
Callback(c, slow, g) ==
    /\ Received(c, slow)
    /\ \/ \E u \in Accounts :
            /\ FindBySub(g, u)
            /\ Respond(c, slow, [Session(c, slow) EXCEPT !.user = u])
            /\ UNCHANGED caller
       \/ /\ \E e \in Emails : NoneBySub(g, e)
          /\ caller' = [client |-> c, slow |-> slow, session |-> Session(c, slow)]
          /\ late' = IF slow THEN [late EXCEPT ![c].stage = "handling"] ELSE late
          /\ UNCHANGED jar
    /\ UNCHANGED <<now, gateVars, ghostVars>>

KeepSearching ==
    /\ FindByEmail
    /\ UNCHANGED <<now, gateVars, cookieVars, caller, ghostVars, requests>>

\* The search ends with account u: request.session["user_id"] = u.
SignIn(u) ==
    /\ Attach(u) \/ AddUser(u)
    /\ Respond(caller.client, caller.slow, [caller.session EXCEPT !.user = u])
    /\ caller' = NoCaller
    /\ UNCHANGED <<now, gateVars, ghostVars, requests>>

\* The duplicate email is a 500: the middleware writes no session on an exception.
SignInFails ==
    /\ AddUserFails
    /\ caller' = NoCaller
    /\ late' = IF caller.slow THEN [late EXCEPT ![caller.client] = Nothing] ELSE late
    /\ UNCHANGED <<now, gateVars, jar, ghostVars, requests>>

UserLogout(c, slow) ==
    /\ LoopIsFree
    /\ Received(c, slow)
    /\ Respond(c, slow, Empty)
    /\ UNCHANGED <<identityVars, now, gateVars, caller, ghostVars>>

\* PATCH /api/users/{id} by that user, in a worker thread: the loop may be signing in.
EditProfile(c, slow, e) ==
    /\ Received(c, slow)
    /\ Session(c, slow).user # NoAccount
    /\ Patch(Session(c, slow).user, e)
    /\ Respond(c, slow, Session(c, slow))
    /\ UNCHANGED <<now, gateVars, caller, ghostVars>>

(***************************************************************************)
(* app/api/admin.py                                                        *)
(***************************************************************************)
\* session_expired
Expired(t) == now - t > SessionTtl

\* Faulty: a page that is shown renews the unlock.
AdminPageRenewing(c, slow) ==
    LET session == Session(c, slow) IN
    /\ LoopIsFree
    /\ Received(c, slow)
    /\ session.unlocked # NoTime
    /\ IF Expired(session.unlocked)
         THEN /\ Respond(c, slow, [session EXCEPT !.unlocked = NoTime])
              /\ UNCHANGED shown
         ELSE /\ Respond(c, slow, [session EXCEPT !.unlocked = now])
              /\ shown' = [shown EXCEPT ![c] = now]
    /\ UNCHANGED <<identityVars, now, gateVars, caller, answered>>

\* Any of the pages: shown, or the aged unlock dropped.  A session that holds none is
\* sent to the form, unchanged.
AdminPage(c, slow) ==
    LET session == Session(c, slow) IN
    /\ LoopIsFree
    /\ Received(c, slow)
    /\ session.unlocked # NoTime
    /\ IF Expired(session.unlocked)
         THEN /\ Respond(c, slow, [session EXCEPT !.unlocked = NoTime])
              /\ UNCHANGED shown
         ELSE /\ Respond(c, slow, session)
              /\ shown' = [shown EXCEPT ![c] = now]
    /\ UNCHANGED <<identityVars, now, gateVars, caller, answered>>

Unlock(c, slow) ==
    /\ LoopIsFree
    /\ Received(c, slow)
    /\ ~LockedOut(c)
    /\ Forgive(c)
    /\ answered' = [answered EXCEPT ![c] = now]
    /\ Respond(c, slow, [Session(c, slow) EXCEPT !.unlocked = now])
    /\ UNCHANGED <<identityVars, now, caller, shown>>

\* The key is wrong, or the client has to wait and its key is not looked at.
UnlockRefused(c, slow) ==
    /\ LoopIsFree
    /\ Received(c, slow)
    /\ IF LockedOut(c) THEN UNCHANGED gateVars ELSE RecordFailure(c)
    /\ Respond(c, slow, Session(c, slow))
    /\ UNCHANGED <<identityVars, now, caller, ghostVars>>

\* /admin/logout leaves the sign-in alone.
Lock(c, slow) ==
    /\ LoopIsFree
    /\ Received(c, slow)
    /\ Respond(c, slow, [Session(c, slow) EXCEPT !.unlocked = NoTime])
    /\ UNCHANGED <<identityVars, now, gateVars, caller, ghostVars>>

(***************************************************************************)
(* The environment                                                         *)
(***************************************************************************)
Tick ==
    /\ now < MaxTime
    /\ now' = now + 1
    /\ UNCHANGED <<identityVars, gateVars, cookieVars, caller, ghostVars, requests>>

\* The process dies with the requests it had; cookies and documents outlive it.
Restart ==
    /\ ForgetFailures
    /\ signing' = Nobody
    /\ caller' = NoCaller
    /\ late' = [c \in Clients |-> IF late[c].stage = "handling" THEN Nothing ELSE late[c]]
    /\ UNCHANGED <<users, visits, now, jar, ghostVars, requests>>

Handle(c, slow) ==
    \/ \E g \in Subs : Callback(c, slow, g)
    \/ UserLogout(c, slow)
    \/ \E e \in Emails \cup {NoEmail} : EditProfile(c, slow, e)
    \/ AdminPage(c, slow) \/ Unlock(c, slow) \/ UnlockRefused(c, slow) \/ Lock(c, slow)

Next ==
    \/ \E c \in Clients : Send(c) \/ Arrive(c) \/ Lose(c)
    \/ \E c \in Clients, slow \in BOOLEAN : Handle(c, slow)
    \/ KeepSearching \/ SignInFails \/ \E u \in Accounts : SignIn(u)
    \/ Tick \/ Restart

Spec == Init /\ [][Next]_vars

(***************************************************************************)
(* Properties                                                              *)
(***************************************************************************)
\* An admin page is shown only within the unlock's lifetime after the right key was last
\* given, whichever cookie a late response put back, and no page prolongs it
\* (session_expired, _is_unlocked).
PagesEndWithUnlock ==
    \A c \in Clients : shown[c] # NoTime =>
        answered[c] # NoTime /\ shown[c] <= answered[c] + SessionTtl
=============================================================================
