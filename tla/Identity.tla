------------------------------ MODULE Identity ------------------------------
(***************************************************************************)
(* Who an account belongs to: the users collection (services/users.py),    *)
(* the Google sign-in that finds or makes an account (get_or_create_       *)
(* google_user, run by app/auth.py on the event loop) and the profile      *)
(* route that edits one in a worker thread (api/users.py).  An action is   *)
(* one call on MongoDB and the Python up to the next.                      *)
(***************************************************************************)
EXTENDS Naturals

CONSTANTS
    Accounts, NoAccount,    \* user ids, each drawn once (uuid4)
    Subs, NoSub,            \* Google's subject ids
    Emails, NoEmail

ASSUME AccountsAssumption == NoAccount \notin Accounts
ASSUME SubsAssumption == NoSub \notin Subs
ASSUME EmailsAssumption == NoEmail \notin Emails

VARIABLES
    users,      \* the users collection, keyed by id
    signing,    \* the callback in progress, with its locals
    visits      \* every <<identity, account>> a callback has answered

identityVars == <<users, signing, visits>>

\* made: inserted.  The email of a made account is null once a patch has sent null.
Absent == [made |-> FALSE, email |-> NoEmail, sub |-> NoSub]
Users == [made : BOOLEAN, email : Emails \cup {NoEmail}, sub : Subs \cup {NoSub}]

Nobody == [step |-> "none", sub |-> NoSub, email |-> NoEmail, found |-> NoAccount]
Callbacks == {Nobody} \cup
    [step : {"by_email", "attach", "insert"}, sub : Subs, email : Emails,
     found : Accounts \cup {NoAccount}]

IdentityTypeOK ==
    /\ users \in [Accounts -> Users]
    /\ signing \in Callbacks
    /\ visits \subseteq Subs \X Accounts

\* Accounts may be there before anybody has signed in, under an email each.
IdentityInit ==
    /\ users \in [Accounts -> {Absent} \cup [made : {TRUE}, email : Emails, sub : {NoSub}]]
    /\ \A u, v \in Accounts : users[u].email = users[v].email => u = v \/ users[u] = Absent
    /\ signing = Nobody
    /\ visits = {}

\* The unique index on email, null included.
EmailTaken(e, u) == \E v \in Accounts \ {u} : users[v].made /\ users[v].email = e

\* The event loop runs nothing else while get_or_create_google_user runs.
LoopIsFree == signing = Nobody

\* The callback has its account.
Resolve(g, u) ==
    /\ signing' = Nobody
    /\ visits' = visits \cup {<<g, u>>}

(***************************************************************************)
(* get_or_create_google_user                                               *)
(***************************************************************************)
\* By the subject id first: somebody who has signed in before.
FindBySub(g, u) ==
    /\ LoopIsFree
    /\ users[u].sub = g
    /\ Resolve(g, u)
    /\ UNCHANGED users

\* Google says what the identity's email is now: people change it, and a freed one goes to
\* somebody else.
NoneBySub(g, e) ==
    /\ LoopIsFree
    /\ \A u \in Accounts : users[u].sub # g
    /\ signing' = [step |-> "by_email", sub |-> g, email |-> e, found |-> NoAccount]
    /\ UNCHANGED <<users, visits>>

FindByEmail ==
    /\ signing.step = "by_email"
    /\ \/ \E u \in Accounts :
            /\ users[u].email = signing.email
            /\ signing' = [signing EXCEPT !.step = "attach", !.found = u]
       \/ /\ \A u \in Accounts : users[u].email # signing.email
          /\ signing' = [signing EXCEPT !.step = "insert"]
    /\ UNCHANGED <<users, visits>>

\* update_user by id: the identity is attached, whatever the account's email is by now.
Attach(u) ==
    /\ signing.step = "attach"
    /\ u = signing.found
    /\ users' = [users EXCEPT ![u].sub = signing.sub]
    /\ Resolve(signing.sub, u)

AddUser(u) ==
    /\ signing.step = "insert"
    /\ ~EmailTaken(signing.email, u)
    /\ ~users[u].made
    /\ users' = [users EXCEPT ![u] = [made |-> TRUE, email |-> signing.email, sub |-> signing.sub]]
    /\ Resolve(signing.sub, u)

\* DuplicateKeyError: the email has been taken since the lookup.
AddUserFails ==
    /\ signing.step = "insert"
    /\ \E u \in Accounts : users[u].email = signing.email
    /\ signing' = Nobody
    /\ UNCHANGED <<users, visits>>

(***************************************************************************)
(* PATCH /api/users/{id}                                                   *)
(***************************************************************************)
\* Faulty: the document is replaced by what was sent.
PatchReplacing(u, e) ==
    /\ users[u].made
    /\ ~EmailTaken(e, u)
    /\ users' = [users EXCEPT ![u] = [made |-> TRUE, email |-> e, sub |-> NoSub]]
    /\ UNCHANGED <<signing, visits>>

\* $set of the fields sent; a name, or an email somebody has, changes nothing here.  A null
\* email is stored before the answer fails to validate (UserOut).
Patch(u, e) ==
    /\ users[u].made
    /\ ~EmailTaken(e, u)
    /\ users' = [users EXCEPT ![u].email = e]
    /\ UNCHANGED <<signing, visits>>

(***************************************************************************)
(* Properties                                                              *)
(***************************************************************************)
Shared(u) == \E g, h \in Subs : g # h /\ {<<g, u>>, <<h, u>>} \subseteq visits

\* Whoever signs in again comes back to the same account, however emails were edited,
\* moved and reused in between, on either side and under way: an identity reaches a
\* second account only where another identity was let into one of the two by its email
\* (get_or_create_google_user: matched by the stable subject id first).
ComesHome ==
    \A g \in Subs : \A u, v \in Accounts :
        {<<g, u>>, <<g, v>>} \subseteq visits => u = v \/ Shared(u) \/ Shared(v)
=============================================================================
