------------------------------ MODULE Workspace ------------------------------
(***************************************************************************)
(* One user's projects, API keys and registry rows: services/workspaces.py *)
(* over projects.py, api_keys.py and collections.py.  The memory link, the *)
(* calls an agent makes with it and the management API run in worker       *)
(* threads and share no lock: an action is one call on MongoDB and the     *)
(* Python up to the next one.  A token never collides with another (128    *)
(* random bits), so add_api_key inserts at its first attempt.              *)
(***************************************************************************)
EXTENDS Naturals, FiniteSets

CONSTANTS
    Threads,            \* requests in progress at once
    Projects, Keys,     \* the ids and tokens new documents draw from
    NoProject, NoKey,
    MaxFaults           \* bound of the exploration

ASSUME ThreadsAssumption == IsFiniteSet(Threads)
ASSUME NoneAssumption == NoProject \notin Projects /\ NoKey \notin Keys
ASSUME FaultsAssumption == MaxFaults \in Nat

VARIABLES
    projects,   \* the projects that exist
    flagged,    \* those with is_default
    rows,       \* projects with a registry row
    label,      \* per token: the label of its key, "absent" where there is none
    minted,     \* tokens a link request has issued, also those replaced since
    latest,     \* the token issued last, until it is revoked by hand
    used,       \* ids and tokens drawn so far
    pc,         \* per request: the next call on MongoDB
    op, at,     \* per request: what it is, and the project it works on
    faults

dbVars == <<projects, flagged, rows, label>>
ghostVars == <<minted, latest, used>>
vars == <<dbVars, ghostVars, pc, op, at, faults>>

Labels == {"absent", "default", "other"}
Steps == {"idle", "find_key", "find_default", "add_project", "flag", "find_row", "insert_row",
          "drop_keys", "insert_key"}

TypeOK ==
    /\ projects \subseteq Projects /\ flagged \subseteq projects /\ rows \subseteq Projects
    /\ label \in [Keys -> Labels]
    /\ minted \subseteq Keys
    /\ latest \in Keys \cup {NoKey}
    /\ used \subseteq Projects \cup Keys
    /\ pc \in [Threads -> Steps]
    /\ op \in [Threads -> {"none", "link", "call"}]
    /\ at \in [Threads -> Projects \cup {NoProject}]
    /\ faults \in Nat

Init ==
    /\ projects = {} /\ flagged = {} /\ rows = {}
    /\ label = [k \in Keys |-> "absent"]
    /\ minted = {} /\ latest = NoKey /\ used = {}
    /\ pc = [t \in Threads |-> "idle"]
    /\ op = [t \in Threads |-> "none"]
    /\ at = [t \in Threads |-> NoProject]
    /\ faults = 0

Goto(t, step) == pc' = [pc EXCEPT ![t] = step] /\ UNCHANGED op

Finish(t) ==
    /\ pc' = [pc EXCEPT ![t] = "idle"]
    /\ op' = [op EXCEPT ![t] = "none"]
    /\ at' = [at EXCEPT ![t] = NoProject]

\* The project is resolved: a link request goes on to its registry row, and so does
\* a call that stores a memory; any other call has no more to do here.
Resolved(t, p) ==
    \/ Goto(t, "find_row") /\ at' = [at EXCEPT ![t] = p]
    \/ op[t] = "call" /\ Finish(t)

\* The row is there: a link request rotates the key, a call has no more to do here.
Registered(t) ==
    IF op[t] = "link" THEN Goto(t, "drop_keys") /\ UNCHANGED at ELSE Finish(t)

(***************************************************************************)
(* Requests                                                                *)
(***************************************************************************)
\* POST /api/me/link, a tool call with some token, and POST collections or a store
\* over the memory API, which name a project the user owns.
Begin(t) ==
    /\ pc[t] = "idle"
    /\ \/ /\ pc' = [pc EXCEPT ![t] = "find_default"]
          /\ op' = [op EXCEPT ![t] = "link"]
       \/ /\ pc' = [pc EXCEPT ![t] = "find_key"]
          /\ op' = [op EXCEPT ![t] = "call"]
    /\ UNCHANGED <<dbVars, ghostVars, at, faults>>

BeginOn(t, p) ==
    /\ pc[t] = "idle"
    /\ p \in projects
    /\ pc' = [pc EXCEPT ![t] = "find_row"]
    /\ op' = [op EXCEPT ![t] = "call"]
    /\ at' = [at EXCEPT ![t] = p]
    /\ UNCHANGED <<dbVars, ghostVars, faults>>

\* get_by_key, in the endpoint and again in the tool: some key, or the call is refused.
FindKey(t) ==
    /\ pc[t] = "find_key"
    /\ \/ /\ \E k \in Keys : label[k] # "absent"
          /\ Goto(t, "find_default")
          /\ UNCHANGED at
       \/ Finish(t)
    /\ UNCHANGED <<dbVars, ghostVars, faults>>

(***************************************************************************)
(* ensure_default_project                                                  *)
(***************************************************************************)
\* Faulty variant: a link request does not look for the project that is there.
FreshForLink(t) ==
    /\ pc[t] = "find_default"
    /\ \/ op[t] = "call" /\ \E p \in flagged : Resolved(t, p)
       \/ (op[t] = "link" \/ flagged = {}) /\ Goto(t, "add_project") /\ UNCHANGED at
    /\ UNCHANGED <<dbVars, ghostVars, faults>>

\* find_one: any of several.
FindDefault(t) ==
    /\ pc[t] = "find_default"
    /\ \/ \E p \in flagged : Resolved(t, p)
       \/ flagged = {} /\ Goto(t, "add_project") /\ UNCHANGED at
    /\ UNCHANGED <<dbVars, ghostVars, faults>>

AddProject(t) ==
    /\ pc[t] = "add_project"
    /\ \E p \in Projects \ used :
        /\ projects' = projects \cup {p}
        /\ used' = used \cup {p}
        /\ at' = [at EXCEPT ![t] = p]
    /\ Goto(t, "flag")
    /\ UNCHANGED <<flagged, rows, label, minted, latest, faults>>

\* Faulty variant: the update is an upsert.
FlagUpsert(t) ==
    /\ pc[t] = "flag"
    /\ flagged' = flagged \cup {at[t]}
    /\ Resolved(t, at[t])
    /\ UNCHANGED <<projects, rows, label, ghostVars, faults>>

\* update_one by _id: a project deleted meanwhile stays deleted, and is used anyway.
Flag(t) ==
    /\ pc[t] = "flag"
    /\ flagged' = flagged \cup ({at[t]} \cap projects)
    /\ Resolved(t, at[t])
    /\ UNCHANGED <<projects, rows, label, ghostVars, faults>>

(***************************************************************************)
(* register_collection                                                     *)
(***************************************************************************)
FindRow(t) ==
    /\ pc[t] = "find_row"
    /\ IF at[t] \in rows THEN Registered(t) ELSE Goto(t, "insert_row") /\ UNCHANGED at
    /\ UNCHANGED <<dbVars, ghostVars, faults>>

\* The unique index refuses a second row, and nothing catches that.
InsertRow(t) ==
    /\ pc[t] = "insert_row"
    /\ rows' = rows \cup {at[t]}
    /\ IF at[t] \in rows THEN Finish(t) ELSE Registered(t)
    /\ UNCHANGED <<projects, flagged, label, ghostVars, faults>>

(***************************************************************************)
(* _issue_default_key                                                      *)
(***************************************************************************)
\* Faulty variant: the query names another label.
DropOtherKeys(t) ==
    /\ pc[t] = "drop_keys"
    /\ label' = [k \in Keys |-> IF label[k] = "other" THEN "absent" ELSE label[k]]
    /\ Goto(t, "insert_key")
    /\ UNCHANGED <<projects, flagged, rows, ghostVars, at, faults>>

\* delete_many by user and label.
DropKeys(t) ==
    /\ pc[t] = "drop_keys"
    /\ label' = [k \in Keys |-> IF label[k] = "default" THEN "absent" ELSE label[k]]
    /\ Goto(t, "insert_key")
    /\ UNCHANGED <<projects, flagged, rows, ghostVars, at, faults>>

\* The key is stored and the response shows its token.
InsertKey(t) ==
    /\ pc[t] = "insert_key"
    /\ \E k \in Keys \ used :
        /\ label' = [label EXCEPT ![k] = "default"]
        /\ minted' = minted \cup {k}
        /\ latest' = k
        /\ used' = used \cup {k}
    /\ Finish(t)
    /\ UNCHANGED <<projects, flagged, rows, faults>>

(***************************************************************************)
(* The management API: one document each                                   *)
(***************************************************************************)
\* Faulty variant: a key created by hand replaces those with its label.
CreateReplacing(k, name) ==
    /\ k \notin used
    /\ label' = [j \in Keys |-> IF j = k THEN name ELSE IF label[j] = name THEN "absent" ELSE label[j]]
    /\ used' = used \cup {k}
    /\ UNCHANGED <<projects, flagged, rows, minted, latest, pc, op, at, faults>>

\* POST /api-keys: the label is the client's choice.
CreateKey(k, name) ==
    /\ k \notin used
    /\ label' = [label EXCEPT ![k] = name]
    /\ used' = used \cup {k}
    /\ UNCHANGED <<projects, flagged, rows, minted, latest, pc, op, at, faults>>

DeleteKey(k) ==
    /\ label[k] # "absent"
    /\ label' = [label EXCEPT ![k] = "absent"]
    /\ latest' = IF k = latest THEN NoKey ELSE latest
    /\ UNCHANGED <<projects, flagged, rows, minted, used, pc, op, at, faults>>

\* POST /projects: one that is not the default.
CreateProject(p) ==
    /\ p \notin used
    /\ projects' = projects \cup {p}
    /\ used' = used \cup {p}
    /\ UNCHANGED <<flagged, rows, label, minted, latest, pc, op, at, faults>>

\* destroy_collection, as far as the registry goes: the row alone.
DeleteRow(p) ==
    /\ p \in rows
    /\ rows' = rows \ {p}
    /\ UNCHANGED <<projects, flagged, label, ghostVars, pc, op, at, faults>>

\* delete_project: the project's document only; its row and collection stay.
DeleteProject(p) ==
    /\ p \in projects
    /\ projects' = projects \ {p}
    /\ flagged' = flagged \ {p}
    /\ UNCHANGED <<rows, label, ghostVars, pc, op, at, faults>>

\* MongoDB refuses a call or the process dies under the request.
Fail(t) ==
    /\ pc[t] # "idle"
    /\ faults < MaxFaults
    /\ faults' = faults + 1
    /\ Finish(t)
    /\ UNCHANGED <<dbVars, ghostVars>>

Request(t) ==
    \/ Begin(t) \/ (\E p \in Projects : BeginOn(t, p)) \/ FindKey(t)
    \/ FindDefault(t) \/ AddProject(t) \/ Flag(t)
    \/ FindRow(t) \/ InsertRow(t)
    \/ DropKeys(t) \/ InsertKey(t)

Next ==
    \/ \E t \in Threads : Request(t) \/ Fail(t)
    \/ \E k \in Keys : DeleteKey(k) \/ \E name \in Labels \ {"absent"} : CreateKey(k, name)
    \/ \E p \in Projects : CreateProject(p) \/ DeleteRow(p) \/ DeleteProject(p)

Spec == Init /\ [][Next]_vars

(***************************************************************************)
(* Properties                                                              *)
(***************************************************************************)
\* Requests that will add a default project, or a link key, whatever they find.
Adding == {t \in Threads : pc[t] \in {"add_project", "flag"}}
Issuing == {t \in Threads : pc[t] = "insert_key"}

LiveLinks == {k \in minted : label[k] # "absent"}

\* ensure_default_project checks and inserts in two steps, so several requests at
\* once may each add a default project; but never more than there are requests at
\* once, so exactly one where requests do not overlap.
DefaultsBounded == Cardinality(flagged) + Cardinality(Adding) <= Cardinality(Threads)

\* Rotation drops the old keys and adds a new one in two steps: overlapping
\* rotations leave several link keys alive, but never more than overlapped; one
\* at a time, every earlier link stops working (_issue_default_key).
LinksBounded == Cardinality(LiveLinks) + Cardinality(Issuing) <= Cardinality(Threads)

\* The link issued last works until it is revoked, or while a rotation is under way
\* that will replace it; only a failed rotation leaves the user without one.
LatestLinkWorks ==
    latest # NoKey => label[latest] # "absent" \/ Issuing # {} \/ faults > 0
=============================================================================
