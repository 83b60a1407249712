----------------------------- MODULE MemoryStore -----------------------------
(***************************************************************************)
(* The memories of one (user, project) pair: app/services/memory.py over   *)
(* collections.py (a registry row in MongoDB), qdrant_store.py (a          *)
(* collection of points) and collection_provisioning.py, metered by        *)
(* usage.py.  Pairs share nothing but the user's meter.  The two stores    *)
(* have no common transaction, the row is created long before the          *)
(* collection, and the calls of one agent run in several worker threads:   *)
(* an action is one call on a store and the Python up to the next one.     *)
(***************************************************************************)
EXTENDS Integers, FiniteSets, FiniteSetsExt

CONSTANTS
    Threads,            \* calls in progress at once
    Ids,                \* the uuid4 ids that stores draw from
    Ops,                \* which of the operations this run explores
    NoId,
    Months, Allowance, Unlimited,
    MaxFaults           \* bound of the exploration

AllOps == {"store", "recall", "delete", "register", "destroy"}
ASSUME OpsAssumption == Ops \subseteq AllOps
ASSUME IdsAssumption == IsFiniteSet(Ids) /\ NoId \notin Ids
ASSUME PeriodsAssumption == Months \subseteq Nat /\ 0 \in Months
ASSUME FaultsAssumption == MaxFaults \in Nat

VARIABLES
    month, calls,       \* the meter, see UsageMeter
    row,                \* the registry row: whether it exists, and its counters
    backed,             \* whether the Qdrant collection exists
    points,             \* the ids in it
    fresh,              \* ids not drawn yet
    acked,              \* ids a store has returned to its client
    gone,               \* ids deleted from Qdrant one by one
    pc, job,            \* per call: the next store call, and the locals
    raised,             \* operations that raised though every store answered
    faults

meterVars == <<month, calls>>
storeVars == <<row, backed, points>>
vars == <<meterVars, storeVars, fresh, acked, gone, pc, job, raised, faults>>

MeteredOps == {"store", "recall", "delete"}

Steps == {"idle", "get_row", "get_user", "check", "find_row", "insert_row", "ensure", "create",
          "upsert", "search", "find_collection", "find_point", "drop_point", "bump",
          "meter", "count", "set_count", "drop_collection", "drop_row"}

\* `id' is the memory a store made or a delete names, `deleted' what
\* qdrant_store.delete_memory returned, `n' the count about to be recorded,
\* `period' a current_period() in use.
Jobs == [op : AllOps \cup {"none"}, id : Ids \cup {NoId}, deleted : BOOLEAN, n : Nat, period : Months]
NewJob(op, id) == [op |-> op, id |-> id, deleted |-> FALSE, n |-> 0, period |-> 0]
NoJob == NewJob("none", NoId)

NoRow == [here |-> FALSE, points |-> 0, calls |-> 0]

\* Where a call is with respect to usage.py.
MeterStage(t) ==
    IF job[t].op \notin MeteredOps \/ pc[t] \in {"idle", "get_row", "get_user", "count", "set_count"}
    THEN "idle"
    ELSE IF pc[t] = "check" THEN "asking" ELSE IF pc[t] = "meter" THEN "counting" ELSE "admitted"

Meter == INSTANCE UsageMeter WITH
    Callers <- Threads,
    stage <- [t \in Threads |-> MeterStage(t)],
    period <- [t \in Threads |-> job[t].period]

TypeOK ==
    /\ Meter!TypeOK
    /\ row \in [here : BOOLEAN, points : Nat, calls : Nat]
    /\ backed \in BOOLEAN
    /\ points \subseteq Ids /\ fresh \subseteq Ids /\ acked \subseteq Ids /\ gone \subseteq Ids
    /\ pc \in [Threads -> Steps]
    /\ job \in [Threads -> Jobs]
    /\ \A t \in Threads : job[t].op = "none" <=> pc[t] = "idle"
    /\ raised \subseteq AllOps
    /\ faults \in Nat

Init ==
    /\ month = 0 /\ calls = [m \in Months |-> 0]
    /\ row = NoRow
    /\ backed = FALSE /\ points = {}
    /\ fresh = Ids /\ acked = {} /\ gone = {}
    /\ pc = [t \in Threads |-> "idle"]
    /\ job = [t \in Threads |-> NoJob]
    /\ raised = {}
    /\ faults = 0

Goto(t, step) == pc' = [pc EXCEPT ![t] = step]

\* The call returns, with or without an answer.
Finish(t) ==
    /\ Goto(t, "idle")
    /\ job' = [job EXCEPT ![t] = NoJob]

\* A store call that reached its store is refused by it, and nothing catches that.
Raise(t) ==
    /\ Finish(t)
    /\ raised' = raised \cup {job[t].op}

(***************************************************************************)
(* How a call starts                                                       *)
(***************************************************************************)
Storing == {t \in Threads : job[t].op = "store" /\ job[t].id = NoId}

Begin(t) ==
    /\ pc[t] = "idle"
    /\ \E op \in Ops, id \in (Ids \ fresh) \cup {NoId} :
        /\ id # NoId => op = "delete"     \* NoId: an id the project never had
        /\ op = "store" => Cardinality(Storing) < Cardinality(fresh)   \* bound: an id is left
        /\ job' = [job EXCEPT ![t] = NewJob(op, id)]
        /\ Goto(t, CASE op = "store"    -> "get_user"
                     [] op = "register" -> "find_row"
                     [] OTHER           -> "get_row")
    /\ UNCHANGED <<meterVars, storeVars, fresh, acked, gone, raised, faults>>

\* get_collection: without a row recall answers [], delete and destroy False.
GetRow(t) ==
    /\ pc[t] = "get_row"
    /\ \/ /\ ~row.here
          /\ Finish(t)
       \/ /\ row.here
          /\ Goto(t, IF job[t].op = "destroy" THEN "find_collection" ELSE "get_user")
          /\ UNCHANGED job
    /\ UNCHANGED <<meterVars, storeVars, fresh, acked, gone, raised, faults>>

\* check_call_allowed: the user (her tier, so the allowance) and the period ...
GetUser(t) ==
    /\ pc[t] = "get_user"
    /\ job' = [job EXCEPT ![t].period = month]
    /\ Goto(t, "check")
    /\ UNCHANGED <<meterVars, storeVars, fresh, acked, gone, raised, faults>>

\* Faulty variant: deletes are not gated.
FreeDeletes(t) ==
    /\ pc[t] = "check"
    /\ \/ /\ Meter!Allowed(job[t].period) \/ job[t].op = "delete"
          /\ Goto(t, CASE job[t].op = "store"  -> "find_row"
                       [] job[t].op = "recall" -> "search"
                       [] job[t].op = "delete" -> "find_collection")
          /\ job' = [job EXCEPT ![t].period = 0]
       \/ /\ ~Meter!Allowed(job[t].period) /\ job[t].op # "delete"
          /\ Finish(t)
    /\ UNCHANGED <<meterVars, storeVars, fresh, acked, gone, raised, faults>>

\* ... then the tally of that period: pass, or raise QuotaExceeded (429).
Check(t) ==
    /\ pc[t] = "check"
    /\ \/ /\ Meter!Allowed(job[t].period)
          /\ Goto(t, CASE job[t].op = "store"  -> "find_row"
                       [] job[t].op = "recall" -> "search"
                       [] job[t].op = "delete" -> "find_collection")
          /\ job' = [job EXCEPT ![t].period = 0]
       \/ /\ ~Meter!Allowed(job[t].period)
          /\ Finish(t)
    /\ UNCHANGED <<meterVars, storeVars, fresh, acked, gone, raised, faults>>

(***************************************************************************)
(* create_collection: register_collection, then ensure_collection          *)
(***************************************************************************)
\* An existing row is all register_collection needs; a store goes on to Qdrant.
Registered(t) ==
    IF job[t].op = "store" THEN Goto(t, "ensure") /\ UNCHANGED job ELSE Finish(t)

FindRow(t) ==
    /\ pc[t] = "find_row"
    /\ IF row.here THEN Registered(t) ELSE Goto(t, "insert_row") /\ UNCHANGED job
    /\ UNCHANGED <<meterVars, storeVars, fresh, acked, gone, raised, faults>>

\* insert_one: the row's _id and the unique index refuse a second row.
InsertRow(t) ==
    /\ pc[t] = "insert_row"
    /\ \/ /\ ~row.here
          /\ row' = [NoRow EXCEPT !.here = TRUE]
          /\ Registered(t)
          /\ UNCHANGED raised
       \/ /\ row.here
          /\ Raise(t)
          /\ UNCHANGED row
    /\ UNCHANGED <<meterVars, backed, points, fresh, acked, gone, faults>>

\* collection_exists, then create_collection if it did not.
Ensure(t) ==
    /\ pc[t] = "ensure"
    /\ Goto(t, IF backed THEN "upsert" ELSE "create")
    /\ UNCHANGED <<meterVars, storeVars, fresh, acked, gone, job, raised, faults>>

\* Faulty variant: recreate_collection, which drops a collection that is there.
Recreate(t) ==
    /\ pc[t] = "create"
    /\ backed' = TRUE
    /\ points' = {}
    /\ Goto(t, "upsert")
    /\ UNCHANGED <<meterVars, row, fresh, acked, gone, job, raised, faults>>

Create(t) ==
    /\ pc[t] = "create"
    /\ \/ /\ ~backed
          /\ backed' = TRUE
          /\ Goto(t, "upsert")
          /\ UNCHANGED <<job, raised>>
       \/ /\ backed
          /\ Raise(t)
          /\ UNCHANGED backed
    /\ UNCHANGED <<meterVars, row, points, fresh, acked, gone, faults>>

(***************************************************************************)
(* The work on Qdrant; each needs the collection to be there               *)
(***************************************************************************)
Upsert(t) ==
    /\ pc[t] = "upsert"
    /\ \/ /\ backed
          /\ \E id \in fresh :
                /\ points' = points \cup {id}
                /\ fresh' = fresh \ {id}
                /\ job' = [job EXCEPT ![t].id = id]
          /\ Goto(t, "bump")
          /\ UNCHANGED raised
       \/ /\ ~backed
          /\ Raise(t)
          /\ UNCHANGED <<points, fresh>>
    /\ UNCHANGED <<meterVars, row, backed, acked, gone, faults>>

Search(t) ==
    /\ pc[t] = "search"
    /\ \/ backed /\ Goto(t, "bump") /\ UNCHANGED <<job, raised>>
       \/ ~backed /\ Raise(t)
    /\ UNCHANGED <<meterVars, storeVars, fresh, acked, gone, faults>>

\* Faulty variant: delete trusts the row and does not ask whether there is a collection.
TrustRow(t) ==
    /\ pc[t] = "find_collection"
    /\ Goto(t, CASE job[t].op = "delete"             -> "find_point"
                 [] job[t].op = "destroy" /\ backed  -> "drop_collection"
                 [] job[t].op = "destroy" /\ ~backed -> "drop_row")
    /\ UNCHANGED <<meterVars, storeVars, fresh, acked, gone, job, raised, faults>>

\* collection_exists, first in qdrant_store.delete_memory and delete_collection.
FindCollection(t) ==
    /\ pc[t] = "find_collection"
    /\ Goto(t, CASE job[t].op = "delete" /\ backed   -> "find_point"
                 [] job[t].op = "delete" /\ ~backed  -> "bump"
                 [] job[t].op = "destroy" /\ backed  -> "drop_collection"
                 [] job[t].op = "destroy" /\ ~backed -> "drop_row")
    /\ UNCHANGED <<meterVars, storeVars, fresh, acked, gone, job, raised, faults>>

FindPoint(t) ==
    /\ pc[t] = "find_point"
    /\ \/ /\ backed
          /\ Goto(t, IF job[t].id \in points THEN "drop_point" ELSE "bump")
          /\ UNCHANGED <<job, raised>>
       \/ ~backed /\ Raise(t)
    /\ UNCHANGED <<meterVars, storeVars, fresh, acked, gone, faults>>

DropPoint(t) ==
    /\ pc[t] = "drop_point"
    /\ \/ /\ backed
          /\ points' = points \ {job[t].id}
          /\ gone' = gone \cup {job[t].id}
          /\ job' = [job EXCEPT ![t].deleted = TRUE]
          /\ Goto(t, "bump")
          /\ UNCHANGED raised
       \/ /\ ~backed
          /\ Raise(t)
          /\ UNCHANGED <<points, gone>>
    /\ UNCHANGED <<meterVars, row, backed, fresh, acked, faults>>

(***************************************************************************)
(* The counters                                                            *)
(***************************************************************************)
\* Faulty variant: a delete that found nothing is not counted in the row.
BumpEffective(t) ==
    /\ pc[t] = "bump"
    /\ row' = IF row.here /\ (job[t].op = "delete" => job[t].deleted)
              THEN [row EXCEPT !.calls = @ + 1] ELSE row
    /\ job' = [job EXCEPT ![t].period = month]
    /\ Goto(t, "meter")
    /\ UNCHANGED <<meterVars, backed, points, fresh, acked, gone, raised, faults>>

\* collections.record_call (no row, no count), and the period usage.record_call takes.
Bump(t) ==
    /\ pc[t] = "bump"
    /\ row' = IF row.here THEN [row EXCEPT !.calls = @ + 1] ELSE row
    /\ job' = [job EXCEPT ![t].period = month]
    /\ Goto(t, "meter")
    /\ UNCHANGED <<meterVars, backed, points, fresh, acked, gone, raised, faults>>

\* A store, and a delete that deleted, refresh the number of stored memories.
Recounts(t) == job[t].op = "store" \/ job[t].deleted

\* usage.record_call.
RecordCall(t) ==
    /\ pc[t] = "meter"
    /\ Meter!Tally(job[t].period)
    /\ IF Recounts(t)
       THEN Goto(t, "count") /\ job' = [job EXCEPT ![t].period = 0]
       ELSE Finish(t)
    /\ UNCHANGED <<month, storeVars, fresh, acked, gone, raised, faults>>

\* A delete prunes the relations to its memory first (prune_relations_to): no state
\* of this module.
Count(t) ==
    /\ pc[t] = "count"
    /\ \/ /\ backed
          /\ job' = [job EXCEPT ![t].n = Cardinality(points)]
          /\ Goto(t, "set_count")
          /\ UNCHANGED raised
       \/ ~backed /\ Raise(t)
    /\ UNCHANGED <<meterVars, storeVars, fresh, acked, gone, faults>>

\* Faulty variant: the count is moved by one instead of set.
Stepped(t) ==
    IF row.here
    THEN [row EXCEPT !.points = IF job[t].op = "store" THEN @ + 1 ELSE @ - 1]
    ELSE row

Counted(t) == IF row.here THEN [row EXCEPT !.points = job[t].n] ELSE row

\* set_points_count, and the answer: a store hands the id to its client.
SetCount(t) ==
    /\ pc[t] = "set_count"
    /\ row' = Counted(t)
    /\ acked' = IF job[t].op = "store" THEN acked \cup {job[t].id} ELSE acked
    /\ Finish(t)
    /\ UNCHANGED <<meterVars, backed, points, fresh, gone, raised, faults>>

(***************************************************************************)
(* destroy_collection: Qdrant first, then the row                          *)
(***************************************************************************)
\* Faulty variant: an error of Qdrant is swallowed to finish the teardown.
DropOrSwallow(t) ==
    /\ pc[t] = "drop_collection"
    /\ \/ backed' = FALSE /\ points' = {}
       \/ UNCHANGED <<backed, points>>
    /\ Goto(t, "drop_row")
    /\ UNCHANGED <<meterVars, row, fresh, acked, gone, job, raised, faults>>

DropCollection(t) ==
    /\ pc[t] = "drop_collection"
    /\ backed' = FALSE
    /\ points' = {}
    /\ Goto(t, "drop_row")
    /\ UNCHANGED <<meterVars, row, fresh, acked, gone, job, raised, faults>>

DropRow(t) ==
    /\ pc[t] = "drop_row"
    /\ row' = NoRow
    /\ Finish(t)
    /\ UNCHANGED <<meterVars, backed, points, fresh, acked, gone, raised, faults>>

(***************************************************************************)
(* Specification                                                           *)
(***************************************************************************)
\* A store call or the embedding fails, or the process dies under the call:
\* whatever it has written stays.
Fail(t) ==
    /\ pc[t] # "idle"
    /\ faults < MaxFaults
    /\ faults' = faults + 1
    /\ Finish(t)
    /\ UNCHANGED <<meterVars, storeVars, fresh, acked, gone, raised>>

NextMonth ==
    /\ month + 1 \in Months
    /\ month' = month + 1
    /\ UNCHANGED <<calls, storeVars, fresh, acked, gone, pc, job, raised, faults>>

Call(t) ==
    \/ Begin(t) \/ GetRow(t) \/ GetUser(t) \/ Check(t)
    \/ FindRow(t) \/ InsertRow(t) \/ Ensure(t) \/ Create(t)
    \/ Upsert(t) \/ Search(t) \/ FindCollection(t) \/ FindPoint(t) \/ DropPoint(t)
    \/ Bump(t) \/ RecordCall(t) \/ Count(t) \/ SetCount(t)
    \/ DropCollection(t) \/ DropRow(t)

Next == (\E t \in Threads : Call(t) \/ Fail(t)) \/ NextMonth

Spec == Init /\ [][Next]_vars

(***************************************************************************)
(* Properties                                                              *)
(***************************************************************************)
Quiet == \A t \in Threads : pc[t] = "idle"

\* A memory whose id a store returned is in Qdrant, and reachable through its row,
\* until it is deleted: whatever other stores and deletes do, and fail at
\* (store_memory, delete_memory, ensure_collection).
AckedIsKept ==
    "destroy" \notin Ops => /\ acked \subseteq points \cup gone
                            /\ acked # {} => row.here /\ backed

\* The two stores never fall out of step: memories in Qdrant always have the row
\* that recall and delete look for (create_collection, destroy_collection).
BackedIsRegistered == backed => row.here

\* A store or delete that answers leaves points_count true, also after earlier calls
\* died between Qdrant and the registry (set_points_count).
CountIsRepaired ==
    [][\A t \in Threads : SetCount(t) /\ row.here => row'.points = Cardinality(points)]_vars

Spent == SumFunction(calls)
Between == Cardinality({t \in Threads : pc[t] = "meter"})

\* Every call is in both meters: the all-time counter of the row is never behind
\* the sum of the months, and ahead of it only by calls between the two
\* increments and by those that failed there (collections.record_call,
\* usage.record_call).
MetersAgree ==
    "destroy" \notin Ops => /\ Spent + Between <= row.calls
                            /\ row.calls <= Spent + Between + faults

\* With one call at a time only recall can be refused by a store that answers: stores,
\* deletes and teardowns find what they look for, in whatever state earlier failures
\* left the pair.
OnlyRecallRaises == raised \subseteq {"recall"}

\* Recall on a project with a row but no collection yet answers [] (recall_memory).
RecallNeverRaises == "recall" \notin raised

\* The calls use the meter as UsageMeter says, so its bound on overshoot holds of them.
KeepsMeter == Meter!Spec
=============================================================================
