-------------------------- MODULE MemoryStoreProofs -------------------------
(***************************************************************************)
(* MemoryStore for any number of threads, ids, months and failures.        *)
(*                                                                         *)
(* OpInv says which operation may stand at which step, and that a call     *)
(* holds a period only where usage.py does.  From it every step of a call  *)
(* is a step of UsageMeter or changes nothing the meter sees.  KeptInv     *)
(* follows a stored memory from the row to the answer: nothing but a       *)
(* delete of that id, or a teardown, takes it from under the call.         *)
(* AloneInv is what a single call knows of the two stores at each step,    *)
(* and shows that it finds its way through what dead calls left behind.    *)
(* MeteredInv counts the calls between the two meters.                     *)
(***************************************************************************)
EXTENDS MemoryStore, SumTheorems

USE PeriodsAssumption, OpsAssumption, IdsAssumption, FaultsAssumption

\* Which operations stand at which step, where a period is held and an id is known.
Local(step, j) ==
    /\ j.op = "none" <=> step = "idle"
    /\ j.op \in Ops \cup {"none"}
    /\ step = "get_row" => j.op \in {"recall", "delete", "destroy"}
    /\ step \in {"get_user", "check", "bump", "meter"} => j.op \in MeteredOps
    /\ step \in {"find_row", "insert_row"} => j.op \in {"store", "register"}
    /\ step \in {"ensure", "create", "upsert"} => j.op = "store"
    /\ step = "search" => j.op = "recall"
    /\ step = "find_collection" => j.op \in {"delete", "destroy"}
    /\ step \in {"find_point", "drop_point"} => j.op = "delete"
    /\ step \in {"count", "set_count"} => j.op \in {"store", "delete"}
    /\ step \in {"drop_collection", "drop_row"} => j.op = "destroy"
    /\ step \notin {"check", "meter"} => j.period = 0
    /\ j.deleted => j.op = "delete"
    /\ step = "drop_point" => j.id \in Ids
    /\ step \in {"bump", "meter", "count", "set_count"} /\ j.op = "store" => j.id \in Ids

OpInv == \A t \in Threads : Local(pc[t], job[t])

\* Thread t alone has moved, and stands where its operation may.
Moved(t) ==
    /\ pc' \in [Threads -> Steps] /\ job' \in [Threads -> Jobs]
    /\ Local(pc'[t], job'[t])
    /\ \A u \in Threads \ {t} : pc'[u] = pc[u] /\ job'[u] = job[u]

LEMMA NoJobType == NoJob \in Jobs /\ NoJob.op = "none" /\ NoJob.period = 0 /\ ~NoJob.deleted
BY DEF NoJob, NewJob, Jobs

LEMMA Finished ==
    ASSUME TypeOK, NEW t \in Threads, Finish(t) PROVE Moved(t)
<1>1. pc'[t] = "idle" /\ job'[t] = NoJob
  BY DEF Finish, Goto, TypeOK
<1>2. Local("idle", NoJob)
  BY NoJobType DEF Local
<1> QED
  BY <1>1, <1>2, NoJobType DEF Finish, Goto, TypeOK, Steps, Moved

\* The call goes on to another step with the locals it has.
LEMMA GoesOn ==
    ASSUME TypeOK, NEW t \in Threads, NEW step \in Steps, Goto(t, step), job' = job,
           Local(step, job[t])
    PROVE  Moved(t)
BY DEF Goto, TypeOK, Moved

LEMMA CallMoves ==
    ASSUME TypeOK, OpInv, NEW t \in Threads, Call(t) \/ Fail(t)
    PROVE  Moved(t)
<1> USE DEF Steps, MeteredOps
<1>t. /\ pc[t] \in Steps /\ job[t] \in Jobs /\ Local(pc[t], job[t])
      /\ pc \in [Threads -> Steps] /\ job \in [Threads -> Jobs] /\ month \in Months
  BY DEF TypeOK, OpInv, Meter!TypeOK
<1>1. CASE Begin(t)
  <2>1. PICK op \in Ops, id \in (Ids \ fresh) \cup {NoId} :
            /\ job' = [job EXCEPT ![t] = NewJob(op, id)]
            /\ Goto(t, CASE op = "store"    -> "get_user"
                         [] op = "register" -> "find_row"
                         [] OTHER           -> "get_row")
    BY <1>1 DEF Begin
  <2>2. NewJob(op, id) \in Jobs
    BY DEF NewJob, Jobs
  <2>3. op \in AllOps
    OBVIOUS
  <2>4. CASE op = "store"
    BY <1>t, <2>1, <2>2, <2>3, <2>4 DEF Goto, Moved, Local, NewJob, AllOps
  <2>5. CASE op = "register"
    BY <1>t, <2>1, <2>2, <2>3, <2>5 DEF Goto, Moved, Local, NewJob, AllOps
  <2>6. CASE op \notin {"store", "register"}
    BY <1>t, <2>1, <2>2, <2>3, <2>6 DEF Goto, Moved, Local, NewJob, AllOps
  <2> QED
    BY <2>4, <2>5, <2>6
<1>2. CASE GetRow(t)
  <2>1. CASE Finish(t)
    BY <2>1, Finished
  <2>2. CASE Goto(t, IF job[t].op = "destroy" THEN "find_collection" ELSE "get_user") /\ UNCHANGED job
    BY <1>t, <1>2, <2>2, GoesOn DEF GetRow, Local
  <2> QED
    BY <1>2, <2>1, <2>2 DEF GetRow
<1>3. CASE GetUser(t)
  BY <1>t, <1>3 DEF GetUser, Goto, Moved, Local, Jobs
<1>4. CASE Check(t)
  <2>1. CASE Finish(t)
    BY <2>1, Finished
  <2>2. CASE /\ Goto(t, CASE job[t].op = "store"  -> "find_row"
                          [] job[t].op = "recall" -> "search"
                          [] job[t].op = "delete" -> "find_collection")
             /\ job' = [job EXCEPT ![t].period = 0]
    <3>1. job[t].op \in MeteredOps
      BY <1>t, <1>4 DEF Check, Local
    <3>2. CASE job[t].op = "store"
      BY <1>t, <2>2, <3>2 DEF Goto, Moved, Local, Jobs
    <3>3. CASE job[t].op = "recall"
      BY <1>t, <2>2, <3>3 DEF Goto, Moved, Local, Jobs
    <3>4. CASE job[t].op = "delete"
      BY <1>t, <2>2, <3>4 DEF Goto, Moved, Local, Jobs
    <3> QED
      BY <3>1, <3>2, <3>3, <3>4
  <2> QED
    BY <1>4, <2>1, <2>2 DEF Check
<1>5. CASE FindRow(t)
  BY <1>t, <1>5, Finished, GoesOn DEF FindRow, Registered, Local
<1>6. CASE InsertRow(t)
  BY <1>t, <1>6, Finished, GoesOn DEF InsertRow, Registered, Raise, Local
<1>7. CASE Ensure(t)
  BY <1>t, <1>7, GoesOn DEF Ensure, Local
<1>8. CASE Create(t)
  BY <1>t, <1>8, Finished, GoesOn DEF Create, Raise, Local
<1>9. CASE Upsert(t)
  <2>1. CASE Raise(t)
    BY <2>1, Finished DEF Raise
  <2>2. CASE (\E id \in fresh : job' = [job EXCEPT ![t].id = id]) /\ Goto(t, "bump")
    <3>1. fresh \subseteq Ids
      BY DEF TypeOK
    <3> QED
      BY <1>t, <1>9, <2>2, <3>1 DEF Upsert, Goto, Moved, Local, Jobs
  <2> QED
    BY <1>9, <2>1, <2>2 DEF Upsert
<1>a. CASE Search(t)
  BY <1>t, <1>a, Finished, GoesOn DEF Search, Raise, Local
<1>b. CASE FindCollection(t)
  <2>1. job[t].op \in {"delete", "destroy"}
    BY <1>t, <1>b DEF FindCollection, Local
  <2>2. CASE job[t].op = "delete" /\ backed
    BY <1>t, <1>b, <2>2, GoesOn DEF FindCollection, Local
  <2>3. CASE job[t].op = "delete" /\ ~backed
    BY <1>t, <1>b, <2>3, GoesOn DEF FindCollection, Local
  <2>4. CASE job[t].op = "destroy" /\ backed
    BY <1>t, <1>b, <2>4, GoesOn DEF FindCollection, Local
  <2>5. CASE job[t].op = "destroy" /\ ~backed
    BY <1>t, <1>b, <2>5, GoesOn DEF FindCollection, Local
  <2> QED
    BY <2>1, <2>2, <2>3, <2>4, <2>5
<1>c. CASE FindPoint(t)
  <2>1. CASE Raise(t)
    BY <2>1, Finished DEF Raise
  <2>2. CASE job[t].id \in points /\ Goto(t, "drop_point") /\ UNCHANGED job
    <3>1. job[t].id \in Ids /\ job[t].op = "delete" /\ job[t].period = 0
      BY <1>t, <1>c, <2>2 DEF FindPoint, Local, TypeOK
    <3>2. Local("drop_point", job[t])
      BY <1>t, <1>c, <3>1 DEF Local, FindPoint
    <3> QED
      BY <2>2, <3>2, GoesOn
  <2>3. CASE Goto(t, "bump") /\ UNCHANGED job
    BY <1>t, <1>c, <2>3, GoesOn DEF FindPoint, Local
  <2> QED
    BY <1>c, <2>1, <2>2, <2>3 DEF FindPoint
<1>d. CASE DropPoint(t)
  <2>1. CASE Raise(t)
    BY <2>1, Finished DEF Raise
  <2>2. CASE job' = [job EXCEPT ![t].deleted = TRUE] /\ Goto(t, "bump")
    BY <1>t, <1>d, <2>2 DEF DropPoint, Goto, Moved, Local, Jobs
  <2> QED
    BY <1>d, <2>1, <2>2 DEF DropPoint
<1>e. CASE Bump(t)
  BY <1>t, <1>e DEF Bump, Goto, Moved, Local, Jobs
<1>f. CASE RecordCall(t)
  <2>1. CASE Finish(t)
    BY <2>1, Finished
  <2>2. CASE Recounts(t) /\ Goto(t, "count") /\ job' = [job EXCEPT ![t].period = 0]
    BY <1>t, <1>f, <2>2 DEF RecordCall, Recounts, Goto, Moved, Local, Jobs
  <2> QED
    BY <1>f, <2>1, <2>2 DEF RecordCall
<1>g. CASE Count(t)
  <2>1. CASE Raise(t)
    BY <2>1, Finished DEF Raise
  <2>2. CASE job' = [job EXCEPT ![t].n = Cardinality(points)] /\ Goto(t, "set_count")
    <3>1. Cardinality(points) \in Nat
      BY FS_Subset, FS_CardinalityType DEF TypeOK
    <3> QED
      BY <1>t, <1>g, <2>2, <3>1 DEF Count, Goto, Moved, Local, Jobs
  <2> QED
    BY <1>g, <2>1, <2>2 DEF Count
<1>h. CASE SetCount(t)
  BY <1>h, Finished DEF SetCount
<1>i. CASE DropCollection(t)
  BY <1>t, <1>i, GoesOn DEF DropCollection, Local
<1>j. CASE DropRow(t)
  BY <1>j, Finished DEF DropRow
<1>k. CASE Fail(t)
  BY <1>k, Finished DEF Fail
<1> QED
  BY <1>1, <1>2, <1>3, <1>4, <1>5, <1>6, <1>7, <1>8, <1>9, <1>a, <1>b, <1>c, <1>d, <1>e,
     <1>f, <1>g, <1>h, <1>i, <1>j, <1>k DEF Call

(***************************************************************************)
(* Types                                                                   *)
(***************************************************************************)
\* The half of the types that is no local of a call.
SharedTypes ==
    /\ month \in Months /\ calls \in [Months -> Nat]
    /\ row \in [here : BOOLEAN, points : Nat, calls : Nat]
    /\ backed \in BOOLEAN
    /\ points \subseteq Ids /\ fresh \subseteq Ids /\ acked \subseteq Ids /\ gone \subseteq Ids
    /\ raised \subseteq AllOps
    /\ faults \in Nat

\* The other half.
LocalTypes ==
    /\ pc \in [Threads -> Steps] /\ job \in [Threads -> Jobs]
    /\ \A t \in Threads : job[t].op = "none" <=> pc[t] = "idle"

LEMMA TypesSplit == TypeOK => SharedTypes /\ LocalTypes
BY DEF TypeOK, SharedTypes, LocalTypes, Meter!TypeOK

LEMMA TypesJoin == ASSUME SharedTypes, LocalTypes PROVE TypeOK
<1>1. \A t \in Threads : MeterStage(t) \in Meter!Stages /\ job[t].period \in Months
  BY DEF LocalTypes, MeterStage, Meter!Stages, Jobs
<1>2. Meter!TypeOK
  BY <1>1 DEF Meter!TypeOK, SharedTypes
<1> QED
  BY <1>2 DEF TypeOK, SharedTypes, LocalTypes

LEMMA TypesJoinNext == ASSUME SharedTypes', LocalTypes' PROVE TypeOK'
<1>1. \A t \in Threads : MeterStage(t)' \in Meter!Stages /\ job'[t].period \in Months
  BY DEF LocalTypes, MeterStage, Meter!Stages, Jobs
<1>2. Meter!TypeOK'
  BY <1>1 DEF Meter!TypeOK, SharedTypes
<1> QED
  BY <1>2 DEF TypeOK, SharedTypes, LocalTypes

LEMMA SharedStep ==
    ASSUME TypeOK, OpInv, NEW t \in Threads, Call(t) \/ Fail(t)
    PROVE  SharedTypes'
<1>t. SharedTypes /\ job[t] \in Jobs /\ Local(pc[t], job[t])
  BY TypesSplit DEF OpInv, LocalTypes
<1> USE <1>t DEF SharedTypes, meterVars, storeVars, Raise
<1>0. job[t].op # "none" => job[t].op \in AllOps
  BY DEF Jobs
<1>1. CASE Begin(t) \/ GetRow(t) \/ GetUser(t) \/ Check(t) \/ FindRow(t) \/ Ensure(t)
  BY <1>1 DEF Begin, GetRow, GetUser, Check, FindRow, Ensure
<1>2. CASE InsertRow(t)
  BY <1>0, <1>2 DEF InsertRow, NoRow, Local
<1>3. CASE Create(t)
  BY <1>0, <1>3 DEF Create, Local
<1>4. CASE Upsert(t)
  BY <1>0, <1>4 DEF Upsert, Local
<1>5. CASE Search(t) \/ FindCollection(t) \/ FindPoint(t)
  BY <1>0, <1>5 DEF Search, FindCollection, FindPoint, Local
<1>6. CASE DropPoint(t)
  BY <1>0, <1>6 DEF DropPoint, Local, Jobs
<1>7. CASE Bump(t)
  BY <1>7 DEF Bump
<1>8. CASE RecordCall(t)
  BY <1>8 DEF RecordCall, Meter!Tally, Jobs
<1>9. CASE Count(t)
  BY <1>0, <1>9 DEF Count, Local
<1>a. CASE SetCount(t)
  <2>1. acked' \subseteq Ids
    BY <1>a DEF SetCount, Local
  <2>2. job[t].n \in Nat
    BY DEF Jobs
  <2>3. row' \in [here : BOOLEAN, points : Nat, calls : Nat]
    BY <1>a, <2>2 DEF SetCount, Counted
  <2> QED
    BY <1>a, <2>1, <2>3 DEF SetCount
<1>b. CASE DropCollection(t)
  BY <1>b DEF DropCollection
<1>d. CASE DropRow(t)
  BY <1>d DEF DropRow, NoRow
<1>c. CASE Fail(t)
  BY <1>c DEF Fail
<1> QED
  BY <1>1, <1>2, <1>3, <1>4, <1>5, <1>6, <1>7, <1>8, <1>9, <1>a, <1>b, <1>c, <1>d DEF Call

LEMMA TypeStep == TypeOK /\ OpInv /\ [Next]_vars => TypeOK' /\ OpInv'
<1> SUFFICES ASSUME TypeOK, OpInv, [Next]_vars PROVE TypeOK' /\ OpInv'
  OBVIOUS
<1>1. ASSUME NEW t \in Threads, Call(t) \/ Fail(t)
      PROVE  TypeOK' /\ OpInv'
  <2>1. Moved(t) /\ SharedTypes'
    BY <1>1, CallMoves, SharedStep
  <2>2. OpInv'
    BY <2>1 DEF OpInv, Moved
  <2>3. \A u \in Threads : job'[u].op = "none" <=> pc'[u] = "idle"
    BY <2>2 DEF OpInv, Local
  <2> QED
    BY <2>1, <2>2, <2>3, TypesJoinNext DEF Moved, LocalTypes
<1>2. CASE NextMonth
  <2>1. SharedTypes' /\ LocalTypes' /\ OpInv'
    BY <1>2, TypesSplit DEF NextMonth, SharedTypes, LocalTypes, storeVars, OpInv
  <2> QED
    BY <2>1, TypesJoinNext
<1>3. CASE UNCHANGED vars
  <2>1. SharedTypes' /\ LocalTypes' /\ OpInv'
    BY <1>3, TypesSplit DEF vars, SharedTypes, LocalTypes, meterVars, storeVars, OpInv
  <2> QED
    BY <2>1, TypesJoinNext
<1> QED
  BY <1>1, <1>2, <1>3 DEF Next

LEMMA InitInv == Init => TypeOK /\ OpInv
<1> SUFFICES ASSUME Init PROVE TypeOK /\ OpInv
  OBVIOUS
<1>1. SharedTypes
  BY DEF Init, SharedTypes, NoRow
<1>2. LocalTypes
  BY NoJobType DEF Init, LocalTypes, Steps
<1>3. OpInv
  BY NoJobType DEF Init, OpInv, Local
<1> QED
  BY <1>1, <1>2, <1>3, TypesJoin

\* Every reachable state is well typed, and a call is busy exactly while it has an
\* operation (store_memory, recall_memory, delete_memory, destroy_collection).
THEOREM TypeCorrect == Spec => []TypeOK
BY InitInv, TypeStep, PTL DEF Spec

(***************************************************************************)
(* The meter                                                               *)
(***************************************************************************)
\* What a step of call t looks like to the meter.
LEMMA SeenAs ==
    ASSUME TypeOK, NEW t \in Threads, Moved(t), NEW s, NEW p,
           MeterStage(t)' = s, job'[t].period = p
    PROVE  Meter!At(t, s, p)
<1>1. \A u \in Threads \ {t} : MeterStage(u)' = MeterStage(u) /\ job'[u].period = job[u].period
  BY DEF Moved, MeterStage
<1>2. [u \in Threads |-> MeterStage(u)]' = [[u \in Threads |-> MeterStage(u)] EXCEPT ![t] = s]
  BY <1>1
<1>3. [u \in Threads |-> job[u].period]' = [[u \in Threads |-> job[u].period] EXCEPT ![t] = p]
  BY <1>1
<1> QED
  BY <1>2, <1>3 DEF Meter!At

LEMMA Unseen ==
    ASSUME TypeOK, NEW t \in Threads, Moved(t), UNCHANGED meterVars,
           MeterStage(t)' = MeterStage(t), job'[t].period = job[t].period
    PROVE  UNCHANGED Meter!vars
<1>1. \A u \in Threads : MeterStage(u)' = MeterStage(u) /\ job'[u].period = job[u].period
  BY DEF Moved, MeterStage
<1> QED
  BY <1>1 DEF Meter!vars, meterVars

\* A call that ends anywhere but in RecordCall leaves the meter alone.
LEMMA EndsUncounted ==
    ASSUME TypeOK, OpInv, NEW t \in Threads, Finish(t), UNCHANGED meterVars
    PROVE  [Meter!Next]_(Meter!vars)
<1>1. Moved(t)
  BY Finished
<1>2. MeterStage(t)' = "idle" /\ job'[t].period = 0
  BY NoJobType DEF Finish, Goto, TypeOK, MeterStage
<1>3. CASE MeterStage(t) = "idle"
  <2>1. job[t].period = 0
    BY <1>3 DEF MeterStage, OpInv, Local
  <2> QED
    BY <1>1, <1>2, <1>3, <2>1, Unseen
<1>4. CASE MeterStage(t) # "idle"
  <2>1. Meter!At(t, "idle", 0)
    BY <1>1, <1>2, SeenAs
  <2>2. Meter!Drop(t)
    BY <1>4, <2>1 DEF Meter!Drop, meterVars
  <2> QED
    BY <2>2 DEF Meter!Next
<1> QED
  BY <1>3, <1>4

\* So does a step that stays on its side of the gate and of the meter.
LEMMA StaysUncounted ==
    ASSUME TypeOK, OpInv, NEW t \in Threads, Moved(t), UNCHANGED <<meterVars, job>>,
           MeterStage(t)' = MeterStage(t)
    PROVE  [Meter!Next]_(Meter!vars)
BY Unseen

LEMMA CallMetered ==
    ASSUME TypeOK, OpInv, NEW t \in Threads, Call(t) \/ Fail(t)
    PROVE  [Meter!Next]_(Meter!vars)
<1>t. /\ Moved(t) /\ job[t] \in Jobs /\ Local(pc[t], job[t])
      /\ pc \in [Threads -> Steps] /\ job \in [Threads -> Jobs]
  BY CallMoves DEF TypeOK, OpInv
<1>1. CASE Begin(t)
  <2>1. PICK op \in Ops, id \in (Ids \ fresh) \cup {NoId} :
            /\ job' = [job EXCEPT ![t] = NewJob(op, id)]
            /\ Goto(t, CASE op = "store"    -> "get_user"
                         [] op = "register" -> "find_row"
                         [] OTHER           -> "get_row")
    BY <1>1 DEF Begin
  <2>2. job'[t].op = op /\ job'[t].period = 0
    BY <1>t, <2>1 DEF NewJob
  <2>3. pc'[t] = CASE op = "store"    -> "get_user"
                   [] op = "register" -> "find_row"
                   [] OTHER           -> "get_row"
    BY <1>t, <2>1 DEF Goto
  <2>4. MeterStage(t)' = "idle"
    BY <2>2, <2>3 DEF MeterStage, MeteredOps
  <2>5. MeterStage(t) = "idle" /\ job[t].period = 0
    BY <1>t, <1>1 DEF Begin, MeterStage, Local
  <2> QED
    BY <1>t, <1>1, <2>2, <2>4, <2>5, Unseen DEF Begin
<1>2. CASE GetRow(t)
  <2>1. CASE Finish(t)
    BY <1>2, <2>1, EndsUncounted DEF GetRow
  <2>2. CASE Goto(t, IF job[t].op = "destroy" THEN "find_collection" ELSE "get_user") /\ UNCHANGED job
    <3>1. MeterStage(t) = "idle" /\ MeterStage(t)' = "idle"
      BY <1>t, <1>2, <2>2 DEF GetRow, Goto, MeterStage, MeteredOps
    <3> QED
      BY <1>t, <1>2, <2>2, <3>1, StaysUncounted DEF GetRow
  <2> QED
    BY <1>2, <2>1, <2>2 DEF GetRow
<1>3. CASE GetUser(t)
  <2>1. MeterStage(t) = "idle" /\ MeterStage(t)' = "asking" /\ job'[t].period = month
    BY <1>t, <1>3 DEF GetUser, Goto, MeterStage, Local
  <2>2. Meter!At(t, "asking", month)
    <3>1. PICK m : m = month
      OBVIOUS
    <3>2. Meter!At(t, "asking", m)
      BY <1>t, <2>1, <3>1, SeenAs
    <3> QED
      BY <3>1, <3>2 DEF Meter!At
  <2> QED
    BY <1>3, <2>1, <2>2 DEF GetUser, Meter!Ask, Meter!Next, meterVars
<1>4. CASE Check(t)
  <2>1. CASE Finish(t)
    BY <1>4, <2>1, EndsUncounted DEF Check
  <2>2. CASE /\ Meter!Allowed(job[t].period)
             /\ Goto(t, CASE job[t].op = "store"  -> "find_row"
                          [] job[t].op = "recall" -> "search"
                          [] job[t].op = "delete" -> "find_collection")
             /\ job' = [job EXCEPT ![t].period = 0]
    <3>1. job[t].op \in MeteredOps /\ MeterStage(t) = "asking"
      BY <1>t, <1>4 DEF Check, Local, MeterStage
    <3>2. job'[t].op = job[t].op /\ job'[t].period = 0
      BY <1>t, <2>2 DEF Jobs
    <3>3. pc'[t] \in {"find_row", "search", "find_collection"}
      BY <1>t, <2>2, <3>1 DEF Goto, MeteredOps
    <3>4. MeterStage(t)' = "admitted"
      BY <3>1, <3>2, <3>3 DEF MeterStage
    <3>5. Meter!At(t, "admitted", 0)
      BY <1>t, <3>2, <3>4, SeenAs
    <3>6. Meter!Admit(t)
      BY <1>4, <2>2, <3>1, <3>5 DEF Check, Meter!Admit, meterVars
    <3> QED
      BY <3>6 DEF Meter!Next
  <2> QED
    BY <1>4, <2>1, <2>2 DEF Check
<1>5. CASE FindRow(t)
  <2>1. CASE Finish(t)
    BY <1>5, <2>1, EndsUncounted DEF FindRow
  <2>2. CASE (Goto(t, "ensure") \/ Goto(t, "insert_row")) /\ UNCHANGED job
    BY <1>t, <1>5, <2>2, StaysUncounted DEF FindRow, Goto, MeterStage
  <2> QED
    BY <1>5, <2>1, <2>2 DEF FindRow, Registered
<1>6. CASE InsertRow(t)
  <2>1. CASE Finish(t)
    BY <1>6, <2>1, EndsUncounted DEF InsertRow
  <2>2. CASE Goto(t, "ensure") /\ UNCHANGED job
    BY <1>t, <1>6, <2>2, StaysUncounted DEF InsertRow, Goto, MeterStage
  <2> QED
    BY <1>6, <2>1, <2>2 DEF InsertRow, Registered, Raise
<1>7. CASE Ensure(t)
  BY <1>t, <1>7, StaysUncounted DEF Ensure, Goto, MeterStage
<1>8. CASE Create(t)
  <2>1. CASE Finish(t)
    BY <1>8, <2>1, EndsUncounted DEF Create
  <2>2. CASE Goto(t, "upsert") /\ UNCHANGED job
    BY <1>t, <1>8, <2>2, StaysUncounted DEF Create, Goto, MeterStage
  <2> QED
    BY <1>8, <2>1, <2>2 DEF Create, Raise
<1>9. CASE Upsert(t)
  <2>1. CASE Finish(t)
    BY <1>9, <2>1, EndsUncounted DEF Upsert
  <2>2. CASE (\E id \in fresh : job' = [job EXCEPT ![t].id = id]) /\ Goto(t, "bump")
    <3>1. pc'[t] = "bump" /\ job'[t].op = job[t].op /\ job'[t].period = job[t].period
      BY <1>t, <2>2 DEF Goto, Jobs
    <3> QED
      BY <1>t, <1>9, <3>1, Unseen DEF Upsert, MeterStage
  <2> QED
    BY <1>9, <2>1, <2>2 DEF Upsert, Raise
<1>a. CASE Search(t)
  <2>1. CASE Finish(t)
    BY <1>a, <2>1, EndsUncounted DEF Search
  <2>2. CASE Goto(t, "bump") /\ UNCHANGED job
    BY <1>t, <1>a, <2>2, StaysUncounted DEF Search, Goto, MeterStage
  <2> QED
    BY <1>a, <2>1, <2>2 DEF Search, Raise
<1>b. CASE FindCollection(t)
  <2>1. job[t].op \in {"delete", "destroy"}
    BY <1>t, <1>b DEF FindCollection, Local
  <2>2. pc'[t] \in {"find_point", "bump", "drop_collection", "drop_row"}
    BY <1>t, <1>b, <2>1 DEF FindCollection, Goto
  <2> QED
    BY <1>t, <1>b, <2>2, StaysUncounted DEF FindCollection, MeterStage
<1>c. CASE FindPoint(t)
  <2>1. CASE Finish(t)
    BY <1>c, <2>1, EndsUncounted DEF FindPoint
  <2>2. CASE pc'[t] \in {"drop_point", "bump"} /\ UNCHANGED job
    BY <1>t, <1>c, <2>2, StaysUncounted DEF FindPoint, MeterStage
  <2> QED
    BY <1>t, <1>c, <2>1, <2>2 DEF FindPoint, Raise, Goto
<1>d. CASE DropPoint(t)
  <2>1. CASE Finish(t)
    BY <1>d, <2>1, EndsUncounted DEF DropPoint
  <2>2. CASE job' = [job EXCEPT ![t].deleted = TRUE] /\ Goto(t, "bump")
    <3>1. pc'[t] = "bump" /\ job'[t].op = job[t].op /\ job'[t].period = job[t].period
      BY <1>t, <2>2 DEF Goto, Jobs
    <3> QED
      BY <1>t, <1>d, <3>1, Unseen DEF DropPoint, MeterStage
  <2> QED
    BY <1>d, <2>1, <2>2 DEF DropPoint, Raise
<1>e. CASE Bump(t)
  <2>1. MeterStage(t) = "admitted" /\ MeterStage(t)' = "counting" /\ job'[t].period = month
    BY <1>t, <1>e DEF Bump, Goto, MeterStage, Local, Jobs
  <2>2. Meter!At(t, "counting", month)
    <3>1. PICK m : m = month
      OBVIOUS
    <3>2. Meter!At(t, "counting", m)
      BY <1>t, <2>1, <3>1, SeenAs
    <3> QED
      BY <3>1, <3>2 DEF Meter!At
  <2> QED
    BY <1>e, <2>1, <2>2 DEF Bump, Meter!Stamp, Meter!Next, meterVars
<1>f. CASE RecordCall(t)
  <2>1. MeterStage(t) = "counting"
    BY <1>t, <1>f DEF RecordCall, Local, MeterStage
  <2>2. pc'[t] \in {"count", "idle"} /\ job'[t].period = 0
    BY <1>t, <1>f, NoJobType DEF RecordCall, Finish, Goto, Jobs
  <2>3. MeterStage(t)' = "idle"
    BY <2>2 DEF MeterStage
  <2>4. Meter!At(t, "idle", 0)
    BY <1>t, <2>2, <2>3, SeenAs
  <2> QED
    BY <1>f, <2>1, <2>4 DEF RecordCall, Meter!Record, Meter!Next
<1>g. CASE Count(t)
  <2>1. CASE Finish(t)
    BY <1>g, <2>1, EndsUncounted DEF Count
  <2>2. CASE job' = [job EXCEPT ![t].n = Cardinality(points)] /\ Goto(t, "set_count")
    <3>1. pc'[t] = "set_count" /\ job'[t].op = job[t].op /\ job'[t].period = job[t].period
      BY <1>t, <2>2 DEF Goto, Jobs
    <3> QED
      BY <1>t, <1>g, <3>1, Unseen DEF Count, MeterStage
  <2> QED
    BY <1>g, <2>1, <2>2 DEF Count, Raise
<1>h. CASE SetCount(t)
  BY <1>h, EndsUncounted DEF SetCount
<1>i. CASE DropCollection(t)
  BY <1>t, <1>i, StaysUncounted DEF DropCollection, Goto, MeterStage
<1>j. CASE DropRow(t)
  BY <1>j, EndsUncounted DEF DropRow
<1>k. CASE Fail(t)
  BY <1>k, EndsUncounted DEF Fail
<1> QED
  BY <1>1, <1>2, <1>3, <1>4, <1>5, <1>6, <1>7, <1>8, <1>9, <1>a, <1>b, <1>c, <1>d, <1>e,
     <1>f, <1>g, <1>h, <1>i, <1>j, <1>k DEF Call

LEMMA MeterStep == TypeOK /\ OpInv /\ [Next]_vars => [Meter!Next]_(Meter!vars)
<1> SUFFICES ASSUME TypeOK, OpInv, [Next]_vars PROVE [Meter!Next]_(Meter!vars)
  OBVIOUS
<1>1. CASE NextMonth
  <2>1. \A t \in Threads : MeterStage(t)' = MeterStage(t) /\ job'[t].period = job[t].period
    BY <1>1 DEF NextMonth, MeterStage
  <2> QED
    BY <1>1, <2>1 DEF NextMonth, Meter!NextMonth, Meter!Next
<1>2. CASE UNCHANGED vars
  <2>1. \A t \in Threads : MeterStage(t)' = MeterStage(t) /\ job'[t].period = job[t].period
    BY <1>2 DEF vars, MeterStage
  <2> QED
    BY <1>2, <2>1 DEF vars, meterVars, Meter!vars
<1> QED
  BY <1>1, <1>2, CallMetered DEF Next

\* Any number of stores, recalls and deletes, failing wherever they may, use the meter
\* as UsageMeter does: what holds of every behaviour of UsageMeter holds of them
\* (usage.check_call_allowed, usage.record_call, called from memory.py).
THEOREM MeterIsKept == Spec => KeepsMeter
<1>1. Init => TypeOK /\ OpInv
  BY InitInv
<1>2. Init => Meter!Init
  BY NoJobType DEF Init, Meter!Init, MeterStage
<1> QED
  BY <1>1, <1>2, TypeStep, MeterStep, PTL DEF Spec, KeepsMeter, Meter!Spec

(***************************************************************************)
(* A memory is kept                                                        *)
(***************************************************************************)
\* What a store may rely on at each step of its way from the row to the answer.
Carried(step, j) ==
    j.op = "store" =>
        /\ step \in {"ensure", "create"} => row.here
        /\ step = "upsert" => row.here /\ backed
        /\ step \in {"bump", "meter", "count", "set_count"} =>
               row.here /\ backed /\ j.id \in points \cup gone

KeptInv ==
    /\ acked \subseteq points \cup gone
    /\ acked # {} => row.here /\ backed
    /\ backed => row.here
    /\ \A t \in Threads : Carried(pc[t], job[t])

\* Without a teardown nothing a store relies on is ever taken back: a delete moves an
\* id from the points to those that are gone.
NothingLost ==
    /\ points \cup gone \subseteq points' \cup gone'
    /\ row.here => row'.here
    /\ backed => backed'

LEMMA Grows ==
    ASSUME TypeOK, OpInv, "destroy" \notin Ops, NEW t \in Threads, Call(t) \/ Fail(t)
    PROVE  NothingLost
<1>t. SharedTypes /\ Local(pc[t], job[t]) /\ job[t].op # "destroy"
  BY TypesSplit DEF OpInv, Local
<1> USE DEF NothingLost, storeVars, Raise
<1>1. CASE Begin(t) \/ GetRow(t) \/ GetUser(t) \/ Check(t) \/ FindRow(t) \/ Ensure(t)
  BY <1>1 DEF Begin, GetRow, GetUser, Check, FindRow, Ensure
<1>2. CASE InsertRow(t)
  BY <1>2 DEF InsertRow, NoRow
<1>3. CASE Create(t)
  BY <1>3 DEF Create
<1>4. CASE Upsert(t)
  BY <1>4 DEF Upsert
<1>5. CASE Search(t) \/ FindCollection(t) \/ FindPoint(t)
  BY <1>5 DEF Search, FindCollection, FindPoint
<1>6. CASE DropPoint(t)
  BY <1>6 DEF DropPoint
<1>7. CASE Bump(t)
  BY <1>t, <1>7 DEF Bump, SharedTypes
<1>8. CASE RecordCall(t)
  BY <1>8 DEF RecordCall
<1>9. CASE Count(t)
  BY <1>9 DEF Count
<1>a. CASE SetCount(t)
  BY <1>t, <1>a DEF SetCount, Counted, SharedTypes
<1>b. CASE DropCollection(t) \/ DropRow(t)
  BY <1>t, <1>b DEF DropCollection, DropRow, Local
<1>c. CASE Fail(t)
  BY <1>c DEF Fail
<1> QED
  BY <1>1, <1>2, <1>3, <1>4, <1>5, <1>6, <1>7, <1>8, <1>9, <1>a, <1>b, <1>c DEF Call

\* A step that only moves the call on leaves it what it carried.
LEMMA CarriesOn ==
    ASSUME NothingLost, NEW t \in Threads, NEW a, NEW b, NEW j,
           Carried(a, j), {a, b} \subseteq {"bump", "meter", "count", "set_count"}
    PROVE  Carried(b, j)'
BY DEF NothingLost, Carried

LEMMA CallCarries ==
    ASSUME TypeOK, OpInv, KeptInv, "destroy" \notin Ops, NEW t \in Threads, Call(t) \/ Fail(t)
    PROVE  Carried(pc[t], job[t])'
<1>t. /\ SharedTypes /\ Local(pc[t], job[t]) /\ job[t].op # "destroy" /\ NothingLost
      /\ pc \in [Threads -> Steps] /\ job \in [Threads -> Jobs]
      /\ Carried(pc[t], job[t]) /\ (backed => row.here)
      /\ Local(pc'[t], job'[t])
  BY TypesSplit, Grows, CallMoves DEF OpInv, Local, LocalTypes, KeptInv, Moved
<1>0. CASE Finish(t)
  BY <1>0, <1>t, NoJobType DEF Finish, Carried
<1>1. CASE pc'[t] \notin {"ensure", "create", "upsert", "bump", "meter", "count", "set_count"}
  BY <1>1 DEF Carried
<1>2. CASE FindRow(t) /\ ~Finish(t)
  BY <1>t, <1>2 DEF FindRow, Registered, Goto, Carried, storeVars
<1>3. CASE InsertRow(t) /\ ~Finish(t)
  BY <1>t, <1>3 DEF InsertRow, Registered, Raise, Goto, Carried, NoRow
<1>4. CASE Ensure(t)
  BY <1>t, <1>4 DEF Ensure, Goto, Carried, storeVars
<1>5. CASE Create(t) /\ ~Finish(t)
  BY <1>t, <1>5 DEF Create, Raise, Goto, Carried
<1>6. CASE Upsert(t) /\ ~Finish(t)
  BY <1>t, <1>6 DEF Upsert, Raise, Goto, Carried, Local, Jobs
<1>7. CASE Search(t) \/ FindCollection(t) \/ FindPoint(t) \/ DropPoint(t)
  <2>1. job[t].op # "store"
    BY <1>t, <1>7 DEF Search, FindCollection, FindPoint, DropPoint, Local
  <2>2. job'[t].op # "store"
    BY <1>t, <1>7, <2>1, NoJobType
       DEF Search, FindCollection, FindPoint, DropPoint, Raise, Finish, Jobs
  <2> QED
    BY <2>2 DEF Carried
<1>8. CASE Bump(t)
  BY <1>t, <1>8 DEF Bump, Goto, Carried, Jobs, NothingLost
<1>9. CASE RecordCall(t) /\ ~Finish(t)
  BY <1>t, <1>9 DEF RecordCall, Goto, Carried, Jobs, NothingLost
<1>a. CASE Count(t) /\ ~Finish(t)
  BY <1>t, <1>a DEF Count, Raise, Goto, Carried, Jobs, NothingLost
<1>b. CASE (Begin(t) \/ GetRow(t) \/ GetUser(t) \/ Check(t)) /\ ~Finish(t)
  <2>1. pc'[t] \notin {"ensure", "create", "upsert", "bump", "meter", "count", "set_count"}
    <3>1. CASE Begin(t)
      BY <1>t, <3>1 DEF Begin, Goto
    <3>2. CASE GetRow(t) /\ ~Finish(t)
      BY <1>t, <3>2 DEF GetRow, Goto
    <3>3. CASE GetUser(t)
      BY <1>t, <3>3 DEF GetUser, Goto
    <3>4. CASE Check(t) /\ ~Finish(t)
      <4>1. job[t].op \in MeteredOps
        BY <1>t, <3>4 DEF Check, Local
      <4> QED
        BY <1>t, <3>4, <4>1 DEF Check, Goto, MeteredOps
    <3> QED
      BY <1>b, <3>1, <3>2, <3>3, <3>4
  <2> QED
    BY <1>1, <2>1
<1>c. CASE SetCount(t) \/ DropRow(t) \/ Fail(t)
  BY <1>0, <1>c DEF SetCount, DropRow, Fail
<1>d. CASE DropCollection(t)
  BY <1>t, <1>d DEF DropCollection, Local
<1> QED
  BY <1>0, <1>2, <1>3, <1>4, <1>5, <1>6, <1>7, <1>8, <1>9, <1>a, <1>b, <1>c, <1>d DEF Call

LEMMA CallKeeps ==
    ASSUME TypeOK, OpInv, KeptInv, "destroy" \notin Ops, NEW t \in Threads, Call(t) \/ Fail(t)
    PROVE  KeptInv'
<1>t. /\ NothingLost /\ Moved(t) /\ Carried(pc[t], job[t])' /\ Carried(pc[t], job[t])
      /\ Local(pc[t], job[t]) /\ job[t].op # "destroy"
  BY Grows, CallMoves, CallCarries DEF KeptInv, OpInv, Local
<1>1. \A u \in Threads : Carried(pc[u], job[u])'
  <2> SUFFICES ASSUME NEW u \in Threads PROVE Carried(pc[u], job[u])'
    OBVIOUS
  <2>1. CASE u = t
    BY <1>t, <2>1
  <2>2. CASE u # t
    <3>1. pc'[u] = pc[u] /\ job'[u] = job[u] /\ Carried(pc[u], job[u])
      BY <1>t, <2>2 DEF Moved, KeptInv
    <3> QED
      BY <1>t, <3>1 DEF Carried, NothingLost
  <2> QED
    BY <2>1, <2>2
<1>2. CASE SetCount(t)
  <2>1. UNCHANGED <<backed, points, gone>> /\ row'.here = row.here
    BY <1>t, <1>2, TypesSplit DEF SetCount, Counted, SharedTypes
  <2>2. /\ \/ row.here /\ backed /\ job[t].id \in points \cup gone
           \/ job[t].op # "store"
        /\ acked' = IF job[t].op = "store" THEN acked \cup {job[t].id} ELSE acked
    BY <1>t, <1>2 DEF SetCount, Carried
  <2> QED
    BY <1>1, <2>1, <2>2 DEF KeptInv
<1>3. CASE Create(t)
  <2>1. job[t].op = "store" /\ row.here
    BY <1>t, <1>3 DEF Create, Local, Carried
  <2> QED
    BY <1>t, <1>1, <1>3, <2>1 DEF Create, KeptInv, NothingLost
<1>4. CASE UNCHANGED <<backed, acked>>
  BY <1>t, <1>1, <1>4 DEF KeptInv, NothingLost
<1>5. CASE DropCollection(t)
  BY <1>t, <1>5 DEF DropCollection, Local
<1>6. CASE ~SetCount(t) /\ ~Create(t) /\ ~DropCollection(t)
  <2>1. UNCHANGED <<backed, acked>>
    BY <1>6 DEF Call, Fail, Begin, GetRow, GetUser, Check, FindRow, InsertRow, Ensure, Upsert,
       Search, FindCollection, FindPoint, DropPoint, Bump, RecordCall, Count, DropRow, storeVars
  <2> QED
    BY <1>4, <2>1
<1> QED
  BY <1>2, <1>3, <1>5, <1>6

\* Whatever other stores and deletes of the project do, and wherever they fail, a memory
\* whose id was answered is in Qdrant and reachable through its row until it is deleted
\* (store_memory, delete_memory, create_collection, ensure_collection).
THEOREM MemoriesAreKept == Spec => []AckedIsKept
<1>1. CASE "destroy" \in Ops
  <2>1. AckedIsKept
    BY <1>1 DEF AckedIsKept
  <2> QED
    BY <2>1, PTL
<1>2. CASE "destroy" \notin Ops
  <2>1. Init => TypeOK /\ OpInv /\ KeptInv
    BY InitInv DEF Init, KeptInv, Carried
  <2>2. TypeOK /\ OpInv /\ KeptInv /\ [Next]_vars => TypeOK' /\ OpInv' /\ KeptInv'
    <3> SUFFICES ASSUME TypeOK, OpInv, KeptInv, [Next]_vars PROVE KeptInv'
      BY TypeStep
    <3>1. CASE NextMonth
      BY <3>1 DEF NextMonth, storeVars, KeptInv, Carried
    <3>2. CASE UNCHANGED vars
      BY <3>2 DEF vars, storeVars, KeptInv, Carried
    <3> QED
      BY <1>2, <3>1, <3>2, CallKeeps DEF Next
  <2>3. TypeOK /\ OpInv /\ KeptInv => AckedIsKept
    BY DEF KeptInv, AckedIsKept
  <2> QED
    BY <2>1, <2>2, <2>3, PTL DEF Spec
<1> QED
  BY <1>1, <1>2

(***************************************************************************)
(* One call at a time                                                      *)
(***************************************************************************)
OneAtATime == \A t, u \in Threads : t = u

\* What the only call in progress knows of the two stores at each of its steps.
Knows(step, j) ==
    /\ step = "insert_row" => ~row.here
    /\ step = "ensure" => row.here
    /\ step = "create" => row.here /\ ~backed
    /\ step \in {"upsert", "find_point", "drop_point"} => backed
    /\ step \in {"bump", "meter"} /\ (j.op = "store" \/ j.deleted) => backed
    /\ step \in {"count", "set_count"} => backed
    /\ step = "set_count" => j.n = Cardinality(points)
    /\ step = "drop_row" => ~backed
    /\ j.deleted => step \in {"bump", "meter", "count", "set_count"}

AloneInv ==
    /\ backed => row.here
    /\ raised \subseteq {"recall"}
    /\ \A t \in Threads : Knows(pc[t], job[t])

LEMMA AloneStep ==
    ASSUME TypeOK, OpInv, AloneInv, NEW t \in Threads, Call(t) \/ Fail(t)
    PROVE  /\ (backed => row.here)' /\ raised' \subseteq {"recall"}
           /\ Knows(pc[t], job[t])'
<1>t. /\ SharedTypes /\ Local(pc[t], job[t]) /\ Knows(pc[t], job[t])
      /\ (backed => row.here) /\ raised \subseteq {"recall"}
      /\ pc \in [Threads -> Steps] /\ job \in [Threads -> Jobs] /\ job[t] \in Jobs
      /\ Local(pc'[t], job'[t])
  BY TypesSplit, CallMoves DEF OpInv, LocalTypes, AloneInv, Moved
<1>u. ASSUME Finish(t) PROVE Knows(pc[t], job[t])'
  BY <1>t, <1>u, NoJobType DEF Finish, Goto, Knows
<1> USE DEF storeVars
<1>1. CASE Begin(t)
  BY <1>t, <1>1 DEF Begin, NewJob, Goto, Knows
<1>2. CASE GetRow(t)
  BY <1>t, <1>u, <1>2 DEF GetRow, Goto, Knows
<1>3. CASE GetUser(t)
  BY <1>t, <1>3 DEF GetUser, Goto, Knows
<1>4. CASE Check(t)
  <2>1. job[t].op \in MeteredOps
    BY <1>t, <1>4 DEF Check, Local
  <2> QED
    <3>1. CASE Finish(t)
      BY <1>t, <1>u, <1>4, <3>1 DEF Check
    <3>2. CASE ~Finish(t)
      <4>1. pc'[t] \in {"find_row", "search", "find_collection"} /\ ~job[t].deleted
        BY <1>t, <1>4, <2>1, <3>2 DEF Check, Goto, MeteredOps, Knows
      <4>2. ~job'[t].deleted
        BY <1>t, <1>4, <3>2, <4>1 DEF Check, Jobs
      <4> QED
        BY <1>t, <1>4, <4>1, <4>2, <3>2 DEF Check, Knows
    <3> QED
      BY <3>1, <3>2
<1>5. CASE FindRow(t)
  BY <1>t, <1>u, <1>5 DEF FindRow, Registered, Goto, Knows
<1>6. CASE InsertRow(t)
  BY <1>t, <1>u, <1>6 DEF InsertRow, Registered, NoRow, Goto, Knows
<1>7. CASE Ensure(t)
  BY <1>t, <1>7 DEF Ensure, Goto, Knows
<1>8. CASE Create(t)
  BY <1>t, <1>8 DEF Create, Goto, Knows
<1>9. CASE Upsert(t)
  BY <1>t, <1>9 DEF Upsert, Goto, Knows
<1>a. CASE Search(t)
  BY <1>t, <1>u, <1>a DEF Search, Raise, Goto, Knows, Local
<1>b. CASE FindCollection(t)
  <2>1. job[t].op \in {"delete", "destroy"}
    BY <1>t, <1>b DEF FindCollection, Local
  <2>2. pc'[t] \in {"find_point", "bump", "drop_collection", "drop_row"}
        /\ (pc'[t] = "find_point" => backed) /\ (pc'[t] = "drop_row" => ~backed)
    BY <1>t, <1>b, <2>1 DEF FindCollection, Goto
  <2> QED
    BY <1>t, <1>b, <2>1, <2>2 DEF FindCollection, Knows
<1>c. CASE FindPoint(t)
  BY <1>t, <1>c DEF FindPoint, Goto, Knows
<1>d. CASE DropPoint(t)
  BY <1>t, <1>d DEF DropPoint, Goto, Knows
<1>e. CASE Bump(t)
  BY <1>t, <1>e DEF Bump, Goto, Knows, SharedTypes, Jobs
<1>f. CASE RecordCall(t)
  BY <1>t, <1>u, <1>f DEF RecordCall, Recounts, Goto, Knows, Jobs
<1>g. CASE Count(t)
  <2>1. job' = [job EXCEPT ![t].n = Cardinality(points)] /\ Goto(t, "set_count")
    BY <1>t, <1>g DEF Count, Knows
  <2>2. job'[t].n = Cardinality(points) /\ pc'[t] = "set_count"
    BY <1>t, <2>1 DEF Goto, Jobs
  <2> QED
    BY <1>t, <1>g, <2>2 DEF Count, Knows
<1>h. CASE SetCount(t)
  BY <1>t, <1>u, <1>h DEF SetCount, Counted, SharedTypes
<1>i. CASE DropCollection(t)
  BY <1>t, <1>i DEF DropCollection, Goto, Knows
<1>j. CASE DropRow(t)
  BY <1>t, <1>u, <1>j DEF DropRow, Knows
<1>k. CASE Fail(t)
  BY <1>t, <1>u, <1>k DEF Fail
<1> QED
  BY <1>1, <1>2, <1>3, <1>4, <1>5, <1>6, <1>7, <1>8, <1>9, <1>a, <1>b, <1>c, <1>d, <1>e,
     <1>f, <1>g, <1>h, <1>i, <1>j, <1>k DEF Call

LEMMA AloneInvariant == ASSUME OneAtATime PROVE Spec => [](TypeOK /\ OpInv /\ AloneInv)
<1>1. Init => TypeOK /\ OpInv /\ AloneInv
  BY InitInv, NoJobType DEF Init, AloneInv, Knows, NoRow
<1>2. TypeOK /\ OpInv /\ AloneInv /\ [Next]_vars => TypeOK' /\ OpInv' /\ AloneInv'
  <2> SUFFICES ASSUME TypeOK, OpInv, AloneInv, [Next]_vars PROVE AloneInv'
    BY TypeStep
  <2>1. CASE \E t \in Threads : Call(t) \/ Fail(t)
    <3>1. PICK t \in Threads : Call(t) \/ Fail(t)
      BY <2>1
    <3>2. \A u \in Threads : u = t
      BY DEF OneAtATime
    <3> QED
      BY <3>1, <3>2, AloneStep DEF AloneInv
  <2>2. CASE NextMonth
    BY <2>2 DEF NextMonth, storeVars, AloneInv, Knows
  <2>3. CASE UNCHANGED vars
    BY <2>3 DEF vars, storeVars, AloneInv, Knows
  <2> QED
    BY <2>1, <2>2, <2>3 DEF Next
<1> QED
  BY <1>1, <1>2, PTL DEF Spec

\* One call at a time, and however many of them die half way: the two stores stay in
\* step (create_collection writes the row first, destroy_collection deletes it last).
THEOREM StoresStayInStep == ASSUME OneAtATime PROVE Spec => []BackedIsRegistered
<1>1. AloneInv => BackedIsRegistered
  BY DEF AloneInv, BackedIsRegistered
<1> QED
  BY <1>1, AloneInvariant, PTL

\* ... only a recall can then meet a store that refuses it: every other operation finds
\* its way through whatever the dead calls left.
THEOREM RestRecovers == ASSUME OneAtATime PROVE Spec => []OnlyRecallRaises
<1>1. AloneInv => OnlyRecallRaises
  BY DEF AloneInv, OnlyRecallRaises
<1> QED
  BY <1>1, AloneInvariant, PTL

\* ... and a store or delete that answers leaves the number of memories right
\* (count_points, set_points_count).
THEOREM CountsAreRepaired == ASSUME OneAtATime PROVE Spec => CountIsRepaired
<1>1. TypeOK /\ OpInv /\ AloneInv /\ [Next]_vars
      => [\A t \in Threads : SetCount(t) /\ row.here => row'.points = Cardinality(points)]_vars
  <2> SUFFICES ASSUME TypeOK, OpInv, AloneInv, NEW t \in Threads, SetCount(t), row.here
               PROVE  row'.points = Cardinality(points)
    OBVIOUS
  <2>1. job[t].n = Cardinality(points)
    BY DEF AloneInv, Knows, SetCount
  <2>2. row \in [here : BOOLEAN, points : Nat, calls : Nat]
    BY DEF TypeOK
  <2> QED
    BY <2>1, <2>2 DEF SetCount, Counted
<1> QED
  BY <1>1, AloneInvariant, PTL DEF Spec, CountIsRepaired

(***************************************************************************)
(* The two meters                                                          *)
(***************************************************************************)
AtMeter == {t \in Threads : pc[t] = "meter"}

\* A call that counts found the row, or made it; before there is a row nothing was counted.
RowedInv ==
    /\ ~row.here => row.calls = 0
    /\ \A t \in Threads :
        job[t].op \in {"recall", "delete"} /\ pc[t] # "get_row" => row.here

MeteredInv ==
    /\ SumFunction(calls) + Cardinality(AtMeter) <= row.calls
    /\ row.calls <= SumFunction(calls) + Cardinality(AtMeter) + faults

LEMMA CallFindsRow ==
    ASSUME TypeOK, OpInv, RowedInv, "destroy" \notin Ops, NEW t \in Threads, Call(t) \/ Fail(t)
    PROVE  RowedInv'
<1>t. /\ SharedTypes /\ Local(pc[t], job[t]) /\ job[t].op # "destroy" /\ NothingLost /\ Moved(t)
      /\ pc \in [Threads -> Steps] /\ job \in [Threads -> Jobs] /\ job[t] \in Jobs
      /\ (job[t].op \in {"recall", "delete"} /\ pc[t] # "get_row" => row.here)
  BY TypesSplit, Grows, CallMoves DEF OpInv, Local, LocalTypes, RowedInv
<1>1. job'[t].op \in {"recall", "delete"} /\ pc'[t] # "get_row" => row'.here
  <2>1. CASE Finish(t)
    BY <1>t, <2>1, NoJobType DEF Finish
  <2>2. CASE Begin(t)
    BY <1>t, <2>2 DEF Begin, Goto, NewJob
  <2>3. CASE GetRow(t)
    BY <1>t, <2>1, <2>3 DEF GetRow, storeVars
  <2>4. CASE ~Finish(t) /\ ~Begin(t) /\ ~GetRow(t)
    <3>1. pc[t] # "get_row" /\ job'[t].op = job[t].op
      BY <1>t, <2>4
         DEF Call, GetUser, Check, FindRow, InsertRow, Registered, Ensure, Create, Upsert, Search,
             FindCollection, FindPoint, DropPoint, Bump, RecordCall, Count, SetCount,
             DropCollection, DropRow, Raise, Fail, Jobs
    <3> QED
      BY <1>t, <3>1 DEF NothingLost
  <2> QED
    BY <2>1, <2>2, <2>3, <2>4
<1>2. ~row'.here => row'.calls = 0
  BY <1>t
     DEF RowedInv, Call, Begin, GetRow, GetUser, Check, FindRow, InsertRow, Ensure, Create, Upsert,
         Search, FindCollection, FindPoint, DropPoint, Bump, RecordCall, Count, SetCount, Counted,
         DropCollection, DropRow, Fail, NoRow, SharedTypes, storeVars
<1>3. \A u \in Threads :
          job'[u].op \in {"recall", "delete"} /\ pc'[u] # "get_row" => row'.here
  BY <1>1, <1>t DEF Moved, RowedInv, NothingLost
<1> QED
  BY <1>2, <1>3 DEF RowedInv

\* A step that moves nothing but the call, and neither to nor from the meter.
LEMMA Unmetered ==
    ASSUME MeteredInv, NEW t \in Threads, Moved(t), pc[t] # "meter", pc'[t] # "meter",
           calls' = calls, row'.calls = row.calls, faults' = faults
    PROVE  MeteredInv'
<1>1. AtMeter' = AtMeter
  BY DEF AtMeter, Moved
<1> QED
  BY <1>1 DEF MeteredInv

LEMMA CallMeters ==
    ASSUME TypeOK, OpInv, KeptInv, RowedInv, MeteredInv, "destroy" \notin Ops,
           IsFiniteSet(Months), IsFiniteSet(Threads), NEW t \in Threads, Call(t) \/ Fail(t)
    PROVE  MeteredInv'
<1>t. /\ SharedTypes /\ Local(pc[t], job[t]) /\ job[t].op # "destroy" /\ Moved(t)
      /\ pc \in [Threads -> Steps] /\ job \in [Threads -> Jobs] /\ job[t] \in Jobs
  BY TypesSplit, CallMoves DEF OpInv, Local, LocalTypes
<1>m. IsFiniteSet(AtMeter) /\ Cardinality(AtMeter) \in Nat /\ SumFunction(calls) \in Nat
  BY <1>t, FS_Subset, FS_CardinalityType, SumIsNatural DEF AtMeter, SharedTypes
<1>n. row.calls \in Nat /\ faults \in Nat
  BY <1>t DEF SharedTypes
<1>1. CASE Bump(t)
  <2>1. row.here
    <3>1. job[t].op \in MeteredOps
      BY <1>t, <1>1 DEF Bump, Local
    <3>2. Carried(pc[t], job[t])
      BY DEF KeptInv
    <3> QED
      BY <1>1, <3>1, <3>2 DEF Bump, RowedInv, Carried, MeteredOps
  <2>2. row'.calls = row.calls + 1 /\ UNCHANGED <<calls, faults>>
    BY <1>t, <1>1, <2>1 DEF Bump, SharedTypes, meterVars
  <2>3. AtMeter' = AtMeter \cup {t} /\ t \notin AtMeter
    BY <1>t, <1>1 DEF Bump, Goto, AtMeter
  <2>4. Cardinality(AtMeter') = Cardinality(AtMeter) + 1
    BY <1>m, <2>3, FS_AddElement
  <2> QED
    BY <1>m, <1>n, <2>2, <2>4 DEF MeteredInv
<1>2. CASE RecordCall(t)
  <2>1. AtMeter' = AtMeter \ {t} /\ t \in AtMeter
    BY <1>t, <1>2 DEF RecordCall, Goto, Finish, AtMeter
  <2>2. Cardinality(AtMeter') = Cardinality(AtMeter) - 1
    BY <1>m, <2>1, FS_RemoveElement
  <2>3. calls' = [calls EXCEPT ![job[t].period] = @ + 1] /\ UNCHANGED <<row, faults>>
    BY <1>2 DEF RecordCall, Meter!Tally, storeVars
  <2>4. SumFunction(calls') = SumFunction(calls) + 1
    <3>1. PICK p \in Months, n \in Nat : p = job[t].period /\ n = 1
      BY <1>t DEF Jobs
    <3>2. calls \in [Months -> Nat]
      BY <1>t DEF SharedTypes
    <3>3. calls' \in [Months -> Nat] /\ calls'[p] = calls[p] + n
      BY <2>3, <3>1, <3>2
    <3>4. Alike(calls', calls, Months \ {p})
      BY <2>3, <3>1, <3>2 DEF Alike
    <3>5. SumFunction(calls') = SumFunction(calls) + n
      <4> HIDE PeriodsAssumption
      <4> QED
        BY <3>2, <3>3, <3>4, SumGrows
    <3> QED
      BY <3>1, <3>5
  <2> QED
    BY <1>m, <1>n, <2>2, <2>3, <2>4 DEF MeteredInv
<1>3. CASE Fail(t)
  <2>1. UNCHANGED <<calls, row>> /\ faults' = faults + 1
    BY <1>3 DEF Fail, meterVars, storeVars
  <2>2. AtMeter' = AtMeter \ {t}
    BY <1>t, <1>3 DEF Fail, Finish, Goto, AtMeter
  <2>3. Cardinality(AtMeter') \in {Cardinality(AtMeter), Cardinality(AtMeter) - 1}
    BY <1>m, <2>2, FS_RemoveElement
  <2> QED
    BY <1>m, <1>n, <2>1, <2>3 DEF MeteredInv
<1>4. CASE Call(t) /\ ~Bump(t) /\ ~RecordCall(t)
  <2>1. UNCHANGED <<calls, faults>>
    BY <1>4
       DEF Call, Begin, GetRow, GetUser, Check, FindRow, InsertRow, Ensure, Create, Upsert, Search,
           FindCollection, FindPoint, DropPoint, Count, SetCount, DropCollection, DropRow,
           meterVars
  <2>2. row'.calls = row.calls
    BY <1>4, <1>t
       DEF Call, Begin, GetRow, GetUser, Check, FindRow, InsertRow, Ensure, Create, Upsert, Search,
           FindCollection, FindPoint, DropPoint, Count, SetCount, Counted, DropCollection, DropRow,
           NoRow, RowedInv, Local, SharedTypes, storeVars
  <2>3. pc[t] # "meter"
    BY <1>4
       DEF Call, Begin, GetRow, GetUser, Check, FindRow, InsertRow, Ensure, Create, Upsert, Search,
           FindCollection, FindPoint, DropPoint, Count, SetCount, DropCollection, DropRow
  <2>4. pc'[t] # "meter"
    <3>1. CASE Finish(t)
      BY <1>t, <3>1 DEF Finish, Goto
    <3>2. CASE Check(t) /\ ~Finish(t)
      <4>1. job[t].op \in MeteredOps
        BY <1>t, <3>2 DEF Check, Local
      <4> QED
        BY <1>t, <3>2, <4>1 DEF Check, Goto, MeteredOps
    <3>3. CASE FindCollection(t)
      <4>1. job[t].op = "delete"
        BY <1>t, <3>3 DEF FindCollection, Local
      <4> QED
        BY <1>t, <3>3, <4>1 DEF FindCollection, Goto
    <3>4. CASE ~Finish(t) /\ ~Check(t) /\ ~FindCollection(t)
      BY <1>t, <1>4, <3>4
         DEF Call, Begin, GetRow, GetUser, FindRow, InsertRow, Registered, Ensure, Create, Upsert,
             Search, FindPoint, DropPoint, Count, SetCount, DropCollection, DropRow, Raise, Goto
    <3> QED
      BY <3>1, <3>2, <3>3, <3>4
  <2> QED
    BY <1>t, <2>1, <2>2, <2>3, <2>4, Unmetered
<1> QED
  BY <1>1, <1>2, <1>3, <1>4

\* The counter of the row and the months' counters never drift apart by more than the
\* calls between the two increments and those that failed, for any number of calls,
\* months and failures (collections.record_call, usage.record_call).
THEOREM MetersStayTogether ==
    ASSUME IsFiniteSet(Months), IsFiniteSet(Threads)
    PROVE  Spec => []MetersAgree
<1>1. CASE "destroy" \in Ops
  <2>1. MetersAgree
    BY <1>1 DEF MetersAgree
  <2> QED
    BY <2>1, PTL
<1>2. CASE "destroy" \notin Ops
  <2> DEFINE Inv == TypeOK /\ OpInv /\ KeptInv /\ RowedInv /\ MeteredInv
  <2>1. Init => Inv
    <3> SUFFICES ASSUME Init PROVE Inv
      OBVIOUS
    <3>1. TypeOK /\ OpInv /\ KeptInv
      BY InitInv DEF Init, KeptInv, Carried
    <3>2. RowedInv
      BY NoJobType DEF Init, RowedInv, NoRow
    <3>3. AtMeter = {} /\ SumFunction(calls) = 0 /\ row.calls = 0 /\ faults = 0
      <4>1. calls \in [Months -> Nat] /\ \A m \in Months : calls[m] = 0
        BY DEF Init
      <4> QED
        BY <4>1, SumOfNothing DEF Init, AtMeter, NoRow
    <3> QED
      BY <3>1, <3>2, <3>3, FS_EmptySet DEF MeteredInv
  <2>2. Inv /\ [Next]_vars => Inv'
    <3> SUFFICES ASSUME Inv, [Next]_vars PROVE Inv'
      OBVIOUS
    <3>0. TypeOK' /\ OpInv'
      BY TypeStep
    <3>1. CASE \E t \in Threads : Call(t) \/ Fail(t)
      BY <1>2, <3>0, <3>1, CallKeeps, CallFindsRow, CallMeters
    <3>2. CASE NextMonth \/ UNCHANGED vars
      <4>1. UNCHANGED <<calls, storeVars, fresh, acked, gone, pc, job, faults>>
        BY <3>2 DEF NextMonth, vars, meterVars
      <4> QED
        BY <3>0, <4>1 DEF storeVars, KeptInv, Carried, RowedInv, MeteredInv, AtMeter
    <3> QED
      BY <3>1, <3>2 DEF Next
  <2>3. Inv => MetersAgree
    BY DEF MeteredInv, MetersAgree, Spent, Between, AtMeter
  <2> QED
    BY <2>1, <2>2, <2>3, PTL DEF Spec
<1> QED
  BY <1>1, <1>2
=============================================================================
