------------------------------ MODULE Billing ------------------------------
(***************************************************************************)
(* Paying for a tier: app/services/billing.py, the checkout and webhook    *)
(* routes of app/api/payments.py and the background loop of app/main.py.   *)
(* An action is one call on MongoDB or on Monobank together with the       *)
(* Python up to the next such call, because between two calls the other    *)
(* threads of the process run.                                             *)
(*                                                                         *)
(* Threads are of three kinds.  A handler runs the webhook route: the      *)
(* deployed server has one, the event loop, which monobank_webhook never   *)
(* yields once it has the body.  A sweep is the periodic loop in its       *)
(* worker thread: the deployed server has one.  An operator calls          *)
(* grant_tier by hand, for goodwill.                                       *)
(***************************************************************************)
EXTENDS Integers, FiniteSets, Renewal, Monobank

CONSTANTS
    Users, Handlers, Sweeps, Operators,
    Owner, Plan,         \* who checks invoice i out, and for which tier
    NoInvoice,           \* the invoice of a goodwill grant
    SubscriptionDays,    \* SUBSCRIPTION_DAYS
    ReconcileAfter,      \* RECONCILE_AFTER_SECONDS, in the unit of the clock
    SweepLimit,          \* the `limit' of list_unsettled
    Unreachable,         \* invoices whose status lookup always raises
    GiftDays,            \* the `days' an operator may pass to grant_tier
    MaxTime, MaxFaults, MaxGifts    \* bounds of the exploration

Threads == Handlers \cup Sweeps \cup Operators

ASSUME ThreadsAssumption ==
    /\ Handlers \cap Sweeps = {}
    /\ Handlers \cap Operators = {}
    /\ Sweeps \cap Operators = {}
ASSUME CheckoutAssumption ==
    /\ Owner \in [Invoices -> Users]
    /\ Plan \in [Invoices -> PaidTiers]
    /\ NoInvoice \notin Invoices
ASSUME NumbersAssumption ==
    /\ SubscriptionDays \in Nat \ {0}
    /\ ReconcileAfter \in Nat /\ SweepLimit \in Nat \ {0}
    /\ MaxTime \in Nat /\ MaxFaults \in Nat /\ MaxGifts \in Nat
    /\ GiftDays \subseteq Dates
ASSUME UnreachableAssumption == Unreachable \subseteq Invoices

VARIABLES
    now,        \* utcnow()
    checkout,   \* how far the checkout request of each invoice is
    payments,   \* the payments collection, keyed by invoice
    account,    \* the entitlement fields of each user document
    ledger,     \* rows of tier_grants that name the invoice
    credited,   \* times a grant for the invoice was written to its owner
    pc,         \* where each thread is
    job,        \* its locals in apply_webhook and grant_tier
    todo,       \* a sweep's unprocessed rows of list_unsettled
    lapsing,    \* a sweep's unprocessed rows of downgrade_expired
    reported,   \* how often each sweep has counted the invoice as granted
    renewed,    \* whom a sweep has listed as lapsed and who were granted a tier since
    lost,       \* invoices whose claiming thread failed before it made the grant
    faults, gifts    \* failures and goodwill grants so far

dbVars == <<payments, account, ledger, credited>>
sweepVars == <<todo, lapsing, reported, renewed>>
boundVars == <<lost, faults, gifts>>
vars == <<now, checkout, dbVars, pc, job, sweepVars, boundVars, monobankVars>>

(***************************************************************************)
(* State                                                                   *)
(***************************************************************************)
Jobs == [invoice : Invoices \cup {NoInvoice}, status : Statuses, user : Users,
         tier : PaidTiers, days : Dates, expires : Dates]

Rows == [invoice : Invoices, seen : Statuses]
LapsedRows == [user : Users, tier : PaidTiers]

GrantSteps == {"grant_read", "grant_write", "grant_log"}
Steps == {"idle", "apply", "fetch", "downgrade"} \cup GrantSteps

NoRecord == [status |-> "absent", created |-> 0]

\* The job of a thread with nothing to do: no value of it is ever read.
NoJob == [invoice |-> NoInvoice]

TypeOK ==
    /\ MonobankTypeOK
    /\ now \in Nat
    /\ checkout \in [Invoices -> {"none", "invoiced", "recorded", "replied", "dropped"}]
    /\ payments \in [Invoices -> [status : Statuses \cup {"absent"}, created : Nat]]
    /\ account \in [Users -> Accounts]
    /\ ledger \in [Invoices -> Nat]
    /\ credited \in [Invoices -> Nat]
    /\ pc \in [Threads -> Steps]
    /\ job \in [Threads -> Jobs \cup {NoJob}]
    /\ \A t \in Threads : pc[t] \in GrantSteps \cup {"apply"} => job[t] \in Jobs
    /\ todo \in [Sweeps -> SUBSET Rows]
    /\ lapsing \in [Sweeps -> SUBSET LapsedRows]
    /\ reported \in [Sweeps -> [Invoices -> Nat]]
    /\ renewed \in [Sweeps -> SUBSET Users]
    /\ lost \subseteq Invoices
    /\ faults \in Nat /\ gifts \in Nat

Init ==
    /\ MonobankInit
    /\ now = 0
    /\ checkout = [i \in Invoices |-> "none"]
    /\ payments = [i \in Invoices |-> NoRecord]
    /\ account = [u \in Users |-> NewAccount]
    /\ ledger = [i \in Invoices |-> 0]
    /\ credited = [i \in Invoices |-> 0]
    /\ pc = [t \in Threads |-> "idle"]
    /\ job = [t \in Threads |-> NoJob]
    /\ todo = [s \in Sweeps |-> {}]
    /\ lapsing = [s \in Sweeps |-> {}]
    /\ reported = [s \in Sweeps |-> [i \in Invoices |-> 0]]
    /\ renewed = [s \in Sweeps |-> {}]
    /\ lost = {}
    /\ faults = 0 /\ gifts = 0

(***************************************************************************)
(* Checkout: POST /api/me/checkout                                         *)
(***************************************************************************)
\* create_invoice, then record_pending, then the response with pay_url.
CreateInvoice(i) ==
    /\ checkout[i] = "none"
    /\ IssueInvoice(i)
    /\ checkout' = [checkout EXCEPT ![i] = "invoiced"]
    /\ UNCHANGED <<now, dbVars, pc, job, sweepVars, boundVars>>

RecordPending(i) ==
    /\ checkout[i] = "invoiced"
    /\ payments' = [payments EXCEPT ![i] = [status |-> "created", created |-> now]]
    /\ checkout' = [checkout EXCEPT ![i] = "recorded"]
    /\ UNCHANGED <<now, account, ledger, credited, pc, job, sweepVars, boundVars, monobankVars>>

\* Faulty variant: the URL leaves before the record is written.
ReplyBeforeRecord(i) ==
    /\ checkout[i] \in {"invoiced", "recorded"}
    /\ checkout' = [checkout EXCEPT ![i] = "replied"]
    /\ UNCHANGED <<now, dbVars, pc, job, sweepVars, boundVars, monobankVars>>

ReplyWithUrl(i) ==
    /\ checkout[i] = "recorded"
    /\ checkout' = [checkout EXCEPT ![i] = "replied"]
    /\ UNCHANGED <<now, dbVars, pc, job, sweepVars, boundVars, monobankVars>>

\* The request dies between two of its steps: no response, nothing undone.
CheckoutFails(i) ==
    /\ checkout[i] \in {"invoiced", "recorded"}
    /\ faults < MaxFaults
    /\ faults' = faults + 1
    /\ checkout' = [checkout EXCEPT ![i] = "dropped"]
    /\ UNCHANGED <<now, dbVars, pc, job, sweepVars, lost, gifts, monobankVars>>

CustomerPays(i) ==
    /\ InvoiceMoves(i, checkout[i] = "replied")
    /\ UNCHANGED <<now, checkout, dbVars, pc, job, sweepVars, boundVars>>

(***************************************************************************)
(* apply_webhook and grant_tier, run by a handler or a sweep (grant_tier   *)
(* by an operator too).                                                    *)
(***************************************************************************)
\* The arguments of apply_webhook and, once it has found the payment, of grant_tier.
WebhookJob(i, status) ==
    [invoice |-> i, status |-> status, user |-> Owner[i], tier |-> Plan[i],
     days |-> SubscriptionDays, expires |-> NoDate]

\* Faulty variant: the sweep counts every status it applied.
ReturnCountingAll(t) ==
    /\ job' = [job EXCEPT ![t] = NoJob]
    /\ pc' = [pc EXCEPT ![t] = IF t \in Sweeps THEN "fetch" ELSE "idle"]
    /\ reported' = IF t \in Sweeps THEN [reported EXCEPT ![t][job[t].invoice] = @ + 1] ELSE reported

\* The caller resumes: the handler answers 200, the sweep counts a grant for
\* every paid invoice and takes the next row, the operator is done.
Return(t) ==
    /\ job' = [job EXCEPT ![t] = NoJob]
    /\ pc' = [pc EXCEPT ![t] = IF t \in Sweeps THEN "fetch" ELSE "idle"]
    /\ reported' = IF t \in Sweeps /\ job[t].status = PaidStatus
                   THEN [reported EXCEPT ![t][job[t].invoice] = @ + 1]
                   ELSE reported

\* A verified message reaches the route: find_one finds the payment.  A message
\* for an invoice that has no payment is ignored and changes nothing.
DeliverWebhook(h) ==
    /\ pc[h] = "idle"
    /\ \E i \in Invoices, status \in Statuses :
        /\ <<i, status>> \in sent
        /\ payments[i].status # "absent"
        /\ job' = [job EXCEPT ![h] = WebhookJob(i, status)]
    /\ pc' = [pc EXCEPT ![h] = "apply"]
    /\ UNCHANGED <<now, checkout, dbVars, sweepVars, boundVars, monobankVars>>

\* Faulty variants: the invoice's status is not consulted; every status, or none,
\* passes for money.
AnyPayment(i) == TRUE
MovingStatus(status) == status \in {PaidStatus, "processing"}
NoStatus(status) == FALSE

\* The condition of both find_one_and_update calls, and the status that pays out.
Unpaid(i) == payments[i].status # PaidStatus
PaysOut(status) == status = PaidStatus

Settle(i, status) == payments' = [payments EXCEPT ![i].status = status]

\* The conditional update on success matches: this call owns the grant.
ClaimPaid(t) ==
    /\ pc[t] = "apply"
    /\ PaysOut(job[t].status)
    /\ Unpaid(job[t].invoice)
    /\ Settle(job[t].invoice, PaidStatus)
    /\ pc' = [pc EXCEPT ![t] = "grant_read"]
    /\ UNCHANGED <<now, checkout, account, ledger, credited, job, sweepVars, boundVars,
                   monobankVars>>

\* Either conditional update finds the payment paid already: nothing to do.
AlreadyPaid(t) ==
    /\ pc[t] = "apply"
    /\ ~Unpaid(job[t].invoice)
    /\ Return(t)
    /\ UNCHANGED <<now, checkout, dbVars, todo, lapsing, renewed, boundVars, monobankVars>>

RecordStatus(t) ==
    /\ pc[t] = "apply"
    /\ ~PaysOut(job[t].status)
    /\ Unpaid(job[t].invoice)
    /\ Settle(job[t].invoice, job[t].status)
    /\ Return(t)
    /\ UNCHANGED <<now, checkout, account, ledger, credited, todo, lapsing, renewed, boundVars,
                   monobankVars>>

\* Faulty variant: a grant extends the window of another tier.
GrantReadAnyTier(t) ==
    /\ pc[t] = "grant_read"
    /\ LET g == job[t] IN
        job' = [job EXCEPT ![t].expires = GrantExpiry(account[g.user], account[g.user].tier, now, g.days)]
    /\ pc' = [pc EXCEPT ![t] = "grant_write"]
    /\ UNCHANGED <<now, checkout, dbVars, sweepVars, boundVars, monobankVars>>

\* get_user, utcnow and the new expiry, all from this one read of the account.
GrantRead(t) ==
    /\ pc[t] = "grant_read"
    /\ LET g == job[t] IN
        job' = [job EXCEPT ![t].expires = GrantExpiry(account[g.user], g.tier, now, g.days)]
    /\ pc' = [pc EXCEPT ![t] = "grant_write"]
    /\ UNCHANGED <<now, checkout, dbVars, sweepVars, boundVars, monobankVars>>

\* update_user writes all four fields, by _id.  A sweep that has listed the account
\* as lapsed does not learn of it.
GrantWrite(t) ==
    /\ pc[t] = "grant_write"
    /\ account' = [account EXCEPT ![job[t].user] = GrantedAccount(job[t].tier, job[t].expires)]
    /\ credited' = IF job[t].invoice \in Invoices
                   THEN [credited EXCEPT ![job[t].invoice] = @ + 1]
                   ELSE credited
    /\ pc' = [pc EXCEPT ![t] = "grant_log"]
    /\ renewed' = [s \in Sweeps |->
           renewed[s] \cup ({job[t].user} \cap {row.user : row \in lapsing[s]})]
    /\ UNCHANGED <<now, checkout, payments, ledger, job, todo, lapsing, reported, boundVars,
                   monobankVars>>

GrantLog(t) ==
    /\ pc[t] = "grant_log"
    /\ ledger' = IF job[t].invoice \in Invoices
                 THEN [ledger EXCEPT ![job[t].invoice] = @ + 1]
                 ELSE ledger
    /\ Return(t)
    /\ UNCHANGED <<now, checkout, payments, account, credited, todo, lapsing, renewed,
                   boundVars, monobankVars>>

\* grant_tier by hand: no invoice, any tier, any number of days or none.
Goodwill(o) ==
    /\ pc[o] = "idle"
    /\ gifts < MaxGifts
    /\ \E u \in Users, tier \in PaidTiers, days \in GiftDays :
        job' = [job EXCEPT ![o] =
            [invoice |-> NoInvoice, status |-> PaidStatus, user |-> u,
             tier |-> tier, days |-> days, expires |-> NoDate]]
    /\ pc' = [pc EXCEPT ![o] = "grant_read"]
    /\ gifts' = gifts + 1
    /\ UNCHANGED <<now, checkout, dbVars, sweepVars, lost, faults, monobankVars>>

(***************************************************************************)
(* The background loop: reconcile, then downgrade_expired                  *)
(***************************************************************************)
\* Faulty variant: an invoice whose payment page was used counts as settled.
UnsettledUnopened ==
    {i \in Invoices : /\ payments[i].status = "created"
                      /\ payments[i].created + ReconcileAfter <= now}

Unsettled ==
    {i \in Invoices : /\ payments[i].status \in InFlightStatuses
                      /\ payments[i].created + ReconcileAfter <= now}

\* The first SweepLimit payments by created_at, ties in any order.
Windows ==
    {W \in SUBSET Unsettled :
        /\ Cardinality(W) = IF Cardinality(Unsettled) < SweepLimit
                            THEN Cardinality(Unsettled) ELSE SweepLimit
        /\ \A i \in W, j \in Unsettled \ W : payments[i].created <= payments[j].created}

ListUnsettled(s) ==
    /\ pc[s] = "idle"
    /\ \E W \in Windows :
        todo' = [todo EXCEPT ![s] = {[invoice |-> i, seen |-> payments[i].status] : i \in W}]
    /\ pc' = [pc EXCEPT ![s] = "fetch"]
    /\ UNCHANGED <<now, checkout, dbVars, job, lapsing, reported, renewed, boundVars, monobankVars>>

\* The rows the loop may take next: the oldest of those left.
NextRows(s) ==
    {row \in todo[s] : \A other \in todo[s] :
        payments[row.invoice].created <= payments[other.invoice].created}

\* The lookup answers.  The status the list saw means nothing to do; any other
\* goes through apply_webhook, whose find_one finds the listed payment.
FetchStatus(s) ==
    /\ pc[s] = "fetch"
    /\ \E row \in NextRows(s) :
        /\ row.invoice \notin Unreachable
        /\ todo' = [todo EXCEPT ![s] = @ \ {row}]
        /\ IF mono[row.invoice] = row.seen
           THEN UNCHANGED <<pc, job>>
           ELSE /\ job' = [job EXCEPT ![s] = WebhookJob(row.invoice, mono[row.invoice])]
                /\ pc' = [pc EXCEPT ![s] = "apply"]
    /\ UNCHANGED <<now, checkout, dbVars, lapsing, reported, renewed, boundVars, monobankVars>>

\* The lookup raises, or answers without a status: the row is skipped.
LookupFails(s) ==
    /\ pc[s] = "fetch"
    /\ \E row \in NextRows(s) :
        /\ todo' = [todo EXCEPT ![s] = @ \ {row}]
        /\ \/ /\ row.invoice \in Unreachable
              /\ UNCHANGED faults
           \/ /\ row.invoice \notin Unreachable
              /\ faults < MaxFaults
              /\ faults' = faults + 1
    /\ UNCHANGED <<now, checkout, dbVars, pc, job, lapsing, reported, renewed, lost, gifts,
                   monobankVars>>

\* Faulty variant: a window that closes this instant is passed over.
LapsedBefore ==
    {[user |-> u, tier |-> account[u].tier] : u \in {v \in Users : HasLapsed(account[v], now - 1)}}

\* The query of downgrade_expired: ids and the tier that lapsed.
LapsedNow ==
    {[user |-> u, tier |-> account[u].tier] : u \in {v \in Users : HasLapsed(account[v], now)}}

\* reconcile has returned its report: the same loop lists the lapsed accounts.
ListLapsed(s) ==
    /\ pc[s] = "fetch"
    /\ todo[s] = {}
    /\ lapsing' = [lapsing EXCEPT ![s] = LapsedNow]
    /\ renewed' = [renewed EXCEPT ![s] = {}]
    /\ pc' = [pc EXCEPT ![s] = "downgrade"]
    /\ UNCHANGED <<now, checkout, dbVars, job, todo, reported, boundVars, monobankVars>>

\* One update_user, by _id alone: whatever the account holds by now is replaced.
Downgrade(s) ==
    /\ pc[s] = "downgrade"
    /\ \E row \in lapsing[s] :
        /\ account' = [account EXCEPT ![row.user] = LapsedAccount(row.tier, now)]
        /\ lapsing' = [lapsing EXCEPT ![s] = @ \ {row}]
        /\ renewed' = [renewed EXCEPT ![s] = @ \ {row.user}]
    /\ UNCHANGED <<now, checkout, payments, ledger, credited, pc, job, todo, reported,
                   boundVars, monobankVars>>

\* The loop goes back to sleep.
EndSweep(s) ==
    /\ pc[s] = "downgrade"
    /\ lapsing[s] = {}
    /\ pc' = [pc EXCEPT ![s] = "idle"]
    /\ UNCHANGED <<now, checkout, dbVars, job, sweepVars, boundVars, monobankVars>>

(***************************************************************************)
(* Failures and time                                                       *)
(***************************************************************************)
\* A thread that has claimed invoice i and not yet made its grant, and whether there is one.
Holds(t, i) == pc[t] \in {"grant_read", "grant_write"} /\ job[t].invoice = i
Granting(i) == \E t \in Threads : Holds(t, i)

\* A store call raises.  The route answers 500; the loop drops the whole sweep,
\* expiry included (`continue'); nothing already written is undone.
Abort(t) ==
    /\ pc[t] # "idle"
    /\ faults < MaxFaults
    /\ faults' = faults + 1
    /\ pc' = [pc EXCEPT ![t] = "idle"]
    /\ job' = [job EXCEPT ![t] = NoJob]
    /\ todo' = [s \in Sweeps |-> IF s = t THEN {} ELSE todo[s]]
    /\ lapsing' = [s \in Sweeps |-> IF s = t THEN {} ELSE lapsing[s]]
    /\ renewed' = [s \in Sweeps |-> IF s = t THEN {} ELSE renewed[s]]
    /\ lost' = lost \cup {i \in Invoices : Holds(t, i)}
    /\ UNCHANGED <<now, checkout, dbVars, reported, gifts, monobankVars>>

\* The process dies and restarts: every thread and request is gone, MongoDB and
\* Monobank keep what they have.
Crash ==
    /\ faults < MaxFaults
    /\ faults' = faults + 1
    /\ checkout' = [i \in Invoices |-> IF checkout[i] \in {"invoiced", "recorded"}
                                       THEN "dropped" ELSE checkout[i]]
    /\ pc' = [t \in Threads |-> "idle"]
    /\ job' = [t \in Threads |-> NoJob]
    /\ todo' = [s \in Sweeps |-> {}]
    /\ lapsing' = [s \in Sweeps |-> {}]
    /\ renewed' = [s \in Sweeps |-> {}]
    /\ lost' = lost \cup {i \in Invoices : Granting(i)}
    /\ UNCHANGED <<now, dbVars, reported, gifts, monobankVars>>

Tick ==
    /\ now < MaxTime
    /\ now' = now + 1
    /\ UNCHANGED <<checkout, dbVars, pc, job, sweepVars, boundVars, monobankVars>>

(***************************************************************************)
(* Specification                                                           *)
(***************************************************************************)
Checkout(i) == CreateInvoice(i) \/ RecordPending(i) \/ ReplyWithUrl(i) \/ CheckoutFails(i)

\* apply_webhook and grant_tier once started.
Apply(t) ==
    \/ ClaimPaid(t) \/ AlreadyPaid(t) \/ RecordStatus(t)
    \/ GrantRead(t) \/ GrantWrite(t) \/ GrantLog(t)

Loop(s) ==
    \/ ListUnsettled(s) \/ FetchStatus(s) \/ LookupFails(s)
    \/ ListLapsed(s) \/ Downgrade(s) \/ EndSweep(s)

Next ==
    \/ \E i \in Invoices : Checkout(i) \/ CustomerPays(i)
    \/ \E h \in Handlers : DeliverWebhook(h)
    \/ \E o \in Operators : Goodwill(o)
    \/ \E t \in Threads : Apply(t) \/ Abort(t)
    \/ \E s \in Sweeps : Loop(s)
    \/ Crash
    \/ Tick

Spec == Init /\ [][Next]_vars

\* A started call runs on, the loop always comes round again, and time passes.
\* Nothing is assumed of customers, of Monobank or of webhook delivery.
Fairness ==
    /\ \A t \in Threads : WF_vars(Apply(t))
    /\ \A s \in Sweeps : WF_vars(Loop(s))
    /\ WF_vars(Tick)

FairSpec == Spec /\ Fairness

(***************************************************************************)
(* Safety                                                                  *)
(***************************************************************************)
\* However deliveries repeat, reorder or race the sweep, and whatever fails on
\* the way, one invoice changes its owner's tier at most once, and every audit
\* row stands for a grant that was made (apply_webhook, grant_tier).
GrantedAtMostOnce ==
    \A i \in Invoices : ledger[i] <= credited[i] /\ credited[i] <= 1

\* A tier is granted only against money: Monobank has reported the invoice paid
\* and the payment says so too (the only grant path is a claimed success).
GrantOnlyIfPaid ==
    \A i \in Invoices : credited[i] > 0 =>
        <<i, PaidStatus>> \in sent /\ payments[i].status = PaidStatus

\* Nobody can be charged for an invoice the application has no record of: the
\* payment page's address leaves only after record_pending.
ChargedIsRecorded ==
    \A i \in Invoices : <<i, PaidStatus>> \in sent => payments[i].status # "absent"

\* A paid payment without its grant has a thread that is about to make it, unless
\* that very thread failed before the write: no other failure, no race and no late
\* status parts a claim from its grant (apply_webhook, grant_tier).
ClaimLeadsToGrant ==
    \A i \in Invoices : payments[i].status = PaidStatus /\ credited[i] = 0 =>
        Granting(i) \/ i \in lost

Bought(u, tier) ==
    {i \in Invoices : Owner[i] = u /\ Plan[i] = tier /\ credited[i] > 0}

\* With no goodwill, nobody holds a tier past what the credited invoices of that
\* tier add up to, counted from now: no race stretches a window.
NeverMoreThanBought ==
    gifts = 0 => \A u \in Users : account[u].tier # FreeTier =>
        /\ account[u].expires # NoDate
        /\ account[u].expires <= now + SubscriptionDays * Cardinality(Bought(u, account[u].tier))

(***************************************************************************)
(* What a step may never do                                                *)
(***************************************************************************)
\* A late, stale or repeated status never takes a paid payment back.
PaidIsFinal ==
    [][\A i \in Invoices : payments[i].status = PaidStatus => payments'[i].status = PaidStatus]_vars

\* A tier in force is ended by one thing only: the write of downgrade_expired for an
\* account that was granted a tier after the query that listed it.  But for that
\* race, only time ends a paid window.
LiveTierIsKept ==
    [][\A u \in Users :
        EffectiveTier(account[u], now) # FreeTier /\ account'[u].tier = FreeTier =>
            \E s \in Sweeps : u \in renewed[s] \ renewed'[s]]_vars

Page(u) == RenewalState(account[u], now)

\* What the page says of renewing runs one way until the next purchase: nothing
\* replaces a running plan's prompt but silence, and the offer to renew a lapsed
\* plan names the plan that ran out and comes from silence (renewal_state, between
\* grant_tier, the clock and downgrade_expired).
PromptRunsDown ==
    [][\A u \in Users : UNCHANGED credited /\ Page(u)' # Page(u) =>
        \/ Page(u).status = "active" /\ Page(u)' = [Page(u) EXCEPT !.status = "expiring"]
        \/ Page(u).status \in {"active", "expiring", "lapsed"} /\ Page(u)' = Quiet
        \/ Page(u) = Quiet /\ Page(u)' = Prompt("lapsed", account[u].tier)]_vars

\* The warning stands through the last WarningDays of a window, however its end was
\* extended, and comes less than a second early: the days left are rounded up from
\* whole seconds (renewal_state).
WarningIsInTime ==
    \A u \in Users : Page(u).status = "expiring" <=>
        /\ account[u].expires # NoDate
        /\ now < account[u].expires
        /\ account[u].expires < now + WarningDays * DayLength + SecondLength

\* The sweep counts an invoice as granted in one report at most and only when its
\* payment is paid, whatever webhooks settle under it (reconcile).
ReportedOnce ==
    \A s \in Sweeps, i \in Invoices :
        /\ reported[s][i] <= 1
        /\ reported[s][i] = 1 => payments[i].status = PaidStatus

\* Grants and lapses happen as if each were one step, as long as one thread at a
\* time runs them: the contract of TierContract, step by step.
Contract == INSTANCE TierContract WITH charged <- {i \in Invoices : <<i, PaidStatus>> \in sent}

KeepsContract == Contract!Spec

(***************************************************************************)
(* What must happen, under FairSpec                                        *)
(***************************************************************************)
\* Old enough, before the clock of the exploration stops, for the sweep to list.
Sweepable(i) == payments[i].created + ReconcileAfter <= MaxTime

\* A lost webhook does not strand a paying customer: the tier is granted.
PaidIsEventuallyGranted ==
    \A i \in Invoices :
        (mono[i] = PaidStatus /\ Sweepable(i) /\ i \notin Unreachable)
            ~> (mono[i] # PaidStatus \/ credited[i] > 0)

\* Claimed, and lost with the thread that was to grant it.
Stranded(i) == payments[i].status = PaidStatus /\ credited[i] = 0 /\ ~Granting(i)

\* Whatever fails, whatever is lost, and with rows the sweep can never settle in its
\* window, a payment that stays paid ends in a grant; a failure between the claim and
\* the grant is the only way to lose one (reconcile, apply_webhook).
GrantedOrStranded ==
    \A i \in Invoices :
        (mono[i] = PaidStatus /\ Sweepable(i) /\ i \notin Unreachable)
            ~> (mono[i] # PaidStatus \/ credited[i] > 0 \/ Stranded(i))

\* An invoice that has ended at Monobank is again and again recorded as ended
\* that way, with every webhook lost or stale ones arriving in between, and
\* whatever fails.  (A reversal of a payment that was recorded is ignored: the
\* code never takes a grant back.)
EndIsRecorded ==
    \A i \in Invoices : \A status \in TerminalStatuses \ {"reversed"} :
        (mono[i] = status /\ payments[i].status # "absent" /\ Sweepable(i) /\ i \notin Unreachable)
            ~> (mono[i] # status \/ payments[i].status = status)

\* Every closed window is eventually swept back to free.
LapsedIsDowngraded ==
    \A u \in Users : HasLapsed(account[u], now) ~> ~HasLapsed(account[u], now)
=============================================================================
