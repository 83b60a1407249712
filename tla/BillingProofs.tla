--------------------------- MODULE BillingProofs ---------------------------
(***************************************************************************)
(* Theorems about Billing for any number of users, invoices, handlers,     *)
(* sweeps and operators, any limit and any number of failures.             *)
(*                                                                         *)
(* The argument: only the thread whose conditional update turned a payment *)
(* to success holds the right to grant it.  That right (IInv's Claims) is  *)
(* unique per invoice, exists only while nothing has been credited, and    *)
(* dies with its thread, so a second grant has no thread to come from.     *)
(* The accounts are a second argument: every expiry, also one computed and *)
(* not yet written, lies within what its buyer's purchases add up to       *)
(* (BoughtInv), and only an account of the free tier has none (FreeIsOpen).*)
(*                                                                         *)
(* A third is about what a sweep goes by: each payment it has counted was  *)
(* given to it by one claim (CountInv), and an account it is about to      *)
(* downgrade had lapsed when it was listed and still has, unless it was    *)
(* renewed since (LapseInv).                                               *)
(*                                                                         *)
(* The contract is a fourth: as long as its threads do not overlap,        *)
(* Billing implements TierContract (FreshInv).                             *)
(***************************************************************************)
EXTENDS Billing, FiniteSetTheorems, TLAPS

Recorded(i) == payments[i].status # "absent"

Claims(t, i) == pc[t] \in GrantSteps /\ job[t].invoice = i

\* No payment is there before record_pending has put it there, and Monobank
\* cannot have moved past the payment page before it was handed out.
CheckoutInv ==
    \A i \in Invoices :
        /\ checkout[i] \in {"none", "invoiced"} => ~Recorded(i)
        /\ checkout[i] \in {"recorded", "replied"} => Recorded(i)
        /\ checkout[i] # "none" => mono[i] # "absent"
        /\ Recorded(i) => mono[i] # "absent"
        /\ mono[i] \notin {"absent", "created", "expired"} => Recorded(i)
        /\ <<i, PaidStatus>> \in sent => Recorded(i)
        /\ mono[i] # "absent" => <<i, mono[i]>> \in sent
        /\ payments[i].status = PaidStatus => <<i, PaidStatus>> \in sent

\* What the threads carry is about recorded invoices and messages really sent.
WorkInv ==
    /\ \A t \in Threads : pc[t] = "apply" =>
        /\ job[t].invoice \in Invoices
        /\ Recorded(job[t].invoice)
        /\ <<job[t].invoice, job[t].status>> \in sent
    /\ \A s \in Sweeps : \A row \in todo[s] : Recorded(row.invoice)

\* The right to grant is held by one thread, before anything was credited.
ClaimInv ==
    \A i \in Invoices :
        /\ \A t \in Threads : Claims(t, i) =>
            /\ payments[i].status = PaidStatus
            /\ ledger[i] = 0
            /\ credited[i] = IF pc[t] = "grant_log" THEN 1 ELSE 0
        /\ \A t1, t2 \in Threads : Claims(t1, i) /\ Claims(t2, i) => t1 = t2

CreditInv ==
    \A i \in Invoices :
        /\ ledger[i] <= credited[i]
        /\ credited[i] <= 1
        /\ credited[i] > 0 => payments[i].status = PaidStatus

IInv == TypeOK /\ CheckoutInv /\ WorkInv /\ ClaimInv /\ CreditInv

(***************************************************************************)
(* Types                                                                   *)
(***************************************************************************)
\* Whatever the account holds, the expiry grant_tier computes is a date.
LEMMA GrantExpiryIsDate ==
    ASSUME NEW acct \in Accounts, NEW tier \in Tiers, NEW time \in Nat, NEW days \in Dates
    PROVE  GrantExpiry(acct, tier, time, days) \in Dates
<1>1. acct.expires \in Dates
  BY DEF Accounts
<1>2. acct.expires # NoDate => acct.expires \in Nat
  BY <1>1 DEF Dates
<1>3. days # NoDate => days \in Nat
  BY DEF Dates
<1> QED
  BY <1>2, <1>3 DEF GrantExpiry, Extends, Dates

LEMMA WebhookJobIsJob ==
    ASSUME NEW i \in Invoices, NEW status \in Statuses
    PROVE  WebhookJob(i, status) \in Jobs
BY CheckoutAssumption, NumbersAssumption DEF WebhookJob, Jobs, Dates

\* Returning from apply_webhook or grant_tier keeps the threads well typed.
LEMMA ReturnTyped ==
    ASSUME TypeOK, NEW t \in Threads, Return(t)
    PROVE  /\ pc' \in [Threads -> Steps]
           /\ job' \in [Threads -> Jobs \cup {NoJob}]
           /\ \A t1 \in Threads : pc'[t1] \in GrantSteps \cup {"apply"} => job'[t1] \in Jobs
           /\ reported' \in [Sweeps -> [Invoices -> Nat]]
<1>1. /\ pc' \in [Threads -> Steps]
      /\ job' \in [Threads -> Jobs \cup {NoJob}]
  BY DEF TypeOK, Return, Steps
<1>2. \A t1 \in Threads : pc'[t1] \in GrantSteps \cup {"apply"} => job'[t1] \in Jobs
  BY DEF TypeOK, Return, GrantSteps
<1>3. reported' \in [Sweeps -> [Invoices -> Nat]]
  <2>1. reported \in [Sweeps -> [Invoices -> Nat]]
    BY DEF TypeOK
  <2>2. \/ reported' = reported
        \/ t \in Sweeps /\ reported' = [reported EXCEPT ![t][job[t].invoice] = @ + 1]
    BY DEF Return
  <2>3. ASSUME NEW f \in [Invoices -> Nat], NEW i PROVE [f EXCEPT ![i] = @ + 1] \in [Invoices -> Nat]
    <3>1. CASE i \in Invoices
      <4>1. f[i] + 1 \in Nat
        BY <2>3, <3>1
      <4> QED
        BY <2>3, <4>1
    <3>2. CASE i \notin Invoices
      BY <2>3, <3>2
    <3> QED
      BY <3>1, <3>2
  <2> QED
    BY <2>1, <2>2, <2>3
<1> QED
  BY <1>1, <1>2, <1>3

\* What a conditional update of apply_webhook writes is a payment.
LEMMA SettleTyped ==
    ASSUME payments \in [Invoices -> [status : Statuses \cup {"absent"}, created : Nat]],
           NEW i, NEW status \in Statuses, Settle(i, status)
    PROVE  payments' \in [Invoices -> [status : Statuses \cup {"absent"}, created : Nat]]
BY DEF Settle

LEMMA TypeInit == Init => TypeOK
BY DEF Init, TypeOK, MonobankInit, MonobankTypeOK, NoRecord, NewAccount, Accounts,
       Tiers, Dates, Steps, GrantSteps, Statuses

\* Every step keeps the types.  A sweep's lookup answers with a real status
\* because the listed invoice is one Monobank knows.
LEMMA TypeStep == TypeOK /\ CheckoutInv /\ WorkInv /\ [Next]_vars => TypeOK'
<1> SUFFICES ASSUME TypeOK, CheckoutInv, WorkInv, [Next]_vars PROVE TypeOK'
  OBVIOUS
<1> USE DEF TypeOK, dbVars, sweepVars, boundVars, monobankVars
<1>1. ASSUME NEW i \in Invoices, CreateInvoice(i) PROVE TypeOK'
  BY <1>1 DEF CreateInvoice, IssueInvoice, Emit, MonobankTypeOK, Statuses, InFlightStatuses
<1>2. ASSUME NEW i \in Invoices, RecordPending(i) PROVE TypeOK'
  BY <1>2 DEF RecordPending, MonobankTypeOK, Statuses, InFlightStatuses
<1>3. ASSUME NEW i \in Invoices, ReplyWithUrl(i) PROVE TypeOK'
  BY <1>3 DEF ReplyWithUrl, MonobankTypeOK
<1>4. ASSUME NEW i \in Invoices, CheckoutFails(i) PROVE TypeOK'
  BY <1>4 DEF CheckoutFails, MonobankTypeOK
<1>5. ASSUME NEW i \in Invoices, CustomerPays(i) PROVE TypeOK'
  <2>1. PICK step \in MonobankSteps : Emit(i, step[2])
    BY <1>5 DEF CustomerPays, InvoiceMoves
  <2>2. step[2] \in Statuses
    BY MonobankStepsAssumption DEF AllMonobankSteps, Statuses, InFlightStatuses,
                                   TerminalStatuses, PaidStatus
  <2>3. MonobankTypeOK'
    BY <2>1, <2>2 DEF Emit, MonobankTypeOK
  <2> QED
    BY <1>5, <2>3 DEF CustomerPays
<1>6. ASSUME NEW h \in Handlers, DeliverWebhook(h) PROVE TypeOK'
  BY <1>6, WebhookJobIsJob DEF DeliverWebhook, MonobankTypeOK, Threads, Steps
<1>7. ASSUME NEW o \in Operators, Goodwill(o) PROVE TypeOK'
  <2>1. PICK u \in Users, tier \in PaidTiers, days \in GiftDays :
          job' = [job EXCEPT ![o] =
            [invoice |-> NoInvoice, status |-> PaidStatus, user |-> u,
             tier |-> tier, days |-> days, expires |-> NoDate]]
    BY <1>7 DEF Goodwill
  <2>2. job'[o] \in Jobs
    BY <2>1, NumbersAssumption DEF Jobs, Dates, Statuses, TerminalStatuses, Threads
  <2> QED
    BY <1>7, <2>1, <2>2 DEF Goodwill, MonobankTypeOK, Threads, Steps, GrantSteps
<1>8. ASSUME NEW t \in Threads, ClaimPaid(t) PROVE TypeOK'
  <2>1. payments' \in [Invoices -> [status : Statuses \cup {"absent"}, created : Nat]]
    <3>1. PaidStatus \in Statuses
      BY DEF Statuses, TerminalStatuses
    <3> QED
      BY <1>8, <3>1, SettleTyped DEF ClaimPaid
  <2>2. /\ pc' \in [Threads -> Steps]
        /\ \A t1 \in Threads : pc'[t1] \in GrantSteps \cup {"apply"} => job'[t1] \in Jobs
    BY <1>8 DEF ClaimPaid, Steps, GrantSteps
  <2> QED
    BY <1>8, <2>1, <2>2 DEF ClaimPaid, MonobankTypeOK
<1>9. ASSUME NEW t \in Threads, AlreadyPaid(t) PROVE TypeOK'
  BY <1>9, ReturnTyped DEF AlreadyPaid, MonobankTypeOK
<1>10. ASSUME NEW t \in Threads, RecordStatus(t) PROVE TypeOK'
  <2>1. job[t].status \in Statuses
    BY <1>10 DEF RecordStatus, Jobs
  <2>2. payments' \in [Invoices -> [status : Statuses \cup {"absent"}, created : Nat]]
    BY <1>10, <2>1, SettleTyped DEF RecordStatus
  <2> QED
    BY <1>10, <2>2, ReturnTyped DEF RecordStatus, MonobankTypeOK
<1>11. ASSUME NEW t \in Threads, GrantRead(t) PROVE TypeOK'
  <2>1. job[t] \in Jobs
    BY <1>11 DEF GrantRead, GrantSteps
  <2>2. GrantExpiry(account[job[t].user], job[t].tier, now, job[t].days) \in Dates
    BY <2>1, GrantExpiryIsDate DEF Jobs, Tiers
  <2>3. job'[t] \in Jobs
    BY <1>11, <2>1, <2>2 DEF GrantRead, Jobs
  <2> QED
    BY <1>11, <2>3 DEF GrantRead, MonobankTypeOK, Steps, GrantSteps
<1>12. ASSUME NEW t \in Threads, GrantWrite(t) PROVE TypeOK'
  <2>1. job[t] \in Jobs
    BY <1>12 DEF GrantWrite, GrantSteps
  <2>2. GrantedAccount(job[t].tier, job[t].expires) \in Accounts
    BY <2>1 DEF Jobs, GrantedAccount, Accounts, Tiers, Dates
  <2>3. credited' \in [Invoices -> Nat]
    BY <1>12 DEF GrantWrite
  <2>4. renewed' \in [Sweeps -> SUBSET Users]
    BY <1>12, <2>1 DEF GrantWrite, Jobs
  <2> QED
    BY <1>12, <2>1, <2>2, <2>3, <2>4 DEF GrantWrite, MonobankTypeOK, Steps, GrantSteps
<1>13. ASSUME NEW t \in Threads, GrantLog(t) PROVE TypeOK'
  <2>1. ledger' \in [Invoices -> Nat]
    BY <1>13 DEF GrantLog
  <2> QED
    BY <1>13, <2>1, ReturnTyped DEF GrantLog, MonobankTypeOK
<1>14. ASSUME NEW t \in Threads, Abort(t) PROVE TypeOK'
  BY <1>14 DEF Abort, MonobankTypeOK, Steps, GrantSteps
<1>15. ASSUME NEW s \in Sweeps, ListUnsettled(s) PROVE TypeOK'
  <2>1. PICK W \in Windows :
          todo' = [todo EXCEPT ![s] = {[invoice |-> i, seen |-> payments[i].status] : i \in W}]
    BY <1>15 DEF ListUnsettled
  <2>2. {[invoice |-> i, seen |-> payments[i].status] : i \in W} \subseteq Rows
    BY DEF Windows, Unsettled, Rows, Statuses
  <2> QED
    BY <1>15, <2>1, <2>2 DEF ListUnsettled, MonobankTypeOK, Threads, Steps, GrantSteps
<1>16. ASSUME NEW s \in Sweeps, FetchStatus(s) PROVE TypeOK'
  <2>1. PICK row \in NextRows(s) :
          /\ todo' = [todo EXCEPT ![s] = @ \ {row}]
          /\ IF mono[row.invoice] = row.seen
             THEN UNCHANGED <<pc, job>>
             ELSE /\ job' = [job EXCEPT ![s] = WebhookJob(row.invoice, mono[row.invoice])]
                  /\ pc' = [pc EXCEPT ![s] = "apply"]
    BY <1>16 DEF FetchStatus
  <2>2. row \in todo[s] /\ row.invoice \in Invoices
    BY DEF NextRows, Rows
  <2>3. mono[row.invoice] \in Statuses
    BY <2>2 DEF CheckoutInv, WorkInv, MonobankTypeOK
  <2>4. WebhookJob(row.invoice, mono[row.invoice]) \in Jobs
    BY <2>2, <2>3, WebhookJobIsJob
  <2>5. todo' \in [Sweeps -> SUBSET Rows]
    BY <2>1
  <2>6. CASE mono[row.invoice] = row.seen
    BY <1>16, <2>1, <2>5, <2>6 DEF FetchStatus, MonobankTypeOK
  <2>7. CASE mono[row.invoice] # row.seen
    <3>1. /\ job' \in [Threads -> Jobs \cup {NoJob}]
          /\ pc' \in [Threads -> Steps]
      <4>1. job' \in [Threads -> Jobs \cup {NoJob}]
        BY <2>1, <2>4, <2>7
      <4>2. pc' \in [Threads -> Steps]
        BY <2>1, <2>7 DEF Steps
      <4> QED
        BY <4>1, <4>2
    <3>2. \A t \in Threads : pc'[t] \in GrantSteps \cup {"apply"} => job'[t] \in Jobs
      BY <2>1, <2>4, <2>7 DEF Threads
    <3> QED
      BY <1>16, <2>5, <3>1, <3>2 DEF FetchStatus, MonobankTypeOK
  <2> QED
    BY <2>6, <2>7
<1>17. ASSUME NEW s \in Sweeps, LookupFails(s) PROVE TypeOK'
  <2>1. todo' \in [Sweeps -> SUBSET Rows]
    BY <1>17 DEF LookupFails
  <2>2. faults' \in Nat
    BY <1>17 DEF LookupFails
  <2> QED
    BY <1>17, <2>1, <2>2 DEF LookupFails, MonobankTypeOK
<1>18. ASSUME NEW s \in Sweeps, ListLapsed(s) PROVE TypeOK'
  <2>1. LapsedNow \subseteq LapsedRows
    BY DEF LapsedNow, HasLapsed, LapsedRows, Accounts, Tiers
  <2>2. lapsing' \in [Sweeps -> SUBSET LapsedRows]
    BY <1>18, <2>1 DEF ListLapsed
  <2> QED
    BY <1>18, <2>2 DEF ListLapsed, MonobankTypeOK, Threads, Steps, GrantSteps
<1>19. ASSUME NEW s \in Sweeps, Downgrade(s) PROVE TypeOK'
  <2>1. PICK row \in lapsing[s] :
          /\ account' = [account EXCEPT ![row.user] = LapsedAccount(row.tier, now)]
          /\ lapsing' = [lapsing EXCEPT ![s] = @ \ {row}]
    BY <1>19 DEF Downgrade
  <2>2. LapsedAccount(row.tier, now) \in Accounts
    BY <2>1 DEF LapsedAccount, Accounts, LapsedRows, Tiers, Dates
  <2>3. /\ account' \in [Users -> Accounts]
        /\ lapsing' \in [Sweeps -> SUBSET LapsedRows]
    BY <2>1, <2>2
  <2>4. renewed' \in [Sweeps -> SUBSET Users]
    BY <1>19 DEF Downgrade
  <2> QED
    BY <1>19, <2>3, <2>4 DEF Downgrade, MonobankTypeOK
<1>20. ASSUME NEW s \in Sweeps, EndSweep(s) PROVE TypeOK'
  BY <1>20 DEF EndSweep, MonobankTypeOK, Threads, Steps, GrantSteps
<1>21. ASSUME Crash PROVE TypeOK'
  BY <1>21 DEF Crash, MonobankTypeOK, Steps, GrantSteps
<1>22. ASSUME Tick PROVE TypeOK'
  BY <1>22 DEF Tick, MonobankTypeOK
<1>23. CASE UNCHANGED vars
  BY <1>23 DEF vars, MonobankTypeOK
<1> QED
  BY <1>1, <1>2, <1>3, <1>4, <1>5, <1>6, <1>7, <1>8, <1>9, <1>10, <1>11, <1>12,
     <1>13, <1>14, <1>15, <1>16, <1>17, <1>18, <1>19, <1>20, <1>21, <1>22, <1>23
     DEF Next, Checkout, Apply, Loop

(***************************************************************************)
(* The inductive invariant                                                 *)
(***************************************************************************)
Work == CheckoutInv /\ WorkInv /\ ClaimInv /\ CreditInv

LEMMA WorkInit == Init => Work
BY DEF Init, MonobankInit, Work, CheckoutInv, WorkInv, ClaimInv, CreditInv, Recorded,
       Claims, GrantSteps, NoRecord, PaidStatus

\* The route and its failures: only RecordPending touches a payment, and it
\* finds none there.
LEMMA CheckoutStep ==
    ASSUME TypeOK, Work, NEW i \in Invoices, Checkout(i) \/ CustomerPays(i)
    PROVE  Work'
<1> USE DEF Work, TypeOK, MonobankTypeOK, Recorded
<1>1. CASE CreateInvoice(i)
  <2>1. CheckoutInv'
    BY <1>1 DEF CreateInvoice, IssueInvoice, Emit, dbVars, CheckoutInv, PaidStatus
  <2>2. WorkInv'
    BY <1>1 DEF CreateInvoice, IssueInvoice, Emit, dbVars, sweepVars, WorkInv
  <2>3. ClaimInv' /\ CreditInv'
    BY <1>1 DEF CreateInvoice, dbVars, ClaimInv, CreditInv, Claims
  <2> QED
    BY <2>1, <2>2, <2>3
<1>2. CASE RecordPending(i)
  <2>1. payments[i].status = "absent"
    BY <1>2 DEF RecordPending, CheckoutInv
  <2>2. CheckoutInv'
    BY <1>2, <2>1 DEF RecordPending, monobankVars, CheckoutInv, PaidStatus
  <2>3. WorkInv'
    BY <1>2 DEF RecordPending, monobankVars, sweepVars, WorkInv
  <2>4. ClaimInv' /\ CreditInv'
    BY <1>2, <2>1 DEF RecordPending, ClaimInv, CreditInv, Claims, PaidStatus
  <2> QED
    BY <2>2, <2>3, <2>4
<1>3. CASE ReplyWithUrl(i) \/ CheckoutFails(i)
  BY <1>3 DEF ReplyWithUrl, CheckoutFails, dbVars, sweepVars, monobankVars,
              CheckoutInv, WorkInv, ClaimInv, CreditInv, Claims
<1>4. CASE CustomerPays(i)
  <2>1. PICK step \in MonobankSteps :
          /\ mono[i] = step[1]
          /\ step[1] = "created" /\ step[2] = "processing" => checkout[i] = "replied"
          /\ Emit(i, step[2])
    BY <1>4 DEF CustomerPays, InvoiceMoves
  <2>2. /\ step[1] # "absent" /\ step[2] # "absent"
        /\ step[2] # "expired" => step[2] = "processing" \/ step[1] \notin {"created", "expired"}
        /\ step[2] = "processing" => step[1] = "created"
    <3>1. step \in AllMonobankSteps
      BY MonobankStepsAssumption
    <3> QED
      BY <3>1 DEF AllMonobankSteps
  <2>3. step[2] # "expired" => Recorded(i)
    BY <2>1, <2>2 DEF CheckoutInv
  <2>4. CheckoutInv'
    BY <1>4, <2>1, <2>2, <2>3 DEF CustomerPays, dbVars, Emit, CheckoutInv, PaidStatus
  <2>5. WorkInv'
    BY <1>4, <2>1 DEF CustomerPays, dbVars, sweepVars, Emit, WorkInv
  <2>6. ClaimInv' /\ CreditInv'
    BY <1>4 DEF CustomerPays, dbVars, ClaimInv, CreditInv, Claims
  <2> QED
    BY <2>4, <2>5, <2>6
<1> QED
  BY <1>1, <1>2, <1>3, <1>4 DEF Checkout

\* apply_webhook and grant_tier.  ClaimPaid creates a claim where none is,
\* GrantWrite spends it, and a return or a failure drops it.
LEMMA ApplyStep ==
    ASSUME TypeOK, Work, NEW t \in Threads, Apply(t)
    PROVE  Work'
<1> USE DEF Work, TypeOK, Recorded
<1>1. CASE ClaimPaid(t)
  <2> DEFINE i == job[t].invoice
  <2>1. /\ i \in Invoices /\ Recorded(i) /\ <<i, PaidStatus>> \in sent
        /\ payments[i].status # PaidStatus
    BY <1>1 DEF ClaimPaid, PaysOut, Unpaid, WorkInv
  <2>2. /\ payments'[i].status = PaidStatus
        /\ \A j \in Invoices \ {i} : payments'[j] = payments[j]
    BY <1>1, <2>1 DEF ClaimPaid, Unpaid, Settle
  <2>3. CheckoutInv'
    BY <1>1, <2>1, <2>2 DEF ClaimPaid, monobankVars, CheckoutInv, PaidStatus
  <2>4. WorkInv'
    <3>1. \A j \in Invoices : payments[j].status # "absent" => payments'[j].status # "absent"
      BY <2>2 DEF PaidStatus
    <3>2. \A s \in Sweeps : \A row \in todo[s] : row.invoice \in Invoices
      BY DEF Rows
    <3>3. \A s \in Sweeps : \A row \in todo'[s] : payments'[row.invoice].status # "absent"
      BY <1>1, <3>1, <3>2 DEF ClaimPaid, WorkInv, sweepVars
    <3>4. \A t1 \in Threads : pc'[t1] = "apply" => pc[t1] = "apply" /\ job'[t1] = job[t1]
      BY <1>1 DEF ClaimPaid
    <3> QED
      BY <1>1, <3>1, <3>3, <3>4 DEF ClaimPaid, monobankVars, WorkInv
  <2>5. credited[i] = 0 /\ ledger[i] = 0 /\ \A t1 \in Threads : ~Claims(t1, i)
    BY <2>1 DEF ClaimInv, CreditInv
  <2>6. \A t1 \in Threads : Claims(t1, i)' => t1 = t /\ pc'[t1] = "grant_read"
    BY <1>1, <2>5 DEF ClaimPaid, Claims
  <2>7. \A t1 \in Threads, j \in Invoices \ {i} :
          Claims(t1, j)' => Claims(t1, j) /\ pc'[t1] = pc[t1]
    BY <1>1 DEF ClaimPaid, Claims
  <2>8. ClaimInv'
    BY <1>1, <2>2, <2>5, <2>6, <2>7 DEF ClaimPaid, ClaimInv
  <2>9. CreditInv'
    BY <1>1, <2>2 DEF ClaimPaid, CreditInv
  <2> QED
    BY <2>3, <2>4, <2>8, <2>9
<1>2. CASE AlreadyPaid(t)
  BY <1>2 DEF AlreadyPaid, Return, dbVars, monobankVars, CheckoutInv, WorkInv, ClaimInv,
              CreditInv, Claims, GrantSteps
<1>3. CASE RecordStatus(t)
  <2> DEFINE i == job[t].invoice
  <2>1. /\ i \in Invoices /\ Recorded(i) /\ job[t].status \in Statuses
        /\ job[t].status # PaidStatus /\ payments[i].status # PaidStatus
    BY <1>3 DEF RecordStatus, PaysOut, Unpaid, WorkInv, Jobs
  <2>2. /\ payments'[i].status = job[t].status
        /\ \A j \in Invoices \ {i} : payments'[j] = payments[j]
    BY <1>3, <2>1 DEF RecordStatus, Settle
  <2>3. job[t].status # "absent"
    BY <2>1 DEF Statuses, InFlightStatuses, TerminalStatuses, PaidStatus
  <2>4. \A j \in Invoices : payments'[j].status = PaidStatus => payments[j].status = PaidStatus
    BY <2>1, <2>2
  <2>5. \A j \in Invoices : Recorded(j) <=> Recorded(j)'
    BY <2>1, <2>2, <2>3 DEF Recorded, CheckoutInv
  <2>6. CheckoutInv'
    BY <1>3, <2>4, <2>5 DEF RecordStatus, monobankVars, CheckoutInv
  <2>7. WorkInv'
    <3>1. \A j \in Invoices : payments[j].status # "absent" => payments'[j].status # "absent"
      BY <2>2, <2>3 DEF PaidStatus
    <3>2. \A s \in Sweeps : \A row \in todo[s] : row.invoice \in Invoices
      BY DEF Rows
    <3>3. \A s \in Sweeps : \A row \in todo'[s] : payments'[row.invoice].status # "absent"
      BY <1>3, <3>1, <3>2 DEF RecordStatus, WorkInv
    <3>4. \A t1 \in Threads : pc'[t1] = "apply" => pc[t1] = "apply" /\ job'[t1] = job[t1]
      BY <1>3 DEF RecordStatus, Return
    <3> QED
      BY <1>3, <3>1, <3>3, <3>4 DEF RecordStatus, monobankVars, WorkInv
  <2>8. \A t1 \in Threads, j \in Invoices :
          Claims(t1, j)' => Claims(t1, j) /\ j # i /\ pc'[t1] = pc[t1]
    BY <1>3, <2>1 DEF RecordStatus, Return, Claims, ClaimInv, GrantSteps
  <2>9. ClaimInv'
    BY <1>3, <2>2, <2>8 DEF RecordStatus, ClaimInv
  <2>10. CreditInv'
    BY <1>3, <2>1, <2>2 DEF RecordStatus, CreditInv
  <2> QED
    BY <2>6, <2>7, <2>9, <2>10
<1>4. CASE GrantRead(t)
  <2>1. CheckoutInv' /\ CreditInv'
    BY <1>4 DEF GrantRead, dbVars, monobankVars, CheckoutInv, CreditInv
  <2>2. job[t] \in Jobs
    BY <1>4 DEF GrantRead, GrantSteps
  <2>3. \A t1 \in Threads, j \in Invoices : Claims(t1, j)' <=> Claims(t1, j)
    BY <1>4, <2>2 DEF GrantRead, Claims, GrantSteps, Jobs
  <2>4. \A t1 \in Threads : (pc'[t1] = "grant_log") <=> (pc[t1] = "grant_log")
    BY <1>4 DEF GrantRead
  <2>5. ClaimInv'
    BY <1>4, <2>3, <2>4 DEF GrantRead, dbVars, ClaimInv
  <2>6. WorkInv'
    BY <1>4 DEF GrantRead, dbVars, sweepVars, monobankVars, WorkInv
  <2> QED
    BY <2>1, <2>5, <2>6
<1>5. CASE GrantWrite(t)
  <2>1. CheckoutInv' /\ WorkInv'
    BY <1>5 DEF GrantWrite, sweepVars, monobankVars, CheckoutInv, WorkInv
  <2>2. \A t1 \in Threads, j \in Invoices : Claims(t1, j)' <=> Claims(t1, j)
    BY <1>5 DEF GrantWrite, Claims, GrantSteps
  <2>3. \A j \in Invoices : job[t].invoice = j =>
          /\ Claims(t, j)
          /\ credited[j] = 0 /\ credited'[j] = 1 /\ payments[j].status = PaidStatus
    BY <1>5 DEF GrantWrite, ClaimInv, Claims, GrantSteps
  <2>4. \A j \in Invoices : job[t].invoice # j => credited'[j] = credited[j]
    BY <1>5 DEF GrantWrite
  <2>5. \A t1 \in Threads : (pc'[t1] = "grant_log") <=> (t1 = t \/ pc[t1] = "grant_log")
    BY <1>5 DEF GrantWrite
  <2>6. ClaimInv'
    BY <1>5, <2>2, <2>3, <2>4, <2>5 DEF GrantWrite, ClaimInv, Claims
  <2>7. CreditInv'
    BY <1>5, <2>3, <2>4 DEF GrantWrite, CreditInv
  <2> QED
    BY <2>1, <2>6, <2>7
<1>6. CASE GrantLog(t)
  <2>1. CheckoutInv' /\ WorkInv'
    BY <1>6 DEF GrantLog, Return, monobankVars, CheckoutInv, WorkInv
  <2>2. \A t1 \in Threads, j \in Invoices :
          Claims(t1, j)' => Claims(t1, j) /\ t1 # t /\ pc'[t1] = pc[t1]
    BY <1>6 DEF GrantLog, Return, Claims, GrantSteps
  <2>3. \A j \in Invoices : job[t].invoice = j =>
          /\ Claims(t, j)
          /\ ledger[j] = 0 /\ ledger'[j] = 1 /\ credited[j] = 1
    BY <1>6 DEF GrantLog, ClaimInv, Claims, GrantSteps
  <2>4. \A j \in Invoices : job[t].invoice # j => ledger'[j] = ledger[j]
    BY <1>6 DEF GrantLog
  <2>5. ClaimInv'
    BY <1>6, <2>2, <2>3, <2>4 DEF GrantLog, ClaimInv
  <2>6. CreditInv'
    BY <1>6, <2>3, <2>4 DEF GrantLog, CreditInv
  <2> QED
    BY <2>1, <2>5, <2>6
<1> QED
  BY <1>1, <1>2, <1>3, <1>4, <1>5, <1>6 DEF Apply

\* A thread starts with a payment that is recorded and a message that was sent.
LEMMA StartStep ==
    ASSUME TypeOK, Work, NEW t \in Threads,
           \/ t \in Handlers /\ DeliverWebhook(t)
           \/ t \in Operators /\ Goodwill(t)
    PROVE  Work'
<1> USE DEF Work, TypeOK, Recorded, dbVars, sweepVars, monobankVars
<1>1. CASE t \in Handlers /\ DeliverWebhook(t)
  <2>1. PICK i \in Invoices, status \in Statuses :
          /\ <<i, status>> \in sent
          /\ payments[i].status # "absent"
          /\ job' = [job EXCEPT ![t] = WebhookJob(i, status)]
    BY <1>1 DEF DeliverWebhook
  <2>2. CheckoutInv' /\ CreditInv'
    BY <1>1 DEF DeliverWebhook, CheckoutInv, CreditInv
  <2>3. WorkInv'
    BY <1>1, <2>1 DEF DeliverWebhook, WebhookJob, WorkInv
  <2>4. \A t1 \in Threads, j \in Invoices : Claims(t1, j)' => Claims(t1, j) /\ pc'[t1] = pc[t1]
    BY <1>1, <2>1 DEF DeliverWebhook, Claims, GrantSteps
  <2>5. ClaimInv'
    BY <1>1, <2>4 DEF DeliverWebhook, ClaimInv
  <2> QED
    BY <2>2, <2>3, <2>5
<1>2. CASE t \in Operators /\ Goodwill(t)
  <2>1. job'[t].invoice \notin Invoices
    BY <1>2, CheckoutAssumption DEF Goodwill
  <2>2. \A t1 \in Threads \ {t} : job'[t1] = job[t1] /\ pc'[t1] = pc[t1]
    BY <1>2 DEF Goodwill
  <2>3. CheckoutInv' /\ CreditInv'
    BY <1>2 DEF Goodwill, CheckoutInv, CreditInv
  <2>4. WorkInv'
    BY <1>2, <2>2 DEF Goodwill, WorkInv
  <2>5. \A t1 \in Threads, j \in Invoices : Claims(t1, j)' => Claims(t1, j) /\ pc'[t1] = pc[t1]
    BY <2>1, <2>2 DEF Claims
  <2>6. ClaimInv'
    BY <1>2, <2>5 DEF Goodwill, ClaimInv
  <2> QED
    BY <2>3, <2>4, <2>6
<1> QED
  BY <1>1, <1>2

\* The background loop lists recorded payments and applies what Monobank says.
LEMMA LoopStep ==
    ASSUME TypeOK, Work, NEW s \in Sweeps, Loop(s)
    PROVE  Work'
<1> USE DEF Work, TypeOK, Recorded, Threads, dbVars, monobankVars
<1>1. CheckoutInv' /\ CreditInv'
  BY DEF Loop, ListUnsettled, FetchStatus, LookupFails, ListLapsed, Downgrade, EndSweep,
         CheckoutInv, CreditInv
<1>2. UNCHANGED <<payments, credited, ledger, sent, mono>>
  BY DEF Loop, ListUnsettled, FetchStatus, LookupFails, ListLapsed, Downgrade, EndSweep
<1>3. \A t \in Threads, i \in Invoices : Claims(t, i)' => Claims(t, i) /\ pc'[t] = pc[t]
  BY DEF Loop, ListUnsettled, FetchStatus, LookupFails, ListLapsed, Downgrade, EndSweep,
         Claims, GrantSteps
<1>4. ClaimInv'
  BY <1>2, <1>3 DEF ClaimInv
<1>5. CASE ListUnsettled(s)
  <2>1. PICK W \in Windows :
          todo' = [todo EXCEPT ![s] = {[invoice |-> i, seen |-> payments[i].status] : i \in W}]
    BY <1>5 DEF ListUnsettled
  <2>2. \A i \in W : payments[i].status # "absent"
    BY DEF Windows, Unsettled, InFlightStatuses
  <2>3. \A s1 \in Sweeps : \A row \in todo'[s1] : payments[row.invoice].status # "absent"
    BY <2>1, <2>2 DEF WorkInv
  <2>4. WorkInv'
    BY <1>5, <2>3 DEF ListUnsettled, WorkInv
  <2> QED
    BY <1>1, <1>4, <2>4
<1>6. CASE FetchStatus(s)
  <2>1. PICK row \in todo[s] :
          /\ todo' = [todo EXCEPT ![s] = @ \ {row}]
          /\ IF mono[row.invoice] = row.seen
             THEN UNCHANGED <<pc, job>>
             ELSE /\ job' = [job EXCEPT ![s] = WebhookJob(row.invoice, mono[row.invoice])]
                  /\ pc' = [pc EXCEPT ![s] = "apply"]
    BY <1>6 DEF FetchStatus, NextRows
  <2>2. /\ row.invoice \in Invoices
        /\ payments[row.invoice].status # "absent"
        /\ <<row.invoice, mono[row.invoice]>> \in sent
    <3>1. row.invoice \in Invoices
      BY DEF Rows
    <3>2. payments[row.invoice].status # "absent"
      BY DEF WorkInv
    <3> QED
      BY <3>1, <3>2 DEF CheckoutInv
  <2>3. \A s1 \in Sweeps : todo'[s1] \subseteq todo[s1]
    BY <2>1
  <2>4. \A t \in Threads : pc'[t] = "apply" =>
          \/ pc[t] = "apply" /\ job'[t] = job[t]
          \/ job'[t] = WebhookJob(row.invoice, mono[row.invoice])
    BY <2>1
  <2>5. \A t \in Threads : pc'[t] = "apply" =>
          /\ job'[t].invoice \in Invoices
          /\ payments[job'[t].invoice].status # "absent"
          /\ <<job'[t].invoice, job'[t].status>> \in sent
    <3> DEFINE new == WebhookJob(row.invoice, mono[row.invoice])
    <3>1. new.invoice = row.invoice /\ new.status = mono[row.invoice]
      BY DEF WebhookJob
    <3> HIDE DEF new
    <3> TAKE t \in Threads
    <3> HAVE pc'[t] = "apply"
    <3>2. CASE pc[t] = "apply" /\ job'[t] = job[t]
      BY <3>2 DEF WorkInv
    <3>3. CASE job'[t] = new
      BY <2>2, <3>1, <3>3
    <3> QED
      BY <2>4, <3>2, <3>3 DEF new
  <2>6. \A s1 \in Sweeps : \A r \in todo'[s1] : payments[r.invoice].status # "absent"
    BY <2>3 DEF WorkInv
  <2>7. WorkInv'
    BY <1>2, <2>5, <2>6 DEF WorkInv
  <2> QED
    BY <1>1, <1>4, <2>7
<1>7. CASE LookupFails(s) \/ ListLapsed(s) \/ Downgrade(s) \/ EndSweep(s)
  <2>1. \A s1 \in Sweeps : todo'[s1] \subseteq todo[s1]
    BY <1>7 DEF LookupFails, ListLapsed, Downgrade, EndSweep, sweepVars
  <2>2. job' = job /\ \A t \in Threads : pc'[t] = "apply" => pc[t] = "apply"
    BY <1>7 DEF LookupFails, ListLapsed, Downgrade, EndSweep
  <2>3. WorkInv'
    BY <1>2, <2>1, <2>2 DEF WorkInv
  <2> QED
    BY <1>1, <1>4, <2>3
<1> QED
  BY <1>5, <1>6, <1>7 DEF Loop

\* A failure ends threads: work and claims only disappear.
LEMMA FailureStep ==
    ASSUME TypeOK, Work, Crash \/ (\E t \in Threads : Abort(t))
    PROVE  Work'
<1> USE DEF Work, TypeOK, Recorded, dbVars, monobankVars
<1>1. UNCHANGED <<payments, credited, ledger, sent, mono>>
  BY DEF Crash, Abort
<1>2. \A t \in Threads : pc'[t] # "idle" => pc'[t] = pc[t] /\ job'[t] = job[t]
  BY DEF Crash, Abort
<1>3. \A s \in Sweeps : todo'[s] \subseteq todo[s]
  BY DEF Crash, Abort
<1>4. CheckoutInv'
  BY DEF Crash, Abort, CheckoutInv
<1>5. WorkInv'
  BY <1>1, <1>2, <1>3 DEF WorkInv
<1>6. \A t \in Threads, i \in Invoices : Claims(t, i)' => Claims(t, i) /\ pc'[t] = pc[t]
  BY <1>2 DEF Claims, GrantSteps
<1>7. ClaimInv' /\ CreditInv'
  BY <1>1, <1>6 DEF ClaimInv, CreditInv
<1> QED
  BY <1>4, <1>5, <1>7

LEMMA IInvStep == IInv /\ [Next]_vars => IInv'
<1> SUFFICES ASSUME TypeOK, Work, [Next]_vars PROVE TypeOK' /\ Work'
  BY DEF IInv, Work
<1>1. TypeOK'
  BY TypeStep DEF Work
<1>2. ASSUME NEW i \in Invoices, Checkout(i) \/ CustomerPays(i) PROVE Work'
  BY <1>2, CheckoutStep
<1>3. ASSUME NEW h \in Handlers, DeliverWebhook(h) PROVE Work'
  BY <1>3, StartStep DEF Threads
<1>4. ASSUME NEW o \in Operators, Goodwill(o) PROVE Work'
  BY <1>4, StartStep DEF Threads
<1>5. ASSUME NEW t \in Threads, Apply(t) PROVE Work'
  BY <1>5, ApplyStep
<1>6. ASSUME NEW s \in Sweeps, Loop(s) PROVE Work'
  BY <1>6, LoopStep
<1>7. ASSUME Crash \/ \E t \in Threads : Abort(t) PROVE Work'
  BY <1>7, FailureStep
<1>8. CASE Tick \/ UNCHANGED vars
  <2>1. UNCHANGED <<checkout, payments, ledger, credited, pc, job, todo, mono, sent>>
    BY <1>8 DEF Tick, vars, dbVars, sweepVars, monobankVars
  <2>2. CheckoutInv' /\ CreditInv'
    BY <2>1 DEF Work, CheckoutInv, CreditInv, Recorded
  <2>3. WorkInv'
    BY <2>1 DEF Work, WorkInv, Recorded
  <2>4. ClaimInv'
    BY <2>1 DEF Work, ClaimInv, Claims
  <2> QED
    BY <1>1, <2>2, <2>3, <2>4 DEF Work
<1> QED
  BY <1>1, <1>2, <1>3, <1>4, <1>5, <1>6, <1>7, <1>8 DEF Next

LEMMA IInvAlways == Spec => []IInv
<1>1. Init => IInv
  BY TypeInit, WorkInit DEF IInv, Work
<1> QED
  BY <1>1, IInvStep, PTL DEF Spec

(***************************************************************************)
(* The theorems                                                            *)
(***************************************************************************)
\* Every variable keeps its type (all of app/services/billing.py's records).
THEOREM TypeCorrect == Spec => []TypeOK
<1>1. IInv => TypeOK
  BY DEF IInv
<1> QED
  BY <1>1, IInvAlways, PTL

\* apply_webhook's conditional update makes the grant exactly-once-at-most: for
\* any number of concurrent deliveries, sweeps, failures and restarts an invoice
\* is credited at most once and logged at most once, never without a grant.
THEOREM AtMostOnce == Spec => []GrantedAtMostOnce
<1>1. IInv => GrantedAtMostOnce
  BY DEF IInv, CreditInv, GrantedAtMostOnce
<1> QED
  BY <1>1, IInvAlways, PTL

\* No tier without money: what was credited was reported paid by Monobank and is
\* recorded as paid.
THEOREM PaidFirst == Spec => []GrantOnlyIfPaid
<1>1. IInv => GrantOnlyIfPaid
  BY DEF IInv, TypeOK, CheckoutInv, CreditInv, GrantOnlyIfPaid
<1> QED
  BY <1>1, IInvAlways, PTL

\* No money without a record: checkout's order (create, record, reply) means a
\* customer can only ever be charged for an invoice the webhook will find.
THEOREM RecordedFirst == Spec => []ChargedIsRecorded
<1>1. IInv => ChargedIsRecorded
  BY DEF IInv, CheckoutInv, Recorded, ChargedIsRecorded
<1> QED
  BY <1>1, IInvAlways, PTL

\* No late, stale or repeated status takes a paid payment back: RecordPending only
\* inserts, and both conditional updates skip a paid one.
StaysPaid == \A i \in Invoices : payments[i].status = PaidStatus => payments'[i].status = PaidStatus

LEMMA PaidStep == IInv /\ [Next]_vars => StaysPaid
<1> SUFFICES ASSUME TypeOK, CheckoutInv, [Next]_vars PROVE StaysPaid
  BY DEF IInv
<1>1. CASE UNCHANGED payments
  BY <1>1 DEF StaysPaid
<1>2. ASSUME NEW i \in Invoices, RecordPending(i) PROVE StaysPaid
  BY <1>2 DEF RecordPending, CheckoutInv, Recorded, TypeOK, PaidStatus, StaysPaid
<1>3. ASSUME NEW t \in Threads, ClaimPaid(t) \/ RecordStatus(t) PROVE StaysPaid
  BY <1>3 DEF ClaimPaid, RecordStatus, Unpaid, Settle, TypeOK, StaysPaid
<1> QED
  BY <1>1, <1>2, <1>3 DEF Next, Checkout, Apply, Loop, CreateInvoice, ReplyWithUrl,
     CheckoutFails, CustomerPays, DeliverWebhook, Goodwill, AlreadyPaid, GrantRead,
     GrantWrite, GrantLog, Abort, ListUnsettled, FetchStatus, LookupFails, ListLapsed,
     Downgrade, EndSweep, Crash, Tick, vars, dbVars

THEOREM PaidStaysPaid == Spec => PaidIsFinal
<1>1. [][StaysPaid]_vars <=> PaidIsFinal
  BY PTL DEF PaidIsFinal, StaysPaid
<1> QED
  BY <1>1, PaidStep, IInvAlways, PTL DEF Spec

(***************************************************************************)
(* A claim and its grant                                                   *)
(***************************************************************************)
\* The steps that neither claim a payment nor make, drop or lose a grant.
LEMMA ClaimAside ==
    ASSUME ClaimLeadsToGrant, UNCHANGED <<credited, lost>>,
           \A i \in Invoices : payments'[i].status = PaidStatus => payments[i].status = PaidStatus,
           \A t \in Threads : pc[t] \in {"grant_read", "grant_write"} =>
                pc'[t] \in {"grant_read", "grant_write"} /\ job'[t].invoice = job[t].invoice
    PROVE  ClaimLeadsToGrant'
<1>1. \A i \in Invoices : Granting(i) => Granting(i)'
  BY DEF Granting, Holds
<1> QED
  BY <1>1 DEF ClaimLeadsToGrant

LEMMA ClaimStep == IInv /\ ClaimLeadsToGrant /\ [Next]_vars => ClaimLeadsToGrant'
<1> SUFFICES ASSUME IInv, ClaimLeadsToGrant, [Next]_vars PROVE ClaimLeadsToGrant'
  OBVIOUS
<1>0. /\ TypeOK /\ pc \in [Threads -> Steps]
      /\ job \in [Threads -> Jobs \cup {NoJob}]
      /\ payments \in [Invoices -> [status : Statuses \cup {"absent"}, created : Nat]]
      /\ credited \in [Invoices -> Nat]
  BY DEF IInv, TypeOK
<1>1. ASSUME UNCHANGED <<payments, credited>>, lost \subseteq lost',
             \A i \in Invoices : Granting(i) => Granting(i)' \/ i \in lost'
      PROVE  ClaimLeadsToGrant'
  BY <1>1 DEF ClaimLeadsToGrant
<1>2. ASSUME UNCHANGED <<payments, credited, pc, job, lost>> PROVE ClaimLeadsToGrant'
  BY <1>1, <1>2 DEF Granting, Holds
<1>3. ASSUME NEW i \in Invoices, Checkout(i) \/ CustomerPays(i) PROVE ClaimLeadsToGrant'
  <2>1. CASE RecordPending(i)
    BY <1>0, <2>1, ClaimAside DEF RecordPending, boundVars, PaidStatus
  <2>2. CASE CreateInvoice(i) \/ ReplyWithUrl(i) \/ CheckoutFails(i) \/ CustomerPays(i)
    BY <1>2, <2>2 DEF CreateInvoice, ReplyWithUrl, CheckoutFails, CustomerPays, dbVars, boundVars
  <2> QED
    BY <1>3, <2>1, <2>2 DEF Checkout
<1>4. ASSUME NEW t \in Threads, pc[t] \notin {"grant_read", "grant_write"},
             UNCHANGED <<credited, lost>>,
             \A i \in Invoices : payments'[i].status = PaidStatus => payments[i].status = PaidStatus,
             \A u \in Threads \ {t} : pc'[u] = pc[u] /\ job'[u] = job[u]
      PROVE  ClaimLeadsToGrant'
  BY <1>4, ClaimAside
<1>5. ASSUME NEW t \in Threads, ClaimPaid(t) PROVE ClaimLeadsToGrant'
  <2>1. pc'[t] = "grant_read" /\ job' = job /\ UNCHANGED <<credited, lost>>
    BY <1>0, <1>5 DEF ClaimPaid, boundVars
  <2>2. \A i \in Invoices : payments'[i].status = PaidStatus =>
            payments[i].status = PaidStatus \/ i = job[t].invoice
    BY <1>0, <1>5 DEF ClaimPaid, Settle
  <2>3. \A i \in Invoices : Granting(i) => Granting(i)'
    BY <1>0, <1>5, <2>1 DEF ClaimPaid, Granting, Holds
  <2> QED
    BY <2>1, <2>2, <2>3 DEF ClaimLeadsToGrant, Granting, Holds
<1>6. ASSUME NEW t \in Threads, AlreadyPaid(t) \/ RecordStatus(t) PROVE ClaimLeadsToGrant'
  <2>1. \A i \in Invoices : payments'[i].status = PaidStatus => payments[i].status = PaidStatus
    BY <1>0, <1>6 DEF AlreadyPaid, RecordStatus, PaysOut, Settle, dbVars
  <2>2. \A u \in Threads \ {t} : pc'[u] = pc[u] /\ job'[u] = job[u]
    BY <1>0, <1>6 DEF AlreadyPaid, RecordStatus, Return
  <2> QED
    BY <1>4, <1>6, <2>1, <2>2 DEF AlreadyPaid, RecordStatus, dbVars, boundVars
<1>7. ASSUME NEW t \in Threads, GrantRead(t) PROVE ClaimLeadsToGrant'
  <2>1. pc'[t] = "grant_write" /\ job'[t].invoice = job[t].invoice
    BY <1>0, <1>7 DEF GrantRead, TypeOK, GrantSteps, Jobs
  <2>2. \A u \in Threads \ {t} : pc'[u] = pc[u] /\ job'[u] = job[u]
    BY <1>0, <1>7 DEF GrantRead
  <2> QED
    BY <1>7, <2>1, <2>2, ClaimAside DEF GrantRead, dbVars, boundVars
<1>8. ASSUME NEW t \in Threads, GrantWrite(t) PROVE ClaimLeadsToGrant'
  <2>1. /\ pc' = [pc EXCEPT ![t] = "grant_log"]
        /\ UNCHANGED <<payments, job, lost>>
        /\ credited' = IF job[t].invoice \in Invoices
                       THEN [credited EXCEPT ![job[t].invoice] = @ + 1] ELSE credited
    BY <1>8 DEF GrantWrite, boundVars
  <2>2. \A i \in Invoices : credited'[i] = 0 => i # job[t].invoice /\ credited[i] = 0
    BY <1>0, <2>1
  <2>3. \A i \in Invoices : i # job[t].invoice /\ Granting(i) => Granting(i)'
    BY <1>0, <2>1 DEF Granting, Holds
  <2> QED
    BY <2>1, <2>2, <2>3 DEF ClaimLeadsToGrant
<1>9. ASSUME NEW t \in Threads, GrantLog(t) PROVE ClaimLeadsToGrant'
  <2>1. \A u \in Threads \ {t} : pc'[u] = pc[u] /\ job'[u] = job[u]
    BY <1>0, <1>9 DEF GrantLog, Return
  <2> QED
    BY <1>4, <1>9, <2>1 DEF GrantLog, boundVars
<1>10. ASSUME NEW t \in Threads, pc[t] \in {"idle", "fetch", "downgrade"},
              UNCHANGED <<payments, credited, lost>>,
              \A u \in Threads \ {t} : pc'[u] = pc[u] /\ job'[u] = job[u]
       PROVE  ClaimLeadsToGrant'
  BY <1>4, <1>10
<1>11. ASSUME NEW t \in Threads, DeliverWebhook(t) \/ Goodwill(t) PROVE ClaimLeadsToGrant'
  <2>1. \A u \in Threads \ {t} : pc'[u] = pc[u] /\ job'[u] = job[u]
    BY <1>0, <1>11 DEF DeliverWebhook, Goodwill
  <2> QED
    BY <1>10, <1>11, <2>1 DEF DeliverWebhook, Goodwill, dbVars, boundVars
<1>12. ASSUME NEW s \in Sweeps, Loop(s) PROVE ClaimLeadsToGrant'
  <2>1. s \in Threads
    BY DEF Threads
  <2>2. CASE LookupFails(s)
    BY <1>2, <2>2 DEF LookupFails, dbVars
  <2>3. CASE ~LookupFails(s)
    <3>1. /\ pc[s] \in {"idle", "fetch", "downgrade"}
          /\ UNCHANGED <<payments, credited, lost>>
      BY <1>12, <2>3 DEF Loop, ListUnsettled, FetchStatus, ListLapsed, Downgrade, EndSweep,
                         dbVars, boundVars
    <3>2. \A u \in Threads \ {s} : pc'[u] = pc[u] /\ job'[u] = job[u]
      BY <1>0, <1>12, <2>3 DEF Loop, ListUnsettled, FetchStatus, ListLapsed, Downgrade, EndSweep
    <3> QED
      BY <1>10, <2>1, <3>1, <3>2
  <2> QED
    BY <2>2, <2>3
<1>13. ASSUME NEW t \in Threads, Abort(t) PROVE ClaimLeadsToGrant'
  <2>1. /\ \A i \in Invoices : Holds(t, i) => i \in lost'
        /\ \A u \in Threads \ {t}, i \in Invoices : Holds(u, i) => Holds(u, i)'
        /\ lost \subseteq lost' /\ UNCHANGED <<payments, credited>>
    BY <1>0, <1>13 DEF Abort, Holds, dbVars
  <2>2. \A i \in Invoices : Granting(i) => Granting(i)' \/ i \in lost'
    BY <2>1 DEF Granting
  <2> QED
    BY <1>1, <2>1, <2>2
<1>14. CASE Crash
  BY <1>1, <1>14 DEF Crash, dbVars
<1>15. CASE Tick \/ UNCHANGED vars
  BY <1>2, <1>15 DEF Tick, vars, dbVars, boundVars
<1> QED
  BY <1>3, <1>5, <1>6, <1>7, <1>8, <1>9, <1>11, <1>12, <1>13, <1>14, <1>15 DEF Next, Apply, Threads

\* A payment recorded as paid whose tier was never granted has a thread at work on it,
\* or that thread failed before its write: no failure of another thread, no race and no
\* later status can part the claim from the grant (apply_webhook, grant_tier).
THEOREM ClaimsAreHonoured == Spec => []ClaimLeadsToGrant
<1>1. Init => ClaimLeadsToGrant
  BY DEF Init, ClaimLeadsToGrant, NoRecord, PaidStatus
<1> QED
  BY <1>1, ClaimStep, IInvAlways, PTL DEF Spec

(***************************************************************************)
(* Windows                                                                 *)
(***************************************************************************)
LEMMA DivMod ==
    ASSUME NEW d \in Nat \ {0}, NEW x \in Int
    PROVE  /\ x \div d \in Int /\ x % d \in Int
           /\ x = d * (x \div d) + (x % d) /\ 0 <= x % d /\ x % d < d
<1>1. x \div d \in Int /\ x % d \in Int
  OBVIOUS
<1>2. 0 <= x % d /\ x % d < d
  OBVIOUS
<1>3. x = d * (x \div d) + (x % d)
  OBVIOUS
<1> QED
  BY <1>1, <1>2, <1>3

LEMMA WholeSeconds ==
    ASSUME NEW c \in Nat \ {0}, NEW r \in Nat
    PROVE  r \div c > 0 <=> r >= c
<1> DEFINE p == r \div c
<1>1. p \in Int /\ c * p <= r /\ r < c * p + c
  BY DivMod
<1> HIDE DEF p
<1>2. CASE p >= 1
  <2>1. c * 1 <= c * p
    BY <1>1, <1>2
  <2> QED
    BY <1>1, <1>2, <2>1 DEF p
<1>3. CASE p <= 0
  <2>1. c * p <= c * 0
    BY <1>1, <1>3
  <2> QED
    BY <1>1, <1>3, <2>1 DEF p
<1> QED
  BY <1>1, <1>2, <1>3

\* The days left, rounded up from whole seconds, fall to the bound at one instant: when
\* less than a second more than that many days is left.
LEMMA RoundedUp ==
    ASSUME NEW acct, acct.expires \in Nat, NEW time \in Nat
    PROVE  DaysLeft(acct, time) <= WarningDays
             <=> acct.expires - time < WarningDays * DayLength + SecondLength
<1> DEFINE x == acct.expires - time
           q == x \div DayLength
           r == x % DayLength
           part == r \div SecondLength
<1>1. /\ DayLength \in Nat \ {0} /\ SecondLength \in Nat \ {0} /\ SecondLength <= DayLength
      /\ WarningDays \in Nat /\ x \in Int
  BY RenewalAssumption
<1>2. q \in Int /\ r \in Int /\ x = DayLength * q + r /\ 0 <= r /\ r < DayLength
  BY <1>1, DivMod
<1>3. part > 0 <=> r >= SecondLength
  <2>1. r \in Nat
    BY <1>2
  <2> QED
    BY <1>1, <2>1, WholeSeconds
<1>4. DaysLeft(acct, time) = q + (IF part > 0 THEN 1 ELSE 0)
  BY DEF DaysLeft
<1> HIDE DEF q, r, part, x
<1>5. /\ DayLength * q \in Int /\ DayLength * WarningDays \in Int
      /\ WarningDays * DayLength = DayLength * WarningDays
  BY <1>1, <1>2
<1>6. CASE q < WarningDays
  <2>1. DayLength * (q + 1) <= DayLength * WarningDays
    BY <1>1, <1>2, <1>6
  <2>2. DayLength * (q + 1) = DayLength * q + DayLength
    BY <1>1, <1>2
  <2>3. x < DayLength * WarningDays + SecondLength
    BY <1>1, <1>2, <1>5, <2>1, <2>2
  <2> QED
    BY <1>1, <1>2, <1>4, <1>5, <1>6, <2>3 DEF x
<1>7. CASE q = WarningDays
  <2>1. x < DayLength * WarningDays + SecondLength <=> r < SecondLength
    BY <1>1, <1>2, <1>5, <1>7
  <2>2. DaysLeft(acct, time) <= WarningDays <=> ~(part > 0)
    BY <1>1, <1>4, <1>7
  <2> QED
    BY <1>1, <1>2, <1>3, <1>5, <2>1, <2>2 DEF x
<1>8. CASE q > WarningDays
  <2>1. DayLength * (WarningDays + 1) <= DayLength * q
    BY <1>1, <1>2, <1>8
  <2>2. DayLength * (WarningDays + 1) = DayLength * WarningDays + DayLength
    BY <1>1
  <2>3. ~(x < DayLength * WarningDays + SecondLength)
    BY <1>1, <1>2, <1>5, <2>1, <2>2
  <2> QED
    BY <1>1, <1>2, <1>4, <1>5, <1>8, <2>3 DEF x
<1> QED
  BY <1>1, <1>2, <1>6, <1>7, <1>8

\* An account without a tier has no window.
FreeIsOpen == \A u \in Users : account[u].tier = FreeTier => account[u].expires = NoDate

\* Accounts change by grants and lapses only.
LEMMA AccountStep ==
    ASSUME TypeOK, [Next]_vars
    PROVE  \/ UNCHANGED account
           \/ \E t \in Threads : GrantWrite(t)
           \/ \E s \in Sweeps : Downgrade(s)
  BY DEF Next, Checkout, Apply, Loop, CreateInvoice, RecordPending, ReplyWithUrl, CheckoutFails,
     CustomerPays, DeliverWebhook, Goodwill, ClaimPaid, AlreadyPaid, RecordStatus, GrantRead,
     GrantLog, Abort, ListUnsettled, FetchStatus, LookupFails, ListLapsed, EndSweep, Crash,
     Tick, vars, dbVars

LEMMA ClockStep ==
    ASSUME TypeOK, [Next]_vars
    PROVE  now' \in Nat /\ now <= now'
<1>1. now \in Nat
  BY DEF TypeOK
<1>2. now' = now \/ now' = now + 1
  BY DEF Next, Checkout, Apply, Loop, CreateInvoice, RecordPending, ReplyWithUrl, CheckoutFails,
     CustomerPays, DeliverWebhook, Goodwill, ClaimPaid, AlreadyPaid, RecordStatus, GrantRead,
     GrantWrite, GrantLog, Abort, ListUnsettled, FetchStatus, LookupFails, ListLapsed,
     Downgrade, EndSweep, Crash, Tick, vars
<1> QED
  BY <1>1, <1>2

LEMMA FreeStep == TypeOK /\ FreeIsOpen /\ [Next]_vars => FreeIsOpen'
<1> SUFFICES ASSUME TypeOK, FreeIsOpen, [Next]_vars PROVE FreeIsOpen'
  OBVIOUS
<1>1. ASSUME NEW t \in Threads, GrantWrite(t) PROVE FreeIsOpen'
  <2>1. job[t].tier \in PaidTiers /\ account \in [Users -> Accounts]
    BY <1>1 DEF TypeOK, GrantWrite, GrantSteps, Jobs
  <2> QED
    BY <1>1, <2>1, TiersAssumption DEF GrantWrite, GrantedAccount, FreeIsOpen
<1>2. ASSUME NEW s \in Sweeps, Downgrade(s) PROVE FreeIsOpen'
  BY <1>2 DEF TypeOK, Downgrade, LapsedAccount, FreeIsOpen
<1>3. CASE UNCHANGED account
  BY <1>3 DEF FreeIsOpen
<1> QED
  BY <1>1, <1>2, <1>3, AccountStep

\* The page warns through the last WarningDays of a window and begins less than a second
\* before them, whatever days and parts of days its end is made of (renewal_state).
THEOREM WarnedInTime == Spec => []WarningIsInTime
<1>1. TypeOK /\ FreeIsOpen => WarningIsInTime
  <2> SUFFICES ASSUME TypeOK, FreeIsOpen, NEW u \in Users
               PROVE  Page(u).status = "expiring" <=>
                        /\ account[u].expires # NoDate
                        /\ now < account[u].expires
                        /\ account[u].expires < now + WarningDays * DayLength + SecondLength
    BY DEF WarningIsInTime
  <2> DEFINE a == account[u]
  <2>1. /\ a \in Accounts /\ now \in Nat
        /\ DayLength \in Nat /\ SecondLength \in Nat /\ WarningDays \in Nat
    BY RenewalAssumption DEF TypeOK
  <2>2. CASE a.expires = NoDate
    BY <2>2 DEF Page, RenewalState, EffectiveTier, Prompt, Quiet
  <2>3. CASE a.expires # NoDate
    <3>1. a.expires \in Nat
      BY <2>1, <2>3 DEF Accounts, Dates
    <3>2. DaysLeft(a, now) <= WarningDays
            <=> a.expires - now < WarningDays * DayLength + SecondLength
      BY <2>1, <3>1, RoundedUp
    <3>3. WarningDays * DayLength \in Nat
      BY <2>1
    <3>4. a.tier # FreeTier
      BY <2>3 DEF FreeIsOpen
    <3>5. Page(u).status = "expiring" <=> a.expires > now /\ DaysLeft(a, now) <= WarningDays
      BY <2>3, <3>4 DEF Page, RenewalState, Running, EffectiveTier, Prompt, Quiet
    <3> QED
      BY <2>1, <2>3, <3>1, <3>2, <3>3, <3>5
  <2> QED
    BY <2>2, <2>3
<1>2. Init => FreeIsOpen
  BY DEF Init, FreeIsOpen, NewAccount
<1>3. IInv => TypeOK
  BY DEF IInv
<1> QED
  BY <1>1, <1>2, <1>3, FreeStep, IInvAlways, PTL DEF Spec

(***************************************************************************)
(* No window is longer than what was bought.  A grant under way is counted *)
(* as one more purchase: its expiry was computed from what the buyer held  *)
(* when it was read, and neither the clock nor the purchases go back.      *)
(***************************************************************************)
Credited == {i \in Invoices : credited[i] > 0}
Held(u, tier) == Cardinality(Bought(u, tier))

ForInvoice(t) ==
    /\ job[t].invoice \in Invoices /\ job[t].days = SubscriptionDays
    /\ job[t].user = Owner[job[t].invoice] /\ job[t].tier = Plan[job[t].invoice]

GrantFits(t) ==
    /\ job[t].expires # NoDate
    /\ job[t].expires <= now + SubscriptionDays * (Held(job[t].user, job[t].tier) + 1)

AccountFits(u) ==
    /\ account[u].expires # NoDate
    /\ account[u].expires <= now + SubscriptionDays * Held(u, account[u].tier)

BoughtInv ==
    /\ IsFiniteSet(Credited)
    /\ \A t \in Threads : pc[t] \in GrantSteps \cup {"apply"} => ForInvoice(t)
    /\ \A t \in Threads : pc[t] = "grant_write" => GrantFits(t)
    /\ \A u \in Users : account[u].tier # FreeTier => AccountFits(u)

LEMMA TimesMonotone ==
    ASSUME NEW a \in Nat, NEW b \in Nat, NEW c \in Nat, b <= c
    PROVE  a * b \in Nat /\ a * c \in Nat /\ a * b <= a * c /\ a * (b + 1) = a * b + a
  OBVIOUS

LEMMA HeldIsNatural ==
    ASSUME IsFiniteSet(Credited), NEW u, NEW tier
    PROVE  IsFiniteSet(Bought(u, tier)) /\ Held(u, tier) \in Nat
<1>1. Bought(u, tier) \subseteq Credited
  BY DEF Bought, Credited
<1> QED
  BY <1>1, FS_Subset, FS_CardinalityType DEF Held

\* Purchases only add up.
LEMMA HeldGrows ==
    ASSUME IsFiniteSet(Credited), IsFiniteSet(Credited'), NEW u, NEW tier,
           \A i \in Invoices : credited[i] > 0 => credited'[i] > 0
    PROVE  Held(u, tier) \in Nat /\ Held(u, tier)' \in Nat /\ Held(u, tier) <= Held(u, tier)'
<1>1. Bought(u, tier)' \subseteq Credited' /\ Bought(u, tier) \subseteq Bought(u, tier)'
  BY DEF Bought, Credited
<1>2. IsFiniteSet(Bought(u, tier)')
  BY <1>1, FS_Subset
<1> QED
  BY <1>1, <1>2, HeldIsNatural, FS_Subset, FS_CardinalityType DEF Held

\* An account and a grant under way stay within their bounds while they do not change.
LEMMA WindowKept ==
    ASSUME IsFiniteSet(Credited), IsFiniteSet(Credited'), NEW u, NEW tier,
           \A i \in Invoices : credited[i] > 0 => credited'[i] > 0,
           now \in Nat, now' \in Nat, now <= now', NEW e \in Nat, NEW k \in {0, 1},
           e <= now + SubscriptionDays * (Held(u, tier) + k)
    PROVE  e <= now' + SubscriptionDays * (Held(u, tier)' + k)
<1>1. Held(u, tier) \in Nat /\ Held(u, tier)' \in Nat /\ Held(u, tier) <= Held(u, tier)'
  BY HeldGrows
<1>2. SubscriptionDays * (Held(u, tier) + k) <= SubscriptionDays * (Held(u, tier)' + k)
  BY <1>1, TimesMonotone, NumbersAssumption
<1>3. SubscriptionDays * (Held(u, tier) + k) \in Nat /\ SubscriptionDays * (Held(u, tier)' + k) \in Nat
  BY <1>1, NumbersAssumption
<1> QED
  BY <1>2, <1>3

\* The steps that leave the accounts and their grants as they are.
LEMMA BoughtAside ==
    ASSUME TypeOK, BoughtInv, UNCHANGED <<account, credited>>, now' \in Nat, now <= now',
           \A t \in Threads : pc'[t] \in GrantSteps \cup {"apply"} => ForInvoice(t)',
           \A t \in Threads : pc'[t] = "grant_write" => pc[t] = "grant_write" /\ job'[t] = job[t]
    PROVE  BoughtInv'
<1>1. IsFiniteSet(Credited) /\ IsFiniteSet(Credited') /\ now \in Nat
  BY DEF BoughtInv, Credited, TypeOK
<1>2. ASSUME NEW t \in Threads, pc'[t] = "grant_write" PROVE GrantFits(t)'
  <2>1. pc[t] = "grant_write" /\ job'[t] = job[t] /\ GrantFits(t) /\ job[t] \in Jobs
    BY <1>2 DEF BoughtInv, TypeOK, GrantSteps
  <2>2. PICK u \in Users, tier \in PaidTiers, e \in Nat :
            u = job[t].user /\ tier = job[t].tier /\ e = job[t].expires
    BY <2>1 DEF GrantFits, Jobs, Dates
  <2>3. e <= now' + SubscriptionDays * (Held(u, tier)' + 1)
    BY <1>1, <2>1, <2>2, WindowKept DEF GrantFits
  <2> QED
    BY <2>1, <2>2, <2>3 DEF GrantFits
<1>3. ASSUME NEW u \in Users, account'[u].tier # FreeTier PROVE AccountFits(u)'
  <2>1. AccountFits(u) /\ account[u] \in Accounts
    BY <1>3 DEF BoughtInv, TypeOK
  <2>2. PICK tier \in Tiers, e \in Nat : tier = account[u].tier /\ e = account[u].expires
    BY <2>1 DEF AccountFits, Accounts, Dates
  <2>3. Held(u, tier) \in Nat /\ Held(u, tier)' \in Nat
    BY <1>1, HeldGrows
  <2>4. e <= now' + SubscriptionDays * (Held(u, tier)' + 0)
    BY <1>1, <2>1, <2>2, <2>3, WindowKept DEF AccountFits
  <2> QED
    BY <2>1, <2>2, <2>3, <2>4 DEF AccountFits
<1> QED
  BY <1>1, <1>2, <1>3 DEF BoughtInv

\* The expiry a grant computes is one purchase beyond what its buyer holds.
LEMMA ReadWithinBought ==
    ASSUME TypeOK, BoughtInv, NEW t \in Threads, GrantRead(t)
    PROVE  BoughtInv'
<1>1. /\ pc[t] = "grant_read" /\ pc' = [pc EXCEPT ![t] = "grant_write"]
      /\ job' = [job EXCEPT ![t].expires =
                    GrantExpiry(account[job[t].user], job[t].tier, now, job[t].days)]
      /\ UNCHANGED <<account, credited, now>>
  BY DEF GrantRead, dbVars
<1>2. /\ job \in [Threads -> Jobs \cup {NoJob}] /\ job[t] \in Jobs /\ pc \in [Threads -> Steps]
      /\ account \in [Users -> Accounts] /\ now \in Nat /\ ForInvoice(t)
  BY <1>1 DEF TypeOK, GrantSteps, BoughtInv
<1>3. SubscriptionDays \in Nat /\ SubscriptionDays # NoDate
  BY NumbersAssumption, NoDateAssumption
<1>4. PICK u \in Users, tier \in PaidTiers :
          u = job[t].user /\ tier = job[t].tier /\ job[t].days = SubscriptionDays /\ tier # FreeTier
  BY <1>2, TiersAssumption DEF Jobs, ForInvoice
<1>5. PICK e : e = GrantExpiry(account[u], tier, now, SubscriptionDays)
  OBVIOUS
<1>6. Held(u, tier) \in Nat /\ \A w, plan : Held(w, plan)' = Held(w, plan)
  <2>1. Held(u, tier) \in Nat
    BY HeldIsNatural DEF BoughtInv
  <2>2. \A w, plan : Held(w, plan)' = Held(w, plan)
    BY <1>1 DEF Held, Bought
  <2> QED
    BY <2>1, <2>2
<1>7. e \in Nat /\ e # NoDate /\ e <= now + SubscriptionDays * (Held(u, tier) + 1)
  <2>1. /\ SubscriptionDays * Held(u, tier) \in Nat
        /\ SubscriptionDays * (Held(u, tier) + 1) = SubscriptionDays * Held(u, tier) + SubscriptionDays
    BY <1>3, <1>6, TimesMonotone
  <2>2. CASE Extends(account[u], tier, now)
    <3>1. account[u].expires \in Nat /\ account[u].expires <= now + SubscriptionDays * Held(u, tier)
      BY <1>2, <1>4, <2>2 DEF Extends, BoughtInv, AccountFits, Accounts, Dates
    <3>2. e = SubscriptionDays + account[u].expires
      BY <1>3, <1>5, <2>2 DEF GrantExpiry
    <3> QED
      BY <1>2, <1>3, <2>1, <3>1, <3>2, NoDateAssumption
  <2>3. CASE ~Extends(account[u], tier, now)
    <3>1. e = SubscriptionDays + now
      BY <1>3, <1>5, <2>3 DEF GrantExpiry
    <3> QED
      BY <1>2, <1>3, <2>1, <3>1, NoDateAssumption
  <2> QED
    BY <2>2, <2>3
<1>8. /\ job'[t].expires = e /\ job'[t].user = u /\ job'[t].tier = tier
      /\ job'[t].invoice = job[t].invoice /\ job'[t].days = job[t].days
      /\ \A v \in Threads \ {t} : job'[v] = job[v] /\ pc'[v] = pc[v]
  BY <1>1, <1>2, <1>4, <1>5 DEF Jobs
<1>9. ASSUME NEW v \in Threads, pc'[v] \in GrantSteps \cup {"apply"} PROVE ForInvoice(v)'
  BY <1>1, <1>2, <1>4, <1>8, <1>9 DEF BoughtInv, ForInvoice
<1>10. ASSUME NEW v \in Threads, pc'[v] = "grant_write" PROVE GrantFits(v)'
  <2>1. CASE v = t
    BY <1>1, <1>6, <1>7, <1>8, <2>1 DEF GrantFits
  <2>2. CASE v # t
    <3>1. pc[v] = "grant_write" /\ job'[v] = job[v]
      BY <1>8, <1>10, <2>2
    <3>2. GrantFits(v)
      BY <3>1 DEF BoughtInv
    <3> QED
      BY <1>1, <1>6, <3>1, <3>2 DEF GrantFits
  <2> QED
    BY <2>1, <2>2
<1>11. ASSUME NEW w \in Users, account'[w].tier # FreeTier PROVE AccountFits(w)'
  BY <1>1, <1>11 DEF BoughtInv, AccountFits, Held, Bought
<1>12. IsFiniteSet(Credited')
  BY <1>1 DEF BoughtInv, Credited
<1> QED
  BY <1>9, <1>10, <1>11, <1>12 DEF BoughtInv

\* The write turns the purchase under way into one that was made.
LEMMA WriteWithinBought ==
    ASSUME IInv, BoughtInv, NEW t \in Threads, GrantWrite(t)
    PROVE  BoughtInv'
<1>1. /\ pc[t] = "grant_write" /\ pc' = [pc EXCEPT ![t] = "grant_log"]
      /\ account' = [account EXCEPT ![job[t].user] = GrantedAccount(job[t].tier, job[t].expires)]
      /\ UNCHANGED <<job, now>>
  BY DEF GrantWrite
<1>2. /\ TypeOK /\ job[t] \in Jobs /\ pc \in [Threads -> Steps] /\ credited \in [Invoices -> Nat]
      /\ account \in [Users -> Accounts] /\ now \in Nat /\ ForInvoice(t)
  BY <1>1 DEF IInv, TypeOK, GrantSteps, BoughtInv
<1>3. PICK i \in Invoices, u \in Users, tier \in PaidTiers, e \in Nat :
          /\ i = job[t].invoice /\ u = job[t].user /\ tier = job[t].tier /\ e = job[t].expires
          /\ Owner[i] = u /\ Plan[i] = tier
          /\ e <= now + SubscriptionDays * (Held(u, tier) + 1)
  BY <1>1, <1>2 DEF ForInvoice, Jobs, BoughtInv, GrantFits, Dates
<1>4. credited[i] = 0
  BY <1>1, <1>3 DEF IInv, ClaimInv, Claims, GrantSteps
<1>5. credited' = [credited EXCEPT ![i] = 1]
  BY <1>2, <1>3, <1>4 DEF GrantWrite
<1>6. IsFiniteSet(Credited) /\ IsFiniteSet(Credited')
  <2>1. Credited' = Credited \cup {i}
    BY <1>2, <1>3, <1>5 DEF Credited
  <2> QED
    BY <2>1, FS_AddElement DEF BoughtInv
<1>7. \A k \in Invoices : credited[k] > 0 => credited'[k] > 0
  BY <1>2, <1>5
<1>8. Held(u, tier)' = Held(u, tier) + 1 /\ Held(u, tier) \in Nat
  <2>1. Bought(u, tier)' = Bought(u, tier) \cup {i} /\ i \notin Bought(u, tier)
    BY <1>2, <1>3, <1>4, <1>5 DEF Bought
  <2> QED
    BY <1>6, <2>1, HeldIsNatural, FS_AddElement DEF Held
<1>9. ASSUME NEW v \in Threads, pc'[v] \in GrantSteps \cup {"apply"} PROVE ForInvoice(v)'
  BY <1>1, <1>2, <1>9 DEF BoughtInv, ForInvoice, GrantSteps
<1>10. ASSUME NEW v \in Threads, pc'[v] = "grant_write" PROVE GrantFits(v)'
  <2>1. pc[v] = "grant_write" /\ job'[v] = job[v] /\ job[v] \in Jobs /\ GrantFits(v)
    BY <1>1, <1>2, <1>10 DEF TypeOK, GrantSteps, BoughtInv
  <2>2. PICK w \in Users, plan \in PaidTiers, f \in Nat :
            w = job[v].user /\ plan = job[v].tier /\ f = job[v].expires
    BY <2>1 DEF GrantFits, Jobs, Dates
  <2>3. f <= now' + SubscriptionDays * (Held(w, plan)' + 1)
    BY <1>1, <1>2, <1>6, <1>7, <2>1, <2>2, WindowKept DEF GrantFits
  <2> QED
    BY <2>1, <2>2, <2>3 DEF GrantFits
<1>11. ASSUME NEW w \in Users, account'[w].tier # FreeTier PROVE AccountFits(w)'
  <2>1. CASE w = u
    <3>1. account'[w].tier = tier /\ account'[w].expires = e
      BY <1>1, <1>2, <1>3, <2>1 DEF GrantedAccount
    <3> QED
      BY <1>1, <1>3, <1>8, <2>1, <3>1, NoDateAssumption DEF AccountFits
  <2>2. CASE w # u
    <3>1. account'[w] = account[w] /\ account[w] \in Accounts
      BY <1>1, <1>2, <1>3, <2>2
    <3>2. PICK plan \in Tiers, f \in Nat : /\ plan = account[w].tier /\ f = account[w].expires
                                           /\ f <= now + SubscriptionDays * Held(w, plan)
      BY <1>11, <3>1 DEF BoughtInv, AccountFits, Accounts, Dates
    <3>3. Held(w, plan) \in Nat /\ Held(w, plan)' \in Nat
      BY <1>6, <1>7, HeldGrows
    <3>4. f <= now' + SubscriptionDays * (Held(w, plan)' + 0)
      BY <1>1, <1>2, <1>6, <1>7, <3>2, <3>3, WindowKept
    <3> QED
      BY <3>1, <3>2, <3>3, <3>4, NoDateAssumption DEF AccountFits
  <2> QED
    BY <2>1, <2>2
<1> QED
  BY <1>6, <1>9, <1>10, <1>11 DEF BoughtInv

LEMMA BoughtStep ==
    ASSUME IInv, BoughtInv, [Next]_vars, gifts' = 0
    PROVE  BoughtInv'
<1>0. /\ TypeOK /\ pc \in [Threads -> Steps] /\ now \in Nat /\ gifts \in Nat
      /\ job \in [Threads -> Jobs \cup {NoJob}]
  BY DEF IInv, TypeOK
<1>1. ASSUME UNCHANGED <<account, credited, now>>, NEW t \in Threads,
             \A u \in Threads \ {t} : pc'[u] = pc[u] /\ job'[u] = job[u],
             pc'[t] # "grant_write",
             pc'[t] \in GrantSteps \cup {"apply"} => ForInvoice(t)'
      PROVE  BoughtInv'
  <2>1. \A v \in Threads : pc'[v] \in GrantSteps \cup {"apply"} => ForInvoice(v)'
    BY <1>1 DEF BoughtInv, ForInvoice
  <2> QED
    BY <1>0, <1>1, <2>1, BoughtAside
<1>2. ASSUME UNCHANGED <<account, credited, pc, job>>, now' \in Nat, now <= now' PROVE BoughtInv'
  <2>1. \A v \in Threads : pc'[v] \in GrantSteps \cup {"apply"} => ForInvoice(v)'
    BY <1>2 DEF BoughtInv, ForInvoice
  <2> QED
    BY <1>0, <1>2, <2>1, BoughtAside
<1>3. ASSUME NEW i \in Invoices, Checkout(i) \/ CustomerPays(i) PROVE BoughtInv'
  BY <1>0, <1>2, <1>3 DEF Checkout, CreateInvoice, RecordPending, ReplyWithUrl, CheckoutFails,
                          CustomerPays, dbVars
<1>4. ASSUME NEW h \in Threads, DeliverWebhook(h) PROVE BoughtInv'
  <2>1. PICK i \in Invoices, status \in Statuses : job' = [job EXCEPT ![h] = WebhookJob(i, status)]
    BY <1>4 DEF DeliverWebhook
  <2>2. pc' = [pc EXCEPT ![h] = "apply"] /\ UNCHANGED <<account, credited, now>>
    BY <1>4 DEF DeliverWebhook, dbVars
  <2>3. ForInvoice(h)'
    BY <1>0, <2>1 DEF ForInvoice, WebhookJob
  <2> QED
    BY <1>0, <1>1, <2>1, <2>2, <2>3
<1>5. ASSUME NEW t \in Threads, ClaimPaid(t) PROVE BoughtInv'
  <2>1. pc[t] = "apply" /\ job' = job /\ pc' = [pc EXCEPT ![t] = "grant_read"]
        /\ UNCHANGED <<account, credited, now>>
    BY <1>5 DEF ClaimPaid
  <2>2. ForInvoice(t)'
    BY <2>1 DEF BoughtInv, ForInvoice
  <2> QED
    BY <1>0, <1>1, <2>1, <2>2
<1>6. ASSUME NEW t \in Threads, AlreadyPaid(t) \/ RecordStatus(t) \/ GrantLog(t) PROVE BoughtInv'
  <2>1. /\ UNCHANGED <<account, credited, now>>
        /\ \A u \in Threads \ {t} : pc'[u] = pc[u] /\ job'[u] = job[u]
        /\ pc'[t] \in {"fetch", "idle"}
    BY <1>0, <1>6 DEF AlreadyPaid, RecordStatus, GrantLog, Return, dbVars
  <2> QED
    BY <1>1, <2>1 DEF GrantSteps
<1>7. ASSUME NEW s \in Sweeps, ListUnsettled(s) \/ LookupFails(s) \/ ListLapsed(s) \/ EndSweep(s)
      PROVE  BoughtInv'
  <2>1. /\ UNCHANGED <<account, credited, now, job>> /\ s \in Threads
        /\ \A u \in Threads \ {s} : pc'[u] = pc[u]
        /\ pc'[s] \in {"fetch", "idle", "downgrade"}
    BY <1>0, <1>7 DEF ListUnsettled, LookupFails, ListLapsed, EndSweep, dbVars, Threads
  <2> QED
    BY <1>1, <2>1 DEF GrantSteps
<1>8. ASSUME NEW s \in Sweeps, FetchStatus(s) PROVE BoughtInv'
  <2>1. UNCHANGED <<account, credited, now>> /\ s \in Threads
    BY <1>8 DEF FetchStatus, dbVars, Threads
  <2>2. PICK row \in NextRows(s) :
            IF mono[row.invoice] = row.seen
            THEN UNCHANGED <<pc, job>>
            ELSE /\ job' = [job EXCEPT ![s] = WebhookJob(row.invoice, mono[row.invoice])]
                 /\ pc' = [pc EXCEPT ![s] = "apply"]
    BY <1>8 DEF FetchStatus
  <2>3. CASE UNCHANGED <<pc, job>>
    BY <1>0, <1>2, <2>1, <2>3
  <2>4. CASE /\ job' = [job EXCEPT ![s] = WebhookJob(row.invoice, mono[row.invoice])]
             /\ pc' = [pc EXCEPT ![s] = "apply"]
    <3>1. row.invoice \in Invoices
      BY <1>0 DEF NextRows, TypeOK, Rows
    <3>2. ForInvoice(s)'
      BY <1>0, <2>1, <2>4, <3>1 DEF ForInvoice, WebhookJob
    <3> QED
      BY <1>0, <1>1, <2>1, <2>4, <3>2
  <2> QED
    BY <2>2, <2>3, <2>4
<1>9. ASSUME NEW s \in Sweeps, Downgrade(s) PROVE BoughtInv'
  <2>1. PICK row \in lapsing[s] : account' = [account EXCEPT ![row.user] = LapsedAccount(row.tier, now)]
    BY <1>9 DEF Downgrade
  <2>2. UNCHANGED <<credited, now, pc, job>>
    BY <1>9 DEF Downgrade
  <2>3. \A u \in Users : account'[u].tier # FreeTier => account'[u] = account[u]
    BY <2>1 DEF LapsedAccount, IInv, TypeOK
  <2>4. \A u, tier : Held(u, tier)' = Held(u, tier)
    BY <2>2 DEF Held, Bought
  <2>5. Credited' = Credited
    BY <2>2 DEF Credited
  <2> QED
    BY <2>2, <2>3, <2>4, <2>5 DEF BoughtInv, ForInvoice, GrantFits, AccountFits
<1>10. ASSUME Crash PROVE BoughtInv'
  <2>1. \A t \in Threads : pc'[t] = "idle"
    BY <1>10 DEF Crash
  <2> QED
    BY <1>0, <1>10, <2>1, BoughtAside DEF Crash, dbVars, GrantSteps
<1>11. ASSUME NEW t \in Threads, Abort(t) PROVE BoughtInv'
  BY <1>0, <1>1, <1>11 DEF Abort, dbVars, GrantSteps
<1>12. ASSUME NEW o \in Operators, Goodwill(o) PROVE BoughtInv'
  BY <1>0, <1>12 DEF Goodwill
<1>13. CASE Tick \/ UNCHANGED vars
  BY <1>0, <1>2, <1>13 DEF Tick, vars, dbVars
<1>14. ASSUME NEW t \in Threads, GrantRead(t) PROVE BoughtInv'
  BY <1>0, <1>14, ReadWithinBought
<1>15. ASSUME NEW t \in Threads, GrantWrite(t) PROVE BoughtInv'
  BY <1>15, WriteWithinBought
<1> QED
  BY <1>3, <1>4, <1>5, <1>6, <1>7, <1>8, <1>9, <1>10, <1>11, <1>12, <1>13, <1>14, <1>15
     DEF Next, Apply, Loop, Threads

\* However webhooks, sweeps, failures and restarts interleave, nobody who was given
\* nothing holds a tier longer than what they paid for adds up to (grant_tier).
THEOREM NoWindowIsStretched == Spec => []NeverMoreThanBought
<1> DEFINE Sold == gifts = 0 => BoughtInv
<1>1. Init => Sold
  <2> SUFFICES ASSUME Init PROVE BoughtInv
    OBVIOUS
  <2>1. Credited = {}
    BY DEF Init, Credited
  <2> QED
    BY <2>1, FS_EmptySet DEF Init, BoughtInv, GrantSteps, NewAccount
<1>2. IInv /\ Sold /\ [Next]_vars => Sold'
  <2> SUFFICES ASSUME IInv, Sold, [Next]_vars, gifts' = 0 PROVE BoughtInv'
    OBVIOUS
  <2>1. gifts = 0
    <3>1. gifts \in Nat
      BY DEF IInv, TypeOK
    <3>2. gifts' = gifts \/ gifts' = gifts + 1
      BY DEF Next, Checkout, Apply, Loop, CreateInvoice, RecordPending, ReplyWithUrl,
         CheckoutFails, CustomerPays, DeliverWebhook, Goodwill, ClaimPaid, AlreadyPaid,
         RecordStatus, GrantRead, GrantWrite, GrantLog, Abort, ListUnsettled, FetchStatus,
         LookupFails, ListLapsed, Downgrade, EndSweep, Crash, Tick, vars, boundVars
    <3> QED
      BY <3>1, <3>2
  <2> QED
    BY <2>1, BoughtStep
<1>3. Sold => NeverMoreThanBought
  BY DEF NeverMoreThanBought, BoughtInv, AccountFits, Held
<1> QED
  BY <1>1, <1>2, <1>3, IInvAlways, PTL DEF Spec

(***************************************************************************)
(* What a sweep counts.  An invoice is listed while its payment is unpaid, *)
(* counted when it is paid, and a paid one is never listed again: so what  *)
(* a sweep still has to do it has not counted yet.                         *)
(***************************************************************************)
Busy == GrantSteps \cup {"apply"}

Counted(s) ==
    /\ \A i \in Invoices :
        /\ reported[s][i] = 0 \/ (reported[s][i] = 1 /\ payments[i].status = PaidStatus)
        /\ pc[s] \in Busy /\ job[s].invoice = i =>
            reported[s][i] = 0 /\ \A row \in todo[s] : row.invoice # i
    /\ \A row \in todo[s] : reported[s][row.invoice] = 0
    /\ \A row, other \in todo[s] : row.invoice = other.invoice => row = other

CountInv == \A s \in Sweeps : Counted(s)

\* A sweep that begins nothing and counts nothing has counted what it had.
LEMMA CountAside ==
    ASSUME TypeOK, NEW s \in Sweeps, Counted(s), StaysPaid,
           todo'[s] \subseteq todo[s], reported'[s] = reported[s],
           pc'[s] \in Busy => pc[s] \in Busy /\ job'[s].invoice = job[s].invoice
    PROVE  Counted(s)'
BY DEF Counted, StaysPaid, Busy

\* The list is of unpaid payments, each in it once.
LEMMA CountList ==
    ASSUME TypeOK, NEW s \in Sweeps, Counted(s), ListUnsettled(s)
    PROVE  Counted(s)'
<1>1. /\ pc'[s] = "fetch" /\ UNCHANGED <<payments, reported>>
      /\ todo \in [Sweeps -> SUBSET Rows] /\ s \in Threads
  BY DEF ListUnsettled, TypeOK, Threads, dbVars
<1>2. PICK W \in Windows :
        todo' = [todo EXCEPT ![s] = {[invoice |-> i, seen |-> payments[i].status] : i \in W}]
  BY DEF ListUnsettled
<1>3. W \subseteq Invoices /\ \A i \in W : payments[i].status # PaidStatus
  BY DEF Windows, Unsettled, InFlightStatuses, PaidStatus
<1>4. \A i \in W : reported[s][i] = 0
  BY <1>3 DEF Counted
<1>5. todo'[s] = {[invoice |-> i, seen |-> payments[i].status] : i \in W}
  BY <1>1, <1>2
<1>6. /\ \A row \in todo'[s] : reported[s][row.invoice] = 0
      /\ \A row, other \in todo'[s] : row.invoice = other.invoice => row = other
  BY <1>4, <1>5
<1> QED
  BY <1>1, <1>6 DEF Counted, Busy, GrantSteps

\* A row is taken; its invoice is none of the rows left.
LEMMA CountFetch ==
    ASSUME TypeOK, NEW s \in Sweeps, Counted(s), FetchStatus(s)
    PROVE  Counted(s)'
<1>1. /\ pc[s] = "fetch" /\ UNCHANGED <<payments, reported>>
      /\ todo \in [Sweeps -> SUBSET Rows] /\ s \in Threads
      /\ pc \in [Threads -> Steps] /\ job \in [Threads -> Jobs \cup {NoJob}]
  BY DEF FetchStatus, TypeOK, Threads, dbVars
<1>2. PICK row \in todo[s] : /\ todo' = [todo EXCEPT ![s] = @ \ {row}]
                             /\ \/ UNCHANGED <<pc, job>>
                                \/ job' = [job EXCEPT ![s] = WebhookJob(row.invoice, mono[row.invoice])]
  BY DEF FetchStatus, NextRows
<1>3. todo'[s] = todo[s] \ {row}
  BY <1>1, <1>2
<1>4. pc'[s] \in Busy => job'[s].invoice = row.invoice
  BY <1>1, <1>2 DEF Busy, GrantSteps, WebhookJob
<1>5. reported[s][row.invoice] = 0 /\ \A other \in todo'[s] : other.invoice # row.invoice
  BY <1>3 DEF Counted
<1> QED
  BY <1>1, <1>3, <1>4, <1>5 DEF Counted

\* A call that returns counts the invoice in hand, and only as paid.
LEMMA CountReturn ==
    ASSUME IInv, NEW s \in Sweeps, Counted(s), StaysPaid,
           AlreadyPaid(s) \/ RecordStatus(s) \/ GrantLog(s)
    PROVE  Counted(s)'
<1>1. /\ TypeOK /\ s \in Threads /\ pc[s] \in Busy /\ Return(s) /\ UNCHANGED todo
      /\ pc \in [Threads -> Steps] /\ reported \in [Sweeps -> [Invoices -> Nat]]
  BY DEF AlreadyPaid, RecordStatus, GrantLog, Busy, GrantSteps, Threads, IInv, TypeOK
<1>2. pc'[s] = "fetch"
  BY <1>1 DEF Return
<1> DEFINE j == job[s].invoice
<1>3. CASE UNCHANGED reported
  BY <1>1, <1>2, <1>3, CountAside DEF Busy, GrantSteps
<1>4. CASE /\ job[s].status = PaidStatus /\ j \in Invoices
           /\ reported' = [reported EXCEPT ![s][j] = @ + 1]
  <2>1. payments[j].status = PaidStatus
    BY <1>1, <1>4 DEF AlreadyPaid, RecordStatus, GrantLog, Unpaid, PaysOut, IInv, ClaimInv, Claims,
                      GrantSteps
  <2>2. reported[s][j] = 0 /\ \A row \in todo[s] : row.invoice # j
    BY <1>1, <1>4 DEF Counted
  <2>3. reported'[s] = [reported[s] EXCEPT ![j] = 1]
    BY <1>1, <1>4, <2>2
  <2>4. \A i \in Invoices : reported'[s][i] = IF i = j THEN 1 ELSE reported[s][i]
    BY <1>1, <2>3
  <2>5. \A row \in todo[s] : row.invoice \in Invoices
    BY <1>1 DEF TypeOK, Rows
  <2> QED
    BY <1>1, <1>2, <1>4, <2>1, <2>2, <2>4, <2>5 DEF Counted, StaysPaid, Busy, GrantSteps
<1>5. CASE j \notin Invoices
  <2>1. reported' = reported \/ reported' = [reported EXCEPT ![s][j] = @ + 1]
    BY <1>1 DEF Return
  <2>2. UNCHANGED reported
    BY <1>1, <1>5, <2>1
  <2> QED
    BY <1>3, <2>2
<1> QED
  BY <1>1, <1>3, <1>4, <1>5 DEF Return

LEMMA CountStep == IInv /\ CountInv /\ [Next]_vars => CountInv'
<1> SUFFICES ASSUME IInv, CountInv, [Next]_vars, NEW s \in Sweeps PROVE Counted(s)'
  BY DEF CountInv
<1>1. /\ TypeOK /\ StaysPaid /\ Counted(s) /\ s \in Threads
      /\ pc \in [Threads -> Steps] /\ job \in [Threads -> Jobs \cup {NoJob}]
      /\ reported \in [Sweeps -> [Invoices -> Nat]] /\ todo \in [Sweeps -> SUBSET Rows]
  BY PaidStep DEF CountInv, IInv, TypeOK, Threads
<1>2. CASE UNCHANGED <<pc, job, todo, reported>>
  BY <1>1, <1>2, CountAside
<1>3. ASSUME NEW i \in Invoices, Checkout(i) \/ CustomerPays(i) PROVE Counted(s)'
  BY <1>2, <1>3 DEF Checkout, CreateInvoice, RecordPending, ReplyWithUrl, CheckoutFails,
                    CustomerPays, sweepVars
<1>4. ASSUME NEW t \in Handlers \cup Operators, DeliverWebhook(t) \/ Goodwill(t) PROVE Counted(s)'
  <2>1. t # s
    BY <1>4, ThreadsAssumption
  <2>2. pc'[s] = pc[s] /\ job'[s] = job[s] /\ UNCHANGED <<todo, reported>>
    BY <1>1, <1>4, <2>1 DEF DeliverWebhook, Goodwill, sweepVars
  <2> QED
    BY <1>1, <2>2, CountAside
<1>5. ASSUME NEW t \in Threads, Apply(t) PROVE Counted(s)'
  <2>1. CASE t # s
    <3>1. pc'[s] = pc[s] /\ job'[s] = job[s] /\ UNCHANGED todo
      BY <1>1, <1>5, <2>1 DEF Apply, ClaimPaid, AlreadyPaid, RecordStatus, GrantRead, GrantWrite,
                              GrantLog, Return, sweepVars
    <3>2. reported'[s] = reported[s]
      BY <1>1, <1>5, <2>1 DEF Apply, ClaimPaid, AlreadyPaid, RecordStatus, GrantRead, GrantWrite,
                              GrantLog, Return, sweepVars
    <3> QED
      BY <1>1, <3>1, <3>2, CountAside
  <2>2. CASE t = s /\ (ClaimPaid(t) \/ GrantRead(t) \/ GrantWrite(t))
    <3>1. pc[s] \in Busy /\ UNCHANGED <<todo, reported>>
      BY <2>2 DEF ClaimPaid, GrantRead, GrantWrite, Busy, GrantSteps, sweepVars
    <3>2. job[s] \in Jobs
      BY <1>1, <3>1 DEF Busy, TypeOK
    <3>3. job'[s].invoice = job[s].invoice
      BY <1>1, <2>2, <3>2 DEF ClaimPaid, GrantRead, GrantWrite, Jobs
    <3> QED
      BY <1>1, <3>1, <3>3, CountAside
  <2>3. CASE t = s /\ (AlreadyPaid(t) \/ RecordStatus(t) \/ GrantLog(t))
    BY <1>1, <2>3, CountReturn
  <2> QED
    BY <1>5, <2>1, <2>2, <2>3 DEF Apply
<1>6. ASSUME NEW v \in Sweeps, Loop(v) PROVE Counted(s)'
  <2>1. CASE v = s /\ (ListUnsettled(v) \/ FetchStatus(v))
    BY <1>1, <2>1, CountList, CountFetch
  <2>2. CASE v # s \/ ~(ListUnsettled(v) \/ FetchStatus(v))
    <3>1. UNCHANGED reported
      BY <1>6 DEF Loop, ListUnsettled, FetchStatus, LookupFails, ListLapsed, Downgrade, EndSweep,
                  sweepVars
    <3>3. todo'[s] \subseteq todo[s]
      BY <1>1, <1>6, <2>2 DEF sweepVars, Loop, ListUnsettled, FetchStatus, LookupFails,
                              ListLapsed, Downgrade,
                              EndSweep
    <3>2. pc'[s] \in Busy => pc'[s] = pc[s] /\ job'[s] = job[s]
      BY <1>1, <1>6, <2>2 DEF Loop, ListUnsettled, FetchStatus, LookupFails, ListLapsed, Downgrade,
                              EndSweep, Threads, Busy, GrantSteps
    <3> QED
      BY <1>1, <3>1, <3>2, <3>3, CountAside
  <2> QED
    BY <2>1, <2>2
<1>7. CASE Crash \/ \E t \in Threads : Abort(t)
  <2>1. todo'[s] \subseteq todo[s] /\ UNCHANGED reported
    BY <1>7 DEF Crash, Abort
  <2>2. pc'[s] \in Busy => pc'[s] = pc[s] /\ job'[s] = job[s]
    BY <1>1, <1>7 DEF Crash, Abort, Busy, GrantSteps
  <2> QED
    BY <1>1, <2>1, <2>2, CountAside
<1>8. CASE Tick \/ UNCHANGED vars
  BY <1>2, <1>8 DEF Tick, vars, sweepVars
<1> QED
  BY <1>3, <1>4, <1>5, <1>6, <1>7, <1>8 DEF Next

\* However the webhooks race it, a sweep counts an invoice as granted in one of its
\* reports at most, and only when its payment is paid (reconcile).
THEOREM ReportsCountOnce == Spec => []ReportedOnce
<1>1. Init => CountInv
  BY DEF Init, CountInv, Counted, Busy, GrantSteps, Threads
<1>2. CountInv => ReportedOnce
  BY DEF CountInv, Counted, ReportedOnce
<1> QED
  BY <1>1, <1>2, CountStep, IInvAlways, PTL DEF Spec

(***************************************************************************)
(* What a sweep takes away.  An account it has listed as lapsed still is,  *)
(* or is free already, or was granted a tier in between.                   *)
(***************************************************************************)
LapseInv ==
    \A s \in Sweeps : \A row \in lapsing[s] :
        \/ row.user \in renewed[s]
        \/ account[row.user].tier = FreeTier
        \/ HasLapsed(account[row.user], now)

LEMMA LapsedStays ==
    ASSUME NEW acct \in Accounts, NEW n \in Nat, NEW m \in Nat, n <= m, HasLapsed(acct, n)
    PROVE  HasLapsed(acct, m)
BY DEF HasLapsed, Accounts, Dates

LEMMA LapseStep == IInv /\ LapseInv /\ [Next]_vars => LapseInv'
<1> SUFFICES ASSUME IInv, LapseInv, [Next]_vars PROVE LapseInv'
  OBVIOUS
<1>1. /\ TypeOK /\ now \in Nat /\ account \in [Users -> Accounts]
      /\ lapsing \in [Sweeps -> SUBSET LapsedRows] /\ renewed \in [Sweeps -> SUBSET Users]
  BY DEF IInv, TypeOK
<1>2. now' \in Nat /\ now <= now'
  BY <1>1, ClockStep
<1>3. \A s \in Sweeps : \A row \in lapsing[s] : row.user \in Users
  BY <1>1 DEF LapsedRows
<1>4. CASE /\ UNCHANGED account
           /\ \A s \in Sweeps : \/ lapsing'[s] = lapsing[s] /\ renewed'[s] = renewed[s]
                                \/ lapsing'[s] = {}
  <2> SUFFICES ASSUME NEW s \in Sweeps, NEW row \in lapsing'[s]
               PROVE  \/ row.user \in renewed'[s] \/ account[row.user].tier = FreeTier
                      \/ HasLapsed(account[row.user], now')
    BY <1>4 DEF LapseInv
  <2>1. row \in lapsing[s] /\ renewed'[s] = renewed[s] /\ account[row.user] \in Accounts
    BY <1>1, <1>3, <1>4
  <2> QED
    BY <1>1, <1>2, <2>1, LapsedStays DEF LapseInv
<1>5. ASSUME NEW t \in Threads, GrantWrite(t) PROVE LapseInv'
  <2>1. /\ UNCHANGED <<now, lapsing>>
        /\ \A u \in Users : u # job[t].user => account'[u] = account[u]
        /\ \A s \in Sweeps : renewed'[s] =
              renewed[s] \cup ({job[t].user} \cap {row.user : row \in lapsing[s]})
    BY <1>1, <1>5 DEF GrantWrite
  <2> SUFFICES ASSUME NEW s \in Sweeps, NEW row \in lapsing[s]
               PROVE  \/ row.user \in renewed'[s] \/ account'[row.user].tier = FreeTier
                      \/ HasLapsed(account'[row.user], now)
    BY <2>1 DEF LapseInv
  <2>2. row.user = job[t].user => row.user \in renewed'[s]
    BY <2>1
  <2> QED
    BY <1>3, <2>1, <2>2 DEF LapseInv
<1>6. ASSUME NEW v \in Sweeps, Downgrade(v) PROVE LapseInv'
  <2>1. PICK row \in lapsing[v] :
            /\ account' = [account EXCEPT ![row.user] = LapsedAccount(row.tier, now)]
            /\ lapsing' = [lapsing EXCEPT ![v] = @ \ {row}]
            /\ renewed' = [renewed EXCEPT ![v] = @ \ {row.user}]
    BY <1>6 DEF Downgrade
  <2>2. account'[row.user].tier = FreeTier
    BY <1>1, <1>3, <2>1 DEF LapsedAccount
  <2>3. /\ now' = now
        /\ \A u \in Users : u # row.user => account'[u] = account[u]
        /\ \A s \in Sweeps : lapsing'[s] \subseteq lapsing[s]
        /\ \A s \in Sweeps : renewed[s] \ {row.user} \subseteq renewed'[s]
    BY <1>1, <1>6, <2>1 DEF Downgrade
  <2> SUFFICES ASSUME NEW s \in Sweeps, NEW other \in lapsing'[s]
               PROVE  \/ other.user \in renewed'[s] \/ account'[other.user].tier = FreeTier
                      \/ HasLapsed(account'[other.user], now')
    BY DEF LapseInv
  <2> QED
    BY <1>3, <2>2, <2>3 DEF LapseInv
<1>7. ASSUME NEW v \in Sweeps, ListLapsed(v) PROVE LapseInv'
  <2>1. /\ UNCHANGED <<now, account>> /\ lapsing' = [lapsing EXCEPT ![v] = LapsedNow]
        /\ \A s \in Sweeps \ {v} : renewed'[s] = renewed[s]
    BY <1>1, <1>7 DEF ListLapsed, dbVars
  <2>2. \A row \in LapsedNow : HasLapsed(account[row.user], now)
    BY DEF LapsedNow
  <2> SUFFICES ASSUME NEW s \in Sweeps, NEW row \in lapsing'[s]
               PROVE  \/ row.user \in renewed'[s] \/ account[row.user].tier = FreeTier
                      \/ HasLapsed(account[row.user], now)
    BY <2>1 DEF LapseInv
  <2>3. CASE s = v
    BY <1>1, <2>1, <2>2, <2>3
  <2>4. CASE s # v
    BY <1>1, <2>1, <2>4 DEF LapseInv
  <2> QED
    BY <2>3, <2>4
<1>8. CASE \/ \E i \in Invoices : Checkout(i) \/ CustomerPays(i)
           \/ \E h \in Handlers : DeliverWebhook(h)
           \/ \E o \in Operators : Goodwill(o)
           \/ Tick \/ UNCHANGED vars
  BY <1>4, <1>8 DEF Checkout, CreateInvoice, RecordPending, ReplyWithUrl, CheckoutFails, CustomerPays,
                    DeliverWebhook, Goodwill, Tick, vars, dbVars, sweepVars
<1>9. ASSUME NEW t \in Threads, Apply(t), ~GrantWrite(t) PROVE LapseInv'
  BY <1>4, <1>9 DEF Apply, ClaimPaid, AlreadyPaid, RecordStatus, GrantRead, GrantLog, dbVars, sweepVars
<1>10. ASSUME NEW v \in Sweeps, Loop(v), ~Downgrade(v), ~ListLapsed(v) PROVE LapseInv'
  BY <1>4, <1>10 DEF Loop, ListUnsettled, FetchStatus, LookupFails, EndSweep, dbVars, sweepVars
<1>11. CASE Crash \/ \E t \in Threads : Abort(t)
  BY <1>4, <1>11 DEF Crash, Abort, dbVars
<1> QED
  BY <1>5, <1>6, <1>7, <1>8, <1>9, <1>10, <1>11 DEF Next

\* A tier in force ends by the write of a sweep that listed the account before it was
\* granted, and in no other way, with any number of threads (downgrade_expired).
THEOREM LiveTiersAreKept == Spec => LiveTierIsKept
<1> DEFINE Ends(u) == EffectiveTier(account[u], now) # FreeTier /\ account'[u].tier = FreeTier
           Kept == \A u \in Users : Ends(u) => \E s \in Sweeps : u \in renewed[s] \ renewed'[s]
<1>1. IInv /\ LapseInv /\ [Next]_vars => Kept
  <2> SUFFICES ASSUME IInv, LapseInv, [Next]_vars, NEW u \in Users, Ends(u)
               PROVE  \E s \in Sweeps : u \in renewed[s] \ renewed'[s]
    OBVIOUS
  <2>1. /\ TypeOK /\ account \in [Users -> Accounts] /\ now \in Nat /\ account[u].tier # FreeTier
        /\ renewed \in [Sweeps -> SUBSET Users] /\ lapsing \in [Sweeps -> SUBSET LapsedRows]
    BY DEF IInv, TypeOK, EffectiveTier
  <2>2. ASSUME NEW t \in Threads, GrantWrite(t) PROVE FALSE
    <3>1. job[t].tier \in PaidTiers
      BY <2>1, <2>2 DEF TypeOK, GrantWrite, GrantSteps, Jobs
    <3> QED
      BY <2>1, <2>2, <3>1, TiersAssumption DEF GrantWrite, GrantedAccount
  <2>3. ASSUME NEW s \in Sweeps, Downgrade(s) PROVE u \in renewed[s] \ renewed'[s]
    <3>1. PICK row \in lapsing[s] :
              /\ account' = [account EXCEPT ![row.user] = LapsedAccount(row.tier, now)]
              /\ renewed' = [renewed EXCEPT ![s] = @ \ {row.user}]
      BY <2>3 DEF Downgrade
    <3>2. row.user = u
      BY <2>1, <3>1
    <3>3. ~HasLapsed(account[u], now)
      BY <2>1 DEF HasLapsed, EffectiveTier, Accounts, Dates
    <3>4. u \in renewed[s]
      BY <2>1, <3>1, <3>2, <3>3 DEF LapseInv
    <3> QED
      BY <2>1, <3>1, <3>2, <3>4
  <2> QED
    BY <2>1, <2>2, <2>3, AccountStep
<1>2. Init => LapseInv
  BY DEF Init, LapseInv
<1>3. Kept <=> \A u \in Users :
                  EffectiveTier(account[u], now) # FreeTier /\ account'[u].tier = FreeTier =>
                      \E s \in Sweeps : u \in renewed[s] \ renewed'[s]
  OBVIOUS
<1> QED
  BY <1>1, <1>2, <1>3, LapseStep, IInvAlways, PTL DEF Spec, LiveTierIsKept

(***************************************************************************)
(* Threads that do not overlap                                             *)
(*                                                                         *)
(* A webhook that comes while the loop sleeps is covered, a webhook that   *)
(* comes during a sweep is not.  What a thread has read is still so when   *)
(* it writes: an expiry computed and not yet written is one the account of *)
(* this moment would get (FreshGrant), and an account listed as lapsed     *)
(* still is (FreshLapses).  The prompt needs one thing more: an account    *)
(* marked as lapsed ran out in the past (LapsesArePast).                   *)
(***************************************************************************)
\* No two threads are at work.
Alone == \A t, v \in Threads : pc[t] # "idle" /\ pc[v] # "idle" => t = v

\* A grant for an invoice has the arguments of apply_webhook, a gift those of its operator.
Arguments(t) ==
    /\ job[t].invoice \in Invoices => ForInvoice(t)
    /\ job[t].invoice \notin Invoices => job[t].days \in GiftDays

FreshGrant(t) ==
    \E at \in 0..now :
        job[t].expires = GrantExpiry(account[job[t].user], job[t].tier, at, job[t].days)

FreshLapses(s) ==
    \A row \in lapsing[s] :
        HasLapsed(account[row.user], now) /\ row.tier = account[row.user].tier

Fresh(t) ==
    /\ pc[t] \in Busy => Arguments(t)
    /\ pc[t] = "grant_write" => FreshGrant(t)
    /\ t \in Sweeps /\ pc[t] = "downgrade" => FreshLapses(t)

FreshInv == \A t \in Threads : Fresh(t)

(***************************************************************************)
(* Who else is there                                                       *)
(***************************************************************************)
\* Next to a thread at work, or one that begins, all others are idle: so a step of
\* one thread has to keep what is known of that thread only.
LEMMA StepOfOne ==
    ASSUME TypeOK, Alone, Alone', NEW t \in Threads, pc[t] # "idle" \/ pc'[t] # "idle",
           \A v \in Threads \ {t} : pc'[v] = pc[v],
           Fresh(t)'
    PROVE  FreshInv'
<1>1. \A v \in Threads \ {t} : pc'[v] = "idle"
  BY DEF Alone
<1> QED
  BY <1>1 DEF FreshInv, Fresh, Busy, GrantSteps

\* What is known stays known while threads, accounts and lapses do nothing.
LEMMA StepAside ==
    ASSUME TypeOK, FreshInv, UNCHANGED <<pc, job, account, lapsing>>, now' \in Nat, now <= now'
    PROVE  FreshInv'
<1>1. ASSUME NEW t \in Threads, pc[t] = "grant_write" PROVE FreshGrant(t)'
  <2>1. PICK at \in 0..now :
            job[t].expires = GrantExpiry(account[job[t].user], job[t].tier, at, job[t].days)
    BY <1>1 DEF FreshInv, Fresh, FreshGrant
  <2>2. at \in 0..now'
    BY DEF TypeOK
  <2> QED
    BY <2>1, <2>2 DEF FreshGrant
<1>2. ASSUME NEW s \in Sweeps, pc[s] = "downgrade" PROVE FreshLapses(s)'
  <2>1. FreshLapses(s)
    BY <1>2 DEF FreshInv, Fresh, Threads
  <2>2. \A row \in lapsing[s] : account[row.user] \in Accounts
    BY DEF TypeOK, LapsedRows
  <2>3. now \in Nat
    BY DEF TypeOK
  <2> QED
    BY <2>1, <2>2, <2>3, LapsedStays DEF FreshLapses
<1> QED
  BY <1>1, <1>2 DEF FreshInv, Fresh, Arguments, ForInvoice

(***************************************************************************)
(* The steps of a thread                                                   *)
(***************************************************************************)
\* A call that starts has its arguments.
LEMMA FreshStart ==
    ASSUME IInv, FreshInv, Alone, Alone', NEW t \in Handlers \cup Operators,
           DeliverWebhook(t) \/ Goodwill(t)
    PROVE  FreshInv'
<1>1. /\ t \in Threads /\ t \notin Sweeps /\ TypeOK /\ pc \in [Threads -> Steps]
      /\ job \in [Threads -> Jobs \cup {NoJob}]
  BY ThreadsAssumption DEF Threads, IInv, TypeOK
<1>2. /\ pc'[t] \in {"apply", "grant_read"}
      /\ \A v \in Threads \ {t} : pc'[v] = pc[v]
  BY <1>1 DEF DeliverWebhook, Goodwill
<1>3. Arguments(t)'
  <2>1. CASE DeliverWebhook(t)
    BY <1>1, <2>1 DEF DeliverWebhook, Arguments, ForInvoice, WebhookJob
  <2>2. CASE Goodwill(t)
    BY <1>1, <2>2, CheckoutAssumption DEF Goodwill, Arguments
  <2> QED
    BY <2>1, <2>2
<1> QED
  BY <1>1, <1>2, <1>3, StepOfOne DEF Fresh

\* A claim, a write, a return: the arguments stay as they are while the call lasts.
LEMMA FreshApply ==
    ASSUME IInv, FreshInv, Alone, Alone', NEW t \in Threads,
           ClaimPaid(t) \/ GrantWrite(t) \/ AlreadyPaid(t) \/ RecordStatus(t) \/ GrantLog(t)
    PROVE  FreshInv'
<1>1. /\ TypeOK /\ pc[t] \in Busy /\ pc \in [Threads -> Steps]
      /\ pc'[t] \in {"grant_read", "grant_log", "fetch", "idle"}
      /\ pc'[t] \in {"grant_read", "grant_log"} => job' = job
      /\ \A v \in Threads \ {t} : pc'[v] = pc[v]
  BY DEF ClaimPaid, GrantWrite, AlreadyPaid, RecordStatus, GrantLog, Return, Busy, GrantSteps,
         IInv, TypeOK
<1>2. pc[t] # "idle"
  BY <1>1 DEF Busy, GrantSteps
<1>3. pc'[t] \in Busy => Arguments(t)'
  BY <1>1 DEF FreshInv, Fresh, Arguments, ForInvoice, Busy, GrantSteps
<1> QED
  BY <1>1, <1>2, <1>3, StepOfOne DEF Fresh

\* The read: what is computed is what the account of this moment would get.
LEMMA FreshRead ==
    ASSUME IInv, FreshInv, Alone, Alone', NEW t \in Threads, GrantRead(t)
    PROVE  FreshInv'
<1>1. /\ TypeOK /\ pc[t] = "grant_read" /\ pc' = [pc EXCEPT ![t] = "grant_write"]
      /\ job' = [job EXCEPT ![t].expires =
                    GrantExpiry(account[job[t].user], job[t].tier, now, job[t].days)]
      /\ UNCHANGED <<account, now>> /\ pc \in [Threads -> Steps]
      /\ job[t] \in Jobs /\ job \in [Threads -> Jobs \cup {NoJob}] /\ now \in Nat
  BY DEF GrantRead, dbVars, IInv, TypeOK, GrantSteps
<1>2. /\ job'[t].expires = GrantExpiry(account[job[t].user], job[t].tier, now, job[t].days)
      /\ job'[t].user = job[t].user /\ job'[t].tier = job[t].tier /\ job'[t].days = job[t].days
      /\ job'[t].invoice = job[t].invoice
  BY <1>1 DEF Jobs
<1>3. FreshGrant(t)' /\ Arguments(t)'
  <2>1. now \in 0..now'
    BY <1>1
  <2> QED
    BY <1>1, <1>2, <2>1 DEF FreshGrant, FreshInv, Fresh, Arguments, ForInvoice, Busy, GrantSteps
<1> QED
  BY <1>1, <1>3, StepOfOne DEF Fresh

(***************************************************************************)
(* The steps of a sweep                                                    *)
(***************************************************************************)
\* Lists and lookups: only a status to apply comes with arguments.
LEMMA FreshFetch ==
    ASSUME IInv, FreshInv, Alone, Alone', NEW s \in Sweeps,
           ListUnsettled(s) \/ FetchStatus(s) \/ LookupFails(s)
    PROVE  FreshInv'
<1>1. /\ TypeOK /\ s \in Threads /\ pc[s] \in {"idle", "fetch"}
      /\ pc \in [Threads -> Steps] /\ job \in [Threads -> Jobs \cup {NoJob}]
  BY DEF ListUnsettled, FetchStatus, LookupFails, Threads, IInv, TypeOK
<1>2. \/ pc' = [pc EXCEPT ![s] = "fetch"]
      \/ UNCHANGED pc /\ pc[s] = "fetch"
      \/ /\ pc' = [pc EXCEPT ![s] = "apply"]
         /\ \E row \in todo[s] : job' = [job EXCEPT ![s] = WebhookJob(row.invoice, mono[row.invoice])]
  BY DEF ListUnsettled, FetchStatus, LookupFails, NextRows
<1>3. pc'[s] \in {"fetch", "apply"} /\ \A v \in Threads \ {s} : pc'[v] = pc[v]
  BY <1>1, <1>2
<1>4. pc'[s] = "apply" => Arguments(s)'
  <2>1. \A row \in todo[s] : row.invoice \in Invoices
    BY <1>1 DEF TypeOK, Rows
  <2> QED
    BY <1>1, <1>2, <2>1 DEF Arguments, ForInvoice, WebhookJob
<1> QED
  BY <1>1, <1>3, <1>4, StepOfOne DEF Fresh, Busy, GrantSteps

LEMMA FreshListLapsed ==
    ASSUME IInv, FreshInv, Alone, Alone', NEW s \in Sweeps, ListLapsed(s)
    PROVE  FreshInv'
<1>1. /\ TypeOK /\ s \in Threads /\ pc[s] = "fetch" /\ pc' = [pc EXCEPT ![s] = "downgrade"]
      /\ lapsing' = [lapsing EXCEPT ![s] = LapsedNow] /\ UNCHANGED <<account, now>>
      /\ pc \in [Threads -> Steps] /\ lapsing \in [Sweeps -> SUBSET LapsedRows]
  BY DEF ListLapsed, dbVars, Threads, IInv, TypeOK
<1>2. FreshLapses(s)'
  BY <1>1 DEF FreshLapses, LapsedNow
<1> QED
  BY <1>1, <1>2, StepOfOne DEF Fresh, Busy, GrantSteps

\* One account lapses; the rows left are of others, which stay as they were listed.
LEMMA FreshDowngrade ==
    ASSUME IInv, FreshInv, Alone, Alone', NEW s \in Sweeps, Downgrade(s) \/ EndSweep(s)
    PROVE  FreshInv'
<1>1. /\ TypeOK /\ s \in Threads /\ pc[s] = "downgrade" /\ UNCHANGED now
      /\ pc'[s] \in {"downgrade", "idle"} /\ \A v \in Threads \ {s} : pc'[v] = pc[v]
      /\ pc \in [Threads -> Steps] /\ lapsing \in [Sweeps -> SUBSET LapsedRows]
      /\ account \in [Users -> Accounts] /\ FreshLapses(s)
  BY DEF Downgrade, EndSweep, Threads, IInv, TypeOK, FreshInv, Fresh
<1>2. pc'[s] = "downgrade" => FreshLapses(s)'
  <2>1. SUFFICES ASSUME Downgrade(s) PROVE FreshLapses(s)'
    BY <1>1 DEF EndSweep
  <2>2. PICK row \in lapsing[s] :
            /\ account' = [account EXCEPT ![row.user] = LapsedAccount(row.tier, now)]
            /\ lapsing' = [lapsing EXCEPT ![s] = @ \ {row}]
    BY <2>1 DEF Downgrade
  <2>3. lapsing[s] \subseteq LapsedRows /\ lapsing'[s] = lapsing[s] \ {row}
    BY <1>1, <2>2
  <2>4. ASSUME NEW other \in lapsing'[s] PROVE other.user # row.user
    <3>1. other.tier = account[other.user].tier /\ row.tier = account[row.user].tier
      BY <1>1, <2>3, <2>4 DEF FreshLapses
    <3> QED
      BY <2>3, <2>4, <3>1 DEF LapsedRows
  <2>5. \A other \in lapsing'[s] : account'[other.user] = account[other.user]
    BY <1>1, <2>2, <2>3, <2>4 DEF LapsedRows
  <2> QED
    BY <1>1, <2>3, <2>5 DEF FreshLapses
<1> QED
  BY <1>1, <1>2, StepOfOne DEF Fresh, Busy, GrantSteps

\* A failure takes threads and what they know with it.
LEMMA FreshFailure ==
    ASSUME IInv, FreshInv, Alone, Alone', Crash \/ \E t \in Threads : Abort(t)
    PROVE  FreshInv'
<1>1. TypeOK /\ pc \in [Threads -> Steps]
  BY DEF IInv, TypeOK
<1>2. CASE Crash
  BY <1>2 DEF Crash, FreshInv, Fresh, Busy, GrantSteps
<1>3. ASSUME NEW t \in Threads, Abort(t) PROVE FreshInv'
  <2>1. /\ pc[t] # "idle" /\ pc'[t] = "idle"
        /\ \A v \in Threads \ {t} : pc'[v] = pc[v]
    BY <1>1, <1>3 DEF Abort
  <2> QED
    BY <1>1, <2>1, StepOfOne DEF Fresh, Busy, GrantSteps
<1> QED
  BY <1>2, <1>3

LEMMA FreshStep == IInv /\ FreshInv /\ Alone /\ Alone' /\ [Next]_vars => FreshInv'
<1> SUFFICES ASSUME IInv, FreshInv, Alone, Alone', [Next]_vars PROVE FreshInv'
  OBVIOUS
<1>1. TypeOK /\ now' \in Nat /\ now <= now'
  BY ClockStep DEF IInv
<1>2. CASE (\E i \in Invoices : Checkout(i) \/ CustomerPays(i)) \/ Tick \/ UNCHANGED vars
  <2>1. UNCHANGED <<pc, job, account, lapsing>>
    BY <1>2 DEF Checkout, CreateInvoice, RecordPending, ReplyWithUrl, CheckoutFails,
                CustomerPays, Tick, vars, dbVars, sweepVars
  <2> QED
    BY <1>1, <2>1, StepAside
<1>3. ASSUME NEW h \in Handlers, DeliverWebhook(h) PROVE FreshInv'
  BY <1>3, FreshStart
<1>4. ASSUME NEW o \in Operators, Goodwill(o) PROVE FreshInv'
  BY <1>4, FreshStart
<1>5. ASSUME NEW t \in Threads, Apply(t) PROVE FreshInv'
  BY <1>5, FreshApply, FreshRead DEF Apply
<1>6. ASSUME NEW s \in Sweeps, Loop(s) PROVE FreshInv'
  BY <1>6, FreshFetch, FreshListLapsed, FreshDowngrade DEF Loop
<1>7. CASE Crash \/ \E t \in Threads : Abort(t)
  BY <1>7, FreshFailure
<1> QED
  BY <1>2, <1>3, <1>4, <1>5, <1>6, <1>7 DEF Next

LEMMA FreshAlways == Spec /\ []Alone => []FreshInv
<1>1. Init => FreshInv
  BY DEF Init, FreshInv, Fresh, Busy, GrantSteps
<1> QED
  BY <1>1, FreshStep, IInvAlways, PTL DEF Spec

(***************************************************************************)
(* The refinement                                                          *)
(***************************************************************************)
Charged == {i \in Invoices : <<i, PaidStatus>> \in sent}

\* The arithmetic of both modules is Entitlement's.
LEMMA SameArithmetic ==
    /\ \A acct, tier, time, days :
          Contract!GrantExpiry(acct, tier, time, days) = GrantExpiry(acct, tier, time, days)
    /\ \A tier, expires : Contract!GrantedAccount(tier, expires) = GrantedAccount(tier, expires)
    /\ \A acct, time : Contract!HasLapsed(acct, time) <=> HasLapsed(acct, time)
    /\ \A tier, time : Contract!LapsedAccount(tier, time) = LapsedAccount(tier, time)
    /\ Contract!NewAccount = NewAccount
BY DEF Contract!GrantExpiry, GrantExpiry, Contract!Extends, Extends, Contract!GrantedAccount,
       GrantedAccount, Contract!HasLapsed, HasLapsed, Contract!LapsedAccount, LapsedAccount,
       Contract!NewAccount, NewAccount

\* A grant written by a thread that is alone is a grant as if in one step, whether an
\* invoice paid for it or an operator gave it.
LEMMA WriteIsContract ==
    ASSUME IInv, FreshInv, NEW t \in Threads, GrantWrite(t)
    PROVE  Contract!Next
<1> DEFINE g == job[t]
<1>1. /\ TypeOK /\ pc[t] = "grant_write" /\ g \in Jobs /\ Arguments(t)
      /\ account' = [account EXCEPT ![g.user] = GrantedAccount(g.tier, g.expires)]
      /\ UNCHANGED <<now, sent>>
  BY DEF GrantWrite, monobankVars, IInv, TypeOK, FreshInv, Fresh, Busy, GrantSteps
<1>2. g.user \in Users /\ g.tier \in PaidTiers
  BY <1>1 DEF Jobs
<1>3. PICK at \in 0..now : g.expires = GrantExpiry(account[g.user], g.tier, at, g.days)
  BY <1>1 DEF FreshInv, Fresh, FreshGrant
<1>4. Contract!Grant(g.user, g.tier, g.days)
  BY <1>1, <1>3, SameArithmetic DEF Contract!Grant
<1>5. CASE g.invoice \in Invoices
  <2>1. PICK i \in Invoices : i = g.invoice
    BY <1>5
  <2>2. i \in Charged /\ credited[i] = 0
    BY <1>1, <2>1 DEF IInv, ClaimInv, CheckoutInv, Claims, GrantSteps, Charged
  <2>3. credited' = [credited EXCEPT ![i] = 1]
    BY <1>1, <2>1, <2>2 DEF GrantWrite, TypeOK
  <2>4. Owner[i] = g.user /\ Plan[i] = g.tier /\ g.days = SubscriptionDays
    BY <1>1, <2>1 DEF Arguments, ForInvoice
  <2>5. Contract!Credit(i)
    BY <1>1, <1>4, <2>2, <2>3, <2>4 DEF Contract!Credit, Charged
  <2> QED
    BY <2>5 DEF Contract!Next
<1>6. CASE g.invoice \notin Invoices
  <2>1. g.days \in GiftDays /\ credited' = credited
    BY <1>1, <1>6 DEF Arguments, GrantWrite
  <2>2. Contract!Gift(g.user, g.tier, g.days)
    BY <1>1, <1>4, <2>1 DEF Contract!Gift
  <2> QED
    BY <1>2, <2>1, <2>2 DEF Contract!Next
<1> QED
  BY <1>5, <1>6

\* An account that was listed as lapsed still is.
LEMMA DowngradeIsContract ==
    ASSUME IInv, FreshInv, NEW s \in Sweeps, Downgrade(s)
    PROVE  Contract!Next
<1>1. PICK row \in lapsing[s] :
          account' = [account EXCEPT ![row.user] = LapsedAccount(row.tier, now)]
  BY DEF Downgrade
<1>2. /\ row.user \in Users /\ row.tier = account[row.user].tier
      /\ HasLapsed(account[row.user], now)
  BY DEF Downgrade, IInv, TypeOK, LapsedRows, FreshInv, Fresh, FreshLapses, Threads
<1>3. UNCHANGED <<now, sent, credited>>
  BY DEF Downgrade, monobankVars
<1>4. Contract!Lapse(row.user)
  BY <1>1, <1>2, <1>3, SameArithmetic DEF Contract!Lapse
<1> QED
  BY <1>2, <1>4 DEF Contract!Next

\* What Monobank does to an invoice is a charge or nothing.
LEMMA EmitIsContract ==
    ASSUME UNCHANGED <<now, account, credited>>, NEW i \in Invoices, NEW status, Emit(i, status)
    PROVE  [Contract!Next]_(Contract!vars)
<1>1. CASE status = PaidStatus
  <2>1. Charged' = Charged \cup {i}
    BY <1>1 DEF Charged, Emit
  <2>2. Contract!Charge(i)
    BY <2>1 DEF Contract!Charge, Charged
  <2> QED
    BY <2>2 DEF Contract!Next
<1>2. CASE status # PaidStatus
  <2>1. Charged' = Charged
    BY <1>2 DEF Charged, Emit
  <2> QED
    BY <2>1 DEF Contract!vars, Charged
<1> QED
  BY <1>1, <1>2

LEMMA StepIsContract == IInv /\ FreshInv /\ [Next]_vars => [Contract!Next]_(Contract!vars)
<1> SUFFICES ASSUME IInv, FreshInv, [Next]_vars PROVE [Contract!Next]_(Contract!vars)
  OBVIOUS
<1>1. CASE UNCHANGED <<now, account, credited, sent>>
  BY <1>1 DEF Contract!vars
<1>2. ASSUME NEW i \in Invoices, Checkout(i) \/ CustomerPays(i)
      PROVE  [Contract!Next]_(Contract!vars)
  <2>1. UNCHANGED <<now, account, credited>>
    BY <1>2 DEF Checkout, CreateInvoice, RecordPending, ReplyWithUrl, CheckoutFails,
                CustomerPays, dbVars
  <2>2. UNCHANGED sent \/ \E status : Emit(i, status)
    BY <1>2 DEF Checkout, CreateInvoice, RecordPending, ReplyWithUrl, CheckoutFails,
                CustomerPays, IssueInvoice, InvoiceMoves, monobankVars
  <2> QED
    BY <1>1, <2>1, <2>2, EmitIsContract
<1>3. CASE Tick
  <2>1. Contract!Tick
    BY <1>3 DEF Tick, dbVars, monobankVars, Contract!Tick
  <2> QED
    BY <2>1 DEF Contract!Next
<1>4. ASSUME NEW t \in Threads, Apply(t) PROVE [Contract!Next]_(Contract!vars)
  <2>1. CASE GrantWrite(t)
    BY <2>1, WriteIsContract
  <2>2. CASE ~GrantWrite(t)
    BY <1>1, <1>4, <2>2 DEF Apply, ClaimPaid, AlreadyPaid, RecordStatus, GrantRead, GrantLog,
                            dbVars, monobankVars
  <2> QED
    BY <2>1, <2>2
<1>5. ASSUME NEW s \in Sweeps, Loop(s) PROVE [Contract!Next]_(Contract!vars)
  <2>1. CASE Downgrade(s)
    BY <2>1, DowngradeIsContract
  <2>2. CASE ~Downgrade(s)
    BY <1>1, <1>5, <2>2 DEF Loop, ListUnsettled, FetchStatus, LookupFails, ListLapsed, EndSweep,
                            dbVars, monobankVars
  <2> QED
    BY <2>1, <2>2
<1>6. CASE \/ \E h \in Handlers : DeliverWebhook(h)
           \/ \E o \in Operators : Goodwill(o)
           \/ \E t \in Threads : Abort(t)
           \/ Crash
           \/ UNCHANGED vars
  BY <1>1, <1>6 DEF DeliverWebhook, Goodwill, Abort, Crash, vars, dbVars, monobankVars
<1> QED
  BY <1>2, <1>3, <1>4, <1>5, <1>6 DEF Next

\* Claims, reads, writes, lists and lapses, with failures and restarts between them, come
\* to grants and lapses of one step each, on what the account holds when it is written:
\* as long as no two threads overlap (apply_webhook, grant_tier, downgrade_expired).
THEOREM ContractIsKept == Spec /\ []Alone => KeepsContract
<1>1. Init => Contract!Init
  <2>1. Init => Charged = {}
    BY DEF Init, MonobankInit, Charged
  <2> QED
    BY <2>1, SameArithmetic DEF Init, Contract!Init, Charged
<1> QED
  BY <1>1, StepIsContract, FreshAlways, IInvAlways, PTL DEF Spec, KeepsContract, Contract!Spec

\* So the loop on its own, with every webhook lost, keeps it always.
COROLLARY LoneThreadKeepsContract ==
    ASSUME \A t, v \in Threads : t = v
    PROVE  Spec => KeepsContract
<1>1. Alone
  BY DEF Alone
<1> QED
  BY <1>1, ContractIsKept, PTL

(***************************************************************************)
(* The renewal prompt                                                      *)
(***************************************************************************)
\* An account that holds a tier names none as lapsed, and no lapse is yet to come.
LapsesArePast ==
    \A u \in Users :
        /\ account[u].tier # FreeTier => account[u].lapsedTier = FreeTier
        /\ account[u].lapsedAt # NoDate => account[u].lapsedAt <= now

LEMMA LapsesStep == TypeOK /\ LapsesArePast /\ [Next]_vars => LapsesArePast'
<1> SUFFICES ASSUME TypeOK, LapsesArePast, [Next]_vars PROVE LapsesArePast'
  OBVIOUS
<1>1. now \in Nat /\ account \in [Users -> Accounts]
  BY DEF TypeOK
<1>2. now' \in Nat /\ now <= now'
  BY ClockStep
<1>3. ASSUME NEW u \in Users, account'[u] = account[u]
      PROVE  /\ account'[u].tier # FreeTier => account'[u].lapsedTier = FreeTier
             /\ account'[u].lapsedAt # NoDate => account'[u].lapsedAt <= now'
  BY <1>1, <1>2, <1>3 DEF LapsesArePast, Accounts, Dates
<1>4. ASSUME NEW t \in Threads, GrantWrite(t) PROVE LapsesArePast'
  <2>1. \A u \in Users : \/ account'[u] = account[u]
                         \/ account'[u] = GrantedAccount(job[t].tier, job[t].expires)
    BY <1>1, <1>4 DEF GrantWrite
  <2> QED
    BY <1>3, <2>1 DEF GrantedAccount, LapsesArePast
<1>5. ASSUME NEW s \in Sweeps, Downgrade(s) PROVE LapsesArePast'
  <2>1. PICK row \in lapsing[s] :
            account' = [account EXCEPT ![row.user] = LapsedAccount(row.tier, now)]
    BY <1>5 DEF Downgrade
  <2>2. \A u \in Users : account'[u] = account[u] \/ account'[u] = LapsedAccount(row.tier, now)
    BY <1>1, <2>1
  <2> QED
    BY <1>1, <1>2, <1>3, <2>2 DEF LapsedAccount, LapsesArePast
<1> QED
  BY <1>3, <1>4, <1>5, AccountStep DEF LapsesArePast

\* What may follow on the page of an account nobody writes to.
LEMMA PageAsTimePasses ==
    ASSUME NEW a \in Accounts, NEW n \in Nat, a.tier = FreeTier => a.expires = NoDate,
           a.tier # FreeTier => a.lapsedTier = FreeTier,
           RenewalState(a, n + 1) # RenewalState(a, n)
    PROVE  \/ /\ RenewalState(a, n).status = "active"
              /\ RenewalState(a, n + 1) = [RenewalState(a, n) EXCEPT !.status = "expiring"]
           \/ /\ RenewalState(a, n).status \in {"active", "expiring", "lapsed"}
              /\ RenewalState(a, n + 1) = Quiet
<1>1. DayLength \in Nat /\ SecondLength \in Nat /\ WarningDays \in Nat /\ PromptTime \in Nat
  BY RenewalAssumption
<1>2. a.expires # NoDate => a.expires \in Nat
  BY DEF Accounts, Dates
<1>3. a.lapsedAt # NoDate => a.lapsedAt \in Nat
  BY DEF Accounts, Dates
<1>4. CASE a.expires = NoDate
  <2>1. \A time : EffectiveTier(a, time) = a.tier
    BY <1>4 DEF EffectiveTier
  <2>2. CASE a.tier # FreeTier
    BY <1>4, <2>1, <2>2 DEF RenewalState
  <2>3. CASE a.tier = FreeTier
    <3>1. RecentlyLapsed(a, n + 1) => RecentlyLapsed(a, n)
      BY <1>1, <1>3 DEF RecentlyLapsed
    <3>2. \A time : RenewalState(a, time) = IF RecentlyLapsed(a, time)
                                            THEN Prompt("lapsed", a.lapsedTier) ELSE Quiet
      BY <1>4, <2>1, <2>3 DEF RenewalState
    <3> QED
      BY <3>1, <3>2 DEF Prompt
  <2> QED
    BY <2>2, <2>3
<1>5. CASE a.expires # NoDate
  <2>1. a.expires \in Nat /\ a.tier # FreeTier /\ \A time : ~RecentlyLapsed(a, time)
    BY <1>2, <1>5 DEF RecentlyLapsed
  <2>2. \A time \in Nat : RenewalState(a, time) = IF a.expires > time THEN Running(a, time) ELSE Quiet
    BY <1>5, <2>1 DEF RenewalState, EffectiveTier
  <2>3. \A time \in Nat : /\ Running(a, time).status \in {"active", "expiring"}
                          /\ Running(a, time).tier = a.tier
    BY DEF Running, Prompt
  <2>4. CASE a.expires > n + 1
    <3>1. DaysLeft(a, n) <= WarningDays => DaysLeft(a, n + 1) <= WarningDays
      <4>1. \A time \in Nat :
              DaysLeft(a, time) <= WarningDays
                <=> a.expires - time < WarningDays * DayLength + SecondLength
        BY <2>1, RoundedUp
      <4>2. WarningDays * DayLength + SecondLength \in Nat
        BY <1>1
      <4> QED
        BY <2>1, <4>1, <4>2
    <3> QED
      BY <2>1, <2>2, <2>4, <3>1 DEF Running, Prompt
  <2>5. CASE ~(a.expires > n + 1)
    BY <2>1, <2>2, <2>3, <2>5
  <2> QED
    BY <2>4, <2>5
<1> QED
  BY <1>4, <1>5

\* With nobody granting by hand, and as long as no two threads overlap, the page keeps
\* to its order until the next purchase (renewal_state, downgrade_expired).
THEOREM PromptsRunDown ==
    ASSUME GiftDays = {}
    PROVE  Spec /\ []Alone => PromptRunsDown
<1> DEFINE Follows(u) ==
        \/ Page(u).status = "active" /\ Page(u)' = [Page(u) EXCEPT !.status = "expiring"]
        \/ Page(u).status \in {"active", "expiring", "lapsed"} /\ Page(u)' = Quiet
        \/ Page(u) = Quiet /\ Page(u)' = Prompt("lapsed", account[u].tier)
<1>1. IInv /\ FreshInv /\ FreeIsOpen /\ LapsesArePast /\ [Next]_vars
        => \A u \in Users : UNCHANGED credited /\ Page(u)' # Page(u) => Follows(u)
  <2> SUFFICES ASSUME IInv, FreshInv, FreeIsOpen, LapsesArePast, [Next]_vars,
                      NEW u \in Users, UNCHANGED credited, Page(u)' # Page(u)
               PROVE  Follows(u)
    OBVIOUS
  <2>1. TypeOK /\ now \in Nat /\ account \in [Users -> Accounts] /\ credited \in [Invoices -> Nat]
    BY DEF IInv, TypeOK
  <2>2. ASSUME account'[u] = account[u] PROVE Follows(u)
    <3>1. now' = now \/ now' = now + 1
      BY DEF Next, Checkout, Apply, Loop, CreateInvoice, RecordPending, ReplyWithUrl,
         CheckoutFails, CustomerPays, DeliverWebhook, Goodwill, ClaimPaid, AlreadyPaid,
         RecordStatus, GrantRead, GrantWrite, GrantLog, Abort, ListUnsettled, FetchStatus,
         LookupFails, ListLapsed, Downgrade, EndSweep, Crash, Tick, vars
    <3>2. now' = now + 1
      BY <2>2, <3>1 DEF Page
    <3>3. /\ account[u] \in Accounts
          /\ account[u].tier = FreeTier => account[u].expires = NoDate
          /\ account[u].tier # FreeTier => account[u].lapsedTier = FreeTier
      BY <2>1 DEF FreeIsOpen, LapsesArePast
    <3>4. Page(u) = RenewalState(account[u], now) /\ Page(u)' = RenewalState(account[u], now + 1)
      BY <2>2, <3>2 DEF Page
    <3> QED
      BY <2>1, <3>3, <3>4, PageAsTimePasses
  <2>3. ASSUME NEW t \in Threads, GrantWrite(t) PROVE FALSE
    <3>1. job[t].invoice \in Invoices
      BY <2>3 DEF GrantWrite, FreshInv, Fresh, Busy, Arguments, GrantSteps
    <3> QED
      BY <2>1, <2>3, <3>1 DEF GrantWrite
  <2>4. ASSUME NEW s \in Sweeps, Downgrade(s), account'[u] # account[u] PROVE Follows(u)
    <3>1. PICK row \in lapsing[s] :
              account' = [account EXCEPT ![row.user] = LapsedAccount(row.tier, now)]
      BY <2>4 DEF Downgrade
    <3>2. /\ row.user = u /\ now' = now
          /\ HasLapsed(account[u], now) /\ row.tier = account[u].tier
      BY <2>1, <2>4, <3>1 DEF Downgrade, FreshInv, Fresh, FreshLapses, Threads
    <3>3. /\ account[u].tier # FreeTier /\ account[u].expires # NoDate
          /\ ~(account[u].expires > now) /\ account[u].lapsedTier = FreeTier
      BY <2>1, <3>2 DEF HasLapsed, LapsesArePast, Accounts, Dates
    <3>4. Page(u) = Quiet
      BY <3>3 DEF Page, RenewalState, EffectiveTier, RecentlyLapsed
    <3>5. account'[u] = LapsedAccount(account[u].tier, now)
      BY <2>1, <3>1, <3>2
    <3>6. now # NoDate /\ now - now <= PromptTime
      BY <2>1, NoDateAssumption, RenewalAssumption
    <3>7. Page(u)' = Prompt("lapsed", account[u].tier)
      BY <3>2, <3>3, <3>5, <3>6
         DEF Page, RenewalState, EffectiveTier, RecentlyLapsed, LapsedAccount
    <3> QED
      BY <3>4, <3>7
  <2> QED
    BY <2>1, <2>2, <2>3, <2>4, AccountStep
<1>2. Init => FreeIsOpen /\ LapsesArePast
  BY DEF Init, FreeIsOpen, LapsesArePast, NewAccount
<1>3. IInv => TypeOK
  BY DEF IInv
<1>4. (\A u \in Users : UNCHANGED credited /\ Page(u)' # Page(u) => Follows(u))
        <=> \A u \in Users : UNCHANGED credited /\ Page(u)' # Page(u) =>
              \/ Page(u).status = "active" /\ Page(u)' = [Page(u) EXCEPT !.status = "expiring"]
              \/ Page(u).status \in {"active", "expiring", "lapsed"} /\ Page(u)' = Quiet
              \/ Page(u) = Quiet /\ Page(u)' = Prompt("lapsed", account[u].tier)
  OBVIOUS
<1> HIDE DEF Follows
<1> QED
  BY <1>1, <1>2, <1>3, <1>4, FreeStep, LapsesStep, FreshAlways, IInvAlways, PTL DEF Spec, PromptRunsDown

=============================================================================
