------------------------------ MODULE Monobank ------------------------------
(***************************************************************************)
(* The acquirer as the application sees it (external: app/services/        *)
(* monobank.py only talks to it).  Every invoice moves through the         *)
(* statuses billing.py lists, and each change emits one webhook message.   *)
(* `sent' only grows: handling any message of it at any time, many times   *)
(* or never, is a network that delays, reorders, repeats and loses.        *)
(***************************************************************************)
EXTENDS Naturals

CONSTANTS
    Invoices,       \* the invoices that may ever be created
    MonobankSteps   \* the status changes this run explores

PaidStatus == "success"
InFlightStatuses == {"created", "processing", "hold"}
TerminalStatuses == {PaidStatus, "failure", "reversed", "expired"}
Statuses == InFlightStatuses \cup TerminalStatuses

AllMonobankSteps ==
    { <<"created", "processing">>, <<"created", "expired">>,
      <<"processing", "hold">>, <<"processing", "success">>,
      <<"processing", "failure">>, <<"hold", "success">>,
      <<"hold", "failure">>, <<"success", "reversed">> }

ASSUME MonobankStepsAssumption == MonobankSteps \subseteq AllMonobankSteps

VARIABLES
    mono,   \* the invoice's real status, "absent" before it is created
    sent    \* every <<invoice, status>> message Monobank has emitted

monobankVars == <<mono, sent>>

MonobankTypeOK ==
    /\ mono \in [Invoices -> Statuses \cup {"absent"}]
    /\ sent \subseteq Invoices \X Statuses

MonobankInit ==
    /\ mono = [i \in Invoices |-> "absent"]
    /\ sent = {}

Emit(i, status) ==
    /\ mono' = [mono EXCEPT ![i] = status]
    /\ sent' = sent \cup {<<i, status>>}

IssueInvoice(i) ==
    /\ mono[i] = "absent"
    /\ Emit(i, "created")

\* An invoice nobody opens can only expire: `customerHasUrl' says whether the
\* payment page's address ever reached the customer.
InvoiceMoves(i, customerHasUrl) ==
    \E step \in MonobankSteps :
        /\ mono[i] = step[1]
        /\ step[1] = "created" /\ step[2] = "processing" => customerHasUrl
        /\ Emit(i, step[2])
=============================================================================
