----------------------------- MODULE UsageMeter -----------------------------
(***************************************************************************)
(* One user's monthly call budget: app/services/usage.py.  The gate reads  *)
(* the tally of the month it saw, the meter adds to the month it sees, and *)
(* a call does its work in between: a month may pass at any of these       *)
(* points, and other calls of the user run meanwhile.                      *)
(***************************************************************************)
EXTENDS Integers, FiniteSets

CONSTANTS
    Callers,    \* calls that may be in progress at once
    Months,     \* the periods, 0 .. n
    Allowance,  \* call_allowance of the tier in force
    Unlimited   \* None: the tier is not metered

ASSUME CallersAssumption == IsFiniteSet(Callers)
ASSUME MonthsAssumption == Months \subseteq Nat /\ 0 \in Months
ASSUME AllowanceAssumption ==
    /\ Unlimited \notin Nat
    /\ Allowance \in (Nat \ {0}) \cup {Unlimited}

VARIABLES
    month,      \* the calendar month
    calls,      \* the usage rows: calls per month, 0 where there is no row
    stage,      \* per caller: where it is between the gate and the meter
    period      \* per caller: the current_period() it holds, 0 where none

vars == <<month, calls, stage, period>>

Stages == {"idle", "asking", "admitted", "counting"}

TypeOK ==
    /\ month \in Months
    /\ calls \in [Months -> Nat]
    /\ stage \in [Callers -> Stages]
    /\ period \in [Callers -> Months]

Init ==
    /\ month = 0
    /\ calls = [m \in Months |-> 0]
    /\ stage = [c \in Callers |-> "idle"]
    /\ period = [c \in Callers |-> 0]

At(c, s, p) ==
    /\ stage' = [stage EXCEPT ![c] = s]
    /\ period' = [period EXCEPT ![c] = p]

\* Faulty variant: the gate looks at the month that is about to begin.
AskAhead(c) ==
    /\ stage[c] = "idle"
    /\ At(c, "asking", month + 1)
    /\ UNCHANGED <<month, calls>>

\* check_call_allowed: the user, the allowance and the period are known ...
Ask(c) ==
    /\ stage[c] = "idle"
    /\ At(c, "asking", month)
    /\ UNCHANGED <<month, calls>>

\* Faulty variant: the gate trips one call late.
OneTooMany(p) == Allowance = Unlimited \/ calls[p] <= Allowance

\* ... and the tally of that period is read: the call passes, or QuotaExceeded.
Allowed(p) == Allowance = Unlimited \/ calls[p] < Allowance

Admit(c) ==
    /\ stage[c] = "asking"
    /\ Allowed(period[c])
    /\ At(c, "admitted", 0)
    /\ UNCHANGED <<month, calls>>

\* record_call: the period first, then one upserting increment of its row.
Stamp(c) ==
    /\ stage[c] = "admitted"
    /\ At(c, "counting", month)
    /\ UNCHANGED <<month, calls>>

Tally(p) == calls' = [calls EXCEPT ![p] = @ + 1]

Record(c) ==
    /\ stage[c] = "counting"
    /\ Tally(period[c])
    /\ At(c, "idle", 0)
    /\ UNCHANGED month

\* The call is refused, or fails before the meter: it is never counted.
Drop(c) ==
    /\ stage[c] # "idle"
    /\ At(c, "idle", 0)
    /\ UNCHANGED <<month, calls>>

NextMonth ==
    /\ month + 1 \in Months
    /\ month' = month + 1
    /\ UNCHANGED <<calls, stage, period>>

Next ==
    \/ \E c \in Callers : Ask(c) \/ Admit(c) \/ Stamp(c) \/ Record(c) \/ Drop(c)
    \/ NextMonth

Spec == Init /\ [][Next]_vars

(***************************************************************************)
(* Properties                                                              *)
(***************************************************************************)
\* The gate is not atomic with the meter, and reads the tally of a month that may
\* just have ended; still no month exceeds its budget by more than the calls that
\* can run beside the one that spends it, also a month that opens with calls of the
\* last one in flight (check_call_allowed, record_call).
OvershootBounded ==
    Allowance # Unlimited =>
        \A m \in Months : calls[m] <= Allowance + Cardinality(Callers) - 1

\* The calls that can still add to month m without passing a gate that reads m:
\* what makes OvershootBounded inductive.
Pending(m) ==
    {c \in Callers : \/ stage[c] = "counting" /\ period[c] = m
                     \/ stage[c] = "admitted" /\ m = month
                     \/ stage[c] = "asking" /\ m = month /\ period[c] # m}

RoomForPending ==
    Allowance # Unlimited =>
        \A m \in Months : calls[m] + Cardinality(Pending(m)) <= Allowance + Cardinality(Callers) - 1

\* A month that has not come has no calls, and no caller holds its period.
FutureIsBlank ==
    /\ \A m \in Months : m > month => calls[m] = 0
    /\ \A c \in Callers : period[c] <= month
=============================================================================
