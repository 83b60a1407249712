----------------------------- MODULE AdminGate -----------------------------
(***************************************************************************)
(* The brake on the admin area's key (app/api/admin.py): failures are      *)
(* counted per client in the memory of the process, and a count once       *)
(* reached stays, so that after a wait one more failure waits again.  The  *)
(* handlers await nothing between the check and the count.                 *)
(***************************************************************************)
EXTENDS Naturals

CONSTANTS
    Clients,            \* client hosts
    LockoutAfter,       \* LOCKOUT_AFTER
    LockoutSeconds,     \* LOCKOUT_SECONDS
    Second              \* clock units in a second

ASSUME LockoutAssumption ==
    /\ LockoutAfter \in Nat \ {0} /\ LockoutSeconds \in Nat \ {0}
    /\ Second \in Nat \ {0}

VARIABLES
    now,            \* time.time()
    failures,       \* _failures
    wrong, since    \* per client: wrong keys that were looked at, since when

gateVars == <<failures, wrong, since>>

NoFailures == [count |-> 0, until |-> 0]

GateTypeOK ==
    /\ now \in Nat
    /\ failures \in [Clients -> [count : Nat, until : Nat]]
    /\ wrong \in [Clients -> Nat]
    /\ since \in [Clients -> Nat]

GateInit ==
    /\ now = 0
    /\ failures = [c \in Clients |-> NoFailures]
    /\ wrong = [c \in Clients |-> 0]
    /\ since = [c \in Clients |-> 0]

Lockout == LockoutSeconds * Second

\* Faulty: one more failure than meant before the wait.
LateLockedOut(c) ==
    /\ failures[c].count > LockoutAfter
    /\ failures[c].until >= now + Second

\* _locked_out: the seconds left to wait, cut to a whole number, are not 0.
LockedOut(c) ==
    /\ failures[c].count >= LockoutAfter
    /\ failures[c].until >= now + Second

\* A wrong key is looked at: _record_failure.
RecordFailure(c) ==
    /\ failures' = [failures EXCEPT ![c] = [count |-> @.count + 1, until |-> now + Lockout]]
    /\ wrong' = [wrong EXCEPT ![c] = @ + 1]
    /\ UNCHANGED since

\* The right key: the client's count goes.
Forgive(c) ==
    /\ failures' = [failures EXCEPT ![c] = NoFailures]
    /\ wrong' = [wrong EXCEPT ![c] = 0]
    /\ since' = [since EXCEPT ![c] = now]

\* The process starts again with no failures.
ForgetFailures ==
    /\ failures' = [c \in Clients |-> NoFailures]
    /\ wrong' = [c \in Clients |-> 0]
    /\ since' = [c \in Clients |-> now]

(***************************************************************************)
(* Properties                                                              *)
(***************************************************************************)
\* What the truncated wait leaves between two keys: just over a second less.
Wait == Lockout - Second + 1

\* After the first LockoutAfter wrong keys each further one costs a whole wait, for as
\* long as the process runs and the right key is not given (_locked_out,
\* _record_failure: the count outlives the wait).
GuessesBounded ==
    \A c \in Clients : wrong[c] > LockoutAfter =>
        (wrong[c] - LockoutAfter) * Wait <= now - since[c]
=============================================================================
