---------------------------- MODULE TierContract ----------------------------
(***************************************************************************)
(* What billing promises a customer, with every grant and every lapse a    *)
(* single step: an invoice that was charged buys its owner the tier once,  *)
(* on top of what they hold when it is written, and only a closed window   *)
(* goes back to free.                                                      *)
(***************************************************************************)
EXTENDS Naturals, Entitlement

CONSTANTS Users, Invoices, Owner, Plan, SubscriptionDays, GiftDays

VARIABLES
    now,
    charged,    \* invoices whose money Monobank has taken
    credited,   \* grants made per invoice
    account     \* the entitlement fields of each user

vars == <<now, charged, credited, account>>

Init ==
    /\ now = 0
    /\ charged = {}
    /\ credited = [i \in Invoices |-> 0]
    /\ account = [u \in Users |-> NewAccount]

\* The clock is read when the account is, so the window may date from a moment
\* before the write; the account may not.
Grant(u, tier, days) ==
    \E at \in 0..now :
        account' = [account EXCEPT ![u] =
                        GrantedAccount(tier, GrantExpiry(account[u], tier, at, days))]

Charge(i) ==
    /\ charged' = charged \cup {i}
    /\ UNCHANGED <<now, credited, account>>

Credit(i) ==
    /\ i \in charged
    /\ credited[i] = 0
    /\ credited' = [credited EXCEPT ![i] = 1]
    /\ Grant(Owner[i], Plan[i], SubscriptionDays)
    /\ UNCHANGED <<now, charged>>

Gift(u, tier, days) ==
    /\ Grant(u, tier, days)
    /\ UNCHANGED <<now, charged, credited>>

Lapse(u) ==
    /\ HasLapsed(account[u], now)
    /\ account' = [account EXCEPT ![u] = LapsedAccount(account[u].tier, now)]
    /\ UNCHANGED <<now, charged, credited>>

Tick ==
    /\ now' = now + 1
    /\ UNCHANGED <<charged, credited, account>>

Next ==
    \/ \E i \in Invoices : Charge(i) \/ Credit(i)
    \/ \E u \in Users, tier \in PaidTiers, days \in GiftDays : Gift(u, tier, days)
    \/ \E u \in Users : Lapse(u)
    \/ Tick

Spec == Init /\ [][Next]_vars
=============================================================================
