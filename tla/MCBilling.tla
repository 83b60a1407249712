----------------------------- MODULE MCBilling -----------------------------
(***************************************************************************)
(* Values for the constants of Billing that a .cfg cannot write.           *)
(***************************************************************************)
EXTENDS Billing, TLC

CONSTANTS u1, i1, i2, i3, tierA, tierB

\* Who buys what: one buyer, of one tier or of two.
OneBuyer == [i \in Invoices |-> u1]
SameTier == [i \in Invoices |-> tierA]
TwoTiers == [i \in Invoices |-> IF i = i3 THEN tierB ELSE tierA]

\* What Monobank does with an invoice.
AlwaysPaid == {<<"created", "processing">>, <<"processing", "success">>}
PaidOrExpired == AlwaysPaid \cup {<<"created", "expired">>}

\* Two invoices of one tier are alike.
Interchangeable == Permutations({i1, i2})

OpenEndedGift == {NoDate}
=============================================================================
