---------------------------- MODULE Entitlement ----------------------------
(***************************************************************************)
(* What a user document says about the tier that was bought, and how       *)
(* app/services/billing.py reads and writes it.  Time is a natural number  *)
(* of some unit; the module keeps only the arithmetic on it.               *)
(***************************************************************************)
EXTENDS Naturals

CONSTANTS
    FreeTier,   \* FREE_TIER, the tier every account starts on
    PaidTiers,  \* the tier strings of PLANS
    NoDate      \* None where a timestamp or a number of days may stand

ASSUME TiersAssumption == FreeTier \notin PaidTiers
ASSUME NoDateAssumption == NoDate \notin Nat

Tiers == PaidTiers \cup {FreeTier}
Dates == Nat \cup {NoDate}

\* The four fields of a user document that decide entitlement.  lapsed_tier is
\* FreeTier where the code stores None: free never lapses.
Accounts == [tier : Tiers, expires : Dates, lapsedTier : Tiers, lapsedAt : Dates]

NewAccount ==
    [tier |-> FreeTier, expires |-> NoDate, lapsedTier |-> FreeTier, lapsedAt |-> NoDate]

\* effective_tier: the tier in force, free once the window has closed.
EffectiveTier(acct, time) ==
    IF acct.expires = NoDate \/ acct.expires > time THEN acct.tier ELSE FreeTier

\* grant_tier: buying the tier one still holds starts at its end.
Extends(acct, tier, time) ==
    /\ acct.tier = tier
    /\ acct.expires # NoDate
    /\ acct.expires > time

\* Faulty: the window is rounded up by a day.
RoundedUpExpiry(acct, tier, time, days) ==
    IF days = NoDate THEN NoDate
    ELSE days + 1 + (IF Extends(acct, tier, time) THEN acct.expires ELSE time)

GrantExpiry(acct, tier, time, days) ==
    IF days = NoDate THEN NoDate
    ELSE days + (IF Extends(acct, tier, time) THEN acct.expires ELSE time)

\* The update_user call of grant_tier: all four fields in one write.
GrantedAccount(tier, expires) ==
    [tier |-> tier, expires |-> expires, lapsedTier |-> FreeTier, lapsedAt |-> NoDate]

\* Faulty variant: windows that close within the next unit count as closed.
LapsesSoon(acct, time) ==
    /\ acct.tier # FreeTier
    /\ acct.expires # NoDate
    /\ acct.expires <= time + 1

\* downgrade_expired: the query, and the write for one account it listed.
HasLapsed(acct, time) ==
    /\ acct.tier # FreeTier
    /\ acct.expires # NoDate
    /\ acct.expires <= time

\* Faulty variant: the query did not project the tier that lapsed.
LapsedWithoutTier(tier, time) ==
    [tier |-> FreeTier, expires |-> NoDate, lapsedTier |-> NoDate, lapsedAt |-> time]

LapsedAccount(tier, time) ==
    [tier |-> FreeTier, expires |-> NoDate, lapsedTier |-> tier, lapsedAt |-> time]
=============================================================================
