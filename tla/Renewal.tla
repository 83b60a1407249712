------------------------------ MODULE Renewal ------------------------------
(***************************************************************************)
(* What the account page says about renewing: renewal_state of             *)
(* app/services/billing.py, a function of the account and the clock.       *)
(***************************************************************************)
EXTENDS Integers, Entitlement

CONSTANTS
    DayLength,      \* clock units in a day
    SecondLength,   \* clock units in a second
    WarningDays,    \* RENEWAL_WARNING_DAYS
    PromptTime      \* LAPSED_PROMPT_DAYS, in clock units

ASSUME RenewalAssumption ==
    /\ DayLength \in Nat \ {0} /\ SecondLength \in 1..DayLength
    /\ WarningDays \in Nat /\ PromptTime \in Nat

\* A status, and the tier to offer again.
Prompt(status, tier) == [status |-> status, tier |-> tier]
Quiet == Prompt("none", FreeTier)

\* Faulty: part of a day counts for nothing.
WholeDaysLeft(acct, time) == (acct.expires - time) \div DayLength

\* Part of a day counts as one, if there is a whole second of it: remaining.days,
\* and remaining.seconds, which knows no fraction.
DaysLeft(acct, time) ==
    LET remaining == acct.expires - time
        seconds == (remaining % DayLength) \div SecondLength
    IN  remaining \div DayLength + (IF seconds > 0 THEN 1 ELSE 0)

Running(acct, time) ==
    Prompt(IF DaysLeft(acct, time) <= WarningDays THEN "expiring" ELSE "active", acct.tier)

RecentlyLapsed(acct, time) ==
    acct.lapsedAt # NoDate /\ acct.lapsedTier # FreeTier /\ time - acct.lapsedAt <= PromptTime

\* Faulty: the prompt looks at the tier written down, not at the one in force.
RenewalStateAsWritten(acct, time) ==
    CASE acct.tier # FreeTier /\ acct.expires # NoDate -> Running(acct, time)
      [] acct.tier = FreeTier /\ RecentlyLapsed(acct, time) -> Prompt("lapsed", acct.lapsedTier)
      [] OTHER -> Quiet

RenewalState(acct, time) ==
    CASE EffectiveTier(acct, time) # FreeTier /\ acct.expires # NoDate -> Running(acct, time)
      [] EffectiveTier(acct, time) = FreeTier /\ RecentlyLapsed(acct, time) ->
            Prompt("lapsed", acct.lapsedTier)
      [] OTHER -> Quiet
=============================================================================
