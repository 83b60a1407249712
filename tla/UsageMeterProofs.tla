-------------------------- MODULE UsageMeterProofs --------------------------
(***************************************************************************)
(* What UsageMeter guarantees for every set of callers, every allowance    *)
(* and any number of months: the meter stays well typed, and no month is   *)
(* ever over its budget by as many calls as can run at once.               *)
(*                                                                         *)
(* OvershootBounded is not inductive: a month just below the bound could   *)
(* still have any number of admitted calls about to be added to it.        *)
(* RoomForPending counts them in, and FutureIsBlank is why a month that    *)
(* opens has room for all of them at once.                                 *)
(***************************************************************************)
EXTENDS UsageMeter, FiniteSetTheorems, TLAPS

USE CallersAssumption, MonthsAssumption, AllowanceAssumption

\* Every step keeps the types.
LEMMA TypeStep == TypeOK /\ [Next]_vars => TypeOK'
<1> SUFFICES ASSUME TypeOK, [Next]_vars PROVE TypeOK'
  OBVIOUS
<1> USE DEF TypeOK, Stages, At
<1>1. ASSUME NEW c \in Callers, Ask(c) PROVE TypeOK'
  BY <1>1 DEF Ask
<1>2. ASSUME NEW c \in Callers, Admit(c) PROVE TypeOK'
  BY <1>2 DEF Admit
<1>3. ASSUME NEW c \in Callers, Stamp(c) PROVE TypeOK'
  BY <1>3 DEF Stamp
<1>4. ASSUME NEW c \in Callers, Record(c) PROVE TypeOK'
  <2> DEFINE p == period[c]
  <2>0. p \in Months
    OBVIOUS
  <2>a. calls[p] \in Nat
    BY <2>0
  <2>1. calls[p] + 1 \in Nat
    BY <2>a
  <2>2. calls' \in [Months -> Nat]
    BY <1>4, <2>0, <2>1 DEF Record, Tally
  <2> QED
    BY <1>4, <2>2 DEF Record
<1>5. ASSUME NEW c \in Callers, Drop(c) PROVE TypeOK'
  BY <1>5 DEF Drop
<1>6. CASE NextMonth
  BY <1>6 DEF NextMonth
<1>7. CASE UNCHANGED vars
  BY <1>7 DEF vars
<1> QED
  BY <1>1, <1>2, <1>3, <1>4, <1>5, <1>6, <1>7 DEF Next

\* The month, the tallies and what each caller holds keep their types.
THEOREM TypeCorrect == Spec => []TypeOK
<1>1. Init => TypeOK
  BY DEF Init, TypeOK, Stages
<1> QED
  BY <1>1, TypeStep, PTL DEF Spec

\* The pending callers are some of the callers: their number is a natural, and it
\* never exceeds that of the callers.
LEMMA PendingBound ==
    ASSUME NEW m
    PROVE /\ IsFiniteSet(Pending(m))
          /\ Cardinality(Pending(m)) \in Nat
          /\ Cardinality(Callers) \in Nat
          /\ Cardinality(Pending(m)) <= Cardinality(Callers)
<1>1. Pending(m) \subseteq Callers
  BY DEF Pending
<1> QED
  BY <1>1, FS_Subset, FS_CardinalityType

\* Fewer pending callers take less room.
LEMMA PendingMonotone ==
    ASSUME NEW S, NEW T, IsFiniteSet(T), S \subseteq T
    PROVE Cardinality(S) \in Nat /\ Cardinality(T) \in Nat /\ Cardinality(S) <= Cardinality(T)
  BY FS_Subset, FS_CardinalityType

\* A month ahead of the calendar stays blank.
LEMMA FutureStep == TypeOK /\ FutureIsBlank /\ [Next]_vars => FutureIsBlank'
<1> SUFFICES ASSUME TypeOK, FutureIsBlank, [Next]_vars PROVE FutureIsBlank'
  OBVIOUS
<1> USE DEF TypeOK, FutureIsBlank, At
<1>1. ASSUME NEW c \in Callers, Ask(c) PROVE FutureIsBlank'
  BY <1>1 DEF Ask
<1>2. ASSUME NEW c \in Callers, Admit(c) PROVE FutureIsBlank'
  BY <1>2 DEF Admit
<1>3. ASSUME NEW c \in Callers, Stamp(c) PROVE FutureIsBlank'
  BY <1>3 DEF Stamp
<1>4. ASSUME NEW c \in Callers, Record(c) PROVE FutureIsBlank'
  BY <1>4 DEF Record, Tally
<1>5. ASSUME NEW c \in Callers, Drop(c) PROVE FutureIsBlank'
  BY <1>5 DEF Drop
<1>6. CASE NextMonth
  <2>1. month \in Nat /\ month' = month + 1
    BY <1>6 DEF NextMonth
  <2>2. ASSUME NEW m \in Months, m > month' PROVE calls'[m] = 0
    BY <1>6, <2>1, <2>2 DEF NextMonth
  <2>3. ASSUME NEW c \in Callers PROVE period'[c] <= month'
    <3>1. period[c] \in Nat /\ period[c] <= month /\ period' = period
      BY <1>6 DEF NextMonth
    <3> QED
      BY <2>1, <3>1
  <2> QED
    BY <2>2, <2>3
<1>7. CASE UNCHANGED vars
  BY <1>7 DEF vars
<1> QED
  BY <1>1, <1>2, <1>3, <1>4, <1>5, <1>6, <1>7 DEF Next

\* Every step leaves room for the calls that are still pending.
LEMMA RoomStep == TypeOK /\ FutureIsBlank /\ RoomForPending /\ [Next]_vars => RoomForPending'
<1> SUFFICES ASSUME TypeOK, FutureIsBlank, RoomForPending, [Next]_vars,
                    Allowance # Unlimited, NEW m \in Months
             PROVE  calls'[m] + Cardinality(Pending(m)') <= Allowance + Cardinality(Callers) - 1
  BY DEF RoomForPending
<1> DEFINE Fits == calls'[m] + Cardinality(Pending(m)') <= Allowance + Cardinality(Callers) - 1
<1>a. /\ Allowance \in Nat /\ Allowance >= 1
      /\ calls[m] \in Nat
      /\ m \in Nat /\ month \in Nat
  BY DEF TypeOK
<1>b. calls[m] + Cardinality(Pending(m)) <= Allowance + Cardinality(Callers) - 1
  BY DEF RoomForPending
<1>c. /\ IsFiniteSet(Pending(m))
      /\ Cardinality(Pending(m)) \in Nat
      /\ Cardinality(Callers) \in Nat
  BY PendingBound
<1>d. Cardinality(Pending(m)') \in Nat /\ Cardinality(Pending(m)') <= Cardinality(Callers)
  <2>1. Pending(m)' \subseteq Callers
    BY DEF Pending
  <2> QED
    BY <2>1, PendingMonotone
<1>e. ASSUME calls'[m] = calls[m], Pending(m)' \subseteq Pending(m) PROVE Fits
  BY <1>a, <1>b, <1>c, <1>e, PendingMonotone
<1>1. ASSUME NEW c \in Callers, Ask(c) PROVE Fits
  <2>1. calls'[m] = calls[m]
    BY <1>1 DEF Ask
  <2>2. Pending(m)' \subseteq Pending(m)
    BY <1>1 DEF Ask, At, Pending, TypeOK
  <2> QED
    BY <2>1, <2>2, <1>e
<1>2. ASSUME NEW c \in Callers, Admit(c) PROVE Fits
  <2>1. calls'[m] = calls[m] /\ month' = month
    BY <1>2 DEF Admit
  <2>2. CASE m = month /\ period[c] = month
    <3>1. calls[m] <= Allowance - 1
      BY <1>2, <1>a, <2>2 DEF Admit, Allowed
    <3> QED
      BY <3>1, <2>1, <1>a, <1>c, <1>d
  <2>3. CASE ~(m = month /\ period[c] = month)
    <3>1. Pending(m)' \subseteq Pending(m)
      BY <1>2, <2>3 DEF Admit, At, Pending, TypeOK
    <3> QED
      BY <3>1, <2>1, <1>e
  <2> QED
    BY <2>2, <2>3
<1>3. ASSUME NEW c \in Callers, Stamp(c) PROVE Fits
  <2>1. calls'[m] = calls[m]
    BY <1>3 DEF Stamp
  <2>2. Pending(m)' \subseteq Pending(m)
    BY <1>3 DEF Stamp, At, Pending, TypeOK
  <2> QED
    BY <2>1, <2>2, <1>e
<1>4. ASSUME NEW c \in Callers, Record(c) PROVE Fits
  <2>1. CASE period[c] = m
    <3>1. calls'[m] = calls[m] + 1
      BY <1>4, <2>1 DEF Record, Tally, TypeOK
    <3>2. c \in Pending(m) /\ Pending(m)' \subseteq Pending(m) \ {c}
      BY <1>4, <2>1 DEF Record, At, Pending, TypeOK
    <3>3. /\ IsFiniteSet(Pending(m) \ {c})
          /\ Cardinality(Pending(m) \ {c}) = Cardinality(Pending(m)) - 1
      BY <3>2, <1>c, FS_RemoveElement
    <3>4. Cardinality(Pending(m)') <= Cardinality(Pending(m)) - 1
      BY <3>2, <3>3, PendingMonotone
    <3> QED
      BY <3>1, <3>4, <1>a, <1>b, <1>c, <1>d
  <2>2. CASE period[c] # m
    <3>1. calls'[m] = calls[m]
      BY <1>4, <2>2 DEF Record, Tally, TypeOK
    <3>2. Pending(m)' \subseteq Pending(m)
      BY <1>4, <2>2 DEF Record, At, Pending, TypeOK
    <3> QED
      BY <3>1, <3>2, <1>e
  <2> QED
    BY <2>1, <2>2
<1>5. ASSUME NEW c \in Callers, Drop(c) PROVE Fits
  <2>1. calls'[m] = calls[m]
    BY <1>5 DEF Drop
  <2>2. Pending(m)' \subseteq Pending(m)
    BY <1>5 DEF Drop, At, Pending, TypeOK
  <2> QED
    BY <2>1, <2>2, <1>e
<1>6. CASE NextMonth
  <2>1. calls'[m] = calls[m] /\ stage' = stage /\ period' = period /\ month' = month + 1
    BY <1>6 DEF NextMonth
  <2>2. CASE m = month + 1
    <3>1. calls[m] = 0
      BY <2>2, <1>a DEF FutureIsBlank
    <3> QED
      BY <3>1, <2>1, <1>a, <1>c, <1>d
  <2>3. CASE m # month + 1
    <3>1. Pending(m)' \subseteq Pending(m)
      BY <2>1, <2>3 DEF Pending
    <3> QED
      BY <3>1, <2>1, <1>e
  <2> QED
    BY <2>2, <2>3
<1>7. CASE UNCHANGED vars
  <2>1. calls'[m] = calls[m] /\ Pending(m)' = Pending(m)
    BY <1>7 DEF vars, Pending
  <2> QED
    BY <2>1, <1>e
<1> QED
  BY <1>1, <1>2, <1>3, <1>4, <1>5, <1>6, <1>7 DEF Next

IInv == TypeOK /\ FutureIsBlank /\ RoomForPending

\* Nothing is pending before the first call.
LEMMA InitIInv == Init => IInv
<1> SUFFICES ASSUME Init PROVE IInv
  OBVIOUS
<1>1. TypeOK
  BY DEF Init, TypeOK, Stages
<1>2. FutureIsBlank
  BY DEF Init, FutureIsBlank
<1>3. RoomForPending
  <2> SUFFICES ASSUME Allowance # Unlimited, NEW m \in Months
               PROVE  calls[m] + Cardinality(Pending(m)) <= Allowance + Cardinality(Callers) - 1
    BY DEF RoomForPending
  <2>1. calls[m] = 0 /\ Allowance \in Nat /\ Allowance >= 1
    BY DEF Init
  <2> QED
    BY <2>1, PendingBound
<1> QED
  BY <1>1, <1>2, <1>3 DEF IInv

\* A month with room for the pending calls is within the bound.
LEMMA IInvBounds == IInv => OvershootBounded
<1> SUFFICES ASSUME IInv, Allowance # Unlimited, NEW m \in Months
             PROVE  calls[m] <= Allowance + Cardinality(Callers) - 1
  BY DEF OvershootBounded
<1>1. calls[m] + Cardinality(Pending(m)) <= Allowance + Cardinality(Callers) - 1
  BY DEF IInv, RoomForPending
<1>2. calls[m] \in Nat /\ Allowance \in Nat
  BY DEF IInv, TypeOK
<1> QED
  BY <1>1, <1>2, PendingBound

\* For any number of callers, any budget and any number of months, the calls of a
\* month exceed the budget by fewer than can be in progress at once.
THEOREM BudgetHolds == Spec => []OvershootBounded
<1>1. IInv /\ [Next]_vars => IInv'
  BY TypeStep, FutureStep, RoomStep DEF IInv
<1> QED
  BY <1>1, InitIInv, IInvBounds, PTL DEF Spec
=============================================================================
