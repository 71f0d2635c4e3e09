------------------------- MODULE PowerServiceProofs -------------------------
(***************************************************************************)
(* PowerService for every limit of low readings and every watchdog period:  *)
(* whatever transfers fail, a configured charger is programmed and the line *)
(* of the high level computer is cleared only after low readings in a row.  *)
(***************************************************************************)
EXTENDS PowerService, SequenceTheorems, TLAPS

\* critical_count counts the low readings since the last good one, and the
\* line is off only with a full count
CountInv ==
  /\ critical <= Len(readings)
  /\ \A i \in 1..Len(readings) : i > Len(readings) - critical => readings[i] = "low"
  /\ ~line => critical = CriticalCount + 1

IInv == TypeOK /\ ConfiguredMeansProgrammed /\ CountInv

-----------------------------------------------------------------------------

\* What is remembered: the last readings, with the new one at the end.
LEMMA RememberProperties ==
  ASSUME TypeOK, NEW r \in Volts
  PROVE  /\ Remember(r) \in Seq(Volts)
         /\ Len(Remember(r)) = IF Len(readings) <= CriticalCount
                               THEN Len(readings) + 1 ELSE Len(readings)
         /\ Remember(r)[Len(Remember(r))] = r
         /\ \A i \in 1..(Len(Remember(r)) - 1) :
              Remember(r)[i] = IF Len(readings) <= CriticalCount
                               THEN readings[i] ELSE readings[i + 1]
<1>1. readings \in Seq(Volts) /\ Len(readings) \in Nat /\ CriticalCount \in Nat
  BY CriticalAssumption DEF TypeOK
<1>2. CASE Len(readings) <= CriticalCount
  <2>1. Remember(r) = Append(readings, r)
    BY <1>2 DEF Remember
  <2> QED
    BY <1>1, <1>2, <2>1
<1>3. CASE ~(Len(readings) <= CriticalCount)
  <2>1. Remember(r) = Append(Tail(readings), r) /\ readings # <<>>
    BY <1>1, <1>3 DEF Remember
  <2>2. /\ Tail(readings) \in Seq(Volts) /\ Len(Tail(readings)) = Len(readings) - 1
        /\ \A i \in 1..Len(Tail(readings)) : Tail(readings)[i] = readings[i + 1]
    BY <1>1, <2>1
  <2> QED
    BY <1>1, <1>3, <2>1, <2>2
<1> QED
  BY <1>2, <1>3

\* A round that counts its reading keeps the count.
LEMMA CountFollows ==
  ASSUME IInv, NEW r \in Volts, CountReading(r), readings' = Remember(r)
  PROVE  /\ CountInv'
         /\ critical' \in 0..(CriticalCount + 1) /\ line' \in BOOLEAN
         /\ readings' \in Seq(Volts) /\ Len(readings') <= CriticalCount + 1
<1> DEFINE n == Len(readings)
<1>1. /\ n \in Nat /\ CriticalCount \in Nat /\ critical \in Nat
      /\ critical <= CriticalCount + 1 /\ n <= CriticalCount + 1
  BY CriticalAssumption DEF IInv, TypeOK
<1>2. /\ readings' \in Seq(Volts)
      /\ Len(readings') = IF n <= CriticalCount THEN n + 1 ELSE n
      /\ readings'[Len(readings')] = r
      /\ \A i \in 1..(Len(readings') - 1) :
           readings'[i] = IF n <= CriticalCount THEN readings[i] ELSE readings[i + 1]
  BY RememberProperties DEF IInv
<1>3. CASE r = "low"
  <2>1. critical' = IF critical > CriticalCount THEN critical ELSE critical + 1
    BY <1>3 DEF CountReading
  <2>2. critical' \in 0..(CriticalCount + 1) /\ critical' <= Len(readings')
    BY <1>1, <1>2, <2>1 DEF IInv, CountInv
  <2>3. \A i \in 1..Len(readings') : i > Len(readings') - critical' => readings'[i] = "low"
    <3> SUFFICES ASSUME NEW i \in 1..Len(readings'), i > Len(readings') - critical'
                 PROVE  readings'[i] = "low"
      OBVIOUS
    <3>1. CASE i = Len(readings')
      BY <3>1, <1>2, <1>3
    <3>2. CASE i # Len(readings') /\ n <= CriticalCount
      <4>1. i \in 1..n /\ i > n - critical /\ readings'[i] = readings[i]
        BY <3>2, <1>1, <1>2, <2>1 DEF IInv, CountInv
      <4> QED
        BY <4>1 DEF IInv, CountInv
    <3>3. CASE i # Len(readings') /\ ~(n <= CriticalCount)
      <4>1. i + 1 \in 1..n /\ i + 1 > n - critical /\ readings'[i] = readings[i + 1]
        BY <3>3, <1>1, <1>2, <2>1
      <4> QED
        BY <4>1 DEF IInv, CountInv
    <3> QED
      BY <3>1, <3>2, <3>3
  <2>4. (critical > CriticalCount => critical' > CriticalCount)
        /\ (critical' > CriticalCount => critical' = CriticalCount + 1)
        /\ (critical = CriticalCount + 1 => critical > CriticalCount)
    BY <1>1, <2>1, <2>2
  <2>5. line' = IF critical' > CriticalCount THEN FALSE ELSE line
    BY <1>3 DEF CountReading
  <2>6. (~line' => critical' = CriticalCount + 1) /\ line' \in BOOLEAN
    <3>1. (~line => critical = CriticalCount + 1) /\ line \in BOOLEAN
      BY DEF IInv, CountInv, TypeOK
    <3> QED
      BY <3>1, <2>4, <2>5, Zenon
  <2> QED
    BY <1>1, <1>2, <2>2, <2>3, <2>6 DEF CountInv
<1>4. CASE r # "low"
  <2>1. critical' = 0 /\ line' = TRUE
    BY <1>4 DEF CountReading
  <2> QED
    BY <1>1, <1>2, <2>1 DEF CountInv
<1> QED
  BY <1>3, <1>4

\* A charger that was configured with success has all its registers.
LEMMA SuccessPrograms ==
  ASSUME NEW good \in Outcomes, Success(good)
  PROVE  Register \subseteq Made(good) \cap good
BY DEF Outcomes, Success, Made, Transfers, InitTransfers, Register

-----------------------------------------------------------------------------

\* The initial state satisfies the invariant.
LEMMA InitIInv == Init => IInv
<1> SUFFICES ASSUME Init PROVE IInv
  OBVIOUS
<1>1. readings \in Seq(Volts) /\ Len(readings) = 0
  BY DEF Init
<1>2. TypeOK
  <2>1. /\ critical \in 0..(CriticalCount + 1) /\ watchdog \in 0..WatchdogPeriod
        /\ Len(readings) <= CriticalCount + 1
    BY <1>1, CriticalAssumption, WatchdogAssumption DEF Init
  <2> QED
    BY <1>1, <2>1 DEF Init, TypeOK
<1>3. ConfiguredMeansProgrammed /\ CountInv
  BY <1>1 DEF Init, ConfiguredMeansProgrammed, CountInv
<1> QED
  BY <1>2, <1>3 DEF IInv

\* Every step keeps the invariant.
LEMMA NextKeepsIInv == ASSUME IInv, Next PROVE IInv'
<1> USE DEF IInv
<1>1. CASE OnStart
  BY <1>1 DEF OnStart, TypeOK, ConfiguredMeansProgrammed, CountInv
<1>2. ASSUME NEW good \in Outcomes, NEW arrived \in SUBSET (Made(good) \ good),
             ConfigureWith(good, arrived)
      PROVE  IInv'
  <2> USE <1>2 DEF ConfigureWith
  <2>1. registers' \subseteq Register
    BY DEF TypeOK
  <2>2. TypeOK'
    BY <2>1 DEF TypeOK, Success
  <2>3. configured' => registers' = Register
    BY <2>1, SuccessPrograms
  <2>4. ConfiguredMeansProgrammed' /\ CountInv'
    BY <2>3 DEF ConfiguredMeansProgrammed, CountInv
  <2> QED
    BY <2>2, <2>4
<1>3. CASE MonitorFails
  <2> USE <1>3 DEF MonitorFails
  <2>1. watchdog' \in 0..WatchdogPeriod
    BY WatchdogAssumption DEF TypeOK
  <2>2. TypeOK'
    BY <2>1 DEF TypeOK
  <2>3. ConfiguredMeansProgrammed' /\ CountInv'
    BY DEF ConfiguredMeansProgrammed, CountInv
  <2> QED
    BY <2>2, <2>3
<1>4. CASE MonitorSucceeds
  <2> USE <1>4 DEF MonitorSucceeds
  <2>1. /\ CountInv'
        /\ critical' \in 0..(CriticalCount + 1) /\ line' \in BOOLEAN
        /\ readings' \in Seq(Volts) /\ Len(readings') <= CriticalCount + 1
    <3>1. PICK r \in Volts : CountReading(r) /\ readings' = Remember(r)
      OBVIOUS
    <3> QED
      BY <3>1, CountFollows
  <2>2. TypeOK'
    BY <2>1, WatchdogAssumption DEF TypeOK
  <2>3. ConfiguredMeansProgrammed'
    BY DEF ConfiguredMeansProgrammed
  <2> QED
    BY <2>1, <2>2, <2>3
<1>5. CASE BatteryChanges
  BY <1>5 DEF BatteryChanges, TypeOK, ConfiguredMeansProgrammed, CountInv
<1>6. CASE WatchdogCounts
  BY <1>6, WatchdogAssumption
     DEF WatchdogCounts, TypeOK, ConfiguredMeansProgrammed, CountInv
<1>7. CASE WatchdogExpires
  BY <1>7, WatchdogAssumption
     DEF WatchdogExpires, TypeOK, ConfiguredMeansProgrammed, CountInv
<1> QED
  BY <1>1, <1>2, <1>3, <1>4, <1>5, <1>6, <1>7 DEF Next, Configure, Monitor

\* IInv is an invariant of the specification.
THEOREM InductiveInvariant == Spec => []IInv
<1>1. IInv /\ UNCHANGED vars => IInv'
  BY DEF IInv, TypeOK, ConfiguredMeansProgrammed, CountInv, vars
<1>2. IInv /\ [Next]_vars => IInv'
  BY <1>1, NextKeepsIInv
<1> QED
  BY <1>2, InitIInv, PTL DEF Spec

\* The types hold for every limit and every watchdog period.
THEOREM TypeCorrect == Spec => []TypeOK
<1>1. IInv => TypeOK
  BY DEF IInv
<1> QED
  BY <1>1, InductiveInvariant, PTL

\* A charger that counts as configured has all its registers, whichever
\* transfers failed or arrived before.
THEOREM ConfiguredIsProgrammed == Spec => []ConfiguredMeansProgrammed
<1>1. IInv => ConfiguredMeansProgrammed
  BY DEF IInv
<1> QED
  BY <1>1, InductiveInvariant, PTL

\* The output bit of the high level computer's line is cleared only after one low
\* reading more than the limit, in a row, for every limit: with the 10 of
\* charger_tick as with the 4 of the run.
THEOREM CutIsOnlyWhenLow == Spec => []CutOnlyWhenLow
<1>1. ASSUME IInv, critical = CriticalCount + 1
      PROVE  Len(readings) = CriticalCount + 1 /\ \A i \in DOMAIN readings : readings[i] = "low"
  <2>1. /\ Len(readings) \in Nat /\ CriticalCount \in Nat
        /\ Len(readings) <= CriticalCount + 1 /\ critical <= Len(readings)
        /\ DOMAIN readings = 1..Len(readings)
        /\ critical = CriticalCount + 1
    BY <1>1, CriticalAssumption DEF IInv, TypeOK, CountInv
  <2>2. \A n, c \in Nat : n <= c + 1 /\ c + 1 <= n
                           => n = c + 1 /\ \A i \in 1..n : i > n - (c + 1)
    OBVIOUS
  <2>3. Len(readings) = CriticalCount + 1 /\ \A i \in 1..Len(readings) : i > Len(readings) - critical
    <3>1. Len(readings) <= CriticalCount + 1 /\ CriticalCount + 1 <= Len(readings)
      BY <2>1
    <3>2. /\ Len(readings) = CriticalCount + 1
          /\ \A i \in 1..Len(readings) : i > Len(readings) - (CriticalCount + 1)
      BY <2>1, <2>2, <3>1
    <3> QED
      BY <2>1, <3>2
  <2> QED
    BY <1>1, <2>1, <2>3 DEF IInv, CountInv
<1>2. IInv => CutOnlyWhenLow
  BY <1>1, Zenon DEF IInv, CountInv, CutOnlyWhenLow
<1> QED
  BY <1>2, InductiveInvariant, PTL

=============================================================================
