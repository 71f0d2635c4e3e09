-------------------------- MODULE DiffDriveProofs --------------------------
(***************************************************************************)
(* DiffDrive for all speeds, periods, timeouts and counter widths: a        *)
(* command does not outlive the timeout, the limit of one duty per tick     *)
(* loses no command, and the odometry is exact across the wrap of the       *)
(* counters.                                                                *)
(***************************************************************************)
EXTENDS DiffDrive, TLAPS

\* The age of the twist when the next tick is due
AgeAtTick == twistAge + tickIn

\* A speed that is kept was set less than a timeout before the last tick
SpeedInv ==
  running /\ speed # Standstill => AgeAtTick <= Timeout + TickPeriod

\* duty_sent_ is of this tick period: of a twist, or of an emergency
SentInv ==
  running /\ sinceStart >= 1 /\ dutySent
    => duty = Standstill \/ AgeAtTick <= TickPeriod

\* From the second tick on a duty comes from the speed that is kept or from a
\* twist of this period
DutyInv ==
  running /\ sinceStart = 2 /\ duty # Standstill
    => AgeAtTick <= Timeout + TickPeriod

\* Once a tick has passed, only an emergency leaves duty_sent_ set, and it has
\* dropped the speeds
ArriveInv ==
  running /\ settled >= 1 /\ dutySent => duty = Standstill /\ speed = Standstill

\* The counters differ from the last sample by the movement since, up to a wrap
OdoInv ==
  lastValid => \A m \in Motor :
                 tacho[m] - lastTicks[m] - moved[m] \in {0 - TachoWrap, 0, TachoWrap}

IInv == TypeOK /\ SpeedInv /\ SentInv /\ DutyInv /\ ArriveInv /\ CommandArrives
        /\ OdoInv /\ OdometryExact

-----------------------------------------------------------------------------

\* The sizes of the counters and of the clock.
LEMMA Sizes ==
  /\ TickPeriod \in Nat /\ Timeout \in Nat /\ Wrap \in Nat
  /\ TickPeriod >= 1 /\ Timeout >= TickPeriod /\ Wrap > Timeout + TickPeriod
  /\ TachoWrap \in Nat /\ TachoWrap \div 2 \in Nat
  /\ TachoWrap = 2 * (TachoWrap \div 2) /\ TachoWrap \div 2 >= 1
<1>1. \A b \in Nat \ {0} : b % 2 = 0 => b = 2 * (b \div 2) /\ b \div 2 \in Nat /\ b \div 2 >= 1
  OBVIOUS
<1> QED
  BY <1>1, TimeAssumption, TachoAssumption

\* A counter stays in its width, and a step of it is a step up to a wrap.
LEMMA CounterStep ==
  ASSUME NEW t \in Count, NEW d \in {-1, 1}
  PROVE  /\ (t + d) % TachoWrap \in Count
         /\ ((t + d) % TachoWrap) - t - d \in {0 - TachoWrap, 0, TachoWrap}
<1>1. \A b \in Nat, a \in Int : 0 <= a /\ a < b => a % b = a
  OBVIOUS
<1>2. \A b \in Nat, a \in Int : b > 0 /\ a = b => a % b = 0
  OBVIOUS
<1>3. \A b \in Nat, a \in Int : b > 0 /\ a = -1 => a % b = b - 1
  OBVIOUS
<1>4. TachoWrap \in Nat /\ TachoWrap > 0 /\ t \in Int /\ 0 <= t /\ t < TachoWrap /\ t + d \in Int
  BY Sizes DEF Count
<1>5. CASE t + d = TachoWrap
  BY <1>2, <1>4, <1>5 DEF Count
<1>6. CASE t + d = -1
  BY <1>3, <1>4, <1>6 DEF Count
<1>7. CASE 0 <= t + d /\ t + d < TachoWrap
  BY <1>1, <1>4, <1>7 DEF Count
<1> QED
  BY <1>4, <1>5, <1>6, <1>7

\* The signed difference of two samples is the movement between them, when
\* that is less than half of the counter's range.
LEMMA SignedDifference ==
  ASSUME NEW t \in Count, NEW l \in Count, NEW mv \in Move,
         t - l - mv \in {0 - TachoWrap, 0, TachoWrap}
  PROVE  Signed((t - l) % TachoWrap) = mv
<1> DEFINE x == (t - l) % TachoWrap
<1> DEFINE h == TachoWrap \div 2
<1>1. \A b \in Nat, a \in Int : 0 <= a /\ a < b => a % b = a
  OBVIOUS
<1>2. \A b \in Nat, a \in Int : 0 - b <= a /\ a < 0 => a % b = a + b
  OBVIOUS
<1>3. /\ t - l \in Int /\ t - l < TachoWrap /\ 0 - TachoWrap < t - l
      /\ mv \in Int /\ 1 - h <= mv /\ mv <= h - 1
      /\ h \in Nat /\ TachoWrap = 2 * h /\ TachoWrap \in Nat
  BY Sizes DEF Count, Move
<1>4. x \in Int /\ 0 <= x /\ x < TachoWrap
      /\ (x = t - l \/ x = t - l + TachoWrap)
  <2>1. CASE t - l >= 0
    BY <1>1, <1>3, <2>1
  <2>2. CASE t - l < 0
    BY <1>2, <1>3, <2>2
  <2> QED
    BY <1>3, <2>1, <2>2
<1>5. x = mv \/ x = mv + TachoWrap
  <2> HIDE DEF x, h
  <2> QED
    BY <1>3, <1>4
<1>6. Signed(x) = IF x < h THEN x ELSE x - TachoWrap
  BY DEF Signed
<1> HIDE DEF x, h
<1>7. Signed(x) = mv
  BY <1>3, <1>4, <1>5, <1>6
<1> QED
  BY <1>7 DEF x

\* The initial states satisfy the invariant.
LEMMA InitIInv == Init => IInv
<1> SUFFICES ASSUME Init
             PROVE  IInv
  OBVIOUS
<1>1. TypeOK
  <2>1. 0 \in Count /\ 0 \in Move /\ 0 \in 0 .. TickPeriod /\ 0 \in 0 .. 2
    BY Sizes DEF Count, Move
  <2>2. Standstill \in [Motor -> Count] /\ Standstill \in [Motor -> Move] /\ Standstill \in [Motor -> Int]
    BY <2>1 DEF Standstill
  <2>3. NoReport \in [delta : [Motor -> Int], truth : [Motor -> Move]]
    BY <2>2 DEF NoReport
  <2> QED
    BY <2>1, <2>2, <2>3, Zenon DEF Init, TypeOK
<1>2. SpeedInv /\ SentInv /\ DutyInv /\ ArriveInv /\ CommandArrives /\ OdoInv
  BY DEF Init, SpeedInv, SentInv, DutyInv, ArriveInv, CommandArrives, OdoInv
<1>3. OdometryExact
  BY DEF Init, OdometryExact, NoReport
<1> QED
  BY <1>1, <1>2, <1>3 DEF IInv

\* Every action keeps the types.
LEMMA NextKeepsTypeOK ==
  ASSUME TypeOK, Next
  PROVE  TypeOK'
<1> USE Sizes
<1>1. Standstill \in [Motor -> Move] /\ 0 \in 0 .. 2
  BY DEF Standstill, Move
<1>2. CASE OnStart
  BY <1>1, <1>2, Zenon DEF TypeOK, OnStart
<1>3. CASE OnStop
  <2>1. tickIn' \in 0 .. TickPeriod
    BY <1>3 DEF OnStop
  <2> QED
    BY <1>1, <1>3, <2>1, Zenon DEF TypeOK, OnStop
<1>4. CASE Tick
  <2>1. tickIn' \in 0 .. TickPeriod /\ sinceStart' \in 0 .. 2 /\ settled' \in 0 .. 2
    BY <1>4 DEF TypeOK, Tick, UpTo2
  <2>2. speed' \in Twist \cup {Standstill} /\ duty' \in Twist \cup {Standstill}
    BY <1>4 DEF TypeOK, Tick, DutyFor
  <2>3. report' \in [delta : [Motor -> Int], truth : [Motor -> Move]]
    <3>1. \A m \in Motor : Signed((tacho[m] - lastTicks[m]) % TachoWrap) \in Int
      <4>1. \A a \in Int, b \in Nat \ {0} : a % b \in Int
        OBVIOUS
      <4>2. \A m \in Motor : tacho[m] - lastTicks[m] \in Int
        BY DEF TypeOK, Count
      <4>3. \A x \in Int : Signed(x) \in Int
        BY DEF Signed
      <4> QED
        BY <4>1, <4>2, <4>3, TachoAssumption
    <3> QED
      BY <3>1, <1>4 DEF TypeOK, Tick, ProcessStatusUpdate
  <2>4. oldCommand' \in BOOLEAN /\ dutySent' \in BOOLEAN
    BY <1>4 DEF Tick
  <2> QED
    BY <1>1, <1>4, <2>1, <2>2, <2>3, <2>4 DEF TypeOK, Tick, ProcessStatusUpdate
<1>5. CASE OnControlTwistChanged
  <2>1. twistAge' \in Age /\ settled' \in 0 .. 2
    BY <1>5 DEF OnControlTwistChanged, Age
  <2>2. speed' \in Twist \cup {Standstill} /\ duty' \in Twist \cup {Standstill}
    BY <1>5 DEF TypeOK, OnControlTwistChanged, DutyFor
  <2> QED
    BY <1>5, <2>1, <2>2 DEF TypeOK, OnControlTwistChanged, odoVars
<1>6. CASE EmergencyChanges
  <2>1. emergency' \in BOOLEAN /\ oldCommand' \in BOOLEAN
    BY <1>6, Zenon DEF TypeOK, EmergencyChanges
  <2> QED
    BY <1>1, <1>6, <2>1 DEF TypeOK, EmergencyChanges, odoVars
<1>7. CASE OnEmergencyChangedEvent
  BY <1>7 DEF TypeOK, OnEmergencyChangedEvent, odoVars
<1>8. CASE HandleEncoderTick
  <2>1. PICK m \in Encoders, d \in {-1, 1} :
          /\ tacho' = [tacho EXCEPT ![m] = (@ + d) % TachoWrap]
          /\ IF lastValid
             THEN /\ moved[m] + d \in 1 - TachoWrap \div 2 .. TachoWrap \div 2 - 1
                  /\ moved' = [moved EXCEPT ![m] = @ + d]
             ELSE UNCHANGED moved
    BY <1>8 DEF HandleEncoderTick
  <2>2. m \in Motor /\ tacho[m] \in Count
    BY EncoderAssumption DEF TypeOK
  <2>3. tacho' \in [Motor -> Count]
    BY <2>1, <2>2, CounterStep DEF TypeOK
  <2>4. moved' \in [Motor -> Move]
    BY <2>1, <2>2 DEF TypeOK, Move
  <2> QED
    BY <1>8, <2>3, <2>4 DEF TypeOK, HandleEncoderTick
<1>9. CASE Clock
  <2>1. twistAge' \in Age
    BY <1>9 DEF TypeOK, Clock, Age, Older
  <2>2. tickIn' \in 0 .. TickPeriod
    BY <1>9 DEF TypeOK, Clock
  <2> QED
    BY <1>9, <2>1, <2>2 DEF TypeOK, Clock, odoVars
<1> QED
  BY <1>2, <1>3, <1>4, <1>5, <1>6, <1>7, <1>8, <1>9 DEF Next

\* Every action keeps the age of a speed, of a sent duty and of the duty.
LEMMA NextKeepsAges ==
  ASSUME TypeOK, SpeedInv, SentInv, DutyInv, Next
  PROVE  SpeedInv' /\ SentInv' /\ DutyInv'
<1> USE Sizes DEF AgeAtTick
<1>1. twistAge \in Nat /\ tickIn \in Nat /\ tickIn <= TickPeriod /\ twistAge < 2 * Wrap
  BY DEF TypeOK, Age
<1>2. CASE OnStart
  BY <1>2 DEF OnStart, SpeedInv, SentInv, DutyInv
<1>3. CASE OnStop
  BY <1>3 DEF OnStop, SpeedInv, SentInv, DutyInv
<1>4. CASE Tick
  <2>1. running /\ tickIn = 0 /\ tickIn' = TickPeriod /\ twistAge' = twistAge /\ dutySent' = FALSE
    BY <1>4 DEF Tick
  <2>2. AgeAtTick' = twistAge + TickPeriod /\ AgeAtTick = twistAge
    BY <1>1, <2>1
  <2>3. ASSUME speed' # Standstill
        PROVE  AgeAtTick' <= Timeout + TickPeriod
    <3>1. speed # Standstill /\ ~TimedOut
      BY <1>4, <2>3 DEF Tick
    <3>2. twistAge <= Timeout + TickPeriod
      BY <2>1, <2>2, <3>1 DEF SpeedInv
    <3>3. \A b \in Nat, a \in Nat : a < b => a % b = a
      OBVIOUS
    <3>4. twistAge <= Timeout
      BY <1>1, <3>1, <3>2, <3>3 DEF TimedOut, Elapsed
    <3> QED
      BY <1>1, <2>2, <3>4
  <2>4. ASSUME sinceStart' = 2, duty' # Standstill
        PROVE  AgeAtTick' <= Timeout + TickPeriod
    <3>1. sinceStart >= 1
      BY <1>4, <2>4 DEF Tick, UpTo2, TypeOK
    <3>2. CASE dutySent
      <4>1. duty # Standstill
        BY <1>4, <2>4, <3>2 DEF Tick
      <4>2. twistAge <= TickPeriod
        BY <2>1, <2>2, <3>1, <3>2, <4>1 DEF SentInv
      <4> QED
        BY <1>1, <2>2, <4>2
    <3>3. CASE ~dutySent
      BY <1>4, <2>3, <2>4, <3>3 DEF Tick, DutyFor
    <3> QED
      BY <3>2, <3>3
  <2> QED
    BY <2>1, <2>3, <2>4 DEF SpeedInv, SentInv, DutyInv
<1>5. CASE OnControlTwistChanged
  <2>1. twistAge' = 0 /\ tickIn' = tickIn
    BY <1>5 DEF OnControlTwistChanged
  <2>2. AgeAtTick' <= TickPeriod /\ AgeAtTick' <= Timeout + TickPeriod
    BY <1>1, <2>1
  <2> QED
    BY <2>2 DEF SpeedInv, SentInv, DutyInv
<1>6. CASE EmergencyChanges
  BY <1>6 DEF EmergencyChanges, SpeedInv, SentInv, DutyInv
<1>7. CASE OnEmergencyChangedEvent
  BY <1>7 DEF OnEmergencyChangedEvent, SpeedInv, SentInv, DutyInv
<1>8. CASE HandleEncoderTick
  BY <1>8 DEF HandleEncoderTick, SpeedInv, SentInv, DutyInv
<1>9. CASE Clock
  <2>1. UNCHANGED <<running, speed, duty, dutySent, sinceStart>>
    BY <1>9 DEF Clock
  <2>2. CASE running
    <3>1. tickIn' = tickIn - 1 /\ (twistAge' = twistAge + 1 \/ twistAge = 2 * Wrap - 1)
      BY <1>1, <1>9, <2>2 DEF Clock, Older
    <3>2. \A l \in {TickPeriod, Timeout + TickPeriod} : AgeAtTick <= l => AgeAtTick' <= l
      <4>1. CASE twistAge = 2 * Wrap - 1
        BY <1>1, <4>1
      <4>2. CASE twistAge' = twistAge + 1
        BY <1>1, <3>1, <4>2
      <4> QED
        BY <3>1, <4>1, <4>2
    <3> HIDE DEF AgeAtTick
    <3> QED
      BY <2>1, <3>2 DEF SpeedInv, SentInv, DutyInv
  <2>3. CASE ~running
    BY <2>1, <2>3 DEF SpeedInv, SentInv, DutyInv
  <2> QED
    BY <2>2, <2>3
<1> QED
  BY <1>2, <1>3, <1>4, <1>5, <1>6, <1>7, <1>8, <1>9 DEF Next

\* Every action keeps that a command arrives within two ticks.
LEMMA NextKeepsArrival ==
  ASSUME TypeOK, ArriveInv, CommandArrives, Next
  PROVE  ArriveInv' /\ CommandArrives'
<1> USE DEF ArriveInv, CommandArrives, DutyFor
<1>1. CASE OnStart
  BY <1>1 DEF OnStart
<1>2. CASE OnStop
  BY <1>2 DEF OnStop
<1>3. CASE Tick
  <2>1. running /\ dutySent' = FALSE /\ emergency' = emergency
    BY <1>3 DEF Tick
  <2>2. ASSUME settled' = 2
        PROVE  duty' = IF emergency THEN Standstill ELSE speed'
    <3>1. settled >= 1
      BY <1>3, <2>2 DEF Tick, UpTo2, TypeOK
    <3>2. CASE dutySent
      BY <1>3, <2>1, <3>1, <3>2 DEF Tick
    <3>3. CASE ~dutySent
      BY <1>3, <3>3 DEF Tick
    <3> QED
      BY <3>2, <3>3
  <2> QED
    BY <2>1, <2>2
<1>4. CASE OnControlTwistChanged
  BY <1>4 DEF OnControlTwistChanged
<1>5. CASE EmergencyChanges
  BY <1>5 DEF EmergencyChanges
<1>6. CASE OnEmergencyChangedEvent
  BY <1>6 DEF OnEmergencyChangedEvent
<1>7. CASE HandleEncoderTick
  BY <1>7 DEF HandleEncoderTick
<1>8. CASE Clock
  BY <1>8 DEF Clock
<1> QED
  BY <1>1, <1>2, <1>3, <1>4, <1>5, <1>6, <1>7, <1>8 DEF Next

\* Every action keeps the counters in step with the movement.
LEMMA NextKeepsOdometry ==
  ASSUME TypeOK, OdoInv, OdometryExact, Next
  PROVE  OdoInv' /\ OdometryExact'
<1>1. CASE OnStart
  BY <1>1 DEF OnStart, OdoInv, OdometryExact
<1>2. CASE OnStop
  BY <1>2 DEF OnStop, OdoInv, OdometryExact
<1>3. CASE Tick
  <2>1. OdoInv'
    <3>1. /\ tacho' = tacho /\ lastTicks' = tacho /\ moved' = Standstill
          /\ \A m \in Motor : tacho[m] \in Int
      BY <1>3 DEF Tick, ProcessStatusUpdate, TypeOK, Count
    <3>2. \A m \in Motor : tacho[m] - tacho[m] - 0 = 0 /\ Standstill[m] = 0
      BY <3>1 DEF Standstill
    <3> QED
      BY <3>1, <3>2 DEF OdoInv
  <2>2. OdometryExact'
    <3>1. CASE lastValid
      <4>1. \A m \in Motor : Signed((tacho[m] - lastTicks[m]) % TachoWrap) = moved[m]
        BY <3>1, SignedDifference DEF TypeOK, OdoInv
      <4>2. [m \in Motor |-> Signed((tacho[m] - lastTicks[m]) % TachoWrap)] = moved
        BY <4>1 DEF TypeOK
      <4> QED
        BY <1>3, <3>1, <4>2 DEF Tick, ProcessStatusUpdate, OdometryExact
    <3>2. CASE ~lastValid
      BY <1>3, <3>2 DEF Tick, ProcessStatusUpdate, OdometryExact
    <3> QED
      BY <3>1, <3>2
  <2> QED
    BY <2>1, <2>2
<1>4. CASE OnControlTwistChanged
  BY <1>4 DEF OnControlTwistChanged, odoVars, OdoInv, OdometryExact
<1>5. CASE EmergencyChanges
  BY <1>5 DEF EmergencyChanges, odoVars, OdoInv, OdometryExact
<1>6. CASE OnEmergencyChangedEvent
  BY <1>6 DEF OnEmergencyChangedEvent, odoVars, OdoInv, OdometryExact
<1>7. CASE HandleEncoderTick
  <2>1. PICK m \in Encoders, d \in {-1, 1} :
          /\ tacho' = [tacho EXCEPT ![m] = (@ + d) % TachoWrap]
          /\ IF lastValid
             THEN /\ moved[m] + d \in 1 - TachoWrap \div 2 .. TachoWrap \div 2 - 1
                  /\ moved' = [moved EXCEPT ![m] = @ + d]
             ELSE UNCHANGED moved
          /\ UNCHANGED <<lastValid, lastTicks, report>>
    BY <1>7 DEF HandleEncoderTick
  <2>2. OdometryExact'
    BY <2>1 DEF OdometryExact
  <2>3. ASSUME lastValid, NEW k \in Motor
        PROVE  tacho'[k] - lastTicks[k] - moved'[k] \in {0 - TachoWrap, 0, TachoWrap}
    <3>1. /\ tacho[k] \in Count /\ lastTicks[k] \in Count /\ moved[k] \in Move
          /\ tacho[k] - lastTicks[k] - moved[k] \in {0 - TachoWrap, 0, TachoWrap}
      BY <2>3 DEF TypeOK, OdoInv
    <3>2. CASE k = m
      <4> DEFINE t == (tacho[k] + d) % TachoWrap
      <4>1. tacho'[k] = t /\ moved'[k] = moved[k] + d /\ moved[k] + d \in Move
        BY <2>1, <2>3, <3>2 DEF TypeOK, Move
      <4>2. t \in Count /\ t - tacho[k] - d \in {0 - TachoWrap, 0, TachoWrap}
        BY <3>1, CounterStep
      <4> HIDE DEF t
      <4>3. t - lastTicks[k] - (moved[k] + d) \in {0 - TachoWrap, 0, TachoWrap}
        BY <3>1, <4>1, <4>2, Sizes DEF Count, Move
      <4> QED
        BY <4>1, <4>3
    <3>3. CASE k # m
      BY <2>1, <2>3, <3>1, <3>3 DEF TypeOK
    <3> QED
      BY <3>2, <3>3
  <2> QED
    BY <2>1, <2>2, <2>3 DEF OdoInv
<1>8. CASE Clock
  BY <1>8 DEF Clock, odoVars, OdoInv, OdometryExact
<1> QED
  BY <1>1, <1>2, <1>3, <1>4, <1>5, <1>6, <1>7, <1>8 DEF Next

\* IInv is an invariant of the specification.
THEOREM InductiveInvariant == Spec => []IInv
<1>1. IInv /\ Next => IInv'
  BY NextKeepsTypeOK, NextKeepsAges, NextKeepsArrival, NextKeepsOdometry DEF IInv
<1>2. IInv /\ UNCHANGED vars => IInv'
  BY DEF IInv, TypeOK, SpeedInv, SentInv, DutyInv, ArriveInv, CommandArrives,
         OdoInv, OdometryExact, AgeAtTick, DutyFor, vars, odoVars
<1>3. IInv /\ [Next]_vars => IInv'
  BY <1>1, <1>2
<1> QED
  BY <1>3, InitIInv, PTL DEF Spec

\* The types hold for every set of speeds and every width.
THEOREM TypeCorrect == Spec => []TypeOK
<1>1. IInv => TypeOK
  BY DEF IInv
<1> QED
  BY <1>1, InductiveInvariant, PTL

\* The motors stand still a tick after the timeout, for every timeout of at
\* least a tick period and every width of the clock above their sum.
THEOREM CommandsTimeOut == Spec => []CommandTimeout
<1>1. ASSUME IInv, running, sinceStart = 2, twistAge > Timeout + TickPeriod
      PROVE  duty = Standstill
  <2>1. /\ twistAge \in Nat /\ tickIn \in Nat /\ TickPeriod \in Nat /\ Timeout \in Nat
        /\ DutyInv
    BY <1>1, Sizes DEF IInv, TypeOK, Age
  <2>2. ~(AgeAtTick <= Timeout + TickPeriod)
    BY <1>1, <2>1 DEF AgeAtTick
  <2> QED
    BY <1>1, <2>1, <2>2 DEF DutyInv
<1>2. IInv => CommandTimeout
  BY <1>1 DEF CommandTimeout
<1> QED
  BY <1>2, InductiveInvariant, PTL

\* A command is delayed by the limit of one duty per tick and never lost.
THEOREM CommandsArrive == Spec => []CommandArrives
<1>1. IInv => CommandArrives
  BY DEF IInv
<1> QED
  BY <1>1, InductiveInvariant, PTL

\* The reported movement is the real one for every even width of the counters,
\* as long as the wheels turn less than half of it between two samples.
THEOREM OdometryIsExact == Spec => []OdometryExact
<1>1. IInv => OdometryExact
  BY DEF IInv
<1> QED
  BY <1>1, InductiveInvariant, PTL

=============================================================================
