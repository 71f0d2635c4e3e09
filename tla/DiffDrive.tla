----------------------------- MODULE DiffDrive -----------------------------
(***************************************************************************)
(* DiffDriveService with its two PWM motor drivers, in time.               *)
(*                                                                         *)
(* The service keeps the last commanded speeds, sends them to the motors   *)
(* at most once per tick, drops them when no twist came for a second or an *)
(* emergency is raised, and turns encoder counts into odometry. All of it  *)
(* runs with state_mutex_ held, so a handler is one step here; the steps   *)
(* inside SetDuty and the race with the emergency are in EmergencyChain.   *)
(*                                                                         *)
(* Time passes in units; TickPeriod stands for the 40 ms of                *)
(* tick_schedule_, Timeout for 1'000'000 us and 2^32 us is Wrap units. A   *)
(* time stamp t is kept as its age: now - t, in 0 .. 2 * Wrap - 1, where   *)
(* an age of Wrap or more stands for every older stamp with the same       *)
(* remainder. What the code computes is the age modulo Wrap.               *)
(***************************************************************************)
EXTENDS Integers

CONSTANTS Twist,       \* the wheel speeds a twist can be turned into
          Encoders,    \* the motors whose encoder gives pulses
          TickPeriod, Timeout, Wrap,
          TachoWrap    \* the 2^32 of the tacho counters

Motor == {"left", "right"}
Standstill == [m \in Motor |-> 0]

ASSUME TwistAssumption == Twist \subseteq [Motor -> Int]
ASSUME EncoderAssumption == Encoders \subseteq Motor
ASSUME TimeAssumption == /\ TickPeriod \in Nat \ {0}
                         /\ Timeout \in Nat /\ Timeout >= TickPeriod
                         /\ Wrap \in Nat /\ Wrap > Timeout + TickPeriod
ASSUME TachoAssumption == TachoWrap \in Nat \ {0} /\ TachoWrap % 2 = 0

VARIABLES
  running,     \* the framework has started the service
  tickIn,      \* time until tick_schedule_ is due
  emergency,   \* emergency_service.GetEmergency()
  event,       \* EMERGENCY_CHANGED is on its way to the main thread
  speed,       \* speed_l_, speed_r_
  duty,        \* duty of the motor drivers
  dutySent,    \* duty_sent_
  twistAge,    \* age of last_duty_received_micros_
  tacho,       \* the drivers' tacho counters
  lastValid,   \* last_ticks_valid
  lastTicks,   \* last_ticks_left, last_ticks_right
  report       \* the wheel ticks of the last actual twist sent

\* Auxiliary variables: they record the past for the properties only
VARIABLES
  moved,       \* net encoder pulses since the sample in lastTicks
  sinceStart,  \* ticks since OnStart, up to 2
  settled,     \* ticks since the command or the emergency changed, up to 2
  oldCommand   \* the speeds are from before the last emergency was raised

odoVars == <<tacho, lastValid, lastTicks, report, moved>>
vars == <<running, tickIn, emergency, event, speed, duty, dutySent, twistAge,
          odoVars, sinceStart, settled, oldCommand>>

Age == 0 .. 2 * Wrap - 1
Older(a) == IF a = 2 * Wrap - 1 THEN Wrap ELSE a + 1
UpTo2(n) == IF n = 2 THEN 2 ELSE n + 1

\* What the code computes with uint32_t: now - stamp
Elapsed(a) == a % Wrap

NoReport == [delta |-> Standstill, truth |-> Standstill]

Init ==
  /\ running = FALSE /\ tickIn = 0
  /\ emergency = TRUE /\ event = FALSE
  /\ speed = Standstill /\ duty = Standstill
  /\ dutySent = FALSE
  /\ twistAge \in Age                      \* stamp 0: the time since boot
  /\ tacho = Standstill
  /\ lastValid = FALSE /\ lastTicks = Standstill
  /\ report = NoReport
  /\ moved = Standstill
  /\ sinceStart = 0 /\ settled = 0 /\ oldCommand = FALSE

-----------------------------------------------------------------------------
(* The drive thread *)

\* SetDuty: the commanded speeds, or 0 in an emergency
DutyFor(s) == IF emergency THEN Standstill ELSE s

\* Mutant of OnStart: a speed that was set while the service was stopped stays
OnStartKeepingSpeed ==
  /\ ~running
  /\ running' = TRUE
  /\ tickIn' \in 0 .. TickPeriod
  /\ lastValid' = FALSE
  /\ moved' = Standstill
  /\ sinceStart' = 0 /\ settled' = 0 /\ oldCommand' = FALSE
  /\ UNCHANGED <<emergency, event, speed, duty, dutySent, twistAge, tacho,
                 lastTicks, report>>

OnStart ==
  /\ ~running
  /\ running' = TRUE
  /\ tickIn' \in 0 .. TickPeriod
  /\ speed' = Standstill
  /\ lastValid' = FALSE
  /\ moved' = Standstill
  /\ sinceStart' = 0 /\ settled' = 0 /\ oldCommand' = FALSE
  /\ UNCHANGED <<emergency, event, duty, dutySent, twistAge, tacho, lastTicks,
                 report>>

\* The speeds are forgotten, the motors keep their duty
OnStop ==
  /\ running
  /\ running' = FALSE
  /\ tickIn' = 0
  /\ speed' = Standstill
  /\ lastValid' = FALSE
  /\ moved' = Standstill
  /\ sinceStart' = 0 /\ settled' = 0 /\ oldCommand' = FALSE
  /\ UNCHANGED <<emergency, event, duty, dutySent, twistAge, tacho, lastTicks,
                 report>>

\* Mutant of Signed: the difference stays unsigned
Unsigned(x) == x

\* static_cast<int32_t> of an unsigned difference
Signed(x) == IF x < TachoWrap \div 2 THEN x ELSE x - TachoWrap

\* RequestStatus calls back at once: the second callback finds the other
\* state valid, so every tick processes one pair of states and leaves both
\* invalid; last_valid_esc_state_micros_ is then the time of the tick and the
\* disconnected message is not sent
ProcessStatusUpdate ==
  /\ report' = IF lastValid
               THEN [delta |-> [m \in Motor |->
                                  Signed((tacho[m] - lastTicks[m]) % TachoWrap)],
                     truth |-> moved]
               ELSE report
  /\ lastValid' = TRUE
  /\ lastTicks' = tacho
  /\ moved' = Standstill

\* The last twist is more than a second old
TimedOut == Elapsed(twistAge) > Timeout

\* Mutant of Tick: duty_sent_ is reset only by the tick that sends the duty
TickKeepingDutySent ==
  /\ running /\ tickIn = 0
  /\ tickIn' = TickPeriod
  /\ LET s == IF TimedOut THEN Standstill ELSE speed IN
       /\ speed' = s
       /\ duty' = IF dutySent THEN duty ELSE DutyFor(s)
       /\ oldCommand' = (oldCommand /\ s # Standstill)
  /\ ProcessStatusUpdate
  /\ sinceStart' = UpTo2(sinceStart)
  /\ settled' = UpTo2(settled)
  /\ UNCHANGED <<running, emergency, event, dutySent, twistAge, tacho>>

Tick ==
  /\ running /\ tickIn = 0
  /\ tickIn' = TickPeriod
  /\ LET s == IF TimedOut THEN Standstill ELSE speed IN
       /\ speed' = s
       /\ duty' = IF dutySent THEN duty ELSE DutyFor(s)
       /\ oldCommand' = (oldCommand /\ s # Standstill)
  /\ ProcessStatusUpdate
  /\ dutySent' = FALSE
  /\ sinceStart' = UpTo2(sinceStart)
  /\ settled' = UpTo2(settled)
  /\ UNCHANGED <<running, emergency, event, twistAge, tacho>>

\* A twist of six numbers; any other length changes nothing. The framework
\* may deliver it to a stopped service too: nothing here relies on it not to
OnControlTwistChanged ==
  \E s \in Twist :
    /\ twistAge' = 0
    /\ speed' = s
    /\ duty' = IF dutySent THEN duty ELSE DutyFor(s)
    /\ dutySent' = TRUE
    /\ settled' = 0 /\ oldCommand' = FALSE
    /\ UNCHANGED <<running, tickIn, emergency, event, odoVars, sinceStart>>

-----------------------------------------------------------------------------
(* The emergency service, the main thread, the wheels and the clock *)

\* UpdateEmergency raises an emergency or clears the last one
EmergencyChanges ==
  /\ emergency' = ~emergency
  /\ event' = TRUE
  /\ settled' = 0
  /\ oldCommand' = IF emergency THEN oldCommand ELSE speed # Standstill
  /\ UNCHANGED <<running, tickIn, speed, duty, dutySent, twistAge, odoVars,
                 sinceStart>>

\* The main thread; EmergencyChain has the step between the two reads of the
\* emergency
OnEmergencyChangedEvent ==
  /\ event
  /\ event' = FALSE
  /\ IF emergency
     THEN /\ speed' = Standstill /\ duty' = Standstill /\ dutySent' = TRUE
          /\ oldCommand' = FALSE
     ELSE UNCHANGED <<speed, duty, dutySent, oldCommand>>
  /\ UNCHANGED <<running, tickIn, emergency, twistAge, odoVars, sinceStart,
                 settled>>

\* Mutant of HandleEncoderTick: the counter has no width
HandleEncoderTickUnbounded ==
  \E m \in Encoders, d \in {-1, 1} :
    /\ ~lastValid
    /\ tacho' = [tacho EXCEPT ![m] = @ + d]
    /\ UNCHANGED <<running, tickIn, emergency, event, speed, duty, dutySent,
                   twistAge, lastValid, lastTicks, report, moved, sinceStart,
                   settled, oldCommand>>

\* The interrupt of encoder line A. Between two samples a wheel moves by less
\* than half of the counter's range; while no sample is valid it may wrap
HandleEncoderTick ==
  \E m \in Encoders, d \in {-1, 1} :
    /\ tacho' = [tacho EXCEPT ![m] = (@ + d) % TachoWrap]
    /\ IF lastValid
       THEN /\ moved[m] + d \in 1 - TachoWrap \div 2 .. TachoWrap \div 2 - 1
            /\ moved' = [moved EXCEPT ![m] = @ + d]
       ELSE UNCHANGED moved
    /\ UNCHANGED <<running, tickIn, emergency, event, speed, duty, dutySent,
                   twistAge, lastValid, lastTicks, report, sinceStart, settled,
                   oldCommand>>

\* A due tick is run before time goes on
Clock ==
  /\ running => tickIn > 0
  /\ tickIn' = IF running THEN tickIn - 1 ELSE tickIn
  /\ twistAge' = Older(twistAge)
  /\ UNCHANGED <<running, emergency, event, speed, duty, dutySent, odoVars,
                 sinceStart, settled, oldCommand>>

Next == \/ OnStart \/ OnStop \/ Tick \/ OnControlTwistChanged
        \/ EmergencyChanges \/ OnEmergencyChangedEvent
        \/ HandleEncoderTick \/ Clock

Spec == Init /\ [][Next]_vars

-----------------------------------------------------------------------------
(* Properties *)

Count == 0 .. TachoWrap - 1
Move == 1 - TachoWrap \div 2 .. TachoWrap \div 2 - 1

\* Every variable keeps its type. The counters of the encoders stay in the
\* width of a uint32_t.
TypeOK ==
  /\ running \in BOOLEAN /\ tickIn \in 0 .. TickPeriod
  /\ emergency \in BOOLEAN /\ event \in BOOLEAN
  /\ speed \in Twist \cup {Standstill} /\ duty \in Twist \cup {Standstill}
  /\ dutySent \in BOOLEAN /\ twistAge \in Age
  /\ tacho \in [Motor -> Count] /\ lastTicks \in [Motor -> Count]
  /\ lastValid \in BOOLEAN
  /\ moved \in [Motor -> Move]
  /\ report \in [delta : [Motor -> Int], truth : [Motor -> Move]]
  /\ sinceStart \in 0 .. 2 /\ settled \in 0 .. 2 /\ oldCommand \in BOOLEAN

\* The motors of a running service stand still once no twist came for the
\* timeout and one more tick, whatever was sent before, in the last run of the
\* service or between two ticks, and also after the clock has wrapped. Two
\* ticks of the new run are needed for a duty left over from the last one.
CommandTimeout ==
  running /\ sinceStart = 2 /\ twistAge > Timeout + TickPeriod
    => duty = Standstill

\* Two ticks after the last twist, start or change of the emergency the motors
\* have the commanded duty: the limit of one duty per tick delays a command
\* and never loses it.
CommandArrives ==
  running /\ settled = 2 => duty = DutyFor(speed)

\* A reported movement is the movement since the sample before it, also when a
\* tacho counter wraps and when the wheels turned while the service was
\* stopped.
OdometryExact == report.delta = report.truth

\* "only set speed to 0 if the emergency happens, not if it's cleared": once
\* the main thread has handled the change of the emergency, no speed from
\* before the emergency is left.
EmergencyDropsCommand ==
  running /\ ~event => ~oldCommand

=============================================================================
