---------------------------- MODULE PowerService ----------------------------
(***************************************************************************)
(* PowerService and the BQ2579 charger on the I2C bus.                     *)
(*                                                                         *)
(* Every second charger_tick configures the charger, or monitors it when   *)
(* it is configured. A transfer on the bus may fail at any place; a failed *)
(* write may have reached the chip or not. The chip forgets its registers  *)
(* when its watchdog is not reset in time, and with them that its ADC is   *)
(* on. After more than CriticalCount low readings of the battery the       *)
(* service clears LINE_HIGH_LEVEL_GLOBAL_EN, a good reading sets it.       *)
(*                                                                         *)
(* That line is modelled as its output bit, which is all that the code     *)
(* changes: board.h makes the pin a floating input and nothing makes it an *)
(* output, so the bit does not reach the pin, and what is said of it here  *)
(* says nothing of the power of the high level computer.                   *)
(*                                                                         *)
(* The service runs in one thread and no other thread talks to the charger *)
(* so a handler is one step.                                               *)
(***************************************************************************)
EXTENDS Naturals, Sequences

CONSTANTS CriticalCount,   \* 10 in charger_tick
          WatchdogPeriod   \* what the chip waits for, in time units

ASSUME CriticalAssumption == CriticalCount \in Nat
ASSUME WatchdogAssumption == WatchdogPeriod \in Nat \ {0}

VARIABLES
  configured,   \* charger_configured_
  critical,     \* critical_count; what is above CriticalCount counts as one more
  line,         \* the output bit of LINE_HIGH_LEVEL_GLOBAL_EN
  battery,      \* the battery: "low" below Power_GetAbsoluteMinVoltage()
  registers,    \* the registers of the chip that hold what the service wrote
  watchdog      \* time since the chip's watchdog was reset

\* Auxiliary variables
VARIABLES
  readings,     \* the last readings the service acted on, oldest first
  expired       \* the watchdog expired since the charger was configured

vars == <<configured, critical, line, battery, registers, watchdog, readings,
          expired>>

Volts == {"low", "good"}
Register == {"ADC_Control", "Charger_Control_5", "Termination_Control",
             "Charge_Current_Limit", "NTC_Control_1"}

\* The transfers that configure the charger. "reset" is the first write to
\* Termination_Control, which resets all registers; NTC_Control_1 is read
\* before it is written
InitTransfers == {"reset", "ADC_Control", "Charger_Control_5"}
Transfers == InitTransfers \cup Register \cup {"read_NTC_Control_1"}

\* The output bit is set by the board's initialisation
Init ==
  /\ configured = FALSE /\ critical = 0
  /\ line = TRUE
  /\ battery \in Volts
  /\ registers = {} /\ watchdog = 0
  /\ readings = <<>> /\ expired = FALSE

-----------------------------------------------------------------------------

OnStart ==
  /\ configured' = FALSE
  /\ expired' = FALSE
  /\ UNCHANGED <<critical, line, battery, registers, watchdog, readings>>

\* The transfers that are made when those in good succeed: init() returns at
\* its first failure, the setters are all called, setTsEnabled returns when
\* its read fails
Made(good) ==
  {"reset"}
    \cup (IF "reset" \in good THEN {"ADC_Control"} ELSE {})
    \cup (IF {"reset", "ADC_Control"} \subseteq good THEN {"Charger_Control_5"} ELSE {})
    \cup (IF InitTransfers \subseteq good
          THEN {"Termination_Control", "Charge_Current_Limit", "read_NTC_Control_1"}
          ELSE {})
    \cup (IF InitTransfers \cup {"read_NTC_Control_1"} \subseteq good
          THEN {"NTC_Control_1"} ELSE {})

\* Mutant of Success: the result of the last setter wins
LastSetterSucceeds(good) ==
  InitTransfers \cup {"read_NTC_Control_1", "NTC_Control_1"} \subseteq good

Success(good) == Transfers \subseteq good

\* good succeed and arrived reached the chip though the master saw a failure
ConfigureWith(good, arrived) ==
  LET written == Made(good) \cap (good \cup arrived) IN
    /\ ~configured
    /\ registers' = (IF "reset" \in written THEN {} ELSE registers)
                      \cup (written \cap Register)
    /\ configured' = Success(good)
    /\ expired' = FALSE
    /\ UNCHANGED <<critical, line, battery, watchdog, readings>>

\* The sets of transfers that can succeed: only a transfer that is made does
Outcomes == {good \in SUBSET Transfers : good \subseteq Made(good)}

Configure ==
  \E good \in Outcomes : \E arrived \in SUBSET (Made(good) \ good) :
    ConfigureWith(good, arrived)

Remember(r) ==
  IF Len(readings) <= CriticalCount THEN Append(readings, r)
  ELSE Append(Tail(readings), r)

\* Mutant of CountReading: a good reading takes one low reading back
CountReadingDown(r) ==
  IF r = "low"
  THEN /\ critical' = IF critical > CriticalCount THEN critical ELSE critical + 1
       /\ line' = IF critical' > CriticalCount THEN FALSE ELSE line
  ELSE /\ critical' = critical - 1
       /\ line' = TRUE

\* Mutant of CountReading: a good reading sets the line and keeps the count
CountReadingWithoutReset(r) ==
  IF r = "low"
  THEN /\ critical' = IF critical > CriticalCount THEN critical ELSE critical + 1
       /\ line' = IF critical' > CriticalCount THEN FALSE ELSE line
  ELSE /\ line' = TRUE
       /\ UNCHANGED critical

CountReading(r) ==
  IF r = "low"
  THEN /\ critical' = IF critical > CriticalCount THEN critical ELSE critical + 1
       /\ line' = IF critical' > CriticalCount THEN FALSE ELSE line
  ELSE /\ critical' = 0
       /\ line' = TRUE

\* Mutant of MonitorFails: a round that fails starts the count again
MonitorFailsForgetting ==
  /\ configured
  /\ configured' = FALSE
  /\ expired' = FALSE
  /\ critical' = 0
  /\ watchdog' \in {0, watchdog}
  /\ UNCHANGED <<line, battery, registers, readings>>

\* Some transfer of the round failed, the status included; the watchdog may
\* have been reset. The values that were read are sent by tick() and not used
\* otherwise
MonitorFails ==
  /\ configured
  /\ configured' = FALSE
  /\ expired' = FALSE
  /\ watchdog' \in {0, watchdog}
  /\ UNCHANGED <<critical, line, battery, registers, readings>>

\* All transfers succeeded; a fault of the charger changes nothing else. The
\* voltage read is the battery's while the ADC is on; once the chip forgot that,
\* its result register may hold anything
MonitorSucceeds ==
  /\ configured
  /\ watchdog' = 0
  /\ \E r \in Volts :
       /\ "ADC_Control" \in registers => r = battery
       /\ CountReading(r)
       /\ readings' = Remember(r)
  /\ UNCHANGED <<configured, battery, registers, expired>>

Monitor == MonitorFails \/ MonitorSucceeds

BatteryChanges ==
  /\ battery' \in Volts \ {battery}
  /\ UNCHANGED <<configured, critical, line, registers, watchdog, readings,
                 expired>>

\* Time passes at the chip; when the service does not get to its rounds, or
\* they fail, the watchdog expires and the chip is back at its defaults
WatchdogCounts ==
  /\ watchdog < WatchdogPeriod
  /\ watchdog' = watchdog + 1
  /\ UNCHANGED <<configured, critical, line, battery, registers, readings,
                 expired>>

WatchdogExpires ==
  /\ watchdog = WatchdogPeriod
  /\ watchdog' = 0
  /\ registers' = {}
  /\ expired' = configured
  /\ UNCHANGED <<configured, critical, line, battery, readings>>

Next == \/ OnStart \/ Configure \/ Monitor
        \/ BatteryChanges \/ WatchdogCounts \/ WatchdogExpires

Spec == Init /\ [][Next]_vars

ConfigureSucceeds == ConfigureWith(Transfers, {})

\* The bus does not fail forever: of infinitely many attempts to configure the
\* charger, and of infinitely many rounds, some succeed
Fairness == SF_vars(ConfigureSucceeds) /\ SF_vars(MonitorSucceeds)

FairSpec == Spec /\ Fairness

-----------------------------------------------------------------------------

\* Every variable keeps its type.
TypeOK ==
  /\ configured \in BOOLEAN
  /\ critical \in 0 .. CriticalCount + 1
  /\ line \in BOOLEAN
  /\ battery \in Volts /\ registers \subseteq Register
  /\ watchdog \in 0 .. WatchdogPeriod
  /\ readings \in Seq(Volts) /\ Len(readings) <= CriticalCount + 1
  /\ expired \in BOOLEAN

\* A charger the service takes for configured has all of its registers,
\* whichever transfers of earlier attempts failed or arrived, unless its
\* watchdog expired since.
ConfiguredMeansProgrammed ==
  configured /\ ~expired => registers = Register

\* The output bit of the high level computer's line is cleared only after
\* CriticalCount + 1 rounds in a row that read a low battery, however many rounds
\* failed and restarts happened between them.
CutOnlyWhenLow ==
  ~line => /\ Len(readings) = CriticalCount + 1
           /\ \A i \in DOMAIN readings : readings[i] = "low"

\* A battery that stays low gets the output bit cleared and one that stays good
\* gets it set, both for good, although the bus may fail again and again: as long
\* as the watchdog does not expire between two rounds that succeed. After that the
\* charger is not configured again (WatchdogReconfigures is violated), its ADC stays
\* off, and the bit may follow anything.
LineFollowsBattery ==
  /\ <>[](battery = "low" /\ ~expired) => <>[](~line)
  /\ <>[](battery = "good" /\ ~expired) => <>[]line

\* "Error during comms or watchdog timer expired, reconfigure charger": a
\* charger whose watchdog expired is configured again.
WatchdogReconfigures == expired ~> ~expired

=============================================================================
