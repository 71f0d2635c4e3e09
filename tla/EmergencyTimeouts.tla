------------------------- MODULE EmergencyTimeouts -------------------------
(***************************************************************************)
(* The emergency service in time: how late an active input and the silence *)
(* of the high level are noticed.                                          *)
(*                                                                         *)
(* Three threads take part. The emergency thread runs OnLoop whenever it   *)
(* wakes, and sleeps for at most the block time OnLoop returned and until  *)
(* its status schedule is due. The main thread runs CheckInputs after      *)
(* INPUTS_CHANGED, and drops the block time. The input thread changes the  *)
(* inputs and announces the changes. All three may be held up, by a mutex  *)
(* or while they wait for a packet, for up to Slack units at a time.       *)
(*                                                                         *)
(* All run at NORMALPRIO without time slices: a thread that has the result *)
(* of GetEmergencyReasons goes on until it waits for mtx_, and chMtxUnlock *)
(* gives mtx_ to the thread that waits longest. So results are applied in  *)
(* the order they were found. Only the age of the "now" they were found    *)
(* with may be out of order.                                               *)
(*                                                                         *)
(* A time stamp is kept as what the code computes of it with uint32_t: the *)
(* time since then, modulo Wrap (2^32 us). A thread that uses a "now" it   *)
(* read b units ago computes the difference of the two.                    *)
(*                                                                         *)
(* Which reasons are latched, and how they get to the motors, is in        *)
(* EmergencyChain: an input here has one reason, and no latch.             *)
(***************************************************************************)
EXTENDS Integers

CONSTANTS Input,           \* the inputs a configuration can describe
          Configs,         \* the configurations: sets of inputs
          Delay,           \* emergency_delay_ms of each
          ReasonOf,        \* its emergency_reason
          Message,         \* <<add, clear>> pairs the high level sends
          Timeout,         \* the 1'000'000 us of CheckTimeouts
          StatusPeriod,    \* the 1'000'000 us of status_schedule_
          Wrap,            \* 2^32 us
          Slack            \* how long a thread may be held up

InputMask   == {"STOP", "LIFT", "LIFT_MULTIPLE", "COLLISION"}
TimeoutMask == {"TIMEOUT_HIGH_LEVEL", "TIMEOUT_INPUTS"}
Reason      == InputMask \cup TimeoutMask \cup {"LATCH", "HIGH_LEVEL"}

ASSUME TimeAssumption ==
         /\ Timeout \in Nat /\ StatusPeriod \in Nat /\ Slack \in Nat
         /\ Wrap \in Nat /\ Wrap > Timeout + 3 * Slack
ASSUME InputAssumption ==
         /\ Delay \in [Input -> 0 .. Wrap - 1]
         /\ ReasonOf \in [Input -> InputMask]
         /\ Configs \subseteq SUBSET Input
ASSUME MessageAssumption == Message \subseteq (SUBSET Reason) \X (SUBSET Reason)

VARIABLES
  reasons,   \* reasons_
  running,   \* the framework has started the service
  silence,   \* time since last_high_level_emergency_message_
  inputs,    \* all_inputs_
  active,    \* the active ones
  since,     \* time since active_since of each
  event,     \* INPUTS_CHANGED is pending
  found,     \* per updater: the reasons GetEmergencyReasons returned
  first,     \* the updater that came to mtx_ first, of those that wait for it
  rest,      \* the checks OnLoop has yet to make
  block,     \* the block time of OnLoop so far
  wakeIn,    \* how long the emergency thread may still sleep
  pc,        \* per thread: where it is
  busy       \* per thread: how long it has been there, or the age of its "now"

inputVars == <<inputs, active, since>>
sleepVars == <<rest, block, wakeIn>>
vars == <<reasons, running, silence, inputVars, event, found, first, sleepVars, pc, busy>>

Updater == {"emergency", "main"}
Thread  == Updater \cup {"input"}

\* What OnLoop does
Check == {"inputs", "timeouts"}

UINT32_MAX == Wrap - 1
Time == 0 .. Wrap - 1

\* What the code computes with uint32_t: now - stamp, for a "now" of age b
Elapsed(time, b) == IF time >= b THEN time - b ELSE time - b + Wrap

\* etl::min over the members of S
Smallest(S) == {x \in S : \A y \in S : x <= y}

Init ==
  /\ reasons = {"TIMEOUT_INPUTS", "TIMEOUT_HIGH_LEVEL"}
  /\ running = FALSE
  /\ silence \in Time                  \* stamp 0: the time since boot
  /\ inputs = {} /\ active = {} /\ since = [i \in Input |-> 0]
  /\ event = FALSE
  /\ found = [t \in Updater |-> {}]
  /\ first = "main"
  /\ rest = {} /\ block = 0 /\ wakeIn = 0
  /\ pc = [t \in Thread |-> "wait"]
  /\ busy = [t \in Thread |-> 0]

\* t goes on at label, where it may be held up again
Goto(t, label) ==
  /\ pc' = [pc EXCEPT ![t] = label]
  /\ busy' = [busy EXCEPT ![t] = 0]

\* t goes on with the "now" it has
Continue(t, label) ==
  /\ pc' = [pc EXCEPT ![t] = label]
  /\ UNCHANGED busy

-----------------------------------------------------------------------------
(* UpdateEmergency and CheckInputs *)

\* UpdateEmergency once it has mtx_
UpdateEmergency(add, clear) == reasons' = (reasons \ clear) \cup add

\* The updaters that wait for mtx_ with a result
Waiting == {t \in Updater : pc[t] = "update"}

Other(t) == IF t = "main" THEN "emergency" ELSE "main"

TimeoutReached(duration, delay) == duration >= delay

\* The inputs whose delay is over for a "now" of age b, and the block time
\* for those whose delay is not
Reached(b) == {i \in active : TimeoutReached(Elapsed(since[i], b), Delay[i])}
BlockTimes(b) == {Delay[i] - Elapsed(since[i], b) : i \in active \ Reached(b)}

\* GetEmergencyReasons, under the mutex of the input service, and on to mtx_
GetEmergencyReasons(t) ==
  /\ found' = [found EXCEPT ![t] = {ReasonOf[i] : i \in Reached(busy[t])}]
  /\ first' = IF Waiting = {} THEN t ELSE first

\* UpdateEmergency with the result, in turn
ApplyFound(t) ==
  /\ first = t
  /\ first' = Other(t)
  /\ UpdateEmergency(found[t], InputMask)

-----------------------------------------------------------------------------
(* The input thread *)

\* Input::Update up to the transaction of OnInputChanged. active_since is only
\* read while the input is active.
InputChanges(i) ==
  /\ pc["input"] = "wait" /\ i \in inputs
  /\ active' = IF i \in active THEN active \ {i} ELSE active \cup {i}
  /\ since' = [since EXCEPT ![i] = 0]
  /\ Goto("input", "announce")
  /\ UNCHANGED <<reasons, running, silence, inputs, event, found, first, sleepVars>>

Announce ==
  /\ pc["input"] = "announce"
  /\ event' = TRUE
  /\ Goto("input", "wait")
  /\ UNCHANGED <<reasons, running, silence, inputVars, found, first, sleepVars>>

\* New inputs are inactive, and nobody is told
OnRegisterInputConfigsChanged ==
  /\ pc["input"] = "wait"
  /\ inputs' \in Configs
  /\ active' = {}
  /\ since' = [i \in Input |-> 0]
  /\ UNCHANGED <<reasons, running, silence, event, found, first, sleepVars, pc, busy>>

InputThread == \/ \E i \in Input : InputChanges(i)
               \/ Announce
               \/ OnRegisterInputConfigsChanged

-----------------------------------------------------------------------------
(* The main thread *)

\* DispatchEvents finds INPUTS_CHANGED and calls OnInputsChangedEvent
DispatchInputsChanged ==
  /\ pc["main"] = "wait" /\ event
  /\ event' = FALSE
  /\ Goto("main", "status")
  /\ UNCHANGED <<reasons, running, silence, inputVars, found, first, sleepVars>>

\* ... reads the time
GetTimeMicros ==
  /\ pc["main"] = "status"
  /\ Goto("main", "inputs")
  /\ UNCHANGED <<reasons, running, silence, inputVars, event, found, first, sleepVars>>

MainCheckInputs ==
  /\ pc["main"] = "inputs"
  /\ GetEmergencyReasons("main")
  /\ Continue("main", "update")
  /\ UNCHANGED <<reasons, running, silence, inputVars, event, sleepVars>>

MainUpdateEmergency ==
  /\ pc["main"] = "update"
  /\ ApplyFound("main")
  /\ Continue("main", "return")
  /\ UNCHANGED <<running, silence, inputVars, event, found, sleepVars>>

\* Mutant of MainReturns: the event is cleared when it has been handled
MainReturnsClearing ==
  /\ pc["main"] = "return"
  /\ event' = FALSE
  /\ Goto("main", "wait")
  /\ found' = [found EXCEPT !["main"] = {}]
  /\ UNCHANGED <<reasons, running, silence, inputVars, first, sleepVars>>

\* The status is sent; the block time is dropped
MainReturns ==
  /\ pc["main"] = "return"
  /\ Goto("main", "wait")
  /\ found' = [found EXCEPT !["main"] = {}]
  /\ UNCHANGED <<reasons, running, silence, inputVars, event, first, sleepVars>>

Main == \/ DispatchInputsChanged \/ GetTimeMicros \/ MainCheckInputs
        \/ MainUpdateEmergency \/ MainReturns

-----------------------------------------------------------------------------
(* The emergency thread *)

OnStart ==
  /\ pc["emergency"] = "wait" /\ ~running
  /\ running' = TRUE
  /\ Goto("emergency", "loop")
  /\ UNCHANGED <<reasons, silence, inputVars, event, found, first, sleepVars>>

\* Mutant of OnStop: it raises no emergency
OnStopSilently ==
  /\ pc["emergency"] = "wait" /\ running
  /\ running' = FALSE
  /\ UNCHANGED <<reasons, silence, inputVars, event, found, first, sleepVars, pc, busy>>

OnStop ==
  /\ pc["emergency"] = "wait" /\ running
  /\ Waiting = {}
  /\ running' = FALSE
  /\ UpdateEmergency({"TIMEOUT_HIGH_LEVEL"}, {})
  /\ UNCHANGED <<silence, inputVars, event, found, first, sleepVars, pc, busy>>

\* The time is up, the schedule is due (SendStatus), or a packet came that
\* has no handler here
Wake ==
  /\ pc["emergency"] = "wait" /\ running
  /\ Goto("emergency", "loop")
  /\ UNCHANGED <<reasons, running, silence, inputVars, event, found, first, sleepVars>>

OnHighLevelEmergencyChanged ==
  /\ pc["emergency"] = "wait" /\ running
  /\ Waiting = {}
  /\ silence' = 0
  /\ \E m \in Message : UpdateEmergency(m[1], m[2])
  /\ Goto("emergency", "loop")
  /\ UNCHANGED <<running, inputVars, event, found, first, sleepVars>>

\* The framework reads the time and calls OnLoop, which makes both checks in
\* the arguments of etl::min, in either order
OnLoop ==
  /\ pc["emergency"] = "loop"
  /\ \E check \in Check : Goto("emergency", check) /\ rest' = Check \ {check}
  /\ block' = UINT32_MAX
  /\ UNCHANGED <<reasons, running, silence, inputVars, event, found, first, wakeIn>>

\* A check returns to OnLoop
CheckReturns ==
  /\ \E label \in IF rest = {} THEN {"return"} ELSE rest : Continue("emergency", label)
  /\ rest' = {}

CheckInputs ==
  /\ pc["emergency"] = "inputs"
  /\ GetEmergencyReasons("emergency")
  /\ block' \in Smallest(BlockTimes(busy["emergency"]) \cup {block})
  /\ Continue("emergency", "update")
  /\ UNCHANGED <<reasons, running, silence, inputVars, event, rest, wakeIn>>

CheckInputsUpdates ==
  /\ pc["emergency"] = "update"
  /\ ApplyFound("emergency")
  /\ CheckReturns
  /\ UNCHANGED <<running, silence, inputVars, event, found, block, wakeIn>>

\* Mutant of CheckTimeouts: it does not ask to be called when the time is up
CheckTimeoutsUnscheduled ==
  LET late == TimeoutReached(Elapsed(silence, busy["emergency"]), Timeout) IN
    /\ pc["emergency"] = "timeouts" /\ Waiting = {}
    /\ UpdateEmergency(IF late THEN {"TIMEOUT_HIGH_LEVEL"} ELSE {}, TimeoutMask)
    /\ CheckReturns
    /\ UNCHANGED <<running, silence, inputVars, event, found, first, block, wakeIn>>

CheckTimeouts ==
  LET quiet == Elapsed(silence, busy["emergency"])
      late  == TimeoutReached(quiet, Timeout)
  IN
    /\ pc["emergency"] = "timeouts" /\ Waiting = {}
    /\ UpdateEmergency(IF late THEN {"TIMEOUT_HIGH_LEVEL"} ELSE {}, TimeoutMask)
    /\ block' \in Smallest({block, IF late THEN UINT32_MAX ELSE Timeout - quiet})
    /\ CheckReturns
    /\ UNCHANGED <<running, silence, inputVars, event, found, first, wakeIn>>

\* The status is sent and the thread waits for its queue
OnLoopReturns ==
  /\ pc["emergency"] = "return"
  /\ wakeIn' \in Smallest({block, StatusPeriod})
  /\ Goto("emergency", "wait")
  /\ block' = 0
  /\ found' = [found EXCEPT !["emergency"] = {}]
  /\ UNCHANGED <<reasons, running, silence, inputVars, event, first, rest>>

Emergency == \/ OnStart \/ OnStop \/ Wake \/ OnHighLevelEmergencyChanged
             \/ OnLoop \/ CheckInputs \/ CheckInputsUpdates \/ CheckTimeouts
             \/ OnLoopReturns

-----------------------------------------------------------------------------

\* Mutant of Later: a clock that does not wrap
LaterUnbounded(time) == time + 1

\* getTimeMicros has 32 bits
Later(time) == IF time = UINT32_MAX THEN 0 ELSE time + 1

\* Time passes when nobody has to go on first
Clock ==
  /\ \A t \in Thread : pc[t] # "wait" => busy[t] < Slack
  /\ pc["emergency"] = "wait" /\ running => wakeIn > 0
  /\ pc["main"] = "wait" => ~event
  /\ silence' = Later(silence)
  /\ since' = [i \in Input |-> IF i \in active THEN Later(since[i]) ELSE 0]
  /\ wakeIn' = IF pc["emergency"] = "wait" /\ running THEN wakeIn - 1 ELSE wakeIn
  /\ busy' = [t \in Thread |-> IF pc[t] = "wait" THEN 0 ELSE busy[t] + 1]
  /\ UNCHANGED <<reasons, running, inputs, active, event, found, first, rest, block, pc>>

Next == InputThread \/ Main \/ Emergency \/ Clock

Spec == Init /\ [][Next]_vars

-----------------------------------------------------------------------------
(* Properties *)

Label == {"wait", "announce", "status", "loop", "inputs", "update", "timeouts",
          "return"}

\* Every variable keeps its type; no thread is held up longer than Slack.
TypeOK ==
  /\ reasons \subseteq Reason /\ running \in BOOLEAN
  /\ silence \in Time
  /\ inputs \subseteq Input /\ active \subseteq inputs /\ since \in [Input -> Time]
  /\ event \in BOOLEAN
  /\ found \in [Updater -> SUBSET InputMask] /\ first \in Updater
  /\ rest \subseteq Check /\ block \in Time /\ wakeIn \in Time
  /\ pc \in [Thread -> Label]
  /\ busy \in [Thread -> 0 .. Slack]

\* The silence of the high level is an emergency once it has lasted for the
\* timeout: the block time wakes the thread in time, and it is late by no more
\* than what holds it up. Silence is what the code can see of it, so the
\* timeout starts again when the clock has wrapped.
SilenceNoticed ==
  silence > Timeout + 3 * Slack => "TIMEOUT_HIGH_LEVEL" \in reasons

\* An emergency service that does not run keeps the robot stopped, whatever
\* the inputs and the main thread do meanwhile.
StoppedIsEmergency == ~running => "TIMEOUT_HIGH_LEVEL" \in reasons

\* An input that stays active is an emergency: at once if it has no delay,
\* because the main thread is told of it, else when the delay is over and the
\* emergency thread has come round, because the main thread drops the block
\* time. A result found before the activation, or with a "now" from before the
\* end of the delay, does not outlast this. (The high level may clear the
\* reason of an active input: the loop that follows sets it again.)
InputNoticed ==
  \A i \in active :
    LET late == IF Delay[i] = 0 THEN since[i] > 3 * Slack
                ELSE since[i] >= Delay[i] + StatusPeriod + 2 * Slack
    IN running /\ late => ReasonOf[i] \in reasons \/ pc["emergency"] # "wait"

=============================================================================
