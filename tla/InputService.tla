---------------------------- MODULE InputService ----------------------------
(***************************************************************************)
(* The inputs of the robot (stop buttons, lift and collision sensors), from *)
(* the level of a GPIO line to the check of the emergency service.          *)
(*                                                                         *)
(* Three actors take part: the hardware, whose edges interrupt anything;    *)
(* the process thread of InputService, which reads the lines; and the main  *)
(* thread, which is told of changes by INPUTS_CHANGED. The process thread   *)
(* can be interrupted by an edge between any two inputs, and gives way to   *)
(* the main thread where it waits for a packet in OnInputChanged.           *)
(*                                                                         *)
(* Delays and the time an input is active are not modelled here. The xbot   *)
(* framework (external) takes one item after the other from packet_queue_,  *)
(* and after each, or after a timeout, calls OnLoop of a running service.   *)
(***************************************************************************)
EXTENDS Integers, Sequences, FiniteSets

CONSTANTS Line,       \* GPIO lines
          Configs,    \* the inputs that a configuration document describes
          MaxInputs,  \* capacity of all_inputs_ without the virtual input
          QueueLen    \* length of packet_queue_

\* An input as the configuration describes it. A simulated input has no line.
NoLine == "none"
InputConfig == [driver : {"gpio", "simulated"},
                line   : Line \cup {NoLine},
                invert : BOOLEAN,
                lift   : BOOLEAN]        \* its emergency reason has LIFT

ASSUME ConfigAssumption ==
         /\ Configs \subseteq Seq(InputConfig)
         /\ \A c \in Configs : \A i \in 1..Len(c) :
              c[i].driver = "gpio" => c[i].line \in Line
ASSUME MaxInputsAssumption == MaxInputs \in Nat
ASSUME QueueLenAssumption == QueueLen \in Nat \ {0}

VARIABLES
  \* the hardware
  level,          \* level of each line
  enabled,        \* lines with an enabled edge event
  \* InputService
  inputs,         \* all_inputs_ without the virtual input
  active,         \* the active ones, by index; Virtual for lift_multiple_input_
  numActiveLift,  \* num_active_lift_
  registered,     \* the last configuration was accepted
  running,        \* between OnStart and OnStop
  mask,           \* the simulated inputs set by the last message
  \* its process thread
  gpioTriggered,  \* the event GPIO_TRIGGERED is pending
  queue,          \* number of items in packet_queue_
  todo,           \* inputs the running loop over a driver has still to update
  pc,             \* where the thread is
  resume,         \* where it goes on after that loop
  \* the main thread
  inputsChanged,  \* INPUTS_CHANGED is pending
  mainPc,
  \* history
  edged,          \* lines that had an edge since they were enabled
  checked         \* active inputs that CheckInputs has seen active

hwVars     == <<level, enabled, edged>>
inputVars  == <<inputs, active, numActiveLift, checked>>
configVars == <<registered, running, mask>>
threadVars == <<gpioTriggered, queue, todo, pc, resume>>
mainVars   == <<inputsChanged, mainPc>>
vars == <<hwVars, inputVars, configVars, threadVars, mainVars>>

Virtual == 0
Index == 1..Len(inputs)
OfDriver(d) == {i \in Index : inputs[i].driver = d}
LinesInUse == {inputs[i].line : i \in OfDriver("gpio")}

Init ==
  /\ level \in [Line -> BOOLEAN]
  /\ enabled = {} /\ edged = {}
  /\ inputs = <<>> /\ active = {} /\ numActiveLift = 0 /\ checked = {}
  /\ registered = FALSE /\ running = FALSE /\ mask = {}
  /\ gpioTriggered = FALSE /\ queue = 0
  /\ todo = {} /\ pc = "Wait" /\ resume = "Wait"
  /\ inputsChanged = FALSE /\ mainPc = "Wait"

-----------------------------------------------------------------------------
(* The hardware and the IO thread *)

\* Mutant of SendEvent: the thread is signalled without an item in its queue
SendEventUnqueued ==
  /\ gpioTriggered' = TRUE
  /\ UNCHANGED queue

\* ServiceExt::SendEvent: signal the thread, and post an empty item to wake it.
\* That the post can fail is ignored.
SendEvent ==
  /\ gpioTriggered' = TRUE
  /\ queue' = IF queue < QueueLen THEN queue + 1 ELSE queue

\* An edge of a line. LineCallback runs in the interrupt.
LineChanges(l) ==
  /\ level' = [level EXCEPT ![l] = ~level[l]]
  /\ IF l \in enabled
     THEN SendEvent /\ edged' = edged \cup {l}
     ELSE UNCHANGED <<gpioTriggered, queue, edged>>
  /\ UNCHANGED <<enabled, inputVars, configVars, todo, pc, resume, mainVars>>

\* The IO thread gives the service a packet, unless its queue is full
PacketArrives ==
  /\ queue < QueueLen
  /\ queue' = queue + 1
  /\ UNCHANGED <<hwVars, inputVars, configVars, gpioTriggered, todo, pc, resume, mainVars>>

-----------------------------------------------------------------------------
(* The process thread: its loop and the handlers of packets *)

QueuePopItem ==
  /\ pc = "Wait" /\ queue > 0
  /\ queue' = queue - 1
  /\ pc' = "Handle"
  /\ UNCHANGED <<hwVars, inputVars, configVars, gpioTriggered, todo, resume, mainVars>>

\* Mutant of TickSchedule: it reads the lines only after an edge
TickScheduleAfterEdge ==
  /\ pc = "Wait" /\ running
  /\ todo' = IF gpioTriggered THEN OfDriver("gpio") ELSE {}
  /\ resume' = "Loop"
  /\ pc' = "Update"
  /\ UNCHANGED <<hwVars, inputVars, configVars, gpioTriggered, queue, mainVars>>

\* tick_schedule_ of the GPIO driver is due: every second of a running service
\* its tick() reads all lines, edge or not
TickSchedule ==
  /\ pc = "Wait" /\ running
  /\ todo' = OfDriver("gpio")
  /\ resume' = "Loop"
  /\ pc' = "Update"
  /\ UNCHANGED <<hwVars, inputVars, configVars, gpioTriggered, queue, mainVars>>

\* Another schedule is due (SendStatus, which changes nothing)
WaitTimesOut ==
  /\ pc = "Wait" /\ queue = 0
  /\ pc' = "Loop"
  /\ UNCHANGED <<hwVars, inputVars, configVars, gpioTriggered, queue, todo, resume, mainVars>>

\* An empty item, or a packet that changes none of this state
NothingToHandle ==
  /\ pc = "Handle"
  /\ pc' = "Loop"
  /\ UNCHANGED <<hwVars, inputVars, configVars, gpioTriggered, queue, todo, resume, mainVars>>

\* Mutant of OnRegisterInputConfigsChanged: num_active_lift_ is not reset
OnRegisterInputConfigsChangedKeepingCount ==
  /\ pc = "Handle" /\ ~running
  /\ \E c \in Configs : \E n \in 0..Len(c) :
       /\ n <= MaxInputs
       /\ inputs' = SubSeq(c, 1, n)
       /\ registered' = (n = Len(c))
  /\ active' = {} /\ checked' = {}
  /\ pc' = "Loop"
  /\ UNCHANGED <<hwVars, numActiveLift, running, mask, gpioTriggered, queue, todo, resume, mainVars>>

\* The old inputs are dropped, then the new ones are added as they are parsed.
\* When parsing fails, or all_inputs_ is full, those parsed so far remain.
\* (ProcessJson accepts a document that just ends too early: it is then one
\* that describes fewer inputs.) The framework stops a service before it
\* configures it.
OnRegisterInputConfigsChanged ==
  /\ pc = "Handle" /\ ~running
  /\ \E c \in Configs : \E n \in 0..Len(c) :
       /\ n <= MaxInputs
       /\ inputs' = SubSeq(c, 1, n)
       /\ registered' = (n = Len(c))
  /\ active' = {} /\ numActiveLift' = 0 /\ checked' = {}
  /\ pc' = "Loop"
  /\ UNCHANGED <<hwVars, running, mask, gpioTriggered, queue, todo, resume, mainVars>>

\* OnStart enables the edge events and does not read the lines. The framework
\* starts a service only if its registers were accepted.
OnStart ==
  /\ pc = "Handle" /\ ~running /\ registered
  /\ running' = TRUE
  /\ enabled' = LinesInUse
  /\ pc' = "Loop"
  /\ UNCHANGED <<level, edged, inputVars, registered, mask, gpioTriggered, queue, todo, resume,
                 mainVars>>

\* OnStop disables the edge events and leaves the inputs as they are
OnStop ==
  /\ pc = "Handle" /\ running
  /\ running' = FALSE
  /\ enabled' = {} /\ edged' = {}
  /\ pc' = "Loop"
  /\ UNCHANGED <<level, inputVars, registered, mask, gpioTriggered, queue, todo, resume, mainVars>>

\* OnSimulatedInputsChanged, in debug builds: the bits of the message become
\* the levels of the simulated inputs
OnSimulatedInputsChanged ==
  /\ pc = "Handle" /\ running
  /\ mask' \in SUBSET OfDriver("simulated")
  /\ todo' = OfDriver("simulated")
  /\ resume' = "Loop"
  /\ pc' = "Update"
  /\ UNCHANGED <<hwVars, inputVars, registered, running, gpioTriggered, queue, mainVars>>

\* OnLoop: take the event, then read the lines of all GPIO inputs
OnLoop ==
  /\ pc = "Loop"
  /\ IF running /\ gpioTriggered
     THEN /\ gpioTriggered' = FALSE
          /\ todo' = OfDriver("gpio")
          /\ resume' = "Wait"
          /\ pc' = "Update"
     ELSE /\ pc' = "Wait"
          /\ UNCHANGED <<gpioTriggered, todo, resume>>
  /\ UNCHANGED <<hwVars, inputVars, configVars, queue, mainVars>>

-----------------------------------------------------------------------------
(* The process thread: the loop over the inputs of a driver *)

Raw(i) == IF inputs[i].driver = "gpio" THEN level[inputs[i].line] ELSE i \in mask

\* What Update makes of the level of input i
NewActive(i) == Raw(i) # inputs[i].invert

\* The lift counter after input i has changed
LiftCount(i) ==
  IF ~inputs[i].lift THEN numActiveLift
  ELSE IF NewActive(i) THEN numActiveLift + 1 ELSE numActiveLift - 1

\* Mutant of NowActive: the virtual input follows only when a lift input
\* becomes active
NowActiveOnRise(i) ==
  LET others == active \ {i, Virtual}
      own    == IF NewActive(i) THEN {i} ELSE {}
      lifted == IF inputs[i].lift /\ NewActive(i) THEN LiftCount(i) >= 2 ELSE Virtual \in active
  IN others \cup own \cup (IF lifted THEN {Virtual} ELSE {})

\* The active inputs after input i has changed. A lift input takes the virtual
\* input with it.
NowActive(i) ==
  LET others == active \ {i, Virtual}
      own    == IF NewActive(i) THEN {i} ELSE {}
      lifted == IF inputs[i].lift THEN LiftCount(i) >= 2 ELSE Virtual \in active
  IN others \cup own \cup (IF lifted THEN {Virtual} ELSE {})

\* Input::Update of the next input of the list, up to the transaction of
\* OnInputChanged. If the virtual input changes, its own Update broadcasts.
Update(i) ==
  /\ pc = "Update"
  /\ i \in todo /\ \A j \in todo : i <= j
  /\ todo' = todo \ {i}
  /\ IF NewActive(i) = (i \in active)
     THEN UNCHANGED <<active, numActiveLift, checked, inputsChanged, pc>>
     ELSE /\ active' = NowActive(i)
          /\ numActiveLift' = LiftCount(i)
          /\ checked' = checked \cap NowActive(i)
          /\ inputsChanged' = (inputsChanged \/ (Virtual \in active) # (Virtual \in NowActive(i)))
          /\ pc' = "Announce"
  /\ UNCHANGED <<hwVars, inputs, configVars, gpioTriggered, queue, resume, mainPc>>

\* Mutant of Announce: one broadcast for the whole loop, left to its last input
AnnounceOnlyLast ==
  /\ pc = "Announce"
  /\ inputsChanged' = (inputsChanged \/ todo = {})
  /\ pc' = "Update"
  /\ UNCHANGED <<hwVars, inputVars, configVars, gpioTriggered, queue, todo, resume, mainPc>>

\* The events of the change have been sent: broadcast INPUTS_CHANGED
Announce ==
  /\ pc = "Announce"
  /\ inputsChanged' = TRUE
  /\ pc' = "Update"
  /\ UNCHANGED <<hwVars, inputVars, configVars, gpioTriggered, queue, todo, resume, mainPc>>

\* Mutant of LoopEnds: the event is cleared after the inputs were read
LoopEndsClearing ==
  /\ pc = "Update" /\ todo = {}
  /\ pc' = resume
  /\ gpioTriggered' = FALSE
  /\ UNCHANGED <<hwVars, inputVars, configVars, queue, todo, resume, mainVars>>

LoopEnds ==
  /\ pc = "Update" /\ todo = {}
  /\ pc' = resume
  /\ UNCHANGED <<hwVars, inputVars, configVars, gpioTriggered, queue, todo, resume, mainVars>>

-----------------------------------------------------------------------------
(* The main thread *)

\* DispatchEvents finds INPUTS_CHANGED
DispatchInputsChanged ==
  /\ mainPc = "Wait" /\ inputsChanged
  /\ inputsChanged' = FALSE
  /\ mainPc' = "SendStatus"
  /\ UNCHANGED <<hwVars, inputVars, configVars, threadVars>>

\* Mutant of OnInputsChangedEvent: it leaves the check to the next event when
\* one is already pending
OnInputsChangedEventDeferring ==
  /\ mainPc = "SendStatus"
  /\ mainPc' = IF inputsChanged THEN "Wait" ELSE "CheckInputs"
  /\ UNCHANGED <<hwVars, inputVars, configVars, threadVars, inputsChanged>>

\* OnInputsChangedEvent sends the active inputs, which may wait for a packet
OnInputsChangedEvent ==
  /\ mainPc = "SendStatus"
  /\ mainPc' = "CheckInputs"
  /\ UNCHANGED <<hwVars, inputVars, configVars, threadVars, inputsChanged>>

\* CheckInputs looks at every active input (GetEmergencyReasons)
CheckInputs ==
  /\ mainPc = "CheckInputs"
  /\ checked' = active
  /\ mainPc' = "Wait"
  /\ UNCHANGED <<hwVars, inputs, active, numActiveLift, configVars, threadVars, inputsChanged>>

Hardware == (\E l \in Line : LineChanges(l)) \/ PacketArrives

Handle == \/ NothingToHandle
          \/ OnRegisterInputConfigsChanged
          \/ OnStart
          \/ OnStop
          \/ OnSimulatedInputsChanged

Process == \/ QueuePopItem
           \/ TickSchedule
           \/ WaitTimesOut
           \/ Handle
           \/ OnLoop
           \/ \E i \in Index : Update(i)
           \/ Announce
           \/ LoopEnds

Main == DispatchInputsChanged \/ OnInputsChangedEvent \/ CheckInputs

Next == Hardware \/ Process \/ Main

Spec == Init /\ [][Next]_vars

(***************************************************************************)
(* Fairness. Both threads go on when they can: the kernel runs every ready *)
(* thread, and a thread that waits for a packet gets one (PacketPool).     *)
(* Nothing is assumed of the lines or of the packets, and not that the     *)
(* process thread wakes up when nothing is in its queue: the schedules are *)
(* not needed for a press to be noticed.                                   *)
(***************************************************************************)
Awake == \/ QueuePopItem \/ Handle \/ OnLoop
         \/ (\E i \in Index : Update(i)) \/ Announce \/ LoopEnds

FairSpec == Spec /\ WF_vars(Awake) /\ WF_vars(Main)

-----------------------------------------------------------------------------
(* Properties *)

LiftInputs == {i \in Index : inputs[i].lift}

\* Every variable keeps its type; the lift counter never goes below zero or
\* above the number of inputs.
TypeOK ==
  /\ level \in [Line -> BOOLEAN]
  /\ enabled \subseteq Line /\ edged \subseteq enabled
  /\ inputs \in Seq(InputConfig) /\ Len(inputs) <= MaxInputs
  /\ active \subseteq Index \cup {Virtual}
  /\ checked \subseteq active
  /\ numActiveLift \in 0..Len(inputs)
  /\ registered \in BOOLEAN /\ running \in BOOLEAN
  /\ mask \in SUBSET Nat
  /\ gpioTriggered \in BOOLEAN
  /\ queue \in 0..QueueLen
  /\ todo \subseteq Index
  /\ pc \in {"Wait", "Handle", "Loop", "Update", "Announce"}
  /\ resume \in {"Wait", "Loop"}
  /\ inputsChanged \in BOOLEAN
  /\ mainPc \in {"Wait", "SendStatus", "CheckInputs"}

\* LIFT_MULTIPLE is active exactly when two or more lift inputs are, whatever
\* the order of changes, restarts and new configurations: num_active_lift_ is
\* counted up and down by OnInputChanged and never recounted.
LiftMultipleExact ==
  Virtual \in active <=> Cardinality(active \cap LiftInputs) >= 2

\* No edge is lost: when the state of a running service's GPIO input is not
\* what its line says, and the line had an edge, the lines will be read again:
\* the event is pending, or the running tick() has yet to come to this input.
EdgeNotLost ==
  \A i \in OfDriver("gpio") :
    (/\ running /\ inputs[i].line \in edged
     /\ NewActive(i) # (i \in active))
      => gpioTriggered \/ i \in todo

\* The process thread never sleeps over an edge: when it waits and the event
\* is pending there is an item in its queue, although SendEvent ignores that
\* its post fails when the queue is full.
WakeupNotLost == (running /\ gpioTriggered /\ pc = "Wait") => queue > 0

\* No activation is kept from the emergency service: an active input which
\* CheckInputs has not seen is about to be broadcast, or the main thread is on
\* its way to CheckInputs.
ActivationReachesMain ==
  active \subseteq checked
  \/ pc = "Announce" \/ inputsChanged \/ mainPc # "Wait"

\* From the line to the emergency: when a line goes to the active level in a
\* running service, CheckInputs sees the input active, unless the line goes
\* back or the service is stopped meanwhile.
PressIsChecked ==
  \A i \in 1..MaxInputs :
    LET Pressed == /\ running /\ i \in OfDriver("gpio")
                   /\ inputs[i].line \in edged /\ NewActive(i)
    IN Pressed ~> (~Pressed \/ i \in checked)

\* OnStart does not read the lines, so a button that is already held when the
\* service starts causes no edge. The schedule of the driver makes up for it:
\* as long as it keeps coming due, every input whose line is at the active
\* level is read and checked, edge or not.
HeldIsChecked ==
  SF_vars(TickSchedule) =>
    \A i \in 1..MaxInputs :
      LET Held == running /\ i \in OfDriver("gpio") /\ NewActive(i)
      IN Held ~> (~Held \/ i \in checked)

=============================================================================
