# A TLA+ model of the xBot firmware

This directory holds TLA+ modules, TLC configurations and TLAPS proofs for the
firmware of this repository: the low level controller of a robot that drives
two wheel motors, watches stop and lift inputs, charges a battery, and talks to
a high level computer over UDP.

## The system

All application threads run at `NORMALPRIO` on ChibiOS with
`CH_CFG_TIME_QUANTUM` 0: threads of equal priority switch only where one blocks
(a mutex, a mailbox, a semaphore, an I2C or SPI transfer, a socket call).
Interrupts run at any time. Each service has a process thread of the xbot
framework, which takes packets from its queue, calls the handlers, runs
schedules and `OnLoop`.

| Component | State | Operations | Interacts with |
|---|---|---|---|
| Emergency service | `reasons_`, `mtx_`, time of the last high level message | `OnLoop` (`CheckInputs`, `CheckTimeouts`), `OnHighLevelEmergencyChanged`, `UpdateEmergency`, `SendStatus`, `GetEmergency`, `OnStop` | reads the input service, broadcasts `EMERGENCY_CHANGED`, asked by the drive |
| Main thread | event listener of `mower_events` | boot, then `DispatchEvents` | calls the drive and `CheckInputs` |
| Diff drive service | speeds, `duty_sent_`, time of the last twist, last encoder sample, `state_mutex_` | `OnStart`, `OnStop`, `tick` (40 ms), `OnControlTwistChanged`, `OnEmergencyChangedEvent`, ESC callbacks | motor drivers, emergency service |
| PWM motor driver | duty, tacho counters | `SetDuty`, `RequestStatus`, encoder interrupt | calls back into the drive |
| Input service and drivers | vector of inputs (`active`, `active_since`), lift counter, event bit | register configuration, GPIO callback, `tick`, `Update`, `GetEmergencyReasons`, `SendStatus` | broadcasts `INPUTS_CHANGED` |
| Power service, BQ2579 | `charger_configured_`, last readings, `critical_count`, the enable line of the high level computer; the chip has registers and a watchdog | `OnStart`, `charger_tick`, `tick` | I2C |
| Packets and IO | semaphore, pool of 25 packets, a mailbox per service | `allocatePacket`, `freePacket`, `queuePushItem`, `queuePopItem`, `runIo`, `receivePacket`, `transmitPacket` | all services |
| JSON stream | parser, `data.failed` | `ProcessJson`, `Callback`, `LogErrorPosition` | calls back into the input service |
| IMU service | chip found or not, last axes | `OnCreate`, `tick` | SPI |
| Debug TCP/UDP | client socket with `socket_mutex_`, raw mode with `mutex_` of the driver | accept/read loop, `OnRawDriverData`, `RawDataOutput` | driver threads |
| File system, EEPROM, REST API, discovery, LEDs | | | |

What is hard in it: an emergency is raised in one thread, announced after the
mutex is released, handled in a second thread and must undo what a third thread
is just doing; time is a wrapping 32 bit counter everywhere; `duty_sent_`
is shared by three callers; I2C transfers fail at any place; the pool and
its semaphore are two objects; everybody waits for packets which others hold.
`PROJECT.json` lists each of these hazards at its line, with the properties
that watch it.

What makes the parts correct: a raised emergency stops the motors, in every
schedule, and a latch is released only by the high level; a command arrives and
expires; odometry reports what the wheels did; a charger that counts as
configured is; the line of the high level computer is cleared when, and only
when, the battery reads low; packets are neither lost nor shared and allocation
never hangs; a configuration gives the inputs it describes; a debug client that
was let go of leaves nothing behind, the driver's raw mode included, and nothing
is written to a socket that is not its own.

Two of these fall short of what the robot would need. Clearing
`LINE_HIGH_LEVEL_GLOBAL_EN` does not cut the power of the computer: the board
file (`board.h:646` and `663`) makes the pin a floating input and nothing makes
it an output, so `palClearLine` changes an output bit that does not reach the
pin. And a debug client whose connection breaks is never let go of: `read()`
then fails for ever and its -1, kept in a `size_t`, counts as data, so the driver
stays in raw mode. No comment, document or test of the repository says
otherwise, so neither is a run that looks for a violation; the models have both
as the code does it.

## Modules

| Module | Models | Used by |
|---|---|---|
| `EmergencyStop` | abstract: what the firmware promises about emergencies | `EmergencyChain` (refinement) |
| `EmergencyChain` | emergency service, event dispatch, the `SetDuty` paths of the drive, what inputs contribute | `MCEmergencyChain`, `EmergencyChainProofs` |
| `EmergencyTimeouts` | the emergency service in time: block times, delays, silence, the wrap of the clock | `MCEmergencyTimeouts`, `EmergencyTimeoutsProofs` |
| `InputService` | input service and drivers, from the edge of a line to the check by the main thread | `MCInputService`, `InputServiceProofs` |
| `InputConfigs` | the register of the input service: JSON stream, callbacks, lists of the drivers | `MCInputConfigs`, `InputConfigsProofs` |
| `DiffDrive` | the drive in time: twists, timeout, ticks, encoders | `MCDiffDrive`, `DiffDriveProofs` |
| `PowerService` | power service, transfers to the charger, the chip's watchdog | run directly, `PowerServiceProofs` |
| `PacketPool` | pool, semaphore, IO thread, queues, service threads | run directly, `PacketPoolProofs` |
| `DebugTcp` | TCP debug interface, raw mode and output of a driver | run directly, `DebugTcpProofs` |

Definitions whose comment says "Mutant of X" are not used by any specification;
each is a plausible bug in X, used to show that a property notices it.

### EmergencyChain

Four threads, `pc` says where each one is. Steps are split at every mutex
operation, event call and motor write, and interleaved freely; that includes
every schedule of the cooperative kernel and more, which is sound for
properties that pass. `reasons` is the bit set as a set. `mtx` is only held
across steps by `SendStatus`, which sends packets under it; elsewhere lock,
body and unlock are one step that needs it free. `call` holds the arguments
with which `UpdateEmergency` runs, because `CheckInputs` computes them before it
locks. `flags`, `eventBit` and `got` are the listener's flags, the pending
event of the main thread and what it has still to dispatch; `Broadcast` is
`chEvtBroadcastFlagsI`. `SetDuty` is three steps: it asks for the emergency
(into `seen`), sets the left, then the right motor. Comparisons with time are
choices: a delay has passed or not, the high level is silent or not. `OnLoop`
makes its two checks as arguments of `etl::min`, whose order C++ leaves open;
`rest` holds the check that is still to be made, and both orders happen.

`EmergencyStop` says the same without threads: the robot starts to move only
from a moment without an emergency, a change of the emergency owes a stop, and
the debt ends only with standing motors or without an emergency.
`ImplementsStop` maps it: an emergency is raised when there are reasons, the
robot moves when a motor has a duty or a thread in `SetDuty` was granted one
(`Moving`), and a stop is owed while the announcement is on its way
(`StopPending`).

### EmergencyTimeouts

The emergency, main and input threads with a clock. A time stamp is the time
since then modulo `Wrap` (2^32 us), and a "now" that a thread read `b` units ago
gives the difference the code computes with `uint32_t`, wrap included. Each
thread may be held up for `Slack` units between two places where it can block.
The emergency thread sleeps for the smallest block time its two checks found,
and at most until its status schedule is due; the main thread drops the block
time. `found` and `first` are the results two threads wait with for `mtx_`:
ChibiOS gives a mutex to the thread that waits longest, and the threads have one
priority, so results are applied in the order they were found. This is the
one module that relies on the kernel's order. Latches are in `EmergencyChain`.

### InputService

`EmergencyChain` sees the inputs only as the reasons they add up to; here they
are looked at one by one. The hardware changes lines and interrupts
anything; the process thread takes items from its queue (`Wait`), runs a handler
(`Handle`), then `OnLoop` (`Loop`), which goes through the GPIO inputs (`Update`,
`Announce`); the main thread answers `INPUTS_CHANGED`. `Update` is `Input::Update`
up to the transaction of `OnInputChanged`, where the thread may wait for a
packet, so the main thread runs between `Update` and `Announce`, never inside
`Update`: both threads have the same priority. `active` holds indices, `Virtual`
stands for `lift_multiple_input_`. `OnRegisterInputConfigsChanged` takes any
configuration and cuts it off anywhere: that is what a failing parser, or a full
`all_inputs_`, leaves behind. `edged` (lines that had an edge since they were
enabled) and `checked` (active inputs that `CheckInputs` has seen) are history.
`TickSchedule` is the schedule of the GPIO driver, which reads the lines without
an edge. Assumed of the framework: a service is stopped before it is configured,
started only if its registers were accepted, `OnLoop` runs after each item.

### InputConfigs

`InputService` takes a configuration as a list of inputs; here it is made.
`Values` are JSON values, each with its key and, if it is a list or an object,
its members; the same key may come twice. `at` is the place of the stream parser
in the document, and `EventAt` the callback that it makes next (external, from
how `InputConfigsJsonCallback` reads the stack). `Parse` is a call of the parser
that makes one callback; `ParseValueAndEnd` one that makes two, when a number,
`true`, `false` or `null` is ended by the bracket after it. `Returns` is what
`InputConfigsJsonCallback` answers, `Effect` what it does: `AddInput` links the
new input at the end of its driver's list, `EmergencyValue` and `InputValue`
change the input that `current` points to. `Verdict` is the order in which
`ProcessJson` looks at the end and at `data.failed`. The data may end before any
callback (`EndNotFound`), the parser may refuse any character (`ParseError`), and
a new document may follow a failed one. Each input remembers its place in the
document (`from`, history).

What a document means (`Means`, `Valid`) is defined from the tree as a whole,
apart from the callbacks: the last "line" decides, the last of "invert" and
"active" decides the polarity, the last "emergency" the reasons, a "delay" stays
until another one comes. One kind of invalid document is accepted
(`BadLastList`): when the last driver has a number or boolean for its list, the
failing callback and the end come with the same character and the end is looked
at first.

### DiffDrive

Handlers run under `state_mutex_` and are one step; the steps inside `SetDuty`
are in `EmergencyChain`. A time stamp is kept as its age; what the code computes
is the age modulo `Wrap`, which stands for 2^32 us. `Age` goes to `2 * Wrap - 1`,
so a stamp that looks fresh and one that is fresh are different states. A due
tick runs before time passes (the framework's schedule; lateness by other work
in the thread is not modelled). The PWM driver answers `RequestStatus` in the
call, so each tick processes exactly one pair of states: the "disconnected"
message cannot be sent with this driver. `report` holds the difference the code
computes beside the movement that really happened (`moved`).

### PowerService

One action per attempt to configure (`Configure`) and per monitoring round
(`Monitor`). `Configure` chooses which transfers succeed; `Made` says which are
attempted then (`init` returns at the first failure, the setters all run,
`setTsEnabled` reads first). A failed write may still have arrived. `registers`
are the chip's registers that hold what was written; the first write of `init`
resets them all. The battery is read through the chip's ADC, which only `init`
turns on: after an expired watchdog that no round noticed, `MonitorSucceeds` may
read anything. `line` is the output bit of `LINE_HIGH_LEVEL_GLOBAL_EN`, set by
the board file (`PIN_ODR_HIGH`), and no more than that: the pin is an input, so
nothing here is about the power of the computer. `critical` stops counting one above
the limit because nothing tells larger values apart (an `int` incremented once a
second overflows after 68 years). `tick` only sends values; it has no action.

### PacketPool

`wait` is `chSemWait`, `take` the moment between it and the allocation, `signal`
the one between the deallocation and `chSemSignal`; `hang` is the endless loop
of `allocatePacket`. The IO thread owns a packet while it waits in `recvfrom`;
it drops one without a word (`DropPacket`), or logs it first and frees it then
(`RefusePacket`, a packet of a wrong size). Logs go over the network
(`startRemoteLogging` in `main.cpp`) and take packets of this pool, so the IO
thread then waits for a packet while it holds one (`received[Io]`), sends it
(`TransmitPacket`) and frees the refused one (`FreeReceived`).
Assumed of the framework (external): `ioInput` pushes into the service's queue
and frees the packet when that fails, with or without logging it; a service
thread takes one packet, may send and log while it holds it, one packet after
the other, and frees it; a log message takes one packet, sends and frees it.
Threads without a queue, such as the main thread, only send and log (`Loggers`).

### DebugTcp

The thread of the interface serves one client after the other; threads of the
driver have raw output at any time, and hold `mutex_` and `socket_mutex_` while
`write()` lasts. A closed socket's number may be given to the next connection.
`ReadError` is the result -1 of `read()`, which counts as data because it is kept
in a `size_t`: the thread then stays with the broken connection.

## Runs

| Run | Instance | Shows |
|---|---|---|
| `emergency_chain` | one twist, one clearing message, one latched stop input | `TypeOK`; `StopNeverLost`: a motor with a duty in an emergency always has its stop on the way; `LatchHeld`: the latch ends only by a high level message; `ImplementsStop`: the refinement of `EmergencyStop`; `NoCircularWait`: `mtx_` and `state_mutex_` never make threads wait for each other |
| `emergency_stop` | one twist, silence of the high level only, fairness | `EmergencyStopsMotors`: an emergency that stays stops the motors |
| `emergency_timeouts` | a button without delay or a bumper with delay 3, timeout 2, status period 3, slack 1, wrap 9 units | `TypeOK`; `SilenceNoticed`, `InputNoticed`: an emergency is noticed in time; `StoppedIsEmergency` |
| `inputs` | two lines, three configurations (one too long), at most 3 inputs, queue of 1, fairness | `TypeOK`; `LiftMultipleExact`: the counted virtual input is right after every history; `EdgeNotLost`, `WakeupNotLost`, `ActivationReachesMain`: a change of a line is read, wakes the thread and gets to `CheckInputs`; `PressIsChecked`: a pressed button is checked through the queue alone; `HeldIsChecked`: one that was held at the start is checked through the schedule; no deadlock |
| `input_configs` | all orders of two of ten values of an input and of the keys of "emergency", lists of both drivers, at most 3 inputs, wrong types everywhere | `TypeOK`, `PointersAreSet`, `ListsAreExact`, `InputsAreMeant` |
| `diff_drive` | tick 2, timeout 4, wrap 9 units, three twists, one encoder with a counter of 6 values | `TypeOK`, `CommandTimeout`, `CommandArrives`, `OdometryExact` |
| `power` | limit of 4 low readings, watchdog 1, fairness | `TypeOK`, `ConfiguredMeansProgrammed`, `CutOnlyWhenLow`; `LineFollowsBattery`: the output bit follows the battery in the end, unless the watchdog expired unnoticed |
| `packet_pool` | a service with a queue of 2, the main thread, 5 packets, fairness | `TypeOK`, `NeverHangs`, `PacketsConserved`, `AllocationSucceeds`; `NeverAllWait`: some thread can always go on |
| `debug_tcp` | 2 socket numbers, 2 threads of the driver, fairness | `TypeOK`, `WritesReachClient`, `ClientIsLetGo`; `NothingLeftBehind`: raw mode and socket of a client are gone when the next is accepted; `NoCircularWait`: neither do `mutex_` and `socket_mutex_` |

Three runs look for a violation of what the code says of itself:

* `diff_drive_emergency_comment`: "only set speed to 0 if the emergency happens".
  The handler looks at the emergency when the main thread gets to it. While the
  main thread is blocked, in `OnInputsChangedEvent` waiting for a packet or for
  the network, an emergency can be raised and cleared; the old speeds stay and
  are driven on.
* `power_watchdog`: "Error during comms or watchdog timer expired, reconfigure
  charger". An expired watchdog is not visible in what the service reads; if
  transfers work, the charger stays at its defaults.
* `input_configs_end`: "Input config JSON parsing failed: end not found" is
  logged, and then `true` is returned: the service accepts the inputs that were
  read before the data ended, the last of them half configured.

Why the bounds are enough: the twists and messages differ only in what the
properties tell apart (moving or not, which motor, clears the latch or not).
The time units keep the order of the code's constants, tick < timeout < wrap,
with several ticks in a timeout and a wrap that falls inside and outside of it;
in `emergency_timeouts` the status period is longer than the timeout, so the
block time has to wake the thread, and a slack of one lets every thread come
late once at each place. (In the code both are a second; the proof covers every
choice.) Two wheels behave the same and do not touch each other in the
odometry, so one encoder suffices; the counter of 6 wraps within a few pulses.
Three inputs on two lines have a pair of lift inputs, a third that makes or
breaks the pair, both polarities, a shared line and both drivers; a queue of one
fills up. Documents have each attribute before and after each other one, and up
to four inputs where three fit. A service, the main thread and the IO thread
suffice to have two threads in each half of an allocation while a third frees,
and two that wait while they hold a packet. The limit of 4
readings instead of the code's 10 leaves room for failures and good readings at
every count; the proof covers 10.

Five is the smallest pool without deadlock for a queue of two: `queues + one
packet per handler + the one that the IO thread refuses + 1`. With four, two wait
in the queue, the handler holds one and waits for one to send, and the IO thread
holds one and waits for one to log it. `NotAllWait` proves the same bound for every
number of services and every queue length. For the code this means that 25
packets must be more than what five queues, five handlers and the IO thread hold
together; the length of the queues is set in the framework, so the repository
does not decide it.

## Fairness

`EmergencyChain`: each thread goes on when it can (weak fairness), since all
run at one priority and block again and again; a waiting thread gets a mutex
that is free again and again (strong fairness), since ChibiOS queues the threads
of a mutex. Nothing is assumed about twists, messages, inputs or restarts.
`InputService`: both threads go on when they can; the timeout of the process
thread is left out of the fairness, so only its queue wakes it. `HeldIsChecked`
alone assumes that the schedule runs again and again, as a premise: a line
without an edge is read by nothing else.
`PowerService`: of infinitely many attempts some succeed, for configuring and
for monitoring; a bus that is dead for good cannot be monitored at all.
`LineFollowsBattery` has as a premise that no expired watchdog stays unnoticed;
`power_watchdog` shows that one can.
`PacketPool`: a thread finishes what it began, and the semaphore serves its
waiting threads in turn (`CH_CFG_USE_SEMAPHORES_PRIORITY` is `FALSE`), hence
strong fairness of `SemWait`.
`DebugTcp`: the threads go on, and the mutexes serve in turn; `write()` returns
(the client reads or TCP gives up), and a client that closed its side has sent
a finite amount, so `read()` comes to its end. Nothing is assumed of broken
connections.

## Proofs

`EmergencyChainProofs` proves, for all sets of twists, messages and input
reasons, `TypeCorrect`, `StopIsNeverLost`, `LatchIsHeld` and
`WaitsAreNotCircular`. `StopNeverLost` is not inductive: that a motor may have
a duty in an emergency depends on who is inside `SetDuty` with an old answer,
on who holds `state_mutex_`, and on the event still to be broadcast, delivered
or dispatched. The invariant therefore adds which program points hold which
mutex, that at most one thread is in `SetDuty`, and where the announcement of a
raised emergency is for each point of the two updaters. The proof has one step
per action. `ChainImplementsStop` is the refinement of `EmergencyStop`, from
the same invariant: every step of the chain is a change, a grant, a halt, a
settlement or a stutter of the abstract robot.
`WaitsAreNotCircular` adds `SendInv`: whoever keeps `mtx_` is sending a
status. The inputs can always change, so TLC's own check for deadlock would not
find two threads that block each other; this property does.

`EmergencyTimeoutsProofs` proves, for all inputs, delays, messages, timeouts,
periods and slacks and every clock that is wide enough, `TypeCorrect`,
`SilenceIsNoticed`, `StoppedStaysEmergency` and `InputIsNoticed`. The invariant
says for each place of the emergency thread how old the silence, and an input
with a delay, can be while it is no emergency yet (`SilenceInv`, `DelayInv`, with
the rest of the sleep); for an input without a delay it says who will see it
(`PromptInv`): the announcement, the event, or a thread whose result has it. A
result without it is always followed by another one, because results are
applied in order.

`DiffDriveProofs` proves, for all speeds, periods and widths, `TypeCorrect`,
`CommandsTimeOut`, `CommandsArrive` and `OdometryIsExact`. The invariant relates
the age of the twist when the next tick is due to what is kept: a speed is
at most a timeout and a tick old, a duty that was sent in this period at most a
tick (`SpeedInv`, `SentInv`, `DutyInv`), so a speed is never old enough to look
fresh after the wrap. `ArriveInv`: after a tick, `duty_sent_` can only come from
an emergency, which dropped the speeds. `OdoInv`: the counters differ from the
last sample by the movement, up to one wrap, and `SignedDifference` shows that
the cast takes the wrap out.

`PowerServiceProofs` proves, for every limit and every watchdog period,
`TypeCorrect`, `ConfiguredIsProgrammed` and `CutIsOnlyWhenLow`. `CountInv` says
that the count is the number of low readings since the last good one among those
remembered.

`DebugTcpProofs` proves, for all sockets and threads, `TypeCorrect`,
`WritesAlwaysReachClient`, `NothingIsLeftBehind` and `WaitsAreNotCircular`.
The invariant says which place holds which mutex, and at which places of the
interface a socket is open and stored and the raw mode may be on.

`PacketPoolProofs` proves, for every number of packets and threads and every
queue length, `TypeCorrect`, `AllocationNeverHangs`, `PacketsAreConserved` and
`NotAllWait`.
The invariant `IInv` adds `PoolCount`: the pool holds one packet for each unit of
the semaphore and one for each thread between the halves of an allocation or a
deallocation. So a thread that has a unit finds a packet. That freeing adds
one to the pool needs `NoSharing`, and that allocating overwrites no packet
needs `OneAtATime`. For `NotAllWait`, a state in which everybody waits has all
packets in the queues, with the handlers or with the IO thread (`Holdings`); each
is then in a slot of its own, a place of a queue or the hand of a thread, and there
are fewer slots than packets (`SlotsCount`).

`InputConfigsProofs` proves, for every set of values and documents, of drivers
and lines, and every capacity of `all_inputs_`, `TypeCorrect`, `PointersStaySet`,
`ListsStayExact` and `InputsStayMeant`. The invariant says what the code knows at
each place of the document. `Where`: what the parser has passed is valid.
`Holds`: the inputs are, in order, those it has passed; each means what its
value says, and the one being read means what the part of it that was read says
(`PartRead`, inside "emergency" member by member); `driver` and `current` are
those of the place. `StepIsGood` shows, by kinds of callbacks, that `After` and
`Effect` carry this over to the next place, `RefusedIsInvalid` that a callback
which returns false has met something that makes the document invalid. Two
callbacks in one call are two such steps; only there can the first fail and the
end still be reached, which gives `BadLastList` (`EndAfterRefusal`).

`LastFrom`, the walk of `AddInput`, is a recursive function over a linked list.
That it is well defined, and what it returns, is proved by contradiction: each
link of an exact list leads to a later input, and a set of numbers that is not
empty has a least and, if bounded, a greatest element (from
`WellFoundedInduction`), so there is no first input for which the claim fails.
The walk ends at the last input of the driver, so appending there keeps
`ListsAreExact`.

`InputServiceProofs` proves, for every set of lines and configurations and every
queue length, `TypeCorrect`, `LiftMultipleIsExact`, `EdgesAreNotLost`,
`WakeupsAreNotLost` and `ActivationsReachMain`. The invariant adds `CounterInv`
(the counter is the number of active lift inputs; `CountFollows` shows that one
`Update` changes both by the same amount), `LineInv` (a stopped service has no
events, so a start forgets no edge) and `ThreadInv` (no loop is left half
done, and the item of an edge during `tick` stays in the queue until the thread
waits again).

The assumptions are those on the constants (named `...Assumption`), which TLC
evaluates in every run. Only model-checked: everything under fairness
(`EmergencyStopsMotors`, `PressIsChecked`, `HeldIsChecked`,
`LineFollowsBattery`, `AllocationSucceeds`, `ClientIsLetGo`), which is beyond
the prover. Every invariant and every action property that a run checks is also
proved.

## Not modelled

The xbot framework is a submodule without content here; ChibiOS, lwIP, littlefs,
mongoose, ETL and lwjson are third party, except for the event broadcast of the
kernel. Floating point arithmetic (twist to wheel speed, ticks to m/s, register
to volt) is not modelled: the properties do not depend on its values. LEDs,
EEPROM, discovery and REST API are plain I/O without shared state. `main()` up
to `DispatchEvents`, the mount of the file system and the start of the IMU run
one call after the other; each waits for one device or stops for good. The text
that `LogErrorPosition` builds is only logged. The UDP debug interface has one
socket for its life and no client to let go of: it enables the raw mode with the
first datagram and never leaves it.

## Plan

1. An ESC driver that answers `RequestStatus` later than in the call: the two
   callbacks, the validity of the two states and the "disconnected" message of
   the drive (`ProcessStatusUpdate`) would then interleave with ticks. The PWM
   driver of this repository does not do so.
2. `packetAppendData` and the empty items of `SendEvent` in one module with
   `PacketPool`, once the framework's source fixes the length of the queues.
