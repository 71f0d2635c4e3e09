--------------------------- MODULE EmergencyChain ---------------------------
(***************************************************************************)
(* The emergency stop, from the place where a reason is raised to the      *)
(* place where the PWM duty of the two wheel motors becomes 0.             *)
(*                                                                         *)
(* Four threads take part (all run at NORMALPRIO):                         *)
(*   "emergency"  the process thread of EmergencyService                   *)
(*   "main"       main(), after boot the loop of DispatchEvents            *)
(*   "drive"      the process thread of DiffDriveService                   *)
(*   "input"      the process thread of InputService                       *)
(* EmergencyService::UpdateEmergency runs in "emergency" and, through      *)
(* CheckInputs, in "main". DiffDriveService::SetDuty runs in "drive" and,  *)
(* through OnEmergencyChangedEvent, in "main".                             *)
(*                                                                         *)
(* The steps of a thread are split wherever another thread can get in: at  *)
(* every mutex operation, event call and motor write. The threads are      *)
(* interleaved freely, which includes every schedule of the cooperative    *)
(* kernel (CH_CFG_TIME_QUANTUM is 0). Time is abstracted to the outcome of *)
(* the comparisons the code makes with it.                                 *)
(***************************************************************************)
EXTENDS Integers

CONSTANTS Twist,             \* the wheel speeds a twist can be turned into
          HighLevelMessage,  \* <<add, clear>> pairs the high level sends
          InputReasons       \* what GetEmergencyReasons can return

\* EmergencyReason (services/emergency_service.json)
Reason == {"LATCH", "TIMEOUT_INPUTS", "STOP", "LIFT", "LIFT_MULTIPLE",
           "COLLISION", "TIMEOUT_HIGH_LEVEL", "HIGH_LEVEL"}

\* Mutant of InputMask: CheckInputs also clears the latch
InputMaskWithLatch == {"STOP", "LIFT", "LIFT_MULTIPLE", "COLLISION", "LATCH"}

\* The reasons an input can carry, and the mask CheckInputs clears
InputMask == {"STOP", "LIFT", "LIFT_MULTIPLE", "COLLISION"}

\* The mask CheckTimeouts clears
TimeoutMask == {"TIMEOUT_HIGH_LEVEL", "TIMEOUT_INPUTS"}

\* The flags of mower_events
MowerEvents == {"EMERGENCY_CHANGED", "INPUTS_CHANGED"}

Thread  == {"emergency", "main", "drive", "input"}
Updater == {"emergency", "main"}     \* they run UpdateEmergency
Setter  == {"drive", "main"}         \* they run DiffDriveService::SetDuty
Motor   == {"left", "right"}

\* What OnLoop does
Check == {"CheckInputs", "CheckTimeouts"}

NoThread == "none"
Standstill == [m \in Motor |-> 0]

ASSUME TwistAssumption == Twist \subseteq [Motor -> Int]
ASSUME MessageAssumption ==
         HighLevelMessage \subseteq (SUBSET Reason) \X (SUBSET Reason)
ASSUME InputAssumption ==
         /\ InputReasons \subseteq SUBSET (InputMask \cup {"LATCH"})
         /\ {} \in InputReasons

VARIABLES
  \* EmergencyService
  reasons,       \* reasons_
  mtx,           \* who holds mtx_ across the transaction of SendStatus
  call,          \* per updater: the arguments UpdateEmergency runs with
  rest,          \* the checks OnLoop has yet to make
  \* InputService, seen through GetEmergencyReasons
  inputReasons,  \* what GetEmergencyReasons(now) would return
  \* mower_events and its one listener, registered by DispatchEvents
  flags,         \* the listener's flags
  eventBit,      \* Events::GLOBAL is pending for the main thread
  got,           \* flags this turn of DispatchEvents has yet to dispatch
  \* DiffDriveService
  stateMtx,      \* who holds state_mutex_
  speed,         \* speed_l_, speed_r_
  duty,          \* duty last given to the two motor drivers
  dutySent,      \* duty_sent_
  inTick,        \* the drive thread is in tick()
  seen,          \* setters whose SetDuty has "emergency" true
  pc             \* per thread: where it is

emVars    == <<reasons, mtx, call, rest>>
eventVars == <<flags, eventBit, got>>
driveVars == <<stateMtx, speed, duty, dutySent, inTick, seen>>
vars == <<emVars, inputReasons, eventVars, driveVars, pc>>

NoCall == [by |-> "none", add |-> {}, clear |-> {}]

Init ==
  /\ reasons = {"TIMEOUT_INPUTS", "TIMEOUT_HIGH_LEVEL"}
  /\ mtx = NoThread
  /\ call = [t \in Updater |-> NoCall] /\ rest = {}
  /\ inputReasons = {}
  /\ flags = {} /\ eventBit = FALSE /\ got = {}
  /\ stateMtx = NoThread
  /\ speed = Standstill /\ duty = Standstill
  /\ dutySent = FALSE /\ inTick = FALSE
  /\ seen = {}
  /\ pc = [t \in Thread |-> IF t = "main" THEN "Wait" ELSE "Idle"]

Goto(t, label) == pc' = [pc EXCEPT ![t] = label]

-----------------------------------------------------------------------------
(* mower_events *)

\* Mutant of Broadcast: a thread that is not waiting is not signalled
BroadcastToWaiting(f) ==
  /\ flags' = flags \cup {f}
  /\ eventBit' = (eventBit \/ pc["main"] = "Wait")
  /\ UNCHANGED got

\* chEvtBroadcastFlags: or the flag into the listener, signal its thread
Broadcast(f) ==
  /\ flags' = flags \cup {f}
  /\ eventBit' = TRUE
  /\ UNCHANGED got

-----------------------------------------------------------------------------
(* EmergencyService: the update, run by thread t *)

\* Mutant of After: main goes on like OnLoop
AfterLoop(t) == IF rest = {} THEN {"Idle"} ELSE rest

\* Where t goes on when UpdateEmergency or SendStatus returns: OnLoop with the
\* other check
After(t) ==
  IF t = "main" THEN {"Wait"}
  ELSE IF rest = {} THEN {"Idle"} ELSE rest

Return(t) ==
  /\ \E label \in After(t) : Goto(t, label)
  /\ call' = [call EXCEPT ![t] = NoCall]
  /\ rest' = IF t = "main" THEN rest ELSE {}

\* CheckInputs up to its call of UpdateEmergency. The reasons are read under
\* the input service's mutex, which is released again before the update.
CheckInputs(t) ==
  /\ pc[t] = "CheckInputs"
  /\ call' = [call EXCEPT ![t] = [by    |-> "CheckInputs",
                                  add   |-> inputReasons,
                                  clear |-> InputMask]]
  /\ Goto(t, "Update")
  /\ UNCHANGED <<reasons, mtx, rest, inputReasons, eventVars, driveVars>>

\* The critical section of UpdateEmergency, with its early return
UpdateEmergency(t) ==
  /\ pc[t] = "Update"
  /\ mtx = NoThread
  /\ reasons' = (reasons \ call[t].clear) \cup call[t].add
  /\ IF reasons' = reasons
     THEN Return(t)
     ELSE Goto(t, "Broadcast") /\ UNCHANGED <<call, rest>>
  /\ UNCHANGED <<mtx, inputReasons, eventVars, driveVars>>

\* UpdateEmergency after its critical section: tell the listener
BroadcastEmergencyChanged(t) ==
  /\ pc[t] = "Broadcast"
  /\ Broadcast("EMERGENCY_CHANGED")
  /\ Goto(t, "SendStatus")
  /\ UNCHANGED <<emVars, inputReasons, driveVars>>

\* SendStatus takes mtx_ and keeps it while the packet is sent
SendStatus(t) ==
  /\ pc[t] = "SendStatus"
  /\ mtx = NoThread
  /\ mtx' = t
  /\ Goto(t, "Sending")
  /\ UNCHANGED <<reasons, call, rest, inputReasons, eventVars, driveVars>>

\* CommitTransaction has returned: mtx_ is released
StatusSent(t) ==
  /\ pc[t] = "Sending"
  /\ mtx' = NoThread
  /\ Return(t)
  /\ UNCHANGED <<reasons, inputReasons, eventVars, driveVars>>

Update(t) == \/ CheckInputs(t)
             \/ UpdateEmergency(t)
             \/ BroadcastEmergencyChanged(t)
             \/ SendStatus(t)
             \/ StatusSent(t)

-----------------------------------------------------------------------------
(* EmergencyService: the process thread. Whether the service is running is  *)
(* not tracked: its handlers may be called in any order.                    *)

EmergencyOnStop ==
  /\ pc["emergency"] = "Idle"
  /\ call' = [call EXCEPT !["emergency"] = [by    |-> "OnStop",
                                            add   |-> {"TIMEOUT_HIGH_LEVEL"},
                                            clear |-> {}]]
  /\ Goto("emergency", "Update")
  /\ UNCHANGED <<reasons, mtx, rest, inputReasons, eventVars, driveVars>>

\* OnLoop calls both checks in the arguments of etl::min, in either order
OnLoop ==
  /\ pc["emergency"] = "Idle"
  /\ \E check \in Check :
       /\ Goto("emergency", check)
       /\ rest' = Check \ {check}
  /\ UNCHANGED <<reasons, mtx, call, inputReasons, eventVars, driveVars>>

\* Was there a high level message within the last second?
CheckTimeouts ==
  /\ pc["emergency"] = "CheckTimeouts"
  /\ mtx = NoThread
  /\ \E late \in {{}, {"TIMEOUT_HIGH_LEVEL"}} :
       call' = [call EXCEPT !["emergency"] = [by    |-> "CheckTimeouts",
                                              add   |-> late,
                                              clear |-> TimeoutMask]]
  /\ Goto("emergency", "Update")
  /\ UNCHANGED <<reasons, mtx, rest, inputReasons, eventVars, driveVars>>

\* A message of the high level: new_value[0] is added, new_value[1] cleared.
\* The time it came is recorded under mtx_, see EmergencyTimeouts.
OnHighLevelEmergencyChanged ==
  /\ pc["emergency"] = "Idle"
  /\ mtx = NoThread
  /\ \E m \in HighLevelMessage :
       call' = [call EXCEPT !["emergency"] = [by    |-> "HighLevel",
                                              add   |-> m[1],
                                              clear |-> m[2]]]
  /\ Goto("emergency", "Update")
  /\ UNCHANGED <<reasons, mtx, rest, inputReasons, eventVars, driveVars>>

\* status_schedule_, once a second
StatusSchedule ==
  /\ pc["emergency"] = "Idle"
  /\ Goto("emergency", "SendStatus")
  /\ UNCHANGED <<emVars, inputReasons, eventVars, driveVars>>

Emergency == \/ EmergencyOnStop
             \/ OnLoop
             \/ CheckTimeouts
             \/ OnHighLevelEmergencyChanged
             \/ StatusSchedule

-----------------------------------------------------------------------------
(* DiffDriveService::SetDuty, run by thread t with state_mutex_ held *)

GetEmergency == reasons # {}

\* Mutant of SetDuty: an emergency whose event is pending is left to the event
SetDutyTrustingEvent(t) ==
  /\ pc[t] = "SetDuty"
  /\ mtx = NoThread
  /\ seen' = IF GetEmergency /\ "EMERGENCY_CHANGED" \notin flags THEN seen \cup {t} ELSE seen
  /\ Goto(t, "SetLeft")
  /\ UNCHANGED <<emVars, inputReasons, eventVars, stateMtx, speed, duty,
                 dutySent, inTick>>

SetDuty(t) ==
  /\ pc[t] = "SetDuty"
  /\ mtx = NoThread
  /\ seen' = IF GetEmergency THEN seen \cup {t} ELSE seen
  /\ Goto(t, "SetLeft")
  /\ UNCHANGED <<emVars, inputReasons, eventVars, stateMtx, speed, duty,
                 dutySent, inTick>>

SetLeft(t) ==
  /\ pc[t] = "SetLeft"
  /\ duty' = [duty EXCEPT !["left"] = IF t \in seen THEN 0 ELSE speed["left"]]
  /\ Goto(t, "SetRight")
  /\ UNCHANGED <<emVars, inputReasons, eventVars, stateMtx, speed, dutySent,
                 inTick, seen>>

\* The second motor, duty_sent_ = true, and the return of SetDuty
SetRight(t) ==
  /\ pc[t] = "SetRight"
  /\ duty' = [duty EXCEPT !["right"] = IF t \in seen THEN 0 ELSE speed["right"]]
  /\ dutySent' = TRUE
  /\ seen' = seen \ {t}
  /\ Goto(t, "Unlock")
  /\ UNCHANGED <<emVars, inputReasons, eventVars, stateMtx, speed, inTick>>

Set(t) == SetDuty(t) \/ SetLeft(t) \/ SetRight(t)

-----------------------------------------------------------------------------
(* DispatchEvents: the main thread *)

\* chEvtWaitAnyTimeout returns and clears the event bit
WaitAny ==
  /\ pc["main"] = "Wait" /\ eventBit
  /\ eventBit' = FALSE
  /\ Goto("main", "GetFlags")
  /\ UNCHANGED <<emVars, inputReasons, flags, got, driveVars>>

GetAndClearFlags ==
  /\ pc["main"] = "GetFlags"
  /\ got' = flags
  /\ flags' = {}
  /\ Goto("main", "Dispatch")
  /\ UNCHANGED <<emVars, inputReasons, eventBit, driveVars>>

\* Mutant of DispatchEmergencyChanged: nothing to do when no speed is commanded
DispatchEmergencyChangedIfCommanded ==
  /\ pc["main"] = "Dispatch" /\ "EMERGENCY_CHANGED" \in got
  /\ mtx = NoThread
  /\ got' = got \ {"EMERGENCY_CHANGED"}
  /\ Goto("main", IF GetEmergency /\ speed # Standstill THEN "LockState" ELSE "Dispatch")
  /\ UNCHANGED <<emVars, inputReasons, flags, eventBit, driveVars>>

\* Mutant of DispatchEmergencyChanged: mtx_ is kept until the speeds are zeroed
DispatchEmergencyChangedLocking ==
  /\ pc["main"] = "Dispatch" /\ "EMERGENCY_CHANGED" \in got
  /\ mtx = NoThread
  /\ mtx' = IF GetEmergency THEN "main" ELSE NoThread
  /\ got' = got \ {"EMERGENCY_CHANGED"}
  /\ Goto("main", IF GetEmergency THEN "LockState" ELSE "Dispatch")
  /\ UNCHANGED <<reasons, call, rest, inputReasons, flags, eventBit, driveVars>>

\* EMERGENCY_CHANGED: the first test of OnEmergencyChangedEvent
DispatchEmergencyChanged ==
  /\ pc["main"] = "Dispatch" /\ "EMERGENCY_CHANGED" \in got
  /\ mtx = NoThread
  /\ got' = got \ {"EMERGENCY_CHANGED"}
  /\ Goto("main", IF GetEmergency THEN "LockState" ELSE "Dispatch")
  /\ UNCHANGED <<emVars, inputReasons, flags, eventBit, driveVars>>

OnEmergencyChangedEvent ==
  /\ pc["main"] = "LockState"
  /\ stateMtx = NoThread
  /\ stateMtx' = "main"
  /\ speed' = Standstill
  /\ Goto("main", "SetDuty")
  /\ UNCHANGED <<emVars, inputReasons, eventVars, duty, dutySent, inTick, seen>>

OnEmergencyChangedReturns ==
  /\ pc["main"] = "Unlock"
  /\ stateMtx' = NoThread
  /\ Goto("main", "Dispatch")
  /\ UNCHANGED <<emVars, inputReasons, eventVars, speed, duty, dutySent, inTick, seen>>

\* After that, INPUTS_CHANGED: OnInputsChangedEvent sends a status, then
\* CheckInputs(now), whose returned block time is dropped. Neither: wait again.
DispatchInputsChanged ==
  /\ pc["main"] = "Dispatch" /\ "EMERGENCY_CHANGED" \notin got
  /\ Goto("main", IF "INPUTS_CHANGED" \in got THEN "CheckInputs" ELSE "Wait")
  /\ got' = {}
  /\ UNCHANGED <<emVars, inputReasons, flags, eventBit, driveVars>>

Main == \/ WaitAny
        \/ GetAndClearFlags
        \/ DispatchEmergencyChanged
        \/ OnEmergencyChangedEvent
        \/ OnEmergencyChangedReturns
        \/ DispatchInputsChanged

-----------------------------------------------------------------------------
(* DiffDriveService: the process thread *)

\* OnStart and OnStop zero the speeds without taking state_mutex_, and leave
\* the motors as they are
DriveOnStartOrOnStop ==
  /\ pc["drive"] = "Idle"
  /\ speed' = Standstill
  /\ UNCHANGED <<emVars, inputReasons, eventVars, stateMtx, duty, dutySent,
                 inTick, seen, pc>>

\* tick() up to its call of SetDuty, which it skips if a duty was sent since
\* the last tick
Tick ==
  /\ pc["drive"] = "Idle"
  /\ stateMtx = NoThread
  /\ stateMtx' = "drive"
  /\ inTick' = TRUE
  /\ speed' \in {speed, Standstill}     \* Standstill: no twist for a second
  /\ Goto("drive", IF dutySent THEN "Unlock" ELSE "SetDuty")
  /\ UNCHANGED <<emVars, inputReasons, eventVars, duty, dutySent, seen>>

\* A twist of six values, clamped to a speed for each wheel
OnControlTwistChanged ==
  /\ pc["drive"] = "Idle"
  /\ stateMtx = NoThread
  /\ stateMtx' = "drive"
  /\ speed' \in Twist
  /\ Goto("drive", IF dutySent THEN "Unlock" ELSE "SetDuty")
  /\ UNCHANGED <<emVars, inputReasons, eventVars, duty, dutySent, inTick, seen>>

\* The rest of tick() and of OnControlTwistChanged. tick() asks both drivers
\* for their status (see DiffDrive) and clears duty_sent_.
DriveUnlock ==
  /\ pc["drive"] = "Unlock"
  /\ stateMtx' = NoThread
  /\ dutySent' = (dutySent /\ ~inTick)
  /\ inTick' = FALSE
  /\ Goto("drive", "Idle")
  /\ UNCHANGED <<emVars, inputReasons, eventVars, speed, duty, seen>>

Drive == \/ DriveOnStartOrOnStop
         \/ Tick
         \/ OnControlTwistChanged
         \/ DriveUnlock

-----------------------------------------------------------------------------
(* InputService, and time *)

\* Input::Update by the input thread: the input (and with it LIFT_MULTIPLE)
\* changes at once, INPUTS_CHANGED is broadcast afterwards
InputUpdate ==
  /\ pc["input"] = "Idle"
  /\ inputReasons' \in InputReasons
  /\ Goto("input", "Broadcast")
  /\ UNCHANGED <<emVars, eventVars, driveVars>>

BroadcastInputsChanged ==
  /\ pc["input"] = "Broadcast"
  /\ Broadcast("INPUTS_CHANGED")
  /\ Goto("input", "Idle")
  /\ UNCHANGED <<emVars, inputReasons, driveVars>>

\* A new input configuration starts with every input inactive
OnRegisterInputConfigsChanged ==
  /\ pc["input"] = "Idle"
  /\ inputReasons' = {}
  /\ UNCHANGED <<emVars, eventVars, driveVars, pc>>

\* The emergency delay of an active input is over, or getTimeMicros() passes
\* 2^32 since its activation and the delay starts again. Nothing is broadcast.
InputTimePasses ==
  /\ inputReasons' \in {r \in InputReasons : inputReasons \subseteq r \/ r \subseteq inputReasons}
  /\ UNCHANGED <<emVars, eventVars, driveVars, pc>>

Input == \/ InputUpdate
         \/ BroadcastInputsChanged
         \/ OnRegisterInputConfigsChanged
         \/ InputTimePasses

Next == \/ \E t \in Updater : Update(t)
        \/ \E t \in Setter : Set(t)
        \/ Emergency
        \/ Main
        \/ Drive
        \/ Input

Spec == Init /\ [][Next]_vars

(***************************************************************************)
(* Fairness. The kernel runs every ready thread, so a thread in the middle *)
(* of a handler makes its next step (weak fairness). chMtxUnlock hands a   *)
(* mutex to its first waiter, so the steps on the way to the motors that   *)
(* wait for mtx_ or state_mutex_ are made even when other threads keep     *)
(* taking the mutex in between (strong fairness). Nothing is assumed of    *)
(* the high level, of the inputs, of the timers, or of how often the       *)
(* services' loops run.                                                    *)
(***************************************************************************)
Fairness ==
  /\ WF_vars(Update("emergency"))
  /\ SF_vars(Update("main"))
  /\ \A t \in Setter : SF_vars(Set(t))
  /\ SF_vars(Main)
  /\ WF_vars(DriveUnlock)

FairSpec == Spec /\ Fairness

-----------------------------------------------------------------------------
(* Properties *)

Call == [by    : {"none", "CheckInputs", "CheckTimeouts", "HighLevel", "OnStop"},
         add   : SUBSET Reason,
         clear : SUBSET Reason]

EmergencyLabel == {"Idle", "CheckInputs", "CheckTimeouts", "Update", "Broadcast",
                   "SendStatus", "Sending"}
MainLabel == {"Wait", "GetFlags", "Dispatch", "LockState", "SetDuty", "SetLeft",
              "SetRight", "Unlock", "CheckInputs", "Update", "Broadcast",
              "SendStatus", "Sending"}
DriveLabel == {"Idle", "SetDuty", "SetLeft", "SetRight", "Unlock"}
InputLabel == {"Idle", "Broadcast"}
Label == EmergencyLabel \cup MainLabel \cup DriveLabel \cup InputLabel

EmTypeOK ==
  /\ reasons \subseteq Reason
  /\ mtx \in Updater \cup {NoThread}
  /\ call \in [Updater -> Call] /\ rest \subseteq Check
  /\ inputReasons \in InputReasons

EventTypeOK ==
  /\ flags \subseteq MowerEvents
  /\ eventBit \in BOOLEAN
  /\ got \subseteq MowerEvents

DriveTypeOK ==
  /\ stateMtx \in Setter \cup {NoThread}
  /\ speed \in [Motor -> Int]
  /\ duty \in [Motor -> Int]
  /\ dutySent \in BOOLEAN
  /\ inTick \in BOOLEAN
  /\ seen \subseteq Setter

PcTypeOK ==
  /\ pc \in [Thread -> Label]
  /\ pc["emergency"] \in EmergencyLabel
  /\ pc["main"] \in MainLabel
  /\ pc["drive"] \in DriveLabel
  /\ pc["input"] \in InputLabel

\* Every variable keeps its type, and each thread stays within its own
\* program: the code main and the emergency thread share returns each of
\* them to where it came from.
TypeOK == EmTypeOK /\ EventTypeOK /\ DriveTypeOK /\ PcTypeOK

\* The main thread is about to be woken for, or is working on, the event
\* that stops the motors.
StopPending ==
  \/ \E t \in Updater : pc[t] = "Broadcast"
  \/ /\ "EMERGENCY_CHANGED" \in flags
     /\ eventBit \/ pc["main"] = "GetFlags"
  \/ pc["main"] = "Dispatch" /\ "EMERGENCY_CHANGED" \in got
  \/ pc["main"] \in {"LockState", "SetDuty", "SetLeft", "SetRight"}

\* The emergency stop is never lost: whenever a reason is set and a motor
\* still has a duty, the step that stops it is already on its way
\* (UpdateEmergency's broadcast, DispatchEvents, OnEmergencyChangedEvent).
\* A twist or tick that read "no emergency" just before cannot outlive it.
StopNeverLost == (reasons # {} /\ duty # Standstill) => StopPending

\* A motor has a duty, or the drive thread is about to give it one.
Moving == \/ duty["left"] # 0 \/ duty["right"] # 0
          \/ /\ pc["drive"] \in {"SetLeft", "SetRight"} /\ "drive" \notin seen
             /\ speed["left"] # 0 \/ speed["right"] # 0

Stop == INSTANCE EmergencyStop WITH raised <- reasons # {}, moving <- Moving,
                                    owed <- StopPending

\* The four threads together implement EmergencyStop. So a duty is granted in
\* one instant, by the GetEmergency of SetDuty, although it is written later;
\* and no thread ends or takes over the stop of another, however often the
\* emergency comes and goes in between.
ImplementsStop == Stop!Spec

\* Thread t needs mtx_ to go on
NeedsMtx(t) ==
  \/ pc[t] \in {"CheckTimeouts", "Update", "SendStatus", "SetDuty"}
  \/ t = "main" /\ pc[t] = "Dispatch" /\ "EMERGENCY_CHANGED" \in got

\* The thread that t waits for
Blocker(t) ==
  IF NeedsMtx(t) THEN mtx ELSE IF pc[t] = "LockState" THEN stateMtx ELSE NoThread

Blocked(t) == Blocker(t) # NoThread

\* No thread waits for ever: whoever waits for a mutex waits for a thread that
\* can go on, or for one that waits for such a thread. (OnEmergencyChangedEvent
\* can wait for a tick, whose SetDuty waits for mtx_ until a status is sent.)
NoCircularWait ==
  \A t \in Thread :
    Blocked(t) => ~Blocked(Blocker(t)) \/ ~Blocked(Blocker(Blocker(t)))

\* LATCH is only ever released by a message of the high level: neither
\* CheckInputs (the input is released) nor CheckTimeouts takes it out.
LatchHeld ==
  [][("LATCH" \in reasons /\ "LATCH" \notin reasons') =>
       /\ pc["emergency"] = "Update"
       /\ call["emergency"].by = "HighLevel"]_vars

\* Every emergency stops the motors, unless it is cleared again: the event
\* reaches DiffDriveService whatever the other threads do meanwhile.
EmergencyStopsMotors == reasons # {} ~> (duty = Standstill \/ reasons = {})

====
