------------------------ MODULE EmergencyChainProofs ------------------------
(***************************************************************************)
(* Proofs about EmergencyChain, for every set of twists, of high level     *)
(* messages and of input reasons.                                          *)
(***************************************************************************)
EXTENDS EmergencyChain, TLAPS

\* The labels at which a setter holds state_mutex_
Locked == {"SetDuty", "SetLeft", "SetRight", "Unlock"}

\* state_mutex_ is held exactly by the thread that is inside its section.
MutexInv == \A t \in Setter : stateMtx = t <=> pc[t] \in Locked

\* While OnEmergencyChangedEvent holds the mutex the speeds stay 0, so what
\* its SetDuty writes is 0 even if the emergency has just been cleared.
HandlerInv ==
  /\ pc["main"] \in {"SetDuty", "SetLeft", "SetRight"} => speed = Standstill
  /\ pc["main"] = "SetRight" => duty["left"] = 0

\* A flag of the listener never waits without a wakeup for the main thread.
WakeupInv == flags # {} => eventBit \/ pc["main"] = "GetFlags"

StopInv == reasons # {} /\ Moving => StopPending

IInv == TypeOK /\ MutexInv /\ HandlerInv /\ WakeupInv /\ StopInv

-----------------------------------------------------------------------------

\* The initial states are well typed.
LEMMA TypeInit == Init => TypeOK
<1> SUFFICES ASSUME Init PROVE TypeOK
  OBVIOUS
<1>1. EmTypeOK
  BY InputAssumption DEF Init, EmTypeOK, Reason, Updater, NoThread, NoCall, Call
<1>2. EventTypeOK
  BY DEF Init, EventTypeOK, MowerEvents
<1>3. DriveTypeOK
  <2>1. speed \in [Motor -> Int] /\ duty \in [Motor -> Int]
    BY DEF Init, Standstill, Motor
  <2>2. stateMtx \in Setter \cup {NoThread} /\ seen \subseteq Setter
    BY DEF Init, Setter, NoThread
  <2>3. dutySent \in BOOLEAN /\ inTick \in BOOLEAN
    BY DEF Init
  <2> QED
    BY <2>1, <2>2, <2>3 DEF DriveTypeOK
<1>4. PcTypeOK
  <2>1. pc \in [Thread -> Label]
    BY DEF Init, Label, EmergencyLabel, MainLabel
  <2>2. /\ pc["emergency"] = "Idle" /\ pc["main"] = "Wait"
        /\ pc["drive"] = "Idle" /\ pc["input"] = "Idle"
    BY DEF Init, Thread
  <2> QED
    BY <2>1, <2>2 DEF PcTypeOK, EmergencyLabel, MainLabel, DriveLabel, InputLabel
<1> QED
  BY <1>1, <1>2, <1>3, <1>4 DEF TypeOK

\* Every step keeps the types.
LEMMA TypeNext == TypeOK /\ [Next]_vars => TypeOK'
<1> SUFFICES ASSUME TypeOK, [Next]_vars PROVE TypeOK'
  OBVIOUS
<1> USE DEF TypeOK, EmTypeOK, EventTypeOK, DriveTypeOK, PcTypeOK, Goto,
            emVars, eventVars, driveVars
<1> USE DEF Check, Reason, InputMask, TimeoutMask, MowerEvents, Thread, Updater, Setter, Motor,
            NoThread, Standstill, NoCall, Call, Label, EmergencyLabel, MainLabel,
            DriveLabel, InputLabel
<1>1. ASSUME NEW t \in Updater, CheckInputs(t) PROVE TypeOK'
  BY <1>1, InputAssumption DEF CheckInputs
<1>2. ASSUME NEW t \in Updater, UpdateEmergency(t) PROVE TypeOK'
  <2>1. call[t].add \subseteq Reason
    OBVIOUS
  <2>2. reasons' \subseteq Reason
    BY <1>2, <2>1 DEF UpdateEmergency
  <2>3. CASE reasons' = reasons
    <3>1. Return(t) /\ UNCHANGED <<mtx, inputReasons, eventVars, driveVars>>
      BY <1>2, <2>3 DEF UpdateEmergency
    <3>2. CASE t = "main"
      BY <2>2, <3>1, <3>2 DEF Return, After
    <3>3. CASE t = "emergency"
      BY <2>2, <3>1, <3>3 DEF Return, After
    <3> QED
      BY <3>2, <3>3
  <2>4. CASE reasons' # reasons
    <3>1. /\ Goto(t, "Broadcast")
          /\ UNCHANGED <<call, rest, mtx, inputReasons, eventVars, driveVars>>
      BY <1>2, <2>4 DEF UpdateEmergency
    <3> QED
      BY <2>2, <3>1
  <2> QED
    BY <2>3, <2>4
<1>3. ASSUME NEW t \in Updater, BroadcastEmergencyChanged(t) PROVE TypeOK'
  BY <1>3 DEF BroadcastEmergencyChanged, Broadcast
<1>4. ASSUME NEW t \in Updater, SendStatus(t) PROVE TypeOK'
  BY <1>4 DEF SendStatus
<1>5. ASSUME NEW t \in Updater, StatusSent(t) PROVE TypeOK'
  BY <1>5 DEF StatusSent, Return, After
<1>6. ASSUME NEW t \in Setter, SetDuty(t) PROVE TypeOK'
  BY <1>6 DEF SetDuty, GetEmergency
<1>7. ASSUME NEW t \in Setter, SetLeft(t) PROVE TypeOK'
  BY <1>7 DEF SetLeft
<1>8. ASSUME NEW t \in Setter, SetRight(t) PROVE TypeOK'
  BY <1>8 DEF SetRight
<1>9. ASSUME EmergencyOnStop PROVE TypeOK'
  BY <1>9 DEF EmergencyOnStop
<1>10. ASSUME OnLoop PROVE TypeOK'
  BY <1>10 DEF OnLoop
<1>11. ASSUME CheckTimeouts PROVE TypeOK'
  BY <1>11 DEF CheckTimeouts
<1>12. ASSUME OnHighLevelEmergencyChanged PROVE TypeOK'
  BY <1>12, MessageAssumption DEF OnHighLevelEmergencyChanged
<1>13. ASSUME StatusSchedule PROVE TypeOK'
  BY <1>13 DEF StatusSchedule
<1>14. ASSUME WaitAny PROVE TypeOK'
  BY <1>14 DEF WaitAny
<1>15. ASSUME GetAndClearFlags PROVE TypeOK'
  BY <1>15 DEF GetAndClearFlags
<1>16. ASSUME DispatchEmergencyChanged PROVE TypeOK'
  BY <1>16 DEF DispatchEmergencyChanged, GetEmergency
<1>17. ASSUME OnEmergencyChangedEvent PROVE TypeOK'
  BY <1>17 DEF OnEmergencyChangedEvent
<1>18. ASSUME OnEmergencyChangedReturns PROVE TypeOK'
  BY <1>18 DEF OnEmergencyChangedReturns
<1>19. ASSUME DispatchInputsChanged PROVE TypeOK'
  BY <1>19 DEF DispatchInputsChanged
<1>20. ASSUME DriveOnStartOrOnStop PROVE TypeOK'
  BY <1>20 DEF DriveOnStartOrOnStop
<1>21. ASSUME Tick PROVE TypeOK'
  BY <1>21 DEF Tick
<1>22. ASSUME OnControlTwistChanged PROVE TypeOK'
  BY <1>22, TwistAssumption DEF OnControlTwistChanged
<1>23. ASSUME DriveUnlock PROVE TypeOK'
  BY <1>23 DEF DriveUnlock
<1>24. ASSUME InputUpdate PROVE TypeOK'
  BY <1>24 DEF InputUpdate
<1>25. ASSUME BroadcastInputsChanged PROVE TypeOK'
  BY <1>25 DEF BroadcastInputsChanged, Broadcast
<1>26. ASSUME OnRegisterInputConfigsChanged PROVE TypeOK'
  BY <1>26, InputAssumption DEF OnRegisterInputConfigsChanged
<1>27. ASSUME InputTimePasses PROVE TypeOK'
  BY <1>27 DEF InputTimePasses
<1>28. CASE UNCHANGED vars
  BY <1>28 DEF vars
<1> QED
  BY <1>1, <1>2, <1>3, <1>4, <1>5, <1>6, <1>7, <1>8, <1>9, <1>10, <1>11, <1>12,
     <1>13, <1>14, <1>15, <1>16, <1>17, <1>18, <1>19, <1>20, <1>21, <1>22, <1>23,
     <1>24, <1>25, <1>26, <1>27, <1>28
  DEF Next, Update, Set, Emergency, Main, Drive, Input

\* The types hold in every reachable state.
THEOREM TypeCorrect == Spec => []TypeOK
<1>1. Init => TypeOK
  BY TypeInit
<1>2. TypeOK /\ [Next]_vars => TypeOK'
  BY TypeNext
<1> QED
  BY <1>1, <1>2, PTL DEF Spec

-----------------------------------------------------------------------------

\* Nothing is pending and nothing moves in the initial states.
LEMMA InvInit == Init => IInv
<1> SUFFICES ASSUME Init PROVE IInv
  OBVIOUS
<1>1. TypeOK
  BY TypeInit
<1>2. /\ pc["main"] = "Wait" /\ pc["drive"] = "Idle"
      /\ duty["left"] = 0 /\ duty["right"] = 0
  BY DEF Init, Thread, Standstill, Motor
<1> QED
  BY <1>1, <1>2 DEF Init, IInv, MutexInv, HandlerInv, WakeupInv, StopInv, Moving, Setter,
     Locked, NoThread

\* Every step keeps the conjuncts that are not about types.
LEMMA InvNext ==
  IInv /\ [Next]_vars => (MutexInv /\ HandlerInv /\ WakeupInv /\ StopInv)'
<1> DEFINE Goal == (MutexInv /\ HandlerInv /\ WakeupInv /\ StopInv)'
<1> SUFFICES ASSUME IInv, [Next]_vars PROVE Goal
  OBVIOUS
<1> USE DEF IInv, TypeOK, EmTypeOK, EventTypeOK, DriveTypeOK, PcTypeOK,
            MutexInv, HandlerInv, WakeupInv, StopInv, Moving, StopPending, Locked,
            Goto, emVars, eventVars, driveVars
<1> USE DEF Thread, Updater, Setter, Motor, NoThread, Standstill, MowerEvents
<1>1. ASSUME NEW t \in Updater, CheckInputs(t) PROVE Goal
  BY <1>1 DEF CheckInputs
<1>2. ASSUME NEW t \in Updater, UpdateEmergency(t) PROVE Goal
  BY <1>2 DEF UpdateEmergency, Return, After
<1>3. ASSUME NEW t \in Updater, BroadcastEmergencyChanged(t) PROVE Goal
  BY <1>3 DEF BroadcastEmergencyChanged, Broadcast
<1>4. ASSUME NEW t \in Updater, SendStatus(t) PROVE Goal
  BY <1>4 DEF SendStatus
<1>5. ASSUME NEW t \in Updater, StatusSent(t) PROVE Goal
  BY <1>5 DEF StatusSent, Return, After
<1>6. ASSUME NEW t \in Setter, SetDuty(t) PROVE Goal
  BY <1>6 DEF SetDuty, GetEmergency
<1>7. ASSUME NEW t \in Setter, SetLeft(t) PROVE Goal
  BY <1>7 DEF SetLeft
<1>8. ASSUME NEW t \in Setter, SetRight(t) PROVE Goal
  BY <1>8 DEF SetRight
<1>9. ASSUME EmergencyOnStop PROVE Goal
  BY <1>9 DEF EmergencyOnStop
<1>10. ASSUME OnLoop PROVE Goal
  BY <1>10 DEF OnLoop
<1>11. ASSUME CheckTimeouts PROVE Goal
  BY <1>11 DEF CheckTimeouts
<1>12. ASSUME OnHighLevelEmergencyChanged PROVE Goal
  BY <1>12 DEF OnHighLevelEmergencyChanged
<1>13. ASSUME StatusSchedule PROVE Goal
  BY <1>13 DEF StatusSchedule
<1>14. ASSUME WaitAny PROVE Goal
  BY <1>14 DEF WaitAny
<1>15. ASSUME GetAndClearFlags PROVE Goal
  BY <1>15 DEF GetAndClearFlags
<1>16. ASSUME DispatchEmergencyChanged PROVE Goal
  BY <1>16 DEF DispatchEmergencyChanged, GetEmergency
<1>17. ASSUME OnEmergencyChangedEvent PROVE Goal
  BY <1>17 DEF OnEmergencyChangedEvent
<1>18. ASSUME OnEmergencyChangedReturns PROVE Goal
  BY <1>18 DEF OnEmergencyChangedReturns
<1>19. ASSUME DispatchInputsChanged PROVE Goal
  BY <1>19 DEF DispatchInputsChanged
<1>20. ASSUME DriveOnStartOrOnStop PROVE Goal
  BY <1>20 DEF DriveOnStartOrOnStop
<1>21. ASSUME Tick PROVE Goal
  BY <1>21 DEF Tick
<1>22. ASSUME OnControlTwistChanged PROVE Goal
  BY <1>22 DEF OnControlTwistChanged
<1>23. ASSUME DriveUnlock PROVE Goal
  BY <1>23 DEF DriveUnlock
<1>24. ASSUME InputUpdate PROVE Goal
  BY <1>24 DEF InputUpdate
<1>25. ASSUME BroadcastInputsChanged PROVE Goal
  BY <1>25 DEF BroadcastInputsChanged, Broadcast
<1>26. ASSUME OnRegisterInputConfigsChanged PROVE Goal
  BY <1>26 DEF OnRegisterInputConfigsChanged
<1>27. ASSUME InputTimePasses PROVE Goal
  BY <1>27 DEF InputTimePasses
<1>28. CASE UNCHANGED vars
  BY <1>28 DEF vars
<1> QED
  BY <1>1, <1>2, <1>3, <1>4, <1>5, <1>6, <1>7, <1>8, <1>9, <1>10, <1>11, <1>12,
     <1>13, <1>14, <1>15, <1>16, <1>17, <1>18, <1>19, <1>20, <1>21, <1>22, <1>23,
     <1>24, <1>25, <1>26, <1>27, <1>28
  DEF Next, Update, Set, Emergency, Main, Drive, Input

\* The emergency stop is never lost, whatever twists, messages and inputs
\* arrive and however the four threads are interleaved.
THEOREM StopIsNeverLost == Spec => []StopNeverLost
<1>1. Init => IInv
  BY InvInit
<1>2. IInv /\ [Next]_vars => IInv'
  BY TypeNext, InvNext DEF IInv
<1>3. IInv => StopNeverLost
  <2> SUFFICES ASSUME IInv, duty # Standstill PROVE duty["left"] # 0 \/ duty["right"] # 0
    BY DEF IInv, StopInv, StopNeverLost, Moving
  <2>1. duty \in [Motor -> Int]
    BY DEF IInv, TypeOK, DriveTypeOK
  <2> QED
    BY <2>1 DEF Motor, Standstill
<1> QED
  BY <1>1, <1>2, <1>3, PTL DEF Spec

-----------------------------------------------------------------------------

\* Every step of a thread is a step of EmergencyStop, or changes nothing there.
LEMMA StopStep == IInv /\ [Next]_vars => [Stop!Next]_(Stop!vars)
<1> DEFINE Goal == [Stop!Next]_(Stop!vars)
<1> SUFFICES ASSUME IInv, [Next]_vars PROVE Goal
  OBVIOUS
<1> USE DEF IInv, TypeOK, EmTypeOK, EventTypeOK, DriveTypeOK, PcTypeOK,
            MutexInv, HandlerInv, WakeupInv, StopInv, Moving, StopPending, Locked,
            Goto, emVars, eventVars, driveVars
<1> USE DEF Thread, Updater, Setter, Motor, NoThread, Standstill, MowerEvents
<1> USE DEF Stop!Next, Stop!Change, Stop!Move, Stop!Halt, Stop!Settle, Stop!vars
<1>1. ASSUME NEW t \in Updater, CheckInputs(t) PROVE Goal
  BY <1>1 DEF CheckInputs
<1>2. ASSUME NEW t \in Updater, UpdateEmergency(t) PROVE Goal
  BY <1>2 DEF UpdateEmergency, Return, After
<1>3. ASSUME NEW t \in Updater, BroadcastEmergencyChanged(t) PROVE Goal
  BY <1>3 DEF BroadcastEmergencyChanged, Broadcast
<1>4. ASSUME NEW t \in Updater, SendStatus(t) PROVE Goal
  BY <1>4 DEF SendStatus
<1>5. ASSUME NEW t \in Updater, StatusSent(t) PROVE Goal
  BY <1>5 DEF StatusSent, Return, After
<1>6. ASSUME NEW t \in Setter, SetDuty(t) PROVE Goal
  BY <1>6 DEF SetDuty, GetEmergency
<1>7. ASSUME NEW t \in Setter, SetLeft(t) PROVE Goal
  BY <1>7 DEF SetLeft
<1>8. ASSUME NEW t \in Setter, SetRight(t) PROVE Goal
  BY <1>8 DEF SetRight
<1>9. ASSUME EmergencyOnStop PROVE Goal
  BY <1>9 DEF EmergencyOnStop
<1>10. ASSUME OnLoop PROVE Goal
  BY <1>10 DEF OnLoop
<1>11. ASSUME CheckTimeouts PROVE Goal
  BY <1>11 DEF CheckTimeouts
<1>12. ASSUME OnHighLevelEmergencyChanged PROVE Goal
  BY <1>12 DEF OnHighLevelEmergencyChanged
<1>13. ASSUME StatusSchedule PROVE Goal
  BY <1>13 DEF StatusSchedule
<1>14. ASSUME WaitAny PROVE Goal
  BY <1>14 DEF WaitAny
<1>15. ASSUME GetAndClearFlags PROVE Goal
  BY <1>15 DEF GetAndClearFlags
<1>16. ASSUME DispatchEmergencyChanged PROVE Goal
  BY <1>16 DEF DispatchEmergencyChanged, GetEmergency
<1>17. ASSUME OnEmergencyChangedEvent PROVE Goal
  BY <1>17 DEF OnEmergencyChangedEvent
<1>18. ASSUME OnEmergencyChangedReturns PROVE Goal
  BY <1>18 DEF OnEmergencyChangedReturns
<1>19. ASSUME DispatchInputsChanged PROVE Goal
  BY <1>19 DEF DispatchInputsChanged
<1>20. ASSUME DriveOnStartOrOnStop PROVE Goal
  BY <1>20 DEF DriveOnStartOrOnStop
<1>21. ASSUME Tick PROVE Goal
  BY <1>21 DEF Tick
<1>22. ASSUME OnControlTwistChanged PROVE Goal
  BY <1>22 DEF OnControlTwistChanged
<1>23. ASSUME DriveUnlock PROVE Goal
  BY <1>23 DEF DriveUnlock
<1>24. ASSUME InputUpdate PROVE Goal
  BY <1>24 DEF InputUpdate
<1>25. ASSUME BroadcastInputsChanged PROVE Goal
  BY <1>25 DEF BroadcastInputsChanged, Broadcast
<1>26. ASSUME OnRegisterInputConfigsChanged PROVE Goal
  BY <1>26 DEF OnRegisterInputConfigsChanged
<1>27. ASSUME InputTimePasses PROVE Goal
  BY <1>27 DEF InputTimePasses
<1>28. CASE UNCHANGED vars
  BY <1>28 DEF vars
<1> QED
  BY <1>1, <1>2, <1>3, <1>4, <1>5, <1>6, <1>7, <1>8, <1>9, <1>10, <1>11, <1>12,
     <1>13, <1>14, <1>15, <1>16, <1>17, <1>18, <1>19, <1>20, <1>21, <1>22, <1>23,
     <1>24, <1>25, <1>26, <1>27, <1>28
  DEF Next, Update, Set, Emergency, Main, Drive, Input

\* The threads implement the abstract emergency stop, for every set of twists,
\* messages and input reasons.
THEOREM ChainImplementsStop == Spec => ImplementsStop
<1>1. Init => IInv
  BY InvInit
<1>2. IInv /\ [Next]_vars => IInv'
  BY TypeNext, InvNext DEF IInv
<1>3. Init => Stop!Init
  <2> SUFFICES ASSUME Init PROVE Stop!Init
    OBVIOUS
  <2>1. /\ pc["main"] = "Wait" /\ pc["drive"] = "Idle" /\ pc["emergency"] = "Idle"
        /\ duty["left"] = 0 /\ duty["right"] = 0
    BY DEF Init, Thread, Standstill, Motor
  <2>2. ~Moving /\ ~StopPending
    BY <2>1 DEF Init, Moving, StopPending, Updater
  <2> QED
    BY <2>2 DEF Stop!Init, Moving, StopPending
<1>4. IInv /\ [Next]_vars => [Stop!Next]_(Stop!vars)
  BY StopStep
<1> QED
  BY <1>1, <1>2, <1>3, <1>4, PTL DEF Spec, ImplementsStop, Stop!Spec

-----------------------------------------------------------------------------

\* Only a call made for a high level message may clear LATCH, and only the
\* emergency thread makes such calls.
LatchInv == \A t \in Updater :
              "LATCH" \in call[t].clear => t = "emergency" /\ call[t].by = "HighLevel"

\* LATCH is released by the high level only, for every configuration of the
\* inputs and every message.
THEOREM LatchIsHeld == Spec => LatchHeld
<1> DEFINE Released == ("LATCH" \in reasons /\ "LATCH" \notin reasons') =>
                         /\ pc["emergency"] = "Update"
                         /\ call["emergency"].by = "HighLevel"
<1>1. Init => LatchInv
  BY DEF Init, LatchInv, NoCall, Updater
<1>2. TypeOK /\ LatchInv /\ [Next]_vars => LatchInv'
  <2> SUFFICES ASSUME TypeOK, LatchInv, [Next]_vars PROVE LatchInv'
    OBVIOUS
  <2> USE DEF TypeOK, EmTypeOK, LatchInv, Updater, NoCall, emVars
  <2>1. ASSUME NEW t \in Updater, Update(t) PROVE LatchInv'
    BY <2>1 DEF Update, CheckInputs, UpdateEmergency, Return, BroadcastEmergencyChanged,
       SendStatus, StatusSent, InputMask
  <2>2. ASSUME NEW t \in Setter, Set(t) PROVE LatchInv'
    BY <2>2 DEF Set, SetDuty, SetLeft, SetRight
  <2>3. CASE Emergency
    BY <2>3 DEF Emergency, EmergencyOnStop, OnLoop, CheckTimeouts,
       OnHighLevelEmergencyChanged, StatusSchedule, TimeoutMask
  <2>4. CASE Main
    BY <2>4 DEF Main, WaitAny, GetAndClearFlags, DispatchEmergencyChanged,
       OnEmergencyChangedEvent, OnEmergencyChangedReturns, DispatchInputsChanged
  <2>5. CASE Drive
    BY <2>5 DEF Drive, DriveOnStartOrOnStop, Tick, OnControlTwistChanged, DriveUnlock
  <2>6. CASE Input
    BY <2>6 DEF Input, InputUpdate, BroadcastInputsChanged, OnRegisterInputConfigsChanged,
       InputTimePasses
  <2>7. CASE UNCHANGED vars
    BY <2>7 DEF vars
  <2> QED
    BY <2>1, <2>2, <2>3, <2>4, <2>5, <2>6, <2>7 DEF Next
<1>3. TypeOK /\ LatchInv /\ [Next]_vars => [Released]_vars
  <2> SUFFICES ASSUME TypeOK, LatchInv, Next PROVE Released \/ reasons' = reasons
    BY DEF vars, emVars
  <2>1. ASSUME NEW t \in Updater, UpdateEmergency(t) PROVE Released
    BY <2>1 DEF UpdateEmergency, LatchInv
  <2>2. ASSUME NEW t \in Updater, Update(t) PROVE Released \/ reasons' = reasons
    BY <2>1, <2>2 DEF Update, CheckInputs, BroadcastEmergencyChanged, SendStatus,
       StatusSent, emVars
  <2>3. ASSUME NEW t \in Setter, Set(t) PROVE reasons' = reasons
    BY <2>3 DEF Set, SetDuty, SetLeft, SetRight, emVars
  <2>4. CASE Emergency
    BY <2>4 DEF Emergency, EmergencyOnStop, OnLoop, CheckTimeouts,
       OnHighLevelEmergencyChanged, StatusSchedule, emVars
  <2>5. CASE Main
    BY <2>5 DEF Main, WaitAny, GetAndClearFlags, DispatchEmergencyChanged,
       OnEmergencyChangedEvent, OnEmergencyChangedReturns, DispatchInputsChanged, emVars
  <2>6. CASE Drive
    BY <2>6 DEF Drive, DriveOnStartOrOnStop, Tick, OnControlTwistChanged, DriveUnlock, emVars
  <2>7. CASE Input
    BY <2>7 DEF Input, InputUpdate, BroadcastInputsChanged, OnRegisterInputConfigsChanged,
       InputTimePasses, emVars
  <2> QED
    BY <2>2, <2>3, <2>4, <2>5, <2>6, <2>7 DEF Next
<1> QED
  BY TypeCorrect, <1>1, <1>2, <1>3, PTL DEF Spec, LatchHeld

-----------------------------------------------------------------------------

\* Who holds mtx_ across steps is sending a status, and waits for nobody.
SendInv == \A t \in Updater : mtx = t => pc[t] = "Sending"

\* mtx_ is kept only by the thread that sends a status.
LEMMA SendNext == TypeOK /\ SendInv /\ [Next]_vars => SendInv'
<1> SUFFICES ASSUME TypeOK, SendInv, [Next]_vars PROVE SendInv'
  OBVIOUS
<1>0. pc \in [Thread -> Label] /\ NoThread \notin Updater
  BY DEF TypeOK, PcTypeOK, NoThread, Updater
<1> USE <1>0 DEF SendInv, Thread, Updater, Setter, Goto, emVars
<1>1. ASSUME NEW t \in Updater, Update(t) PROVE SendInv'
  <2>1. CASE SendStatus(t)
    BY <2>1 DEF SendStatus
  <2>2. CASE StatusSent(t)
    BY <2>2 DEF StatusSent
  <2>3. CASE UpdateEmergency(t)
    BY <2>3 DEF UpdateEmergency
  <2>4. CASE CheckInputs(t) \/ BroadcastEmergencyChanged(t)
    BY <2>4 DEF CheckInputs, BroadcastEmergencyChanged
  <2> QED
    BY <1>1, <2>1, <2>2, <2>3, <2>4 DEF Update
<1>2. ASSUME NEW t \in Setter, Set(t) PROVE SendInv'
  BY <1>2 DEF Set, SetDuty, SetLeft, SetRight
<1>3. CASE Emergency
  BY <1>3 DEF Emergency, EmergencyOnStop, OnLoop, CheckTimeouts,
     OnHighLevelEmergencyChanged, StatusSchedule
<1>4. CASE Main
  BY <1>4 DEF Main, WaitAny, GetAndClearFlags, DispatchEmergencyChanged,
     OnEmergencyChangedEvent, OnEmergencyChangedReturns, DispatchInputsChanged
<1>5. CASE Drive
  BY <1>5 DEF Drive, DriveOnStartOrOnStop, Tick, OnControlTwistChanged, DriveUnlock
<1>6. CASE Input
  BY <1>6 DEF Input, InputUpdate, BroadcastInputsChanged, OnRegisterInputConfigsChanged,
     InputTimePasses
<1>7. CASE UNCHANGED vars
  BY <1>7 DEF vars
<1> QED
  BY <1>1, <1>2, <1>3, <1>4, <1>5, <1>6, <1>7 DEF Next

\* The mutexes of the two services are always taken in one order: the holder
\* of mtx_ waits for nobody, the holder of state_mutex_ at most for mtx_.
THEOREM WaitsAreNotCircular == Spec => []NoCircularWait
<1>1. Init => SendInv
  BY DEF Init, SendInv, NoThread, Updater
<1>2. TypeOK /\ MutexInv /\ SendInv => NoCircularWait
  <2> SUFFICES ASSUME TypeOK, MutexInv, SendInv, NEW t \in Thread, Blocked(t)
               PROVE  ~Blocked(Blocker(t)) \/ ~Blocked(Blocker(Blocker(t)))
    BY DEF NoCircularWait
  <2>1. mtx # NoThread => ~Blocked(mtx)
    BY DEF TypeOK, EmTypeOK, SendInv, Blocked, Blocker, NeedsMtx
  <2>2. CASE NeedsMtx(t)
    BY <2>1, <2>2 DEF Blocked, Blocker
  <2>3. CASE ~NeedsMtx(t)
    <3>1. Blocker(t) = stateMtx /\ stateMtx # NoThread
      BY <2>3 DEF Blocked, Blocker
    <3>2. pc[stateMtx] # "LockState"
      BY <3>1 DEF TypeOK, DriveTypeOK, MutexInv, Locked
    <3>3. Blocker(stateMtx) \in {mtx, NoThread}
      BY <3>2 DEF Blocker
    <3> QED
      BY <3>1, <3>3, <2>1 DEF Blocked
  <2> QED
    BY <2>2, <2>3
<1>3. IInv => TypeOK /\ MutexInv
  BY DEF IInv
<1>4. IInv /\ [Next]_vars => IInv'
  BY TypeNext, InvNext DEF IInv
<1> QED
  BY <1>1, <1>2, <1>3, <1>4, SendNext, InvInit, PTL DEF Spec

=============================================================================
