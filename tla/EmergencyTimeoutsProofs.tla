---------------------- MODULE EmergencyTimeoutsProofs ----------------------
(***************************************************************************)
(* Proofs about EmergencyTimeouts, for every configuration and message,    *)
(* every period and timeout, and every Slack.                              *)
(***************************************************************************)
EXTENDS EmergencyTimeouts, TLAPS

Em == pc["emergency"]
Mn == pc["main"]
Silent == "TIMEOUT_HIGH_LEVEL"

\* What the threads are between, and who is first at mtx_.
ThreadInv ==
  /\ ~running => Em = "wait"
  /\ Em \in {"wait", "loop", "return"} => rest = {}
  /\ Em \in {"inputs", "update"} => "inputs" \notin rest
  /\ Em = "timeouts" => "timeouts" \notin rest
  /\ Em \notin {"announce", "status"}
  /\ Mn \in {"wait", "status", "inputs", "update", "return"}
  /\ pc["input"] \in {"wait", "announce"}
  /\ \A t \in Updater : pc[t] = "update" /\ pc[Other(t)] # "update" => first = t
  /\ wakeIn <= StatusPeriod

\* The silence is an emergency, or as short as the place of the thread allows.
SilenceInv ==
  \/ Silent \in reasons
  \/ /\ Em = "wait" => silence + wakeIn <= Timeout + Slack
     /\ Em = "loop" => silence <= Timeout + Slack + busy["emergency"]
     /\ Em = "timeouts" \/ "timeouts" \in rest
          => silence <= Timeout + 2 * Slack + busy["emergency"]
     /\ Em \in {"inputs", "update", "return"} /\ "timeouts" \notin rest
          => silence + block <= Timeout + busy["emergency"]

\* The emergency thread is about to look at the inputs, or has input i in its
\* result.
CheckComing(i) ==
  \/ Em \in {"loop", "inputs"} \/ "inputs" \in rest
  \/ Em = "update" /\ ReasonOf[i] \in found["emergency"]

\* A result without an input that has a delay was found before its end.
AgeInv(i) ==
  \A t \in Updater :
    pc[t] = "update" /\ ReasonOf[i] \notin found[t] => since[i] < Delay[i] + busy[t]

\* An input with a delay.
DelayInv(i) ==
  \/ ~running
  \/ ReasonOf[i] \in reasons
  \/ CheckComing(i)
  \/ Em = "wait" /\ since[i] + wakeIn < Delay[i] + StatusPeriod + 2 * Slack
  \/ /\ Em \in {"update", "timeouts", "return"}
     /\ since[i] < Delay[i] + Slack + busy["emergency"]

\* The announcement of input i is on its way to the main thread.
Told(i) == \/ event /\ since[i] <= Slack
           \/ pc["input"] = "announce" /\ since[i] <= busy["input"]

\* The main thread is going to find input i. A result of the emergency
\* thread without it would be applied before.
MainComing(i) ==
  \/ Mn = "wait" /\ Told(i)
  \/ Mn = "status" /\ since[i] <= Slack + busy["main"]
  \/ Mn = "inputs" /\ since[i] <= 2 * Slack + busy["main"]
  \/ /\ Mn = "update" /\ ReasonOf[i] \in found["main"]
     /\ since[i] <= 2 * Slack + busy["main"]
     /\ Em = "update" /\ ReasonOf[i] \notin found["emergency"] => first = "emergency"
  \/ Mn \in {"update", "return"} /\ since[i] <= busy["main"] /\ Told(i)

\* An input without a delay.
PromptInv(i) ==
  /\ ReasonOf[i] \in reasons \/ CheckComing(i) \/ MainComing(i)
  /\ \A t \in Updater : pc[t] = "update" /\ ReasonOf[i] \notin found[t] => MainComing(i)

InputInv == \A i \in active : IF Delay[i] = 0 THEN PromptInv(i)
                              ELSE AgeInv(i) /\ DelayInv(i)

IInv == TypeOK /\ ThreadInv /\ StoppedIsEmergency /\ SilenceInv /\ InputInv

-----------------------------------------------------------------------------

\* A difference of two times is a time, and as large as it seems unless the
\* clock wrapped or the stamp is younger than the "now".
LEMMA ElapsedType ==
  ASSUME NEW time \in Time, NEW b \in 0 .. Slack
  PROVE  /\ Elapsed(time, b) \in Time
         /\ time >= b => Elapsed(time, b) = time - b
         /\ time < b => Elapsed(time, b) > Timeout
  BY TimeAssumption DEF Elapsed, Time

\* The block times are times, and no larger than the delay.
LEMMA BlockTimesType ==
  ASSUME TypeOK, NEW b \in 0 .. Slack
  PROVE  BlockTimes(b) \subseteq Time
<1> SUFFICES ASSUME NEW i \in active \ Reached(b)
             PROVE  Delay[i] - Elapsed(since[i], b) \in Time
  BY DEF BlockTimes
<1>1. i \in Input /\ since[i] \in Time /\ Delay[i] \in Time
  BY InputAssumption DEF TypeOK, Time
<1>2. Elapsed(since[i], b) \in Time
  BY <1>1, ElapsedType
<1>3. ~(Elapsed(since[i], b) >= Delay[i])
  BY DEF Reached, TimeoutReached
<1> QED
  BY <1>1, <1>2, <1>3, TimeAssumption DEF Time

\* What GetEmergencyReasons finds are reasons of inputs.
LEMMA FoundType ==
  ASSUME TypeOK, NEW b
  PROVE  {ReasonOf[i] : i \in Reached(b)} \subseteq InputMask
  BY InputAssumption DEF TypeOK, Reached

\* The initial states are well typed.
LEMMA TypeInit == Init => TypeOK
<1> SUFFICES ASSUME Init PROVE TypeOK
  OBVIOUS
<1> USE TimeAssumption DEF Init
<1>1. /\ reasons \subseteq Reason /\ running \in BOOLEAN /\ event \in BOOLEAN
      /\ rest \subseteq Check
  BY DEF Reason, TimeoutMask
<1>2. /\ silence \in Time /\ block \in Time /\ wakeIn \in Time
      /\ since \in [Input -> Time]
  BY DEF Time
<1>3. found \in [Updater -> SUBSET InputMask] /\ first \in Updater
  BY DEF Updater
<1>4. pc \in [Thread -> Label] /\ busy \in [Thread -> 0 .. Slack]
  BY DEF Label
<1> QED
  BY <1>1, <1>2, <1>3, <1>4 DEF TypeOK

\* Every step keeps the types.
LEMMA TypeNext == TypeOK /\ [Next]_vars => TypeOK'
<1> SUFFICES ASSUME TypeOK, [Next]_vars PROVE TypeOK'
  OBVIOUS
<1> USE TimeAssumption
<1> USE DEF TypeOK, Goto, Continue, inputVars, sleepVars, Time, Updater, Thread, Label,
   Check
<1>1. ASSUME NEW j \in Input, InputChanges(j) PROVE TypeOK'
  BY <1>1 DEF InputChanges
<1>2. ASSUME Announce PROVE TypeOK'
  BY <1>2 DEF Announce
<1>3. ASSUME OnRegisterInputConfigsChanged PROVE TypeOK'
  BY <1>3, InputAssumption DEF OnRegisterInputConfigsChanged
<1>4. ASSUME DispatchInputsChanged PROVE TypeOK'
  <2>1. event' \in BOOLEAN
    BY <1>4 DEF DispatchInputsChanged
  <2> QED
    BY <1>4, <2>1 DEF DispatchInputsChanged
<1>5. ASSUME GetTimeMicros PROVE TypeOK'
  BY <1>5 DEF GetTimeMicros
<1>6. ASSUME MainCheckInputs PROVE TypeOK'
  BY <1>6, FoundType DEF MainCheckInputs, GetEmergencyReasons
<1>7. ASSUME MainUpdateEmergency PROVE TypeOK'
  BY <1>7 DEF MainUpdateEmergency, ApplyFound, UpdateEmergency, Other, Reason
<1>8. ASSUME MainReturns PROVE TypeOK'
  BY <1>8 DEF MainReturns
<1>9. ASSUME OnStart PROVE TypeOK'
  BY <1>9 DEF OnStart
<1>10. ASSUME OnStop PROVE TypeOK'
  BY <1>10 DEF OnStop, UpdateEmergency, Reason, TimeoutMask
<1>11. ASSUME Wake PROVE TypeOK'
  BY <1>11 DEF Wake
<1>12. ASSUME OnHighLevelEmergencyChanged PROVE TypeOK'
  <2>1. reasons' \subseteq Reason
    BY <1>12, MessageAssumption DEF OnHighLevelEmergencyChanged, UpdateEmergency
  <2> QED
    BY <1>12, <2>1 DEF OnHighLevelEmergencyChanged
<1>13. ASSUME OnLoop PROVE TypeOK'
  BY <1>13 DEF OnLoop, UINT32_MAX
<1>14. ASSUME CheckInputs PROVE TypeOK'
  <2>1. block' \in Time
    BY <1>14, BlockTimesType DEF CheckInputs, Smallest
  <2>2. found' \in [Updater -> SUBSET InputMask] /\ first' \in Updater
    BY <1>14, FoundType DEF CheckInputs, GetEmergencyReasons
  <2> QED
    BY <1>14, <2>1, <2>2 DEF CheckInputs
<1>15. ASSUME CheckInputsUpdates PROVE TypeOK'
  BY <1>15 DEF CheckInputsUpdates, ApplyFound, UpdateEmergency, CheckReturns, Other,
     Reason
<1>16. ASSUME CheckTimeouts PROVE TypeOK'
  <2> DEFINE quiet == Elapsed(silence, busy["emergency"])
  <2>1. quiet \in Time
    BY ElapsedType
  <2>2. block' \in Time
    BY <1>16, <2>1 DEF CheckTimeouts, Smallest, TimeoutReached, UINT32_MAX
  <2>3. reasons' \subseteq Reason
    BY <1>16 DEF CheckTimeouts, UpdateEmergency, Reason, TimeoutMask
  <2> QED
    BY <1>16, <2>2, <2>3 DEF CheckTimeouts, CheckReturns
<1>17. ASSUME OnLoopReturns PROVE TypeOK'
  <2>1. wakeIn' \in Time
    BY <1>17 DEF OnLoopReturns, Smallest
  <2> QED
    BY <1>17, <2>1 DEF OnLoopReturns
<1>18. ASSUME Clock PROVE TypeOK'
  <2>1. silence' \in Time /\ since' \in [Input -> Time]
    BY <1>18 DEF Clock, Later, UINT32_MAX
  <2>2. busy' \in [Thread -> 0 .. Slack] /\ wakeIn' \in Time
    BY <1>18 DEF Clock
  <2> QED
    BY <1>18, <2>1, <2>2 DEF Clock
<1>19. CASE UNCHANGED vars
  BY <1>19 DEF vars
<1> QED
  BY <1>1, <1>2, <1>3, <1>4, <1>5, <1>6, <1>7, <1>8, <1>9, <1>10, <1>11, <1>12, <1>13,
     <1>14, <1>15, <1>16, <1>17, <1>18, <1>19
  DEF Next, InputThread, Main, Emergency

\* The types hold in every reachable state.
THEOREM TypeCorrect == Spec => []TypeOK
<1>1. Init => TypeOK
  BY TypeInit
<1>2. TypeOK /\ [Next]_vars => TypeOK'
  BY TypeNext
<1> QED
  BY <1>1, <1>2, PTL DEF Spec

-----------------------------------------------------------------------------

\* Every step keeps the order of the checks and of the updaters.
LEMMA ThreadNext == TypeOK /\ ThreadInv /\ [Next]_vars => ThreadInv'
<1> SUFFICES ASSUME TypeOK, ThreadInv, [Next]_vars PROVE ThreadInv'
  OBVIOUS
<1> USE DEF TypeOK, ThreadInv, Em, Mn, Other, Waiting, Goto, Continue, inputVars,
   sleepVars,
            Updater, Thread, Check
<1>1. ASSUME NEW j \in Input, InputChanges(j) PROVE ThreadInv'
  BY <1>1 DEF InputChanges
<1>2. ASSUME Announce PROVE ThreadInv'
  BY <1>2 DEF Announce
<1>3. ASSUME OnRegisterInputConfigsChanged PROVE ThreadInv'
  BY <1>3 DEF OnRegisterInputConfigsChanged
<1>4. ASSUME DispatchInputsChanged PROVE ThreadInv'
  BY <1>4 DEF DispatchInputsChanged
<1>5. ASSUME GetTimeMicros PROVE ThreadInv'
  BY <1>5 DEF GetTimeMicros
<1>6. ASSUME MainCheckInputs PROVE ThreadInv'
  BY <1>6 DEF MainCheckInputs, GetEmergencyReasons
<1>7. ASSUME MainUpdateEmergency PROVE ThreadInv'
  BY <1>7 DEF MainUpdateEmergency, ApplyFound, UpdateEmergency
<1>8. ASSUME MainReturns PROVE ThreadInv'
  BY <1>8 DEF MainReturns
<1>9. ASSUME OnStart PROVE ThreadInv'
  BY <1>9 DEF OnStart
<1>10. ASSUME OnStop PROVE ThreadInv'
  BY <1>10 DEF OnStop, UpdateEmergency
<1>11. ASSUME Wake PROVE ThreadInv'
  BY <1>11 DEF Wake
<1>12. ASSUME OnHighLevelEmergencyChanged PROVE ThreadInv'
  BY <1>12 DEF OnHighLevelEmergencyChanged, UpdateEmergency
<1>13. ASSUME OnLoop PROVE ThreadInv'
  BY <1>13 DEF OnLoop
<1>14. ASSUME CheckInputs PROVE ThreadInv'
  BY <1>14 DEF CheckInputs, GetEmergencyReasons
<1>15. ASSUME CheckInputsUpdates PROVE ThreadInv'
  BY <1>15 DEF CheckInputsUpdates, ApplyFound, UpdateEmergency, CheckReturns
<1>16. ASSUME CheckTimeouts PROVE ThreadInv'
  BY <1>16 DEF CheckTimeouts, UpdateEmergency, CheckReturns
<1>17. ASSUME OnLoopReturns PROVE ThreadInv'
  <2>1. wakeIn' <= StatusPeriod
    BY <1>17, TimeAssumption DEF OnLoopReturns, Smallest, Time
  <2> QED
    BY <1>17, <2>1 DEF OnLoopReturns
<1>18. ASSUME Clock PROVE ThreadInv'
  BY <1>18, TimeAssumption DEF Clock, Time
<1>19. CASE UNCHANGED vars
  BY <1>19 DEF vars
<1> QED
  BY <1>1, <1>2, <1>3, <1>4, <1>5, <1>6, <1>7, <1>8, <1>9, <1>10, <1>11, <1>12, <1>13,
     <1>14, <1>15, <1>16, <1>17, <1>18, <1>19
  DEF Next, InputThread, Main, Emergency

\* A result of the inputs does not touch TIMEOUT_HIGH_LEVEL.
LEMMA FoundKeepsSilent ==
  ASSUME TypeOK, NEW t \in Updater, ApplyFound(t)
  PROVE  Silent \in reasons' <=> Silent \in reasons
  BY DEF ApplyFound, UpdateEmergency, TypeOK, Silent, InputMask

\* Every step keeps a stopped service's emergency.
LEMMA StoppedNext == TypeOK /\ ThreadInv /\ StoppedIsEmergency /\ [Next]_vars
                       => StoppedIsEmergency'
<1> SUFFICES ASSUME TypeOK, ThreadInv, StoppedIsEmergency, [Next]_vars
             PROVE  StoppedIsEmergency'
  OBVIOUS
<1> USE DEF StoppedIsEmergency, Silent, ThreadInv, Em, Updater
<1>1. ASSUME NEW j \in Input, InputChanges(j) PROVE StoppedIsEmergency'
  BY <1>1 DEF InputChanges
<1>2. ASSUME Announce PROVE StoppedIsEmergency'
  BY <1>2 DEF Announce
<1>3. ASSUME OnRegisterInputConfigsChanged PROVE StoppedIsEmergency'
  BY <1>3 DEF OnRegisterInputConfigsChanged
<1>4. ASSUME DispatchInputsChanged PROVE StoppedIsEmergency'
  BY <1>4 DEF DispatchInputsChanged
<1>5. ASSUME GetTimeMicros PROVE StoppedIsEmergency'
  BY <1>5 DEF GetTimeMicros
<1>6. ASSUME MainCheckInputs PROVE StoppedIsEmergency'
  BY <1>6 DEF MainCheckInputs, GetEmergencyReasons
<1>7. ASSUME MainUpdateEmergency PROVE StoppedIsEmergency'
  BY <1>7, FoundKeepsSilent DEF MainUpdateEmergency
<1>8. ASSUME MainReturns PROVE StoppedIsEmergency'
  BY <1>8 DEF MainReturns
<1>9. ASSUME OnStart PROVE StoppedIsEmergency'
  BY <1>9 DEF OnStart
<1>10. ASSUME OnStop PROVE StoppedIsEmergency'
  BY <1>10 DEF OnStop, UpdateEmergency
<1>11. ASSUME Wake PROVE StoppedIsEmergency'
  BY <1>11 DEF Wake
<1>12. ASSUME OnHighLevelEmergencyChanged PROVE StoppedIsEmergency'
  BY <1>12 DEF OnHighLevelEmergencyChanged, UpdateEmergency
<1>13. ASSUME OnLoop PROVE StoppedIsEmergency'
  BY <1>13 DEF OnLoop
<1>14. ASSUME CheckInputs PROVE StoppedIsEmergency'
  BY <1>14 DEF CheckInputs, GetEmergencyReasons
<1>15. ASSUME CheckInputsUpdates PROVE StoppedIsEmergency'
  BY <1>15 DEF CheckInputsUpdates
<1>16. ASSUME CheckTimeouts PROVE StoppedIsEmergency'
  BY <1>16 DEF CheckTimeouts
<1>17. ASSUME OnLoopReturns PROVE StoppedIsEmergency'
  BY <1>17 DEF OnLoopReturns
<1>18. ASSUME Clock PROVE StoppedIsEmergency'
  BY <1>18 DEF Clock
<1>19. CASE UNCHANGED vars
  BY <1>19 DEF vars
<1> QED
  BY <1>1, <1>2, <1>3, <1>4, <1>5, <1>6, <1>7, <1>8, <1>9, <1>10, <1>11, <1>12, <1>13,
     <1>14, <1>15, <1>16, <1>17, <1>18, <1>19
  DEF Next, InputThread, Main, Emergency

\* Every step keeps the bound on the silence.
LEMMA SilenceNext == TypeOK /\ ThreadInv /\ StoppedIsEmergency /\ SilenceInv /\ [Next]_vars
                       => SilenceInv'
<1> SUFFICES ASSUME TypeOK, ThreadInv, StoppedIsEmergency, SilenceInv, [Next]_vars
             PROVE  SilenceInv'
  OBVIOUS
<1>0. /\ silence \in Int /\ silence >= 0 /\ wakeIn \in Nat /\ block \in Nat
      /\ busy["emergency"] \in 0 .. Slack /\ Slack \in Int /\ Timeout \in Nat
  BY TimeAssumption DEF TypeOK, Time, Thread, Updater
<1> USE <1>0 DEF TypeOK, ThreadInv, SilenceInv, Em, Mn, Silent, Goto, Continue, inputVars,
            sleepVars, Updater, Thread, Check
<1>1. ASSUME NEW j \in Input, InputChanges(j) PROVE SilenceInv'
  BY <1>1 DEF InputChanges
<1>2. ASSUME Announce PROVE SilenceInv'
  BY <1>2 DEF Announce
<1>3. ASSUME OnRegisterInputConfigsChanged PROVE SilenceInv'
  BY <1>3 DEF OnRegisterInputConfigsChanged
<1>4. ASSUME DispatchInputsChanged PROVE SilenceInv'
  BY <1>4 DEF DispatchInputsChanged
<1>5. ASSUME GetTimeMicros PROVE SilenceInv'
  BY <1>5 DEF GetTimeMicros
<1>6. ASSUME MainCheckInputs PROVE SilenceInv'
  BY <1>6 DEF MainCheckInputs, GetEmergencyReasons
<1>7. ASSUME MainUpdateEmergency PROVE SilenceInv'
  BY <1>7, FoundKeepsSilent DEF MainUpdateEmergency
<1>8. ASSUME MainReturns PROVE SilenceInv'
  BY <1>8 DEF MainReturns
<1>9. ASSUME OnStart PROVE SilenceInv'
  BY <1>9 DEF OnStart, StoppedIsEmergency
<1>10. ASSUME OnStop PROVE SilenceInv'
  BY <1>10 DEF OnStop, UpdateEmergency
<1>11. ASSUME Wake PROVE SilenceInv'
  BY <1>11 DEF Wake
<1>12. ASSUME OnHighLevelEmergencyChanged PROVE SilenceInv'
  BY <1>12 DEF OnHighLevelEmergencyChanged, UpdateEmergency
<1>13. ASSUME OnLoop PROVE SilenceInv'
  BY <1>13 DEF OnLoop
<1>14. ASSUME CheckInputs PROVE SilenceInv'
  <2>1. block' <= block /\ block' \in Int
    BY <1>14, BlockTimesType DEF CheckInputs, Smallest, Time
  <2> QED
    BY <1>14, <2>1 DEF CheckInputs
<1>15. ASSUME CheckInputsUpdates PROVE SilenceInv'
  BY <1>15, FoundKeepsSilent DEF CheckInputsUpdates, CheckReturns
<1>16. ASSUME CheckTimeouts PROVE SilenceInv'
  <2> DEFINE quiet == Elapsed(silence, busy["emergency"])
  <2>1. quiet \in Int
    BY ElapsedType DEF Time
  <2>2. CASE quiet >= Timeout
    BY <1>16, <2>2 DEF CheckTimeouts, UpdateEmergency, TimeoutReached
  <2>3. CASE ~(quiet >= Timeout)
    <3>1. quiet = silence - busy["emergency"]
      BY <2>1, <2>3, ElapsedType DEF Time
    <3>2. block' <= Timeout - quiet /\ block' <= block /\ block' \in Int
      BY <1>16, <2>1, <2>3 DEF CheckTimeouts, Smallest, TimeoutReached
    <3> QED
      BY <1>16, <2>1, <3>1, <3>2 DEF CheckTimeouts, CheckReturns
  <2> QED
    BY <2>2, <2>3
<1>17. ASSUME OnLoopReturns PROVE SilenceInv'
  <2>1. wakeIn' <= block /\ wakeIn' \in Int
    BY <1>17, TimeAssumption DEF OnLoopReturns, Smallest
  <2>2. Silent \in reasons \/ silence + block <= Timeout + Slack
    BY <1>17 DEF OnLoopReturns
  <2>3. ASSUME Silent \notin reasons PROVE silence + wakeIn' <= Timeout + Slack
    <3>1. silence + block <= Timeout + Slack
      BY <2>2, <2>3
    <3>2. \A w \in Int : w <= block => silence + w <= Timeout + Slack
      BY <3>1
    <3> QED
      BY <2>1, <3>2
  <2>4. rest' = {} /\ pc'["emergency"] = "wait"
    BY <1>17 DEF OnLoopReturns
  <2> QED
    BY <1>17, <2>3, <2>4 DEF OnLoopReturns
<1>18. ASSUME Clock PROVE SilenceInv'
  <2>1. silence' \in Int /\ silence' <= silence + 1
    BY <1>18, TimeAssumption DEF Clock, Later
  <2>2. busy'["emergency"] = IF Em = "wait" THEN 0 ELSE busy["emergency"] + 1
    BY <1>18 DEF Clock
  <2> QED
    BY <1>18, <2>1, <2>2 DEF Clock, StoppedIsEmergency
<1>19. CASE UNCHANGED vars
  BY <1>19 DEF vars
<1> QED
  BY <1>1, <1>2, <1>3, <1>4, <1>5, <1>6, <1>7, <1>8, <1>9, <1>10, <1>11, <1>12, <1>13,
     <1>14, <1>15, <1>16, <1>17, <1>18, <1>19
  DEF Next, InputThread, Main, Emergency

-----------------------------------------------------------------------------

\* What GetEmergencyReasons finds of an active input.
LEMMA FoundInput ==
  ASSUME TypeOK, NEW i \in active, NEW t \in Updater, GetEmergencyReasons(t)
  PROVE  /\ Delay[i] = 0 => ReasonOf[i] \in found'[t]
         /\ ReasonOf[i] \in found'[t] \/ since[i] < Delay[i] + busy[t]
<1>1. /\ since[i] \in Time /\ Delay[i] \in Time /\ busy[t] \in 0 .. Slack
  BY InputAssumption DEF TypeOK, Time, Thread
<1>2. /\ Elapsed(since[i], busy[t]) \in Time
      /\ since[i] >= busy[t] => Elapsed(since[i], busy[t]) = since[i] - busy[t]
  BY <1>1, ElapsedType
<1>3. found'[t] = {ReasonOf[k] : k \in Reached(busy[t])}
  BY DEF GetEmergencyReasons, TypeOK
<1>4. ASSUME Elapsed(since[i], busy[t]) >= Delay[i] PROVE ReasonOf[i] \in found'[t]
  BY <1>3, <1>4 DEF Reached, TimeoutReached
<1>5. Delay[i] = 0 => Elapsed(since[i], busy[t]) >= Delay[i]
  BY <1>2 DEF Time
<1>6. ASSUME ~(Elapsed(since[i], busy[t]) >= Delay[i]) PROVE since[i] < Delay[i] + busy[t]
  BY <1>1, <1>2, <1>6, TimeAssumption DEF Time
<1> QED
  BY <1>4, <1>5, <1>6

\* What applying a result does to the reason of an input.
LEMMA AppliedInput ==
  ASSUME TypeOK, NEW i \in Input, NEW t \in Updater, ApplyFound(t)
  PROVE  ReasonOf[i] \in reasons' <=> ReasonOf[i] \in found[t]
  BY InputAssumption DEF ApplyFound, UpdateEmergency

\* A timeout is no reason of an input.
LEMMA TimeoutsKeepInputs ==
  ASSUME NEW i \in Input, NEW late \in SUBSET {Silent}, UpdateEmergency(late, TimeoutMask)
  PROVE  ReasonOf[i] \in reasons' <=> ReasonOf[i] \in reasons
  BY InputAssumption DEF UpdateEmergency, TimeoutMask, InputMask, Silent

\* Every step keeps what is known of an input without a delay.
LEMMA PromptNext ==
  ASSUME IInv, [Next]_vars, NEW i \in active', Delay[i] = 0
  PROVE  PromptInv(i)'
<1>0. /\ i \in Input /\ ReasonOf[i] \in InputMask
      /\ since[i] \in Nat
      /\ Slack \in Nat
      /\ \A t \in Thread : busy[t] \in 0 .. Slack
  BY TypeNext, InputAssumption, TimeAssumption DEF IInv, TypeOK, Time
<1>a. i \in active => PromptInv(i)
  BY DEF IInv, InputInv
<1>b. TypeOK /\ ThreadInv
  BY DEF IInv
<1> USE <1>0, <1>a DEF PromptInv, CheckComing, MainComing, Told, Em, Mn, Goto, Continue,
            inputVars, sleepVars, Updater, Thread
<1>1. ASSUME NEW j \in Input, InputChanges(j) PROVE PromptInv(i)'
  <2>1. CASE j = i
    <3>1. /\ i \notin active /\ since'[i] = 0 /\ pc'["input"] = "announce"
          /\ busy'["input"] = 0
      BY <1>1, <1>b, <2>1 DEF InputChanges, TypeOK
    <3>2. /\ \A t \in Updater : pc'[t] = pc[t] /\ busy'[t] = busy[t]
      BY <1>1, <1>b DEF InputChanges, TypeOK
    <3>3. MainComing(i)'
      BY <3>1, <3>2, <1>b DEF ThreadInv
    <3> QED
      BY <3>3
  <2>2. CASE j # i
    BY <1>1, <1>b, <2>2 DEF InputChanges, TypeOK
  <2> QED
    BY <2>1, <2>2
<1>2. ASSUME Announce PROVE PromptInv(i)'
  BY <1>2, <1>b DEF Announce, TypeOK, ThreadInv, Waiting
<1>3. ASSUME OnRegisterInputConfigsChanged PROVE PromptInv(i)'
  BY <1>3 DEF OnRegisterInputConfigsChanged
<1>4. ASSUME DispatchInputsChanged PROVE PromptInv(i)'
  BY <1>4, <1>b DEF DispatchInputsChanged, TypeOK, ThreadInv, Waiting
<1>5. ASSUME GetTimeMicros PROVE PromptInv(i)'
  BY <1>5, <1>b DEF GetTimeMicros, TypeOK, ThreadInv, Waiting
<1>6. ASSUME MainCheckInputs PROVE PromptInv(i)'
  <2>1. ReasonOf[i] \in found'["main"]
    BY <1>6, <1>b, FoundInput DEF MainCheckInputs
  <2> QED
    BY <1>6, <1>b, <2>1 DEF MainCheckInputs, GetEmergencyReasons, TypeOK, ThreadInv,
       Waiting, Other
<1>7. ASSUME MainUpdateEmergency PROVE PromptInv(i)'
  <2>1. ReasonOf[i] \in reasons' <=> ReasonOf[i] \in found["main"]
    BY <1>7, <1>b, AppliedInput DEF MainUpdateEmergency
  <2> QED
    BY <1>7, <1>b, <2>1 DEF MainUpdateEmergency, ApplyFound, TypeOK, ThreadInv,
       Waiting, Other
<1>8. ASSUME MainReturns PROVE PromptInv(i)'
  BY <1>8, <1>b DEF MainReturns, TypeOK, ThreadInv, Waiting
<1>9. ASSUME OnStart PROVE PromptInv(i)'
  BY <1>9, <1>b DEF OnStart, TypeOK, ThreadInv, Waiting
<1>10. ASSUME OnStop PROVE PromptInv(i)'
  BY <1>10, <1>b DEF OnStop, UpdateEmergency, TypeOK, ThreadInv, Waiting
<1>11. ASSUME Wake PROVE PromptInv(i)'
  BY <1>11, <1>b DEF Wake, TypeOK, ThreadInv, Waiting
<1>12. ASSUME OnHighLevelEmergencyChanged PROVE PromptInv(i)'
  BY <1>12, <1>b DEF OnHighLevelEmergencyChanged, UpdateEmergency, TypeOK, ThreadInv,
     Waiting
<1>13. ASSUME OnLoop PROVE PromptInv(i)'
  BY <1>13, <1>b DEF OnLoop, TypeOK, ThreadInv, Waiting, Check
<1>14. ASSUME CheckInputs PROVE PromptInv(i)'
  <2>1. ReasonOf[i] \in found'["emergency"]
    BY <1>14, <1>b, FoundInput DEF CheckInputs
  <2> QED
    BY <1>14, <1>b, <2>1 DEF CheckInputs, GetEmergencyReasons, TypeOK, ThreadInv,
       Waiting, Other
<1>15. ASSUME CheckInputsUpdates PROVE PromptInv(i)'
  <2>1. ReasonOf[i] \in reasons' <=> ReasonOf[i] \in found["emergency"]
    BY <1>15, <1>b, AppliedInput DEF CheckInputsUpdates
  <2>2. /\ Em = "update" /\ rest \subseteq {"timeouts"}
        /\ \E label \in IF rest = {} THEN {"return"} ELSE rest :
             pc' = [pc EXCEPT !["emergency"] = label]
    BY <1>15, <1>b DEF CheckInputsUpdates, CheckReturns, TypeOK, ThreadInv, Check
  <2>3. /\ pc'["main"] = Mn /\ pc'["input"] = pc["input"]
        /\ pc'["emergency"] = IF rest = {} THEN "return" ELSE "timeouts"
    BY <1>b, <2>2 DEF TypeOK
  <2>4. UNCHANGED <<since, event, found, busy>> /\ i \in active
    BY <1>15 DEF CheckInputsUpdates, CheckReturns
  <2> QED
    BY <2>1, <2>2, <2>3, <2>4
<1>16. ASSUME CheckTimeouts PROVE PromptInv(i)'
  <2>1. ReasonOf[i] \in reasons' <=> ReasonOf[i] \in reasons
    BY <1>16, TimeoutsKeepInputs DEF CheckTimeouts, Silent
  <2>2. /\ Em = "timeouts" /\ rest \subseteq {"inputs"}
        /\ \E label \in IF rest = {} THEN {"return"} ELSE rest :
             pc' = [pc EXCEPT !["emergency"] = label]
    BY <1>16, <1>b DEF CheckTimeouts, CheckReturns, TypeOK, ThreadInv, Check
  <2>3. /\ pc'["main"] = Mn /\ pc'["input"] = pc["input"]
        /\ pc'["emergency"] = IF rest = {} THEN "return" ELSE "inputs"
    BY <1>b, <2>2 DEF TypeOK
  <2>4. UNCHANGED <<since, event, found, first, busy>> /\ i \in active
    BY <1>16 DEF CheckTimeouts, CheckReturns
  <2> QED
    BY <2>1, <2>2, <2>3, <2>4
<1>17. ASSUME OnLoopReturns PROVE PromptInv(i)'
  BY <1>17, <1>b DEF OnLoopReturns, TypeOK, ThreadInv, Waiting
<1>18. ASSUME Clock PROVE PromptInv(i)'
  <2>1. since'[i] \in Nat /\ since'[i] <= since[i] + 1
    BY <1>18, <1>b, TimeAssumption DEF Clock, Later, UINT32_MAX, TypeOK, Time
  <2>2. \A t \in Thread : busy'[t] = IF pc[t] = "wait" THEN 0 ELSE busy[t] + 1
    BY <1>18 DEF Clock
  <2> QED
    BY <1>18, <2>1, <2>2 DEF Clock
<1>19. CASE UNCHANGED vars
  BY <1>19 DEF vars
<1> QED
  BY <1>1, <1>2, <1>3, <1>4, <1>5, <1>6, <1>7, <1>8, <1>9, <1>10, <1>11, <1>12, <1>13,
     <1>14, <1>15, <1>16, <1>17, <1>18, <1>19
  DEF Next, InputThread, Main, Emergency

\* Every step keeps what is known of an input with a delay.
LEMMA DelayNext ==
  ASSUME IInv, [Next]_vars, NEW i \in active', Delay[i] # 0
  PROVE  AgeInv(i)' /\ DelayInv(i)'
<1> DEFINE Goal == AgeInv(i)' /\ DelayInv(i)'
<1>0. /\ i \in Input /\ ReasonOf[i] \in InputMask
      /\ since[i] \in Nat /\ Delay[i] \in Nat /\ Delay[i] > 0
      /\ Slack \in Nat /\ StatusPeriod \in Nat /\ wakeIn \in Nat /\ wakeIn <= StatusPeriod
      /\ \A t \in Thread : busy[t] \in Nat /\ busy[t] <= Slack
  BY TypeNext, InputAssumption, TimeAssumption DEF IInv, TypeOK, ThreadInv, Time
<1>a. i \in active => AgeInv(i) /\ DelayInv(i)
  BY DEF IInv, InputInv
<1>b. TypeOK /\ ThreadInv
  BY DEF IInv
<1> USE <1>0, <1>a DEF AgeInv, DelayInv, CheckComing, Em, Mn, Goto, Continue,
            inputVars, sleepVars, Updater, Thread
<1>1. ASSUME NEW j \in Input, InputChanges(j) PROVE Goal
  <2>1. CASE j = i
    <3>1. since'[i] = 0
      BY <1>1, <1>b, <2>1 DEF InputChanges, TypeOK
    <3>2. \A t \in Updater : pc'[t] = pc[t] /\ busy'[t] = busy[t]
      BY <1>1, <1>b DEF InputChanges, TypeOK
    <3>3. UNCHANGED <<reasons, running, found, rest, wakeIn>>
      BY <1>1 DEF InputChanges
    <3>4. Em \in {"wait", "loop", "inputs", "update", "timeouts", "return"}
      BY <1>b DEF TypeOK, ThreadInv, Label
    <3> QED
      BY <3>1, <3>2, <3>3, <3>4
  <2>2. CASE j # i
    BY <1>1, <1>b, <2>2 DEF InputChanges, TypeOK
  <2> QED
    BY <2>1, <2>2
<1>2. ASSUME Announce PROVE Goal
  BY <1>2, <1>b DEF Announce, TypeOK, ThreadInv
<1>3. ASSUME OnRegisterInputConfigsChanged PROVE Goal
  BY <1>3 DEF OnRegisterInputConfigsChanged
<1>4. ASSUME DispatchInputsChanged PROVE Goal
  BY <1>4, <1>b DEF DispatchInputsChanged, TypeOK, ThreadInv
<1>5. ASSUME GetTimeMicros PROVE Goal
  BY <1>5, <1>b DEF GetTimeMicros, TypeOK, ThreadInv
<1>6. ASSUME MainCheckInputs PROVE Goal
  <2>1. ReasonOf[i] \in found'["main"] \/ since[i] < Delay[i] + busy["main"]
    BY <1>6, <1>b, FoundInput DEF MainCheckInputs
  <2> QED
    BY <1>6, <1>b, <2>1 DEF MainCheckInputs, GetEmergencyReasons, TypeOK, ThreadInv
<1>7. ASSUME MainUpdateEmergency PROVE Goal
  <2>1. ReasonOf[i] \in reasons' <=> ReasonOf[i] \in found["main"]
    BY <1>7, <1>b, AppliedInput DEF MainUpdateEmergency
  <2>2. ReasonOf[i] \notin reasons' => since[i] < Delay[i] + Slack
    BY <1>7, <2>1 DEF MainUpdateEmergency
  <2>3. Em \in {"wait", "loop", "inputs", "update", "timeouts", "return"}
    BY <1>b DEF TypeOK, ThreadInv, Label
  <2>4. pc'["emergency"] = Em /\ pc'["main"] = "return"
    BY <1>7, <1>b DEF MainUpdateEmergency, TypeOK
  <2>5. UNCHANGED <<running, since, found, busy, rest, wakeIn>> /\ i \in active
    BY <1>7 DEF MainUpdateEmergency
  <2> QED
    BY <2>2, <2>3, <2>4, <2>5
<1>8. ASSUME MainReturns PROVE Goal
  BY <1>8, <1>b DEF MainReturns, TypeOK, ThreadInv
<1>9. ASSUME OnStart PROVE Goal
  BY <1>9, <1>b DEF OnStart, TypeOK, ThreadInv
<1>10. ASSUME OnStop PROVE Goal
  BY <1>10, <1>b DEF OnStop, UpdateEmergency, TypeOK, ThreadInv
<1>11. ASSUME Wake PROVE Goal
  BY <1>11, <1>b DEF Wake, TypeOK, ThreadInv
<1>12. ASSUME OnHighLevelEmergencyChanged PROVE Goal
  BY <1>12, <1>b DEF OnHighLevelEmergencyChanged, UpdateEmergency, TypeOK, ThreadInv,
     Waiting
<1>13. ASSUME OnLoop PROVE Goal
  BY <1>13, <1>b DEF OnLoop, TypeOK, ThreadInv, Check
<1>14. ASSUME CheckInputs PROVE Goal
  <2>1. ReasonOf[i] \in found'["emergency"] \/ since[i] < Delay[i] + busy["emergency"]
    BY <1>14, <1>b, FoundInput DEF CheckInputs
  <2> QED
    BY <1>14, <1>b, <2>1 DEF CheckInputs, GetEmergencyReasons, TypeOK, ThreadInv
<1>15. ASSUME CheckInputsUpdates PROVE Goal
  <2>1. ReasonOf[i] \in reasons' <=> ReasonOf[i] \in found["emergency"]
    BY <1>15, <1>b, AppliedInput DEF CheckInputsUpdates
  <2>2. /\ Em = "update" /\ rest \subseteq {"timeouts"} /\ running
        /\ \E label \in IF rest = {} THEN {"return"} ELSE rest :
             pc' = [pc EXCEPT !["emergency"] = label]
    BY <1>15, <1>b DEF CheckInputsUpdates, CheckReturns, TypeOK, ThreadInv, Check
  <2>3. /\ pc'["main"] = Mn
        /\ pc'["emergency"] = IF rest = {} THEN "return" ELSE "timeouts"
    BY <1>b, <2>2 DEF TypeOK
  <2>4. UNCHANGED <<running, since, found, busy>> /\ i \in active /\ rest' = {}
    BY <1>15 DEF CheckInputsUpdates, CheckReturns
  <2> QED
    BY <2>1, <2>2, <2>3, <2>4
<1>16. ASSUME CheckTimeouts PROVE Goal
  <2>1. ReasonOf[i] \in reasons' <=> ReasonOf[i] \in reasons
    BY <1>16, TimeoutsKeepInputs DEF CheckTimeouts, Silent
  <2>2. /\ Em = "timeouts" /\ rest \subseteq {"inputs"} /\ running
        /\ \E label \in IF rest = {} THEN {"return"} ELSE rest :
             pc' = [pc EXCEPT !["emergency"] = label]
    BY <1>16, <1>b DEF CheckTimeouts, CheckReturns, TypeOK, ThreadInv, Check
  <2>3. /\ pc'["main"] = Mn
        /\ pc'["emergency"] = IF rest = {} THEN "return" ELSE "inputs"
    BY <1>b, <2>2 DEF TypeOK
  <2>4. UNCHANGED <<running, since, found, busy>> /\ i \in active /\ rest' = {}
    BY <1>16 DEF CheckTimeouts, CheckReturns
  <2> QED
    BY <2>1, <2>2, <2>3, <2>4
<1>17. ASSUME OnLoopReturns PROVE Goal
  <2>1. wakeIn' \in Nat /\ wakeIn' <= StatusPeriod
    BY <1>17, <1>b, TimeAssumption DEF OnLoopReturns, Smallest, TypeOK, Time
  <2>2. \A w \in Nat : w <= StatusPeriod /\ since[i] < Delay[i] + Slack + busy["emergency"]
          => since[i] + w < Delay[i] + StatusPeriod + 2 * Slack
    OBVIOUS
  <2>3. /\ Em = "return" /\ rest = {} /\ pc'["emergency"] = "wait" /\ pc'["main"] = Mn
        /\ busy'["main"] = busy["main"] /\ found'["main"] = found["main"]
    BY <1>17, <1>b DEF OnLoopReturns, TypeOK, ThreadInv
  <2>4. UNCHANGED <<running, since, reasons, rest>> /\ i \in active
    BY <1>17 DEF OnLoopReturns
  <2> QED
    BY <2>1, <2>2, <2>3, <2>4
<1>18. ASSUME Clock PROVE Goal
  <2>1. since'[i] \in Nat /\ since'[i] <= since[i] + 1
    BY <1>18, <1>b, TimeAssumption DEF Clock, Later, UINT32_MAX, TypeOK, Time
  <2>2. \A t \in Thread : busy'[t] = IF pc[t] = "wait" THEN 0 ELSE busy[t] + 1
    BY <1>18 DEF Clock
  <2>3. UNCHANGED <<running, reasons, found, rest, pc>> /\ i \in active
    BY <1>18 DEF Clock
  <2>4. running /\ Em = "wait" => wakeIn' \in Nat /\ wakeIn' = wakeIn - 1
    BY <1>18 DEF Clock
  <2> QED
    BY <2>1, <2>2, <2>3, <2>4
<1>19. CASE UNCHANGED vars
  BY <1>19 DEF vars
<1> QED
  BY <1>1, <1>2, <1>3, <1>4, <1>5, <1>6, <1>7, <1>8, <1>9, <1>10, <1>11, <1>12, <1>13,
     <1>14, <1>15, <1>16, <1>17, <1>18, <1>19
  DEF Next, InputThread, Main, Emergency

\* The initial states satisfy the invariant: nothing is active.
LEMMA InvInit == Init => IInv
<1> SUFFICES ASSUME Init PROVE IInv
  OBVIOUS
<1>1. TypeOK
  BY TypeInit
<1>2. pc["emergency"] = "wait" /\ pc["main"] = "wait" /\ pc["input"] = "wait"
  BY DEF Init, Thread, Updater
<1>3. ThreadInv
  BY <1>2, TimeAssumption DEF Init, ThreadInv, Em, Mn, Updater
<1>4. StoppedIsEmergency /\ SilenceInv /\ InputInv
  BY DEF Init, StoppedIsEmergency, SilenceInv, InputInv, Silent
<1> QED
  BY <1>1, <1>3, <1>4 DEF IInv

\* Every step keeps the invariant.
LEMMA InvNext == IInv /\ [Next]_vars => IInv'
<1> SUFFICES ASSUME IInv, [Next]_vars PROVE IInv'
  OBVIOUS
<1>1. TypeOK' /\ ThreadInv' /\ StoppedIsEmergency' /\ SilenceInv'
  BY TypeNext, ThreadNext, StoppedNext, SilenceNext DEF IInv
<1>2. ASSUME NEW i \in active'
      PROVE  IF Delay[i] = 0 THEN PromptInv(i)' ELSE AgeInv(i)' /\ DelayInv(i)'
  BY PromptNext, DelayNext
<1> QED
  BY <1>1, <1>2 DEF IInv, InputInv

\* The silence of the high level is noticed in time, for every timeout, every
\* status period and every time the threads are held up.
THEOREM SilenceIsNoticed == Spec => []SilenceNoticed
<1>1. IInv => SilenceNoticed
  <2> SUFFICES ASSUME IInv, Silent \notin reasons PROVE silence <= Timeout + 3 * Slack
    BY TimeAssumption DEF SilenceNoticed, Silent, IInv, TypeOK, Time
  <2>1. /\ silence \in Nat /\ wakeIn \in Nat /\ block \in Nat /\ Timeout \in Nat
        /\ busy["emergency"] \in Nat /\ busy["emergency"] <= Slack /\ Slack \in Nat
    BY TimeAssumption DEF IInv, TypeOK, Time, Thread, Updater
  <2>2. Em \in {"wait", "loop", "inputs", "update", "timeouts", "return"}
    BY DEF IInv, TypeOK, ThreadInv, Label, Em, Mn, Thread, Updater
  <2> QED
    BY <2>1, <2>2 DEF IInv, SilenceInv, ThreadInv
<1> QED
  BY InvInit, InvNext, <1>1, PTL DEF Spec

\* A stopped emergency service is an emergency, whatever the main thread and
\* the inputs do.
THEOREM StoppedStaysEmergency == Spec => []StoppedIsEmergency
<1>1. IInv => StoppedIsEmergency
  BY DEF IInv
<1> QED
  BY InvInit, InvNext, <1>1, PTL DEF Spec

\* An active input is noticed in time, for every configuration and whatever
\* messages, restarts and changes of other inputs come between.
THEOREM InputIsNoticed == Spec => []InputNoticed
<1>1. IInv => InputNoticed
  <2> SUFFICES ASSUME IInv, NEW i \in active, running, Em = "wait",
     ReasonOf[i] \notin reasons
               PROVE  /\ Delay[i] = 0 => ~(since[i] > 3 * Slack)
                      /\ Delay[i] # 0 => ~(since[i] >= Delay[i] + StatusPeriod + 2 * Slack)
    BY DEF InputNoticed, Em
  <2>1. /\ i \in Input /\ since[i] \in Nat /\ Delay[i] \in Nat /\ wakeIn \in Nat
        /\ Slack \in Nat /\ StatusPeriod \in Nat
        /\ \A t \in Thread : busy[t] \in Nat /\ busy[t] <= Slack
    BY InputAssumption, TimeAssumption DEF IInv, TypeOK, Time
  <2>2. rest = {}
    BY DEF IInv, ThreadInv
  <2>3. ASSUME Delay[i] = 0 PROVE ~(since[i] > 3 * Slack)
    <3>1. MainComing(i)
      BY <2>2, <2>3 DEF IInv, InputInv, PromptInv, CheckComing
    <3> QED
      BY <2>1, <3>1 DEF MainComing, Told, Thread, Updater
  <2>4. ASSUME Delay[i] # 0 PROVE ~(since[i] >= Delay[i] + StatusPeriod + 2 * Slack)
    <3>1. since[i] + wakeIn < Delay[i] + StatusPeriod + 2 * Slack
      BY <2>2, <2>4 DEF IInv, InputInv, DelayInv, CheckComing
    <3> QED
      BY <2>1, <3>1
  <2> QED
    BY <2>3, <2>4
<1> QED
  BY InvInit, InvNext, <1>1, PTL DEF Spec

=============================================================================
