------------------------- MODULE InputServiceProofs -------------------------
(***************************************************************************)
(* InputService for every set of lines and configurations: the lift counter *)
(* counts, and neither edges, wakeups nor activations are lost.             *)
(***************************************************************************)
EXTENDS InputService, FiniteSetTheorems, SequenceTheorems, TLAPS

\* The counter is the number of active lift inputs, and the virtual input is
\* decided by it
CounterInv ==
  /\ numActiveLift = Cardinality(active \cap LiftInputs)
  /\ Virtual \in active <=> numActiveLift >= 2

\* The lines of the GPIO inputs are lines, and only those of a running
\* service have events
LineInv ==
  /\ \A i \in OfDriver("gpio") : inputs[i].line \in Line
  /\ ~running => enabled = {}

\* A loop over a driver has inputs left only while it runs, and the item of an
\* edge during tick() stays in the queue until the thread waits again
ThreadInv ==
  /\ pc \notin {"Update", "Announce"} => todo = {}
  /\ (/\ running /\ gpioTriggered
      /\ pc \in {"Update", "Announce"} /\ resume = "Wait") => queue > 0

IInv ==
  /\ TypeOK
  /\ CounterInv
  /\ LineInv
  /\ ThreadInv
  /\ EdgeNotLost
  /\ WakeupNotLost
  /\ ActivationReachesMain

-----------------------------------------------------------------------------

\* A set of inputs is finite and no larger than all of them.
LEMMA InputsFinite ==
  ASSUME TypeOK, NEW S \in SUBSET Index
  PROVE  IsFiniteSet(S) /\ Cardinality(S) \in 0..Len(inputs)
<1>1. Len(inputs) \in Nat /\ Len(inputs) \in Int /\ 1 \in Int
  BY DEF TypeOK
<1>2. /\ IsFiniteSet(1..Len(inputs))
      /\ Cardinality(1..Len(inputs)) = IF 1 > Len(inputs) THEN 0 ELSE Len(inputs) - 1 + 1
  BY <1>1, FS_Interval
<1>3. Cardinality(1..Len(inputs)) = Len(inputs)
  BY <1>1, <1>2
<1>4. S \in SUBSET (1..Len(inputs))
  BY DEF Index
<1>5. IsFiniteSet(S) /\ Cardinality(S) <= Cardinality(1..Len(inputs))
  BY <1>2, <1>4, FS_Subset
<1>6. Cardinality(S) \in Nat
  BY <1>5, FS_CardinalityType
<1> QED
  BY <1>1, <1>3, <1>5, <1>6

\* What OnInputChanged counts is the change of the set: one lift input more or
\* less, and no difference for other inputs.
LEMMA CountFollows ==
  ASSUME TypeOK, CounterInv, NEW i \in Index, NewActive(i) # (i \in active)
  PROVE  /\ LiftCount(i) = Cardinality(NowActive(i) \cap LiftInputs)
         /\ LiftCount(i) \in 0..Len(inputs)
         /\ Virtual \in NowActive(i) <=> LiftCount(i) >= 2
         /\ NowActive(i) \subseteq Index \cup {Virtual}
         /\ \A j \in Index : j # i => (j \in NowActive(i) <=> j \in active)
         /\ NewActive(i) = (i \in NowActive(i))
<1> DEFINE A == active \cap LiftInputs
<1>1. i # Virtual /\ Virtual \notin Index
  BY DEF Index, Virtual, TypeOK
<1>2. \A j \in Index : j # i => (j \in NowActive(i) <=> j \in active)
  BY <1>1 DEF NowActive
<1>3. NewActive(i) = (i \in NowActive(i))
  BY <1>1 DEF NowActive, NewActive
<1>4. NowActive(i) \subseteq Index \cup {Virtual}
  BY DEF NowActive, TypeOK
<1>5. inputs[i].lift \in BOOLEAN
  <2>1. inputs[i] \in InputConfig
    BY DEF TypeOK, Index
  <2> QED
    BY <2>1 DEF InputConfig
<1>6. IsFiniteSet(A) /\ Cardinality(A) \in Nat /\ numActiveLift = Cardinality(A)
  <2>1. A \in SUBSET Index
    BY DEF LiftInputs
  <2> QED
    BY <2>1, InputsFinite DEF CounterInv
<1>7. LiftCount(i) = Cardinality(NowActive(i) \cap LiftInputs)
  <2>1. CASE ~inputs[i].lift
    <3>1. NowActive(i) \cap LiftInputs = A
      BY <1>1, <1>2, <2>1 DEF LiftInputs
    <3> QED
      BY <3>1, <2>1, <1>6 DEF LiftCount
  <2>2. CASE inputs[i].lift /\ NewActive(i)
    <3>1. i \notin A
      BY <2>2 DEF NewActive
    <3>2. NowActive(i) \cap LiftInputs = A \cup {i}
      BY <1>1, <1>2, <1>3, <2>2 DEF LiftInputs
    <3>3. Cardinality(A \cup {i}) = Cardinality(A) + 1
      BY <3>1, <1>6, FS_AddElement
    <3> QED
      BY <3>2, <3>3, <2>2, <1>6 DEF LiftCount
  <2>3. CASE inputs[i].lift /\ ~NewActive(i)
    <3>1. i \in A
      BY <2>3 DEF LiftInputs, NewActive
    <3>2. NowActive(i) \cap LiftInputs = A \ {i}
      BY <1>1, <1>2, <1>3, <2>3 DEF LiftInputs
    <3>3. Cardinality(A \ {i}) = Cardinality(A) - 1
      BY <3>1, <1>6, FS_RemoveElement
    <3> QED
      BY <3>2, <3>3, <2>3, <1>6 DEF LiftCount
  <2> QED
    BY <2>1, <2>2, <2>3, <1>5
<1>8. LiftCount(i) \in 0..Len(inputs)
  <2>1. NowActive(i) \cap LiftInputs \in SUBSET Index
    BY DEF LiftInputs
  <2> QED
    BY <2>1, <1>7, InputsFinite
<1>9. Virtual \in NowActive(i) <=> LiftCount(i) >= 2
  <2>1. Virtual \in NowActive(i) <=>
          (IF inputs[i].lift THEN LiftCount(i) >= 2 ELSE Virtual \in active)
    BY <1>1 DEF NowActive
  <2>2. ~inputs[i].lift => LiftCount(i) = numActiveLift
    BY DEF LiftCount
  <2> QED
    BY <2>1, <2>2 DEF CounterInv
<1> QED
  BY <1>2, <1>3, <1>4, <1>7, <1>8, <1>9

\* A configuration, whole or cut off, is a sequence of inputs with lines.
LEMMA PrefixOfConfig ==
  ASSUME NEW c \in Configs, NEW n \in 0..Len(c)
  PROVE  /\ SubSeq(c, 1, n) \in Seq(InputConfig)
         /\ Len(SubSeq(c, 1, n)) = n
         /\ \A i \in 1..n : SubSeq(c, 1, n)[i] = c[i]
<1>1. c \in Seq(InputConfig) /\ Len(c) \in Nat /\ n \in Int
  BY ConfigAssumption
<1>2. \A i \in 1..n : c[i] \in InputConfig
  BY <1>1
<1>3. /\ SubSeq(c, 1, n) \in Seq(InputConfig)
      /\ Len(SubSeq(c, 1, n)) = IF 1 <= n THEN n - 1 + 1 ELSE 0
      /\ \A i \in 1..(n - 1 + 1) : SubSeq(c, 1, n)[i] = c[1 + i - 1]
  BY <1>1, <1>2, SubSeqProperties
<1> QED
  BY <1>1, <1>3

-----------------------------------------------------------------------------

\* The initial state satisfies the invariant.
LEMMA InitIInv == Init => IInv
<1> SUFFICES ASSUME Init PROVE IInv
  OBVIOUS
<1>1. Len(inputs) = 0 /\ Index = {}
  BY DEF Init, Index
<1>2. TypeOK
  <2>1. inputs \in Seq(InputConfig) /\ Len(inputs) <= MaxInputs
    BY <1>1, MaxInputsAssumption DEF Init
  <2>2. numActiveLift \in 0..Len(inputs) /\ queue \in 0..QueueLen
    BY <1>1, QueueLenAssumption DEF Init
  <2> QED
    BY <2>1, <2>2 DEF Init, TypeOK
<1>3. CounterInv
  BY <1>1, FS_EmptySet DEF Init, CounterInv
<1>4. LineInv /\ ThreadInv /\ EdgeNotLost /\ WakeupNotLost /\ ActivationReachesMain
  BY <1>1 DEF Init, LineInv, ThreadInv, EdgeNotLost, WakeupNotLost, ActivationReachesMain, OfDriver
<1> QED
  BY <1>2, <1>3, <1>4 DEF IInv

\* The conjuncts about the inputs alone survive every step that leaves the
\* inputs alone.
LEMMA InputsUnchanged ==
  ASSUME CounterInv, UNCHANGED <<inputs, active, numActiveLift>>
  PROVE  CounterInv'
BY DEF CounterInv, LiftInputs, Index

\* The event of an edge keeps the queue within its length and not empty.
LEMMA SendEventQueues ==
  ASSUME TypeOK, SendEvent
  PROVE  gpioTriggered' = TRUE /\ queue' \in 0..QueueLen /\ queue' > 0
BY QueueLenAssumption DEF TypeOK, SendEvent

\* An edge keeps the invariant.
LEMMA HardwareKeepsIInv ==
  ASSUME IInv, Hardware PROVE IInv'
<1> USE DEF IInv
<1>1. ASSUME NEW l \in Line, LineChanges(l) PROVE IInv'
  <2> USE <1>1 DEF LineChanges, inputVars, configVars, mainVars
  <2>1. Index' = Index /\ OfDriver("gpio")' = OfDriver("gpio")
    BY DEF Index, OfDriver
  <2>2. level' \in [Line -> BOOLEAN]
    BY DEF TypeOK
  <2>3. queue' \in 0..QueueLen /\ gpioTriggered' \in BOOLEAN /\ edged' \subseteq enabled'
    BY SendEventQueues DEF TypeOK
  <2>4. TypeOK'
    BY <2>1, <2>2, <2>3 DEF TypeOK
  <2>5. CounterInv'
    BY InputsUnchanged
  <2>6. LineInv'
    BY <2>1 DEF LineInv
  <2>7. (queue > 0 => queue' > 0) /\ (gpioTriggered' => gpioTriggered \/ queue' > 0)
    BY SendEventQueues
  <2>8. ThreadInv' /\ WakeupNotLost'
    BY <2>7 DEF ThreadInv, WakeupNotLost
  <2>9. EdgeNotLost'
    <3> SUFFICES ASSUME NEW i \in OfDriver("gpio"), running, inputs[i].line \in edged',
                        NewActive(i)' # (i \in active), ~gpioTriggered'
                 PROVE  i \in todo
      BY <2>1 DEF EdgeNotLost
    <3>1. l \notin enabled /\ gpioTriggered' = gpioTriggered /\ edged' = edged
      BY SendEventQueues
    <3>2. inputs[i].line # l
      BY <3>1 DEF TypeOK
    <3>3. NewActive(i)' = NewActive(i)
      BY <3>2 DEF NewActive, Raw, OfDriver, LineInv, TypeOK
    <3> QED
      BY <3>1, <3>3 DEF EdgeNotLost
  <2>10. ActivationReachesMain'
    BY DEF ActivationReachesMain
  <2> QED
    BY <2>4, <2>5, <2>6, <2>8, <2>9, <2>10
<1>2. CASE PacketArrives
  <2> USE <1>2 DEF PacketArrives, hwVars, inputVars, configVars, mainVars
  <2>1. Index' = Index /\ OfDriver("gpio")' = OfDriver("gpio")
    BY DEF Index, OfDriver
  <2>2. queue' \in 0..QueueLen /\ queue' > 0
    BY QueueLenAssumption DEF TypeOK
  <2>3. TypeOK'
    BY <2>1, <2>2 DEF TypeOK
  <2>4. CounterInv'
    BY InputsUnchanged
  <2>5. LineInv' /\ ThreadInv' /\ WakeupNotLost' /\ ActivationReachesMain'
    BY <2>1, <2>2 DEF LineInv, ThreadInv, WakeupNotLost, ActivationReachesMain
  <2>6. EdgeNotLost'
    BY <2>1 DEF EdgeNotLost, NewActive, Raw
  <2> QED
    BY <2>3, <2>4, <2>5, <2>6
<1> QED
  BY <1>1, <1>2 DEF Hardware

\* A handler of the process thread keeps the invariant.
LEMMA HandleKeepsIInv ==
  ASSUME IInv, Handle PROVE IInv'
<1> USE DEF IInv, hwVars, inputVars, configVars, mainVars
<1>1. CASE NothingToHandle
  <2> USE <1>1 DEF NothingToHandle
  <2>1. Index' = Index /\ OfDriver("gpio")' = OfDriver("gpio")
    BY DEF Index, OfDriver
  <2>2. TypeOK'
    BY <2>1 DEF TypeOK
  <2>3. CounterInv'
    BY InputsUnchanged
  <2>4. LineInv' /\ ActivationReachesMain'
    BY <2>1 DEF LineInv, ActivationReachesMain
  <2>5. ThreadInv' /\ WakeupNotLost'
    BY DEF TypeOK, ThreadInv, WakeupNotLost
  <2>6. EdgeNotLost'
    BY <2>1 DEF EdgeNotLost, NewActive, Raw, OfDriver, ThreadInv
  <2> QED
    BY <2>2, <2>3, <2>4, <2>5, <2>6
<1>2. CASE OnRegisterInputConfigsChanged
  <2> USE <1>2 DEF OnRegisterInputConfigsChanged
  <2>1. PICK c \in Configs : \E n \in 0..Len(c) :
          n <= MaxInputs /\ inputs' = SubSeq(c, 1, n) /\ registered' = (n = Len(c))
    OBVIOUS
  <2>2. PICK n \in 0..Len(c) :
          n <= MaxInputs /\ inputs' = SubSeq(c, 1, n) /\ registered' = (n = Len(c))
    BY <2>1
  <2>3. Len(c) \in Nat /\ n \in Nat
    BY ConfigAssumption
  <2>4. inputs' \in Seq(InputConfig) /\ Len(inputs') = n /\ \A i \in 1..n : inputs'[i] = c[i]
    BY <2>2, PrefixOfConfig
  <2>5. todo = {}
    BY DEF ThreadInv
  <2>6. TypeOK'
    <3>1. numActiveLift' \in 0..Len(inputs') /\ Len(inputs') <= MaxInputs /\ registered' \in BOOLEAN
      BY <2>2, <2>3, <2>4
    <3> QED
      BY <3>1, <2>4, <2>5 DEF TypeOK
  <2>7. CounterInv'
    <3>1. active' \cap LiftInputs' = {}
      OBVIOUS
    <3> QED
      BY <3>1, FS_EmptySet DEF CounterInv
  <2>8. LineInv'
    <3>1. \A i \in 1..n : c[i].driver = "gpio" => c[i].line \in Line
      BY <2>3, ConfigAssumption
    <3>2. \A i \in OfDriver("gpio")' : inputs'[i].line \in Line
      BY <3>1, <2>4 DEF OfDriver, Index
    <3> QED
      BY <3>2 DEF LineInv
  <2>9. ThreadInv' /\ EdgeNotLost' /\ WakeupNotLost' /\ ActivationReachesMain'
    BY <2>5 DEF ThreadInv, EdgeNotLost, WakeupNotLost, ActivationReachesMain
  <2> QED
    BY <2>6, <2>7, <2>8, <2>9
<1>3. CASE OnStart
  <2> USE <1>3 DEF OnStart
  <2>1. Index' = Index /\ OfDriver("gpio")' = OfDriver("gpio")
    BY DEF Index, OfDriver
  <2>2. enabled' \subseteq Line /\ edged = {}
    BY DEF LinesInUse, LineInv, TypeOK
  <2>3. TypeOK'
    BY <2>1, <2>2 DEF TypeOK
  <2>4. CounterInv'
    BY InputsUnchanged
  <2>5. LineInv' /\ ActivationReachesMain'
    BY <2>1 DEF LineInv, ActivationReachesMain
  <2>6. ThreadInv' /\ WakeupNotLost'
    BY DEF TypeOK, ThreadInv, WakeupNotLost
  <2>7. EdgeNotLost'
    BY <2>2 DEF EdgeNotLost
  <2> QED
    BY <2>3, <2>4, <2>5, <2>6, <2>7
<1>4. CASE OnStop
  <2> USE <1>4 DEF OnStop
  <2>1. Index' = Index /\ OfDriver("gpio")' = OfDriver("gpio")
    BY DEF Index, OfDriver
  <2>2. TypeOK'
    BY <2>1 DEF TypeOK
  <2>3. CounterInv'
    BY InputsUnchanged
  <2>4. LineInv' /\ ActivationReachesMain'
    BY <2>1 DEF LineInv, ActivationReachesMain
  <2>5. ThreadInv' /\ WakeupNotLost' /\ EdgeNotLost'
    BY DEF TypeOK, ThreadInv, WakeupNotLost, EdgeNotLost
  <2> QED
    BY <2>2, <2>3, <2>4, <2>5
<1>5. CASE OnSimulatedInputsChanged
  <2> USE <1>5 DEF OnSimulatedInputsChanged
  <2>1. Index' = Index /\ OfDriver("gpio")' = OfDriver("gpio") /\ OfDriver("simulated") \subseteq Index
    BY DEF Index, OfDriver
  <2>2. mask' \in SUBSET Nat
    BY <2>1 DEF Index, TypeOK
  <2>3. TypeOK'
    BY <2>1, <2>2 DEF TypeOK
  <2>4. CounterInv'
    BY InputsUnchanged
  <2>5. LineInv' /\ ActivationReachesMain'
    BY <2>1 DEF LineInv, ActivationReachesMain
  <2>6. ThreadInv' /\ WakeupNotLost'
    BY DEF TypeOK, ThreadInv, WakeupNotLost
  <2>7. EdgeNotLost'
    <3>1. todo = {}
      BY DEF ThreadInv
    <3>2. \A i \in OfDriver("gpio") : NewActive(i)' = NewActive(i)
      BY DEF NewActive, Raw, OfDriver
    <3> QED
      BY <2>1, <3>1, <3>2 DEF EdgeNotLost
  <2> QED
    BY <2>3, <2>4, <2>5, <2>6, <2>7
<1> QED
  BY <1>1, <1>2, <1>3, <1>4, <1>5 DEF Handle

\* A step of the process thread keeps the invariant.
LEMMA ProcessKeepsIInv ==
  ASSUME IInv, Process PROVE IInv'
<1> USE DEF IInv, hwVars, inputVars, configVars, mainVars
<1>1. CASE QueuePopItem
  <2> USE <1>1 DEF QueuePopItem
  <2>1. Index' = Index /\ OfDriver("gpio")' = OfDriver("gpio")
    BY DEF Index, OfDriver
  <2>2. TypeOK'
    <3>1. queue' \in 0..QueueLen
      BY QueueLenAssumption DEF TypeOK
    <3> QED
      BY <2>1, <3>1 DEF TypeOK
  <2>3. CounterInv'
    BY InputsUnchanged
  <2>4. LineInv' /\ ActivationReachesMain'
    BY <2>1 DEF LineInv, ActivationReachesMain
  <2>5. ThreadInv' /\ WakeupNotLost'
    BY DEF TypeOK, ThreadInv, WakeupNotLost
  <2>6. EdgeNotLost'
    BY <2>1 DEF EdgeNotLost, NewActive, Raw, OfDriver, ThreadInv
  <2> QED
    BY <2>2, <2>3, <2>4, <2>5, <2>6
<1>2. CASE WaitTimesOut
  <2> USE <1>2 DEF WaitTimesOut
  <2>1. Index' = Index /\ OfDriver("gpio")' = OfDriver("gpio")
    BY DEF Index, OfDriver
  <2>2. TypeOK'
    BY <2>1 DEF TypeOK
  <2>3. CounterInv'
    BY InputsUnchanged
  <2>4. LineInv' /\ ActivationReachesMain'
    BY <2>1 DEF LineInv, ActivationReachesMain
  <2>5. ThreadInv' /\ WakeupNotLost'
    BY DEF TypeOK, ThreadInv, WakeupNotLost
  <2>6. EdgeNotLost'
    BY <2>1 DEF EdgeNotLost, NewActive, Raw, OfDriver, ThreadInv
  <2> QED
    BY <2>2, <2>3, <2>4, <2>5, <2>6
<1>3. CASE Handle
  BY <1>3, HandleKeepsIInv
<1>4. CASE OnLoop
  <2> USE <1>4 DEF OnLoop
  <2>1. Index' = Index /\ OfDriver("gpio")' = OfDriver("gpio")
    BY DEF Index, OfDriver
  <2>2. TypeOK'
    <3>1. OfDriver("gpio") \subseteq Index
      BY DEF OfDriver
    <3>2. pc' \in {"Update", "Wait"} /\ gpioTriggered' \in BOOLEAN
      BY DEF TypeOK
    <3>3. todo' \subseteq Index /\ resume' \in {"Wait", "Loop"}
      BY <3>1 DEF TypeOK
    <3> QED
      BY <2>1, <3>2, <3>3 DEF TypeOK
  <2>3. CounterInv'
    BY InputsUnchanged
  <2>4. LineInv' /\ ActivationReachesMain'
    BY <2>1 DEF LineInv, ActivationReachesMain
  <2>5. ThreadInv' /\ WakeupNotLost'
    BY DEF TypeOK, ThreadInv, WakeupNotLost
  <2>6. EdgeNotLost'
    BY <2>1 DEF EdgeNotLost, NewActive, Raw, OfDriver, ThreadInv
  <2> QED
    BY <2>2, <2>3, <2>4, <2>5, <2>6
<1>5. ASSUME NEW i \in Index, Update(i) PROVE IInv'
  <2> USE <1>5 DEF Update
  <2>1. Index' = Index /\ OfDriver("gpio")' = OfDriver("gpio") /\ LiftInputs' = LiftInputs
    BY DEF Index, OfDriver, LiftInputs
  <2>2. \A j \in Index : NewActive(j)' = NewActive(j)
    BY DEF NewActive, Raw
  <2>3. LineInv' /\ WakeupNotLost'
    BY <2>1 DEF LineInv, WakeupNotLost
  <2>4. ThreadInv'
    BY DEF ThreadInv
  <2>5. CASE NewActive(i) = (i \in active)
    <3>1. TypeOK' /\ ActivationReachesMain'
      BY <2>1, <2>5 DEF TypeOK, ActivationReachesMain
    <3>2. CounterInv'
      BY <2>5, InputsUnchanged
    <3>3. EdgeNotLost'
      BY <2>1, <2>2, <2>5 DEF EdgeNotLost, OfDriver
    <3> QED
      BY <2>3, <2>4, <3>1, <3>2, <3>3
  <2>6. CASE NewActive(i) # (i \in active)
    <3>1. /\ active' = NowActive(i) /\ numActiveLift' = LiftCount(i)
          /\ checked' \subseteq active' /\ pc' = "Announce"
          /\ inputsChanged' \in BOOLEAN
      BY <2>6 DEF TypeOK
    <3>2. /\ numActiveLift' = Cardinality(active' \cap LiftInputs)
          /\ numActiveLift' \in 0..Len(inputs)
          /\ Virtual \in active' <=> numActiveLift' >= 2
          /\ active' \subseteq Index \cup {Virtual}
          /\ \A j \in Index : j # i => (j \in active' <=> j \in active)
          /\ NewActive(i) = (i \in active')
      BY <2>6, <3>1, CountFollows
    <3>3. TypeOK'
      BY <2>1, <3>1, <3>2 DEF TypeOK
    <3>4. CounterInv'
      BY <2>1, <3>2 DEF CounterInv
    <3>5. EdgeNotLost'
      BY <2>1, <2>2, <3>2 DEF EdgeNotLost, OfDriver
    <3>6. ActivationReachesMain'
      BY <3>1 DEF ActivationReachesMain
    <3> QED
      BY <2>3, <2>4, <3>3, <3>4, <3>5, <3>6
  <2> QED
    BY <2>5, <2>6
<1>6. CASE Announce
  <2> USE <1>6 DEF Announce
  <2>1. Index' = Index /\ OfDriver("gpio")' = OfDriver("gpio")
    BY DEF Index, OfDriver
  <2>2. TypeOK'
    BY <2>1 DEF TypeOK
  <2>3. CounterInv'
    BY InputsUnchanged
  <2>4. LineInv' /\ ActivationReachesMain'
    BY <2>1 DEF LineInv, ActivationReachesMain
  <2>5. ThreadInv' /\ WakeupNotLost'
    BY DEF TypeOK, ThreadInv, WakeupNotLost
  <2>6. EdgeNotLost'
    BY <2>1 DEF EdgeNotLost, NewActive, Raw, OfDriver, ThreadInv
  <2> QED
    BY <2>2, <2>3, <2>4, <2>5, <2>6
<1>7. CASE LoopEnds
  <2> USE <1>7 DEF LoopEnds
  <2>1. Index' = Index /\ OfDriver("gpio")' = OfDriver("gpio")
    BY DEF Index, OfDriver
  <2>2. TypeOK'
    BY <2>1 DEF TypeOK
  <2>3. CounterInv'
    BY InputsUnchanged
  <2>4. LineInv' /\ ActivationReachesMain'
    BY <2>1 DEF LineInv, ActivationReachesMain
  <2>5. ThreadInv' /\ WakeupNotLost'
    BY DEF TypeOK, ThreadInv, WakeupNotLost
  <2>6. EdgeNotLost'
    BY <2>1 DEF EdgeNotLost, NewActive, Raw, OfDriver, ThreadInv
  <2> QED
    BY <2>2, <2>3, <2>4, <2>5, <2>6
<1>8. CASE TickSchedule
  <2> USE <1>8 DEF TickSchedule
  <2>1. Index' = Index /\ OfDriver("gpio")' = OfDriver("gpio") /\ OfDriver("gpio") \subseteq Index
    BY DEF Index, OfDriver
  <2>2. TypeOK'
    BY <2>1 DEF TypeOK
  <2>3. CounterInv'
    BY InputsUnchanged
  <2>4. LineInv' /\ ActivationReachesMain'
    BY <2>1 DEF LineInv, ActivationReachesMain
  <2>5. ThreadInv' /\ WakeupNotLost'
    BY DEF TypeOK, ThreadInv, WakeupNotLost
  <2>6. EdgeNotLost'
    BY <2>1 DEF EdgeNotLost
  <2> QED
    BY <2>2, <2>3, <2>4, <2>5, <2>6
<1> QED
  BY <1>1, <1>2, <1>3, <1>4, <1>5, <1>6, <1>7, <1>8 DEF Process

\* A step of the main thread keeps the invariant.
LEMMA MainKeepsIInv ==
  ASSUME IInv, Main PROVE IInv'
<1> USE DEF IInv, hwVars, inputVars, configVars, threadVars, mainVars
<1>1. CASE DispatchInputsChanged
  <2> USE <1>1 DEF DispatchInputsChanged
  <2>1. Index' = Index /\ OfDriver("gpio")' = OfDriver("gpio")
    BY DEF Index, OfDriver
  <2>2. TypeOK'
    BY <2>1 DEF TypeOK
  <2>3. CounterInv'
    BY InputsUnchanged
  <2>4. LineInv' /\ ActivationReachesMain'
    BY <2>1 DEF LineInv, ActivationReachesMain
  <2>5. ThreadInv' /\ WakeupNotLost'
    BY DEF TypeOK, ThreadInv, WakeupNotLost
  <2>6. EdgeNotLost'
    BY <2>1 DEF EdgeNotLost, NewActive, Raw, OfDriver, ThreadInv
  <2> QED
    BY <2>2, <2>3, <2>4, <2>5, <2>6
<1>2. CASE OnInputsChangedEvent
  <2> USE <1>2 DEF OnInputsChangedEvent
  <2>1. Index' = Index /\ OfDriver("gpio")' = OfDriver("gpio")
    BY DEF Index, OfDriver
  <2>2. TypeOK'
    BY <2>1 DEF TypeOK
  <2>3. CounterInv'
    BY InputsUnchanged
  <2>4. LineInv' /\ ActivationReachesMain'
    BY <2>1 DEF LineInv, ActivationReachesMain
  <2>5. ThreadInv' /\ WakeupNotLost'
    BY DEF TypeOK, ThreadInv, WakeupNotLost
  <2>6. EdgeNotLost'
    BY <2>1 DEF EdgeNotLost, NewActive, Raw, OfDriver, ThreadInv
  <2> QED
    BY <2>2, <2>3, <2>4, <2>5, <2>6
<1>3. CASE CheckInputs
  <2> USE <1>3 DEF CheckInputs
  <2>1. Index' = Index /\ OfDriver("gpio")' = OfDriver("gpio")
    BY DEF Index, OfDriver
  <2>2. TypeOK'
    BY <2>1 DEF TypeOK
  <2>3. CounterInv'
    BY InputsUnchanged
  <2>4. LineInv' /\ ActivationReachesMain'
    BY <2>1 DEF LineInv, ActivationReachesMain
  <2>5. ThreadInv' /\ WakeupNotLost'
    BY DEF TypeOK, ThreadInv, WakeupNotLost
  <2>6. EdgeNotLost'
    BY <2>1 DEF EdgeNotLost, NewActive, Raw, OfDriver, ThreadInv
  <2> QED
    BY <2>2, <2>3, <2>4, <2>5, <2>6
<1> QED
  BY <1>1, <1>2, <1>3 DEF Main

\* IInv is an invariant of the specification.
THEOREM InductiveInvariant == Spec => []IInv
<1>1. IInv /\ UNCHANGED vars => IInv'
  <2> SUFFICES ASSUME IInv, UNCHANGED vars PROVE IInv'
    OBVIOUS
  <2> USE DEF IInv, vars, hwVars, inputVars, configVars, threadVars, mainVars
  <2>1. Index' = Index /\ OfDriver("gpio")' = OfDriver("gpio")
    BY DEF Index, OfDriver
  <2>2. TypeOK'
    BY <2>1 DEF TypeOK
  <2>3. CounterInv'
    BY InputsUnchanged
  <2>4. LineInv' /\ ThreadInv' /\ WakeupNotLost' /\ ActivationReachesMain'
    BY <2>1 DEF LineInv, ThreadInv, WakeupNotLost, ActivationReachesMain
  <2>5. EdgeNotLost'
    BY <2>1 DEF EdgeNotLost, NewActive, Raw
  <2> QED
    BY <2>2, <2>3, <2>4, <2>5
<1>2. IInv /\ [Next]_vars => IInv'
  BY <1>1, HardwareKeepsIInv, ProcessKeepsIInv, MainKeepsIInv DEF Next
<1> QED
  BY <1>2, InitIInv, PTL DEF Spec

\* The types hold for every configuration, and num_active_lift_ stays between
\* 0 and the number of inputs.
THEOREM TypeCorrect == Spec => []TypeOK
<1>1. IInv => TypeOK
  BY DEF IInv
<1> QED
  BY <1>1, InductiveInvariant, PTL

\* The virtual input is active exactly when two or more lift inputs are, for
\* every configuration and every history of edges, messages and restarts.
THEOREM LiftMultipleIsExact == Spec => []LiftMultipleExact
<1>1. IInv => LiftMultipleExact
  BY DEF IInv, CounterInv, LiftMultipleExact
<1> QED
  BY <1>1, InductiveInvariant, PTL

\* No edge of a GPIO line is lost, for every number of lines and inputs.
THEOREM EdgesAreNotLost == Spec => []EdgeNotLost
<1>1. IInv => EdgeNotLost
  BY DEF IInv
<1> QED
  BY <1>1, InductiveInvariant, PTL

\* The process thread never waits with an event and an empty queue, for every
\* queue length: that SendEvent ignores a full queue does no harm.
THEOREM WakeupsAreNotLost == Spec => []WakeupNotLost
<1>1. IInv => WakeupNotLost
  BY DEF IInv
<1> QED
  BY <1>1, InductiveInvariant, PTL

\* Every activation is broadcast to the main thread and checked there.
THEOREM ActivationsReachMain == Spec => []ActivationReachesMain
<1>1. IInv => ActivationReachesMain
  BY DEF IInv
<1> QED
  BY <1>1, InductiveInvariant, PTL

=============================================================================
