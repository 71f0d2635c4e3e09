-------------------------- MODULE PacketPoolProofs --------------------------
(***************************************************************************)
(* Proofs about PacketPool, for every number of packets and services and   *)
(* every length of the queues.                                             *)
(*                                                                         *)
(* allocatePacket never hangs because the pool holds exactly one packet    *)
(* for each unit of the semaphore, for each thread that took a unit and    *)
(* not yet a packet, and for each thread that freed a packet and did not   *)
(* yet give its unit back (PoolCount). That freeing a packet adds one to   *)
(* the pool needs in turn that no packet is in two places.                 *)
(***************************************************************************)
EXTENDS PacketPool, FiniteSetTheorems, TLAPS

\* The threads between the two halves of allocatePacket or of freePacket
Between == {t \in Threads : pc[t] \in {"take", "signal"}}

PoolCount == Cardinality(pool) = sema + Cardinality(Between)

\* A thread that waits for a packet has none
OneAtATime == \A t \in Threads : pc[t] \in {"wait", "take"} => own[t] = None

IInv == TypeOK /\ NeverHangs /\ OneAtATime /\ NoSharing /\ PoolCount

-----------------------------------------------------------------------------

\* Every step of the program keeps the types.
LEMMA TypeNext == TypeOK /\ [Next]_vars => TypeOK'
<1> SUFFICES ASSUME TypeOK, [Next]_vars PROVE TypeOK'
  OBVIOUS
<1> USE DEF TypeOK, Label
<1>1. ASSUME NEW t \in Threads, AllocatePacket(t) PROVE TypeOK'
  BY <1>1 DEF AllocatePacket
<1>2. ASSUME NEW t \in Threads, SemWait(t) PROVE TypeOK'
  BY <1>2 DEF SemWait
<1>3. ASSUME NEW t \in Threads, PoolAlloc(t) PROVE TypeOK'
  BY <1>3 DEF PoolAlloc
<1>4. ASSUME NEW t \in Threads, SemSignal(t) PROVE TypeOK'
  BY <1>4 DEF SemSignal
<1>5. CASE DropPacket
  BY <1>5 DEF DropPacket, Receiving, PoolFree, Threads
<1>6. ASSUME NEW s \in Services, GivePacket(s) PROVE TypeOK'
  BY <1>6 DEF GivePacket, Receiving, Threads
<1>7. ASSUME NEW s \in Services, QueueFull(s) PROVE TypeOK'
  BY <1>7 DEF QueueFull, Receiving, PoolFree, Threads
<1>8. ASSUME NEW s \in Services, QueuePopItem(s) PROVE TypeOK'
  BY <1>8 DEF QueuePopItem, Threads
<1>9. ASSUME NEW t \in Threads, FreeReceived(t) PROVE TypeOK'
  BY <1>9 DEF FreeReceived, PoolFree, Threads
<1>10. ASSUME NEW t \in Threads, TransmitPacket(t) PROVE TypeOK'
  BY <1>10 DEF TransmitPacket, PoolFree, Threads
<1>11. CASE RefusePacket
  BY <1>11 DEF RefusePacket, Receiving, Threads
<1>12. CASE UNCHANGED vars
  BY <1>12 DEF vars
<1> QED
  BY <1>1, <1>2, <1>3, <1>4, <1>5, <1>6, <1>7, <1>8, <1>9, <1>10, <1>11, <1>12
     DEF Next, ThreadStep, ServiceStep

\* No step puts a packet into two places.
LEMMA NoSharingNext ==
  TypeOK /\ OneAtATime /\ NoSharing /\ [Next]_vars => NoSharing'
<1> SUFFICES ASSUME TypeOK, OneAtATime, NoSharing, [Next]_vars PROVE NoSharing'
  OBVIOUS
<1> USE PacketsAssumption, ThreadsAssumption DEF TypeOK, Threads
<1>1. ASSUME NEW t \in Threads, AllocatePacket(t) PROVE NoSharing'
  BY <1>1 DEF AllocatePacket, NoSharing
<1>2. ASSUME NEW t \in Threads, SemWait(t) PROVE NoSharing'
  BY <1>2 DEF SemWait, NoSharing
<1>3. ASSUME NEW t \in Threads, PoolAlloc(t) PROVE NoSharing'
  BY <1>3 DEF PoolAlloc, NoSharing, OneAtATime
<1>4. ASSUME NEW t \in Threads, SemSignal(t) PROVE NoSharing'
  BY <1>4 DEF SemSignal, NoSharing
<1>5. CASE DropPacket
  BY <1>5 DEF DropPacket, Receiving, PoolFree, NoSharing
<1>6. ASSUME NEW s \in Services, GivePacket(s) PROVE NoSharing'
  BY <1>6 DEF GivePacket, Receiving, NoSharing
<1>7. ASSUME NEW s \in Services, QueueFull(s) PROVE NoSharing'
  BY <1>7 DEF QueueFull, Receiving, PoolFree, NoSharing
<1>8. ASSUME NEW s \in Services, QueuePopItem(s) PROVE NoSharing'
  BY <1>8 DEF QueuePopItem, NoSharing
<1>9. ASSUME NEW t \in Threads, FreeReceived(t) PROVE NoSharing'
  BY <1>9 DEF FreeReceived, PoolFree, NoSharing
<1>10. ASSUME NEW t \in Threads, TransmitPacket(t) PROVE NoSharing'
  BY <1>10 DEF TransmitPacket, PoolFree, NoSharing
<1>11. CASE RefusePacket
  BY <1>11 DEF RefusePacket, Receiving, NoSharing
<1>12. CASE UNCHANGED vars
  BY <1>12 DEF vars, NoSharing
<1> QED
  BY <1>1, <1>2, <1>3, <1>4, <1>5, <1>6, <1>7, <1>8, <1>9, <1>10, <1>11, <1>12
     DEF Next, ThreadStep, ServiceStep

\* No step loses a packet.
LEMMA NoLeakNext ==
  TypeOK /\ OneAtATime /\ NoLeak /\ [Next]_vars => NoLeak'
<1> SUFFICES ASSUME TypeOK, OneAtATime, NoLeak, [Next]_vars PROVE NoLeak'
  OBVIOUS
<1> USE PacketsAssumption, ThreadsAssumption DEF TypeOK, Threads
<1>1. ASSUME NEW t \in Threads, AllocatePacket(t) PROVE NoLeak'
  BY <1>1 DEF AllocatePacket, NoLeak
<1>2. ASSUME NEW t \in Threads, SemWait(t) PROVE NoLeak'
  BY <1>2 DEF SemWait, NoLeak
<1>3. ASSUME NEW t \in Threads, PoolAlloc(t) PROVE NoLeak'
  BY <1>3 DEF PoolAlloc, NoLeak, OneAtATime
<1>4. ASSUME NEW t \in Threads, SemSignal(t) PROVE NoLeak'
  BY <1>4 DEF SemSignal, NoLeak
<1>5. CASE DropPacket
  BY <1>5 DEF DropPacket, Receiving, PoolFree, NoLeak
<1>6. ASSUME NEW s \in Services, GivePacket(s) PROVE NoLeak'
  <2> SUFFICES ASSUME NEW p \in Packets, p \notin pool,
                      ~ \E t \in Threads : own'[t] = p \/ received'[t] = p
               PROVE  \E r \in Services : \E i \in DOMAIN queue'[r] : queue'[r][i] = p
    BY <1>6 DEF GivePacket, Receiving, NoLeak
  <2>1. CASE p = own[Io]
    <3>1. /\ Len(queue[s]) + 1 \in DOMAIN queue'[s]
          /\ queue'[s][Len(queue[s]) + 1] = p
      BY <1>6, <2>1 DEF GivePacket
    <3> QED
      BY <3>1
  <2>2. CASE p # own[Io]
    <3>1. PICK r \in Services : \E i \in DOMAIN queue[r] : queue[r][i] = p
      BY <1>6, <2>2 DEF GivePacket, Receiving, NoLeak
    <3>2. PICK i \in DOMAIN queue[r] : queue[r][i] = p
      BY <3>1
    <3>3. i \in DOMAIN queue'[r] /\ queue'[r][i] = p
      BY <1>6, <3>2 DEF GivePacket
    <3> QED
      BY <3>3
  <2> QED
    BY <2>1, <2>2
<1>7. ASSUME NEW s \in Services, QueueFull(s) PROVE NoLeak'
  BY <1>7 DEF QueueFull, Receiving, PoolFree, NoLeak
<1>8. ASSUME NEW s \in Services, QueuePopItem(s) PROVE NoLeak'
  <2> SUFFICES ASSUME NEW p \in Packets, p \notin pool,
                      ~ \E t \in Threads : own'[t] = p \/ received'[t] = p
               PROVE  \E r \in Services : \E i \in DOMAIN queue'[r] : queue'[r][i] = p
    BY <1>8 DEF QueuePopItem, NoLeak
  <2>1. \A t \in Threads : own[t] # p /\ received[t] # p
    BY <1>8 DEF QueuePopItem
  <2>2. PICK r \in Services : \E i \in DOMAIN queue[r] : queue[r][i] = p
    BY <2>1 DEF NoLeak
  <2>3. PICK i \in DOMAIN queue[r] : queue[r][i] = p
    BY <2>2
  <2>4. CASE r # s
    <3>1. queue'[r] = queue[r]
      BY <1>8, <2>4 DEF QueuePopItem
    <3> QED
      BY <2>3, <3>1
  <2>5. CASE r = s
    <3>1. queue[s][1] = received'[s]
      BY <1>8 DEF QueuePopItem
    <3>2. i # 1
      BY <2>3, <2>5, <3>1
    <3>3. i - 1 \in DOMAIN queue'[s] /\ queue'[s][i - 1] = p
      BY <1>8, <2>3, <2>5, <3>2 DEF QueuePopItem
    <3> QED
      BY <3>3
  <2> QED
    BY <2>4, <2>5
<1>9. ASSUME NEW t \in Threads, FreeReceived(t) PROVE NoLeak'
  BY <1>9 DEF FreeReceived, PoolFree, NoLeak
<1>10. ASSUME NEW t \in Threads, TransmitPacket(t) PROVE NoLeak'
  BY <1>10 DEF TransmitPacket, PoolFree, NoLeak
<1>11. CASE RefusePacket
  BY <1>11 DEF RefusePacket, Receiving, NoLeak
<1>12. CASE UNCHANGED vars
  BY <1>12 DEF vars, NoLeak
<1> QED
  BY <1>1, <1>2, <1>3, <1>4, <1>5, <1>6, <1>7, <1>8, <1>9, <1>10, <1>11, <1>12
     DEF Next, ThreadStep, ServiceStep

\* A waiting thread never has a packet.
LEMMA OneAtATimeNext ==
  TypeOK /\ OneAtATime /\ [Next]_vars => OneAtATime'
<1> SUFFICES ASSUME TypeOK, OneAtATime, [Next]_vars PROVE OneAtATime'
  OBVIOUS
<1> USE DEF TypeOK, OneAtATime
<1>1. ASSUME NEW t \in Threads, ThreadStep(t) PROVE OneAtATime'
  BY <1>1 DEF ThreadStep, AllocatePacket, SemWait, PoolAlloc, SemSignal,
              TransmitPacket, FreeReceived, PoolFree
<1>2. CASE DropPacket \/ RefusePacket
  BY <1>2 DEF DropPacket, RefusePacket, Receiving, PoolFree, Threads
<1>3. ASSUME NEW s \in Services, ServiceStep(s) PROVE OneAtATime'
  BY <1>3 DEF ServiceStep, QueuePopItem, GivePacket, QueueFull, Receiving, PoolFree,
              Threads
<1>4. CASE UNCHANGED vars
  BY <1>4 DEF vars
<1> QED
  BY <1>1, <1>2, <1>3, <1>4 DEF Next

\* What the pool and the threads between two halves are counted with.
LEMMA Counting ==
  ASSUME TypeOK
  PROVE  /\ IsFiniteSet(Between) /\ IsFiniteSet(pool)
         /\ Cardinality(Between) \in Nat /\ Cardinality(pool) \in Nat
<1>1. IsFiniteSet(Threads)
  BY ThreadsAssumption, FS_Union, FS_AddElement DEF Threads
<1>2. IsFiniteSet(Between)
  BY <1>1, FS_Subset DEF Between
<1>3. IsFiniteSet(pool)
  BY PacketsAssumption, FS_Subset DEF TypeOK
<1> QED
  BY <1>2, <1>3, FS_CardinalityType

\* A thread that frees a packet adds it to the pool and is then between the
\* two halves of freePacket.
LEMMA FreeCounts ==
  ASSUME TypeOK, PoolCount, NEW t \in Threads, NEW p, p \notin pool,
         pc[t] = "run", PoolFree(t, p)
  PROVE  PoolCount'
<1>1. Between' = Between \cup {t} /\ t \notin Between
  BY DEF PoolFree, Between, TypeOK
<1>2. Cardinality(Between') = Cardinality(Between) + 1
  BY <1>1, Counting, FS_AddElement
<1>3. Cardinality(pool') = Cardinality(pool) + 1
  BY Counting, FS_AddElement DEF PoolFree
<1> QED
  BY <1>2, <1>3, Counting DEF PoolCount, PoolFree, TypeOK

\* The pool keeps one packet for every unit and every thread between two
\* halves, and whoever has a unit finds a packet.
LEMMA PoolCountNext ==
  IInv /\ [Next]_vars => PoolCount' /\ NeverHangs'
<1> SUFFICES ASSUME IInv, [Next]_vars PROVE PoolCount' /\ NeverHangs'
  OBVIOUS
<1> USE DEF IInv
<1>1. ASSUME NEW t \in Threads, AllocatePacket(t) PROVE PoolCount' /\ NeverHangs'
  <2>1. Between' = Between
    BY <1>1 DEF AllocatePacket, Between, TypeOK
  <2> QED
    BY <1>1, <2>1 DEF AllocatePacket, PoolCount, NeverHangs, TypeOK
<1>2. ASSUME NEW t \in Threads, SemWait(t) PROVE PoolCount' /\ NeverHangs'
  <2>1. Between' = Between \cup {t} /\ t \notin Between
    BY <1>2 DEF SemWait, Between, TypeOK
  <2>2. Cardinality(Between') = Cardinality(Between) + 1
    BY <2>1, Counting, FS_AddElement
  <2> QED
    BY <1>2, <2>2, Counting DEF SemWait, PoolCount, NeverHangs, TypeOK
<1>3. ASSUME NEW t \in Threads, PoolAlloc(t) PROVE PoolCount' /\ NeverHangs'
  <2>1. t \in Between
    BY <1>3 DEF PoolAlloc, Between
  <2>2. Cardinality(Between) > 0
    BY <2>1, Counting, FS_EmptySet
  <2>3. pool # {}
    BY <2>2, Counting, FS_EmptySet DEF PoolCount, TypeOK
  <2>4. PICK p \in pool : /\ pool' = pool \ {p}
                          /\ pc' = [pc EXCEPT ![t] = "run"]
    BY <1>3, <2>3 DEF PoolAlloc
  <2>5. Between' = Between \ {t}
    BY <2>4 DEF Between, TypeOK
  <2>6. Cardinality(Between') = Cardinality(Between) - 1
    BY <2>1, <2>5, Counting, FS_RemoveElement
  <2>7. Cardinality(pool') = Cardinality(pool) - 1
    BY <2>4, Counting, FS_RemoveElement
  <2> QED
    BY <1>3, <2>4, <2>6, <2>7, Counting
       DEF PoolAlloc, PoolCount, NeverHangs, TypeOK
<1>4. ASSUME NEW t \in Threads, SemSignal(t) PROVE PoolCount' /\ NeverHangs'
  <2>1. Between' = Between \ {t} /\ t \in Between
    BY <1>4 DEF SemSignal, Between, TypeOK
  <2>2. Cardinality(Between') = Cardinality(Between) - 1
    BY <2>1, Counting, FS_RemoveElement
  <2>3. sema' = sema + 1 /\ pool' = pool /\ sema \in Nat
    BY <1>4 DEF SemSignal, TypeOK
  <2>4. PoolCount'
    BY <2>2, <2>3, Counting DEF PoolCount
  <2>5. NeverHangs'
    BY <1>4 DEF SemSignal, NeverHangs, TypeOK
  <2> QED
    BY <2>4, <2>5
<1>5. ASSUME NEW t \in Threads, NEW p, PoolFree(t, p), pc[t] = "run", p \notin pool
      PROVE PoolCount' /\ NeverHangs'
  BY <1>5, FreeCounts DEF PoolFree, NeverHangs, TypeOK
<1>6. CASE DropPacket
  BY <1>5, <1>6 DEF DropPacket, Receiving, NoSharing, Threads
<1>7. ASSUME NEW s \in Services, QueueFull(s) PROVE PoolCount' /\ NeverHangs'
  BY <1>5, <1>7 DEF QueueFull, Receiving, NoSharing, Threads
<1>8. ASSUME NEW t \in Threads, FreeReceived(t) PROVE PoolCount' /\ NeverHangs'
  BY <1>5, <1>8 DEF FreeReceived, NoSharing, Threads
<1>9. ASSUME NEW t \in Threads, TransmitPacket(t) PROVE PoolCount' /\ NeverHangs'
  BY <1>5, <1>9 DEF TransmitPacket, NoSharing, Threads
<1>10. ASSUME UNCHANGED <<sema, pool, pc>> PROVE PoolCount' /\ NeverHangs'
  BY <1>10 DEF PoolCount, NeverHangs, Between
<1>11. ASSUME NEW s \in Services, GivePacket(s) \/ QueuePopItem(s)
       PROVE PoolCount' /\ NeverHangs'
  BY <1>10, <1>11 DEF GivePacket, Receiving, QueuePopItem
<1>12. CASE RefusePacket
  <2>1. Between' = Between
    BY <1>12 DEF RefusePacket, Receiving, Between, TypeOK
  <2> QED
    BY <1>12, <2>1 DEF RefusePacket, PoolCount, NeverHangs, TypeOK
<1>13. CASE UNCHANGED vars
  BY <1>10, <1>13 DEF vars
<1> QED
  BY <1>1, <1>2, <1>3, <1>4, <1>6, <1>7, <1>8, <1>9, <1>11, <1>12, <1>13
     DEF Next, ThreadStep, ServiceStep

\* The inductive invariant holds in the initial state.
LEMMA InvInit == Init => IInv /\ NoLeak
<1> SUFFICES ASSUME Init PROVE IInv /\ NoLeak
  OBVIOUS
<1>1. Between = {}
  BY DEF Between, Init
<1>2. Cardinality(Packets) \in Nat
  BY PacketsAssumption, FS_CardinalityType
<1>3. PoolCount
  BY <1>1, <1>2, FS_EmptySet DEF PoolCount, Init
<1>4. TypeOK /\ NeverHangs /\ OneAtATime /\ NoLeak
  BY <1>2 DEF TypeOK, Label, NeverHangs, OneAtATime, NoLeak, Init
<1>5. NoSharing
  BY PacketsAssumption DEF NoSharing, Init
<1> QED
  BY <1>3, <1>4, <1>5 DEF IInv

\* The inductive invariant is one.
LEMMA Invariance == Spec => [](IInv /\ NoLeak)
<1>1. IInv /\ NoLeak /\ [Next]_vars => (IInv /\ NoLeak)'
  BY TypeNext, NoSharingNext, NoLeakNext, OneAtATimeNext, PoolCountNext DEF IInv
<1> QED
  BY <1>1, InvInit, PTL DEF Spec

\* Every variable of PacketPool keeps its type.
THEOREM TypeCorrect == Spec => []TypeOK
<1>1. IInv => TypeOK
  BY DEF IInv
<1> QED
  BY <1>1, Invariance, PTL

\* The endless loop in allocatePacket is never entered, for any number of
\* packets, services and queue places and any interleaving of the threads.
THEOREM AllocationNeverHangs == Spec => []NeverHangs
<1>1. IInv => NeverHangs
  BY DEF IInv
<1> QED
  BY <1>1, Invariance, PTL

\* Every packet is always in exactly one place, on all paths of runIo,
\* receivePacket and transmitPacket.
THEOREM PacketsAreConserved == Spec => []PacketsConserved
<1>1. IInv /\ NoLeak => PacketsConserved
  BY DEF IInv, PacketsConserved
<1> QED
  BY <1>1, Invariance, PTL

-----------------------------------------------------------------------------

\* What can be held: a thread without a queue receives nothing, and no queue is
\* longer than its mailbox
Holdings ==
  /\ \A l \in Loggers : received[l] = None
  /\ \A s \in Services : Len(queue[s]) <= QueueLength

\* Every step keeps to what can be held.
LEMMA HoldingsNext == TypeOK /\ Holdings /\ [Next]_vars => Holdings'
<1> SUFFICES ASSUME TypeOK, Holdings, [Next]_vars PROVE Holdings'
  OBVIOUS
<1> USE ThreadsAssumption, QueueAssumption DEF TypeOK, Holdings, Threads
<1>1. ASSUME NEW t \in Threads, ThreadStep(t) PROVE Holdings'
  BY <1>1 DEF ThreadStep, AllocatePacket, SemWait, PoolAlloc, SemSignal,
              TransmitPacket, FreeReceived, PoolFree
<1>2. CASE DropPacket
  BY <1>2 DEF DropPacket, PoolFree
<1>3. CASE RefusePacket
  BY <1>3 DEF RefusePacket
<1>4. ASSUME NEW s \in Services, GivePacket(s) PROVE Holdings'
  BY <1>4 DEF GivePacket
<1>5. ASSUME NEW s \in Services, QueueFull(s) PROVE Holdings'
  BY <1>5 DEF QueueFull, PoolFree
<1>6. ASSUME NEW s \in Services, QueuePopItem(s) PROVE Holdings'
  BY <1>6 DEF QueuePopItem
<1>7. CASE UNCHANGED vars
  BY <1>7 DEF vars
<1> QED
  BY <1>1, <1>2, <1>3, <1>4, <1>5, <1>6, <1>7 DEF Next, ServiceStep

\* A place for a packet: the handler of a service (0) or a place in its queue,
\* and the packet that the IO thread refuses
Slots == (Services \X (0..QueueLength)) \cup {<<Io, 0>>}

\* There are as many as EnoughPackets says.
LEMMA SlotsCount ==
  /\ IsFiniteSet(Slots)
  /\ Cardinality(Slots) = Cardinality(Services) * (QueueLength + 1) + 1
<1> DEFINE OfServices == Services \X (0..QueueLength)
<1>1. IsFiniteSet(0..QueueLength) /\ Cardinality(0..QueueLength) = QueueLength + 1
  <2>1. 0 \in Int /\ QueueLength \in Int /\ QueueLength >= 0
    BY QueueAssumption
  <2> QED
    BY <2>1, FS_Interval
<1>2. /\ IsFiniteSet(OfServices)
      /\ Cardinality(OfServices) = Cardinality(Services) * (QueueLength + 1)
  BY <1>1, ThreadsAssumption, FS_Product
<1>3. <<Io, 0>> \notin OfServices
  BY ThreadsAssumption
<1>4. Slots = OfServices \cup {<<Io, 0>>}
  BY DEF Slots
<1> HIDE DEF OfServices
<1> QED
  BY <1>2, <1>3, <1>4, FS_AddElement

\* When no packet is free or on its way, the packets are all in those places.
LEMMA PacketsInSlots ==
  ASSUME TypeOK, NoLeak, Holdings, pool = {}, \A t \in Threads : own[t] = None
  PROVE  Cardinality(Packets) <= Cardinality(Slots)
<1> DEFINE In(x) == IF x[2] = 0 THEN received[x[1]] ELSE queue[x[1]][x[2]]
           Used == {x \in Slots : In(x) \in Packets}
           f == [x \in Used |-> In(x)]
<1>1. ASSUME NEW p \in Packets PROVE \E x \in Used : f[x] = p
  <2>1. \/ \E s \in Services \cup {Io} : received[s] = p
        \/ \E s \in Services : \E i \in DOMAIN queue[s] : queue[s][i] = p
    BY PacketsAssumption DEF NoLeak, Holdings, Threads
  <2>2. ASSUME NEW s \in Services \cup {Io}, received[s] = p PROVE \E x \in Used : f[x] = p
    <3>1. <<s, 0>> \in Slots
      BY QueueAssumption DEF Slots
    <3>2. In(<<s, 0>>) = p
      BY <2>2
    <3> QED
      BY <3>1, <3>2
  <2>3. ASSUME NEW s \in Services, NEW i \in DOMAIN queue[s], queue[s][i] = p
        PROVE  \E x \in Used : f[x] = p
    <3>1. i \in 0..QueueLength /\ i # 0
      BY QueueAssumption DEF TypeOK, Holdings
    <3>2. <<s, i>> \in Slots /\ In(<<s, i>>) = p
      BY <2>3, <3>1 DEF Slots
    <3> QED
      BY <3>2
  <2> QED
    BY <2>1, <2>2, <2>3
<1>2. f \in Surjection(Used, Packets)
  <2>1. f \in [Used -> Packets]
    OBVIOUS
  <2> HIDE DEF f, Used
  <2> QED
    BY <1>1, <2>1 DEF Surjection
<1>3. IsFiniteSet(Used) /\ Cardinality(Used) <= Cardinality(Slots)
  BY SlotsCount, FS_Subset
<1> HIDE DEF f, Used
<1>4. Cardinality(Packets) <= Cardinality(Used)
  BY <1>2, <1>3, FS_Surjection
<1> QED
  BY <1>3, <1>4, SlotsCount, PacketsAssumption, FS_CardinalityType

\* With enough packets, the threads never all wait for one: for every number of
\* services and every length of their queues, the size of the pool that rules out
\* a deadlock in allocatePacket.
THEOREM NotAllWait == Spec => []NeverAllWait
<1>1. Init => Holdings
  BY QueueAssumption DEF Init, Holdings, Threads
<1>2. IInv /\ Holdings /\ [Next]_vars => Holdings'
  BY HoldingsNext DEF IInv
<1>3. IInv /\ NoLeak /\ Holdings => NeverAllWait
  <2> SUFFICES ASSUME IInv, NoLeak, Holdings, EnoughPackets, ~(sema > 0),
                      \A t \in Threads : pc[t] = "wait"
               PROVE  FALSE
    BY DEF NeverAllWait
  <2>1. \A t \in Threads : own[t] = None
    BY DEF IInv, OneAtATime
  <2>2. Between = {}
    BY DEF Between
  <2>3. pool = {}
    <3>1. sema = 0
      BY DEF IInv, TypeOK
    <3>2. Cardinality(pool) = 0
      BY <2>2, <3>1, FS_EmptySet DEF IInv, PoolCount
    <3> QED
      BY <3>2, Counting, FS_EmptySet DEF IInv
  <2>4. Cardinality(Packets) <= Cardinality(Slots)
    BY <2>1, <2>3, PacketsInSlots DEF IInv
  <2>5. Cardinality(Packets) \in Nat /\ Cardinality(Slots) \in Nat
    BY PacketsAssumption, SlotsCount, FS_CardinalityType
  <2> QED
    BY <2>4, <2>5, SlotsCount DEF EnoughPackets
<1> QED
  BY <1>1, <1>2, <1>3, Invariance, PTL DEF Spec

=============================================================================
