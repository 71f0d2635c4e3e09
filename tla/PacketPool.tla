----------------------------- MODULE PacketPool -----------------------------
(***************************************************************************)
(* The packets of the xbot services: allocatePacket and freePacket, the IO *)
(* thread that receives packets and puts them into the queue of a service, *)
(* and the service threads that handle and send them.                      *)
(*                                                                         *)
(* A counting semaphore guards a memory pool of as many packets as it has  *)
(* units. The two are changed one after the other, by threads that run in  *)
(* any order: chSemWait then the allocation, the deallocation then         *)
(* chSemSignal. allocatePacket loops forever when the pool turns out to be *)
(* empty after chSemWait.                                                  *)
(*                                                                         *)
(* Log messages are sent over the network too (startRemoteLogging in       *)
(* main.cpp) and each takes a packet of this pool. runIo logs a packet of  *)
(* a wrong size before it frees it, and so waits for a packet while it     *)
(* holds one.                                                              *)
(*                                                                         *)
(* The remote logger and what a service does with its queue are in the     *)
(* xbot framework (external). Assumed of them: a log message takes one     *)
(* packet, sends it and frees it; a service thread takes one packet at a   *)
(* time from its queue, may send packets and log while it holds it, one    *)
(* after the other, and then frees it.                                     *)
(***************************************************************************)
EXTENDS Naturals, Sequences, FiniteSets

CONSTANTS Packets,      \* XBOT_PACKET_POOL_SIZE packets
          Services,     \* the threads of the services
          Loggers,      \* threads without a queue that log or send: main, drivers
          Io,           \* the thread xbot-io
          QueueLength,  \* the length of a service's mailbox
          None

Threads == Services \cup Loggers \cup {Io}

ASSUME PacketsAssumption == IsFiniteSet(Packets) /\ None \notin Packets
ASSUME ThreadsAssumption ==
  /\ IsFiniteSet(Services) /\ IsFiniteSet(Loggers)
  /\ Services \cap Loggers = {} /\ Io \notin Services \cup Loggers
ASSUME QueueAssumption == QueueLength \in Nat

VARIABLES
  sema,       \* units of xbot_packet_sema
  pool,       \* xbot_packet_pool: the free packets
  pc,         \* where a thread is in allocatePacket and freePacket
  own,        \* the packet a thread allocated
  received,   \* the packet a service thread took from its queue, or the one
              \* that the IO thread refuses and logs
  queue       \* packet_queue_ of a service

vars == <<sema, pool, pc, own, received, queue>>

\* "run": outside; "wait": in chSemWait; "take": got a unit, not yet a packet;
\* "hang": in the endless loop; "signal": the packet is freed, the unit not
Label == {"run", "wait", "take", "hang", "signal"}

\* Mutant of Init: the semaphore has one unit too many
InitOneTooMany ==
  /\ sema = Cardinality(Packets) + 1
  /\ pool = Packets
  /\ pc = [t \in Threads |-> "run"]
  /\ own = [t \in Threads |-> None]
  /\ received = [t \in Threads |-> None]
  /\ queue = [s \in Services |-> <<>>]

Init ==
  /\ sema = Cardinality(Packets)
  /\ pool = Packets
  /\ pc = [t \in Threads |-> "run"]
  /\ own = [t \in Threads |-> None]
  /\ received = [t \in Threads |-> None]
  /\ queue = [s \in Services |-> <<>>]

-----------------------------------------------------------------------------
(* allocatePacket and freePacket *)

\* receivePacket of the IO thread, or a message another thread sends or logs
AllocatePacket(t) ==
  /\ pc[t] = "run" /\ own[t] = None
  /\ t = Io => received[t] = None
  /\ pc' = [pc EXCEPT ![t] = "wait"]
  /\ UNCHANGED <<sema, pool, own, received, queue>>

\* Mutant of SemWait: the wait times out and nobody looks at its result
SemWaitTimeout(t) ==
  /\ pc[t] = "wait"
  /\ sema' = sema - 1
  /\ pc' = [pc EXCEPT ![t] = "take"]
  /\ UNCHANGED <<pool, own, received, queue>>

SemWait(t) ==
  /\ pc[t] = "wait" /\ sema > 0
  /\ sema' = sema - 1
  /\ pc' = [pc EXCEPT ![t] = "take"]
  /\ UNCHANGED <<pool, own, received, queue>>

PoolAlloc(t) ==
  /\ pc[t] = "take"
  /\ \/ \E p \in pool : /\ pool' = pool \ {p}
                        /\ own' = [own EXCEPT ![t] = p]
                        /\ pc' = [pc EXCEPT ![t] = "run"]
     \/ /\ pool = {}
        /\ pc' = [pc EXCEPT ![t] = "hang"]
        /\ UNCHANGED <<pool, own>>
  /\ UNCHANGED <<sema, received, queue>>

\* The first half of freePacket
PoolFree(t, p) ==
  /\ pool' = pool \cup {p}
  /\ pc' = [pc EXCEPT ![t] = "signal"]
  /\ UNCHANGED sema

SemSignal(t) ==
  /\ pc[t] = "signal"
  /\ sema' = sema + 1
  /\ pc' = [pc EXCEPT ![t] = "run"]
  /\ UNCHANGED <<pool, own, received, queue>>

-----------------------------------------------------------------------------
(* The IO thread: receivePacket and runIo *)

\* The IO thread has a packet of its own to receive into, not one of the logger
Receiving == pc[Io] = "run" /\ own[Io] # None /\ received[Io] = None

\* Nothing received in a second, or a packet for a service that does not exist
\* or is stopped; nothing is logged
DropPacket ==
  /\ Receiving
  /\ own' = [own EXCEPT ![Io] = None]
  /\ PoolFree(Io, own[Io])
  /\ UNCHANGED <<received, queue>>

\* A packet of a wrong size, or one that ioInput could not put into the queue:
\* ULOG_ERROR comes first, and its message needs a packet, before freePacket
\* (FreeReceived)
RefusePacket ==
  /\ Receiving
  /\ received' = [received EXCEPT ![Io] = own[Io]]
  /\ own' = [own EXCEPT ![Io] = None]
  /\ pc' = [pc EXCEPT ![Io] = "wait"]
  /\ UNCHANGED <<sema, pool, queue>>

\* Mutant of GivePacket: runIo does not remember that it delivered the packet
GivePacketAndFree(s) ==
  /\ Receiving
  /\ Len(queue[s]) < QueueLength
  /\ queue' = [queue EXCEPT ![s] = Append(@, own[Io])]
  /\ own' = [own EXCEPT ![Io] = None]
  /\ PoolFree(Io, own[Io])
  /\ UNCHANGED received

\* Mutant of GivePacket: a queue takes any number of packets
GivePacketAlways(s) ==
  /\ Receiving
  /\ queue' = [queue EXCEPT ![s] = Append(@, own[Io])]
  /\ own' = [own EXCEPT ![Io] = None]
  /\ UNCHANGED <<sema, pool, pc, received>>

\* service->ioInput(packet): into the queue
GivePacket(s) ==
  /\ Receiving
  /\ Len(queue[s]) < QueueLength
  /\ queue' = [queue EXCEPT ![s] = Append(@, own[Io])]
  /\ own' = [own EXCEPT ![Io] = None]
  /\ UNCHANGED <<sema, pool, pc, received>>

\* queuePushItem gives up after 10 ms and the framework frees the packet
QueueFull(s) ==
  /\ Receiving
  /\ Len(queue[s]) = QueueLength
  /\ own' = [own EXCEPT ![Io] = None]
  /\ PoolFree(Io, own[Io])
  /\ UNCHANGED <<received, queue>>

-----------------------------------------------------------------------------
(* The service threads, and the logger in the IO thread *)

QueuePopItem(s) ==
  /\ pc[s] = "run" /\ own[s] = None /\ received[s] = None
  /\ queue[s] # <<>>
  /\ received' = [received EXCEPT ![s] = Head(queue[s])]
  /\ queue' = [queue EXCEPT ![s] = Tail(@)]
  /\ UNCHANGED <<sema, pool, pc, own>>

\* The handler is done with the packet it received, or runIo with the one that
\* it refused
FreeReceived(t) ==
  /\ pc[t] = "run" /\ own[t] = None /\ received[t] # None
  /\ received' = [received EXCEPT ![t] = None]
  /\ PoolFree(t, received[t])
  /\ UNCHANGED <<own, queue>>

\* Mutant of TransmitPacket: the packet is kept as long as sendto fails
TransmitPacketRetrying(t) ==
  /\ pc[t] = "run" /\ own[t] # None
  /\ UNCHANGED vars

\* transmitPacket: whatever sendto returns, the packet is freed. The IO thread
\* sends only what it logs.
TransmitPacket(t) ==
  /\ pc[t] = "run" /\ own[t] # None
  /\ t = Io => received[t] # None
  /\ own' = [own EXCEPT ![t] = None]
  /\ PoolFree(t, own[t])
  /\ UNCHANGED <<received, queue>>

-----------------------------------------------------------------------------

ThreadStep(t) == \/ AllocatePacket(t) \/ SemWait(t) \/ PoolAlloc(t) \/ SemSignal(t)
                 \/ TransmitPacket(t) \/ FreeReceived(t)

ServiceStep(s) == QueuePopItem(s) \/ GivePacket(s) \/ QueueFull(s)

Next == \/ DropPacket
        \/ RefusePacket
        \/ \E t \in Threads : ThreadStep(t)
        \/ \E s \in Services : ServiceStep(s)

Spec == Init /\ [][Next]_vars

\* Every thread goes on and finishes what it began; the waiting threads of a
\* semaphore are served in the order they came, so none is passed over forever
Fairness ==
  /\ \A t \in Threads :
       /\ SF_vars(SemWait(t)) /\ WF_vars(PoolAlloc(t)) /\ WF_vars(SemSignal(t))
       /\ WF_vars(TransmitPacket(t)) /\ WF_vars(FreeReceived(t))
  /\ WF_vars(DropPacket \/ RefusePacket \/ \E s \in Services : GivePacket(s) \/ QueueFull(s))

FairSpec == Spec /\ Fairness

-----------------------------------------------------------------------------

\* Every variable keeps its type.
TypeOK ==
  /\ sema \in Nat
  /\ pool \subseteq Packets
  /\ pc \in [Threads -> Label]
  /\ own \in [Threads -> Packets \cup {None}]
  /\ received \in [Threads -> Packets \cup {None}]
  /\ queue \in [Services -> Seq(Packets)]

\* No thread ends in the endless loop of allocatePacket: whoever got a unit of
\* the semaphore finds a packet in the pool, in every interleaving with the
\* threads that allocate or free packets.
NeverHangs == \A t \in Threads : pc[t] # "hang"

\* No packet is in two places, or in a queue twice
NoSharing ==
  /\ \A t \in Threads : own[t] \notin pool /\ received[t] \notin pool
  /\ \A t, u \in Threads :
       /\ own[t] = own[u] /\ own[t] # None => t = u
       /\ received[t] = received[u] /\ received[t] # None => t = u
       /\ own[t] = received[u] => own[t] = None
  /\ \A s \in Services : \A i \in DOMAIN queue[s] :
       /\ queue[s][i] \notin pool
       /\ \A t \in Threads : queue[s][i] # own[t] /\ queue[s][i] # received[t]
  /\ \A r, s \in Services : \A i \in DOMAIN queue[r], j \in DOMAIN queue[s] :
       queue[r][i] = queue[s][j] => r = s /\ i = j

\* No packet is in no place
NoLeak ==
  \A p \in Packets :
    \/ p \in pool
    \/ \E t \in Threads : own[t] = p \/ received[t] = p
    \/ \E s \in Services : \E i \in DOMAIN queue[s] : queue[s][i] = p

\* Every packet is in exactly one place: none is lost on any error path of the
\* IO thread or a service, none is used after it was freed or freed twice.
PacketsConserved == NoSharing /\ NoLeak

\* With more packets than the queues and the handlers of the services can hold
\* together, and one for the packet that the IO thread refuses, the threads never
\* wait for a packet all of them: handlers send, and the IO thread logs, while they
\* hold the packet that they received, so with fewer each may wait for the packets
\* of the others.
EnoughPackets ==
  Cardinality(Packets) > Cardinality(Services) * (QueueLength + 1) + 1

NeverAllWait == EnoughPackets => sema > 0 \/ \E t \in Threads : pc[t] # "wait"

\* A thread that waits for a packet gets one, when there are more packets than
\* the queues, the handlers of the services and the IO thread can hold together
\* (EnoughPackets, which holds in the run).
AllocationSucceeds ==
  \A t \in Threads : pc[t] = "wait" ~> own[t] # None

=============================================================================
