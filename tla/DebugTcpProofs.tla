--------------------------- MODULE DebugTcpProofs ---------------------------
(***************************************************************************)
(* DebugTcp for every set of sockets and of driver threads: no write goes   *)
(* to a socket that is closed or somebody else's, and nothing of a client   *)
(* is left when the next one is accepted.                                   *)
(***************************************************************************)
EXTENDS DebugTcp, TLAPS

\* The mutex of the driver is held by the thread inside RawDataOutput, and that
\* of the socket by the one inside OnRawDriverData
MutexInv ==
  \A t \in Thread :
    /\ driverPc[t] # "run" <=> driverMutex = t
    /\ driverPc[t] \in {"write", "unlock"} <=> socketMutex = t

\* Which socket the interface serves: the only one that is open
SocketInv ==
  /\ open = (IF tcpPc \in {"listen", "ended", "accept"} THEN {} ELSE {incoming})
  /\ current = (IF tcpPc \in {"enable", "read", "input", "disable", "invalidate"}
                THEN incoming ELSE NoSocket)

\* The raw mode is on while the interface reads
RawInv == raw => tcpPc \in {"read", "input", "disable"}

IInv == TypeOK /\ MutexInv /\ SocketInv /\ RawInv /\ WritesReachClient

-----------------------------------------------------------------------------

\* Sockets have numbers from 0, so none is NoSocket.
LEMMA NoSocketIsNone == NoSocket \notin Socket
BY SocketAssumption DEF NoSocket

\* The initial state satisfies the invariant.
LEMMA InitIInv == Init => IInv
BY ThreadAssumption DEF Init, IInv, TypeOK, MutexInv, SocketInv, RawInv, WritesReachClient

\* What the client does keeps the invariant.
LEMMA NetKeepsIInv == ASSUME IInv, Net PROVE IInv'
<1> USE DEF Net, PeerFinishes, PeerResets, mutexVars, tcpVars, driverVars
<1>1. TypeOK'
  BY DEF IInv, TypeOK
<1>2. MutexInv' /\ SocketInv' /\ RawInv' /\ WritesReachClient'
  BY DEF IInv, MutexInv, SocketInv, RawInv, WritesReachClient
<1> QED
  BY <1>1, <1>2 DEF IInv

\* A step of the interface keeps the invariant. What it does with the number
\* of the socket it does while no thread of the driver writes.
LEMMA TcpKeepsIInv == ASSUME IInv, Tcp PROVE IInv'
<1> USE DEF IInv, netVars, mutexVars, driverVars
<1>1. CASE Listen
  <2> USE <1>1 DEF Listen
  <2>1. TypeOK'
    BY DEF TypeOK
  <2>2. SocketInv' /\ RawInv'
    BY DEF SocketInv, RawInv
  <2>3. MutexInv' /\ WritesReachClient'
    BY DEF MutexInv, WritesReachClient
  <2> QED
    BY <2>1, <2>2, <2>3
<1>2. CASE SetNoDelay
  <2> USE <1>2 DEF SetNoDelay
  <2>1. TypeOK'
    BY DEF TypeOK
  <2>2. SocketInv' /\ RawInv'
    BY DEF SocketInv, RawInv
  <2>3. MutexInv' /\ WritesReachClient'
    BY DEF MutexInv, WritesReachClient
  <2> QED
    BY <2>1, <2>2, <2>3
<1>3. CASE EnableRawMode
  <2> USE <1>3 DEF EnableRawMode
  <2>1. TypeOK'
    BY DEF TypeOK
  <2>2. SocketInv' /\ RawInv'
    BY DEF SocketInv, RawInv
  <2>3. MutexInv' /\ WritesReachClient'
    BY DEF MutexInv, WritesReachClient
  <2> QED
    BY <2>1, <2>2, <2>3
<1>4. CASE ReadData
  <2> USE <1>4 DEF ReadData
  <2>1. TypeOK'
    BY DEF TypeOK
  <2>2. SocketInv' /\ RawInv'
    BY DEF SocketInv, RawInv
  <2>3. MutexInv' /\ WritesReachClient'
    BY DEF MutexInv, WritesReachClient
  <2> QED
    BY <2>1, <2>2, <2>3
<1>5. CASE ReadError
  <2> USE <1>5 DEF ReadError
  <2>1. TypeOK'
    BY DEF TypeOK
  <2>2. SocketInv' /\ RawInv'
    BY DEF SocketInv, RawInv
  <2>3. MutexInv' /\ WritesReachClient'
    BY DEF MutexInv, WritesReachClient
  <2> QED
    BY <2>1, <2>2, <2>3
<1>6. CASE RawDataInput
  <2> USE <1>6 DEF RawDataInput
  <2>1. TypeOK'
    BY DEF TypeOK
  <2>2. SocketInv' /\ RawInv'
    BY DEF SocketInv, RawInv
  <2>3. MutexInv' /\ WritesReachClient'
    BY DEF MutexInv, WritesReachClient
  <2> QED
    BY <2>1, <2>2, <2>3
<1>7. CASE ReadEnd
  <2> USE <1>7 DEF ReadEnd
  <2>1. TypeOK'
    BY DEF TypeOK
  <2>2. SocketInv' /\ RawInv'
    BY DEF SocketInv, RawInv
  <2>3. MutexInv' /\ WritesReachClient'
    BY DEF MutexInv, WritesReachClient
  <2> QED
    BY <2>1, <2>2, <2>3
<1>8. CASE DisableRawMode
  <2> USE <1>8 DEF DisableRawMode
  <2>1. TypeOK'
    BY DEF TypeOK
  <2>2. SocketInv' /\ RawInv'
    BY DEF SocketInv, RawInv
  <2>3. MutexInv' /\ WritesReachClient'
    BY DEF MutexInv, WritesReachClient
  <2> QED
    BY <2>1, <2>2, <2>3
<1>9. ASSUME NEW s \in Socket, Accept(s) PROVE IInv'
  <2> USE <1>9 DEF Accept
  <2>1. TypeOK'
    BY DEF TypeOK
  <2>2. SocketInv' /\ RawInv'
    BY DEF SocketInv, RawInv
  <2>3. MutexInv' /\ WritesReachClient'
    BY DEF MutexInv, WritesReachClient
  <2> QED
    BY <2>1, <2>2, <2>3
<1>10. CASE SetNoDelayFails
  <2> USE <1>10 DEF SetNoDelayFails
  <2>1. current = NoSocket
    BY DEF SocketInv
  <2>2. \A t \in Thread : driverPc[t] # "write"
    BY <2>1, NoSocketIsNone DEF WritesReachClient, TypeOK
  <2>3. TypeOK'
    BY DEF TypeOK
  <2>4. SocketInv' /\ RawInv'
    BY <2>1 DEF SocketInv, RawInv
  <2>5. MutexInv' /\ WritesReachClient'
    BY <2>2 DEF MutexInv, WritesReachClient
  <2> QED
    BY <2>3, <2>4, <2>5
<1>11. CASE CloseSocket
  <2> USE <1>11 DEF CloseSocket
  <2>1. current = NoSocket
    BY DEF SocketInv
  <2>2. \A t \in Thread : driverPc[t] # "write"
    BY <2>1, NoSocketIsNone DEF WritesReachClient, TypeOK
  <2>3. TypeOK'
    BY DEF TypeOK
  <2>4. SocketInv' /\ RawInv'
    BY <2>1 DEF SocketInv, RawInv
  <2>5. MutexInv' /\ WritesReachClient'
    BY <2>2 DEF MutexInv, WritesReachClient
  <2> QED
    BY <2>3, <2>4, <2>5
<1>12. CASE StoreSocket
  <2> USE <1>12 DEF StoreSocket
  <2>1. \A t \in Thread : driverPc[t] # "write"
    BY ThreadAssumption DEF MutexInv
  <2>2. TypeOK'
    BY DEF TypeOK
  <2>3. SocketInv' /\ RawInv'
    BY DEF SocketInv, RawInv
  <2>4. MutexInv' /\ WritesReachClient'
    BY <2>1 DEF MutexInv, WritesReachClient
  <2> QED
    BY <2>2, <2>3, <2>4
<1>13. CASE InvalidateSocket
  <2> USE <1>13 DEF InvalidateSocket
  <2>1. \A t \in Thread : driverPc[t] # "write"
    BY ThreadAssumption DEF MutexInv
  <2>2. TypeOK'
    BY DEF TypeOK
  <2>3. SocketInv' /\ RawInv'
    BY DEF SocketInv, RawInv
  <2>4. MutexInv' /\ WritesReachClient'
    BY <2>1 DEF MutexInv, WritesReachClient
  <2> QED
    BY <2>2, <2>3, <2>4
<1> QED
  BY <1>1, <1>2, <1>3, <1>4, <1>5, <1>6, <1>7, <1>8, <1>9, <1>10, <1>11, <1>12, <1>13 DEF Tcp

\* A step of a driver thread keeps the invariant: it takes a mutex only when
\* nobody has it, and writes to the socket it finds under the mutex.
LEMMA DriverKeepsIInv == ASSUME IInv, NEW t \in Thread, Driver(t) PROVE IInv'
<1> USE DEF IInv, netVars, mutexVars, tcpVars
<1>1. CASE RawDataOutput(t)
  <2> USE <1>1 DEF RawDataOutput
  <2>1. driverPc \in [Thread -> {"run", "callback", "write", "unlock", "return"}]
    BY DEF TypeOK
  <2>2. TypeOK'
    BY DEF TypeOK
  <2>3. SocketInv' /\ RawInv'
    BY DEF SocketInv, RawInv
  <2>4. MutexInv'
    BY <2>1, ThreadAssumption DEF MutexInv
  <2>5. WritesReachClient'
    BY <2>1, NoSocketIsNone DEF WritesReachClient, SocketInv, TypeOK
  <2> QED
    BY <2>2, <2>3, <2>4, <2>5
<1>2. CASE OnRawDriverData(t)
  <2> USE <1>2 DEF OnRawDriverData
  <2>1. driverPc \in [Thread -> {"run", "callback", "write", "unlock", "return"}]
    BY DEF TypeOK
  <2>2. TypeOK'
    BY DEF TypeOK
  <2>3. SocketInv' /\ RawInv'
    BY DEF SocketInv, RawInv
  <2>4. MutexInv'
    BY <2>1, ThreadAssumption DEF MutexInv
  <2>5. WritesReachClient'
    BY <2>1, NoSocketIsNone DEF WritesReachClient, SocketInv, TypeOK
  <2> QED
    BY <2>2, <2>3, <2>4, <2>5
<1>3. CASE WriteReturns(t)
  <2> USE <1>3 DEF WriteReturns
  <2>1. driverPc \in [Thread -> {"run", "callback", "write", "unlock", "return"}]
    BY DEF TypeOK
  <2>2. TypeOK'
    BY DEF TypeOK
  <2>3. SocketInv' /\ RawInv'
    BY DEF SocketInv, RawInv
  <2>4. MutexInv'
    BY <2>1, ThreadAssumption DEF MutexInv
  <2>5. WritesReachClient'
    BY <2>1, NoSocketIsNone DEF WritesReachClient, SocketInv, TypeOK
  <2> QED
    BY <2>2, <2>3, <2>4, <2>5
<1>4. CASE UnlockSocket(t)
  <2> USE <1>4 DEF UnlockSocket
  <2>1. driverPc \in [Thread -> {"run", "callback", "write", "unlock", "return"}]
    BY DEF TypeOK
  <2>2. TypeOK'
    BY DEF TypeOK
  <2>3. SocketInv' /\ RawInv'
    BY DEF SocketInv, RawInv
  <2>4. MutexInv'
    BY <2>1, ThreadAssumption DEF MutexInv
  <2>5. WritesReachClient'
    BY <2>1, NoSocketIsNone DEF WritesReachClient, SocketInv, TypeOK
  <2> QED
    BY <2>2, <2>3, <2>4, <2>5
<1>5. CASE OutputReturns(t)
  <2> USE <1>5 DEF OutputReturns
  <2>1. driverPc \in [Thread -> {"run", "callback", "write", "unlock", "return"}]
    BY DEF TypeOK
  <2>2. TypeOK'
    BY DEF TypeOK
  <2>3. SocketInv' /\ RawInv'
    BY DEF SocketInv, RawInv
  <2>4. MutexInv'
    BY <2>1, ThreadAssumption DEF MutexInv
  <2>5. WritesReachClient'
    BY <2>1, NoSocketIsNone DEF WritesReachClient, SocketInv, TypeOK
  <2> QED
    BY <2>2, <2>3, <2>4, <2>5
<1> QED
  BY <1>1, <1>2, <1>3, <1>4, <1>5 DEF Driver, Output

\* IInv is an invariant of the specification.
THEOREM InductiveInvariant == Spec => []IInv
<1>1. IInv /\ UNCHANGED vars => IInv'
  BY DEF IInv, TypeOK, MutexInv, SocketInv, RawInv, WritesReachClient,
         vars, netVars, mutexVars, tcpVars, driverVars
<1>2. IInv /\ [Next]_vars => IInv'
  BY <1>1, NetKeepsIInv, TcpKeepsIInv, DriverKeepsIInv DEF Next
<1> QED
  BY <1>2, InitIInv, PTL DEF Spec

\* The types hold for every set of sockets and threads.
THEOREM TypeCorrect == Spec => []TypeOK
<1>1. IInv => TypeOK
  BY DEF IInv
<1> QED
  BY <1>1, InductiveInvariant, PTL

\* A write of the driver goes to the open socket of the present client, for
\* every number of sockets and of threads that write.
THEOREM WritesAlwaysReachClient == Spec => []WritesReachClient
<1>1. IInv => WritesReachClient
  BY DEF IInv
<1> QED
  BY <1>1, InductiveInvariant, PTL

\* Nothing of an earlier client is left when the next one is accepted, for every
\* number of sockets and of threads that write.
THEOREM NothingIsLeftBehind == Spec => []NothingLeftBehind
<1>1. IInv => NothingLeftBehind
  BY DEF IInv, RawInv, SocketInv, NothingLeftBehind
<1> QED
  BY <1>1, InductiveInvariant, PTL

\* The mutexes of the driver and of the interface never make threads wait for
\* each other, for every number of threads that write.
THEOREM WaitsAreNotCircular == Spec => []NoCircularWait
<1>1. ASSUME IInv PROVE NoCircularWait
  <2>1. socketMutex # Nobody => GoesOn(socketMutex)
    BY <1>1 DEF IInv, TypeOK, MutexInv, GoesOn, Blocker
  <2>2. driverMutex # Nobody => driverPc[driverMutex] # "run"
    BY <1>1 DEF IInv, TypeOK, MutexInv
  <2>3. driverMutex # Nobody => Blocker(driverMutex) \in {socketMutex, Nobody}
    BY <2>2 DEF Blocker
  <2> QED
    BY <2>1, <2>3 DEF NoCircularWait, GoesOn
<1> QED
  BY <1>1, InductiveInvariant, PTL

=============================================================================
