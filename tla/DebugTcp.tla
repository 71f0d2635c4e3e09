------------------------------ MODULE DebugTcp ------------------------------
(***************************************************************************)
(* The debug access to a driver over TCP: the thread of DebugTCPInterface,  *)
(* which serves one client after the other, and threads of the driver,      *)
(* whose raw output goes to the client through OnRawDriverData.             *)
(*                                                                         *)
(* They share the number of the client's socket (under socket_mutex_) and   *)
(* the raw mode of the driver (under mutex_). A driver thread holds both    *)
(* while it writes, which can take as long as the client likes. lwIP        *)
(* (external) gives the number of a closed socket to a later connection.    *)
(***************************************************************************)
EXTENDS Integers

CONSTANTS Socket,  \* numbers of sockets
          Thread   \* threads of the driver that have raw output

NoSocket == -1     \* current_client_socket_ without a client
Nobody == "nobody" \* a free mutex

ASSUME SocketAssumption == Socket \subseteq Nat
ASSUME ThreadAssumption == Nobody \notin Thread

VARIABLES
  \* lwIP and the client
  open,         \* sockets that are open
  peer,         \* what the client of the last connection does
  \* shared state
  current,      \* current_client_socket_
  socketMutex,  \* the thread that holds socket_mutex_
  raw,          \* is_raw_mode_
  driverMutex,  \* the thread that holds mutex_ of the driver
  \* threads
  tcpPc, incoming,
  driverPc,     \* where each thread of the driver is
  writing       \* the socket that its write() uses

netVars    == <<open, peer>>
mutexVars  == <<socketMutex, driverMutex>>
tcpVars    == <<tcpPc, incoming>>
driverVars == <<driverPc, writing>>
vars == <<netVars, current, raw, mutexVars, tcpVars, driverVars>>

Init ==
  /\ open = {} /\ peer = "none"
  /\ current = NoSocket /\ socketMutex = Nobody
  /\ raw = FALSE /\ driverMutex = Nobody
  /\ tcpPc = "listen" /\ incoming = NoSocket
  /\ driverPc = [t \in Thread |-> "run"] /\ writing = [t \in Thread |-> NoSocket]

-----------------------------------------------------------------------------
(* The client and lwIP *)

\* The client closes its side
PeerFinishes ==
  /\ peer = "up"
  /\ peer' = "finished"
  /\ UNCHANGED <<open, current, raw, mutexVars, tcpVars, driverVars>>

\* The connection breaks
PeerResets ==
  /\ peer = "up"
  /\ peer' = "reset"
  /\ UNCHANGED <<open, current, raw, mutexVars, tcpVars, driverVars>>

-----------------------------------------------------------------------------
(* The thread of the interface: ThreadFunc *)

\* socket(), bind() and listen(): the thread ends when one fails
Listen ==
  /\ tcpPc = "listen"
  /\ tcpPc' \in {"accept", "ended"}
  /\ UNCHANGED <<netVars, current, raw, mutexVars, incoming, driverVars>>

\* accept() returns a socket
Accept(s) ==
  /\ tcpPc = "accept" /\ s \notin open
  /\ open' = open \cup {s} /\ peer' = "up"
  /\ incoming' = s
  /\ tcpPc' = "setsockopt"
  /\ UNCHANGED <<current, raw, mutexVars, driverVars>>

\* TCP_NODELAY is set
SetNoDelay ==
  /\ tcpPc = "setsockopt"
  /\ tcpPc' = "store"
  /\ UNCHANGED <<netVars, current, raw, mutexVars, incoming, driverVars>>

\* Mutant of SetNoDelayFails: the closed socket is served nevertheless
SetNoDelayFailsGoingOn ==
  /\ tcpPc = "setsockopt"
  /\ open' = open \ {incoming} /\ peer' = "none"
  /\ tcpPc' = "store"
  /\ UNCHANGED <<current, raw, mutexVars, incoming, driverVars>>

\* It cannot be set: the socket is closed at once
SetNoDelayFails ==
  /\ tcpPc = "setsockopt"
  /\ open' = open \ {incoming} /\ peer' = "none"
  /\ incoming' = NoSocket
  /\ tcpPc' = "accept"
  /\ UNCHANGED <<current, raw, mutexVars, driverVars>>

\* current_client_socket_ = incoming under the mutex
StoreSocket ==
  /\ tcpPc = "store" /\ socketMutex = Nobody
  /\ current' = incoming
  /\ tcpPc' = "enable"
  /\ UNCHANGED <<netVars, raw, mutexVars, incoming, driverVars>>

\* SetRawAccessMode(true)
EnableRawMode ==
  /\ tcpPc = "enable" /\ driverMutex = Nobody
  /\ raw' = TRUE
  /\ tcpPc' = "read"
  /\ UNCHANGED <<netVars, current, mutexVars, incoming, driverVars>>

\* read() returns data, which may have come before the client closed its side
ReadData ==
  /\ tcpPc = "read" /\ peer \in {"up", "finished"}
  /\ tcpPc' = "input"
  /\ UNCHANGED <<netVars, current, raw, mutexVars, incoming, driverVars>>

\* read() fails. Its result -1 is kept in a size_t and counts as data.
ReadError ==
  /\ tcpPc = "read" /\ peer = "reset"
  /\ tcpPc' = "input"
  /\ UNCHANGED <<netVars, current, raw, mutexVars, incoming, driverVars>>

\* RawDataInput of the driver returns
RawDataInput ==
  /\ tcpPc = "input"
  /\ tcpPc' = "read"
  /\ UNCHANGED <<netVars, current, raw, mutexVars, incoming, driverVars>>

\* Mutant of ReadEnd: the raw mode is left on
ReadEndLeavingRawMode ==
  /\ tcpPc = "read" /\ peer = "finished"
  /\ tcpPc' = "invalidate"
  /\ UNCHANGED <<netVars, current, raw, mutexVars, incoming, driverVars>>

\* Mutant of ReadEnd: the result 0 counts as data
ReadEndContinuing ==
  /\ tcpPc = "read" /\ peer = "finished"
  /\ tcpPc' = "input"
  /\ UNCHANGED <<netVars, current, raw, mutexVars, incoming, driverVars>>

\* read() returns 0: the client has closed its side
ReadEnd ==
  /\ tcpPc = "read" /\ peer = "finished"
  /\ tcpPc' = "disable"
  /\ UNCHANGED <<netVars, current, raw, mutexVars, incoming, driverVars>>

\* SetRawAccessMode(false)
DisableRawMode ==
  /\ tcpPc = "disable" /\ driverMutex = Nobody
  /\ raw' = FALSE
  /\ tcpPc' = "invalidate"
  /\ UNCHANGED <<netVars, current, mutexVars, incoming, driverVars>>

\* Mutant of InvalidateSocket: without the mutex
InvalidateSocketUnlocked ==
  /\ tcpPc = "invalidate"
  /\ current' = NoSocket
  /\ tcpPc' = "close"
  /\ UNCHANGED <<netVars, raw, mutexVars, incoming, driverVars>>

\* current_client_socket_ = -1 under the mutex
InvalidateSocket ==
  /\ tcpPc = "invalidate" /\ socketMutex = Nobody
  /\ current' = NoSocket
  /\ tcpPc' = "close"
  /\ UNCHANGED <<netVars, raw, mutexVars, incoming, driverVars>>

CloseSocket ==
  /\ tcpPc = "close"
  /\ open' = open \ {incoming} /\ peer' = "none"
  /\ incoming' = NoSocket
  /\ tcpPc' = "accept"
  /\ UNCHANGED <<current, raw, mutexVars, driverVars>>

-----------------------------------------------------------------------------
(* A thread of the driver *)

\* RawDataOutput locks mutex_ and calls the callback
RawDataOutput(t) ==
  /\ driverPc[t] = "run" /\ driverMutex = Nobody
  /\ driverMutex' = t
  /\ driverPc' = [driverPc EXCEPT ![t] = "callback"]
  /\ UNCHANGED <<netVars, current, raw, socketMutex, tcpVars, writing>>

\* Mutant of OnRawDriverData: without a client it returns with the mutex locked
OnRawDriverDataKeepingLock(t) ==
  /\ driverPc[t] = "callback" /\ socketMutex = Nobody
  /\ socketMutex' = t
  /\ writing' = [writing EXCEPT ![t] = current]
  /\ driverPc' = [driverPc EXCEPT ![t] = IF current # NoSocket THEN "write" ELSE "return"]
  /\ UNCHANGED <<netVars, current, raw, driverMutex, tcpVars>>

\* OnRawDriverData locks socket_mutex_, and writes if there is a client
OnRawDriverData(t) ==
  /\ driverPc[t] = "callback" /\ socketMutex = Nobody
  /\ socketMutex' = t
  /\ writing' = [writing EXCEPT ![t] = current]
  /\ driverPc' = [driverPc EXCEPT ![t] = IF current # NoSocket THEN "write" ELSE "unlock"]
  /\ UNCHANGED <<netVars, current, raw, driverMutex, tcpVars>>

\* write() returns, with or without an error
WriteReturns(t) ==
  /\ driverPc[t] = "write"
  /\ writing' = [writing EXCEPT ![t] = NoSocket]
  /\ driverPc' = [driverPc EXCEPT ![t] = "unlock"]
  /\ UNCHANGED <<netVars, current, raw, mutexVars, tcpVars>>

\* OnRawDriverData returns
UnlockSocket(t) ==
  /\ driverPc[t] = "unlock"
  /\ socketMutex' = Nobody
  /\ driverPc' = [driverPc EXCEPT ![t] = "return"]
  /\ UNCHANGED <<netVars, current, raw, driverMutex, tcpVars, writing>>

\* RawDataOutput returns
OutputReturns(t) ==
  /\ driverPc[t] = "return"
  /\ driverMutex' = Nobody
  /\ driverPc' = [driverPc EXCEPT ![t] = "run"]
  /\ UNCHANGED <<netVars, current, raw, socketMutex, tcpVars, writing>>

Net == PeerFinishes \/ PeerResets

Tcp == \/ Listen \/ (\E s \in Socket : Accept(s))
       \/ SetNoDelay \/ SetNoDelayFails
       \/ StoreSocket \/ EnableRawMode
       \/ ReadData \/ ReadError \/ RawDataInput \/ ReadEnd
       \/ DisableRawMode \/ InvalidateSocket \/ CloseSocket

\* A thread that is inside RawDataOutput goes on
Output(t) == OnRawDriverData(t) \/ WriteReturns(t) \/ UnlockSocket(t) \/ OutputReturns(t)

Driver(t) == RawDataOutput(t) \/ Output(t)

Next == Net \/ Tcp \/ \E t \in Thread : Driver(t)

Spec == Init /\ [][Next]_vars

(***************************************************************************)
(* Fairness. All threads go on when they can, and a thread that waits for  *)
(* a mutex gets it when it is free again and again, since ChibiOS queues   *)
(* the threads of a mutex. That write() returns is up to the client and to *)
(* the timers of TCP. A client that closed its side has sent a finite      *)
(* amount of data, so read() comes to its end: it is enabled again and     *)
(* again until it does. Nothing is assumed of clients that come or go.     *)
(***************************************************************************)
FairSpec ==
  /\ Spec
  /\ SF_vars(StoreSocket) /\ SF_vars(EnableRawMode)
  /\ SF_vars(DisableRawMode) /\ SF_vars(InvalidateSocket)
  /\ SF_vars(ReadEnd)
  /\ WF_vars(SetNoDelay \/ SetNoDelayFails \/ RawDataInput \/ CloseSocket)
  /\ \A t \in Thread : SF_vars(Output(t))

-----------------------------------------------------------------------------
(* Properties *)

\* Every variable keeps its type.
TypeOK ==
  /\ open \subseteq Socket /\ peer \in {"none", "up", "finished", "reset"}
  /\ current \in Socket \cup {NoSocket}
  /\ raw \in BOOLEAN
  /\ socketMutex \in Thread \cup {Nobody} /\ driverMutex \in Thread \cup {Nobody}
  /\ tcpPc \in {"listen", "ended", "accept", "setsockopt", "store", "enable", "read",
                "input", "disable", "invalidate", "close"}
  /\ incoming \in open \cup {NoSocket}
  /\ driverPc \in [Thread -> {"run", "callback", "write", "unlock", "return"}]
  /\ writing \in [Thread -> Socket \cup {NoSocket}]

\* While a thread of the driver writes to a socket it stays open and belongs to the
\* client: the interface waits for the last transmission before it closes a
\* socket, whose number may then be given to somebody else.
WritesReachClient ==
  \A t \in Thread : driverPc[t] = "write" => writing[t] \in open /\ writing[t] = current

\* When the interface accepts the next client nothing of an earlier one is left,
\* whichever way it went and whatever the driver's threads did meanwhile: the driver
\* is not in raw mode, no socket is stored for its output, and none is open.
\* (The interface does not get there after a connection that broke: read() then
\* fails for ever, and the driver stays in raw mode.)
NothingLeftBehind ==
  tcpPc = "accept" => ~raw /\ current = NoSocket /\ open = {}

\* The thread that thread t of the driver waits for
Blocker(t) ==
  CASE driverPc[t] = "run" -> driverMutex
    [] driverPc[t] = "callback" -> socketMutex
    [] OTHER -> Nobody

GoesOn(t) == Blocker(t) = Nobody

\* Whoever waits for a mutex waits for a thread that can go on, or for one that
\* waits for such a thread: mutex_ and socket_mutex_ are taken in one order, and
\* none is left locked. The interface waits for them one at a time.
NoCircularWait ==
  /\ socketMutex # Nobody => GoesOn(socketMutex)
  /\ driverMutex # Nobody => GoesOn(driverMutex) \/ GoesOn(Blocker(driverMutex))

\* A client that closes its side is let go of, however much the driver has to
\* write meanwhile: its socket is closed, and the thread is ready for the next.
\* (One whose connection breaks is not: read() then fails for ever.)
ClientIsLetGo == peer = "finished" ~> tcpPc = "accept"

=============================================================================
