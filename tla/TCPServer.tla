------------------------------ MODULE TCPServer ------------------------------
(***************************************************************************)
(* The TCP side of the library as an application uses it: clsTCPServer     *)
(* puts the manager, its listeners and the connections together; worker    *)
(* threads, application threads and the peers run concurrently.            *)
(***************************************************************************)
EXTENDS EpollManager

-----------------------------------------------------------------------------
Init ==
  /\ KernelInit
  /\ status = [s \in Sockets |-> "Closed"]
  /\ sock = [s \in Sockets |-> Zero]
  /\ events = [s \in Sockets |-> {}]
  /\ sending = [s \in Sockets |-> FALSE]
  /\ alive = [s \in Sockets |-> FALSE]
  /\ pc = [t \in Threads |-> IF t \in Workers THEN "off" ELSE "idle"]
  /\ cur = [t \in Threads |-> None]
  /\ fd = [t \in Threads |-> Invalid]
  /\ got = [t \in Threads |-> {}]
  /\ ret = [t \in Threads |-> "finish"]
  /\ shut = [t \in Threads |-> FALSE]
  /\ lock = None
  /\ lsock = [l \in Listeners |-> Zero]
  /\ lsn = [t \in Threads |-> None]
  /\ closed = [s \in Sockets |-> 0]

\* A step of a method of clsTCPSocket leaves the manager alone.
SocketStep(t) ==
  /\ \/ Close(t) \/ CloseMark(t) \/ CloseFd(t) \/ SetClosed(t) \/ DropFd(t)
     \/ Accepting(t) \/ AcceptAdd(t) \/ AcceptMark(t)
     \/ onConnected(t) \/ onReceiving(t) \/ Recv(t) \/ AfterRecv(t)
     \/ Callback(t) \/ Send(t) \/ SendLoop(t)
     \/ SendFile(t) \/ ResumeSendFile(t) \/ SendFileLoop(t)
     \/ ConnectSocket(t) \/ ConnectHost(t) \/ ConnectAdd(t)
  /\ UNCHANGED <<manager, closed>>

ManagerStep(t) ==
  \/ _ParseEvents(t) \/ RearmGet(t) \/ ModifySocket(t) \/ CloseEvent(t)
  \/ RemoveLock(t) \/ RemoveSocket(t) \/ RemoveUnlock(t)
  \/ AcceptLock(t) \/ OnAccepting(t) \/ AcceptCallback(t)
  \/ DenyCheck(t) \/ ListenRearm(t)

\* An application thread returns from the library.
AppFinish(t) ==
  /\ pc[t] = "finish"
  /\ Forget(t)
  /\ Goto(t, "idle")
  /\ UNCHANGED <<kernel, object, manager, closed>>

AppStep(t) ==
  \E s \in Sockets :
    \/ /\ ConnectToHost(t, s)
       /\ closed' = [closed EXCEPT ![s] = 0]
       /\ UNCHANGED manager
    \/ AppClose(t, s) /\ UNCHANGED <<manager, closed>>

Peer ==
  /\ \E f \in Fds :
       \/ PeerConnect(f) \/ PeerSend(f) \/ PeerEof(f) \/ PeerReset(f)
       \/ PeerAnswer(f) \/ PeerReads(f)
  /\ UNCHANGED <<object, pc, local, manager, closed>>

Wait(t) == \E f \in Fds : EpollWait(t, f)

Next ==
  \/ \E l \in Listeners : StartListen(l)
  \/ \E t \in Workers : StartWorker(t)
  \/ \E t \in Workers : Wait(t)
  \/ \E t \in Threads : SocketStep(t)
  \/ \E t \in Threads : ManagerStep(t)
  \/ \E t \in Apps : AppStep(t)
  \/ \E t \in Apps : AppFinish(t)
  \/ Peer

Spec == Init /\ [][Next]_vars

(***************************************************************************)
(* Fairness: the scheduler runs every thread; the mutex is not withheld    *)
(* from a thread for ever; a callback returns; a file has an end; a ready  *)
(* descriptor is not passed over for ever (epoll queues the ready ones).   *)
(***************************************************************************)
TakesLock(t) == RemoveLock(t) \/ AcceptLock(t)
CallbackReturns(t) == SocketStep(t) /\ pc[t] = "callback" /\ pc'[t] = ret[t]

FileEnds(t) == SocketStep(t) /\ pc[t] = "sendfile" /\ sending[cur[t]]
                             /\ ~sending'[cur[t]]

Fairness ==
  /\ \A t \in Workers : WF_vars(StartWorker(t))
  /\ \A t \in Threads : /\ WF_vars(SocketStep(t) \/ ManagerStep(t))
                         /\ SF_vars(TakesLock(t))
                         /\ SF_vars(CallbackReturns(t))
                         /\ SF_vars(FileEnds(t))
  /\ \A t \in Apps : WF_vars(AppFinish(t))
  /\ \A f \in Fds : SF_vars(\E t \in Workers : EpollWait(t, f))

FairSpec == Spec /\ Fairness

\* And the peers take what is sent to them.
PeerTakes(f) == Peer /\ full[f] /\ ~full'[f]
FairSpecReading == FairSpec /\ \A f \in Fds : WF_vars(PeerTakes(f))

-----------------------------------------------------------------------------
(***************************************************************************)
(* Vocabulary of the properties.                                           *)
(***************************************************************************)
WorkerPlaces == {"off", "wait", "parse", "rearmGet", "rearmMod", "closeEvent",
                 "onConnected", "onReceiving", "recv", "received"}
ListenPlaces == {"acceptLock", "accept", "acceptCallback", "accepting", "acceptAdd",
                 "acceptMark", "denyCheck", "listenRearm"}
SendPlaces == {"send", "sendLoop", "SendFile", "ResumeSendFile", "sendfile"}
ClosePlaces == {"close", "closing", "closeFd", "setClosed", "dropFd",
                "removeLock", "removeDel", "removeUnlock"}
ConnectPlaces == {"connectSocket", "connectHost", "connectAdd"}
Places == {"idle", "finish", "callback"} \cup WorkerPlaces \cup ListenPlaces
            \cup SendPlaces \cup ClosePlaces \cup ConnectPlaces

\* The places from which a thread still works on its object.
UsePlaces == Places \ {"idle", "finish", "off", "wait", "acceptLock", "accept",
                       "acceptCallback", "denyCheck", "listenRearm"}

\* The places where the object is the thread's alone: before it is put into the
\* epoll set, and between the delivery of an event and the next re-arming.
HandlerPlaces == UsePlaces \ {"acceptMark", "closeEvent"}

Uses(t, s) == cur[t] = s /\ pc[t] \in UsePlaces
Handles(t, s) == cur[t] = s /\ pc[t] \in HandlerPlaces
Handled(s) == \E t \in Threads : Handles(t, s)

\* CloseFinal has closed the descriptor and not yet said so in the object.
FdGone(s) == \E t \in Threads : cur[t] = s /\ pc[t] \in {"setClosed", "dropFd"}

\* The object has a connection of its own.
Live(s) == /\ alive[s]
           /\ status[s] \in {"Accepting", "Connecting", "Connected"}
           /\ sock[s] \notin NoFd
           /\ ~FdGone(s)

-----------------------------------------------------------------------------
ObjectTypeOK ==
  /\ status \in [Sockets -> StatusKinds]
  /\ sock \in [Sockets -> Fds \cup NoFd]
  /\ events \in [Sockets -> SUBSET {"in", "out"}]
  /\ sending \in [Sockets -> BOOLEAN]
  /\ alive \in [Sockets -> BOOLEAN]
  /\ closed \in [Sockets -> 0..MaxClosed]

ThreadTypeOK ==
  /\ pc \in [Threads -> Places]
  /\ cur \in [Threads -> Sockets \cup {None}]
  /\ fd \in [Threads -> Fds \cup NoFd]
  /\ got \in [Threads -> SUBSET {"in", "out", "err", "data", "eof", "fail"}]
  /\ ret \in [Threads -> {"finish", "rearmGet", "acceptAdd", "denyCheck"}]
  /\ shut \in [Threads -> BOOLEAN]
  /\ lsn \in [Threads -> Listeners \cup {None}]

ManagerTypeOK ==
  /\ lock \in Threads \cup {None}
  /\ lsock \in [Listeners -> Fds \cup {Zero}]

\* Every variable has its type.
TypeOK == KernelTypeOK /\ ObjectTypeOK /\ ThreadTypeOK /\ ManagerTypeOK

\* EPOLLONESHOT gives a connection to one thread at a time: no two threads are
\* inside its methods, and while one is, no event of it can be delivered.
OneHandler ==
  \A s \in Sockets :
    /\ \A t, u \in Threads : Handles(t, s) /\ Handles(u, s) => t = u
    /\ Handled(s) => \A f \in Fds : ptr[f] = s => ~armed[f]

\* Two live connections never hold the same descriptor number, and the number a
\* live connection holds is open: no stale m_socket is used as if it were valid.
OwnFd ==
  \A s \in Sockets : Live(s) =>
    /\ IsOpen(sock[s]) /\ use[sock[s]] = "conn"
    /\ \A r \in Sockets : Live(r) /\ sock[r] = sock[s] => r = s

\* The data.ptr of a registration is the object that holds the descriptor: an
\* event is never dispatched to a closed, deleted or foreign clsTCPSocket.
RoutedToOwner ==
  \A f \in Fds : ptr[f] \in Sockets =>
    LET s == ptr[f] IN alive[s] /\ sock[s] = f /\ status[s] # "Closed"

\* No wake-up is lost: a connection nobody works on is armed for input, and for
\* output while it is connecting or a file waits for room in the send buffer.
ArmedWhenIdle ==
  \A s \in Sockets :
    /\ alive[s] /\ status[s] \in {"Connecting", "Connected"}
    /\ ~(\E t \in Threads : cur[t] = s)
    => \E f \in Fds :
         /\ ptr[f] = s /\ armed[f]
         /\ "in" \in mask[f]
         /\ status[s] = "Connecting" \/ sending[s] => "out" \in mask[f]

\* onReceiving treats EAGAIN as a broken connection, so recv must never be called
\* on a healthy connection that has nothing to read.
RecvHasInput ==
  \A t \in Threads : pc[t] = "recv" /\ IsOpen(sock[cur[t]]) =>
    wire[sock[cur[t]]] # "quiet"

\* Every descriptor of a connection is accounted for: an object that is not closed
\* holds it, or a worker has just accepted it.
NoFdLeak ==
  \A f \in Fds : use[f] = "conn" =>
    \/ \E s \in Sockets : alive[s] /\ sock[s] = f /\ status[s] # "Closed"
    \/ \E t \in Threads : fd[t] = f /\ pc[t] \in {"acceptCallback", "denyCheck"}

\* An object is Closing only while some thread is carrying the close out.
ClosingEnds ==
  \A s \in Sockets : alive[s] /\ status[s] = "Closing" =>
    \E t \in Threads : cur[t] = s

\* The descriptor of a live connection is closed only by CloseFinal of that very
\* connection: not by the accept path's deny check, not by a thread that still
\* holds an old number.
CloseOnlyOwn ==
  [][\A s \in Sockets :
       Live(s) /\ IsOpen(sock[s]) /\ use'[sock[s]] = "free" =>
         \E t \in Threads : pc[t] = "closeFd" /\ cur[t] = s]_vars

\* OnClosed is called at most once for a connection.
OnClosedOnce == \A s \in Sockets : closed[s] <= 1

\* No thread works on an object that was deleted.
NoUseAfterDelete == \A t \in Threads, s \in Sockets : Uses(t, s) => alive[s]

\* Once a connection is closed and no thread works on it any more, OnClosed has
\* been called for it.
ClosedReported ==
  \A s \in Sockets :
    alive[s] /\ status[s] = "Closed" /\ ~(\E t \in Threads : cur[t] = s) =>
      closed[s] >= 1

\* What a connection is to the application: the status of an object that has a number,
\* closed from close() on, and whose hands it is in.
Phase(s) ==
  IF ~alive[s] THEN "none"
  ELSE IF sock[s] = Zero THEN "new"
  ELSE IF sock[s] = Invalid \/ FdGone(s) THEN "Closed"
  ELSE status[s]
Number(s) == IF Phase(s) \in StatusKinds \ {"Closed"} THEN sock[s] ELSE Invalid
Hand(s) == IF Handled(s) THEN CHOOSE t \in Threads : Handles(t, s) ELSE None

phase == [s \in Sockets |-> Phase(s)]
number == [s \in Sockets |-> Number(s)]
hand == [s \in Sockets |-> Hand(s)]
Connection == INSTANCE Connections WITH Nobody <- None, NoNumber <- Invalid

\* The connections live as clsTCPSocket promises: the threads, the events and the
\* kernel's numbers together take each of them once from its beginning through
\* connecting, being used and closing to its end, in one thread's hands at a time, with
\* a number nobody else has.
ConnectionsKept == Connection!Spec

\* A connection whose peer has closed or reset it is closed on this side too.
DeadPeerClosed ==
  \A f \in Fds : use[f] = "conn" /\ wire[f] \in {"eof", "reset"}
                   ~> use[f] = "free"

\* What a peer has sent is read, or the connection is closed.
DataRead == \A f \in Fds : use[f] = "conn" /\ wire[f] = "data"
                              ~> wire[f] # "data"

\* A file that is being sent comes to its end, or the connection is closed: by its
\* handlers, which end the file, or by another thread, which leaves it as it is.
SendFileEnds == \A s \in Sockets : sending[s] ~> ~sending[s] \/ status[s] = "Closed"

\* The mutex is given back: nobody waits for it while holding it.
MutexReturned == \A t \in Threads : lock = t ~> lock # t
=============================================================================
