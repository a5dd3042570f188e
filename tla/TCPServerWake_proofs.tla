------------------------ MODULE TCPServerWake_proofs ------------------------
(***************************************************************************)
(* No wake-up is lost: theorems about TCPServer, for every set of workers, *)
(* application threads, connections, listeners and descriptors.            *)
(*                                                                         *)
(* A one-shot registration is silent from the delivery of an event until   *)
(* the thread that got it calls epoll_ctl again.  Whatever path the thread *)
(* takes through the handlers, it has to leave the connection armed for    *)
(* what the connection still waits for, or closed.                         *)
(***************************************************************************)
EXTENDS TCPServerFds_proofs

-----------------------------------------------------------------------------
(***************************************************************************)
(* The inductive invariant.  A connection is served by one thread or it    *)
(* rests; Serving says what holds of it in the thread's hands, Resting     *)
(* what the thread leaves behind.                                          *)
(***************************************************************************)
\* A connect() whose socket cannot be added to the epoll set leaves it Closing.
Orderly == "connect" \notin Usage \/ "add" \notin Faults

Both == {"in", "out"}
Opens(s) == status[s] \in {"Connecting", "Connected"}
RemovePlaces == {"removeLock", "removeDel"}
FinalPlaces == {"closeFd", "setClosed"}

\* The place to which the call in progress returns.
RetOK(t) ==
  /\ pc[t] \in {"parse", "rearmGet", "rearmMod", "closeEvent", "onConnected",
                "onReceiving", "recv", "received"} => ret[t] = "rearmGet"
  /\ pc[t] \in {"off", "wait", "idle", "finish", "acceptLock", "accept",
                "acceptCallback", "accepting"} \cup ConnectPlaces => ret[t] = "finish"
  /\ pc[t] \in {"callback"} \cup SendPlaces => ret[t] \in {"rearmGet", "acceptAdd"}
  /\ \/ pc[t] \in RemovePlaces \cup {"removeUnlock"}
     \/ pc[t] \in FinalPlaces \cup {"dropFd"} /\ ~shut[t]
     => ret[t] = "rearmGet" \/ (ret[t] = "finish" /\ ~Orderly)

\* What the thread's place says of its object.
PlaceOK(t, s) ==
  /\ pc[t] = "accepting" => status[s] = "Accepting" /\ sock[s] \in Fds
  /\ pc[t] \in ConnectPlaces => status[s] = "Connecting"
  /\ pc[t] \in {"connectHost", "connectAdd"} => sock[s] \in Fds
  /\ pc[t] = "connectAdd" => events[s] = Both
  /\ pc[t] = "onConnected" => status[s] = "Connecting"
  /\ pc[t] = "closing" => Opens(s)
  /\ pc[t] \in RemovePlaces => status[s] = "Closing"
  /\ pc[t] \in FinalPlaces =>
       status[s] # "Connected" /\ (status[s] = "Connecting" => ret[t] = "finish")
  /\ pc[t] = "dropFd" => status[s] = "Closed"
  /\ pc[t] = "removeUnlock" => status[s] = "Closed" \/ (status[s] = "Closing" /\ ret[t] = "finish")
  /\ pc[t] \in {"close", "closing"} /\ ret[t] = "finish" => ~Orderly \/ sock[s] \in NoFd
  /\ status[s] = "Closing" => pc[t] \in RemovePlaces \cup FinalPlaces \cup {"removeUnlock"}

\* A connection is without a number in front of socket() only, and Accepting only until
\* Accept() has made up its mind.
StartOK(t, s) ==
  /\ sock[s] = Zero <=> pc[t] = "connectSocket"
  /\ status[s] = "Accepting" => pc[t] \in {"accepting", "close"} \cup FinalPlaces

\* Input is always asked for; a file is sent over an established connection only.
EventsOK(s) ==
  /\ status[s] = "Connected" => "in" \in events[s] /\ sock[s] \in Fds
  /\ status[s] \in {"Connecting", "Accepting"} => ~sending[s]

\* The connection is in the epoll set, or no event of it can come.
Enrolled(s) == sock[s] \in Fds /\ ptr[sock[s]] = s
Unknown(s) == \A f \in Fds : ptr[f] # s

\* A worker has the connection from an event; who makes a connection has it before the
\* first one can come.
Serving(t, s) ==
  /\ IF ret[t] = "rearmGet"
     THEN Opens(s) \/ pc[t] \in RemovePlaces => Enrolled(s)
     ELSE Unknown(s)
  /\ EventsOK(s)
  /\ status[s] = "Connected" /\ sending[s] =>
       "out" \in events[s] \/ pc[t] \in {"ResumeSendFile", "sendfile"}
  /\ status[s] = "Connecting" =>
       \/ events[s] = Both
       \/ ret[t] = "finish" /\ pc[t] \in {"connectSocket", "connectHost", "close",
                                            "closing"} \cup FinalPlaces
  /\ PlaceOK(t, s) /\ StartOK(t, s)

\* Nobody has it: it is armed for all it waits for, unless it is closed.
Resting(s) ==
  /\ Opens(s) => Enrolled(s) /\ armed[sock[s]] /\ mask[sock[s]] = events[s]
  /\ EventsOK(s)
  /\ status[s] = "Connected" /\ sending[s] => "out" \in events[s]
  /\ status[s] = "Connecting" => events[s] = Both
  /\ status[s] = "Closing" => ~Orderly /\ Unknown(s)
  /\ sock[s] # Zero /\ status[s] # "Accepting"

Wake ==
  /\ \A t \in Threads : RetOK(t) /\ \A s \in Sockets : Handles(t, s) => Serving(t, s)
  /\ \A s \in Sockets : alive[s] /\ ~Handled(s) => Resting(s)

-----------------------------------------------------------------------------
(***************************************************************************)
(* A step disturbs the connection of its own thread only.                  *)
(***************************************************************************)
SameObject(s) ==
  /\ alive'[s] = alive[s] /\ status'[s] = status[s] /\ sock'[s] = sock[s]
  /\ events'[s] = events[s] /\ sending'[s] = sending[s]
SameEvents(s) ==
  \A f \in Fds : /\ ptr'[f] = s <=> ptr[f] = s
                 /\ ptr[f] = s => armed'[f] = armed[f] /\ mask'[f] = mask[f]
Untouched(s) == SameObject(s) /\ SameEvents(s)

Frame(t) == \A s \in Sockets : ~Handles(t, s) /\ ~Handles(t, s)' => Untouched(s)

\* What is said of an untouched connection stays true.
LEMMA UntouchedRests ==
  ASSUME NEW s \in Sockets, Untouched(s), Resting(s)
  PROVE  Resting(s)'
  <1>1. /\ status'[s] = status[s] /\ sock'[s] = sock[s] /\ events'[s] = events[s]
        /\ sending'[s] = sending[s]
        /\ EventsOK(s)' = EventsOK(s)
    BY DEF Untouched, SameObject, EventsOK
  <1>2. /\ Unknown(s) => Unknown(s)'
        /\ Enrolled(s) => /\ Enrolled(s)'
                          /\ armed'[sock[s]] = armed[sock[s]] /\ mask'[sock[s]] = mask[sock[s]]
    BY <1>1 DEF Untouched, SameEvents, Unknown, Enrolled
  <1> QED BY <1>1, <1>2 DEF Resting, Opens, Orderly

LEMMA UntouchedServed ==
  ASSUME NEW u \in Threads, NEW s \in Sockets, Untouched(s), Serving(u, s),
         pc'[u] = pc[u] /\ ret'[u] = ret[u]
  PROVE  Serving(u, s)'
  <1>1. /\ status'[s] = status[s] /\ sock'[s] = sock[s] /\ events'[s] = events[s]
        /\ sending'[s] = sending[s]
    BY DEF Untouched, SameObject
  <1>2. /\ EventsOK(s) => EventsOK(s)'
        /\ Unknown(s) => Unknown(s)'
        /\ Enrolled(s) => Enrolled(s)'
    BY <1>1 DEF Untouched, SameEvents, EventsOK, Unknown, Enrolled
  <1>3. PlaceOK(u, s)' /\ StartOK(u, s)'
    BY <1>1 DEF Serving, PlaceOK, StartOK, Opens, Orderly
  <1> QED BY <1>1, <1>2, <1>3 DEF Serving, Opens

\* What a step has to leave of the thread that takes it and of its connection.
Leaves(t) ==
  /\ RetOK(t)'
  /\ \A s \in Sockets : /\ Handles(t, s)' => Serving(t, s)'
                        /\ Handles(t, s) /\ ~Handles(t, s)' => Resting(s)'

\* The invariant is kept when the step's own thread keeps its part of it.
LEMMA WakeFrame ==
  ASSUME OneHandler, OneHandler', Wake, NEW t \in Threads, Others(t), Mine(t), Frame(t),
         Leaves(t)
  PROVE  Wake'
  <1>1. ASSUME NEW u \in Threads
        PROVE  RetOK(u)' /\ \A s \in Sockets : Handles(u, s)' => Serving(u, s)'
    <2>1. CASE u = t
      BY <2>1 DEF Leaves
    <2>2. CASE u # t
      <3>1. pc'[u] = pc[u] /\ ret'[u] = ret[u] /\ cur'[u] = cur[u]
        BY <2>2 DEF Others
      <3>2. RetOK(u)'
        BY <2>2, <3>1 DEF Wake, RetOK, Orderly, Mine, Same
      <3>3. ASSUME NEW s \in Sockets, Handles(u, s)' PROVE Serving(u, s)'
        <4>1. Handles(u, s) /\ Serving(u, s)
          BY <3>1, <3>3 DEF Handles, Wake
        <4>2. ~Handles(t, s) /\ ~Handles(t, s)'
          BY <2>2, <3>3, <4>1 DEF OneHandler
        <4>3. Untouched(s)
          BY <4>2 DEF Frame
        <4> QED BY <3>1, <4>1, <4>3, UntouchedServed
      <3> QED BY <3>2, <3>3
    <2> QED BY <2>1, <2>2
  <1>2. ASSUME NEW s \in Sockets, alive'[s], ~Handled(s)' PROVE Resting(s)'
    <2>1. ~Handles(t, s)'
      BY <1>2 DEF Handled
    <2>2. CASE Handles(t, s)
      BY <2>1, <2>2 DEF Leaves
    <2>3. CASE ~Handles(t, s)
      <3>1. Untouched(s)
        BY <2>1, <2>3 DEF Frame
      <3>2. ~Handled(s)
        BY <1>2, <2>3 DEF Handled, Handles, Others
      <3> QED BY <1>2, <3>1, <3>2, UntouchedRests DEF Wake, Untouched, SameObject
    <2> QED BY <2>2, <2>3
  <1> QED BY <1>1, <1>2 DEF Wake

\* A registration is changed for a number the thread's connection holds, or for one
\* nobody holds.
LEMMA RegFrame ==
  ASSUME TypeInv, Own, Routed, NEW f \in Fds, NEW p,
         (p \in Sockets /\ Holds(p, f)) \/ (\A r \in Sockets : ~Holds(r, f)),
         \A g \in Fds : g # f => ptr'[g] = ptr[g] /\ armed'[g] = armed[g] /\ mask'[g] = mask[g],
         ptr'[f] \in {p, None},
         NEW s \in Sockets, s # p
  PROVE  SameEvents(s)
  <1>1. ptr[f] # s
    BY DEF Own, Routed, Holds
  <1>2. ptr'[f] # s
    BY KernelAssumption
  <1> QED BY <1>1, <1>2 DEF SameEvents

-----------------------------------------------------------------------------
(***************************************************************************)
(* The steps inside the methods of clsTCPSocket.                           *)
(***************************************************************************)
\* They write the thread's own object only.
LEMMA SocketObject ==
  ASSUME TypeInv, NEW t \in Threads, SocketStep(t), NEW s \in Sockets, s # cur[t]
  PROVE  SameObject(s)
  <1>0. /\ DOMAIN status = Sockets /\ DOMAIN sock = Sockets /\ DOMAIN events = Sockets
        /\ DOMAIN sending = Sockets
    BY DEF TypeInv, TypeOK, ObjectTypeOK
  <1> USE DEF SameObject, object, SetStatus
  <1>1. CASE Close(t) \/ CloseMark(t) \/ CloseFd(t) \/ SetClosed(t) \/ DropFd(t)
    BY <1>0, <1>1 DEF Close, CloseMark, CloseFd, SetClosed, DropFd
  <1>2. CASE Accepting(t) \/ AcceptAdd(t) \/ AcceptMark(t)
    BY <1>0, <1>2 DEF Accepting, AcceptAdd, AcceptMark
  <1>3. CASE onConnected(t) \/ onReceiving(t) \/ Recv(t) \/ AfterRecv(t)
    BY <1>0, <1>3 DEF onConnected, onReceiving, Recv, AfterRecv
  <1>4. CASE Callback(t) \/ Send(t) \/ SendLoop(t)
    BY <1>0, <1>4 DEF Callback, Send, SendLoop
  <1>5. CASE SendFile(t) \/ ResumeSendFile(t)
    BY <1>0, <1>5 DEF SendFile, ResumeSendFile
  <1>6. CASE SendFileLoop(t)
    BY <1>0, <1>6 DEF SendFileLoop
  <1>7. CASE ConnectSocket(t) \/ ConnectHost(t) \/ ConnectAdd(t)
    BY <1>0, <1>7 DEF ConnectSocket, ConnectHost, ConnectAdd
  <1> QED BY <1>1, <1>2, <1>3, <1>4, <1>5, <1>6, <1>7 DEF SocketStep

\* They touch the connection in the thread's hands only.
LEMMA SocketFrame ==
  ASSUME HandlersOnly, NoTrespass, OwnerInv, NEW t \in Threads, SocketStep(t)
  PROVE  Frame(t)
  <1>0. /\ TypeInv /\ Own /\ Routed /\ Fenced /\ UNCHANGED cur
        /\ pc[t] \in HandlerPlaces \cup {"acceptMark"}
    <2>1. Fenced
      BY OwnerFenced
    <2> QED
      BY <2>1, SocketStepOthers, SocketStepPlace
      DEF Fenced, FdInv, Descriptors, HandlerPlaces, UsePlaces, SocketStep, Close, CloseMark,
          CloseFd, SetClosed, DropFd, Accepting, AcceptAdd, AcceptMark, onConnected,
          onReceiving, Recv, AfterRecv, Callback, Send, SendLoop, SendFile, ResumeSendFile,
          SendFileLoop, ConnectSocket, ConnectHost, ConnectAdd, Places, WorkerPlaces,
          ListenPlaces, SendPlaces, ClosePlaces, ConnectPlaces
  <1>1. CASE AcceptMark(t)
    BY <1>1 DEF AcceptMark, object, reg, Frame, Untouched, SameObject, SameEvents
  <1>2. CASE ~AcceptMark(t)
    <2>1. pc[t] \in HandlerPlaces
      BY <1>0, <1>2
      DEF SocketStep, Close, CloseMark, CloseFd, SetClosed, DropFd, Accepting, AcceptAdd,
          onConnected, onReceiving, Recv, AfterRecv, Callback, Send, SendLoop, SendFile,
          ResumeSendFile, SendFileLoop, ConnectSocket, ConnectHost, ConnectAdd, HandlerPlaces,
          UsePlaces, Places, WorkerPlaces, ListenPlaces, SendPlaces, ClosePlaces, ConnectPlaces
    <2> SUFFICES ASSUME NEW s \in Sockets, s # cur[t] PROVE Untouched(s)
      BY <2>1 DEF Frame, Handles
    <2>2. SameObject(s)
      BY <1>0, SocketObject
    <2>3. CASE UNCHANGED reg
      BY <2>2, <2>3 DEF reg, Untouched, SameEvents
    <2>4. ASSUME NEW f \in Fds, f = sock[cur[t]], pc[t] \notin GonePlaces,
                 Unregister(f) \/ \E m : Arm(f, cur[t], m)
          PROVE  Untouched(s)
      <3>1. Holds(cur[t], f) /\ cur[t] \in Sockets
        BY <1>0, <2>1, <2>4, HandlerHolds
        DEF Fenced, GonePlaces, TypeInv, HasObject, HandlerPlaces
      <3>2. /\ ptr'[f] \in {cur[t], None}
            /\ \A g \in Fds : g # f =>
                 ptr'[g] = ptr[g] /\ armed'[g] = armed[g] /\ mask'[g] = mask[g]
        BY <1>0, <2>4 DEF Unregister, Arm, TypeInv, TypeOK, KernelTypeOK, RegTypeOK
      <3> QED BY <1>0, <2>2, <3>1, <3>2, RegFrame DEF Untouched
    <2>5. CASE CloseFd(t)
      BY <2>3, <2>4, <2>5 DEF CloseFd, SysClose, IsOpen, kernel, GonePlaces
    <2>6. CASE AcceptAdd(t)
      BY <2>3, <2>4, <2>6 DEF AcceptAdd, EpollAdd, CanAdd, IsOpen, GonePlaces
    <2>7. CASE ConnectAdd(t)
      BY <2>3, <2>4, <2>7 DEF ConnectAdd, EpollAdd, CanAdd, IsOpen, GonePlaces
    <2> QED
      BY <1>2, <2>3, <2>5, <2>6, <2>7
      DEF SocketStep, kernel, Close, CloseMark, SetClosed, DropFd, Accepting, onConnected,
          onReceiving, Recv, AfterRecv, Callback, Send, SendLoop, SendFile, ResumeSendFile,
          SendFileLoop, ConnectSocket, ConnectHost
  <1> QED BY <1>1, <1>2

\* A connection in a thread's hands is in nobody else's, and what is not yet in the
\* epoll set can be added.
LEMMA AddWorks ==
  ASSUME TypeInv, Own, Routed, Listening, NEW s \in Sockets, NEW f \in Fds,
         Holds(s, f), Unknown(s)
  PROVE  CanAdd(f)
  <1>1. ptr[f] \in Sockets \cup Listeners \cup {None}
    BY DEF TypeInv, TypeOK, KernelTypeOK, RegTypeOK
  <1> QED
    BY <1>1 DEF Own, Routed, Listening, Holds, Unknown, CanAdd, IsOpen, Registered

\* Of a connection that keeps its registration the same can be said afterwards.
LEMMA SameEnrolled ==
  ASSUME NEW s \in Sockets, UNCHANGED reg
  PROVE  /\ Unknown(s)' <=> Unknown(s)
         /\ sock'[s] = sock[s] => (Enrolled(s)' <=> Enrolled(s))
  BY DEF reg, Unknown, Enrolled

\* The handler places one by one.
LEMMA HandlerList ==
  HandlerPlaces = {"parse", "rearmGet", "rearmMod", "onConnected", "onReceiving", "recv",
                   "received", "accepting", "acceptAdd", "callback", "send", "sendLoop",
                   "SendFile", "ResumeSendFile", "sendfile", "close", "closing", "closeFd",
                   "setClosed", "dropFd", "removeLock", "removeDel", "removeUnlock",
                   "connectSocket", "connectHost", "connectAdd"}
  BY DEF HandlerPlaces, UsePlaces, Places, WorkerPlaces, ListenPlaces, SendPlaces,
         ClosePlaces, ConnectPlaces

\* Every step leaves the thread and its connection in order.
LEMMA SocketLeaves ==
  ASSUME HandlersOnly, NoTrespass, OwnerInv, Wake, NEW t \in Threads, SocketStep(t)
  PROVE  Leaves(t)
  <1>0. /\ pc[t] \in HandlerPlaces \cup {"acceptMark"}
        /\ pc[t] \in UsePlaces
        /\ cur'[t] = cur[t]
        /\ cur[t] \in Sockets
        /\ RetOK(t)
    BY SocketStepPlace
    DEF Wake, OwnerInv, HandlerInv, TypeInv, HasObject, HandlerPlaces, UsePlaces, SocketStep,
        Close, CloseMark, CloseFd, SetClosed, DropFd, Accepting, AcceptAdd, AcceptMark,
        onConnected, onReceiving, Recv, AfterRecv, Callback, Send, SendLoop, SendFile,
        ResumeSendFile, SendFileLoop, ConnectSocket, ConnectHost, ConnectAdd, Places,
        WorkerPlaces, ListenPlaces, SendPlaces, ClosePlaces, ConnectPlaces
  <1> PICK s \in Sockets : s = cur[t]
    BY <1>0
  <1>1. /\ DOMAIN pc = Threads /\ DOMAIN ret = Threads /\ DOMAIN shut = Threads
        /\ DOMAIN status = Sockets /\ DOMAIN sock = Sockets /\ DOMAIN events = Sockets
        /\ DOMAIN sending = Sockets
        /\ pc[t] \in Places
        /\ ret[t] \in {"finish", "rearmGet", "acceptAdd", "denyCheck"}
        /\ status[s] \in StatusKinds
        /\ sock[s] \in Fds \cup NoFd /\ NoFd \cap Fds = {}
    BY <1>0, KernelAssumption
    DEF OwnerInv, HandlerInv, TypeInv, TypeOK, ObjectTypeOK, ThreadTypeOK, NoFd
  <1>2. /\ ShutdownFlow(t) /\ ConnectFlow(t) /\ AcceptFlow(t)
        /\ OnAcceptPath(t) => status[s] # "Connecting"
    BY <1>0 DEF OwnerInv, FdInv, Flow, ThreadFlow, ConnectUsed, NoTrespass, AcceptFlow
  <1>3. pc[t] \in HandlerPlaces => Serving(t, s)
    BY <1>0 DEF Wake, Handles
  <1> SUFFICES /\ RetOK(t)'
               /\ pc'[t] \in HandlerPlaces => Serving(t, s)'
               /\ pc[t] \in HandlerPlaces /\ pc'[t] \notin HandlerPlaces => Resting(s)'
    BY <1>0 DEF Leaves, Handles
  <1> USE <1>0, <1>1, <1>2, <1>3, SameEnrolled, HandlerList
      DEF RetOK, Serving, Resting, PlaceOK, StartOK, EventsOK, Opens, RemovePlaces,
          FinalPlaces, SendPlaces, ConnectPlaces, StatusKinds, object, kernel, local, Goto, Return,
          SetStatus
  <1>4. CASE Close(t)
    BY <1>4 DEF Close
  <1>5. CASE CloseMark(t)
    BY <1>5 DEF CloseMark, ShutdownFlow, AcceptReturns
  <1>6. CASE SetClosed(t)
    BY <1>6 DEF SetClosed
  <1>7. CASE DropFd(t)
    BY <1>7, KernelAssumption DEF DropFd
  <1>8. CASE Accepting(t)
    BY <1>8 DEF Accepting, AcceptFlow
  <1>9. CASE AcceptMark(t)
    BY <1>9 DEF AcceptMark, HandlersOnly
  <1>10. CASE onConnected(t)
    BY <1>10 DEF onConnected, Enrolled
  <1>11. CASE onReceiving(t)
    BY <1>11 DEF onReceiving
  <1>12. CASE Recv(t)
    BY <1>12 DEF Recv
  <1>13. CASE AfterRecv(t)
    BY <1>13 DEF AfterRecv
  <1>14. CASE Callback(t)
    BY <1>14 DEF Callback
  <1>15. CASE Send(t)
    BY <1>15 DEF Send
  <1>16. CASE SendLoop(t)
    BY <1>16 DEF SendLoop
  <1>17. CASE SendFile(t)
    BY <1>17 DEF SendFile
  <1>18. CASE ResumeSendFile(t)
    BY <1>18 DEF ResumeSendFile
  <1>19. CASE SendFileLoop(t)
    <2>1. /\ pc[t] = "sendfile" /\ UNCHANGED <<reg, status, sock, ret, shut>>
          /\ \/ /\ status[s] # "Connected" \/ events'[s] = Both
                /\ pc'[t] = ret[t]
                /\ status[s] # "Connected" => UNCHANGED events
                /\ UNCHANGED sending
             \/ ~sending'[s] /\ pc'[t] = "callback" /\ UNCHANGED events
      BY <1>19 DEF SendFileLoop, Both
    <2> QED BY <2>1 DEF Both
  <1>20. CASE ConnectHost(t)
    BY <1>20 DEF ConnectHost, Both
  <1>21. CASE ConnectSocket(t)
    BY <1>21, KernelAssumption DEF ConnectSocket, FreeFds, NoFd
  <1>22. CASE CloseFd(t)
    <2>1. Unknown(s) => Unknown(s)'
      BY <1>22, KernelAssumption
      DEF CloseFd, SysClose, Unregister, reg, Unknown, OwnerInv, HandlerInv, TypeInv, TypeOK,
          KernelTypeOK, RegTypeOK
    <2> QED BY <1>22, <2>1 DEF CloseFd
  <1>23. CASE AcceptAdd(t)
    <2>1. CASE UNCHANGED reg /\ (pc'[t] = "acceptMark" => status[s] # "Connected")
      BY <1>23, <2>1 DEF AcceptAdd, AcceptFlow, OnAcceptPath, AcceptReturns
    <2>2. CASE EpollAdd(sock[s], s, events[s]) /\ pc'[t] = "acceptMark"
      <3>1. Enrolled(s)' /\ armed'[sock[s]] /\ mask'[sock[s]] = events[s]
        BY <1>23, <2>2
        DEF AcceptAdd, EpollAdd, CanAdd, IsOpen, Arm, Enrolled, OwnerInv, HandlerInv, TypeInv,
            TypeOK, KernelTypeOK, RegTypeOK
      <3> QED BY <1>23, <2>2, <3>1 DEF AcceptAdd, AcceptFlow, OnAcceptPath, AcceptReturns
    <2> QED BY <1>23, <2>1, <2>2 DEF AcceptAdd
  <1>24. CASE ConnectAdd(t)
    <2>2. CASE EpollAdd(sock[s], s, events[s]) /\ pc'[t] = "finish"
      <3>1. Enrolled(s)' /\ armed'[sock[s]] /\ mask'[sock[s]] = events[s]
        BY <1>24, <2>2
        DEF ConnectAdd, EpollAdd, CanAdd, IsOpen, Arm, Enrolled, OwnerInv, HandlerInv, TypeInv,
            TypeOK, KernelTypeOK, RegTypeOK
      <3> QED BY <1>24, <2>2, <3>1 DEF ConnectAdd
    <2>3. CASE pc'[t] = "close" /\ UNCHANGED reg
      <3>1. Holds(s, sock[s]) /\ sock[s] \in Fds
        BY <1>24, OwnerFenced, HandlerHolds DEF ConnectAdd, Fenced
      <3>2. ~Orderly
        BY <1>24, <2>3, <3>1, AddWorks
        DEF ConnectAdd, ConnectFlow, Orderly, OwnerInv, HandlerInv, FdInv, Descriptors
      <3> QED BY <1>24, <2>3, <3>2 DEF ConnectAdd
    <2> QED BY <1>24, <2>2, <2>3 DEF ConnectAdd
  <1> HIDE <1>0, <1>1, <1>2, <1>3, SameEnrolled, HandlerList
  <1> QED
    BY <1>4, <1>5, <1>6, <1>7, <1>8, <1>9, <1>10, <1>11, <1>12, <1>13, <1>14, <1>15, <1>16,
       <1>17, <1>18, <1>19, <1>20, <1>21, <1>22, <1>23, <1>24 DEF SocketStep

-----------------------------------------------------------------------------
(***************************************************************************)
(* The steps of the manager.                                               *)
(***************************************************************************)
\* They too touch the connection in the thread's hands only: deny and the re-arming of
\* the listener work on a number no connection holds.
LEMMA ManagerFrame ==
  ASSUME HandlersOnly, NoTrespass, OwnerInv, NEW t \in Threads, ManagerStep(t)
  PROVE  Frame(t)
  <1>0. TypeInv /\ Own /\ Routed /\ Listening /\ Fenced
    BY OwnerFenced DEF OwnerInv, HandlerInv, FdInv, Descriptors
  <1>1. CASE UNCHANGED <<object, reg>>
    BY <1>1 DEF object, reg, Frame, Untouched, SameObject, SameEvents
  <1>2. ASSUME NEW f \in Fds, NEW p, UNCHANGED object,
               \/ p \in Sockets /\ Handles(t, p) /\ Holds(p, f)
               \/ p \notin Sockets /\ \A r \in Sockets : ~Holds(r, f),
               Unregister(f) \/ \E m : Arm(f, p, m)
        PROVE  Frame(t)
    <2>1. /\ ptr'[f] \in {p, None}
          /\ \A g \in Fds : g # f =>
               ptr'[g] = ptr[g] /\ armed'[g] = armed[g] /\ mask'[g] = mask[g]
      BY <1>0, <1>2 DEF Unregister, Arm, TypeInv, TypeOK, KernelTypeOK, RegTypeOK
    <2>2. ASSUME NEW s \in Sockets, s # p PROVE SameEvents(s)
      BY <1>0, <1>2, <2>1, <2>2, RegFrame
    <2> QED BY <1>2, <2>2 DEF Frame, Untouched, SameObject, object
  <1>3. ASSUME NEW f \in Fds, f = sock[cur[t]], pc[t] \in {"rearmMod", "removeDel"}
        PROVE  /\ cur[t] \in Sockets
               /\ \A p \in Sockets : p = cur[t] => Handles(t, p) /\ Holds(p, f)
    BY <1>0, <1>3, HandlerHolds, HandlerList DEF Fenced, Handles, TypeInv, HasObject, HandlerPlaces
  <1>4. CASE ModifySocket(t)
    <2>1. fd[t] = sock[cur[t]] /\ UNCHANGED object
      BY <1>0, <1>4 DEF ModifySocket, Fenced, FdInv, Descriptors, PathFd, LocalFd
    <2>2. CASE UNCHANGED reg
      BY <1>1, <2>1, <2>2
    <2>3. CASE fd[t] \in Fds /\ Arm(fd[t], cur[t], events[cur[t]])
      BY <1>2, <1>3, <1>4, <2>1, <2>3 DEF ModifySocket
    <2> QED BY <1>4, <2>2, <2>3 DEF ModifySocket, EpollMod, Registered
  <1>5. CASE RemoveSocket(t)
    <2>1. CASE UNCHANGED reg
      BY <1>1, <1>5, <2>1 DEF RemoveSocket
    <2>2. CASE sock[cur[t]] \in Fds /\ Unregister(sock[cur[t]])
      BY <1>2, <1>3, <1>5, <2>2 DEF RemoveSocket
    <2> QED BY <1>5, <2>1, <2>2 DEF RemoveSocket, EpollDel, Registered
  <1>6. CASE CloseEvent(t)
    BY <1>1, <1>6 DEF CloseEvent, HandlersOnly, kernel, object
  <1>7. CASE AcceptCallback(t)
    <2>1. CASE UNCHANGED object
      BY <1>1, <1>7, <2>1 DEF AcceptCallback, kernel
    <2>2. ASSUME NEW s \in Sockets, Construct(s), SetStatus(s, "Accepting"),
                 sock' = [sock EXCEPT ![s] = fd[t]], cur' = [cur EXCEPT ![t] = s],
                 Goto(t, "accepting")
          PROVE  Frame(t)
      <3>1. \A r \in Sockets : r # s => SameObject(r)
        BY <1>0, <2>2 DEF Construct, SetStatus, SameObject, TypeInv, TypeOK, ObjectTypeOK
      <3>2. Handles(t, s)'
        BY <1>0, <2>2, HandlerList DEF Handles, Goto, TypeInv, TypeOK, ThreadTypeOK
      <3> QED
        BY <1>7, <3>1, <3>2 DEF AcceptCallback, kernel, reg, Frame, Untouched, SameEvents
    <2> QED BY <1>7, <2>1, <2>2 DEF AcceptCallback
  <1>8. CASE DenyCheck(t)
    <2>1. CASE UNCHANGED reg
      BY <1>1, <1>8, <2>1 DEF DenyCheck
    <2>2. CASE Denied(fd[t]) /\ Unregister(fd[t])
      <3>1. fd[t] \in Fds /\ \A r \in Sockets : ~Holds(r, fd[t])
        BY <1>0, <1>8, <2>2
        DEF DenyCheck, Denied, IsOpen, Fenced, FdInv, Descriptors, PathFd, AcceptedFd, Claimed,
            Unclaimed
      <3> QED BY <1>2, <1>8, <2>2, <3>1, KernelAssumption DEF DenyCheck
    <2> QED BY <1>8, <2>1, <2>2 DEF DenyCheck, SysClose, kernel
  <1>9. CASE ListenRearm(t)
    <2>1. CASE UNCHANGED reg
      BY <1>1, <1>9, <2>1 DEF ListenRearm
    <2>2. CASE lsock[lsn[t]] \in Fds /\ Arm(lsock[lsn[t]], lsn[t], {"in"})
      <3>1. lsn[t] \in Listeners
        BY <1>0, <1>9
        DEF ListenRearm, Fenced, FdInv, Flow, ThreadFlow, AcceptFlow, OnAcceptPath,
            AcceptPlaces, ListenPlaces
      <3>2. \A r \in Sockets : ~Holds(r, lsock[lsn[t]])
        BY <1>0, <2>2, <3>1 DEF Listening, Own, Holds
      <3> QED BY <1>2, <1>9, <2>2, <3>1, <3>2, KernelAssumption DEF ListenRearm
    <2> QED BY <1>9, <2>1, <2>2 DEF ListenRearm, EpollMod, Registered
  <1> QED
    BY <1>1, <1>4, <1>5, <1>6, <1>7, <1>8, <1>9
    DEF ManagerStep, _ParseEvents, RearmGet, RemoveLock, RemoveUnlock, AcceptLock, OnAccepting,
        kernel

\* And they leave the thread and its connection in order.
LEMMA ManagerLeaves ==
  ASSUME HandlersOnly, NoTrespass, OwnerInv, Wake, NEW t \in Threads, ManagerStep(t)
  PROVE  Leaves(t)
  <1>0. /\ DOMAIN pc = Threads /\ DOMAIN ret = Threads /\ DOMAIN shut = Threads
        /\ DOMAIN cur = Threads
        /\ DOMAIN status = Sockets /\ DOMAIN sock = Sockets /\ DOMAIN events = Sockets
        /\ DOMAIN sending = Sockets
        /\ ret[t] \in {"finish", "rearmGet", "acceptAdd", "denyCheck"}
        /\ RetOK(t) /\ ShutdownFlow(t) /\ AcceptFlow(t)
    BY DEF OwnerInv, HandlerInv, FdInv, Flow, ThreadFlow, TypeInv, TypeOK, ObjectTypeOK,
           ThreadTypeOK, Wake
  \* At these places the thread has a connection in its hands.
  <1>1. CASE \/ _ParseEvents(t) \/ RearmGet(t) \/ ModifySocket(t)
             \/ RemoveLock(t) \/ RemoveSocket(t) \/ RemoveUnlock(t)
    <2>0. /\ pc[t] \in HandlerPlaces
          /\ cur'[t] = cur[t] /\ UNCHANGED <<object, ret>>
          /\ cur[t] \in Sockets
      BY <1>1, HandlerList
      DEF _ParseEvents, RearmGet, ModifySocket, RemoveLock, RemoveSocket, RemoveUnlock, local,
          OwnerInv, HandlerInv, TypeInv, HasObject, HandlerPlaces
    <2> PICK s \in Sockets : s = cur[t]
      BY <2>0
    <2>1. Serving(t, s)
      BY <2>0 DEF Wake, Handles
    <2> SUFFICES /\ RetOK(t)'
                 /\ pc'[t] \in HandlerPlaces => Serving(t, s)'
                 /\ pc'[t] \notin HandlerPlaces => Resting(s)'
      BY <2>0 DEF Leaves, Handles
    <2> USE <1>0, <2>0, <2>1, SameEnrolled, HandlerList
        DEF RetOK, Serving, PlaceOK, StartOK, EventsOK, Opens, RemovePlaces, FinalPlaces,
            SendPlaces, ConnectPlaces, object, kernel, local, Goto, Return
    <2>2. CASE _ParseEvents(t)
      BY <2>2 DEF _ParseEvents
    <2>3. CASE RearmGet(t)
      BY <2>3 DEF RearmGet
    <2>4. CASE ModifySocket(t)
      <3>1. fd[t] = sock[s]
        BY <2>4 DEF ModifySocket, OwnerInv, FdInv, Descriptors, PathFd, LocalFd
      <3>2. Opens(s) => Enrolled(s)' /\ armed'[sock[s]] /\ mask'[sock[s]] = events[s]
        BY <2>4, <3>1, KernelAssumption
        DEF ModifySocket, EpollMod, Registered, Arm, Enrolled, OwnerInv, HandlerInv, TypeInv,
            TypeOK, KernelTypeOK, RegTypeOK
      <3> QED BY <2>4, <3>2 DEF ModifySocket, Resting
    <2>5. CASE RemoveLock(t)
      BY <2>5 DEF RemoveLock
    <2>6. CASE RemoveSocket(t)
      <3>1. Unknown(s) => Unknown(s)'
        BY <2>6, KernelAssumption
        DEF RemoveSocket, EpollDel, Unregister, reg, Unknown, OwnerInv, HandlerInv, TypeInv,
            TypeOK, KernelTypeOK, RegTypeOK
      <3>2. Enrolled(s) => Registered(sock[s])
        BY KernelAssumption DEF Enrolled, Registered
      <3> QED BY <2>6, <3>1, <3>2 DEF RemoveSocket
    <2>7. CASE RemoveUnlock(t)
      BY <2>7 DEF RemoveUnlock, Resting
    <2> HIDE <1>0, <2>0, <2>1, SameEnrolled, HandlerList
    <2> QED BY <1>1, <2>2, <2>3, <2>4, <2>5, <2>6, <2>7
  \* At these it has none.
  <1>2. ASSUME pc[t] \notin HandlerPlaces, pc'[t] \notin HandlerPlaces, RetOK(t)'
        PROVE  Leaves(t)
    BY <1>2 DEF Leaves, Handles
  <1> USE <1>0, HandlerList DEF Goto, Forget, local
  <1>3. CASE CloseEvent(t) \/ ListenRearm(t)
    BY <1>2, <1>3
    DEF CloseEvent, ListenRearm, RetOK, ConnectPlaces, SendPlaces, RemovePlaces, FinalPlaces
  <1>4. CASE AcceptLock(t) \/ OnAccepting(t) \/ DenyCheck(t)
    BY <1>2, <1>4
    DEF AcceptLock, OnAccepting, DenyCheck, RetOK, ConnectPlaces, SendPlaces, RemovePlaces,
        FinalPlaces
  <1>5. CASE AcceptCallback(t)
    <2>1. CASE pc'[t] = "denyCheck"
      BY <1>2, <1>5, <2>1
      DEF AcceptCallback, RetOK, ConnectPlaces, SendPlaces, RemovePlaces, FinalPlaces
    <2>2. ASSUME NEW s \in Sockets, Construct(s), SetStatus(s, "Accepting"),
                 sock' = [sock EXCEPT ![s] = fd[t]], cur' = [cur EXCEPT ![t] = s],
                 Goto(t, "accepting"), UNCHANGED <<ret, kernel>>
          PROVE  Leaves(t)
      <3>1. fd[t] \in Fds
        BY <1>5
        DEF AcceptCallback, OwnerInv, FdInv, Descriptors, PathFd, AcceptedFd, Unclaimed
      <3>2. Unknown(s)'
        BY <2>2
        DEF Construct, Unknown, kernel, reg, OwnerInv, HandlerInv, Exclusive, UnbornUnknown
      <3>3. RetOK(t)'
        BY <1>5, <2>2
        DEF AcceptCallback, RetOK, ConnectPlaces, SendPlaces, RemovePlaces, FinalPlaces
      <3>4. Serving(t, s)'
        BY <1>5, <2>2, <3>1, <3>2, <3>3, KernelAssumption
        DEF AcceptCallback, RetOK, Serving, PlaceOK, StartOK, EventsOK, Opens, RemovePlaces,
            FinalPlaces, ConnectPlaces, Construct, SetStatus
      <3>5. ~(\E r \in Sockets : Handles(t, r)) /\ \A r \in Sockets : Handles(t, r)' => r = s
        BY <1>5, <2>2 DEF AcceptCallback, Handles
      <3> QED BY <3>3, <3>4, <3>5 DEF Leaves
    <2> QED BY <1>5, <2>1, <2>2 DEF AcceptCallback
  <1> HIDE <1>0, HandlerList
  <1> QED BY <1>1, <1>3, <1>4, <1>5 DEF ManagerStep

-----------------------------------------------------------------------------
(***************************************************************************)
(* The other steps.                                                        *)
(***************************************************************************)
\* A worker that is given a connection finds it armed, so nobody else has it, and takes
\* it over as it was left.
LEMMA EpollWaitWakes ==
  ASSUME OwnerInv, Wake, NEW t \in Workers, NEW f \in Fds, EpollWait(t, f)
  PROVE  Others(t) /\ Mine(t) /\ Frame(t) /\ Leaves(t)
  <1>0. /\ DOMAIN pc = Threads /\ DOMAIN ret = Threads /\ DOMAIN cur = Threads
        /\ DOMAIN lsn = Threads /\ DOMAIN armed = Fds
        /\ t \in Threads /\ RetOK(t) /\ pc[t] = "wait" /\ ret[t] = "finish" /\ armed[f]
        /\ UNCHANGED <<object, shut, fd, ptr, mask>>
        /\ \A g \in Fds : g # f => armed'[g] = armed[g]
    BY DEF EpollWait, OwnerInv, HandlerInv, TypeInv, TypeOK, ThreadTypeOK, KernelTypeOK,
           RegTypeOK, Wake, Threads, RetOK, Deliverable, Disarm
  <1>1. Others(t) /\ Mine(t)
    BY <1>0 DEF EpollWait, Goto, Others, Mine, Same
  <1>2. CASE ptr[f] \in Sockets
    <2> PICK s \in Sockets : s = ptr[f]
      BY <1>2
    <2>1. pc'[t] = "parse" /\ cur'[t] = s /\ ret'[t] = "rearmGet"
      BY <1>0, <1>2, KernelAssumption DEF EpollWait, Goto
    <2>2. alive[s] /\ ~Handled(s)
      BY <1>0 DEF OwnerInv, HandlerInv, Exclusive, OneHandler, FdInv, Descriptors, Routed, Holds, Held
    <2>3. Resting(s)
      BY <2>2 DEF Wake
    <2>4. Frame(t)
      <3>1. Handles(t, s)'
        BY <2>1, HandlerList DEF Handles
      <3> QED BY <1>0, <3>1 DEF Frame, Untouched, SameObject, SameEvents, object
    <2>5. Enrolled(s)' <=> Enrolled(s)
      BY <1>0 DEF Enrolled, object
    <2>6. Serving(t, s)'
      BY <1>0, <2>1, <2>3, <2>5
      DEF Resting, Serving, PlaceOK, StartOK, EventsOK, Opens, Unknown, RemovePlaces,
          FinalPlaces, ConnectPlaces, object
    <2>7. Leaves(t)
      BY <1>0, <2>1, <2>6, HandlerList
      DEF Leaves, Handles, RetOK, ConnectPlaces, SendPlaces, RemovePlaces, FinalPlaces
    <2> QED BY <1>1, <2>4, <2>7
  <1>3. CASE ptr[f] \in Listeners
    <2>1. pc'[t] = "acceptLock" /\ UNCHANGED <<cur, ret>>
      BY <1>0, <1>3, KernelAssumption DEF EpollWait, Goto
    <2>2. Frame(t)
      BY <1>0, <1>3, KernelAssumption
      DEF Frame, Untouched, SameObject, SameEvents, object
    <2>3. Leaves(t)
      BY <1>0, <2>1, HandlerList
      DEF Leaves, Handles, RetOK, ConnectPlaces, SendPlaces, RemovePlaces, FinalPlaces
    <2> QED BY <1>1, <2>2, <2>3
  <1> QED BY <1>2, <1>3 DEF EpollWait

\* ConnectToHost makes an object that nobody and no registration knows.
LEMMA ConnectToHostWakes ==
  ASSUME NoTrespass, OwnerInv, Wake, NEW t \in Apps, AppStep(t)
  PROVE  Others(t) /\ Mine(t) /\ Frame(t) /\ Leaves(t)
  <1>0. /\ DOMAIN pc = Threads /\ DOMAIN ret = Threads /\ DOMAIN cur = Threads
        /\ DOMAIN status = Sockets /\ DOMAIN sock = Sockets /\ DOMAIN events = Sockets
        /\ DOMAIN sending = Sockets /\ DOMAIN alive = Sockets
        /\ t \in Threads
    BY DEF OwnerInv, HandlerInv, TypeInv, TypeOK, ThreadTypeOK, ObjectTypeOK, Threads
  <1> PICK s \in Sockets : ConnectToHost(t, s) /\ UNCHANGED lsn
    BY DEF AppStep, AppClose, NoTrespass, manager
  <1>1. /\ ~alive[s] /\ UNCHANGED <<kernel, fd, shut>>
        /\ pc[t] = "idle" /\ pc'[t] = "connectSocket" /\ cur'[t] = s /\ ret'[t] = "finish"
        /\ status'[s] = "Connecting" /\ sock'[s] = Zero /\ ~sending'[s]
        /\ \A r \in Sockets : r # s => SameObject(r)
        /\ \A u \in Threads : u # t => pc'[u] = pc[u] /\ cur'[u] = cur[u] /\ ret'[u] = ret[u]
    BY <1>0 DEF ConnectToHost, Construct, NoTrespass, SetStatus, Goto, SameObject
  <1>2. Others(t) /\ Mine(t)
    BY <1>1 DEF Others, Mine, Same
  <1>3. Frame(t)
    BY <1>1, HandlerList DEF Frame, Handles, Untouched, SameEvents, kernel, reg
  <1>4. Unknown(s)'
    BY <1>1
    DEF Unknown, kernel, reg, OwnerInv, HandlerInv, Exclusive, UnbornUnknown
  <1>5. Serving(t, s)'
    BY <1>1, <1>4
    DEF Serving, PlaceOK, StartOK, EventsOK, Opens, RemovePlaces, FinalPlaces, ConnectPlaces
  <1>6. RetOK(t)'
    BY <1>1 DEF RetOK, ConnectPlaces, SendPlaces, RemovePlaces, FinalPlaces
  <1> QED BY <1>1, <1>2, <1>3, <1>5, <1>6, HandlerList DEF Leaves, Handles

\* A step that touches no connection and moves its thread between places where it has
\* none.
LEMMA AwayWakes ==
  ASSUME OwnerInv, Wake, NEW t \in Threads, UNCHANGED <<kernel, object, lsn>>,
         \/ pc[t] = "off" /\ Goto(t, "wait") /\ UNCHANGED local
         \/ pc[t] = "finish" /\ Goto(t, "idle") /\ Forget(t)
  PROVE  Others(t) /\ Mine(t) /\ Frame(t) /\ Leaves(t)
  <1>0. /\ DOMAIN pc = Threads /\ DOMAIN ret = Threads /\ DOMAIN cur = Threads
        /\ DOMAIN fd = Threads /\ DOMAIN shut = Threads
        /\ RetOK(t)
    BY DEF OwnerInv, HandlerInv, TypeInv, TypeOK, ThreadTypeOK, Wake
  <1>1. Others(t) /\ Mine(t)
    BY <1>0 DEF Goto, Forget, local, Others, Mine, Same
  <1>2. Frame(t)
    BY DEF Frame, Untouched, SameObject, SameEvents, kernel, reg, object
  <1>3. Leaves(t)
    BY <1>0, HandlerList
    DEF Goto, Forget, local, Leaves, Handles, RetOK, ConnectPlaces, SendPlaces, RemovePlaces,
        FinalPlaces
  <1> QED BY <1>1, <1>2, <1>3

\* A step that no thread takes changes at most the registration of a listener.
LEMMA CalmWakes ==
  ASSUME OwnerInv, Wake, UNCHANGED <<object, pc, local>>,
         \A s \in Sockets : SameEvents(s)
  PROVE  Wake'
  <1>1. \A s \in Sockets : Untouched(s) /\ (Handled(s)' <=> Handled(s))
    BY DEF Untouched, SameObject, object, local, Handled, Handles
  <1>2. \A t \in Threads : RetOK(t)'
    BY DEF Wake, RetOK, Orderly, local
  <1>3. ASSUME NEW t \in Threads, NEW s \in Sockets, Handles(t, s)' PROVE Serving(t, s)'
    BY <1>1, <1>3, UntouchedServed DEF Wake, Handles, local
  <1>4. ASSUME NEW s \in Sockets, alive'[s], ~Handled(s)' PROVE Resting(s)'
    BY <1>1, <1>4, UntouchedRests DEF Wake, object
  <1> QED BY <1>2, <1>3, <1>4 DEF Wake

\* Initially there is no connection.
LEMMA InitWake == Init => Wake
  BY HandlerList
  DEF Init, Wake, RetOK, Handles, Threads, ConnectPlaces, SendPlaces, RemovePlaces, FinalPlaces

\* The invariant is inductive.
LEMMA WakeStep ==
  ASSUME HandlersOnly, NoTrespass, OwnerInv, Wake, [Next]_vars
  PROVE  Wake'
  <1>0. OwnerInv' /\ Fenced
    BY OwnerInvariant, OwnerFenced
  <1>1. ASSUME NEW t \in Threads, Others(t), Mine(t), Frame(t), Leaves(t) PROVE Wake'
    BY <1>0, <1>1, WakeFrame DEF OwnerInv, HandlerInv, Exclusive
  <1>2. ASSUME NEW t \in Threads, SocketStep(t) PROVE Wake'
    BY <1>0, <1>1, <1>2, SocketStepOthers, SocketStepFlow, SocketFrame, SocketLeaves
    DEF Fenced, FdInv
  <1>3. ASSUME NEW t \in Threads, ManagerStep(t) PROVE Wake'
    BY <1>0, <1>1, <1>3, ManagerStepOthers, ManagerStepFlow, ManagerFrame, ManagerLeaves
    DEF Fenced, FdInv
  <1>4. ASSUME NEW t \in Workers, StartWorker(t) PROVE Wake'
    BY <1>1, <1>4, AwayWakes DEF StartWorker, manager, Threads
  <1>5. ASSUME NEW t \in Workers, Wait(t) PROVE Wake'
    BY <1>1, <1>5, EpollWaitWakes DEF Wait, Threads
  <1>6. ASSUME NEW t \in Apps, AppStep(t) PROVE Wake'
    BY <1>1, <1>6, ConnectToHostWakes DEF Threads
  <1>7. ASSUME NEW t \in Apps, AppFinish(t) PROVE Wake'
    BY <1>1, <1>7, AwayWakes DEF AppFinish, manager, Threads
  <1>8. CASE UNCHANGED <<object, pc, local, reg>>
    <2>1. \A s \in Sockets : SameEvents(s)
      BY <1>8 DEF SameEvents, reg
    <2> QED BY <1>8, <2>1, CalmWakes
  <1>9. ASSUME NEW l \in Listeners, StartListen(l) PROVE Wake'
    <2>1. CASE UNCHANGED reg
      BY <1>8, <1>9, <2>1 DEF StartListen
    <2>2. ASSUME NEW f \in FreeFds, Arm(f, l, {"in"}) PROVE Wake'
      <3>1. f \in Fds /\ \A r \in Sockets : ~Holds(r, f)
        BY <2>2 DEF FreeFds, OwnerInv, FdInv, Descriptors, Own, Holds
      <3>2. ASSUME NEW s \in Sockets PROVE SameEvents(s)
        <4>1. ptr[f] # s
          BY <3>1 DEF OwnerInv, FdInv, Descriptors, Routed
        <4> QED
          BY <2>2, <3>1, <4>1, KernelAssumption
          DEF Arm, SameEvents, OwnerInv, HandlerInv, TypeInv, TypeOK, KernelTypeOK, RegTypeOK
      <3> QED BY <1>9, <3>2, CalmWakes DEF StartListen
    <2> QED BY <1>9, <2>1, <2>2 DEF StartListen
  <1>10. CASE Peer
    BY <1>8, <1>10
    DEF Peer, PeerConnect, PeerSend, PeerEof, PeerReset, PeerAnswer, PeerReads, Arrives
  <1> QED
    BY <1>2, <1>3, <1>4, <1>5, <1>6, <1>7, <1>8, <1>9, <1>10 DEF Next, vars, kernel

-----------------------------------------------------------------------------
WakeInv == OwnerInv /\ Wake

LEMMA WakeInvariant ==
  ASSUME HandlersOnly, NoTrespass
  PROVE  /\ Init => WakeInv
         /\ WakeInv /\ [Next]_vars => WakeInv'
  BY OwnerInvariant, InitWake, WakeStep DEF WakeInv

\* No wake-up is lost: whichever handler ran last, however it ended and whatever failed,
\* a connection that no thread works on is armed for input, and for output as long as it
\* is connecting or a file is stuck.
THEOREM NoWakeUpLost == ASSUME HandlersOnly, NoTrespass PROVE Spec => []ArmedWhenIdle
  <1>1. WakeInv => ArmedWhenIdle
    <2> SUFFICES ASSUME WakeInv, NEW s \in Sockets, alive[s], Opens(s),
                        ~\E t \in Threads : cur[t] = s
                 PROVE  \E f \in Fds :
                          /\ ptr[f] = s /\ armed[f]
                          /\ "in" \in mask[f]
                          /\ status[s] = "Connecting" \/ sending[s] => "out" \in mask[f]
      BY DEF ArmedWhenIdle, Opens
    <2>1. Resting(s)
      BY DEF WakeInv, Wake, Handled, Handles
    <2> QED BY <2>1 DEF Resting, EventsOK, Enrolled, Opens, Both
  <1> QED BY WakeInvariant, <1>1, PTL DEF Spec

\* A close that was begun is carried to its end by the thread that began it.  The one
\* exception is an outgoing connection that epoll_ctl refuses: ConnectToHost marks it
\* Closing and finds nothing to remove.
THEOREM ClosesComplete ==
  ASSUME HandlersOnly, NoTrespass, Orderly PROVE Spec => []ClosingEnds
  <1>1. WakeInv => ClosingEnds
    BY DEF WakeInv, Wake, Handled, Handles, Resting, ClosingEnds
  <1> QED BY WakeInvariant, <1>1, PTL DEF Spec

-----------------------------------------------------------------------------
(***************************************************************************)
(* Input to read.  The thread that was told of input is the only one that  *)
(* reads from the connection, so the input is still there when it does.    *)
(***************************************************************************)
Reads(t) ==
  \/ pc[t] \in {"onReceiving", "recv"}
  \/ pc[t] = "parse" /\ "in" \in got[t]
HasInput(s) == sock[s] \in Fds => wire[sock[s]] \in {"data", "eof", "reset"}
InputWaits == \A t \in Threads : Reads(t) => HasInput(cur[t])

\* What has arrived for a connection is taken away by its own thread only.
InputStays(t) ==
  \A s \in Sockets : \A f \in Fds :
    Holds(s, f) /\ ~Handles(t, s) /\ wire[f] \in {"data", "eof", "reset"} =>
      wire'[f] \in {"data", "eof", "reset"}

LEMMA SocketInput ==
  ASSUME Fenced, NEW t \in Threads, SocketStep(t)
  PROVE  InputStays(t)
  <1> SUFFICES ASSUME NEW s \in Sockets, NEW f \in Fds, Holds(s, f), ~Handles(t, s)
               PROVE  wire'[f] = wire[f]
    BY DEF InputStays
  <1>0. /\ TypeInv /\ Alone /\ UnbornUnused /\ Own /\ DOMAIN wire = Fds
        /\ use[f] = "conn"
    BY DEF Fenced, FdInv, Descriptors, Own, Holds, TypeInv, TypeOK, KernelTypeOK, FdtTypeOK
  <1>1. CASE UNCHANGED wire
    BY <1>1
  <1>2. ASSUME pc[t] \in HandlerPlaces \ {"setClosed", "dropFd"}, sock[cur[t]] \in Fds
        PROVE  sock[cur[t]] # f
    BY <1>0, <1>2, HandlerHolds DEF Handles, Own, Holds, TypeInv, HasObject, HandlerPlaces
  <1>3. CASE Recv(t) \/ ConnectHost(t)
    BY <1>0, <1>2, <1>3, HandlerList DEF Recv, ConnectHost, SetWire, IsOpen, fdt
  <1>4. CASE CloseFd(t)
    BY <1>0, <1>2, <1>4, HandlerList DEF CloseFd, SysClose, NewFd, IsOpen, kernel, fdt
  <1>5. CASE ConnectSocket(t)
    BY <1>0, <1>5 DEF ConnectSocket, NewFd, FreeFds, fdt
  <1> QED
    BY <1>1, <1>3, <1>4, <1>5
    DEF SocketStep, kernel, fdt, SetFull, SetMark, Close, CloseMark, SetClosed, DropFd,
        Accepting, AcceptAdd, AcceptMark, onConnected, onReceiving, AfterRecv, Callback, Send,
        SendLoop, SendFile, ResumeSendFile, SendFileLoop, ConnectAdd

LEMMA ManagerInput ==
  ASSUME Fenced, NEW t \in Threads, ManagerStep(t)
  PROVE  InputStays(t)
  <1> SUFFICES ASSUME NEW s \in Sockets, NEW f \in Fds, Holds(s, f), ~Handles(t, s)
               PROVE  wire'[f] = wire[f]
    BY DEF InputStays
  <1>0. /\ TypeInv /\ Own /\ Listening /\ PathFd /\ DOMAIN wire = Fds
        /\ use[f] = "conn" /\ AcceptFlow(t)
    BY DEF Fenced, FdInv, Flow, ThreadFlow, Descriptors, Own, Holds, TypeInv, TypeOK,
           KernelTypeOK, FdtTypeOK
  <1>1. CASE UNCHANGED wire
    BY <1>1
  <1>2. CASE OnAccepting(t)
    <2>1. lsn[t] \in Listeners
      BY <1>0, <1>2 DEF OnAccepting, AcceptFlow, OnAcceptPath, AcceptPlaces, ListenPlaces
    <2>2. lsock[lsn[t]] # f
      BY <1>0, <2>1 DEF Listening
    <2> QED BY <1>0, <1>2, <2>2 DEF OnAccepting, SysAccept, FreeFds, fdt
  <1>3. CASE DenyCheck(t)
    <2>1. Denied(fd[t]) => Unclaimed(fd[t])
      BY <1>0, <1>3 DEF DenyCheck, Denied, IsOpen, PathFd, AcceptedFd, Claimed
    <2>2. Denied(fd[t]) => fd[t] # f
      BY <2>1 DEF Unclaimed
    <2> QED
      BY <1>0, <1>3, <2>2 DEF DenyCheck, SysClose, SetNonBlocking, NewFd, kernel, fdt
  <1> QED
    BY <1>1, <1>2, <1>3
    DEF ManagerStep, kernel, fdt, _ParseEvents, RearmGet, ModifySocket, CloseEvent, RemoveLock,
        RemoveSocket, RemoveUnlock, AcceptLock, AcceptCallback, ListenRearm

\* The invariant is kept when the step's own thread keeps its part of it.
LEMMA InputFrame ==
  ASSUME HandlersOnly, OwnerInv, OwnerInv', InputWaits, NEW t \in Threads, Frame(t), InputStays(t),
         \A u \in Threads : u # t => pc'[u] = pc[u] /\ cur'[u] = cur[u] /\ got'[u] = got[u],
         \A s \in Sockets : Reads(t)' /\ cur'[t] = s => HasInput(s)'
  PROVE  InputWaits'
  <1>0. TypeInv /\ OneHandler /\ OneHandler' /\ TypeInv' /\ Alone /\ UnbornUnused
    BY OwnerFenced DEF Fenced, OwnerInv, HandlerInv, Exclusive
  <1>1. ASSUME NEW u \in Threads, NEW s \in Sockets, Reads(u)', cur'[u] = s PROVE HasInput(s)'
    <2>1. CASE u = t
      BY <1>1, <2>1
    <2>2. CASE u # t
      <3>1. pc'[u] = pc[u] /\ cur'[u] = cur[u] /\ Reads(u) /\ HasInput(s)
        BY <1>1, <2>2 DEF Reads, InputWaits
      <3>2. Handles(u, s) /\ Handles(u, s)' /\ pc[u] \in HandlerPlaces \ {"setClosed", "dropFd"}
        BY <1>1, <3>1, HandlerList DEF Reads, Handles
      <3>3. ~Handles(t, s) /\ ~Handles(t, s)'
        BY <1>0, <2>2, <3>2 DEF OneHandler
      <3>4. sock'[s] = sock[s]
        BY <3>3 DEF Frame, Untouched, SameObject
      <3>5. sock[s] \in Fds => Holds(s, sock[s])
        BY <1>0, <1>1, <3>1, <3>2, HandlerHolds
      <3> QED BY <3>1, <3>3, <3>4, <3>5 DEF HasInput, InputStays
    <2> QED BY <2>1, <2>2
  <1>2. \A u \in Threads : Reads(u)' => cur'[u] \in Sockets
    BY <1>0, HandlerList DEF Reads, TypeInv, HasObject, HandlerPlaces
  <1> QED BY <1>1, <1>2 DEF InputWaits, HasInput

\* Inside the handlers a thread reads only when the event it got said so.
LEMMA OwnInput ==
  ASSUME OwnerInv, InputWaits, NEW t \in Threads, SocketStep(t) \/ ManagerStep(t),
         NEW s \in Sockets, Reads(t)', cur'[t] = s
  PROVE  HasInput(s)'
  <1>0. /\ DOMAIN pc = Threads /\ DOMAIN cur = Threads /\ DOMAIN ret = Threads
        /\ DOMAIN got = Threads
        /\ ret[t] \in {"finish", "rearmGet", "acceptAdd", "denyCheck"}
        /\ Reads(t) /\ cur[t] = s => HasInput(s)
    BY DEF OwnerInv, HandlerInv, TypeInv, TypeOK, ThreadTypeOK, InputWaits
  <1>1. ASSUME pc'[t] \notin {"parse", "onReceiving", "recv"} PROVE FALSE
    BY <1>1 DEF Reads
  <1> USE DEF Goto, Return, Forget, local
  <1>2. CASE onReceiving(t) \/ _ParseEvents(t)
    BY <1>0, <1>2 DEF onReceiving, _ParseEvents, Reads, HasInput, kernel, fdt, object
  <1>3. ASSUME SocketStep(t), ~onReceiving(t) PROVE FALSE
    <2>1. CASE \/ Close(t) \/ CloseMark(t) \/ CloseFd(t) \/ SetClosed(t) \/ DropFd(t)
               \/ Accepting(t) \/ AcceptAdd(t) \/ AcceptMark(t)
      BY <1>0, <1>1, <2>1
      DEF Close, CloseMark, CloseFd, SetClosed, DropFd, Accepting, AcceptAdd, AcceptMark
    <2>2. CASE \/ onConnected(t) \/ Recv(t) \/ AfterRecv(t)
               \/ Callback(t) \/ Send(t) \/ SendLoop(t)
      BY <1>0, <1>1, <2>2 DEF onConnected, Recv, AfterRecv, Callback, Send, SendLoop
    <2>3. CASE \/ SendFile(t) \/ ResumeSendFile(t) \/ SendFileLoop(t)
               \/ ConnectSocket(t) \/ ConnectHost(t) \/ ConnectAdd(t)
      BY <1>0, <1>1, <2>3
      DEF SendFile, ResumeSendFile, SendFileLoop, ConnectSocket, ConnectHost, ConnectAdd
    <2> QED BY <1>3, <2>1, <2>2, <2>3 DEF SocketStep
  <1>4. ASSUME ManagerStep(t), ~_ParseEvents(t) PROVE FALSE
    BY <1>0, <1>1, <1>4
    DEF ManagerStep, RearmGet, ModifySocket, CloseEvent, RemoveLock, RemoveSocket,
        RemoveUnlock, AcceptLock, OnAccepting, AcceptCallback, DenyCheck, ListenRearm
  <1> QED BY <1>2, <1>3, <1>4

LEMMA InputStep ==
  ASSUME HandlersOnly, NoTrespass, OwnerInv, InputWaits, [Next]_vars
  PROVE  InputWaits'
  <1>0. /\ OwnerInv' /\ Fenced
        /\ DOMAIN pc = Threads /\ DOMAIN cur = Threads /\ DOMAIN got = Threads
        /\ DOMAIN wire = Fds
    BY OwnerInvariant, OwnerFenced
    DEF OwnerInv, HandlerInv, TypeInv, TypeOK, ThreadTypeOK, KernelTypeOK, FdtTypeOK
  <1>1. ASSUME NEW t \in Threads, SocketStep(t) PROVE InputWaits'
    <2>1. \A u \in Threads : u # t => got'[u] = got[u]
      BY <1>0, <1>1
      DEF SocketStep, local, Close, CloseMark, CloseFd, SetClosed, DropFd, Accepting, AcceptAdd,
          AcceptMark, onConnected, onReceiving, Recv, AfterRecv, Callback, Send, SendLoop,
          SendFile, ResumeSendFile, SendFileLoop, ConnectSocket, ConnectHost, ConnectAdd
    <2>2. Others(t) /\ Frame(t) /\ InputStays(t)
      BY <1>0, <1>1, SocketStepOthers, SocketFrame, SocketInput
    <2> QED BY <1>0, <1>1, <2>1, <2>2, OwnInput, InputFrame DEF Others
  <1>2. ASSUME NEW t \in Threads, ManagerStep(t) PROVE InputWaits'
    <2>1. \A u \in Threads : u # t => got'[u] = got[u]
      BY <1>0, <1>2
      DEF ManagerStep, local, Forget, _ParseEvents, RearmGet, ModifySocket, CloseEvent,
          RemoveLock, RemoveSocket, RemoveUnlock, AcceptLock, OnAccepting, AcceptCallback,
          DenyCheck, ListenRearm
    <2>2. Others(t) /\ Frame(t) /\ InputStays(t)
      BY <1>0, <1>2, ManagerStepOthers, ManagerFrame, ManagerInput
    <2> QED BY <1>0, <1>2, <2>1, <2>2, OwnInput, InputFrame DEF Others
  \* What an event announces has arrived for the object that holds the number.
  <1>3. ASSUME NEW t \in Workers, NEW f \in Fds, EpollWait(t, f) PROVE InputWaits'
    <2>1. t \in Threads /\ UNCHANGED <<wire, object>>
      BY <1>3 DEF EpollWait, Threads, fdt
    <2>2. ASSUME NEW u \in Threads, u # t, Reads(u)' PROVE HasInput(cur[u])' /\ cur'[u] = cur[u]
      BY <1>0, <1>3, <2>1, <2>2
      DEF EpollWait, Goto, Reads, InputWaits, HasInput, object
    <2>3. ASSUME NEW s, Reads(t)', cur'[t] = s PROVE HasInput(s)'
      <3>1. pc'[t] = "parse" /\ ptr[f] \in Sockets /\ s = ptr[f] /\ "in" \in Pending(f)
        BY <1>0, <1>3, <2>1, <2>3 DEF EpollWait, Goto, Reads
      <3>2. sock[s] = f
        BY <1>0, <3>1 DEF Fenced, FdInv, Descriptors, Routed, Holds
      <3> QED BY <2>1, <3>1, <3>2 DEF HasInput, Pending, Readable, object
    <2> QED BY <2>2, <2>3 DEF InputWaits, HasInput
  \* No other step begins to read.
  <1>4. ASSUME \A u \in Threads : Reads(u)' => Reads(u) /\ cur'[u] = cur[u],
               \A u \in Threads : Reads(u) => sock'[cur[u]] = sock[cur[u]],
               \A u \in Threads : Reads(u) /\ sock[cur[u]] \in Fds =>
                 (wire[sock[cur[u]]] \in {"data", "eof", "reset"} =>
                    wire'[sock[cur[u]]] \in {"data", "eof", "reset"})
        PROVE  InputWaits'
    BY <1>4 DEF InputWaits, HasInput
  <1>5. ASSUME NEW t \in Threads, UNCHANGED <<kernel, object>>,
               pc'[t] \in {"wait", "idle"},
               \A u \in Threads : u # t => pc'[u] = pc[u] /\ cur'[u] = cur[u] /\ got'[u] = got[u]
        PROVE  InputWaits'
    BY <1>4, <1>5 DEF Reads, kernel, fdt, object
  <1>6. ASSUME NEW t \in Workers, StartWorker(t) PROVE InputWaits'
    BY <1>0, <1>5, <1>6 DEF StartWorker, Goto, local, Threads
  <1>7. ASSUME NEW t \in Apps, AppFinish(t) PROVE InputWaits'
    BY <1>0, <1>5, <1>7 DEF AppFinish, Goto, Forget, Threads
  <1>8. ASSUME NEW t \in Apps, AppStep(t) PROVE InputWaits'
    <2> PICK s \in Sockets : ConnectToHost(t, s)
      BY <1>8 DEF AppStep, AppClose, NoTrespass
    <2>1. /\ ~alive[s] /\ UNCHANGED <<kernel, got>> /\ t \in Threads
          /\ pc'[t] = "connectSocket"
          /\ \A u \in Threads : u # t => pc'[u] = pc[u] /\ cur'[u] = cur[u]
          /\ \A r \in Sockets : r # s => sock'[r] = sock[r]
      BY <1>0 DEF ConnectToHost, Construct, NoTrespass, Goto, Threads, OwnerInv, HandlerInv,
                  TypeInv, TypeOK, ObjectTypeOK
    <2>2. \A u \in Threads : Reads(u) => cur[u] \in Sockets /\ cur[u] # s
      BY <2>1, HandlerList
      DEF Reads, OwnerInv, HandlerInv, Exclusive, UnbornUnknown, TypeInv, HasObject,
          HandlerPlaces
    <2>3. \A u \in Threads : Reads(u)' => Reads(u) /\ cur'[u] = cur[u]
      BY <2>1 DEF Reads
    <2> QED BY <1>4, <2>1, <2>2, <2>3 DEF kernel, fdt
  <1>9. ASSUME NEW l \in Listeners, StartListen(l) PROVE InputWaits'
    <2>1. ASSUME NEW u \in Threads, Reads(u), sock[cur[u]] \in Fds
          PROVE  use[sock[cur[u]]] = "conn"
      <3>1. pc[u] \in HandlerPlaces \ {"setClosed", "dropFd"}
        BY <2>1, HandlerList DEF Reads
      <3>2. cur[u] \in Sockets /\ Holds(cur[u], sock[cur[u]])
        BY <1>0, <2>1, <3>1, HandlerHolds
        DEF Fenced, TypeInv, HasObject, HandlerPlaces
      <3> QED BY <1>0, <3>2 DEF Fenced, FdInv, Descriptors, Own, Holds
    <2> QED
      BY <1>0, <1>4, <1>9, <2>1 DEF StartListen, NewFd, FreeFds, Reads, object, local
  <1>10. CASE Peer
    BY <1>0, <1>4, <1>10
    DEF Peer, PeerConnect, PeerSend, PeerEof, PeerReset, PeerAnswer, PeerReads, Arrives,
        SetWire, SetFull, IsOpen, Reads, object, local
  <1>11. CASE UNCHANGED vars
    BY <1>4, <1>11 DEF vars, kernel, fdt, object, local, Reads
  <1> QED
    BY <1>1, <1>2, <1>3, <1>6, <1>7, <1>8, <1>9, <1>10, <1>11 DEF Next, Wait

\* recv() is called on a connection only when something is there: onReceiving takes the
\* -1 of an empty socket for a broken connection and closes it.
THEOREM RecvFindsInput == ASSUME HandlersOnly, NoTrespass PROVE Spec => []RecvHasInput
  <1>1. Init => InputWaits
    BY DEF Init, InputWaits, Reads, Threads
  <1>2. InputWaits => RecvHasInput
    BY DEF InputWaits, Reads, HasInput, RecvHasInput, IsOpen
  <1> QED BY OwnerInvariant, InputStep, <1>1, <1>2, PTL DEF Spec

-----------------------------------------------------------------------------
(***************************************************************************)
(* OnClosed.  The worker's loop calls it, after the handlers, for a        *)
(* connection it finds without a descriptor; a connection that is closed   *)
(* on the accept path or by the thread that connects it is not reported    *)
(* (TLC shows it).  So the handlers of the events must do the closing.     *)
(***************************************************************************)
ClosedByHandlers ==
  /\ {"acceptClose", "ssl", "connect"} \cap Usage = {}
  /\ "add" \notin Faults
  /\ "sendfile" \notin Usage \/ "file" \notin Faults

ReportFlow(t) ==
  /\ pc[t] \in ClosePlaces => ret[t] = "rearmGet"
  /\ pc[t] \in ListenPlaces => ret[t] # "rearmGet"
  /\ pc[t] = "SendFile" => "sendfile" \in Usage

\* The accept path resumes a file it has just been given, so it does not close there.
FileGiven(t, s) ==
  pc[t] = "ResumeSendFile" /\ ret[t] # "rearmGet" /\ status[s] = "Connected" => sending[s]

Dropped(s) == sock[s] = Invalid \/ \E t \in Threads : cur[t] = s /\ pc[t] = "dropFd"
Noticed(s) == closed[s] >= 1 \/ \E t \in Threads : cur[t] = s /\ ret[t] = "rearmGet"

Reported ==
  /\ \A t \in Threads : ReportFlow(t) /\ \A s \in Sockets : Handles(t, s) => FileGiven(t, s)
  /\ \A s \in Sockets : alive[s] /\ status[s] = "Closed" => Dropped(s) /\ Noticed(s)

\* What a step has to do for its own thread and its connection.
Reports(t) ==
  /\ ReportFlow(t)'
  /\ \A s \in Sockets : /\ Handles(t, s)' => FileGiven(t, s)'
                        /\ alive'[s] /\ status'[s] = "Closed" => Dropped(s)' /\ Noticed(s)'

LEMMA ReportFrame ==
  ASSUME OneHandler, OneHandler', Reported, NEW t \in Threads, Others(t), Frame(t), Reports(t)
  PROVE  Reported'
  <1>1. ASSUME NEW u \in Threads, u # t PROVE ReportFlow(u)'
    BY <1>1 DEF Others, Reported, ReportFlow
  <1>2. ASSUME NEW u \in Threads, u # t, NEW s \in Sockets, Handles(u, s)'
        PROVE  FileGiven(u, s)'
    <2>1. Handles(u, s) /\ FileGiven(u, s)
      BY <1>2 DEF Others, Handles, Reported
    <2>2. Untouched(s)
      BY <1>2, <2>1 DEF OneHandler, Frame
    <2> QED BY <1>2, <2>1, <2>2 DEF FileGiven, Others, Untouched, SameObject
  <1> QED BY <1>1, <1>2 DEF Reports, Reported

\* An object whose step leaves it as it was keeps its witnesses, unless the thread goes
\* out of the library or past DropFd.
LEMMA StillReported ==
  ASSUME NEW t \in Threads, Others(t), NEW s \in Sockets,
         alive[s] /\ status[s] = "Closed" => Dropped(s) /\ Noticed(s),
         alive'[s] = alive[s], status'[s] = status[s], sock'[s] = sock[s],
         closed'[s] = closed[s], alive[s],
         cur[t] = s => pc[t] # "dropFd",
         cur[t] = s /\ ret[t] = "rearmGet" => cur'[t] = s /\ ret'[t] = "rearmGet"
  PROVE  alive'[s] /\ status'[s] = "Closed" => Dropped(s)' /\ Noticed(s)'
  BY DEF Dropped, Noticed, Others

\* Every step inside the methods of clsTCPSocket.
LEMMA SocketReports ==
  ASSUME HandlersOnly, NoTrespass, ClosedByHandlers, WakeInv, Reported, NEW t \in Threads,
         SocketStep(t)
  PROVE  Reports(t)
  <1>0. /\ pc[t] \in UsePlaces /\ cur'[t] = cur[t] /\ UNCHANGED closed
        /\ cur[t] \in Sockets /\ Others(t)
        /\ RetOK(t) /\ ReportFlow(t) /\ ShutdownFlow(t) /\ ConnectFlow(t) /\ AcceptFlow(t)
    BY OwnerFenced, SocketStepPlace, SocketStepOthers
    DEF WakeInv, Wake, OwnerInv, HandlerInv, FdInv, Flow, ThreadFlow, TypeInv, HasObject,
        SocketStep, Reported
  <1> PICK s \in Sockets : s = cur[t]
    BY <1>0
  <1>1. /\ DOMAIN pc = Threads /\ DOMAIN ret = Threads /\ DOMAIN shut = Threads
        /\ DOMAIN status = Sockets /\ DOMAIN sock = Sockets /\ DOMAIN events = Sockets
        /\ DOMAIN sending = Sockets
        /\ ret[t] \in {"finish", "rearmGet", "acceptAdd", "denyCheck"}
        /\ sock[s] \in Fds \cup NoFd /\ NoFd \cap Fds = {}
        /\ pc[t] \notin ConnectPlaces
        /\ status[s] # "Connecting"
    BY <1>0, KernelAssumption
    DEF WakeInv, OwnerInv, HandlerInv, FdInv, Flow, ConnectUsed, ConnectFlow, TypeInv, TypeOK,
        ObjectTypeOK, ThreadTypeOK, NoFd, ClosedByHandlers
  <1>2. pc[t] \in HandlerPlaces => Serving(t, s) /\ FileGiven(t, s)
    BY <1>0 DEF WakeInv, Wake, Reported, Handles
  <1>3. ASSUME NEW r \in Sockets, r # s, alive'[r], status'[r] = "Closed"
        PROVE  Dropped(r)' /\ Noticed(r)'
    <2>1. SameObject(r)
      BY <1>3, SocketObject DEF WakeInv, OwnerInv, HandlerInv
    <2> QED BY <1>0, <1>3, <2>1, StillReported DEF SameObject, Reported
  <1>4. ReportFlow(t)' /\ (pc'[t] \in HandlerPlaces => FileGiven(t, s)')
    <2> USE <1>0, <1>1, <1>2
        DEF ReportFlow, FileGiven, ClosePlaces, ListenPlaces, SendPlaces, ConnectPlaces, Goto,
            Return, SetStatus, local, object
    <2>1. CASE Close(t) \/ CloseMark(t) \/ CloseFd(t) \/ SetClosed(t) \/ DropFd(t)
      BY <2>1 DEF Close, CloseMark, CloseFd, SetClosed, DropFd
    <2>2. CASE Accepting(t)
      BY <2>2 DEF Accepting, ClosedByHandlers
    <2>3. CASE AcceptAdd(t)
      <3>1. status[s] = "Connected" => CanAdd(sock[s])
        <4>1. pc[t] = "acceptAdd" /\ ret[t] = "acceptAdd"
          BY <2>3 DEF AcceptAdd, AcceptFlow, OnAcceptPath, AcceptReturns
        <4>2. Unknown(s) /\ (status[s] = "Connected" => sock[s] \in Fds)
          BY <4>1, HandlerList DEF Serving, EventsOK
        <4>3. sock[s] \in Fds => Holds(s, sock[s])
          BY <4>1, OwnerFenced, HandlerHolds, HandlerList DEF Fenced, WakeInv
        <4> QED
          BY <4>2, <4>3, AddWorks DEF WakeInv, OwnerInv, HandlerInv, FdInv, Descriptors
      <3> QED BY <2>3, <3>1 DEF AcceptAdd, ClosedByHandlers
    <2>4. CASE AcceptMark(t)
      BY <2>4 DEF AcceptMark, HandlersOnly
    <2>5. CASE onConnected(t) \/ onReceiving(t) \/ Recv(t) \/ AfterRecv(t)
      BY <2>5 DEF onConnected, onReceiving, Recv, AfterRecv, RetOK
    <2>6. CASE Callback(t) \/ Send(t) \/ SendLoop(t)
      BY <2>6 DEF Callback, MayClose, Send, SendLoop, RetOK, ClosedByHandlers
    <2>7. CASE SendFile(t)
      BY <2>7 DEF SendFile, RetOK, ClosedByHandlers
    <2>8. CASE ResumeSendFile(t)
      BY <2>8, HandlerList DEF ResumeSendFile, RetOK
    <2>9. CASE SendFileLoop(t)
      BY <2>9 DEF SendFileLoop, RetOK
    <2> HIDE <1>0, <1>1, <1>2
    <2> QED
      BY <1>1, <2>1, <2>2, <2>3, <2>4, <2>5, <2>6, <2>7, <2>8, <2>9
      DEF SocketStep, ConnectPlaces, ConnectSocket, ConnectHost, ConnectAdd
  <1>5. ASSUME alive'[s], status'[s] = "Closed" PROVE Dropped(s)' /\ Noticed(s)'
    <2>1. UNCHANGED alive /\ (UNCHANGED ret \/ pc[t] \in ListenPlaces)
      BY DEF SocketStep, object, local, ListenPlaces, Close, CloseMark, CloseFd, SetClosed,
             DropFd, Accepting, AcceptAdd, AcceptMark, onConnected, onReceiving, Recv,
             AfterRecv, Callback, Send, SendLoop, SendFile, ResumeSendFile, SendFileLoop,
             ConnectSocket, ConnectHost, ConnectAdd
    <2>2. CASE pc[t] # "dropFd" /\ status'[s] = status[s] /\ sock'[s] = sock[s]
      BY <1>0, <1>5, <2>1, <2>2, StillReported DEF Reported, ReportFlow
    <2>3. CASE CloseMark(t)
      <3>1. sock[s] \notin NoFd
        BY <1>1, <1>2, <2>3, HandlerList DEF CloseMark, Serving, PlaceOK, EventsOK, Opens
      <3> QED BY <1>0, <1>1, <1>5, <2>3, <3>1 DEF CloseMark, SetStatus
    <2>4. CASE SetClosed(t)
      BY <1>0, <1>1, <2>4
      DEF SetClosed, Goto, local, ReportFlow, ClosePlaces, Dropped, Noticed
    <2>5. CASE DropFd(t)
      BY <1>0, <1>1, <2>5
      DEF DropFd, Goto, local, ReportFlow, ClosePlaces, Dropped, Noticed
    <2>6. CASE Accepting(t) \/ onConnected(t)
      BY <1>0, <1>1, <1>5, <2>2, <2>6 DEF Accepting, onConnected, SetStatus
    <2> QED
      BY <1>1, <2>2, <2>3, <2>4, <2>5, <2>6
      DEF SocketStep, object, ConnectPlaces, Close, CloseFd, AcceptAdd, AcceptMark, onReceiving,
          Recv, AfterRecv, Callback, Send, SendLoop, SendFile, ResumeSendFile, SendFileLoop,
          ConnectSocket, ConnectHost, ConnectAdd
  <1> QED BY <1>0, <1>3, <1>4, <1>5 DEF Reports, Handles

\* Every step of the manager.
LEMMA ManagerReports ==
  ASSUME HandlersOnly, NoTrespass, ClosedByHandlers, WakeInv, Reported, NEW t \in Threads,
         ManagerStep(t)
  PROVE  Reports(t)
  <1>0. /\ DOMAIN pc = Threads /\ DOMAIN ret = Threads /\ DOMAIN cur = Threads
        /\ DOMAIN status = Sockets /\ DOMAIN sock = Sockets /\ DOMAIN alive = Sockets
        /\ closed \in [Sockets -> 0..MaxClosed]
        /\ ret[t] \in {"finish", "rearmGet", "acceptAdd", "denyCheck"}
        /\ Others(t) /\ RetOK(t) /\ ReportFlow(t)
    BY OwnerFenced, ManagerStepOthers
    DEF WakeInv, Wake, OwnerInv, HandlerInv, TypeInv, TypeOK, ObjectTypeOK, ThreadTypeOK,
        Reported
  <1>1. ReportFlow(t)' /\ \A s \in Sockets : Handles(t, s)' => FileGiven(t, s)'
    <2> USE <1>0
        DEF ReportFlow, Handles, FileGiven, ClosePlaces, ListenPlaces, ConnectPlaces,
            RemovePlaces, Goto, Return, Forget, local, RetOK
    <2>1. CASE _ParseEvents(t) \/ RearmGet(t) \/ ModifySocket(t) \/ CloseEvent(t)
      BY <2>1 DEF _ParseEvents, RearmGet, ModifySocket, CloseEvent
    <2>2. CASE RemoveLock(t) \/ RemoveSocket(t) \/ RemoveUnlock(t)
      BY <2>2 DEF RemoveLock, RemoveSocket, RemoveUnlock
    <2>3. CASE AcceptLock(t) \/ OnAccepting(t) \/ AcceptCallback(t)
      BY <2>3 DEF AcceptLock, OnAccepting, AcceptCallback
    <2>4. CASE DenyCheck(t) \/ ListenRearm(t)
      BY <2>4 DEF DenyCheck, ListenRearm
    <2> HIDE <1>0
    <2> QED BY <2>1, <2>2, <2>3, <2>4 DEF ManagerStep
  <1>2. ASSUME NEW s \in Sockets, alive'[s], status'[s] = "Closed"
        PROVE  Dropped(s)' /\ Noticed(s)'
    <2>1. CASE CloseEvent(t)
      <3>1. /\ UNCHANGED object /\ pc[t] = "closeEvent"
            /\ closed'[s] = closed[s] \/ closed'[s] >= 1
            /\ closed[s] >= 1 => closed'[s] >= 1
            /\ s = cur[t] => closed'[s] >= 1 \/ sock[s] # Invalid
        BY <1>0, <2>1 DEF CloseEvent, HandlersOnly, MaxClosed, object
      <3>2. Dropped(s) /\ Noticed(s)
        BY <1>2, <3>1 DEF Reported, object
      <3>3. Dropped(s)'
        BY <1>0, <3>1, <3>2 DEF Dropped, Others, object
      <3>4. CASE s = cur[t] /\ sock[s] # Invalid
        <4>1. PICK u \in Threads : cur[u] = s /\ pc[u] = "dropFd"
          BY <3>2, <3>4 DEF Dropped
        <4>2. u # t /\ ret[u] = "rearmGet"
          BY <3>1, <4>1 DEF Reported, ReportFlow, ClosePlaces
        <4> QED BY <1>0, <3>3, <4>1, <4>2 DEF Noticed, Others
      <3>5. CASE s # cur[t]
        BY <1>0, <3>1, <3>2, <3>3, <3>5 DEF Noticed, Others
      <3> QED BY <3>1, <3>3, <3>4, <3>5 DEF Noticed
    <2>2. CASE AcceptCallback(t)
      <3>1. alive[s] /\ status[s] = "Closed" /\ sock'[s] = sock[s] /\ closed'[s] = closed[s]
        BY <1>0, <1>2, <2>2 DEF AcceptCallback, Construct, SetStatus, object
      <3>2. pc[t] # "dropFd" /\ ret[t] # "rearmGet"
        BY <1>0, <2>2 DEF AcceptCallback, RetOK
      <3> QED BY <1>0, <1>2, <3>1, <3>2, StillReported DEF Reported
    <2>3. CASE UNCHANGED <<object, closed>> /\ pc[t] # "dropFd"
               /\ (ret[t] = "rearmGet" => UNCHANGED <<cur, ret>>)
      BY <1>0, <1>2, <2>3, StillReported DEF Reported, object
    <2>4. CASE ListenRearm(t)
      BY <1>0, <2>3, <2>4 DEF ListenRearm, ReportFlow, ListenPlaces
    <2> QED
      BY <2>1, <2>2, <2>3, <2>4
      DEF ManagerStep, local, _ParseEvents, RearmGet, ModifySocket, RemoveLock, RemoveSocket,
          RemoveUnlock, AcceptLock, OnAccepting, DenyCheck
  <1> QED BY <1>1, <1>2 DEF Reports

\* The other steps touch no object, and take no thread away that has a close to report.
LEMMA ReportStep ==
  ASSUME HandlersOnly, NoTrespass, ClosedByHandlers, WakeInv, Reported, [Next]_vars
  PROVE  Reported'
  <1>0. /\ WakeInv' /\ Fenced
        /\ \A t \in Threads : RetOK(t)
        /\ DOMAIN pc = Threads /\ DOMAIN ret = Threads /\ DOMAIN cur = Threads
    BY WakeInvariant, OwnerFenced
    DEF WakeInv, Wake, OwnerInv, HandlerInv, TypeInv, TypeOK, ThreadTypeOK
  <1>1. ASSUME NEW t \in Threads, Others(t), Frame(t), Reports(t) PROVE Reported'
    BY <1>0, <1>1, ReportFrame DEF WakeInv, OwnerInv, HandlerInv, Exclusive
  <1>2. ASSUME NEW t \in Threads, SocketStep(t) PROVE Reported'
    BY <1>0, <1>1, <1>2, SocketStepOthers, SocketFrame, SocketReports DEF WakeInv
  <1>3. ASSUME NEW t \in Threads, ManagerStep(t) PROVE Reported'
    BY <1>0, <1>1, <1>3, ManagerStepOthers, ManagerFrame, ManagerReports DEF WakeInv
  <1>4. ASSUME NEW t \in Threads, UNCHANGED <<object, closed>>,
               pc[t] \in {"off", "wait", "finish"},
               pc'[t] \in {"wait", "parse", "acceptLock", "idle"},
               pc'[t] = "acceptLock" => ret'[t] # "rearmGet",
               \A u \in Threads : u # t => pc'[u] = pc[u] /\ cur'[u] = cur[u] /\ ret'[u] = ret[u]
        PROVE  Reported'
    <2>1. \A u \in Threads : ReportFlow(u)'
      BY <1>4 DEF Reported, ReportFlow, ClosePlaces, ListenPlaces
    <2>2. ASSUME NEW u \in Threads, NEW s \in Sockets, Handles(u, s)' PROVE FileGiven(u, s)'
      BY <1>4, <2>2 DEF Reported, FileGiven, Handles, object
    <2>3. ASSUME NEW s \in Sockets, alive[s], status[s] = "Closed"
          PROVE  Dropped(s)' /\ Noticed(s)'
      <3>1. Dropped(s) /\ Noticed(s) /\ ret[t] # "rearmGet"
        BY <1>0, <1>4, <2>3 DEF Reported, RetOK
      <3> QED BY <1>4, <3>1 DEF Dropped, Noticed, object
    <2> QED BY <1>4, <2>1, <2>2, <2>3 DEF Reported, object
  <1>5. ASSUME NEW t \in Workers, StartWorker(t) PROVE Reported'
    BY <1>0, <1>4, <1>5 DEF StartWorker, Goto, local, Threads
  <1>6. ASSUME NEW t \in Workers, Wait(t) PROVE Reported'
    <2>1. t \in Threads /\ pc[t] = "wait" /\ ret[t] = "finish"
      BY <1>0, <1>6 DEF Wait, EpollWait, RetOK, Threads
    <2> QED BY <1>0, <1>4, <1>6, <2>1 DEF Wait, EpollWait, Goto
  <1>7. ASSUME NEW t \in Apps, AppFinish(t) PROVE Reported'
    BY <1>0, <1>4, <1>7 DEF AppFinish, Goto, Forget, Threads
  <1>8. ASSUME NEW t \in Apps, AppStep(t) PROVE Reported'
    BY <1>8 DEF AppStep, ConnectToHost, AppClose, ClosedByHandlers, NoTrespass
  <1>9. CASE UNCHANGED <<object, closed, pc, local>>
    BY <1>9
    DEF Reported, ReportFlow, Handles, FileGiven, Dropped, Noticed, object, local
  <1> QED
    BY <1>2, <1>3, <1>5, <1>6, <1>7, <1>8, <1>9 DEF Next, StartListen, Peer, vars

\* A connection that was closed and that no thread works on any more has been reported to
\* the application by OnClosed.
THEOREM ClosesReported ==
  ASSUME HandlersOnly, NoTrespass, ClosedByHandlers PROVE Spec => []ClosedReported
  <1>1. Init => Reported
    BY HandlerList
    DEF Init, Reported, ReportFlow, Handles, Threads, ClosePlaces, ListenPlaces
  <1>2. Reported => ClosedReported
    BY DEF Reported, Noticed, ClosedReported
  <1> QED BY WakeInvariant, ReportStep, <1>1, <1>2, PTL DEF Spec
=============================================================================
