------------------------ MODULE TCPServerFds_proofs ------------------------
(***************************************************************************)
(* Who owns a descriptor: theorems about TCPServer, for every set of       *)
(* workers, application threads, connections, listeners and descriptors.   *)
(*                                                                         *)
(* The library identifies a connection by its descriptor number and the    *)
(* kernel hands a closed number out at once, so every close() and every    *)
(* epoll_ctl() is right only if the number still is the connection's own.  *)
(* Nothing in the code says why it is; FdInv does.                         *)
(***************************************************************************)
EXTENDS TCPServer_proofs

-----------------------------------------------------------------------------
(***************************************************************************)
(* The usage the results are about: no thread calls Close() on a           *)
(* connection it does not handle, a closed object is not connected again,  *)
(* listeners are added before the workers start, and a server that accepts *)
(* makes no outgoing connections.  TLC shows for each of them a state in   *)
(* which the properties fail without it (the run deny for the last).       *)
(***************************************************************************)
NoTrespass ==
  /\ Usage \cap {"appClose", "reconnect", "lateListen"} = {}
  /\ "connect" \notin Usage \/ Listeners = {}

\* The application uses the object after it was put into the epoll set, or deletes it.
UsedAfterwards == Usage \cap {"useAfterAccept", "deleteOnClosed"} # {}

\* No two threads are inside the methods of one connection (from OneHandler); where
\* it is used afterwards, no two threads have it in their hands at all.
Alone ==
  \A s \in Sockets : \A t, u \in Threads :
    /\ Handles(t, s) /\ Handles(u, s) => t = u
    /\ UsedAfterwards /\ Uses(t, s) /\ Uses(u, s) => t = u

\* An object that is not constructed, or deleted, is in no thread's hands any more.
UnbornUnused ==
  \A s \in Sockets : ~alive[s] =>
    (\A t \in Threads : ~Uses(t, s)) /\ (\A f \in Fds : ptr[f] # s)

-----------------------------------------------------------------------------
(***************************************************************************)
(* The inductive invariant.                                                *)
(***************************************************************************)
AcceptPlaces == ListenPlaces \ {"acceptLock"}
AcceptReturns == {"acceptAdd", "denyCheck"}

\* The thread is between AcceptLock and ListenRearm, in the callbacks too.
OnAcceptPath(t) == pc[t] \in AcceptPlaces \/ ret[t] \in AcceptReturns

\* Of these places, those at which it works on the object the callback has made.
HasAccepted(t) ==
  /\ OnAcceptPath(t)
  /\ pc[t] \notin {"accept", "acceptCallback", "denyCheck", "listenRearm"}

\* The calls that can be made from the callbacks of the accept path.
AcceptCalls == {"callback", "close", "closing", "closeFd", "setClosed", "dropFd",
                "acceptAdd", "acceptMark", "denyCheck", "listenRearm"} \cup SendPlaces

\* An application thread is in ConnectToHost or outside of the library.
AppFlow(t) ==
  t \in Apps => /\ ret[t] = "finish"
                /\ pc[t] \in {"idle", "finish"} \cup ConnectPlaces \cup ClosePlaces

\* The accept path begins with an event of a listener and makes the calls above only.
AcceptFlow(t) ==
  /\ pc[t] = "acceptLock" \/ OnAcceptPath(t) => lsn[t] \in Listeners
  /\ ret[t] \in AcceptReturns => pc[t] \in AcceptCalls
  /\ pc[t] = "acceptAdd" => ret[t] = "acceptAdd"

\* RemoveSocket is entered with isShutdown unset, the accept path closes with it set.
ShutdownFlow(t) ==
  /\ pc[t] \in {"onReceiving", "removeLock", "removeDel", "removeUnlock"} => ~shut[t]
  /\ ret[t] \in AcceptReturns =>
       (pc[t] \in {"closing", "closeFd", "setClosed", "dropFd"} => shut[t])

ConnectFlow(t) == pc[t] \in ConnectPlaces => "connect" \in Usage

ThreadFlow(t) == AppFlow(t) /\ AcceptFlow(t) /\ ShutdownFlow(t) /\ ConnectFlow(t)
ConnectUsed == \A s \in Sockets : status[s] = "Connecting" => "connect" \in Usage
Flow == (\A t \in Threads : ThreadFlow(t)) /\ ConnectUsed

\* The places between lock and unlock of the manager's mutex.
InMutex(t) ==
  \/ OnAcceptPath(t)
  \/ pc[t] \in {"removeDel", "removeUnlock"}
  \/ pc[t] \in {"closeFd", "setClosed", "dropFd"} /\ ~shut[t]
Mutex == \A t \in Threads : InMutex(t) => lock = t

-----------------------------------------------------------------------------
\* Initially every thread is outside of the library.
LEMMA InitFlow == Init => Flow /\ Mutex
  BY ThreadAssumption
  DEF Init, Flow, ThreadFlow, AppFlow, AcceptFlow, ShutdownFlow, ConnectFlow, ConnectUsed,
      Mutex, InMutex, OnAcceptPath, AcceptPlaces, AcceptReturns, AcceptCalls,
      ListenPlaces, SendPlaces, ConnectPlaces, ClosePlaces, Threads

\* What a step of one thread leaves of the others.
LEMMA GotoOne ==
  ASSUME TypeInv, NEW t \in Threads, NEW p, Goto(t, p)
  PROVE  pc'[t] = p /\ \A u \in Threads : u # t => pc'[u] = pc[u]
  BY DEF Goto, TypeInv, TypeOK, ThreadTypeOK

\* What Forget leaves of the thread.
LEMMA ForgetOne ==
  ASSUME TypeInv, NEW t \in Threads, Forget(t)
  PROVE  /\ cur'[t] = None /\ fd'[t] = Invalid /\ ret'[t] = "finish" /\ shut'[t] = FALSE
         /\ \A u \in Threads : u # t =>
              cur'[u] = cur[u] /\ fd'[u] = fd[u] /\ ret'[u] = ret[u] /\ shut'[u] = shut[u]
  BY DEF Forget, TypeInv, TypeOK, ThreadTypeOK

\* A step changes the place, the return and the flag of one thread at most.
Same(u) == pc'[u] = pc[u] /\ ret'[u] = ret[u] /\ shut'[u] = shut[u] /\ lsn'[u] = lsn[u]
Mine(t) == \A u \in Threads : u # t => Same(u)

\* Every step of a method of clsTCPSocket keeps the flow of its thread.
LEMMA SocketStepFlow ==
  ASSUME NoTrespass, TypeInv, ConnectFinishes, Flow, NEW t \in Threads, SocketStep(t)
  PROVE  ThreadFlow(t)' /\ Mine(t)
  <1>0. /\ ThreadFlow(t) /\ ConnectUsed /\ UNCHANGED lsn
        /\ pc \in [Threads -> Places]
        /\ ret \in [Threads -> {"finish", "rearmGet", "acceptAdd", "denyCheck"}]
        /\ shut \in [Threads -> BOOLEAN]
    BY SocketStepPlace DEF Flow, TypeInv, TypeOK, ThreadTypeOK
  <1> USE DEF SocketStep, Goto, Return, local, Mine, Same, ThreadFlow, AppFlow, AcceptFlow,
          ShutdownFlow, ConnectFlow, OnAcceptPath, AcceptPlaces, AcceptReturns, AcceptCalls,
          ListenPlaces, SendPlaces, ConnectPlaces, ClosePlaces
  <1>1. CASE Close(t)
    <2>1. cur[t] \in Sockets
      BY SocketStepPlace DEF TypeInv, HasObject
    <2>2. status[cur[t]] = "Connecting" => ~OnAcceptPath(t)
      BY <1>0, <2>1 DEF ConnectUsed, NoTrespass
    <2> QED BY <1>0, <1>1, <2>2 DEF Close
  <1>2. CASE CloseMark(t) \/ CloseFd(t) \/ SetClosed(t)
    BY <1>0, <1>2 DEF CloseMark, CloseFd, SetClosed
  <1>3. CASE DropFd(t)
    BY <1>0, <1>3 DEF DropFd
  <1>4. CASE Accepting(t) \/ AcceptAdd(t) \/ AcceptMark(t)
    BY <1>0, <1>4 DEF Accepting, AcceptAdd, AcceptMark
  <1>5. CASE onConnected(t) \/ onReceiving(t) \/ Recv(t) \/ AfterRecv(t)
    BY <1>0, <1>5 DEF onConnected, onReceiving, Recv, AfterRecv
  <1>6. CASE Callback(t) \/ Send(t) \/ SendLoop(t)
    BY <1>0, <1>6 DEF Callback, Send, SendLoop
  <1>7. CASE SendFile(t) \/ ResumeSendFile(t) \/ SendFileLoop(t)
    BY <1>0, <1>7 DEF SendFile, ResumeSendFile, SendFileLoop
  <1>8. CASE ConnectSocket(t) \/ ConnectHost(t) \/ ConnectAdd(t)
    BY <1>0, <1>8 DEF ConnectSocket, ConnectHost, ConnectAdd, ConnectFinishes
  <1> QED BY <1>1, <1>2, <1>3, <1>4, <1>5, <1>6, <1>7, <1>8

\* Every step of the manager keeps the flow of its thread.
LEMMA ManagerStepFlow ==
  ASSUME TypeInv, Flow, NEW t \in Threads, ManagerStep(t)
  PROVE  ThreadFlow(t)' /\ Mine(t)
  <1>0. /\ ThreadFlow(t)
        /\ pc \in [Threads -> Places]
        /\ lsn \in [Threads -> Listeners \cup {None}]
        /\ ret \in [Threads -> {"finish", "rearmGet", "acceptAdd", "denyCheck"}]
        /\ shut \in [Threads -> BOOLEAN]
    BY DEF Flow, TypeInv, TypeOK, ThreadTypeOK
  <1>00. t \in Apps => pc[t] \in {"idle", "finish"} \cup ConnectPlaces \cup ClosePlaces
    BY <1>0 DEF ThreadFlow, AppFlow
  <1> USE DEF Goto, Return, local, manager, Mine, Same, ThreadFlow, AppFlow, AcceptFlow,
          ShutdownFlow, ConnectFlow, OnAcceptPath, AcceptPlaces, AcceptReturns, AcceptCalls,
          ListenPlaces, SendPlaces, ConnectPlaces, ClosePlaces
  <1>1. CASE _ParseEvents(t)
    BY <1>0, <1>1 DEF _ParseEvents
  <1>2. CASE RearmGet(t) \/ ModifySocket(t)
    BY <1>0, <1>2 DEF RearmGet, ModifySocket
  <1>3. CASE CloseEvent(t) \/ ListenRearm(t)
    BY <1>0, <1>3 DEF CloseEvent, ListenRearm, Forget
  <1>4. CASE RemoveLock(t) \/ RemoveSocket(t) \/ RemoveUnlock(t)
    BY <1>0, <1>4 DEF RemoveLock, RemoveSocket, RemoveUnlock
  <1>5. CASE AcceptLock(t) \/ OnAccepting(t) \/ AcceptCallback(t) \/ DenyCheck(t)
    BY <1>0, <1>5 DEF AcceptLock, OnAccepting, AcceptCallback, DenyCheck
  <1> QED BY <1>1, <1>2, <1>3, <1>4, <1>5 DEF ManagerStep

\* An object becomes Connecting in ConnectToHost only.
LEMMA ConnectUsedStep == ASSUME TypeInv, Flow, Next PROVE ConnectUsed'
  <1>0. /\ status \in [Sockets -> StatusKinds]
        /\ ConnectUsed
    BY DEF Flow, TypeInv, TypeOK, ObjectTypeOK
  <1>1. CASE UNCHANGED status
    BY <1>0, <1>1 DEF ConnectUsed
  <1>2. ASSUME NEW s, NEW v, SetStatus(s, v), v = "Connecting" => "connect" \in Usage
        PROVE  ConnectUsed'
    BY <1>0, <1>2 DEF SetStatus, ConnectUsed
  <1>3. ASSUME NEW t \in Threads, SocketStep(t) PROVE ConnectUsed'
    BY <1>1, <1>2, <1>3
    DEF SocketStep, object, Close, CloseMark, CloseFd, SetClosed, DropFd, Accepting,
        AcceptAdd, AcceptMark, onConnected, onReceiving, Recv, AfterRecv, Callback, Send,
        SendLoop, SendFile, ResumeSendFile, SendFileLoop, ConnectSocket, ConnectHost,
        ConnectAdd
  <1>4. ASSUME NEW t \in Threads, ManagerStep(t) PROVE ConnectUsed'
    BY <1>1, <1>2, <1>4
    DEF ManagerStep, object, _ParseEvents, RearmGet, ModifySocket, CloseEvent, RemoveLock,
        RemoveSocket, RemoveUnlock, AcceptLock, OnAccepting, AcceptCallback, DenyCheck,
        ListenRearm
  <1>5. ASSUME NEW t \in Apps, AppStep(t) PROVE ConnectUsed'
    BY <1>1, <1>2, <1>5 DEF AppStep, object, ConnectToHost, AppClose
  <1> QED
    BY <1>1, <1>3, <1>4, <1>5
    DEF Next, object, StartListen, StartWorker, Wait, EpollWait, AppFinish, Peer

\* Every step keeps the flow of the threads.
LEMMA FlowStep ==
  ASSUME NoTrespass, TypeInv, ConnectFinishes, Flow, Next
  PROVE  Flow'
  <1>0. /\ ConnectUsed'
        /\ \A t \in Threads : ThreadFlow(t)
    BY ConnectUsedStep DEF Flow
  <1> USE DEF ThreadFlow, AppFlow, AcceptFlow, ShutdownFlow, ConnectFlow, OnAcceptPath
  <1>1. ASSUME NEW t \in Threads, ThreadFlow(t)', Mine(t) PROVE Flow'
    BY <1>0, <1>1 DEF Flow, Mine, Same
  <1>2. ASSUME UNCHANGED <<pc, ret, shut, lsn>> PROVE Flow'
    BY <1>0, <1>2 DEF Flow
  <1> USE DEF Threads, Goto, Mine, Same, AcceptPlaces, AcceptReturns, AcceptCalls, ListenPlaces,
          SendPlaces, ConnectPlaces, ClosePlaces
  <1>3. /\ pc \in [Threads -> Places]
        /\ lsn \in [Threads -> Listeners \cup {None}]
        /\ ret \in [Threads -> {"finish", "rearmGet", "acceptAdd", "denyCheck"}]
        /\ shut \in [Threads -> BOOLEAN]
    BY DEF TypeInv, TypeOK, ThreadTypeOK
  <1>4. ASSUME NEW t \in Workers, StartWorker(t) PROVE Flow'
    BY <1>0, <1>1, <1>3, <1>4, ThreadAssumption DEF StartWorker, local, manager
  <1>5. ASSUME NEW t \in Workers, NEW f \in Fds, EpollWait(t, f) PROVE Flow'
    BY <1>0, <1>1, <1>3, <1>5, ThreadAssumption DEF EpollWait
  <1>6. ASSUME NEW t \in Apps, AppStep(t) PROVE Flow'
    BY <1>0, <1>1, <1>3, <1>6 DEF AppStep, ConnectToHost, AppClose, NoTrespass, manager
  <1>7. ASSUME NEW t \in Apps, AppFinish(t) PROVE Flow'
    BY <1>0, <1>1, <1>3, <1>7 DEF AppFinish, Forget, manager
  <1>8. ASSUME NEW t \in Threads, SocketStep(t) \/ ManagerStep(t) PROVE Flow'
    BY <1>1, <1>8, SocketStepFlow, ManagerStepFlow
  <1> HIDE DEF ThreadFlow, AppFlow, AcceptFlow, ShutdownFlow, ConnectFlow, OnAcceptPath,
          Threads, Goto, Mine, Same, AcceptPlaces, AcceptReturns, AcceptCalls,
          ListenPlaces, SendPlaces, ConnectPlaces, ClosePlaces
  <1> QED
    BY <1>2, <1>4, <1>5, <1>6, <1>7, <1>8 DEF Next, Wait, StartListen, Peer, local, manager

\* A method of clsTCPSocket enters the mutex only through RemoveLock.
LEMMA SocketStepMutex ==
  ASSUME TypeInv, NEW t \in Threads, SocketStep(t)
  PROVE  UNCHANGED lock /\ (InMutex(t)' => InMutex(t))
  <1>0. /\ pc \in [Threads -> Places]
        /\ ret \in [Threads -> {"finish", "rearmGet", "acceptAdd", "denyCheck"}]
        /\ shut \in [Threads -> BOOLEAN]
    BY DEF TypeInv, TypeOK, ThreadTypeOK
  <1> USE DEF SocketStep, manager, local, Goto, Return, InMutex, OnAcceptPath, AcceptPlaces,
          AcceptReturns, ListenPlaces
  <1>1. CASE Close(t) \/ CloseMark(t) \/ CloseFd(t) \/ SetClosed(t)
    BY <1>0, <1>1 DEF Close, CloseMark, CloseFd, SetClosed
  <1>2. CASE DropFd(t)
    BY <1>0, <1>2 DEF DropFd
  <1>3. CASE Accepting(t) \/ AcceptAdd(t) \/ AcceptMark(t)
    BY <1>0, <1>3 DEF Accepting, AcceptAdd, AcceptMark
  <1>4. CASE onConnected(t) \/ onReceiving(t) \/ Recv(t) \/ AfterRecv(t)
    BY <1>0, <1>4 DEF onConnected, onReceiving, Recv, AfterRecv
  <1>5. CASE Callback(t) \/ Send(t) \/ SendLoop(t)
    BY <1>0, <1>5 DEF Callback, Send, SendLoop
  <1>6. CASE SendFile(t) \/ ResumeSendFile(t) \/ SendFileLoop(t)
    BY <1>0, <1>6 DEF SendFile, ResumeSendFile, SendFileLoop
  <1>7. CASE ConnectSocket(t) \/ ConnectHost(t) \/ ConnectAdd(t)
    BY <1>0, <1>7 DEF ConnectSocket, ConnectHost, ConnectAdd
  <1> QED BY <1>1, <1>2, <1>3, <1>4, <1>5, <1>6, <1>7

\* The manager takes the mutex when nobody has it, and whoever gives it back is out.
LEMMA ManagerStepMutex ==
  ASSUME TypeInv, Flow, NEW t \in Threads, ManagerStep(t)
  PROVE  \/ UNCHANGED lock /\ (InMutex(t)' => InMutex(t))
         \/ lock = None /\ lock' = t
         \/ lock' = None /\ InMutex(t) /\ ~InMutex(t)'
  <1>0. /\ pc \in [Threads -> Places]
        /\ ret \in [Threads -> {"finish", "rearmGet", "acceptAdd", "denyCheck"}]
        /\ shut \in [Threads -> BOOLEAN]
        /\ AcceptFlow(t)
    BY DEF TypeInv, TypeOK, ThreadTypeOK, Flow, ThreadFlow
  <1> USE DEF manager, local, Goto, Return, InMutex, OnAcceptPath, AcceptPlaces,
          AcceptReturns, ListenPlaces
  <1>1. CASE _ParseEvents(t) \/ RearmGet(t) \/ ModifySocket(t)
    BY <1>0, <1>1 DEF _ParseEvents, RearmGet, ModifySocket
  <1>2. CASE CloseEvent(t)
    BY <1>0, <1>2 DEF CloseEvent, Forget
  <1>3. CASE RemoveLock(t) \/ RemoveSocket(t) \/ AcceptLock(t)
    BY <1>0, <1>3 DEF RemoveLock, RemoveSocket, AcceptLock
  <1>4. CASE RemoveUnlock(t)
    <2>1. ret[t] \notin AcceptReturns
      BY <1>0, <1>4 DEF AcceptFlow, RemoveUnlock, AcceptCalls, SendPlaces
    <2> QED BY <1>0, <1>4, <2>1 DEF RemoveUnlock
  <1>5. CASE OnAccepting(t) \/ AcceptCallback(t) \/ DenyCheck(t)
    BY <1>0, <1>5 DEF OnAccepting, AcceptCallback, DenyCheck
  <1>6. CASE ListenRearm(t)
    BY <1>0, <1>6 DEF ListenRearm, Forget
  <1> QED BY <1>1, <1>2, <1>3, <1>4, <1>5, <1>6 DEF ManagerStep

\* Every step keeps the mutex: one thread at most is between lock and unlock.
LEMMA MutexStep ==
  ASSUME NoTrespass, TypeInv, ConnectFinishes, Flow, Mutex, Next
  PROVE  Mutex'
  <1>0. None \notin Threads
    BY ThreadAssumption DEF Threads
  <1>1. ASSUME NEW t \in Threads, Mine(t),
               \/ UNCHANGED lock /\ (InMutex(t)' => InMutex(t))
               \/ lock = None /\ lock' = t
               \/ lock' = None /\ InMutex(t) /\ ~InMutex(t)'
        PROVE  Mutex'
    <2>1. \A u \in Threads : u # t => (InMutex(u)' <=> InMutex(u))
      BY <1>1 DEF Mine, Same, InMutex, OnAcceptPath
    <2> QED BY <1>0, <1>1, <2>1 DEF Mutex
  <1>2. ASSUME UNCHANGED <<pc, ret, shut, lock>> PROVE Mutex'
    BY <1>2 DEF Mutex, InMutex, OnAcceptPath
  <1>3. ASSUME NEW t \in Threads, SocketStep(t) \/ ManagerStep(t) PROVE Mutex'
    BY <1>1, <1>3, SocketStepFlow, ManagerStepFlow, SocketStepMutex, ManagerStepMutex
  <1>4. /\ pc \in [Threads -> Places]
        /\ ret \in [Threads -> {"finish", "rearmGet", "acceptAdd", "denyCheck"}]
        /\ lsn \in [Threads -> Listeners \cup {None}]
        /\ shut \in [Threads -> BOOLEAN]
    BY DEF TypeInv, TypeOK, ThreadTypeOK
  <1> USE <1>4 DEF Threads, Goto, InMutex, OnAcceptPath, AcceptPlaces, AcceptReturns,
          ListenPlaces, Mine, Same, manager, local
  <1>5. ASSUME NEW t \in Workers, StartWorker(t) PROVE Mutex'
    BY <1>1, <1>5 DEF StartWorker
  <1>6. ASSUME NEW t \in Workers, NEW f \in Fds, EpollWait(t, f) PROVE Mutex'
    BY <1>1, <1>6 DEF EpollWait
  <1>7. ASSUME NEW t \in Apps, AppStep(t) \/ AppFinish(t) PROVE Mutex'
    BY <1>1, <1>7 DEF AppStep, ConnectToHost, AppClose, AppFinish, Forget
  <1> HIDE <1>4 DEF Threads, Goto, InMutex, OnAcceptPath, AcceptPlaces, AcceptReturns,
          ListenPlaces, Mine, Same
  <1> QED
    BY <1>2, <1>3, <1>5, <1>6, <1>7 DEF Next, Wait, StartListen, Peer

-----------------------------------------------------------------------------
(***************************************************************************)
(* The descriptors.                                                        *)
(***************************************************************************)
\* The object has an open descriptor, and CloseFinal is not through with it.
Held(s) == alive[s] /\ sock[s] \in Fds /\ ~FdGone(s)
Holds(s, f) == Held(s) /\ sock[s] = f

\* A descriptor that accept() has returned and no object has taken.
Unclaimed(f) ==
  f \in Fds /\ use[f] = "conn" /\ mark[f] # "taken" /\ \A s \in Sockets : ~Holds(s, f)
Claimed(f) == mark[f] = "taken" /\ \E s \in Sockets : Holds(s, f)

\* What an object holds is a connection, and nobody else's.
Own ==
  \A s \in Sockets : Held(s) =>
    /\ use[sock[s]] = "conn" /\ status[s] # "Closed"
    /\ \A r \in Sockets : Holds(r, sock[s]) => r = s

\* An event goes to the object that holds the descriptor.
Routed == \A f \in Fds : ptr[f] \in Sockets => Holds(ptr[f], f)

Listening ==
  /\ \A f \in Fds : ptr[f] \in Listeners => use[f] = "listen"
  /\ \A l \in Listeners : lsock[l] \in Fds => use[lsock[l]] = "listen"

\* The new socket of the accept path is unclaimed, then held by the new object or
\* closed again; when deny looks at it, the mark tells which.
AcceptedFd(t) ==
  /\ pc[t] = "acceptCallback" => Unclaimed(fd[t])
  /\ pc[t] = "denyCheck" =>
       fd[t] \in Fds /\ (use[fd[t]] = "free" \/ Unclaimed(fd[t]) \/ Claimed(fd[t]))
  /\ HasAccepted(t) =>
       /\ fd[t] \in Fds
       /\ use[fd[t]] = "free" \/ Holds(cur[t], fd[t])
       /\ ret[t] = "denyCheck" /\ pc[t] \in {"callback"} \cup SendPlaces =>
            use[fd[t]] = "free" \/ mark[fd[t]] = "taken"

\* Nobody else has closed the connection of the accept path while it is its alone.
AcceptOpen(t) ==
  /\ HasAccepted(t)
  /\ pc[t] \notin {"closeFd", "setClosed"}
  /\ pc[t] = "acceptMark" => UsedAfterwards
  => status[cur[t]] # "Closing"

\* The number a thread has read from its object still is the object's, and an object
\* that is being connected has none.
LocalFd(t) ==
  /\ pc[t] = "rearmMod" => fd[t] = sock[cur[t]]
  /\ pc[t] = "connectSocket" => sock[cur[t]] \in NoFd /\ status[cur[t]] # "Closed"

PathFd == \A t \in Threads : AcceptedFd(t) /\ AcceptOpen(t) /\ LocalFd(t)

Leak ==
  \A f \in Fds : use[f] = "conn" =>
    \/ \E s \in Sockets : Holds(s, f)
    \/ \E t \in Threads : fd[t] = f /\ pc[t] \in {"acceptCallback", "denyCheck"}

Descriptors == Own /\ Routed /\ Listening /\ PathFd /\ Leak
FdInv == Flow /\ Mutex /\ Descriptors

-----------------------------------------------------------------------------
\* Initially no number is bound to anything.
LEMMA InitFdInv == Init => FdInv
  <1> SUFFICES ASSUME Init PROVE FdInv
    OBVIOUS
  <1>1. Own /\ Routed /\ Listening /\ Leak
    BY KernelAssumption
    DEF Init, KernelInit, Own, Routed, Listening, Leak, Held, Holds
  <1>2. PathFd
    BY DEF Init, Threads, PathFd, AcceptedFd, AcceptOpen, LocalFd, HasAccepted, OnAcceptPath,
           AcceptPlaces, AcceptReturns, ListenPlaces
  <1> QED BY <1>1, <1>2, InitFlow DEF FdInv, Descriptors

\* The object in a thread's hands holds its descriptor until close() was called.
LEMMA HandlerHolds ==
  ASSUME TypeInv, Alone, UnbornUnused, NEW t \in Threads,
         pc[t] \in HandlerPlaces \ {"setClosed", "dropFd"}, sock[cur[t]] \in Fds
  PROVE  Holds(cur[t], sock[cur[t]])
  <1>1. cur[t] \in Sockets /\ alive[cur[t]]
    BY DEF TypeInv, TypeOK, ObjectTypeOK, HasObject, HandlerPlaces, UnbornUnused, Uses
  <1>2. Handles(t, cur[t])
    BY DEF Handles
  <1>3. ~FdGone(cur[t])
    <2> SUFFICES ASSUME NEW u \in Threads, cur[u] = cur[t], pc[u] \in {"setClosed", "dropFd"}
                 PROVE  FALSE
      BY DEF FdGone
    <2>1. Handles(u, cur[t])
      BY DEF Handles, HandlerPlaces, UsePlaces, Places, ClosePlaces
    <2> QED BY <1>1, <1>2, <2>1 DEF Alone
  <1> QED BY <1>1, <1>3 DEF Held, Holds

\* On the accept path the object is the thread's alone until AcceptAdd.
LEMMA AcceptedObject ==
  ASSUME TypeInv, Flow, NEW t \in Threads, HasAccepted(t)
  PROVE  pc[t] \in HandlerPlaces \cup {"acceptMark"} /\ cur[t] \in Sockets
  <1>1. AcceptFlow(t) /\ (pc[t] \in UsePlaces => cur[t] \in Sockets)
    BY DEF Flow, ThreadFlow, TypeInv, HasObject
  <1> QED
    BY <1>1
    DEF AcceptFlow, HasAccepted, OnAcceptPath, AcceptPlaces, AcceptReturns, AcceptCalls,
        HandlerPlaces, UsePlaces, Places, WorkerPlaces, ListenPlaces, SendPlaces, ClosePlaces

\* A thread that is not on the accept path takes nothing from the one that is.
LEMMA OneAcceptor ==
  ASSUME Mutex, NEW t \in Threads, NEW u \in Threads, OnAcceptPath(t), OnAcceptPath(u)
  PROVE  t = u
  BY DEF Mutex, InMutex

\* The other threads' own variables.
Others(t) ==
  \A u \in Threads : u # t =>
    pc'[u] = pc[u] /\ ret'[u] = ret[u] /\ fd'[u] = fd[u] /\ cur'[u] = cur[u]
HoldsKept == \A s \in Sockets : \A f \in Fds : Holds(s, f)' <=> Holds(s, f)

\* What the other threads know of their objects stays true when a thread changes only
\* the object it handles.
Undisturbed(t) == \A u \in Threads : u # t => LocalFd(u)' /\ AcceptOpen(u)'

LEMMA OwnObjectOnly ==
  ASSUME TypeInv, Alone, Flow, PathFd, NEW t \in Threads, Others(t),
         pc[t] \in HandlerPlaces \/ (UsedAfterwards /\ pc[t] \in UsePlaces),
         \A s \in Sockets : s # cur[t] => status'[s] = status[s] /\ sock'[s] = sock[s]
  PROVE  Undisturbed(t)
  <1> SUFFICES ASSUME NEW u \in Threads, u # t PROVE LocalFd(u)' /\ AcceptOpen(u)'
    BY DEF Undisturbed
  <1>1. LocalFd(u) /\ AcceptOpen(u) /\ (pc[u] \in UsePlaces => cur[u] \in Sockets)
    BY DEF PathFd, TypeInv, HasObject
  <1>2. pc'[u] = pc[u] /\ ret'[u] = ret[u] /\ fd'[u] = fd[u] /\ cur'[u] = cur[u]
    BY DEF Others
  <1>3. /\ pc[u] \in HandlerPlaces => cur[u] \in Sockets /\ cur[u] # cur[t]
        /\ pc[u] = "acceptMark" /\ UsedAfterwards => cur[u] # cur[t]
    BY <1>1 DEF Alone, Handles, Uses, HandlerPlaces, UsePlaces, Places, ListenPlaces
  <1>4. LocalFd(u)'
    BY <1>1, <1>2, <1>3
    DEF LocalFd, HandlerPlaces, UsePlaces, Places, WorkerPlaces, ConnectPlaces
  <1>5. AcceptOpen(u)'
    BY <1>1, <1>2, <1>3, AcceptedObject DEF AcceptOpen, HasAccepted, OnAcceptPath
  <1> QED BY <1>4, <1>5

LEMMA NoObjectChanged ==
  ASSUME PathFd, NEW t \in Threads, Others(t), UNCHANGED <<status, sock>>
  PROVE  Undisturbed(t)
  BY DEF PathFd, Others, Undisturbed, LocalFd, AcceptOpen, HasAccepted, OnAcceptPath

\* A registration is made for the object that holds the number, or for a listener.
RegistersOwner ==
  \A f \in Fds :
    \/ ptr'[f] \in {ptr[f], None}
    \/ ptr'[f] \in Sockets /\ Holds(ptr'[f], f)
    \/ ptr'[f] \in Listeners /\ use[f] = "listen"

\* A step that changes no holder and binds no number keeps the descriptors in order.
LEMMA KeepStep ==
  ASSUME TypeInv, FdInv, NEW t \in Threads, Others(t), Undisturbed(t),
         HoldsKept, RegistersOwner, UNCHANGED <<use, lsock>>,
         UNCHANGED mark \/ OnAcceptPath(t),
         \A s \in Sockets : Held(s) => status'[s] # "Closed",
         pc[t] \in {"acceptCallback", "denyCheck"} =>
           \/ pc'[t] = "denyCheck" /\ fd'[t] = fd[t]
           \/ use[fd[t]] = "free" \/ Claimed(fd[t]),
         AcceptedFd(t)', AcceptOpen(t)', LocalFd(t)'
  PROVE  Descriptors'
  <1>0. Flow /\ Mutex /\ Own /\ Routed /\ Listening /\ PathFd /\ Leak
    BY DEF FdInv, Descriptors
  <1>1. \A s \in Sockets : Held(s)' => Held(s) /\ sock'[s] = sock[s]
    BY DEF HoldsKept, Holds, Held
  <1>2. Own'
    <2>1. ASSUME NEW s \in Sockets, Held(s)' PROVE use'[sock'[s]] = "conn" /\ status'[s] # "Closed"
      BY <1>0, <1>1, <2>1 DEF Own
    <2>2. ASSUME NEW s \in Sockets, NEW r \in Sockets, Held(s)', Held(r)', sock'[r] = sock'[s]
          PROVE  r = s
      BY <1>0, <1>1, <2>2 DEF Own, Holds
    <2> QED BY <2>1, <2>2 DEF Own, Holds
  <1>3. Routed'
    BY <1>0, KernelAssumption DEF Routed, RegistersOwner, HoldsKept
  <1>4. Listening'
    BY <1>0, KernelAssumption DEF Listening, RegistersOwner
  <1>5. \A u \in Threads : AcceptedFd(u)'
    <2> SUFFICES ASSUME NEW u \in Threads, u # t PROVE AcceptedFd(u)'
      OBVIOUS
    <2>1. AcceptedFd(u)
      BY <1>0 DEF PathFd
    <2>2. pc'[u] = pc[u] /\ ret'[u] = ret[u] /\ fd'[u] = fd[u] /\ cur'[u] = cur[u]
      BY DEF Others
    <2>3. CASE ~OnAcceptPath(u)
      BY <2>2, <2>3
      DEF AcceptedFd, HasAccepted, OnAcceptPath, AcceptPlaces, ListenPlaces
    <2>4. CASE OnAcceptPath(u)
      <3>1. UNCHANGED mark
        BY <1>0, <2>4, OneAcceptor
      <3>2. Unclaimed(fd[u])' <=> Unclaimed(fd[u])
        BY <2>2, <3>1 DEF Unclaimed, HoldsKept, Holds
      <3>3. fd[u] \in Fds => (Claimed(fd[u])' <=> Claimed(fd[u]))
        BY <2>2, <3>1 DEF Claimed, HoldsKept, Holds
      <3>4. HasAccepted(u) => cur[u] \in Sockets
        BY <1>0, AcceptedObject
      <3>5. cur[u] \in Sockets /\ fd[u] \in Fds /\ Holds(cur[u], fd[u]) => Holds(cur[u], fd[u])'
        BY <2>2 DEF HoldsKept, Holds, Held, FdGone
      <3> QED
        BY <2>1, <2>2, <3>1, <3>2, <3>3, <3>4, <3>5
        DEF AcceptedFd, HasAccepted, OnAcceptPath
    <2> QED BY <2>3, <2>4
  <1>6. PathFd'
    BY <1>5 DEF PathFd, Undisturbed
  <1>7. Leak'
    BY <1>0 DEF Leak, HoldsKept, Others, Claimed
  <1> QED BY <1>2, <1>3, <1>4, <1>6, <1>7 DEF Descriptors

\* Where CloseFinal has closed the descriptor and not yet said so.
GonePlaces == {"setClosed", "dropFd"}

\* Objects that keep their descriptor keep it whatever else happens to them.
LEMMA HoldsSame ==
  ASSUME NEW t \in Threads, Others(t), UNCHANGED <<alive, sock>>,
         pc[t] \in GonePlaces <=> pc'[t] \in GonePlaces,
         pc[t] \in GonePlaces => cur'[t] = cur[t]
  PROVE  HoldsKept
  <1>1. ASSUME NEW s \in Sockets PROVE FdGone(s)' <=> FdGone(s)
    BY DEF FdGone, Others, GonePlaces
  <1> QED BY <1>1 DEF HoldsKept, Holds, Held

\* The calls between Accept() and the return of the accept callback keep the new
\* socket; the way to deny leads over a closed or a marked one.
MarkedPlaces == {"callback"} \cup SendPlaces

LEMMA AcceptorKeeps ==
  ASSUME TypeInv, FdInv, NEW t \in Threads, HoldsKept, UNCHANGED <<use, mark, cur, fd>>,
         pc[t] \in UsePlaces, pc'[t] # "acceptCallback",
         OnAcceptPath(t)' => OnAcceptPath(t),
         pc'[t] = "denyCheck" =>
           \/ ~Holds(cur[t], fd[t])
           \/ ret[t] = "denyCheck" /\ pc[t] \in MarkedPlaces,
         ret'[t] = "denyCheck" /\ pc'[t] \in MarkedPlaces =>
           ret[t] = "denyCheck" /\ pc[t] \in MarkedPlaces
  PROVE  AcceptedFd(t)'
  <1>1. CASE ~OnAcceptPath(t)
    BY <1>1 DEF AcceptedFd, HasAccepted, OnAcceptPath, AcceptPlaces, ListenPlaces
  <1>2. CASE OnAcceptPath(t)
    <2>1. HasAccepted(t)
      BY <1>2 DEF HasAccepted, UsePlaces
    <2>2. AcceptedFd(t) /\ cur[t] \in Sockets /\ fd[t] \in Fds
      BY <2>1, AcceptedObject DEF FdInv, Descriptors, PathFd, AcceptedFd
    <2>3. Holds(cur[t], fd[t])' <=> Holds(cur[t], fd[t])
      BY <2>2 DEF HoldsKept, Holds, Held, FdGone
    <2>4. Holds(cur[t], fd[t]) /\ mark[fd[t]] = "taken" => Claimed(fd[t])'
      BY <2>2 DEF HoldsKept, Holds, Claimed
    <2> QED
      BY <2>1, <2>2, <2>3, <2>4 DEF AcceptedFd, MarkedPlaces
  <1> QED BY <1>1, <1>2

\* The steps inside the methods of clsTCPSocket that bind and close no number.
QuietSocketStep(t) ==
  \/ Close(t) \/ CloseMark(t) \/ Accepting(t) \/ AcceptAdd(t)
  \/ onConnected(t) \/ onReceiving(t) \/ Recv(t) \/ AfterRecv(t)
  \/ Callback(t) \/ Send(t) \/ SendLoop(t)
  \/ SendFile(t) \/ ResumeSendFile(t) \/ SendFileLoop(t)
  \/ ConnectHost(t) \/ ConnectAdd(t)

LEMMA QuietSocketPlaces ==
  ASSUME TypeInv, FdInv, ConnectFinishes, NEW t \in Threads, QuietSocketStep(t)
  PROVE  /\ UNCHANGED <<use, mark, alive, sock>>
         /\ pc[t] \in HandlerPlaces \ GonePlaces
         /\ pc'[t] \notin GonePlaces \cup {"acceptCallback", "rearmMod", "connectSocket"}
  <1>0. /\ pc \in [Threads -> Places]
        /\ ret[t] \in {"finish", "rearmGet", "acceptAdd", "denyCheck"}
    BY DEF TypeInv, TypeOK, ThreadTypeOK
  <1> USE DEF Goto, Return, HandlerPlaces, UsePlaces, Places, WorkerPlaces, ListenPlaces,
          SendPlaces, ClosePlaces, ConnectPlaces, GonePlaces, object, kernel, fdt,
          SetWire, SetFull
  <1>1. CASE Close(t) \/ CloseMark(t) \/ Accepting(t) \/ AcceptAdd(t)
    BY <1>0, <1>1 DEF Close, CloseMark, Accepting, AcceptAdd
  <1>2. CASE onConnected(t) \/ onReceiving(t) \/ Recv(t) \/ AfterRecv(t)
    BY <1>0, <1>2 DEF onConnected, onReceiving, Recv, AfterRecv
  <1>3. CASE Callback(t) \/ Send(t) \/ SendLoop(t)
    BY <1>0, <1>3 DEF Callback, Send, SendLoop
  <1>4. CASE SendFile(t) \/ ResumeSendFile(t) \/ SendFileLoop(t)
    BY <1>0, <1>4 DEF SendFile, ResumeSendFile, SendFileLoop
  <1>5. CASE ConnectHost(t) \/ ConnectAdd(t)
    BY <1>0, <1>5 DEF ConnectHost, ConnectAdd
  <1> QED BY <1>1, <1>2, <1>3, <1>4, <1>5 DEF QuietSocketStep

\* They set Status of the thread's own object; Closed only when it has no descriptor.
LEMMA QuietSocketStatus ==
  ASSUME TypeInv, FdInv, NEW t \in Threads, QuietSocketStep(t)
  PROVE  /\ \A s \in Sockets : s # cur[t] => status'[s] = status[s]
         /\ \A s \in Sockets : Held(s) => status'[s] # "Closed"
         /\ HasAccepted(t) /\ pc'[t] # "closeFd" => status'[cur[t]] # "Closing"
  <1>0. /\ status \in [Sockets -> StatusKinds]
        /\ NoFd \cap Fds = {}
        /\ \A s \in Sockets : Held(s) => status[s] # "Closed" /\ sock[s] \in Fds
        /\ pc \in [Threads -> Places]
        /\ HasAccepted(t) => cur[t] \in Sockets
    BY KernelAssumption, AcceptedObject
    DEF TypeInv, TypeOK, ObjectTypeOK, ThreadTypeOK, NoFd, FdInv, Descriptors, Own, Held
  <1>1. AcceptOpen(t) /\ AcceptFlow(t) /\ ShutdownFlow(t)
    BY DEF FdInv, Descriptors, PathFd, Flow, ThreadFlow
  <1>2. CASE CloseMark(t)
    <2>1. HasAccepted(t) => shut[t] /\ ret[t] \in AcceptReturns
      BY <1>1, <1>2
      DEF CloseMark, HasAccepted, OnAcceptPath, AcceptPlaces, ListenPlaces, ShutdownFlow
    <2> QED BY <1>0, <1>1, <1>2, <2>1 DEF CloseMark, SetStatus, AcceptOpen, Goto
  <1>3. CASE Accepting(t) \/ onConnected(t)
    BY <1>0, <1>1, <1>3 DEF Accepting, onConnected, SetStatus, AcceptOpen, Goto
  <1>4. CASE UNCHANGED status /\ pc[t] \notin {"acceptMark", "closeFd", "setClosed"}
    BY <1>0, <1>1, <1>4 DEF AcceptOpen
  <1> QED
    BY <1>2, <1>3, <1>4
    DEF QuietSocketStep, object, Close, AcceptAdd, onReceiving, Recv, AfterRecv, Callback,
        Send, SendLoop, SendFile, ResumeSendFile, SendFileLoop, ConnectHost, ConnectAdd

\* They stay on the accept path or off it, and reach deny with a closed socket or
\* from the callback that runs after the socket was marked.
LEMMA QuietSocketPath ==
  ASSUME TypeInv, FdInv, ConnectFinishes, NEW t \in Threads, QuietSocketStep(t)
  PROVE  /\ OnAcceptPath(t)' => OnAcceptPath(t)
         /\ pc'[t] = "denyCheck" =>
              \/ ~Holds(cur[t], fd[t])
              \/ ret[t] = "denyCheck" /\ pc[t] \in MarkedPlaces
         /\ ret'[t] = "denyCheck" /\ pc'[t] \in MarkedPlaces =>
              ret[t] = "denyCheck" /\ pc[t] \in MarkedPlaces
  <1>0. /\ pc \in [Threads -> Places]
        /\ ret \in [Threads -> {"finish", "rearmGet", "acceptAdd", "denyCheck"}]
        /\ AcceptFlow(t) /\ AcceptOpen(t)
    BY DEF TypeInv, TypeOK, ThreadTypeOK, FdInv, Descriptors, PathFd, Flow, ThreadFlow
  <1> USE DEF Goto, Return, OnAcceptPath, AcceptPlaces, AcceptReturns, ListenPlaces,
          MarkedPlaces, SendPlaces, local
  <1>1. CASE Close(t) \/ CloseMark(t)
    <2>1. pc[t] \in {"close", "closing"} /\ UNCHANGED <<ret, cur, fd>>
      BY <1>1 DEF Close, CloseMark
    <2>2. ret[t] \in AcceptReturns => HasAccepted(t)
      BY <2>1 DEF HasAccepted
    <2>3. cur[t] \in Sockets /\ Holds(cur[t], fd[t]) =>
            status[cur[t]] # "Closed" /\ sock[cur[t]] \notin NoFd
      BY KernelAssumption DEF FdInv, Descriptors, Own, Holds, Held, NoFd
    <2>4. cur[t] \in Sockets
      BY <2>1 DEF TypeInv, HasObject, UsePlaces, Places, ClosePlaces
    <2>5. CASE Close(t)
      BY <1>0, <2>1, <2>2, <2>3, <2>4, <2>5 DEF Close, AcceptOpen
    <2>6. CASE CloseMark(t)
      BY <1>0, <2>1, <2>2, <2>3, <2>4, <2>6 DEF CloseMark
    <2> QED BY <1>1, <2>5, <2>6
  <1>2. CASE Accepting(t) \/ AcceptAdd(t)
    BY <1>0, <1>2 DEF Accepting, AcceptAdd
  <1>3. CASE onConnected(t) \/ onReceiving(t) \/ Recv(t) \/ AfterRecv(t)
    BY <1>0, <1>3 DEF onConnected, onReceiving, Recv, AfterRecv, AcceptFlow, AcceptCalls
  <1>4. CASE Callback(t) \/ Send(t) \/ SendLoop(t)
    BY <1>0, <1>4 DEF Callback, Send, SendLoop
  <1>5. CASE SendFile(t) \/ ResumeSendFile(t) \/ SendFileLoop(t)
    BY <1>0, <1>5 DEF SendFile, ResumeSendFile, SendFileLoop
  <1>6. CASE ConnectHost(t) \/ ConnectAdd(t)
    BY <1>0, <1>6 DEF ConnectHost, ConnectAdd, ConnectFinishes, ConnectPlaces
  <1> QED BY <1>1, <1>2, <1>3, <1>4, <1>5, <1>6 DEF QuietSocketStep

\* What the step lemmas below assume of a state.
Fenced == TypeInv /\ Alone /\ UnbornUnused /\ ConnectFinishes /\ FdInv

\* A step of a method of clsTCPSocket leaves the other threads alone.
LEMMA SocketStepOthers ==
  ASSUME NoTrespass, Fenced, NEW t \in Threads, SocketStep(t)
  PROVE  Others(t) /\ UNCHANGED <<cur, fd, lsock>>
  BY SocketStepFlow, SocketStepPlace
  DEF Fenced, FdInv, Mine, Same, Others, SocketStep, manager

\* What a thread arms is the connection it handles.
LEMMA ArmsOwner ==
  ASSUME Fenced, NEW t \in Threads, pc[t] \in HandlerPlaces \ GonePlaces,
         NEW f \in Fds, NEW m, f = sock[cur[t]], Arm(f, cur[t], m)
  PROVE  RegistersOwner
  <1>1. Holds(cur[t], f) /\ cur[t] \in Sockets
    BY HandlerHolds DEF Fenced, GonePlaces, TypeInv, HasObject, HandlerPlaces
  <1>2. ptr \in [Fds -> Sockets \cup Listeners \cup {None}]
    BY DEF Fenced, TypeInv, TypeOK, KernelTypeOK, RegTypeOK
  <1> QED BY <1>1, <1>2 DEF Arm, RegistersOwner

LEMMA QuietSocketKeeps ==
  ASSUME NoTrespass, Fenced, NEW t \in Threads, SocketStep(t), QuietSocketStep(t)
  PROVE  Descriptors'
  <1>0. TypeInv /\ Alone /\ FdInv /\ Flow /\ PathFd /\ ConnectFinishes
    BY DEF Fenced, FdInv, Descriptors
  <1>1. /\ Others(t) /\ UNCHANGED <<cur, fd, lsock>>
        /\ UNCHANGED <<use, mark, alive, sock>>
        /\ pc[t] \in HandlerPlaces \ GonePlaces
        /\ pc'[t] \notin GonePlaces \cup {"acceptCallback", "rearmMod", "connectSocket"}
    BY <1>0, SocketStepOthers, QuietSocketPlaces
  <1>2. HoldsKept
    BY <1>1, HoldsSame
  <1>3. /\ \A s \in Sockets : s # cur[t] => status'[s] = status[s] /\ sock'[s] = sock[s]
        /\ \A s \in Sockets : Held(s) => status'[s] # "Closed"
        /\ HasAccepted(t) /\ pc'[t] # "closeFd" => status'[cur[t]] # "Closing"
    BY <1>0, <1>1, QuietSocketStatus
  <1>4. Undisturbed(t)
    BY <1>0, <1>1, <1>3, OwnObjectOnly
  <1>5. RegistersOwner
    <2>1. CASE UNCHANGED ptr
      BY <2>1 DEF RegistersOwner
    <2>2. CASE AcceptAdd(t) \/ ConnectAdd(t)
      <3>1. UNCHANGED ptr \/ (sock[cur[t]] \in Fds /\ \E m : Arm(sock[cur[t]], cur[t], m))
        BY <2>2 DEF AcceptAdd, ConnectAdd, EpollAdd, CanAdd, IsOpen, reg
      <3> QED BY <1>1, <2>1, <3>1, ArmsOwner
    <2> QED
      BY <2>1, <2>2
      DEF QuietSocketStep, kernel, reg, Close, CloseMark, Accepting, onConnected,
          onReceiving, Recv, AfterRecv, Callback, Send, SendLoop, SendFile,
          ResumeSendFile, SendFileLoop, ConnectHost
  <1>6. AcceptedFd(t)'
    BY <1>0, <1>1, <1>2, QuietSocketPath, AcceptorKeeps DEF HandlerPlaces
  <1>7. AcceptOpen(t)'
    <2>1. HasAccepted(t)' => HasAccepted(t)
      BY <1>0, <1>1, QuietSocketPath DEF HasAccepted, HandlerPlaces, UsePlaces
    <2> QED BY <1>1, <1>3, <2>1 DEF AcceptOpen, GonePlaces
  <1>8. LocalFd(t)'
    BY <1>1 DEF LocalFd
  <1>9. pc[t] \notin {"acceptCallback", "denyCheck"}
    BY <1>1 DEF HandlerPlaces, UsePlaces
  <1> QED BY <1>0, <1>1, <1>2, <1>3, <1>4, <1>5, <1>6, <1>7, <1>8, <1>9, KeepStep

LEMMA SetClosedKeeps ==
  ASSUME NoTrespass, Fenced, NEW t \in Threads, SocketStep(t), SetClosed(t)
  PROVE  Descriptors'
  <1>0. TypeInv /\ Alone /\ FdInv /\ Flow /\ PathFd
    BY DEF Fenced, FdInv, Descriptors
  <1>1. /\ Others(t) /\ UNCHANGED <<cur, fd, lsock, kernel, sock, alive, ret>>
        /\ SetStatus(cur[t], "Closed")
        /\ pc[t] = "setClosed" /\ pc'[t] = "dropFd"
    BY <1>0, GotoOne, SocketStepOthers DEF SetClosed, local
  <1>2. pc[t] \in HandlerPlaces /\ cur[t] \in Sockets
    BY <1>0, <1>1
    DEF TypeInv, HasObject, HandlerPlaces, UsePlaces, Places, ClosePlaces
  <1>3. HoldsKept
    BY <1>1, HoldsSame DEF GonePlaces
  <1>4. status' = [status EXCEPT ![cur[t]] = "Closed"] /\ status \in [Sockets -> StatusKinds]
    BY <1>0, <1>1 DEF SetStatus, TypeInv, TypeOK, ObjectTypeOK
  <1>5. \A s \in Sockets : Held(s) => status'[s] # "Closed"
    BY <1>0, <1>1, <1>4 DEF FdInv, Descriptors, Own, Held, FdGone
  <1>6. Undisturbed(t)
    BY <1>0, <1>1, <1>2, <1>4, OwnObjectOnly
  <1>7. UNCHANGED <<use, mark, ptr>> /\ RegistersOwner
    BY <1>1 DEF kernel, fdt, reg, RegistersOwner
  <1>8. AcceptedFd(t)'
    BY <1>0, <1>1, <1>2, <1>3, <1>7, AcceptorKeeps
    DEF HandlerPlaces, OnAcceptPath, AcceptPlaces, ListenPlaces, MarkedPlaces, SendPlaces
  <1>9. AcceptOpen(t)' /\ LocalFd(t)'
    BY <1>1, <1>2, <1>4 DEF AcceptOpen, LocalFd
  <1> QED BY <1>0, <1>1, <1>3, <1>5, <1>6, <1>7, <1>8, <1>9, KeepStep

\* DropFd forgets a number that is not the object's any more.
LEMMA DropFdKeeps ==
  ASSUME NoTrespass, Fenced, NEW t \in Threads, SocketStep(t), DropFd(t)
  PROVE  Descriptors'
  <1>0. TypeInv /\ Alone /\ FdInv /\ Flow /\ PathFd
    BY DEF Fenced, FdInv, Descriptors
  <1>1. /\ Others(t) /\ UNCHANGED <<cur, fd, lsock, kernel, status, alive, ret>>
        /\ sock' = [sock EXCEPT ![cur[t]] = Invalid]
        /\ pc[t] = "dropFd" /\ pc'[t] \in {ret[t], "removeUnlock"}
    <2>1. Goto(t, ret[t]) \/ Goto(t, "removeUnlock")
      BY DEF DropFd
    <2> QED BY <1>0, <2>1, GotoOne, SocketStepOthers DEF DropFd, local
  <1>2. pc[t] \in HandlerPlaces /\ cur[t] \in Sockets /\ FdGone(cur[t])
    BY <1>0, <1>1
    DEF TypeInv, HasObject, HandlerPlaces, UsePlaces, Places, ClosePlaces, FdGone
  <1>3. ret[t] \in {"finish", "rearmGet", "acceptAdd", "denyCheck"}
    BY <1>0 DEF TypeInv, TypeOK, ThreadTypeOK
  <1>4. sock \in [Sockets -> Fds \cup NoFd] /\ Invalid \notin Fds
    BY <1>0, KernelAssumption DEF TypeInv, TypeOK, ObjectTypeOK
  <1>5. HoldsKept
    <2>1. ASSUME NEW s \in Sockets, s # cur[t] PROVE FdGone(s)' <=> FdGone(s)
      BY <1>1, <2>1 DEF FdGone, Others
    <2>2. ASSUME NEW s \in Sockets, s # cur[t] PROVE Held(s)' <=> Held(s)
      BY <1>1, <1>4, <2>1, <2>2 DEF Held
    <2>3. ~Held(cur[t]) /\ sock'[cur[t]] \notin Fds
      BY <1>1, <1>2, <1>4 DEF Held
    <2> QED BY <1>1, <1>4, <2>2, <2>3 DEF HoldsKept, Holds
  <1>6. \A s \in Sockets : Held(s) => status'[s] # "Closed"
    BY <1>0, <1>1 DEF FdInv, Descriptors, Own
  <1>7. Undisturbed(t)
    BY <1>0, <1>1, <1>2, <1>4, OwnObjectOnly
  <1>8. UNCHANGED <<use, mark, ptr>> /\ RegistersOwner
    BY <1>1 DEF kernel, fdt, reg, RegistersOwner
  <1>9. AcceptedFd(t) /\ AcceptOpen(t) /\ ~Holds(cur[t], fd[t])
    BY <1>0, <1>2 DEF PathFd, Holds, Held
  <1>10. HasAccepted(t)' => HasAccepted(t)
    BY <1>1, <1>3
    DEF HasAccepted, OnAcceptPath, AcceptPlaces, AcceptReturns, ListenPlaces
  <1>11. AcceptedFd(t)'
    BY <1>1, <1>3, <1>8, <1>9, <1>10
    DEF AcceptedFd, HasAccepted, OnAcceptPath, AcceptReturns
  <1>12. AcceptOpen(t)' /\ LocalFd(t)'
    BY <1>1, <1>3, <1>9, <1>10 DEF AcceptOpen, LocalFd
  <1> QED BY <1>0, <1>1, <1>5, <1>6, <1>7, <1>8, <1>11, <1>12, KeepStep

\* CloseFinal closes a number that is the connection's own.
LEMMA CloseFdKeeps ==
  ASSUME NoTrespass, Fenced, NEW t \in Threads, SocketStep(t), CloseFd(t)
  PROVE  Descriptors'
  <1>0. /\ TypeInv /\ Alone /\ UnbornUnused /\ FdInv
        /\ Flow /\ Own /\ Routed /\ Listening /\ PathFd /\ Leak
    BY DEF Fenced, FdInv, Descriptors
  <1>1. /\ Others(t) /\ UNCHANGED <<cur, fd, lsock, status, sock, alive, ret>>
        /\ SysClose(sock[cur[t]])
        /\ pc[t] = "closeFd" /\ pc'[t] = "setClosed"
    BY <1>0, GotoOne, SocketStepOthers DEF CloseFd, object, local
  <1>2. pc[t] \in HandlerPlaces \ GonePlaces /\ cur[t] \in Sockets
    BY <1>0, <1>1
    DEF TypeInv, HasObject, HandlerPlaces, UsePlaces, Places, ClosePlaces, GonePlaces
  <1>3. Undisturbed(t)
    BY <1>0, <1>1, NoObjectChanged
  <1>4. AcceptOpen(t)' /\ LocalFd(t)'
    BY <1>1 DEF AcceptOpen, LocalFd
  <1>5. ASSUME NEW s \in Sockets, s # cur[t], NEW f \in Fds PROVE Holds(s, f)' <=> Holds(s, f)
    <2>1. FdGone(s)' <=> FdGone(s)
      BY <1>1, <1>5 DEF FdGone, Others
    <2> QED BY <1>1, <2>1 DEF Holds, Held
  <1>6. CASE sock[cur[t]] \notin Fds
    <2>1. UNCHANGED kernel
      BY <1>1, <1>6 DEF SysClose, IsOpen
    <2>2. HoldsKept
      BY <1>1, <1>5, <1>6 DEF HoldsKept, Holds, Held
    <2>3. UNCHANGED <<use, mark, ptr>> /\ RegistersOwner
      BY <2>1 DEF kernel, fdt, reg, RegistersOwner
    <2>4. AcceptedFd(t)'
      BY <1>0, <1>1, <1>2, <2>2, <2>3, AcceptorKeeps
      DEF HandlerPlaces, OnAcceptPath, AcceptPlaces, ListenPlaces, MarkedPlaces, SendPlaces
    <2>5. \A s \in Sockets : Held(s) => status'[s] # "Closed"
      BY <1>0, <1>1 DEF Own
    <2> QED BY <1>0, <1>1, <1>3, <1>4, <2>2, <2>3, <2>4, <2>5, KeepStep
  <1>7. ASSUME NEW f \in Fds, f = sock[cur[t]] PROVE Descriptors'
    <2>1. Holds(cur[t], f) /\ use[f] = "conn"
      BY <1>0, <1>2, <1>7, HandlerHolds DEF GonePlaces, Own, Holds
    <2>2. /\ use' = [use EXCEPT ![f] = "free"] /\ mark' = [mark EXCEPT ![f] = "default"]
          /\ ptr' = [ptr EXCEPT ![f] = None]
      BY <1>1, <1>7, <2>1 DEF SysClose, IsOpen, NewFd, Bind, Unregister
    <2>3. /\ use'[f] = "free" /\ ptr'[f] = None
          /\ \A g \in Fds : g # f => use'[g] = use[g] /\ mark'[g] = mark[g] /\ ptr'[g] = ptr[g]
      BY <1>0, <2>2 DEF TypeInv, TypeOK, KernelTypeOK, FdtTypeOK, RegTypeOK
    <2>4. \A s \in Sockets : \A g \in Fds : g # f => (Holds(s, g)' <=> Holds(s, g))
      BY <1>1, <1>5, <1>7 DEF Holds
    <2>5. \A s \in Sockets : ~Holds(s, f)'
      <3>1. \A s \in Sockets : s = cur[t] => ~Holds(s, f)'
        BY <1>1 DEF Holds, Held, FdGone
      <3>2. \A s \in Sockets : s # cur[t] => ~Holds(s, f)
        BY <1>0, <1>2, <2>1 DEF Own, Holds
      <3> QED BY <1>5, <3>1, <3>2 DEF Holds
    <2>6. Own'
      <3>1. \A s \in Sockets : Held(s)' => Held(s) /\ sock[s] # f /\ sock[s] \in Fds
        BY <1>1, <2>4, <2>5 DEF Holds, Held
      <3> QED BY <1>0, <1>1, <2>3, <2>4, <3>1 DEF Own
    <2>7. Routed' /\ Listening' /\ Leak'
      <3>1. Routed'
        BY <1>0, <2>3, <2>4, KernelAssumption DEF Routed
      <3>2. Listening'
        BY <1>0, <1>1, <2>1, <2>3, KernelAssumption DEF Listening
      <3>3. Leak'
        BY <1>0, <1>1, <2>3, <2>4 DEF Leak, Others
      <3> QED BY <3>1, <3>2, <3>3
    <2>8. ASSUME NEW u \in Threads PROVE AcceptedFd(u)'
      <3>1. AcceptedFd(u) /\ (HasAccepted(u) => cur[u] \in Sockets)
        BY <1>0, AcceptedObject DEF PathFd
      <3>2. /\ ret'[u] = ret[u] /\ fd'[u] = fd[u] /\ cur'[u] = cur[u]
            /\ \/ pc'[u] = pc[u]
               \/ pc[u] = "closeFd" /\ pc'[u] = "setClosed"
        <4>1. CASE u = t   BY <1>1, <4>1
        <4>2. CASE u # t   BY <1>1, <4>2 DEF Others
        <4> QED BY <4>1, <4>2
      <3>3. fd[u] # f => (Unclaimed(fd[u])' <=> Unclaimed(fd[u]))
        BY <2>3, <2>4, <3>2 DEF Unclaimed
      <3>4. fd[u] # f /\ fd[u] \in Fds => (Claimed(fd[u])' <=> Claimed(fd[u]))
        BY <2>3, <2>4, <3>2 DEF Claimed
      <3>5. ~Unclaimed(f)
        BY <1>2, <2>1 DEF Unclaimed
      <3>6. fd[u] # f /\ fd[u] \in Fds /\ HasAccepted(u) =>
              (Holds(cur[u], fd[u])' <=> Holds(cur[u], fd[u]))
        BY <2>4, <3>1, <3>2 DEF Holds, Held, FdGone
      <3>7. CASE fd[u] = f
        BY <2>3, <3>1, <3>2, <3>5, <3>7
        DEF AcceptedFd, HasAccepted, OnAcceptPath, AcceptPlaces, ListenPlaces
      <3>8. CASE fd[u] # f
        BY <2>3, <3>1, <3>2, <3>3, <3>4, <3>6, <3>8
        DEF AcceptedFd, HasAccepted, OnAcceptPath, AcceptPlaces, ListenPlaces, SendPlaces
      <3> QED BY <3>7, <3>8
    <2>9. PathFd'
      BY <1>3, <1>4, <2>8 DEF PathFd, Undisturbed
    <2> QED BY <2>6, <2>7, <2>9 DEF Descriptors
  <1> QED BY <1>6, <1>7

\* Accept() marks the number when it still is the new object's.
LEMMA AcceptMarkKeeps ==
  ASSUME NoTrespass, Fenced, NEW t \in Threads, SocketStep(t), AcceptMark(t)
  PROVE  Descriptors'
  <1>0. TypeInv /\ Alone /\ FdInv /\ Flow /\ Own /\ PathFd
    BY DEF Fenced, FdInv, Descriptors
  <1>1. /\ Others(t) /\ UNCHANGED <<cur, fd, lsock, object, reg>>
        /\ SetMark(sock[cur[t]], "taken")
        /\ pc[t] = "acceptMark" /\ pc'[t] \in {"denyCheck", "callback"}
        /\ pc'[t] = "callback" => UsedAfterwards
    <2>1. Goto(t, "denyCheck") \/ ("useAfterAccept" \in Usage /\ Goto(t, "callback"))
      BY DEF AcceptMark
    <2> QED BY <1>0, <2>1, GotoOne, SocketStepOthers DEF AcceptMark, UsedAfterwards
  <1>2. UNCHANGED <<status, sock, alive, use, ptr>> /\ cur[t] \in Sockets
    BY <1>0, <1>1 DEF object, reg, SetMark, TypeInv, HasObject, UsePlaces, Places, ListenPlaces
  <1>3. HasAccepted(t) /\ OnAcceptPath(t) /\ AcceptedFd(t) /\ AcceptOpen(t)
    BY <1>0, <1>1 DEF HasAccepted, OnAcceptPath, AcceptPlaces, ListenPlaces, PathFd
  <1>4. HoldsKept
    BY <1>1, <1>2, HoldsSame DEF GonePlaces
  <1>5. RegistersOwner /\ \A s \in Sockets : Held(s) => status'[s] # "Closed"
    BY <1>0, <1>2 DEF RegistersOwner, Own
  <1>6. AcceptOpen(t)' /\ LocalFd(t)'
    BY <1>1, <1>2, <1>3 DEF AcceptOpen, HasAccepted, LocalFd
  <1>7. AcceptedFd(t)'
    <2>1. fd'[t] = fd[t] /\ fd[t] \in Fds /\ use'[fd[t]] = use[fd[t]]
      BY <1>1, <1>2, <1>3 DEF AcceptedFd
    <2>2. CASE use[fd[t]] = "free"
      BY <1>1, <2>1, <2>2 DEF AcceptedFd
    <2>3. CASE Holds(cur[t], fd[t])
      <3>1. sock[cur[t]] = fd[t] /\ IsOpen(fd[t])
        BY <1>0, <1>2, <2>1, <2>3 DEF Holds, Own, IsOpen
      <3>2. mark'[fd[t]] = "taken"
        BY <1>0, <1>1, <2>1, <3>1 DEF SetMark, TypeInv, TypeOK, KernelTypeOK, FdtTypeOK
      <3>3. Holds(cur[t], fd[t])'
        BY <1>1, <1>2, <2>1, <2>3, <1>4 DEF HoldsKept, Holds, Held, FdGone
      <3>4. \E s \in Sockets : Holds(s, fd[t])'
        BY <1>2, <1>4, <2>1, <2>3 DEF HoldsKept, Holds, Held, FdGone
      <3> QED
        BY <1>1, <2>1, <3>2, <3>3, <3>4 DEF AcceptedFd, Claimed
    <2> QED BY <1>3, <2>2, <2>3 DEF AcceptedFd
  <1> QED
    BY <1>0, <1>1, <1>2, <1>3, <1>4, <1>5, <1>6, <1>7, NoObjectChanged, KeepStep

\* Where there are outgoing connections nobody accepts.
LEMMA NoAcceptor ==
  ASSUME NoTrespass, Flow, "connect" \in Usage, NEW u \in Threads
  PROVE  ~OnAcceptPath(u) /\ AcceptedFd(u) /\ AcceptOpen(u)
  <1>1. ~OnAcceptPath(u)
    BY DEF NoTrespass, Flow, ThreadFlow, AcceptFlow
  <1> QED
    BY <1>1 DEF AcceptedFd, AcceptOpen, HasAccepted, OnAcceptPath, AcceptPlaces, ListenPlaces

\* socket() hands out a number nobody holds.
LEMMA ConnectSocketKeeps ==
  ASSUME NoTrespass, Fenced, Flow', NEW t \in Threads, SocketStep(t), ConnectSocket(t)
  PROVE  Descriptors'
  <1>0. /\ TypeInv /\ Alone /\ UnbornUnused /\ FdInv
        /\ Flow /\ Own /\ Routed /\ Listening /\ PathFd /\ Leak
    BY DEF Fenced, FdInv, Descriptors
  <1>1. /\ Others(t) /\ UNCHANGED <<cur, fd, lsock, status, alive, reg>>
        /\ pc[t] = "connectSocket" /\ pc'[t] \in {"connectHost", "close"}
    <2>1. Goto(t, "connectHost") \/ Goto(t, "close")
      BY DEF ConnectSocket
    <2> QED BY <1>0, <2>1, GotoOne, SocketStepOthers DEF ConnectSocket
  <1>2. /\ pc[t] \in HandlerPlaces \ GonePlaces /\ cur[t] \in Sockets
        /\ "connect" \in Usage
        /\ sock[cur[t]] \in NoFd /\ status[cur[t]] # "Closed"
        /\ sock \in [Sockets -> Fds \cup NoFd] /\ NoFd \cap Fds = {}
    <2>1. /\ pc[t] \in HandlerPlaces \ GonePlaces /\ pc[t] \in ConnectPlaces
      BY <1>1 DEF HandlerPlaces, UsePlaces, Places, ConnectPlaces, GonePlaces
    <2> QED
      BY <1>0, <1>1, <2>1, KernelAssumption
      DEF TypeInv, TypeOK, ObjectTypeOK, HasObject, HandlerPlaces, Flow, ThreadFlow,
          ConnectFlow, PathFd, LocalFd, NoFd
  <1>3. \A u \in Threads : ~OnAcceptPath(u) /\ AcceptedFd(u)' /\ AcceptOpen(u)'
    <2>1. \A u \in Threads : ~OnAcceptPath(u)
      BY <1>0, <1>2, NoAcceptor
    <2>2. \A u \in Threads : ~OnAcceptPath(u)'
      BY <1>2 DEF NoTrespass, Flow, ThreadFlow, AcceptFlow
    <2> QED
      BY <2>1, <2>2 DEF AcceptedFd, AcceptOpen, HasAccepted, OnAcceptPath, AcceptPlaces, ListenPlaces
  <1>4. \A s \in Sockets : FdGone(s)' <=> FdGone(s)
    BY <1>1 DEF FdGone, Others
  <1>5. PathFd'
    <2>1. \A s \in Sockets : s # cur[t] => status'[s] = status[s] /\ sock'[s] = sock[s]
      BY <1>1, <1>2 DEF ConnectSocket
    <2>2. \A u \in Threads : u # t => LocalFd(u)'
      BY <1>0, <1>1, <1>2, <2>1, OwnObjectOnly DEF Undisturbed
    <2>3. LocalFd(t)'
      BY <1>1 DEF LocalFd
    <2> QED BY <1>3, <2>2, <2>3 DEF PathFd
  <1>6. ASSUME NEW f \in FreeFds, NewFd(f, "conn", "other"), sock' = [sock EXCEPT ![cur[t]] = f]
        PROVE  Descriptors'
    <2>1. f \in Fds /\ use[f] = "free" /\ ~FdGone(cur[t]) /\ alive[cur[t]]
      <3>1. ~FdGone(cur[t])
        BY <1>0, <1>1, <1>2
        DEF FdGone, Alone, Handles, HandlerPlaces, UsePlaces, Places, ClosePlaces
      <3> QED
        BY <1>0, <1>2, <3>1
        DEF FreeFds, UnbornUnused, Uses, HandlerPlaces, TypeInv, TypeOK, ObjectTypeOK
    <2>2. /\ use'[f] = "conn"
          /\ \A g \in Fds : g # f => use'[g] = use[g]
          /\ UNCHANGED ptr
      BY <1>0, <1>1, <1>6 DEF reg, NewFd, Bind, TypeInv, TypeOK, KernelTypeOK, FdtTypeOK, FreeFds
    <2>3. /\ \A s \in Sockets : s # cur[t] => sock'[s] = sock[s]
          /\ sock'[cur[t]] = f
      BY <1>2, <1>6
    <2>4. \A s \in Sockets : s # cur[t] => \A g \in Fds : Holds(s, g)' <=> Holds(s, g)
      BY <1>1, <1>4, <2>3 DEF Holds, Held
    <2>5. \A s \in Sockets : ~Holds(s, f)
      BY <1>0, <2>1 DEF Own, Holds
    <2>6. \A g \in Fds : Holds(cur[t], g)' <=> g = f
      <3>1. \A s \in Sockets : s = cur[t] => \A g \in Fds : Holds(s, g)' <=> g = f
        BY <1>1, <1>4, <2>1, <2>3 DEF Holds, Held
      <3> QED BY <1>1, <1>2, <3>1 DEF Holds, Held, FdGone
    <2>7. \A g \in Fds : ~Holds(cur[t], g)
      BY <1>2 DEF Holds, Held
    <2>8. Own'
      <3>1. ASSUME NEW s \in Sockets, Held(s)', s # cur[t]
            PROVE  Held(s) /\ sock'[s] = sock[s] /\ sock[s] \in Fds /\ sock[s] # f
        BY <1>1, <1>4, <2>3, <2>5, <3>1 DEF Held, Holds
      <3>2. ASSUME NEW s \in Sockets, Held(s)'
            PROVE  use'[sock'[s]] = "conn" /\ status'[s] # "Closed"
        BY <1>0, <1>1, <1>2, <2>2, <2>3, <3>1, <3>2 DEF Own
      <3>3. ASSUME NEW s \in Sockets, Held(s)', NEW r \in Sockets, Held(r)', sock'[r] = sock'[s]
            PROVE  r = s
        BY <1>0, <2>3, <3>1, <3>3 DEF Own, Holds
      <3> QED BY <3>2, <3>3 DEF Own, Holds
    <2>9. Routed'
      BY <1>0, <2>2, <2>4, <2>7 DEF Routed
    <2>10. Listening'
      BY <1>0, <1>1, <2>1, <2>2 DEF Listening
    <2>11. Leak'
      <3>1. \A g \in Fds : \A s \in Sockets : Holds(s, g) => Holds(s, g)'
        BY <2>4, <2>7
      <3>2. \A s \in Sockets : s = cur[t] => Holds(s, f)'
        BY <1>1, <1>4, <2>1, <2>3 DEF Holds, Held
      <3> QED
        BY <1>0, <1>1, <1>2, <2>2, <3>1, <3>2 DEF Leak, Others
    <2> QED BY <1>5, <2>8, <2>9, <2>10, <2>11 DEF Descriptors
  <1>7. CASE sock' = [sock EXCEPT ![cur[t]] = Invalid] /\ UNCHANGED fdt
    <2>1. UNCHANGED <<use, mark, ptr>> /\ RegistersOwner
      BY <1>1, <1>7 DEF fdt, reg, RegistersOwner
    <2>2. HoldsKept
      BY <1>1, <1>2, <1>4, <1>7 DEF HoldsKept, Holds, Held, NoFd
    <2>3. \A s \in Sockets : Held(s) => status'[s] # "Closed"
      BY <1>0, <1>1 DEF Own
    <2>4. Undisturbed(t) /\ LocalFd(t)'
      BY <1>5, <1>3 DEF PathFd, Undisturbed
    <2> QED BY <1>0, <1>1, <1>3, <2>1, <2>2, <2>3, <2>4, KeepStep
  <1> QED BY <1>6, <1>7 DEF ConnectSocket

LEMMA SocketStepKeeps ==
  ASSUME NoTrespass, Fenced, Flow', NEW t \in Threads, SocketStep(t)
  PROVE  Descriptors'
  BY QuietSocketKeeps, SetClosedKeeps, DropFdKeeps, CloseFdKeeps, AcceptMarkKeeps,
     ConnectSocketKeeps
  DEF SocketStep, QuietSocketStep

-----------------------------------------------------------------------------
(***************************************************************************)
(* The steps of the manager.                                               *)
(***************************************************************************)
\* A step of the manager leaves the other threads alone.
LEMMA ManagerStepOthers ==
  ASSUME Fenced, NEW t \in Threads, ManagerStep(t)
  PROVE  Others(t) /\ UNCHANGED lsock
  <1>1. Mine(t) /\ TypeInv
    BY ManagerStepFlow DEF Fenced, FdInv
  <1>2. \A u \in Threads : u # t => cur'[u] = cur[u] /\ fd'[u] = fd[u]
    BY <1>1
    DEF ManagerStep, _ParseEvents, RearmGet, ModifySocket, CloseEvent, RemoveLock,
        RemoveSocket, RemoveUnlock, AcceptLock, OnAccepting, AcceptCallback, DenyCheck,
        ListenRearm, Forget, local, TypeInv, TypeOK, ThreadTypeOK
  <1>3. UNCHANGED lsock
    BY DEF ManagerStep, _ParseEvents, RearmGet, ModifySocket, CloseEvent, RemoveLock,
           RemoveSocket, RemoveUnlock, AcceptLock, OnAccepting, AcceptCallback, DenyCheck,
           ListenRearm, manager
  <1> QED BY <1>1, <1>2, <1>3 DEF Mine, Same, Others

\* Dispatch and removal, which a thread of the accept path never gets to.
LEMMA DispatchKeeps ==
  ASSUME NoTrespass, Fenced, NEW t \in Threads, ManagerStep(t),
         \/ _ParseEvents(t) \/ RearmGet(t) \/ ModifySocket(t)
         \/ RemoveLock(t) \/ RemoveSocket(t) \/ RemoveUnlock(t) \/ AcceptLock(t)
  PROVE  Descriptors'
  <1>0. TypeInv /\ Alone /\ UnbornUnused /\ FdInv /\ Flow /\ Own /\ PathFd
    BY DEF Fenced, FdInv, Descriptors
  <1>1. /\ Others(t) /\ UNCHANGED <<lsock, object, fdt, cur, ret>>
        /\ pc[t] \notin AcceptPlaces \cup GonePlaces
        /\ pc[t] # "acceptLock" => pc[t] \in HandlerPlaces
    BY <1>0, ManagerStepOthers
    DEF _ParseEvents, RearmGet, ModifySocket, RemoveLock, RemoveSocket, RemoveUnlock,
        AcceptLock, local, manager, kernel, AcceptPlaces, ListenPlaces, GonePlaces,
        HandlerPlaces, UsePlaces, Places, WorkerPlaces, ClosePlaces
  <1>2. UNCHANGED <<status, sock, alive, use, mark>>
    BY <1>1 DEF object, fdt
  <1>3. pc'[t] \notin {"setClosed", "dropFd", "acceptCallback", "denyCheck", "connectSocket"}
        /\ ~HasAccepted(t)'
        /\ (pc'[t] = "rearmMod" => fd'[t] = sock[cur[t]])
    <2>0. /\ ret[t] \notin AcceptReturns
          /\ ret[t] \in {"finish", "rearmGet", "acceptAdd", "denyCheck"}
      BY <1>0, <1>1
      DEF Flow, ThreadFlow, AcceptFlow, AcceptCalls, AcceptPlaces, ListenPlaces, TypeInv,
          TypeOK, ThreadTypeOK, _ParseEvents, RearmGet, ModifySocket, RemoveLock,
          RemoveSocket, RemoveUnlock, AcceptLock, SendPlaces
    <2> USE DEF HasAccepted, OnAcceptPath, AcceptPlaces, AcceptReturns, ListenPlaces
    <2>1. CASE RearmGet(t)
      <3>1. fd'[t] = sock[cur[t]] /\ pc'[t] = "rearmMod"
        BY <1>0, <2>1, GotoOne DEF RearmGet, TypeInv, TypeOK, ThreadTypeOK
      <3> QED BY <1>1, <2>0, <3>1
    <2>2. CASE _ParseEvents(t) \/ ModifySocket(t) \/ RemoveLock(t) \/ RemoveSocket(t)
      <3>1. PICK p \in {"removeLock", "close", "onConnected", "ResumeSendFile", "onReceiving",
                        "closeEvent", "removeDel", "closeFd", "removeUnlock"} : Goto(t, p)
        BY <2>2 DEF _ParseEvents, ModifySocket, RemoveLock, RemoveSocket
      <3>2. pc'[t] = p
        BY <1>0, <3>1, GotoOne
      <3> QED BY <1>1, <2>0, <3>2
    <2>3. CASE RemoveUnlock(t)
      <3>1. pc'[t] = ret[t]
        BY <1>0, <2>3, GotoOne DEF RemoveUnlock, Return
      <3> QED BY <1>1, <2>0, <3>1
    <2>4. CASE AcceptLock(t)
      <3>1. pc'[t] = "accept"
        BY <1>0, <2>4, GotoOne DEF AcceptLock
      <3> QED BY <1>1, <2>0, <3>1
    <2> QED BY <2>1, <2>2, <2>3, <2>4
  <1>4. HoldsKept
    BY <1>1, <1>2, <1>3, HoldsSame DEF GonePlaces
  <1>5. Undisturbed(t)
    BY <1>0, <1>1, <1>2, NoObjectChanged
  <1>6. RegistersOwner
    <2>1. CASE UNCHANGED ptr
      BY <2>1 DEF RegistersOwner
    <2>2. CASE ModifySocket(t)
      <3>1. fd[t] = sock[cur[t]] /\ pc[t] \in HandlerPlaces \ GonePlaces
        BY <1>0, <1>1, <2>2 DEF ModifySocket, PathFd, LocalFd
      <3> QED
        BY <2>1, <2>2, <3>1, ArmsOwner DEF ModifySocket, EpollMod, Registered, reg
    <2>3. CASE RemoveSocket(t)
      BY <1>0, <2>1, <2>3
      DEF RemoveSocket, EpollDel, Registered, Unregister, reg, RegistersOwner, TypeInv, TypeOK,
          KernelTypeOK, RegTypeOK
    <2> QED
      BY <2>1, <2>2, <2>3
      DEF _ParseEvents, RearmGet, RemoveLock, RemoveUnlock, AcceptLock, kernel, reg
  <1>7. AcceptedFd(t)' /\ AcceptOpen(t)' /\ LocalFd(t)'
    BY <1>1, <1>2, <1>3 DEF AcceptedFd, AcceptOpen, LocalFd
  <1>8. \A s \in Sockets : Held(s) => status'[s] # "Closed"
    BY <1>0, <1>2 DEF Own
  <1>9. pc[t] \notin {"acceptCallback", "denyCheck"}
    BY <1>1 DEF AcceptPlaces, ListenPlaces
  <1> QED BY <1>0, <1>1, <1>2, <1>4, <1>5, <1>6, <1>7, <1>8, <1>9, KeepStep

\* The tail of the loop deletes an object only after it has lost its descriptor, and
\* where it does nobody else has it.
LEMMA CloseEventKeeps ==
  ASSUME NoTrespass, Fenced, NEW t \in Threads, ManagerStep(t), CloseEvent(t)
  PROVE  Descriptors'
  <1>0. TypeInv /\ Alone /\ FdInv /\ Flow /\ Own /\ PathFd
    BY DEF Fenced, FdInv, Descriptors
  <1>1. /\ Others(t) /\ UNCHANGED <<lsock, kernel>> /\ Forget(t)
        /\ pc[t] = "closeEvent" /\ pc'[t] = "wait" /\ ret'[t] = "finish" /\ cur'[t] = None
    BY <1>0, ManagerStepOthers, GotoOne, ForgetOne DEF CloseEvent
  <1>2. /\ cur[t] \in Sockets /\ pc[t] \in UsePlaces
        /\ status \in [Sockets -> StatusKinds] /\ sock \in [Sockets -> Fds \cup NoFd]
        /\ alive \in [Sockets -> BOOLEAN]
        /\ NoFd \cap Fds = {} /\ Invalid \in NoFd /\ Zero \in NoFd
    BY <1>0, <1>1, KernelAssumption
    DEF TypeInv, TypeOK, ObjectTypeOK, HasObject, UsePlaces, Places, WorkerPlaces, NoFd
  <1>3. /\ UNCHANGED <<use, mark, ptr>> /\ RegistersOwner
        /\ \A s \in Sockets : FdGone(s)' <=> FdGone(s)
    <2>1. UNCHANGED <<use, mark, ptr>>
      BY <1>1 DEF kernel, fdt, reg
    <2>2. \A s \in Sockets : FdGone(s)' <=> FdGone(s)
      BY <1>1 DEF FdGone, Others
    <2> QED BY <2>1, <2>2 DEF RegistersOwner
  <1>4. AcceptedFd(t)' /\ AcceptOpen(t)' /\ LocalFd(t)'
    BY <1>1
    DEF AcceptedFd, AcceptOpen, LocalFd, HasAccepted, OnAcceptPath, AcceptPlaces,
        AcceptReturns, ListenPlaces
  <1>5. CASE UNCHANGED <<alive, status, sock>>
    <2>1. HoldsKept /\ Undisturbed(t) /\ \A s \in Sockets : Held(s) => status'[s] # "Closed"
      BY <1>0, <1>1, <1>3, <1>5, NoObjectChanged DEF HoldsKept, Holds, Held, Own
    <2> QED BY <1>0, <1>1, <1>3, <1>4, <2>1, KeepStep
  <1>6. CASE /\ "deleteOnClosed" \in Usage /\ sock[cur[t]] = Invalid
             /\ alive' = [alive EXCEPT ![cur[t]] = FALSE]
             /\ SetStatus(cur[t], "Closed")
             /\ sock' = [sock EXCEPT ![cur[t]] = Zero]
    <2>1. /\ \A s \in Sockets : s # cur[t] =>
               status'[s] = status[s] /\ sock'[s] = sock[s] /\ alive'[s] = alive[s]
          /\ ~alive'[cur[t]] /\ ~Held(cur[t])
      BY <1>2, <1>6 DEF SetStatus, Held
    <2>2. HoldsKept
      BY <1>2, <1>3, <2>1 DEF HoldsKept, Holds, Held
    <2>3. Undisturbed(t)
      BY <1>0, <1>1, <1>2, <1>6, <2>1, OwnObjectOnly DEF UsedAfterwards
    <2>4. \A s \in Sockets : Held(s) => status'[s] # "Closed"
      BY <1>0, <2>1 DEF Own
    <2> QED BY <1>0, <1>1, <1>3, <1>4, <2>2, <2>3, <2>4, KeepStep
  <1> QED BY <1>5, <1>6 DEF CloseEvent

\* The listener is armed again through its own descriptor.
LEMMA ListenRearmKeeps ==
  ASSUME NoTrespass, Fenced, NEW t \in Threads, ManagerStep(t), ListenRearm(t)
  PROVE  Descriptors'
  <1>0. TypeInv /\ Alone /\ FdInv /\ Flow /\ Own /\ PathFd /\ Listening
    BY DEF Fenced, FdInv, Descriptors
  <1>1. /\ Others(t) /\ UNCHANGED <<lsock, fdt, object>>
        /\ EpollMod(lsock[lsn[t]], lsn[t], {"in"})
        /\ pc[t] = "listenRearm" /\ pc'[t] = "wait" /\ ret'[t] = "finish"
    BY <1>0, ManagerStepOthers, GotoOne, ForgetOne DEF ListenRearm
  <1>2. UNCHANGED <<use, mark, status, sock, alive>> /\ lsn[t] \in Listeners
    BY <1>0, <1>1
    DEF fdt, object, Flow, ThreadFlow, AcceptFlow, OnAcceptPath, AcceptPlaces, ListenPlaces
  <1>3. HoldsKept /\ Undisturbed(t)
    BY <1>0, <1>1, <1>2, HoldsSame, NoObjectChanged DEF GonePlaces
  <1>4. RegistersOwner
    BY <1>0, <1>1, <1>2
    DEF EpollMod, Registered, Arm, reg, RegistersOwner, Listening, TypeInv, TypeOK,
        KernelTypeOK, RegTypeOK
  <1>5. AcceptedFd(t)' /\ AcceptOpen(t)' /\ LocalFd(t)'
    BY <1>1
    DEF AcceptedFd, AcceptOpen, LocalFd, HasAccepted, OnAcceptPath, AcceptPlaces,
        AcceptReturns, ListenPlaces
  <1> QED BY <1>0, <1>1, <1>2, <1>3, <1>4, <1>5, KeepStep DEF Own

\* On the accept path is one thread: what the others know is nothing.
LEMMA OtherAcceptors ==
  ASSUME Mutex, NEW t \in Threads, OnAcceptPath(t), Others(t), NEW u \in Threads, u # t
  PROVE  ~OnAcceptPath(u)' /\ AcceptedFd(u)' /\ AcceptOpen(u)'
  <1>1. ~OnAcceptPath(u)'
    BY OneAcceptor DEF Others, OnAcceptPath
  <1> QED
    BY <1>1 DEF AcceptedFd, AcceptOpen, HasAccepted, OnAcceptPath, AcceptPlaces, ListenPlaces

\* The deny check closes a number that no connection has.
LEMMA DenyCheckKeeps ==
  ASSUME NoTrespass, Fenced, NEW t \in Threads, ManagerStep(t), DenyCheck(t)
  PROVE  Descriptors'
  <1>0. /\ TypeInv /\ Alone /\ FdInv /\ Flow /\ Mutex
        /\ Own /\ Routed /\ Listening /\ PathFd /\ Leak
    BY DEF Fenced, FdInv, Descriptors
  <1>1. /\ Others(t) /\ UNCHANGED <<lsock, status, sock, alive, cur, fd, ret>>
        /\ pc[t] = "denyCheck" /\ pc'[t] = "listenRearm"
    BY <1>0, ManagerStepOthers, GotoOne DEF DenyCheck, object, local
  <1>2. OnAcceptPath(t) /\ fd[t] \in Fds
        /\ (use[fd[t]] = "free" \/ Unclaimed(fd[t]) \/ Claimed(fd[t]))
    BY <1>0, <1>1 DEF OnAcceptPath, AcceptPlaces, ListenPlaces, PathFd, AcceptedFd
  <1>3. HoldsKept /\ Undisturbed(t)
    BY <1>0, <1>1, HoldsSame, NoObjectChanged DEF GonePlaces
  <1>4. AcceptedFd(t)' /\ AcceptOpen(t)' /\ LocalFd(t)'
    BY <1>1 DEF AcceptedFd, AcceptOpen, LocalFd, HasAccepted
  <1>5. CASE Denied(fd[t]) /\ SysClose(fd[t])
    <2> DEFINE f == fd[t]
    <2>1. Unclaimed(f) /\ use[f] = "conn" /\ f \in Fds /\ \A s \in Sockets : ~Holds(s, f)
      BY <1>2, <1>5 DEF Denied, IsOpen, Claimed, Unclaimed
    <2>2. /\ use' = [use EXCEPT ![f] = "free"] /\ ptr' = [ptr EXCEPT ![f] = None]
      BY <1>5 DEF SysClose, Denied, NewFd, Bind, Unregister
    <2>3. /\ use'[f] = "free" /\ ptr'[f] = None
          /\ \A g \in Fds : g # f => use'[g] = use[g] /\ ptr'[g] = ptr[g]
      BY <1>0, <2>1, <2>2 DEF TypeInv, TypeOK, KernelTypeOK, FdtTypeOK, RegTypeOK
    <2> HIDE DEF f
    <2>4. Own'
      <3>1. \A s \in Sockets : Held(s)' => Held(s) /\ sock[s] # f /\ sock[s] \in Fds
        BY <1>1, <1>3, <2>1 DEF HoldsKept, Holds, Held
      <3>2. \A s, r \in Sockets : Held(s)' /\ Held(r)' /\ sock[s] = sock[r] => s = r
        BY <1>0, <3>1 DEF Own, Holds
      <3> QED BY <1>0, <1>1, <2>3, <3>1, <3>2 DEF Own, Holds
    <2>5. Routed'
      BY <1>0, <1>3, <2>3, KernelAssumption DEF Routed, HoldsKept
    <2>6. Listening'
      BY <1>0, <1>1, <2>1, <2>3, KernelAssumption DEF Listening
    <2>7. Leak'
      BY <1>0, <1>1, <1>3, <2>3 DEF Leak, HoldsKept, Others, f
    <2>8. PathFd'
      BY <1>0, <1>1, <1>2, <1>3, <1>4, OtherAcceptors DEF PathFd, Undisturbed
    <2> QED BY <2>4, <2>5, <2>6, <2>7, <2>8 DEF Descriptors
  <1>6. CASE ~Denied(fd[t]) /\ SetNonBlocking(fd[t]) /\ UNCHANGED reg
    <2>1. UNCHANGED <<use, mark, ptr>> /\ RegistersOwner
      BY <1>6 DEF SetNonBlocking, reg, RegistersOwner
    <2>2. use[fd[t]] = "free" \/ Claimed(fd[t])
      BY <1>2, <1>6 DEF Denied, IsOpen, Unclaimed
    <2> QED BY <1>0, <1>1, <1>2, <1>3, <1>4, <2>1, <2>2, KeepStep DEF Own
  <1> QED BY <1>5, <1>6 DEF DenyCheck

\* accept() returns a number that nobody holds and nothing is registered for.
LEMMA OnAcceptingKeeps ==
  ASSUME NoTrespass, Fenced, NEW t \in Threads, ManagerStep(t), OnAccepting(t)
  PROVE  Descriptors'
  <1>0. /\ TypeInv /\ Alone /\ FdInv /\ Flow /\ Mutex
        /\ Own /\ Routed /\ Listening /\ PathFd /\ Leak
    BY DEF Fenced, FdInv, Descriptors
  <1>1. /\ Others(t) /\ UNCHANGED <<lsock, status, sock, alive, cur, ret, ptr>>
        /\ pc[t] = "accept"
    BY <1>0, ManagerStepOthers DEF OnAccepting, object, reg
  <1>2. OnAcceptPath(t)
    BY <1>1 DEF OnAcceptPath, AcceptPlaces, ListenPlaces
  <1>3. pc'[t] \in {"acceptCallback", "listenRearm"}
    <2>1. Goto(t, "acceptCallback") \/ Goto(t, "listenRearm")
      BY DEF OnAccepting
    <2> QED BY <1>0, <2>1, GotoOne
  <1>4. HoldsKept /\ Undisturbed(t)
    BY <1>0, <1>1, <1>3, HoldsSame, NoObjectChanged DEF GonePlaces
  <1>5. AcceptOpen(t)' /\ LocalFd(t)' /\ ~HasAccepted(t)'
    BY <1>3 DEF AcceptOpen, LocalFd, HasAccepted
  <1>6. CASE Goto(t, "listenRearm") /\ UNCHANGED <<fdt, fd>>
    <2>1. pc'[t] = "listenRearm" /\ UNCHANGED <<use, mark>> /\ RegistersOwner
      BY <1>0, <1>1, <1>6, GotoOne DEF fdt, RegistersOwner
    <2>2. AcceptedFd(t)'
      BY <1>5, <2>1 DEF AcceptedFd
    <2> QED BY <1>0, <1>1, <1>2, <1>4, <1>5, <2>1, <2>2, KeepStep DEF Own
  <1>7. ASSUME NEW f \in FreeFds, SysAccept(lsock[lsn[t]], f), fd' = [fd EXCEPT ![t] = f],
               Goto(t, "acceptCallback")
        PROVE  Descriptors'
    <2>1. f \in Fds /\ use[f] = "free" /\ fd'[t] = f /\ pc'[t] = "acceptCallback"
      BY <1>0, <1>7, GotoOne DEF FreeFds, TypeInv, TypeOK, ThreadTypeOK
    <2>2. /\ use'[f] = "conn" /\ mark'[f] = "default"
          /\ \A g \in Fds : g # f => use'[g] = use[g]
      BY <1>0, <1>7, <2>1 DEF SysAccept, Bind, TypeInv, TypeOK, KernelTypeOK, FdtTypeOK
    <2>3. \A s \in Sockets : ~Holds(s, f) /\ ~Holds(s, f)'
      BY <1>0, <1>4, <2>1 DEF Own, Holds, HoldsKept
    <2>4. Own'
      <3>1. \A s \in Sockets : Held(s)' => Held(s) /\ sock[s] # f /\ sock[s] \in Fds
        BY <1>1, <1>4, <2>3 DEF HoldsKept, Holds, Held
      <3>2. \A s, r \in Sockets : Held(s)' /\ Held(r)' /\ sock[s] = sock[r] => s = r
        BY <1>0, <3>1 DEF Own, Holds
      <3> QED BY <1>0, <1>1, <2>2, <3>1, <3>2 DEF Own, Holds
    <2>5. Routed'
      BY <1>0, <1>1, <1>4 DEF Routed, HoldsKept
    <2>6. Listening'
      BY <1>0, <1>1, <2>1, <2>2 DEF Listening
    <2>7. Leak'
      BY <1>0, <1>1, <1>4, <2>1, <2>2 DEF Leak, HoldsKept, Others
    <2>8. AcceptedFd(t)'
      BY <1>5, <2>1, <2>2, <2>3 DEF AcceptedFd, Unclaimed
    <2>9. PathFd'
      BY <1>0, <1>1, <1>2, <1>4, <1>5, <2>8, OtherAcceptors DEF PathFd, Undisturbed
    <2> QED BY <2>4, <2>5, <2>6, <2>7, <2>9 DEF Descriptors
  <1> QED BY <1>6, <1>7 DEF OnAccepting

\* The accept callback gives the number to a new object or leaves it to the deny check.
LEMMA AcceptCallbackKeeps ==
  ASSUME NoTrespass, Fenced, NEW t \in Threads, ManagerStep(t), AcceptCallback(t)
  PROVE  Descriptors'
  <1>0. /\ TypeInv /\ Alone /\ UnbornUnused /\ FdInv /\ Flow /\ Mutex
        /\ Own /\ Routed /\ Listening /\ PathFd /\ Leak
    BY DEF Fenced, FdInv, Descriptors
  <1>1. /\ Others(t) /\ UNCHANGED <<lsock, use, mark, ptr, fd, ret>>
        /\ pc[t] = "acceptCallback" /\ Unclaimed(fd[t])
    BY <1>0, ManagerStepOthers
    DEF AcceptCallback, kernel, fdt, reg, PathFd, AcceptedFd
  <1>2. OnAcceptPath(t)
    BY <1>1 DEF OnAcceptPath, AcceptPlaces, ListenPlaces
  <1>3. CASE Goto(t, "denyCheck") /\ UNCHANGED <<object, cur>>
    <2>1. pc'[t] = "denyCheck" /\ UNCHANGED <<status, sock, alive>> /\ RegistersOwner
      BY <1>0, <1>1, <1>3, GotoOne DEF object, RegistersOwner
    <2>2. HoldsKept /\ Undisturbed(t)
      BY <1>0, <1>1, <2>1, HoldsSame, NoObjectChanged DEF GonePlaces
    <2>3. AcceptedFd(t)' /\ AcceptOpen(t)' /\ LocalFd(t)'
      BY <1>1, <2>1, <2>2
      DEF AcceptedFd, AcceptOpen, LocalFd, HasAccepted, Unclaimed, HoldsKept, Holds
    <2> QED BY <1>0, <1>1, <1>2, <2>1, <2>2, <2>3, KeepStep DEF Own
  <1>4. ASSUME NEW s \in Sockets, Construct(s), SetStatus(s, "Accepting"),
               sock' = [sock EXCEPT ![s] = fd[t]], cur' = [cur EXCEPT ![t] = s],
               Goto(t, "accepting")
        PROVE  Descriptors'
    <2>0. PICK f \in Fds : f = fd[t]
      BY <1>1 DEF Unclaimed
    <2>1. /\ f \in Fds /\ use[f] = "conn" /\ (\A r \in Sockets : ~Holds(r, f))
          /\ ~alive[s] /\ (\A u \in Threads : ~Uses(u, s)) /\ (\A g \in Fds : ptr[g] # s)
          /\ pc'[t] = "accepting" /\ cur'[t] = s /\ fd'[t] = f
      BY <1>0, <1>1, <1>4, <2>0, GotoOne
      DEF Unclaimed, Construct, UnbornUnused, TypeInv, TypeOK, ThreadTypeOK
    <2>2. /\ alive'[s] /\ sock'[s] = f /\ status'[s] = "Accepting"
          /\ \A r \in Sockets : r # s =>
               alive'[r] = alive[r] /\ sock'[r] = sock[r] /\ status'[r] = status[r]
      BY <1>0, <1>4, <2>0 DEF Construct, SetStatus, TypeInv, TypeOK, ObjectTypeOK
    <2>3. /\ ~FdGone(s)'
          /\ \A r \in Sockets : r # s => (FdGone(r)' <=> FdGone(r))
      BY <1>1, <2>1 DEF FdGone, Others, Uses, UsePlaces, Places, ClosePlaces
    <2>4. \A r \in Sockets : r # s =>
            (Held(r)' <=> Held(r)) /\ \A g \in Fds : Holds(r, g)' <=> Holds(r, g)
      BY <2>2, <2>3 DEF Holds, Held
    <2>5. Holds(s, f)' /\ Held(s)' /\ ~Held(s)
      BY <2>1, <2>2, <2>3 DEF Holds, Held
    <2>6. Own'
      <3>1. ASSUME NEW r \in Sockets, Held(r)', r # s
            PROVE  Held(r) /\ sock'[r] = sock[r] /\ sock[r] \in Fds /\ sock[r] # f
        BY <2>1, <2>2, <2>4, <3>1 DEF Held, Holds
      <3>2. ASSUME NEW r \in Sockets, Held(r)'
            PROVE  use'[sock'[r]] = "conn" /\ status'[r] # "Closed"
        BY <1>0, <1>1, <2>1, <2>2, <3>1, <3>2 DEF Own
      <3>3. ASSUME NEW r \in Sockets, Held(r)', NEW q \in Sockets, Held(q)', sock'[q] = sock'[r]
            PROVE  q = r
        BY <1>0, <2>2, <3>1, <3>3 DEF Own, Holds
      <3> QED BY <3>2, <3>3 DEF Own, Holds
    <2>7. Routed'
      BY <1>0, <1>1, <2>1, <2>4 DEF Routed
    <2>8. Listening'
      BY <1>0, <1>1 DEF Listening
    <2>9. Leak'
      <3>1. \A g \in Fds : \A r \in Sockets : Holds(r, g) => Holds(r, g)'
        BY <2>4, <2>5 DEF Holds
      <3> QED BY <1>0, <1>1, <2>0, <2>5, <3>1 DEF Leak, Others
    <2>10. AcceptedFd(t)' /\ AcceptOpen(t)' /\ LocalFd(t)'
      <3>1. \A r \in Sockets : r = s => Holds(r, f)'
        BY <2>5
      <3>2. Holds(cur[t], fd[t])'
        BY <2>1, <2>5 DEF Holds, Held, FdGone
      <3>3. AcceptedFd(t)'
        BY <2>1, <3>2 DEF AcceptedFd, SendPlaces
      <3> QED BY <2>1, <2>2, <3>3 DEF AcceptOpen, LocalFd
    <2>11. \A u \in Threads : u # t => AcceptedFd(u)' /\ AcceptOpen(u)' /\ LocalFd(u)'
      <3> SUFFICES ASSUME NEW u \in Threads, u # t
                   PROVE  AcceptedFd(u)' /\ AcceptOpen(u)' /\ LocalFd(u)'
        OBVIOUS
      <3>1. AcceptedFd(u)' /\ AcceptOpen(u)'
        BY <1>0, <1>1, <1>2, OtherAcceptors
      <3>2. pc'[u] = pc[u] /\ cur'[u] = cur[u] /\ fd'[u] = fd[u]
        BY <1>1 DEF Others
      <3>3. pc[u] \in UsePlaces => cur[u] \in Sockets /\ cur[u] # s
        BY <1>0, <2>1 DEF TypeInv, HasObject, Uses
      <3>4. LocalFd(u)'
        BY <1>0, <2>2, <3>2, <3>3
        DEF PathFd, LocalFd, UsePlaces, Places, WorkerPlaces, ConnectPlaces
      <3> QED BY <3>1, <3>4
    <2>12. PathFd'
      BY <2>10, <2>11 DEF PathFd
    <2> QED BY <2>6, <2>7, <2>8, <2>9, <2>12 DEF Descriptors
  <1> QED BY <1>3, <1>4 DEF AcceptCallback

LEMMA ManagerStepKeeps ==
  ASSUME NoTrespass, Fenced, NEW t \in Threads, ManagerStep(t)
  PROVE  Descriptors'
  BY DispatchKeeps, CloseEventKeeps, ListenRearmKeeps, DenyCheckKeeps, OnAcceptingKeeps,
     AcceptCallbackKeeps
  DEF ManagerStep

-----------------------------------------------------------------------------
(***************************************************************************)
(* The other steps.                                                        *)
(***************************************************************************)
\* Listeners are added before anybody accepts.
LEMMA StartListenKeeps ==
  ASSUME NoTrespass, Fenced, NEW l \in Listeners, StartListen(l)
  PROVE  Descriptors'
  <1>0. /\ TypeInv /\ Flow /\ Own /\ Routed /\ Listening /\ PathFd /\ Leak
    BY DEF Fenced, FdInv, Descriptors
  <1>1. UNCHANGED <<status, sock, alive, pc, cur, fd, ret>>
    BY DEF StartListen, object, local
  <1>2. PICK f \in FreeFds :
          /\ NewFd(f, "listen", "default")
          /\ \/ Arm(f, l, {"in"}) /\ lsock' = [lsock EXCEPT ![l] = f]
             \/ UNCHANGED <<reg, lsock>>
    BY DEF StartListen
  <1>3. /\ f \in Fds /\ use[f] = "free" /\ use'[f] = "listen"
        /\ \A g \in Fds : g # f => use'[g] = use[g] /\ ptr'[g] = ptr[g]
        /\ ptr'[f] \in {ptr[f], l}
        /\ \A k \in Listeners : lsock'[k] \in {lsock[k], f}
    BY <1>0, <1>2
    DEF FreeFds, NewFd, Bind, Arm, reg, TypeInv, TypeOK, KernelTypeOK, FdtTypeOK, RegTypeOK,
        ManagerTypeOK
  <1>4. /\ HoldsKept
        /\ \A s \in Sockets : Held(s) => sock[s] # f
        /\ \A s \in Sockets : Held(s)' <=> Held(s)
    <2>1. \A s \in Sockets : Held(s)' <=> Held(s)
      BY <1>1 DEF Held, FdGone
    <2> QED BY <1>0, <1>1, <1>3, <2>1 DEF HoldsKept, Holds, Own
  <1>5. Own'
    <2>1. ASSUME NEW s \in Sockets, Held(s)' PROVE use'[sock'[s]] = "conn" /\ status'[s] # "Closed"
      BY <1>0, <1>1, <1>3, <1>4, <2>1 DEF Own, Held
    <2>2. ASSUME NEW s \in Sockets, NEW r \in Sockets, Held(s)', Held(r)', sock'[r] = sock'[s]
          PROVE  r = s
      BY <1>0, <1>1, <1>4, <2>2 DEF Own, Holds
    <2> QED BY <2>1, <2>2 DEF Own, Holds
  <1>6. Routed'
    BY <1>0, <1>3, <1>4, KernelAssumption DEF Routed, HoldsKept
  <1>7. Listening'
    BY <1>0, <1>3 DEF Listening
  <1>8. Leak'
    BY <1>0, <1>1, <1>3, <1>4 DEF Leak, HoldsKept
  <1>9. PathFd'
    <2>1. \A t \in Threads : ~OnAcceptPath(t)
      BY <1>0
      DEF StartListen, NoTrespass, Threads, Flow, ThreadFlow, AppFlow, AcceptFlow,
          OnAcceptPath, AcceptPlaces, AcceptReturns, AcceptCalls, ListenPlaces, SendPlaces,
          ConnectPlaces, ClosePlaces
    <2>2. \A t \in Threads : AcceptedFd(t)' /\ AcceptOpen(t)'
      BY <1>1, <2>1
      DEF AcceptedFd, AcceptOpen, HasAccepted, OnAcceptPath, AcceptPlaces, ListenPlaces
    <2>3. \A t \in Threads : LocalFd(t)'
      BY <1>0, <1>1 DEF PathFd, LocalFd
    <2> QED BY <2>2, <2>3 DEF PathFd
  <1> QED BY <1>5, <1>6, <1>7, <1>8, <1>9 DEF Descriptors

\* A thread that enters or leaves a loop changes no object and no number.
LEMMA IdleKeeps ==
  ASSUME Fenced, NEW t \in Threads, Others(t),
         UNCHANGED <<use, mark, ptr, status, sock, alive, lsock>>,
         pc[t] \in {"off", "wait", "finish"},
         pc'[t] \in {"wait", "parse", "acceptLock", "idle"},
         ret'[t] \in {ret[t], "rearmGet", "finish"}
  PROVE  Descriptors'
  <1>0. TypeInv /\ FdInv /\ Own /\ PathFd /\ Flow
    BY DEF Fenced, FdInv, Descriptors
  <1>1. ret[t] \notin AcceptReturns
    BY <1>0 DEF Flow, ThreadFlow, AcceptFlow, AcceptCalls, SendPlaces
  <1>2. AcceptedFd(t)' /\ AcceptOpen(t)' /\ LocalFd(t)'
    BY <1>1
    DEF AcceptedFd, AcceptOpen, LocalFd, HasAccepted, OnAcceptPath, AcceptPlaces,
        AcceptReturns, ListenPlaces
  <1>3. HoldsKept /\ Undisturbed(t) /\ RegistersOwner
    BY <1>0, HoldsSame, NoObjectChanged DEF GonePlaces, RegistersOwner
  <1> QED BY <1>0, <1>2, <1>3, KeepStep DEF Own

\* A new connection begins without a number.
LEMMA ConnectToHostKeeps ==
  ASSUME NoTrespass, Fenced, NEW t \in Apps, NEW s \in Sockets, ConnectToHost(t, s),
         UNCHANGED manager
  PROVE  Descriptors'
  <1>0. t \in Threads /\ TypeInv /\ UnbornUnused /\ FdInv /\ Flow /\ Own /\ PathFd
    BY DEF Fenced, FdInv, Descriptors, Threads
  <1>1. /\ Construct(s) /\ sock' = [sock EXCEPT ![s] = Zero] /\ SetStatus(s, "Connecting")
        /\ cur' = [cur EXCEPT ![t] = s] /\ ret' = [ret EXCEPT ![t] = "finish"]
        /\ UNCHANGED <<use, mark, ptr, fd, lsock>>
        /\ "connect" \in Usage
        /\ pc[t] = "idle" /\ pc'[t] = "connectSocket"
        /\ \A u \in Threads : u # t => pc'[u] = pc[u]
    BY <1>0, GotoOne DEF ConnectToHost, NoTrespass, manager, kernel, fdt, reg
  <1>2. Others(t) /\ cur'[t] = s /\ ret'[t] = "finish"
    BY <1>0, <1>1 DEF Others, TypeInv, TypeOK, ThreadTypeOK
  <1>3. ~alive[s] /\ (\A u \in Threads : ~Uses(u, s))
    BY <1>0, <1>1 DEF Construct, UnbornUnused
  <1>4. /\ sock'[s] = Zero /\ status'[s] = "Connecting"
        /\ \A r \in Sockets : r # s =>
             alive'[r] = alive[r] /\ sock'[r] = sock[r] /\ status'[r] = status[r]
    BY <1>0, <1>1 DEF Construct, SetStatus, TypeInv, TypeOK, ObjectTypeOK
  <1>5. HoldsKept
    <2>1. \A r \in Sockets : r # s => (FdGone(r)' <=> FdGone(r))
      BY <1>1, <1>2 DEF FdGone, Others
    <2>2. \A r \in Sockets : r # s => (Held(r)' <=> Held(r))
      BY <1>4, <2>1 DEF Held
    <2> QED BY <1>3, <1>4, <2>2, KernelAssumption DEF HoldsKept, Holds, Held
  <1>6. \A u \in Threads : ~OnAcceptPath(u)
    BY <1>0, <1>1, NoAcceptor
  <1>7. AcceptedFd(t)' /\ AcceptOpen(t)' /\ LocalFd(t)'
    BY <1>1, <1>2, <1>4
    DEF AcceptedFd, AcceptOpen, LocalFd, HasAccepted, OnAcceptPath, AcceptPlaces,
        AcceptReturns, ListenPlaces, NoFd
  <1>8. Undisturbed(t)
    <2> SUFFICES ASSUME NEW u \in Threads, u # t PROVE LocalFd(u)' /\ AcceptOpen(u)'
      BY DEF Undisturbed
    <2>1. pc'[u] = pc[u] /\ cur'[u] = cur[u] /\ fd'[u] = fd[u] /\ ret'[u] = ret[u]
      BY <1>2 DEF Others
    <2>2. pc[u] \in UsePlaces => cur[u] \in Sockets /\ cur[u] # s
      BY <1>0, <1>3 DEF TypeInv, HasObject, Uses
    <2>3. LocalFd(u)'
      BY <1>0, <1>4, <2>1, <2>2
      DEF PathFd, LocalFd, UsePlaces, Places, WorkerPlaces, ConnectPlaces
    <2>4. AcceptOpen(u)'
      BY <1>6, <2>1 DEF AcceptOpen, HasAccepted, OnAcceptPath
    <2> QED BY <2>3, <2>4
  <1>9. RegistersOwner /\ \A r \in Sockets : Held(r) => status'[r] # "Closed"
    BY <1>0, <1>1, <1>3, <1>4 DEF RegistersOwner, Own, Held
  <1> QED BY <1>0, <1>1, <1>2, <1>5, <1>7, <1>8, <1>9, KeepStep

\* Every step keeps the descriptors in order.
LEMMA FdStep ==
  ASSUME NoTrespass, Fenced, [Next]_vars
  PROVE  FdInv'
  <1>0. TypeInv /\ ConnectFinishes /\ Flow /\ Mutex /\ FdInv /\ Descriptors
    BY DEF Fenced, FdInv
  <1>1. ASSUME UNCHANGED <<use, mark, ptr, status, sock, alive, pc, cur, fd, ret, lsock>>
        PROVE  Descriptors'
    BY <1>0, <1>1
    DEF Descriptors, Own, Routed, Listening, PathFd, AcceptedFd, AcceptOpen, LocalFd, Leak,
        Held, Holds, FdGone, Claimed, Unclaimed, HasAccepted, OnAcceptPath
  <1>2. CASE Next
    <2>1. Flow' /\ Mutex'
      BY <1>0, <1>2, FlowStep, MutexStep
    <2>2. ASSUME NEW t \in Threads, NEW p, Goto(t, p), UNCHANGED <<cur, fd>> \/ Forget(t)
                   \/ (\E s : cur' = [cur EXCEPT ![t] = s] /\ UNCHANGED fd),
                 UNCHANGED ret \/ Forget(t) \/ ret' = [ret EXCEPT ![t] = "rearmGet"]
          PROVE  Others(t) /\ pc'[t] = p /\ ret'[t] \in {ret[t], "rearmGet", "finish"}
      <3>1. \A u \in Threads : u # t => cur'[u] = cur[u] /\ fd'[u] = fd[u]
        BY <1>0, <2>2, ForgetOne DEF TypeInv, TypeOK, ThreadTypeOK
      <3>2. /\ \A u \in Threads : u # t => ret'[u] = ret[u]
            /\ ret'[t] \in {ret[t], "rearmGet", "finish"}
        BY <1>0, <2>2, ForgetOne DEF TypeInv, TypeOK, ThreadTypeOK
      <3> QED BY <1>0, <2>2, <3>1, <3>2, GotoOne DEF Others
    <2>3. ASSUME NEW t \in Workers, StartWorker(t) PROVE Descriptors'
      <3>1. t \in Threads /\ pc[t] = "off" /\ UNCHANGED <<cur, fd, ret>> /\ Goto(t, "wait")
        BY <2>3 DEF StartWorker, local, Threads
      <3> QED
        BY <2>2, <2>3, <3>1, IdleKeeps
        DEF StartWorker, kernel, fdt, reg, object, manager
    <2>4. ASSUME NEW t \in Workers, NEW f \in Fds, EpollWait(t, f) PROVE Descriptors'
      <3>1. /\ t \in Threads /\ pc[t] = "wait"
            /\ UNCHANGED <<use, mark, ptr, status, sock, alive, lsock>>
        BY <2>4 DEF EpollWait, Disarm, Threads, fdt, object
      <3>2. CASE Goto(t, "parse")
        BY <2>2, <2>4, <3>1, <3>2, IdleKeeps, GotoOne, <1>0 DEF EpollWait
      <3>3. CASE Goto(t, "acceptLock")
        BY <2>2, <2>4, <3>1, <3>3, IdleKeeps, GotoOne, <1>0 DEF EpollWait
      <3> QED BY <2>4, <3>2, <3>3 DEF EpollWait
    <2>5. ASSUME NEW t \in Apps, AppFinish(t) PROVE Descriptors'
      <3>1. t \in Threads /\ pc[t] = "finish" /\ Forget(t) /\ Goto(t, "idle")
        BY <2>5 DEF AppFinish, Threads
      <3> QED
        BY <2>2, <2>5, <3>1, IdleKeeps DEF AppFinish, kernel, fdt, reg, object, manager
    <2>6. ASSUME NEW t \in Apps, AppStep(t) PROVE Descriptors'
      BY <2>6, ConnectToHostKeeps DEF AppStep, AppClose, NoTrespass
    <2>7. CASE Peer
      <3>1. UNCHANGED <<use, mark, ptr, status, sock, alive, pc, cur, fd, ret, lsock>>
        BY <2>7
        DEF Peer, PeerConnect, PeerSend, PeerEof, PeerReset, PeerAnswer, PeerReads, Arrives,
            SetWire, SetFull, reg, local, manager, object
      <3> QED BY <1>1, <2>1, <3>1 DEF FdInv
    <2> QED
      BY <1>2, <2>1, <2>3, <2>4, <2>5, <2>6, <2>7, SocketStepKeeps, ManagerStepKeeps,
         StartListenKeeps
      DEF Next, Wait, FdInv
  <1>3. CASE UNCHANGED vars
    <2>1. UNCHANGED <<use, mark, ptr, status, sock, alive, pc, cur, fd, ret, shut, lock, lsock, lsn>>
      BY <1>3 DEF vars, kernel, fdt, reg, object, local, manager
    <2>2. Flow' /\ Mutex'
      BY <1>0, <2>1
      DEF Flow, ThreadFlow, AppFlow, AcceptFlow, ShutdownFlow, ConnectFlow, ConnectUsed,
          OnAcceptPath, Mutex, InMutex
    <2>3. Descriptors'
      BY <1>1, <2>1
    <2> QED BY <2>2, <2>3 DEF FdInv
  <1> QED BY <1>2, <1>3

-----------------------------------------------------------------------------
(***************************************************************************)
(* The theorems, where the application touches a connection only from its  *)
(* handlers: then OneHandler says that a connection is in one hand.        *)
(***************************************************************************)
OwnerInv == HandlerInv /\ FdInv

LEMMA OwnerFenced ==
  ASSUME HandlersOnly, OwnerInv
  PROVE  Fenced
  BY DEF HandlersOnly, UsedAfterwards, OwnerInv, HandlerInv, Exclusive, OneHandler, Alone,
         UnbornUnknown, UnbornUnused, Uses, Fenced

LEMMA OwnerInvariant ==
  ASSUME HandlersOnly, NoTrespass
  PROVE  /\ Init => OwnerInv
         /\ OwnerInv /\ [Next]_vars => OwnerInv'
  <1>1. Init => OwnerInv
    BY InitHandlerInv, InitFdInv DEF OwnerInv
  <1>2. ASSUME OwnerInv, [Next]_vars PROVE OwnerInv'
    <2>1. HandlerInv'
      BY <1>2, HandlerStep DEF OwnerInv
    <2>2. FdInv'
      BY <1>2, OwnerFenced, FdStep
    <2> QED BY <2>1, <2>2 DEF OwnerInv
  <1> QED BY <1>1, <1>2

\* A live connection holds its descriptor.
LEMMA LiveHeld ==
  ASSUME TypeInv, NEW s \in Sockets, Live(s)
  PROVE  Held(s) /\ Holds(s, sock[s]) /\ sock[s] \in Fds
  BY DEF Live, Held, Holds, TypeInv, TypeOK, ObjectTypeOK

\* An event is dispatched to the object that holds the descriptor, never to one that is
\* closed or was deleted or has another number by now.
THEOREM EventsFindOwner == ASSUME HandlersOnly, NoTrespass PROVE Spec => []RoutedToOwner
  <1>1. OwnerInv => RoutedToOwner
    BY DEF OwnerInv, FdInv, Descriptors, Own, Routed, Holds, Held, RoutedToOwner
  <1> QED BY OwnerInvariant, <1>1, PTL DEF Spec

\* The number in m_socket of a live connection is open and belongs to this connection
\* alone, although the kernel hands a closed number out again at once.
THEOREM LiveOwnsNumber == ASSUME HandlersOnly, NoTrespass PROVE Spec => []OwnFd
  <1>1. OwnerInv => OwnFd
    BY LiveHeld
    DEF OwnerInv, HandlerInv, FdInv, Descriptors, Own, Holds, OwnFd, IsOpen
  <1> QED BY OwnerInvariant, <1>1, PTL DEF Spec

\* No descriptor of a connection is lost: whatever the callbacks do and whichever
\* calls fail, an object that is not closed holds it or the accept path still has it.
THEOREM NoNumberLost == ASSUME HandlersOnly, NoTrespass PROVE Spec => []NoFdLeak
  <1>1. OwnerInv => NoFdLeak
    BY DEF OwnerInv, FdInv, Descriptors, Own, Leak, Holds, Held, NoFdLeak
  <1> QED BY OwnerInvariant, <1>1, PTL DEF Spec

\* Only CloseFinal and the deny check of the accept path free a number.
LEMMA WhoCloses ==
  ASSUME TypeInv, Next, NEW f \in Fds, use[f] # "free", use'[f] = "free"
  PROVE  \E t \in Threads :
           \/ CloseFd(t) /\ sock[cur[t]] = f
           \/ DenyCheck(t) /\ Denied(fd[t]) /\ fd[t] = f
  <1>0. use \in [Fds -> {"free", "listen", "conn"}]
    BY DEF TypeInv, TypeOK, KernelTypeOK, FdtTypeOK
  <1>1. ~UNCHANGED use
    OBVIOUS
  <1>2. ASSUME NEW g, SysClose(g) PROVE g = f /\ g \in Fds
    BY <1>0, <1>1, <1>2 DEF SysClose, NewFd, Bind, IsOpen, kernel, fdt
  <1>3. ASSUME NEW g \in FreeFds, NEW u, use' = [use EXCEPT ![g] = u], u # "free" PROVE FALSE
    BY <1>0, <1>3 DEF FreeFds
  <1>4. ASSUME NEW t \in Threads, SocketStep(t) PROVE CloseFd(t) /\ sock[cur[t]] = f
    <2>1. CASE CloseFd(t)
      BY <1>2, <2>1 DEF CloseFd
    <2>2. CASE ConnectSocket(t)
      BY <1>1, <1>3, <2>2 DEF ConnectSocket, NewFd, Bind, fdt
    <2> QED
      BY <1>1, <1>4, <2>1, <2>2
      DEF SocketStep, kernel, fdt, SetWire, SetFull, SetMark, Close, CloseMark, SetClosed,
          DropFd, Accepting, AcceptAdd, AcceptMark, onConnected, onReceiving, Recv, AfterRecv,
          Callback, Send, SendLoop, SendFile, ResumeSendFile, SendFileLoop, ConnectHost,
          ConnectAdd
  <1>5. ASSUME NEW t \in Threads, ManagerStep(t)
        PROVE  DenyCheck(t) /\ Denied(fd[t]) /\ fd[t] = f
    <2>1. CASE DenyCheck(t)
      BY <1>1, <1>2, <2>1 DEF DenyCheck, SetNonBlocking
    <2>2. CASE OnAccepting(t)
      BY <1>1, <1>3, <2>2 DEF OnAccepting, SysAccept, Bind, fdt
    <2> QED
      BY <1>1, <1>5, <2>1, <2>2
      DEF ManagerStep, kernel, fdt, _ParseEvents, RearmGet, ModifySocket, CloseEvent,
          RemoveLock, RemoveSocket, RemoveUnlock, AcceptLock, AcceptCallback, ListenRearm
  <1>6. ASSUME NEW l \in Listeners, StartListen(l) PROVE FALSE
    BY <1>3, <1>6 DEF StartListen, NewFd, Bind
  <1>7. CASE UNCHANGED use
    BY <1>1, <1>7
  <1> QED
    BY <1>4, <1>5, <1>6, <1>7
    DEF Next, Threads, kernel, fdt, StartWorker, Wait, EpollWait, AppStep, AppFinish,
        ConnectToHost, AppClose, Peer, PeerConnect, PeerSend, PeerEof, PeerReset, PeerAnswer,
        PeerReads, Arrives, SetWire, SetFull

\* The number of a live connection is closed by CloseFinal of this connection and by
\* nothing else: neither the deny check of the accept path nor a thread that closes
\* another connection hits it.
THEOREM NobodyElseCloses == ASSUME HandlersOnly, NoTrespass PROVE Spec => CloseOnlyOwn
  <1>1. ASSUME OwnerInv, [Next]_vars, NEW s \in Sockets, Live(s), IsOpen(sock[s]),
               use'[sock[s]] = "free"
        PROVE  \E t \in Threads : pc[t] = "closeFd" /\ cur[t] = s
    <2>0. TypeInv /\ Fenced /\ Own /\ PathFd /\ Holds(s, sock[s]) /\ sock[s] \in Fds
      BY <1>1, OwnerFenced, LiveHeld DEF OwnerInv, HandlerInv, FdInv, Descriptors
    <2>1. Next
      BY <1>1 DEF IsOpen, vars, kernel, fdt
    <2>2. PICK t \in Threads :
            \/ CloseFd(t) /\ sock[cur[t]] = sock[s]
            \/ DenyCheck(t) /\ Denied(fd[t]) /\ fd[t] = sock[s]
      BY <1>1, <2>0, <2>1, WhoCloses DEF IsOpen
    <2>3. CASE CloseFd(t) /\ sock[cur[t]] = sock[s]
      <3>1. /\ pc[t] = "closeFd" /\ pc[t] \in HandlerPlaces \ {"setClosed", "dropFd"}
            /\ cur[t] \in Sockets
        BY <2>0, <2>3
        DEF CloseFd, TypeInv, HasObject, HandlerPlaces, UsePlaces, Places, ClosePlaces
      <3>2. Holds(cur[t], sock[cur[t]])
        BY <2>0, <2>3, <3>1, HandlerHolds DEF Fenced
      <3> QED BY <2>0, <2>3, <3>1, <3>2 DEF Own, Holds
    <2>4. CASE DenyCheck(t) /\ Denied(fd[t]) /\ fd[t] = sock[s]
      <3>1. Unclaimed(fd[t])
        BY <2>0, <2>4 DEF DenyCheck, Denied, IsOpen, PathFd, AcceptedFd, Claimed
      <3> QED BY <2>0, <2>4, <3>1 DEF Unclaimed
    <2> QED BY <2>2, <2>3, <2>4
  <1>2. OwnerInv /\ [Next]_vars =>
          [\A s \in Sockets :
             Live(s) /\ IsOpen(sock[s]) /\ use'[sock[s]] = "free" =>
               \E t \in Threads : pc[t] = "closeFd" /\ cur[t] = s]_vars
    BY <1>1
  <1> QED BY OwnerInvariant, <1>2, PTL DEF Spec, CloseOnlyOwn
=============================================================================
