------------------------ MODULE TCPServerLife_proofs ------------------------
(***************************************************************************)
(* The life of a connection object, in two usages of the library.          *)
(*                                                                         *)
(* First with one worker thread, for any number of connecting application  *)
(* threads, connections, listeners and descriptors, when OnClosed may      *)
(* delete the object and the accept callback may go on using it.           *)
(* HandlersOnly does not hold there, and OneHandler is not used.  That a   *)
(* deleted object is not touched again follows from who can still reach it *)
(* (Apart) and from the descriptors (FdInv): an object without a           *)
(* descriptor has no registration, so no event leads to it.                *)
(*                                                                         *)
(* Then with any number of workers, when the application touches a         *)
(* connection only from its handlers: TCPServer implements Connections.    *)
(* Each action is one step of one connection's life, or is not seen.       *)
(***************************************************************************)
EXTENDS TCPServerWake_proofs

-----------------------------------------------------------------------------
\* With two workers TLC shows a deleted object in use (run delete).
OneWorker == \A t, u \in Workers : t = u

\* ConnectToHost works on an object that nobody else can reach, until the last call
\* of epoll_ctl() hands it to the worker.
Connecting ==
  \A t \in Apps : \A s \in Sockets : Uses(t, s) =>
    (\A u \in Threads : Uses(u, s) => u = t) /\ (\A f \in Fds : ptr[f] # s)

\* After OnClosed neither a thread nor a registration leads to the object.
ClosedLast ==
  \A s \in Sockets :
    /\ closed[s] <= 1
    /\ closed[s] # 0 => (\A t \in Threads : ~Uses(t, s)) /\ (\A f \in Fds : ptr[f] # s)

Apart == UnbornUnused /\ Connecting /\ ClosedLast
LifeInv == TypeInv /\ ConnectFinishes /\ Apart /\ FdInv

\* Initially no object is constructed.
LEMMA InitLifeInv == Init => LifeInv
  <1> SUFFICES ASSUME Init PROVE LifeInv
    OBVIOUS
  <1>1. TypeInv /\ ConnectFinishes /\ FdInv
    BY InitHandlerInv, InitFdInv DEF HandlerInv
  <1>2. Apart
    BY KernelAssumption
    DEF Init, KernelInit, Apart, UnbornUnused, Connecting, ClosedLast, Uses, UsePlaces
  <1> QED BY <1>1, <1>2 DEF LifeInv

\* With one worker no connection is in the hands of two threads.
LEMMA OneUser ==
  ASSUME OneWorker, LifeInv, NEW s \in Sockets,
         NEW t \in Threads, NEW u \in Threads, Uses(t, s), Uses(u, s)
  PROVE  t = u
  BY DEF LifeInv, Apart, Connecting, OneWorker, Threads

LEMMA LifeFenced ==
  ASSUME OneWorker, LifeInv
  PROVE  Fenced
  <1>1. Alone
    BY OneUser DEF Alone, Handles, Uses, HandlerPlaces
  <1> QED BY <1>1 DEF LifeInv, Apart, Fenced

-----------------------------------------------------------------------------
(***************************************************************************)
(* The kinds of steps.                                                     *)
(***************************************************************************)
\* A thread goes on with its object or leaves it; it may register it for others to
\* take when it is a worker, or on its way out.
LEMMA GoingOn ==
  ASSUME Apart, TypeInv,
         \A u \in Threads, s \in Sockets : Uses(u, s)' => Uses(u, s),
         \A f \in Fds : \A s \in Sockets : ptr'[f] = s =>
           \/ ptr[f] = s
           \/ \E t \in Threads : Uses(t, s) /\ (t \in Apps => ~Uses(t, s)'),
         UNCHANGED <<alive, closed>>
  PROVE  Apart'
  <1>1. UnbornUnused'
    BY DEF Apart, UnbornUnused
  <1>2. Connecting'
    <2> SUFFICES ASSUME NEW t \in Apps, NEW s \in Sockets, Uses(t, s)',
                        NEW f \in Fds, ptr'[f] = s
                 PROVE  FALSE
      BY DEF Apart, Connecting, Threads
    <2>1. Uses(t, s) /\ t \in Threads /\ ptr[f] # s
      BY DEF Threads, Apart, Connecting
    <2>2. PICK u \in Threads : Uses(u, s) /\ (u \in Apps => ~Uses(u, s)')
      BY <2>1
    <2>3. u = t
      BY <2>1, <2>2 DEF Apart, Connecting
    <2> QED BY <2>2, <2>3
  <1>3. ClosedLast'
    BY DEF Apart, ClosedLast
  <1> QED BY <1>1, <1>2, <1>3 DEF Apart

\* The worker takes a registered object.
LEMMA TakingIt ==
  ASSUME Apart, NEW t \in Workers, NEW f \in Fds, ptr[f] \in Sockets,
         \A u \in Threads, s \in Sockets : Uses(u, s)' => Uses(u, s) \/ (u = t /\ s = ptr[f]),
         UNCHANGED <<ptr, alive, closed>>
  PROVE  Apart'
  <1>1. UnbornUnused' /\ ClosedLast'
    BY DEF Apart, UnbornUnused, ClosedLast
  <1>2. Connecting'
    BY ThreadAssumption DEF Apart, Connecting, Threads
  <1> QED BY <1>1, <1>2 DEF Apart

\* A thread makes a new object.
LEMMA MakingIt ==
  ASSUME Apart, TypeInv, NEW t \in Threads, NEW s \in Sockets, ~alive[s],
         \A u \in Threads, r \in Sockets : Uses(u, r)' => Uses(u, r) \/ (u = t /\ r = s),
         UNCHANGED ptr,
         alive' = [alive EXCEPT ![s] = TRUE], closed' = [closed EXCEPT ![s] = 0]
  PROVE  Apart'
  <1>1. /\ alive'[s] /\ closed'[s] = 0
        /\ \A r \in Sockets : r # s => alive'[r] = alive[r] /\ closed'[r] = closed[r]
    BY DEF TypeInv, TypeOK, ObjectTypeOK
  <1>2. (\A u \in Threads : ~Uses(u, s)) /\ (\A f \in Fds : ptr[f] # s)
    BY DEF Apart, UnbornUnused
  <1>3. UnbornUnused' /\ ClosedLast'
    BY <1>1, <1>2 DEF Apart, UnbornUnused, ClosedLast
  <1>4. Connecting'
    BY <1>2 DEF Apart, Connecting, Threads
  <1> QED BY <1>3, <1>4 DEF Apart

-----------------------------------------------------------------------------
\* What a step makes of the objects in use: Uses depends on the place and the object.
LEMMA UseStep ==
  ASSUME TypeInv, NEW t \in Threads, NEW p, Goto(t, p),
         UNCHANGED cur \/ Forget(t), pc[t] \in UsePlaces \/ p \notin UsePlaces
  PROVE  /\ \A u \in Threads, s \in Sockets : Uses(u, s)' => Uses(u, s)
         /\ p \notin UsePlaces => \A s \in Sockets : ~Uses(t, s)'
  <1>1. \A u \in Threads : cur'[u] \in Sockets => cur'[u] = cur[u]
    BY KernelAssumption DEF Forget, TypeInv, TypeOK, ThreadTypeOK
  <1> QED BY <1>1, GotoOne DEF Uses

\* A step inside a method of clsTCPSocket.
LEMMA SocketStepApart ==
  ASSUME NoTrespass, OneWorker, LifeInv, NEW t \in Threads, SocketStep(t)
  PROVE  Apart'
  <1>0. /\ Apart /\ TypeInv /\ ConnectFinishes /\ Flow
        /\ cur[t] \in Sockets /\ pc[t] \in UsePlaces
    <2>1. pc[t] \in UsePlaces
      BY DEF SocketStep, Close, CloseMark, CloseFd, SetClosed, DropFd, Accepting, AcceptAdd,
             AcceptMark, onConnected, onReceiving, Recv, AfterRecv, Callback, Send, SendLoop,
             SendFile, ResumeSendFile, SendFileLoop, ConnectSocket, ConnectHost, ConnectAdd,
             UsePlaces, Places, WorkerPlaces, ListenPlaces, SendPlaces, ClosePlaces,
             ConnectPlaces
    <2> QED BY <2>1 DEF LifeInv, FdInv, TypeInv, HasObject
  <1>1. Uses(t, cur[t])
    BY <1>0 DEF Uses
  <1>2. UNCHANGED <<cur, alive, closed>>
    <2>1. UNCHANGED cur
      BY <1>0, SocketStepPlace
    <2> QED
      BY <2>1
      DEF SocketStep, object, Close, CloseMark, CloseFd, SetClosed, DropFd, Accepting,
          AcceptAdd, AcceptMark, onConnected, onReceiving, Recv, AfterRecv, Callback,
          Send, SendLoop, SendFile, ResumeSendFile, SendFileLoop, ConnectSocket,
          ConnectHost, ConnectAdd
  <1>3. \A u \in Threads, s \in Sockets : Uses(u, s)' => Uses(u, s)
    <2>1. \E p \in Places : Goto(t, p)
      BY <1>0, SocketStepPlace
    <2> QED BY <1>0, <1>2, <2>1, UseStep
  <1>4. CASE \A f \in Fds : ptr'[f] \in Sockets => ptr'[f] = ptr[f]
    BY <1>0, <1>2, <1>3, <1>4, GoingOn
  <1>5. CASE AcceptAdd(t)
    <2>1. t \notin Apps
      BY <1>0, <1>5 DEF AcceptAdd, Flow, ThreadFlow, AppFlow, ConnectPlaces, ClosePlaces
    <2>2. \A f \in Fds : ptr'[f] \in {ptr[f], cur[t]}
      BY <1>0, <1>5
      DEF AcceptAdd, EpollAdd, Arm, reg, TypeInv, TypeOK, KernelTypeOK, RegTypeOK
    <2>3. \A f \in Fds : \A s \in Sockets : ptr'[f] = s =>
            ptr[f] = s \/ (Uses(t, s) /\ t \notin Apps)
      BY <1>1, <2>1, <2>2
    <2> QED BY <1>0, <1>2, <1>3, <2>3, GoingOn
  <1>6. CASE ConnectAdd(t) /\ ~UNCHANGED reg
    <2>1. \A s \in Sockets : ~Uses(t, s)'
      <3>1. Goto(t, "finish")
        BY <1>0, <1>6 DEF ConnectAdd, Return, ConnectFinishes, ConnectPlaces
      <3> QED BY <1>0, <1>2, <3>1, UseStep DEF UsePlaces
    <2>2. \A f \in Fds : ptr'[f] \in {ptr[f], cur[t]}
      BY <1>0, <1>6
      DEF ConnectAdd, EpollAdd, Arm, reg, TypeInv, TypeOK, KernelTypeOK, RegTypeOK
    <2>3. \A f \in Fds : \A s \in Sockets : ptr'[f] = s =>
            ptr[f] = s \/ (Uses(t, s) /\ ~Uses(t, s)')
      BY <1>1, <2>1, <2>2
    <2> QED BY <1>0, <1>2, <1>3, <2>3, GoingOn
  <1>7. CASE CloseFd(t)
    <2>1. \A f \in Fds : ptr'[f] \in Sockets => ptr'[f] = ptr[f]
      BY <1>0, <1>7, KernelAssumption
      DEF CloseFd, SysClose, Unregister, kernel, reg, TypeInv, TypeOK, KernelTypeOK,
          RegTypeOK
    <2> QED BY <1>4, <2>1
  <1>8. CASE UNCHANGED reg
    BY <1>4, <1>8 DEF reg
  <1> QED
    BY <1>5, <1>6, <1>7, <1>8
    DEF SocketStep, kernel, Close, CloseMark, SetClosed, DropFd, Accepting, AcceptMark,
        onConnected, onReceiving, Recv, AfterRecv, Callback, Send, SendLoop, SendFile,
        ResumeSendFile, SendFileLoop, ConnectSocket, ConnectHost

\* OnClosed, and the deletion after it: the object has no descriptor, so by FdInv no
\* registration leads to it, and the worker that forgets it was the last to use it.
LEMMA CloseEventApart ==
  ASSUME OneWorker, LifeInv, NEW t \in Threads, CloseEvent(t)
  PROVE  Apart'
  <1>0. Apart /\ TypeInv /\ Routed
    BY DEF LifeInv, FdInv, Descriptors
  <1>1. PICK s \in Sockets : s = cur[t] /\ Uses(t, s)
    BY <1>0
    DEF CloseEvent, Uses, TypeInv, HasObject, UsePlaces, Places, WorkerPlaces
  <1>2. /\ \A u \in Threads, r \in Sockets : Uses(u, r)' => Uses(u, r)
        /\ \A r \in Sockets : ~Uses(t, r)'
    <2>1. Goto(t, "wait") /\ Forget(t) /\ "wait" \notin UsePlaces
      BY DEF CloseEvent, UsePlaces
    <2> QED BY <1>0, <2>1, UseStep
  <1>3. UNCHANGED ptr
    BY DEF CloseEvent, kernel, reg
  <1>4. CASE sock[s] # Invalid
    <2>1. UNCHANGED <<alive, closed>>
      BY <1>1, <1>4 DEF CloseEvent
    <2> QED BY <1>0, <1>2, <1>3, <2>1, GoingOn
  <1>5. CASE sock[s] = Invalid
    <2>1. \A f \in Fds : ptr[f] # s
      BY <1>0, <1>5, KernelAssumption DEF Routed, Holds, Held
    <2>2. \A u \in Threads : ~Uses(u, s)'
      BY <1>1, <1>2, OneUser
    <2>3. closed[s] = 0
      BY <1>0, <1>1 DEF Apart, ClosedLast, TypeInv, TypeOK, ObjectTypeOK, MaxClosed
    <2>4. /\ closed'[s] = 1
          /\ \A r \in Sockets : r # s => closed'[r] = closed[r] /\ alive'[r] = alive[r]
      BY <1>0, <1>1, <1>5, <2>3
      DEF CloseEvent, TypeInv, TypeOK, ObjectTypeOK, MaxClosed
    <2>5. UnbornUnused' /\ ClosedLast'
      BY <1>0, <1>2, <1>3, <2>1, <2>2, <2>4 DEF Apart, UnbornUnused, ClosedLast
    <2>6. Connecting'
      BY <1>0, <1>2, <1>3 DEF Apart, Connecting, Threads
    <2> QED BY <2>5, <2>6 DEF Apart
  <1> QED BY <1>4, <1>5

\* The other steps of the manager.
LEMMA ManagerStepApart ==
  ASSUME OneWorker, LifeInv, NEW t \in Threads, ManagerStep(t)
  PROVE  Apart'
  <1> USE DEF local, object, kernel
  <1>0. Apart /\ TypeInv /\ Flow
    BY DEF LifeInv, FdInv
  <1>1. ASSUME UNCHANGED cur \/ Forget(t),
               \E p : Goto(t, p) /\ (pc[t] \in UsePlaces \/ p \notin UsePlaces),
               \A f \in Fds : \A s \in Sockets : ptr'[f] = s => ptr[f] = s,
               UNCHANGED <<alive, closed>>
        PROVE  Apart'
    <2>1. \A u \in Threads, s \in Sockets : Uses(u, s)' => Uses(u, s)
      BY <1>0, <1>1, UseStep
    <2> QED BY <1>0, <1>1, <2>1, GoingOn
  <1>2. CASE _ParseEvents(t) \/ RearmGet(t)
    BY <1>1, <1>2 DEF _ParseEvents, RearmGet, reg, UsePlaces, Places, WorkerPlaces
  <1>3. CASE ModifySocket(t)
    <2>1. /\ t \notin Apps /\ pc[t] \in UsePlaces /\ Goto(t, "closeEvent")
          /\ UNCHANGED <<cur, alive, closed>>
      BY <1>0, <1>3
      DEF ModifySocket, Flow, ThreadFlow, AppFlow, ConnectPlaces, ClosePlaces, UsePlaces,
          Places, WorkerPlaces
    <2>2. Uses(t, cur[t]) /\ cur[t] \in Sockets
      BY <1>0, <2>1 DEF Uses, TypeInv, HasObject
    <2>3. \A f \in Fds : ptr'[f] \in {ptr[f], cur[t]}
      BY <1>0, <1>3
      DEF ModifySocket, EpollMod, Arm, reg, TypeInv, TypeOK, KernelTypeOK, RegTypeOK
    <2>4. \A f \in Fds : \A s \in Sockets : ptr'[f] = s =>
            ptr[f] = s \/ (Uses(t, s) /\ t \notin Apps)
      BY <2>1, <2>2, <2>3
    <2>5. \A u \in Threads, s \in Sockets : Uses(u, s)' => Uses(u, s)
      BY <1>0, <2>1, UseStep
    <2> QED BY <1>0, <2>1, <2>4, <2>5, GoingOn
  <1>4. CASE CloseEvent(t)
    BY <1>4, CloseEventApart
  <1>5. CASE RemoveLock(t) \/ RemoveUnlock(t)
    BY <1>1, <1>5 DEF RemoveLock, RemoveUnlock, Return, reg, UsePlaces, Places, ClosePlaces
  <1>6. CASE RemoveSocket(t) \/ DenyCheck(t)
    <2>1. \A f \in Fds : \A s \in Sockets : ptr'[f] = s => ptr[f] = s
      BY <1>0, <1>6, KernelAssumption
      DEF RemoveSocket, DenyCheck, EpollDel, SysClose, Unregister, reg, TypeInv, TypeOK,
          KernelTypeOK, RegTypeOK
    <2> QED
      BY <1>1, <1>6, <2>1
      DEF RemoveSocket, DenyCheck, manager, UsePlaces, Places, ClosePlaces
  <1>7. CASE AcceptLock(t) \/ OnAccepting(t)
    BY <1>1, <1>7 DEF AcceptLock, OnAccepting, reg, UsePlaces
  <1>8. CASE AcceptCallback(t)
    <2>1. CASE UNCHANGED <<object, cur, closed>> /\ Goto(t, "denyCheck")
      BY <1>1, <1>8, <2>1 DEF AcceptCallback, reg, UsePlaces
    <2>2. ASSUME NEW s \in Sockets, Construct(s), cur' = [cur EXCEPT ![t] = s],
                 closed' = [closed EXCEPT ![s] = 0], Goto(t, "accepting")
          PROVE  Apart'
      <3>1. \A u \in Threads, r \in Sockets : Uses(u, r)' => Uses(u, r) \/ (u = t /\ r = s)
        BY <1>0, <2>2, GotoOne DEF Uses, TypeInv, TypeOK, ThreadTypeOK
      <3> QED BY <1>0, <1>8, <2>2, <3>1, MakingIt DEF AcceptCallback, Construct, reg
    <2> QED BY <1>8, <2>1, <2>2 DEF AcceptCallback
  <1>9. CASE ListenRearm(t)
    <2>1. lsn[t] \notin Sockets
      BY <1>0, KernelAssumption DEF TypeInv, TypeOK, ThreadTypeOK
    <2>2. \A f \in Fds : \A s \in Sockets : ptr'[f] = s => ptr[f] = s
      BY <1>0, <1>9, <2>1
      DEF ListenRearm, EpollMod, Arm, reg, TypeInv, TypeOK, KernelTypeOK, RegTypeOK
    <2> QED BY <1>1, <1>9, <2>2 DEF ListenRearm, UsePlaces
  <1> QED
    BY <1>2, <1>3, <1>4, <1>5, <1>6, <1>7, <1>8, <1>9 DEF ManagerStep

\* Every step keeps the object of one thread apart from those of the others.
LEMMA ApartStep ==
  ASSUME NoTrespass, OneWorker, LifeInv, Next
  PROVE  Apart'
  <1> USE DEF local, object, kernel
  <1>0. Apart /\ TypeInv
    BY DEF LifeInv
  <1>1. ASSUME NEW t \in Threads, SocketStep(t) \/ ManagerStep(t) PROVE Apart'
    BY <1>1, SocketStepApart, ManagerStepApart
  <1>2. ASSUME NEW l \in Listeners, StartListen(l) PROVE Apart'
    <2>1. \A f \in Fds : \A s \in Sockets : ptr'[f] = s => ptr[f] = s
      BY <1>0, <1>2, KernelAssumption
      DEF StartListen, Arm, reg, TypeInv, TypeOK, KernelTypeOK, RegTypeOK
    <2> QED BY <1>0, <1>2, <2>1, GoingOn DEF StartListen, Uses
  <1>3. ASSUME NEW t \in Threads, UNCHANGED cur \/ Forget(t),
               Goto(t, "wait") \/ Goto(t, "idle"), UNCHANGED <<ptr, alive, closed>>
        PROVE  Apart'
    <2>1. \A u \in Threads, s \in Sockets : Uses(u, s)' => Uses(u, s)
      BY <1>0, <1>3, UseStep DEF UsePlaces
    <2> QED BY <1>0, <1>3, <2>1, GoingOn
  <1>4. ASSUME NEW t \in Workers, StartWorker(t) PROVE Apart'
    BY <1>3, <1>4 DEF StartWorker, Threads, reg
  <1>5. ASSUME NEW t \in Apps, AppFinish(t) PROVE Apart'
    BY <1>3, <1>5 DEF AppFinish, Threads, reg
  <1>6. ASSUME NEW t \in Workers, NEW f \in Fds, EpollWait(t, f) PROVE Apart'
    <2>1. t \in Threads /\ UNCHANGED <<ptr, alive, closed>>
      BY <1>6 DEF EpollWait, Disarm, Threads
    <2>2. CASE ptr[f] \in Sockets /\ cur' = [cur EXCEPT ![t] = ptr[f]] /\ Goto(t, "parse")
      <3>1. \A u \in Threads, s \in Sockets :
              Uses(u, s)' => Uses(u, s) \/ (u = t /\ s = ptr[f])
        BY <1>0, <2>1, <2>2, GotoOne DEF Uses, TypeInv, TypeOK, ThreadTypeOK
      <3> QED BY <1>0, <2>1, <2>2, <3>1, TakingIt
    <2>3. CASE UNCHANGED cur /\ Goto(t, "acceptLock")
      <3>1. \A u \in Threads, s \in Sockets : Uses(u, s)' => Uses(u, s)
        BY <1>0, <2>1, <2>3, UseStep DEF UsePlaces
      <3> QED BY <1>0, <2>1, <3>1, GoingOn
    <2> QED BY <1>6, <2>2, <2>3 DEF EpollWait
  <1>7. ASSUME NEW t \in Apps, AppStep(t) PROVE Apart'
    <2>1. PICK s \in Sockets : ConnectToHost(t, s) /\ closed' = [closed EXCEPT ![s] = 0]
      BY <1>7 DEF AppStep, AppClose, NoTrespass
    <2>2. /\ t \in Threads /\ ~alive[s] /\ alive' = [alive EXCEPT ![s] = TRUE]
          /\ UNCHANGED ptr
          /\ cur' = [cur EXCEPT ![t] = s] /\ Goto(t, "connectSocket")
      BY <2>1 DEF ConnectToHost, Construct, NoTrespass, Threads, reg
    <2>3. \A u \in Threads, r \in Sockets : Uses(u, r)' => Uses(u, r) \/ (u = t /\ r = s)
      BY <1>0, <2>2, GotoOne DEF Uses, TypeInv, TypeOK, ThreadTypeOK
    <2> QED BY <1>0, <2>1, <2>2, <2>3, MakingIt
  <1>8. CASE Peer
    <2>1. UNCHANGED <<pc, cur, alive, closed, ptr>>
      BY <1>8 DEF Peer, PeerConnect, PeerSend, PeerEof, PeerReset, PeerAnswer, PeerReads,
                  Arrives, reg
    <2> QED BY <1>0, <2>1, GoingOn DEF Uses
  <1> QED
    BY <1>1, <1>2, <1>4, <1>5, <1>6, <1>7, <1>8 DEF Next, Wait

\* LifeInv is inductive.
LEMMA LifeInvariant ==
  ASSUME NoTrespass, OneWorker
  PROVE  /\ Init => LifeInv
         /\ LifeInv /\ [Next]_vars => LifeInv'
  <1> SUFFICES ASSUME LifeInv, [Next]_vars PROVE LifeInv'
    BY InitLifeInv
  <1>1. TypeInv' /\ FdInv'
    BY TypeStep, LifeFenced, FdStep DEF LifeInv
  <1>2. CASE Next
    BY <1>1, <1>2, ApartStep, ConnectFinishesStep DEF LifeInv
  <1>3. CASE UNCHANGED vars
    <2>1. Apart' /\ ConnectFinishes'
      BY <1>3
      DEF vars, kernel, reg, object, local, LifeInv, Apart, UnbornUnused, Connecting,
          ClosedLast, Uses, ConnectFinishes
    <2> QED BY <1>1, <2>1 DEF LifeInv
  <1> QED BY <1>2, <1>3

-----------------------------------------------------------------------------
\* "delete this" in OnClosed is safe in a server with one worker: no thread works on an
\* object that was deleted, whichever of the callbacks close, send and go on using it,
\* and although closed numbers and deleted objects are used again at once.
THEOREM DeletedUnused ==
  ASSUME NoTrespass, OneWorker PROVE Spec => []NoUseAfterDelete
  <1>1. LifeInv => NoUseAfterDelete
    BY DEF LifeInv, Apart, UnbornUnused, NoUseAfterDelete
  <1> QED BY LifeInvariant, <1>1, PTL DEF Spec

\* With one worker OnClosed is called at most once for a connection, so what it frees
\* is freed once.
THEOREM ClosedOnce ==
  ASSUME NoTrespass, OneWorker PROVE Spec => []OnClosedOnce
  <1>1. LifeInv => OnClosedOnce
    BY DEF LifeInv, Apart, ClosedLast, OnClosedOnce
  <1> QED BY LifeInvariant, <1>1, PTL DEF Spec

\* The descriptors are in order as well in this usage: events find their owner, a live
\* connection has its number for itself and no number is lost.
THEOREM OneWorkerOwns ==
  ASSUME NoTrespass, OneWorker
  PROVE  Spec => [](RoutedToOwner /\ OwnFd /\ NoFdLeak)
  <1>1. LifeInv => RoutedToOwner
    BY DEF LifeInv, FdInv, Descriptors, Own, Routed, Holds, Held, RoutedToOwner
  <1>2. LifeInv => OwnFd
    BY LiveHeld DEF LifeInv, FdInv, Descriptors, Own, Holds, OwnFd, IsOpen
  <1>3. LifeInv => NoFdLeak
    BY DEF LifeInv, FdInv, Descriptors, Own, Leak, Holds, Held, NoFdLeak
  <1> QED BY LifeInvariant, <1>1, <1>2, <1>3, PTL DEF Spec

-----------------------------------------------------------------------------
(***************************************************************************)
(* The server implements Connections, where the application touches a      *)
(* connection only from its handlers.                                      *)
(***************************************************************************)
ConnectionStep == [Connection!Next]_<<phase, number, hand>>

\* The mapping has the values of Phase, Number and Hand.
LEMMA MappedValues ==
  ASSUME NEW s \in Sockets
  PROVE  /\ phase[s] = Phase(s) /\ number[s] = Number(s) /\ hand[s] = Hand(s)
         /\ phase'[s] = Phase(s)' /\ number'[s] = Number(s)' /\ hand'[s] = Hand(s)'
  BY DEF phase, number, hand

\* Hand finds the thread that has the connection in its hands.
LEMMA HandOf ==
  ASSUME NEW s \in Sockets
  PROVE  /\ ~Handled(s) => Hand(s) = None
         /\ \A t \in Threads : OneHandler /\ Handles(t, s) => Hand(s) = t
         /\ Handled(s) => Hand(s) \in Threads /\ Handles(Hand(s), s)
  <1>1. ~Handled(s) => Hand(s) = None
    BY DEF Hand
  <1>2. Handled(s) => Hand(s) \in Threads /\ Handles(Hand(s), s)
    BY DEF Hand, Handled
  <1>3. ASSUME NEW t \in Threads, OneHandler, Handles(t, s) PROVE Hand(s) = t
    BY <1>2, <1>3 DEF OneHandler, Handled
  <1> QED BY <1>1, <1>2, <1>3

LEMMA HandOfNext ==
  ASSUME NEW s \in Sockets
  PROVE  /\ ~Handled(s)' => Hand(s)' = None
         /\ \A t \in Threads : OneHandler' /\ Handles(t, s)' => Hand(s)' = t
  <1>1. ~Handled(s)' => Hand(s)' = None
    BY DEF Hand
  <1>2. Handled(s)' => Hand(s)' \in Threads /\ Handles(Hand(s), s)'
    BY DEF Hand, Handled
  <1>3. ASSUME NEW t \in Threads, OneHandler', Handles(t, s)' PROVE Hand(s)' = t
    BY <1>2, <1>3 DEF OneHandler, Handled
  <1> QED BY <1>1, <1>3

\* A step changes one connection at most.
Same3(s) == Phase(s)' = Phase(s) /\ Number(s)' = Number(s) /\ Hand(s)' = Hand(s)

LEMMA NoneChanges ==
  ASSUME \A s \in Sockets : Same3(s)
  PROVE  ConnectionStep
  BY DEF Same3, ConnectionStep, phase, number, hand

LEMMA OneChanges ==
  ASSUME NEW s \in Sockets, \A r \in Sockets : r # s => Same3(r)
  PROVE  /\ \A p : Phase(s)' = p => phase' = [phase EXCEPT ![s] = p]
         /\ \A n : Number(s)' = n => number' = [number EXCEPT ![s] = n]
         /\ \A h : Hand(s)' = h => hand' = [hand EXCEPT ![s] = h]
         /\ Phase(s)' = Phase(s) => UNCHANGED phase
         /\ Number(s)' = Number(s) => UNCHANGED number
         /\ Hand(s)' = Hand(s) => UNCHANGED hand
  BY DEF Same3, phase, number, hand

\* A connection in nobody's hands, or in another thread's, stays as it is.
LEMMA ElsewhereSame ==
  ASSUME OwnerInv, OwnerInv', NEW t \in Threads, Others(t), Frame(t),
         NEW s \in Sockets, ~Handles(t, s), ~Handles(t, s)'
  PROVE  Same3(s)
  <1>1. SameObject(s) /\ OneHandler /\ OneHandler'
    BY DEF Frame, Untouched, OwnerInv, HandlerInv, Exclusive
  <1>2. \A u \in Threads : Handles(u, s)' <=> Handles(u, s)
    BY DEF Others, Handles
  <1>3. FdGone(s)' <=> FdGone(s)
    BY HandlerList DEF FdGone, Others, Handles
  <1>4. Phase(s)' = Phase(s) /\ Number(s)' = Number(s)
    BY <1>1, <1>3 DEF SameObject, Phase, Number
  <1>5. CASE ~Handled(s)
    <2>1. ~Handled(s)'
      BY <1>2, <1>5 DEF Handled
    <2> QED BY <1>4, <1>5, <2>1, HandOf, HandOfNext DEF Same3
  <1>6. ASSUME NEW u \in Threads, Handles(u, s) PROVE Same3(s)
    <2>1. Hand(s) = u /\ Hand(s)' = u
      BY <1>1, <1>2, <1>6, HandOf, HandOfNext
    <2> QED BY <1>4, <2>1 DEF Same3
  <1> QED BY <1>5, <1>6 DEF Handled

\* What holds of a step that a thread takes with the connection in its hands.
StepOf(t) == WakeInv /\ WakeInv' /\ Others(t) /\ Frame(t)

\* The other connections stay as they are.
LEMMA StepOfOne ==
  ASSUME NEW t \in Threads, StepOf(t), NEW s \in Sockets,
         \A r \in Sockets : r # s => ~Handles(t, r) /\ ~Handles(t, r)'
  PROVE  \A r \in Sockets : r # s => Same3(r)
  BY ElsewhereSame DEF StepOf, WakeInv

\* The thread goes on with its connection, or lets go of it when it is fit to rest.
LEMMA GoesOn ==
  ASSUME Orderly, NEW t \in Threads, StepOf(t),
         \A s \in Sockets : Handles(t, s)' => Handles(t, s),
         \A s \in Sockets : Handles(t, s) => Phase(s)' = Phase(s) /\ Number(s)' = Number(s)
  PROVE  ConnectionStep
  <1>0. OneHandler /\ OneHandler' /\ OwnerInv /\ OwnerInv'
    BY DEF StepOf, WakeInv, OwnerInv, HandlerInv, Exclusive
  <1>1. \A s \in Sockets : ~Handles(t, s) => Same3(s)
    BY <1>0, ElsewhereSame DEF StepOf
  <1>2. CASE \A s \in Sockets : Handles(t, s) => Handles(t, s)'
    <2>1. ASSUME NEW s \in Sockets, Handles(t, s) PROVE Same3(s)
      BY <1>0, <1>2, <2>1, HandOf, HandOfNext DEF Same3
    <2> QED BY <1>1, <2>1, NoneChanges
  <1>3. ASSUME NEW s \in Sockets, Handles(t, s), ~Handles(t, s)' PROVE ConnectionStep
    <2>1. Hand(s) = t /\ t # None
      BY <1>0, <1>3, HandOf, ThreadAssumption
    <2>2. ~Handled(s)' /\ Hand(s)' = None
      <3>1. ASSUME NEW u \in Threads, Handles(u, s)' PROVE FALSE
        BY <1>0, <1>3, <3>1 DEF Others, Handles, StepOf, OneHandler
      <3> QED BY <3>1, HandOfNext DEF Handled
    <2>3. Phase(s) \in {"Connecting", "Connected", "Closed"}
      <3>1. alive[s] /\ status[s] \in StatusKinds /\ status'[s] \in StatusKinds
        BY <1>0, <1>3
        DEF OwnerInv, HandlerInv, TypeInv, TypeOK, ObjectTypeOK, Exclusive, UnbornUnknown, Handles
      <3>2. Phase(s)' # "none" /\ alive'[s]
        BY <1>3, <3>1 DEF Phase, StatusKinds
      <3>3. Resting(s)'
        BY <2>2, <3>2 DEF StepOf, WakeInv, Wake
      <3>4. Phase(s)' \in {"Connecting", "Connected", "Closed"}
        BY <3>1, <3>2, <3>3 DEF Resting, Orderly, Phase, StatusKinds
      <3> QED BY <1>3, <3>4
    <2>4. \A r \in Sockets : r # s => Same3(r)
      BY <1>1, <1>3 DEF Handles
    <2>5. Connection!Release(s)
      BY <1>3, <2>1, <2>2, <2>3, <2>4, OneChanges, MappedValues DEF Connection!Release
    <2> QED BY <2>5 DEF ConnectionStep, Connection!Next
  <1> QED BY <1>2, <1>3

\* It takes the connection one step further in its life.
LEMMA Proceeds ==
  ASSUME NEW t \in Threads, StepOf(t), NEW s \in Sockets, Handles(t, s), Handles(t, s)',
         \/ /\ Phase(s) \in {"Connecting", "Accepting"} /\ Phase(s)' = "Connected"
            /\ Number(s)' = Number(s)
         \/ /\ Phase(s) \in {"Connecting", "Connected"} /\ Phase(s)' = "Closing"
            /\ Number(s)' = Number(s)
         \/ Phase(s) = "new" /\ Phase(s)' = "Closed" /\ Number(s)' = Number(s)
         \/ /\ Phase(s) \in {"Connecting", "Accepting", "Closing"} /\ Phase(s)' = "Closed"
            /\ Number(s)' = Invalid
  PROVE  ConnectionStep
  <1>1. Hand(s) = t /\ Hand(s)' = t /\ t # None
    BY HandOf, HandOfNext, ThreadAssumption
    DEF StepOf, WakeInv, OwnerInv, HandlerInv, Exclusive
  <1>2. \A r \in Sockets : r # s => Same3(r)
    BY StepOfOne DEF Handles
  <1>3. Connection!Proceed(s)
    BY <1>1, <1>2, OneChanges, MappedValues
    DEF Connection!Proceed, Connection!Establish, Connection!BeginClose, Connection!Fail,
        Connection!Shut, Connection!Become
  <1> QED BY <1>3 DEF ConnectionStep, Connection!Next

\* Whether its number is gone shows in the thread's place.
LEMMA GoneOf ==
  ASSUME NEW t \in Threads, StepOf(t), NEW s \in Sockets, Handles(t, s), cur'[t] = s
  PROVE  /\ FdGone(s) <=> pc[t] \in GonePlaces
         /\ FdGone(s)' <=> pc'[t] \in GonePlaces
  <1>1. OneHandler
    BY DEF StepOf, WakeInv, OwnerInv, HandlerInv, Exclusive
  <1>2. \A u \in Threads : cur[u] = s /\ pc[u] \in GonePlaces => u = t
    BY <1>1, HandlerList DEF GonePlaces, Handles, OneHandler
  <1> QED BY <1>2 DEF FdGone, GonePlaces, Handles, Others, StepOf

\* A number that no object holds is no connection's.
LEMMA UnheldFresh ==
  ASSUME TypeInv, NEW f \in Fds, \A r \in Sockets : ~Holds(r, f)
  PROVE  Connection!Fresh(f)
  <1>1. \A r \in Sockets : Number(r) # f
    BY KernelAssumption
    DEF Number, Phase, Holds, Held, StatusKinds, TypeInv, TypeOK, ObjectTypeOK, NoFd
  <1> QED BY <1>1, MappedValues DEF Connection!Fresh

\* Every step inside a method of clsTCPSocket is a step of the connection's life, or
\* none.
LEMMA SocketStepLives ==
  ASSUME HandlersOnly, Orderly, NEW t \in Threads, StepOf(t), SocketStep(t)
  PROVE  ConnectionStep
  <1>0. /\ TypeInv /\ Own /\ Wake /\ Fenced
        /\ cur'[t] = cur[t] /\ cur[t] \in Sockets
    <2>1. OwnerInv /\ TypeInv /\ Wake
      BY DEF StepOf, WakeInv, OwnerInv, HandlerInv
    <2> QED
      BY <2>1, OwnerFenced, SocketStepPlace
      DEF OwnerInv, FdInv, Descriptors, TypeInv, HasObject
  <1> PICK s \in Sockets : s = cur[t]
    BY <1>0
  <1>1. /\ DOMAIN pc = Threads /\ DOMAIN status = Sockets /\ DOMAIN sock = Sockets
        /\ status[s] \in StatusKinds
        /\ sock[s] \in Fds \cup NoFd
    BY <1>0 DEF TypeInv, TypeOK, ObjectTypeOK, ThreadTypeOK
  <1>2. \A r \in Sockets : Handles(t, r) \/ Handles(t, r)' => r = s
    BY <1>0 DEF Handles
  <1>3. CASE pc[t] \notin HandlerPlaces
    <2>1. AcceptMark(t)
      BY <1>3, HandlerList
      DEF SocketStep, Close, CloseMark, CloseFd, SetClosed, DropFd, Accepting, AcceptAdd,
          onConnected, onReceiving, Recv, AfterRecv, Callback, Send, SendLoop, SendFile,
          ResumeSendFile, SendFileLoop, ConnectSocket, ConnectHost, ConnectAdd
    <2>2. pc'[t] \notin HandlerPlaces
      BY <1>1, <2>1, HandlerList DEF AcceptMark, HandlersOnly, Goto
    <2> QED BY <1>3, <2>2, GoesOn DEF Handles
  <1>4. CASE pc[t] \in HandlerPlaces
    <2>0. /\ Handles(t, s) /\ Serving(t, s) /\ alive[s]
          /\ FdGone(s) <=> pc[t] \in GonePlaces
          /\ FdGone(s)' <=> pc'[t] \in GonePlaces
      BY <1>0, <1>4, GoneOf
      DEF Handles, Wake, StepOf, WakeInv, OwnerInv, HandlerInv, Exclusive, UnbornUnknown,
          TypeInv, TypeOK, ObjectTypeOK
    <2>1. ASSUME Phase(s)' = Phase(s), Number(s)' = Number(s) PROVE ConnectionStep
      BY <1>2, <2>0, <2>1, GoesOn
    <2>2. ASSUME UNCHANGED <<status, sock, alive>>, pc[t] \in GonePlaces <=> pc'[t] \in GonePlaces
          PROVE  ConnectionStep
      BY <2>0, <2>1, <2>2 DEF Phase, Number
    <2>3. pc[t] \notin GonePlaces /\ sock[s] \in Fds => status[s] # "Closed"
      BY <1>0, <2>0 DEF Own, Held
    <2>4. ASSUME Handles(t, s)',
                 \/ /\ Phase(s) \in {"Connecting", "Accepting"} /\ Phase(s)' = "Connected"
                    /\ Number(s)' = Number(s)
                 \/ /\ Phase(s) \in {"Connecting", "Connected"} /\ Phase(s)' = "Closing"
                    /\ Number(s)' = Number(s)
                 \/ Phase(s) = "new" /\ Phase(s)' = "Closed" /\ Number(s)' = Number(s)
                 \/ /\ Phase(s) \in {"Connecting", "Accepting", "Closing"}
                    /\ Phase(s)' = "Closed" /\ Number(s)' = Invalid
          PROVE  ConnectionStep
      BY <2>0, <2>4, Proceeds
    <2> USE <1>0, <1>1, <2>0, <2>3, KernelAssumption, HandlerList
        DEF Serving, PlaceOK, StartOK, Opens, FinalPlaces, GonePlaces, Phase, Number, NoFd,
            StatusKinds, Goto, SetStatus, object, Handles
    <2>5. CASE CloseMark(t)
      <3>1. CASE sock[s] \in NoFd
        BY <2>1, <2>5, <3>1 DEF CloseMark
      <3>2. CASE sock[s] \in Fds
        BY <2>4, <2>5, <3>2 DEF CloseMark
      <3> QED BY <3>1, <3>2
    <2>6. CASE CloseFd(t)
      <3>1. CASE sock[s] \in Fds
        BY <2>4, <2>6, <3>1 DEF CloseFd
      <3>2. CASE sock[s] = Invalid
        BY <2>1, <2>6, <3>2 DEF CloseFd
      <3> QED BY <2>6, <3>1, <3>2 DEF CloseFd
    <2>7. CASE SetClosed(t)
      BY <2>1, <2>7 DEF SetClosed
    <2>8. CASE DropFd(t)
      BY <2>1, <2>8 DEF DropFd
    <2>9. CASE Accepting(t)
      <3>1. CASE UNCHANGED status
        BY <2>2, <2>9, <3>1 DEF Accepting
      <3>2. CASE pc'[t] = "callback" /\ status'[s] = "Connected"
        BY <2>4, <2>9, <3>2 DEF Accepting
      <3> QED BY <2>9, <3>1, <3>2 DEF Accepting
    <2>10. CASE onConnected(t)
      <3>1. sock[s] \in Fds
        BY <2>10 DEF onConnected, Wake, RetOK, Enrolled
      <3> QED BY <2>4, <2>10, <3>1 DEF onConnected
    <2>11. CASE ConnectSocket(t)
      <3>1. CASE UNCHANGED fdt /\ sock'[s] = Invalid /\ pc'[t] = "close"
        BY <2>4, <2>11, <3>1 DEF ConnectSocket
      <3>2. ASSUME NEW f \in FreeFds, sock'[s] = f, pc'[t] = "connectHost"
            PROVE  ConnectionStep
        <4>1. f \in Fds /\ \A r \in Sockets : ~Holds(r, f)
          BY <3>2 DEF FreeFds, Own, Holds
        <4>2. Phase(s) = "new" /\ Phase(s)' = "Connecting" /\ Number(s)' = f
          BY <2>11, <3>2, <4>1 DEF ConnectSocket, ConnectPlaces
        <4>3. Hand(s)' = Hand(s)
          BY <2>11, <3>2, HandOf, HandOfNext
          DEF ConnectSocket, StepOf, WakeInv, OwnerInv, HandlerInv, Exclusive
        <4>4. \A r \in Sockets : r # s => Same3(r)
          BY <1>2, StepOfOne
        <4>5. Connection!Open(s, f)
          BY <4>1, <4>2, <4>3, <4>4, UnheldFresh, OneChanges, MappedValues
          DEF Connection!Open, Connection!Become
        <4> QED BY <4>1, <4>5 DEF ConnectionStep, Connection!Next
      <3> QED BY <2>11, <3>1, <3>2 DEF ConnectSocket
    <2>12. CASE \/ Close(t) \/ AcceptAdd(t) \/ AcceptMark(t) \/ onReceiving(t) \/ Recv(t)
               \/ AfterRecv(t) \/ Callback(t) \/ Send(t) \/ SendLoop(t) \/ SendFile(t)
               \/ ResumeSendFile(t) \/ SendFileLoop(t) \/ ConnectHost(t) \/ ConnectAdd(t)
      <3>1. UNCHANGED <<status, sock, alive>>
        BY <2>12
        DEF Close, AcceptAdd, AcceptMark, onReceiving, Recv, AfterRecv, Callback, Send,
            SendLoop, SendFile, ResumeSendFile, SendFileLoop, ConnectHost, ConnectAdd
      <3>2. pc[t] \notin GonePlaces /\ pc'[t] \notin GonePlaces
        BY <2>12
        DEF Close, AcceptAdd, AcceptMark, onReceiving, Recv, AfterRecv, Callback, Send,
            SendLoop, SendFile, ResumeSendFile, SendFileLoop, ConnectHost, ConnectAdd, Return,
            TypeInv, TypeOK, ThreadTypeOK
      <3> QED BY <2>2, <3>1, <3>2
    <2> HIDE <1>0, <1>1, <2>0, <2>3, KernelAssumption, HandlerList
    <2> QED
      BY <2>5, <2>6, <2>7, <2>8, <2>9, <2>10, <2>11, <2>12 DEF SocketStep
  <1> QED BY <1>3, <1>4

\* A thread with no connection in its hands is free to take one.
LEMMA EmptyHanded ==
  ASSUME NEW t \in Threads, pc[t] \notin HandlerPlaces
  PROVE  Connection!Idle(t)
  <1> SUFFICES ASSUME NEW s \in Sockets PROVE Hand(s) # t
    BY MappedValues DEF Connection!Idle
  <1> QED BY HandOf, ThreadAssumption DEF Handles

\* A thread that has no connection before and after its step changes none.
LEMMA AwayLives ==
  ASSUME Orderly, NEW t \in Threads, StepOf(t), pc[t] \notin HandlerPlaces,
         pc'[t] \notin HandlerPlaces
  PROVE  ConnectionStep
  BY GoesOn DEF Handles

\* Every step of the manager is one, too.
LEMMA ManagerStepLives ==
  ASSUME HandlersOnly, Orderly, NEW t \in Threads, StepOf(t), ManagerStep(t)
  PROVE  ConnectionStep
  <1>0. /\ TypeInv /\ Exclusive /\ Exclusive' /\ PathFd
        /\ DOMAIN pc = Threads /\ DOMAIN cur = Threads
        /\ ret[t] \in {"finish", "rearmGet", "acceptAdd", "denyCheck"}
    BY DEF StepOf, WakeInv, OwnerInv, HandlerInv, FdInv, Descriptors, TypeInv, TypeOK,
           ThreadTypeOK
  <1>1. CASE \/ _ParseEvents(t) \/ RearmGet(t) \/ ModifySocket(t)
             \/ RemoveLock(t) \/ RemoveSocket(t) \/ RemoveUnlock(t)
    <2>1. /\ UNCHANGED <<object, cur>>
          /\ pc[t] \in HandlerPlaces \ GonePlaces /\ pc'[t] \notin GonePlaces
      BY <1>0, <1>1, HandlerList
      DEF _ParseEvents, RearmGet, ModifySocket, RemoveLock, RemoveSocket, RemoveUnlock, local,
          Goto, Return, GonePlaces
    <2>2. ASSUME NEW s \in Sockets, Handles(t, s)
          PROVE  Phase(s)' = Phase(s) /\ Number(s)' = Number(s)
      BY <2>1, <2>2, GoneOf DEF Handles, Phase, Number, object
    <2> QED BY <2>1, <2>2, GoesOn DEF Handles
  <1>2. CASE \/ CloseEvent(t) \/ ListenRearm(t) \/ AcceptLock(t) \/ OnAccepting(t)
             \/ DenyCheck(t)
    BY <1>0, <1>2, AwayLives, HandlerList
    DEF CloseEvent, ListenRearm, AcceptLock, OnAccepting, DenyCheck, Goto
  <1>3. CASE AcceptCallback(t)
    <2>1. CASE Goto(t, "denyCheck")
      BY <1>0, <1>3, <2>1, AwayLives, HandlerList DEF AcceptCallback, Goto
    <2>2. ASSUME NEW s \in Sockets, Construct(s), SetStatus(s, "Accepting"),
                 sock' = [sock EXCEPT ![s] = fd[t]], cur' = [cur EXCEPT ![t] = s],
                 Goto(t, "accepting")
          PROVE  ConnectionStep
      <3> DEFINE f == fd[t]
      <3>1. f \in Fds /\ \A r \in Sockets : ~Holds(r, f)
        BY <1>0, <1>3 DEF AcceptCallback, PathFd, AcceptedFd, Unclaimed
      <3>2. /\ ~alive[s] /\ alive'[s] /\ status'[s] = "Accepting" /\ sock'[s] = f
            /\ pc'[t] = "accepting" /\ cur'[t] = s
        BY <1>0, <2>2 DEF Construct, SetStatus, Goto, TypeInv, TypeOK, ObjectTypeOK
      <3>3. ~FdGone(s)'
        BY <1>0, <3>2 DEF FdGone, StepOf, Others, Exclusive, UnbornUnknown
      <3>4. Phase(s) = "none" /\ Phase(s)' = "Accepting" /\ Number(s)' = f
        BY <3>1, <3>2, <3>3, KernelAssumption DEF Phase, Number, StatusKinds
      <3>5. Hand(s)' = t
        BY <1>0, <3>2, HandOfNext, HandlerList DEF Handles, Exclusive
      <3>6. \A r \in Sockets : r # s => Same3(r)
        BY <1>3, <3>2, StepOfOne, HandlerList DEF AcceptCallback, Handles
      <3>7. Connection!Idle(t) /\ Connection!Fresh(f)
        BY <1>0, <1>3, <3>1, EmptyHanded, UnheldFresh, HandlerList DEF AcceptCallback
      <3>8. Connection!Accept(s, t, f)
        BY <3>4, <3>5, <3>6, <3>7, OneChanges, MappedValues
        DEF Connection!Accept, Connection!Become
      <3> QED BY <3>1, <3>8 DEF ConnectionStep, Connection!Next
    <2> QED BY <1>3, <2>1, <2>2 DEF AcceptCallback
  <1> QED BY <1>1, <1>2, <1>3 DEF ManagerStep

\* A worker takes a connection that rests, and only one that is not closed.
LEMMA EpollWaitLives ==
  ASSUME Orderly, NEW t \in Threads, StepOf(t), NEW f \in Fds, EpollWait(t, f)
  PROVE  ConnectionStep
  <1>0. /\ DOMAIN pc = Threads /\ DOMAIN cur = Threads
        /\ OwnerInv /\ TypeInv /\ Exclusive /\ Exclusive' /\ Own /\ Routed /\ Wake
        /\ pc[t] \notin HandlerPlaces
    BY HandlerList
    DEF EpollWait, StepOf, WakeInv, OwnerInv, HandlerInv, FdInv, Descriptors, TypeInv, TypeOK,
        ThreadTypeOK
  <1>1. CASE pc'[t] = "acceptLock"
    BY <1>0, <1>1, AwayLives, HandlerList
  <1>2. CASE pc'[t] # "acceptLock"
    <2> PICK s \in Sockets : s = ptr[f] /\ pc'[t] = "parse" /\ cur'[t] = s
      BY <1>0, <1>2 DEF EpollWait, Goto
    <2>1. alive[s] /\ sock[s] = f /\ ~FdGone(s) /\ status[s] # "Closed" /\ ~Handled(s)
      BY <1>0 DEF EpollWait, Deliverable, Routed, Own, Holds, Held, Exclusive, OneHandler
    <2>2. Resting(s) /\ status[s] \in StatusKinds
      BY <1>0, <2>1 DEF Wake, TypeInv, TypeOK, ObjectTypeOK
    <2>3. status[s] \in {"Connecting", "Connected"}
      BY <2>1, <2>2 DEF Resting, Unknown, StatusKinds
    <2>4. UNCHANGED object /\ ~FdGone(s)'
      BY <2>1 DEF EpollWait, StepOf, Others, FdGone
    <2>5. /\ Phase(s) \in {"Connecting", "Connected"} /\ Phase(s)' = Phase(s)
          /\ Number(s)' = Number(s)
      BY <2>1, <2>3, <2>4, KernelAssumption DEF Phase, Number, object
    <2>6. Hand(s) = None /\ Hand(s)' = t
      BY <1>0, <2>1, HandOf, HandOfNext, HandlerList DEF Handles, Exclusive
    <2>7. \A r \in Sockets : r # s => Same3(r)
      BY <1>0, StepOfOne DEF Handles
    <2>8. Connection!Deliver(s, t)
      BY <1>0, <2>5, <2>6, <2>7, EmptyHanded, OneChanges, MappedValues
      DEF Connection!Deliver
    <2> QED BY <2>8 DEF ConnectionStep, Connection!Next
  <1> QED BY <1>1, <1>2

\* ConnectToHost makes a connection.
LEMMA ConnectToHostLives ==
  ASSUME NoTrespass, NEW t \in Threads, StepOf(t), AppStep(t)
  PROVE  ConnectionStep
  <1>0. /\ DOMAIN pc = Threads /\ DOMAIN cur = Threads
        /\ TypeInv /\ Exclusive'
    BY DEF StepOf, WakeInv, OwnerInv, HandlerInv, TypeInv, TypeOK, ThreadTypeOK
  <1>1. PICK s \in Sockets : ConnectToHost(t, s)
    BY DEF AppStep, AppClose, NoTrespass
  <1>2. /\ ~alive[s] /\ alive'[s] /\ sock'[s] = Zero
        /\ pc[t] = "idle" /\ pc'[t] = "connectSocket" /\ cur'[t] = s
    BY <1>0, <1>1
    DEF ConnectToHost, Construct, NoTrespass, Goto, TypeInv, TypeOK, ObjectTypeOK
  <1>3. Phase(s) = "none" /\ Phase(s)' = "new" /\ Number(s)' = Number(s)
    BY <1>2 DEF Phase, Number, StatusKinds
  <1>4. Hand(s)' = t
    BY <1>0, <1>2, HandOfNext, HandlerList DEF Handles, Exclusive
  <1>5. \A r \in Sockets : r # s => Same3(r)
    BY <1>2, StepOfOne, HandlerList DEF Handles
  <1>6. Connection!Make(s, t)
    BY <1>2, <1>3, <1>4, <1>5, EmptyHanded, OneChanges, MappedValues, HandlerList
    DEF Connection!Make, Connection!Become
  <1> QED BY <1>6 DEF ConnectionStep, Connection!Next

\* A step that touches no object and moves no thread is none.
LEMMA OutsideLives ==
  ASSUME WakeInv, WakeInv', UNCHANGED <<object, pc, cur>>
  PROVE  ConnectionStep
  <1>0. OneHandler /\ OneHandler'
    BY DEF WakeInv, OwnerInv, HandlerInv, Exclusive
  <1> SUFFICES ASSUME NEW s \in Sockets PROVE Same3(s)
    BY NoneChanges
  <1>1. /\ FdGone(s)' <=> FdGone(s)
        /\ \A t \in Threads : Handles(t, s)' <=> Handles(t, s)
    BY DEF FdGone, Handles
  <1>2. Phase(s)' = Phase(s) /\ Number(s)' = Number(s)
    BY <1>1 DEF Phase, Number, object
  <1>3. Hand(s)' = Hand(s)
    BY <1>0, <1>1, HandOf, HandOfNext DEF Handled
  <1> QED BY <1>2, <1>3 DEF Same3

\* Initially there is no connection.
LEMMA InitConnections == Init => Connection!Init
  <1> SUFFICES ASSUME Init, NEW s \in Sockets
               PROVE  Phase(s) = "none" /\ Number(s) = Invalid /\ Hand(s) = None
    BY DEF Connection!Init, phase, number, hand
  <1>1. ~alive[s] /\ ~Handled(s)
    BY KernelAssumption DEF Init, Handled, Handles
  <1>2. Phase(s) = "none" /\ Number(s) = Invalid
    BY <1>1 DEF Phase, Number, StatusKinds
  <1> QED BY <1>1, <1>2, HandOf

\* Every step is a step of one connection's life or none.
LEMMA StepLives ==
  ASSUME HandlersOnly, NoTrespass, Orderly, WakeInv, [Next]_vars
  PROVE  ConnectionStep
  <1>0. WakeInv' /\ OwnerInv /\ Wake /\ FdInv /\ Fenced
    BY WakeInvariant, OwnerFenced DEF WakeInv, OwnerInv
  <1>1. ASSUME NEW t \in Threads, SocketStep(t) PROVE ConnectionStep
    BY <1>0, <1>1, SocketStepOthers, SocketFrame, SocketStepLives DEF StepOf, Fenced
  <1>2. ASSUME NEW t \in Threads, ManagerStep(t) PROVE ConnectionStep
    BY <1>0, <1>2, ManagerStepOthers, ManagerFrame, ManagerStepLives DEF StepOf, Fenced
  <1>3. ASSUME NEW t \in Workers, NEW f \in Fds, EpollWait(t, f) PROVE ConnectionStep
    BY <1>0, <1>3, EpollWaitWakes, EpollWaitLives DEF StepOf, Threads
  <1>4. ASSUME NEW t \in Apps, AppStep(t) PROVE ConnectionStep
    BY <1>0, <1>4, ConnectToHostWakes, ConnectToHostLives DEF StepOf, Threads
  <1>5. ASSUME NEW t \in Threads, UNCHANGED <<kernel, object, lsn>>,
               \/ pc[t] = "off" /\ Goto(t, "wait") /\ UNCHANGED local
               \/ pc[t] = "finish" /\ Goto(t, "idle") /\ Forget(t)
        PROVE  ConnectionStep
    <2>1. pc[t] \notin HandlerPlaces /\ pc'[t] \notin HandlerPlaces
      BY <1>0, <1>5, HandlerList DEF Goto, OwnerInv, HandlerInv, TypeInv, TypeOK, ThreadTypeOK
    <2> QED BY <1>0, <1>5, <2>1, AwayWakes, AwayLives DEF StepOf
  <1>6. ASSUME NEW t \in Workers, StartWorker(t) PROVE ConnectionStep
    BY <1>5, <1>6 DEF StartWorker, manager, Threads
  <1>7. ASSUME NEW t \in Apps, AppFinish(t) PROVE ConnectionStep
    BY <1>5, <1>7 DEF AppFinish, manager, Threads
  <1>8. CASE (\E l \in Listeners : StartListen(l)) \/ Peer \/ UNCHANGED vars
    BY <1>0, <1>8, OutsideLives DEF StartListen, Peer, vars, local
  <1> QED BY <1>1, <1>2, <1>3, <1>4, <1>6, <1>7, <1>8 DEF Next, Wait

\* The server keeps what Connections promises: whatever the handlers do and whichever
\* calls fail, each connection goes once through its life, in one thread's hands at a
\* time and with a number of its own, and is left at rest only established, being
\* established or closed.
THEOREM ConnectionsAreKept ==
  ASSUME HandlersOnly, NoTrespass, Orderly PROVE Spec => ConnectionsKept
  <1>1. WakeInv /\ [Next]_vars => [Connection!Next]_<<phase, number, hand>>
    BY StepLives DEF ConnectionStep
  <1> QED
    BY <1>1, InitConnections, WakeInvariant, PTL DEF Spec, ConnectionsKept, Connection!Spec
=============================================================================
