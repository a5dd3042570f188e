-------------------------- MODULE TCPServer_proofs --------------------------
(***************************************************************************)
(* Theorems about TCPServer, for every set of workers, application         *)
(* threads, connections, listeners and descriptors.                        *)
(***************************************************************************)
EXTENDS TCPServer, TLAPS

-----------------------------------------------------------------------------
(***************************************************************************)
(* Type correctness.  TypeOK alone is not inductive: a step of a method    *)
(* reads the variables of the object cur[t], so the thread must have one.  *)
(* The proof takes the parts of TypeOK one after the other.                *)
(***************************************************************************)
HasObject == \A t \in Threads : pc[t] \in UsePlaces => cur[t] \in Sockets
TypeInv == TypeOK /\ HasObject

\* Init gives every variable a value of its type.
LEMMA InitTypeInv == Init => TypeInv
  BY KernelAssumption, ThreadAssumption
  DEF Init, KernelInit, TypeInv, TypeOK, KernelTypeOK, FdtTypeOK, RegTypeOK,
      ObjectTypeOK, ThreadTypeOK, ManagerTypeOK, HasObject, StatusKinds, NoFd, Threads,
      MaxClosed, UsePlaces, Places, WorkerPlaces, ListenPlaces, SendPlaces, ClosePlaces,
      ConnectPlaces

\* A number that is bound to something else keeps the type of the table.
LEMMA NewFdType ==
  ASSUME FdtTypeOK, NEW f \in Fds, NEW u \in {"free", "listen", "conn"},
         NEW m \in {"default", "taken", "other"}, NewFd(f, u, m)
  PROVE  FdtTypeOK'
  BY DEF FdtTypeOK, NewFd, Bind

\* Every step keeps the types of the descriptor table.
LEMMA FdtTypes == ASSUME TypeInv, Next PROVE FdtTypeOK'
  <1>0. FdtTypeOK
    BY DEF TypeInv, TypeOK, KernelTypeOK
  <1>1. ASSUME NEW f, SysClose(f) PROVE FdtTypeOK'
    BY <1>0, <1>1, NewFdType DEF SysClose, IsOpen, FdtTypeOK, kernel, fdt
  <1>2. ASSUME NEW f \in FreeFds, NewFd(f, "listen", "default") \/ NewFd(f, "conn", "other")
        PROVE  FdtTypeOK'
    BY <1>0, <1>2, NewFdType DEF FreeFds
  <1> USE DEF FdtTypeOK, IsOpen, kernel, fdt
  <1>3. ASSUME NEW t \in Threads, SocketStep(t) PROVE FdtTypeOK'
    <2>1. CASE CloseFd(t)        BY <1>1, <2>1 DEF CloseFd
    <2>2. CASE AcceptMark(t)     BY <1>0, <2>2 DEF AcceptMark, SetMark
    <2>3. CASE Recv(t)           BY <1>0, <2>3 DEF Recv, SetWire
    <2>4. CASE SendLoop(t)       BY <1>0, <2>4 DEF SendLoop, SetFull
    <2>5. CASE SendFileLoop(t)   BY <1>0, <2>5 DEF SendFileLoop, SetFull
    <2>6. CASE ConnectSocket(t)  BY <1>0, <1>2, <2>6 DEF ConnectSocket
    <2>7. CASE ConnectHost(t)    BY <1>0, <2>7 DEF ConnectHost, SetWire
    <2>8. CASE UNCHANGED fdt     BY <1>0, <2>8
    <2> QED
      BY <1>3, <2>1, <2>2, <2>3, <2>4, <2>5, <2>6, <2>7, <2>8
      DEF SocketStep, Close, CloseMark, SetClosed, DropFd, Accepting, AcceptAdd,
          onConnected, onReceiving, AfterRecv, Callback, Send, SendFile,
          ResumeSendFile, ConnectAdd
  <1>4. ASSUME NEW t \in Threads, ManagerStep(t) PROVE FdtTypeOK'
    <2>1. CASE OnAccepting(t)
      BY <1>0, <2>1 DEF OnAccepting, SysAccept, Bind, FreeFds
    <2>2. CASE DenyCheck(t)      BY <1>0, <1>1, <2>2 DEF DenyCheck, SetNonBlocking
    <2>3. CASE UNCHANGED fdt     BY <1>0, <2>3
    <2> QED
      BY <1>4, <2>1, <2>2, <2>3
      DEF ManagerStep, _ParseEvents, RearmGet, ModifySocket, CloseEvent, RemoveLock,
          RemoveSocket, RemoveUnlock, AcceptLock, AcceptCallback, ListenRearm
  <1>5. ASSUME NEW l \in Listeners, StartListen(l) PROVE FdtTypeOK'
    BY <1>2, <1>5 DEF StartListen
  <1>6. CASE Peer
    BY <1>0, <1>6 DEF Peer, PeerConnect, PeerSend, PeerEof, PeerReset, PeerAnswer,
                      PeerReads, Arrives, SetWire, SetFull
  <1>7. CASE UNCHANGED fdt
    BY <1>0, <1>7
  <1> QED
    BY <1>3, <1>4, <1>5, <1>6, <1>7
    DEF Next, StartWorker, Wait, EpollWait, AppStep, AppFinish, ConnectToHost, AppClose

\* Arming and removing a registration keep its type.
LEMMA RegType ==
  ASSUME RegTypeOK, NEW f \in Fds, NEW p \in Sockets \cup Listeners \cup {None},
         NEW m \in SUBSET {"in", "out"}, Arm(f, p, m) \/ Unregister(f)
  PROVE  RegTypeOK'
  BY DEF RegTypeOK, Arm, Unregister

\* The object a thread works on can be put into data.ptr.
LEMMA ObjectOfStep ==
  ASSUME TypeInv, NEW t \in Threads, pc[t] \in {"acceptAdd", "connectAdd", "rearmMod"}
  PROVE  cur[t] \in Sockets /\ events[cur[t]] \in SUBSET {"in", "out"}
  BY DEF TypeInv, TypeOK, ObjectTypeOK, HasObject, UsePlaces, Places, WorkerPlaces,
         ListenPlaces, ConnectPlaces

\* Every step keeps the types of the registrations.
LEMMA RegTypes == ASSUME TypeInv, Next PROVE RegTypeOK'
  <1> USE DEF kernel, reg
  <1>0. RegTypeOK
    BY DEF TypeInv, TypeOK, KernelTypeOK
  <1>1. CASE UNCHANGED reg
    BY <1>0, <1>1 DEF RegTypeOK
  <1>2. ASSUME NEW f \in Fds, Unregister(f) PROVE RegTypeOK'
    BY <1>0, <1>2, RegType
  <1>3. ASSUME NEW f, SysClose(f) PROVE RegTypeOK'
    BY <1>1, <1>2, <1>3 DEF SysClose, IsOpen
  <1>4. ASSUME NEW t \in Threads, SocketStep(t) PROVE RegTypeOK'
    <2>1. CASE CloseFd(t)    BY <1>3, <2>1 DEF CloseFd
    <2>2. CASE AcceptAdd(t)
      BY <1>0, <1>1, <2>2, ObjectOfStep, RegType
      DEF AcceptAdd, EpollAdd, CanAdd, IsOpen
    <2>3. CASE ConnectAdd(t)
      BY <1>0, <1>1, <2>3, ObjectOfStep, RegType
      DEF ConnectAdd, EpollAdd, CanAdd, IsOpen
    <2> QED
      BY <1>1, <1>4, <2>1, <2>2, <2>3
      DEF SocketStep, Close, CloseMark, SetClosed, DropFd, Accepting, AcceptMark, Recv,
          SendLoop, SendFileLoop, ConnectSocket, ConnectHost,
          onConnected, onReceiving, AfterRecv, Callback, Send, SendFile, ResumeSendFile
  <1>5. ASSUME NEW t \in Threads, ManagerStep(t) PROVE RegTypeOK'
    <2>1. CASE ModifySocket(t)
      BY <1>0, <1>1, <2>1, ObjectOfStep, RegType DEF ModifySocket, EpollMod, Registered
    <2>2. CASE RemoveSocket(t)
      BY <1>1, <1>2, <2>2 DEF RemoveSocket, EpollDel, Registered
    <2>3. CASE DenyCheck(t)
      BY <1>1, <1>3, <2>3 DEF DenyCheck
    <2>4. CASE ListenRearm(t)
      <3>1. lsn[t] \in Listeners \cup {None}
        BY DEF TypeInv, TypeOK, ThreadTypeOK
      <3> QED
        BY <1>0, <1>1, <2>4, <3>1, RegType DEF ListenRearm, EpollMod, Registered
    <2> QED
      BY <1>1, <1>5, <2>1, <2>2, <2>3, <2>4
      DEF ManagerStep, _ParseEvents, RearmGet, CloseEvent, RemoveLock, RemoveUnlock,
          AcceptLock, OnAccepting, AcceptCallback
  <1>6. ASSUME NEW l \in Listeners, StartListen(l) PROVE RegTypeOK'
    BY <1>0, <1>1, <1>6, RegType DEF StartListen, FreeFds
  <1>7. ASSUME NEW t \in Workers, Wait(t) PROVE RegTypeOK'
    BY <1>0, <1>7 DEF Wait, EpollWait, Disarm, RegTypeOK
  <1> QED
    BY <1>1, <1>4, <1>5, <1>6, <1>7
    DEF Next, StartWorker, AppStep, AppFinish, ConnectToHost, AppClose,
        Peer, PeerConnect, PeerSend, PeerEof, PeerReset, PeerAnswer, PeerReads, Arrives

\* Every step keeps the types of the connection objects and of the manager.
LEMMA ObjectTypes == ASSUME TypeInv, Next PROVE ObjectTypeOK'
  <1> USE DEF object, SetStatus, StatusKinds, NoFd
  <1>0. ObjectTypeOK /\ ThreadTypeOK
    BY DEF TypeInv, TypeOK
  <1>1. CASE UNCHANGED <<object, closed>>
    BY <1>0, <1>1 DEF ObjectTypeOK
  <1>2. ASSUME NEW t \in Threads, SocketStep(t) PROVE ObjectTypeOK'
    <2> USE <1>0 DEF ObjectTypeOK
    <2>0. UNCHANGED closed
      BY <1>2 DEF SocketStep
    <2>1. CASE CloseMark(t)      BY <2>0, <2>1 DEF CloseMark
    <2>2. CASE SetClosed(t)      BY <2>0, <2>2 DEF SetClosed
    <2>3. CASE DropFd(t)         BY <2>0, <2>3 DEF DropFd
    <2>4. CASE Accepting(t)      BY <2>0, <2>4 DEF Accepting
    <2>5. CASE onConnected(t)    BY <2>0, <2>5 DEF onConnected
    <2>6. CASE SendFile(t)       BY <2>0, <2>6 DEF SendFile
    <2>7. CASE ResumeSendFile(t) BY <2>0, <2>7 DEF ResumeSendFile
    <2>8. CASE SendFileLoop(t)
      <3>1. UNCHANGED <<status, sock, alive>>
        BY <2>8 DEF SendFileLoop
      <3>2. events' \in [Sockets -> SUBSET {"in", "out"}]
        BY <2>8 DEF SendFileLoop
      <3>3. sending' \in [Sockets -> BOOLEAN]
        BY <2>8 DEF SendFileLoop
      <3> QED BY <2>0, <3>1, <3>2, <3>3
    <2>9. CASE ConnectSocket(t)  BY <2>0, <2>9 DEF ConnectSocket, FreeFds
    <2>10. CASE ConnectHost(t)   BY <2>0, <2>10 DEF ConnectHost
    <2> HIDE <1>0 DEF ObjectTypeOK
    <2> QED
      BY <1>1, <1>2, <2>0, <2>1, <2>2, <2>3, <2>4, <2>5, <2>6, <2>7, <2>8, <2>9, <2>10
      DEF SocketStep, Close, CloseFd, AcceptAdd, AcceptMark, Recv, SendLoop, ConnectAdd,
          onReceiving, AfterRecv, Callback, Send
  <1>3. ASSUME NEW t \in Threads, ManagerStep(t) PROVE ObjectTypeOK'
    <2>1. CASE CloseEvent(t)
      <3> USE <1>0, <2>1 DEF ObjectTypeOK
      <3>1. closed' \in [Sockets -> 0..MaxClosed]
        BY DEF CloseEvent, MaxClosed
      <3>2. /\ alive' \in [Sockets -> BOOLEAN]
            /\ UNCHANGED <<events, sending>>
        BY DEF CloseEvent
      <3>3. /\ status' \in [Sockets -> {"Closed", "Closing", "Connecting", "Accepting",
                                        "Connected"}]
            /\ sock' \in [Sockets -> Fds \cup {Zero, Invalid}]
        BY DEF CloseEvent
      <3> QED BY <3>1, <3>2, <3>3
    <2>2. CASE AcceptCallback(t)
      <3>1. CASE UNCHANGED <<object, closed>>
        BY <1>1, <3>1
      <3>2. ASSUME NEW s \in Sockets, Construct(s), SetStatus(s, "Accepting"),
                   sock' = [sock EXCEPT ![s] = fd[t]], closed' = [closed EXCEPT ![s] = 0]
            PROVE  ObjectTypeOK'
        <4>1. fd[t] \in Fds \cup {Zero, Invalid}
          BY <1>0 DEF ThreadTypeOK
        <4>2. closed' \in [Sockets -> 0..MaxClosed]
          BY <1>0, <3>2 DEF ObjectTypeOK, MaxClosed
        <4> QED BY <1>0, <3>2, <4>1, <4>2 DEF Construct, ObjectTypeOK
      <3> QED BY <2>2, <3>1, <3>2 DEF AcceptCallback
    <2> QED
      BY <1>1, <1>3, <2>1, <2>2
      DEF ManagerStep, _ParseEvents, RearmGet, ModifySocket, RemoveLock, RemoveSocket,
          RemoveUnlock, AcceptLock, OnAccepting, DenyCheck, ListenRearm
  <1>4. ASSUME NEW t \in Apps, AppStep(t) PROVE ObjectTypeOK'
    <2>1. ASSUME NEW s \in Sockets, ConnectToHost(t, s), closed' = [closed EXCEPT ![s] = 0]
          PROVE  ObjectTypeOK'
      <3>1. closed' \in [Sockets -> 0..MaxClosed]
        BY <1>0, <2>1 DEF ObjectTypeOK, MaxClosed
      <3>2. /\ status' \in [Sockets -> {"Closed", "Closing", "Connecting", "Accepting",
                                        "Connected"}]
            /\ sock' \in [Sockets -> Fds \cup {Zero, Invalid}]
        BY <1>0, <2>1 DEF ConnectToHost, ObjectTypeOK
      <3>3. /\ alive' \in [Sockets -> BOOLEAN]
            /\ events' \in [Sockets -> SUBSET {"in", "out"}]
            /\ sending' \in [Sockets -> BOOLEAN]
        BY <1>0, <2>1 DEF ConnectToHost, Construct, ObjectTypeOK
      <3> QED BY <3>1, <3>2, <3>3 DEF ObjectTypeOK
    <2> QED
      BY <1>1, <1>4, <2>1 DEF AppStep, AppClose
  <1> QED
    BY <1>1, <1>2, <1>3, <1>4
    DEF Next, StartListen, StartWorker, Wait, EpollWait, AppFinish, Peer

LEMMA ManagerTypes == ASSUME TypeInv, Next PROVE ManagerTypeOK'
  <1>0. ManagerTypeOK
    BY DEF TypeInv, TypeOK
  <1>1. CASE UNCHANGED <<lock, lsock>>
    BY <1>0, <1>1 DEF ManagerTypeOK
  <1>2. ASSUME NEW t \in Threads, ManagerStep(t) PROVE ManagerTypeOK'
    BY <1>0, <1>1, <1>2
    DEF ManagerStep, _ParseEvents, RearmGet, ModifySocket, CloseEvent, RemoveLock,
        RemoveSocket, RemoveUnlock, AcceptLock, OnAccepting, AcceptCallback, DenyCheck,
        ListenRearm, manager, ManagerTypeOK
  <1>3. ASSUME NEW l \in Listeners, StartListen(l) PROVE ManagerTypeOK'
    BY <1>0, <1>3 DEF StartListen, FreeFds, ManagerTypeOK
  <1> QED
    BY <1>1, <1>2, <1>3
    DEF Next, StartWorker, Wait, EpollWait, SocketStep, AppStep, AppFinish, Peer, manager

\* A step inside a method of clsTCPSocket starts at a place where the thread has an
\* object, goes on to another place, and keeps the object.
LEMMA SocketStepPlace ==
  ASSUME TypeInv, NEW t \in Threads, SocketStep(t)
  PROVE  /\ pc[t] \in UsePlaces
         /\ UNCHANGED <<cur, fd, lsn>>
         /\ \E p \in Places : Goto(t, p)
  <1> USE DEF SocketStep, local, manager, Return
  <1>1. ret[t] \in Places
    BY DEF TypeInv, TypeOK, ThreadTypeOK, Places, WorkerPlaces, ListenPlaces
  <1>2. UNCHANGED <<cur, fd, lsn>>
    BY DEF Close, CloseMark, CloseFd, SetClosed, DropFd, Accepting, AcceptAdd,
           AcceptMark, onConnected, onReceiving, Recv, AfterRecv, Callback, Send,
           SendLoop, SendFile, ResumeSendFile, SendFileLoop, ConnectSocket,
           ConnectHost, ConnectAdd
  <1>3. pc[t] \in UsePlaces
    BY DEF Close, CloseMark, CloseFd, SetClosed, DropFd, Accepting, AcceptAdd,
           AcceptMark, onConnected, onReceiving, Recv, AfterRecv, Callback, Send,
           SendLoop, SendFile, ResumeSendFile, SendFileLoop, ConnectSocket,
           ConnectHost, ConnectAdd, UsePlaces, Places, WorkerPlaces, ListenPlaces,
           SendPlaces, ClosePlaces, ConnectPlaces
  <1>4. \E p \in Places : Goto(t, p)
    BY <1>1
       DEF Close, CloseMark, CloseFd, SetClosed, DropFd, Accepting, AcceptAdd,
           AcceptMark, onConnected, onReceiving, Recv, AfterRecv, Callback, Send,
           SendLoop, SendFile, ResumeSendFile, SendFileLoop, ConnectSocket,
           ConnectHost, ConnectAdd, Places, WorkerPlaces, ListenPlaces,
           SendPlaces, ClosePlaces, ConnectPlaces
  <1> QED BY <1>2, <1>3, <1>4

\* Every step keeps the types of the threads' own variables.
LEMMA ThreadTypes == ASSUME TypeInv, Next PROVE ThreadTypeOK' /\ HasObject'
  <1>0. ThreadTypeOK /\ HasObject /\ ObjectTypeOK
    BY DEF TypeInv, TypeOK
  <1>1. CASE UNCHANGED <<pc, local, lsn>>
    BY <1>0, <1>1 DEF local, ThreadTypeOK, HasObject
  <1>2. ASSUME NEW t \in Threads, NEW p \in Places, Goto(t, p)
        PROVE  pc' \in [Threads -> Places]
    BY <1>0, <1>2 DEF Goto, ThreadTypeOK
  <1>3. ASSUME NEW t \in Threads, NEW p, Goto(t, p), UNCHANGED cur, cur[t] \in Sockets
        PROVE  HasObject'
    BY <1>0, <1>3 DEF Goto, ThreadTypeOK, HasObject
  <1>4. ASSUME NEW t \in Threads, SocketStep(t) PROVE ThreadTypeOK' /\ HasObject'
    <2>1. pc[t] \in UsePlaces /\ UNCHANGED <<cur, fd, lsn>>
      BY <1>4, SocketStepPlace
    <2>2. PICK p \in Places : Goto(t, p)
      BY <1>4, SocketStepPlace
    <2>3. pc' \in [Threads -> Places] /\ HasObject'
      BY <1>0, <1>2, <1>3, <2>1, <2>2 DEF HasObject
    <2>4. got' \in [Threads -> SUBSET {"in", "out", "err", "data", "eof", "fail"}]
      <3>1. CASE Recv(t)
        <4>1. Received(sock[cur[t]]) \in {"data", "eof", "fail"}
          BY DEF Received
        <4> QED BY <1>0, <3>1, <4>1 DEF Recv, ThreadTypeOK
      <3>2. CASE UNCHANGED got
        BY <1>0, <3>2 DEF ThreadTypeOK
      <3> QED
        BY <1>4, <3>1, <3>2
        DEF SocketStep, Close, CloseMark, CloseFd, SetClosed, DropFd, Accepting, AcceptAdd,
            AcceptMark, onConnected, onReceiving, AfterRecv, Callback, Send, SendLoop,
            SendFile, ResumeSendFile, SendFileLoop, ConnectSocket, ConnectHost,
            ConnectAdd, local
    <2>5. ret' \in [Threads -> {"finish", "rearmGet", "acceptAdd", "denyCheck"}]
      BY <1>0, <1>4
      DEF SocketStep, Close, CloseMark, CloseFd, SetClosed, DropFd, Accepting, AcceptAdd,
          AcceptMark, onConnected, onReceiving, Recv, AfterRecv, Callback, Send, SendLoop,
          SendFile, ResumeSendFile, SendFileLoop, ConnectSocket, ConnectHost, ConnectAdd,
          local, ThreadTypeOK
    <2>6. shut' \in [Threads -> BOOLEAN]
      <3>1. CASE Close(t)
        BY <1>0, <3>1 DEF Close, ThreadTypeOK
      <3>2. CASE ConnectHost(t)
        BY <1>0, <3>2 DEF ConnectHost, ThreadTypeOK
      <3>3. CASE UNCHANGED shut
        BY <1>0, <3>3 DEF ThreadTypeOK
      <3> QED
        BY <1>4, <3>1, <3>2, <3>3
        DEF SocketStep, CloseMark, CloseFd, SetClosed, DropFd, Accepting, AcceptAdd,
            AcceptMark, onConnected, onReceiving, Recv, AfterRecv, Callback, Send, SendLoop,
            SendFile, ResumeSendFile, SendFileLoop, ConnectSocket, ConnectAdd, local
    <2> QED
      BY <1>0, <2>1, <2>3, <2>4, <2>5, <2>6 DEF ThreadTypeOK
  <1>5. ASSUME NEW t \in Threads, Forget(t), Goto(t, "wait") \/ Goto(t, "idle"),
               lsn' \in [Threads -> Listeners \cup {None}]
        PROVE  ThreadTypeOK' /\ HasObject'
    <2>1. pc' \in [Threads -> Places]
      BY <1>2, <1>5 DEF Places, WorkerPlaces
    <2>2. HasObject'
      BY <1>0, <1>5 DEF Forget, Goto, ThreadTypeOK, HasObject, UsePlaces
    <2> QED BY <1>0, <1>5, <2>1, <2>2 DEF Forget, ThreadTypeOK, NoFd
  <1>6. ASSUME NEW t \in Threads, ManagerStep(t) PROVE ThreadTypeOK' /\ HasObject'
    <2> USE DEF manager, local
    <2>1. CASE _ParseEvents(t)
      <3>1. cur[t] \in Sockets /\ UNCHANGED <<cur, fd, got, ret, lsn>>
        BY <1>0, <2>1 DEF _ParseEvents, HasObject, UsePlaces, Places, WorkerPlaces
      <3>2. PICK p \in Places : Goto(t, p)
        BY <2>1 DEF _ParseEvents, Places, WorkerPlaces, SendPlaces, ClosePlaces
      <3>3. shut' \in [Threads -> BOOLEAN]
        BY <1>0, <2>1 DEF _ParseEvents, ThreadTypeOK
      <3> QED BY <1>0, <1>2, <1>3, <3>1, <3>2, <3>3 DEF ThreadTypeOK
    <2>2. CASE RearmGet(t)
      <3>1. cur[t] \in Sockets /\ Goto(t, "rearmMod") /\ UNCHANGED <<cur, got, ret, shut, lsn>>
        BY <1>0, <2>2 DEF RearmGet, HasObject, UsePlaces, Places, WorkerPlaces
      <3>2. fd' \in [Threads -> Fds \cup NoFd]
        BY <1>0, <2>2, <3>1 DEF RearmGet, ThreadTypeOK, ObjectTypeOK
      <3>3. pc' \in [Threads -> Places] /\ HasObject'
        BY <1>2, <1>3, <3>1 DEF Places, WorkerPlaces
      <3> QED BY <1>0, <3>1, <3>2, <3>3 DEF ThreadTypeOK
    <2>3. CASE ModifySocket(t) \/ RemoveLock(t) \/ RemoveSocket(t) \/ RemoveUnlock(t)
      <3>1. cur[t] \in Sockets /\ UNCHANGED <<local, lsn>>
        BY <1>0, <2>3 DEF ModifySocket, RemoveLock, RemoveSocket, RemoveUnlock, HasObject,
                          UsePlaces, Places, WorkerPlaces, ClosePlaces
      <3>2. ret[t] \in Places
        BY <1>0 DEF ThreadTypeOK, Places, WorkerPlaces, ListenPlaces
      <3>3. PICK p \in Places : Goto(t, p)
        BY <2>3, <3>2 DEF ModifySocket, RemoveLock, RemoveSocket, RemoveUnlock, Return,
                          Places, WorkerPlaces, ClosePlaces
      <3> QED BY <1>0, <1>2, <1>3, <3>1, <3>3 DEF ThreadTypeOK
    <2>4. CASE CloseEvent(t)
      BY <1>0, <1>5, <2>4 DEF CloseEvent, ThreadTypeOK
    <2>5. CASE AcceptLock(t) \/ DenyCheck(t)
      <3>1. Goto(t, "accept") \/ Goto(t, "listenRearm")
        BY <2>5 DEF AcceptLock, DenyCheck
      <3>2. pc' \in [Threads -> Places]
        BY <1>2, <3>1 DEF Places, ListenPlaces
      <3>3. UNCHANGED <<local, lsn>>
        BY <2>5 DEF AcceptLock, DenyCheck
      <3>4. HasObject'
        BY <1>0, <3>1, <3>3 DEF Goto, ThreadTypeOK, HasObject, UsePlaces
      <3> QED BY <1>0, <3>2, <3>3, <3>4 DEF ThreadTypeOK
    <2>6. CASE OnAccepting(t)
      <3>1. Goto(t, "acceptCallback") \/ Goto(t, "listenRearm")
        BY <2>6 DEF OnAccepting
      <3>2. pc' \in [Threads -> Places]
        BY <1>2, <3>1 DEF Places, ListenPlaces
      <3>3. UNCHANGED <<cur, got, ret, shut, lsn>> /\ fd' \in [Threads -> Fds \cup NoFd]
        BY <1>0, <2>6 DEF OnAccepting, FreeFds, ThreadTypeOK
      <3>4. HasObject'
        BY <1>0, <3>1, <3>3 DEF Goto, ThreadTypeOK, HasObject, UsePlaces
      <3> QED BY <1>0, <3>2, <3>3, <3>4 DEF ThreadTypeOK
    <2>7. CASE AcceptCallback(t)
      <3>1. UNCHANGED <<fd, got, ret, shut, lsn>>
        BY <2>7 DEF AcceptCallback
      <3>2. cur' \in [Threads -> Sockets \cup {None}]
        BY <1>0, <2>7 DEF AcceptCallback, ThreadTypeOK
      <3>3. Goto(t, "accepting") \/ Goto(t, "denyCheck")
        BY <2>7 DEF AcceptCallback
      <3>4. pc' \in [Threads -> Places]
        BY <1>2, <3>3 DEF Places, ListenPlaces
      <3>5. HasObject'
        BY <1>0, <2>7 DEF AcceptCallback, Goto, ThreadTypeOK, HasObject, UsePlaces
      <3> QED BY <1>0, <3>1, <3>2, <3>4, <3>5 DEF ThreadTypeOK
    <2>8. CASE ListenRearm(t)
      <3>1. lsn' \in [Threads -> Listeners \cup {None}]
        BY <1>0, <2>8 DEF ListenRearm, ThreadTypeOK
      <3> QED BY <1>5, <2>8, <3>1 DEF ListenRearm
    <2> QED
      BY <1>6, <2>1, <2>2, <2>3, <2>4, <2>5, <2>6, <2>7, <2>8 DEF ManagerStep
  <1>7. ASSUME NEW t \in Workers, Wait(t) PROVE ThreadTypeOK' /\ HasObject'
    <2>1. PICK f \in Fds : EpollWait(t, f)
      BY <1>7 DEF Wait
    <2>2. t \in Threads /\ (Goto(t, "parse") \/ Goto(t, "acceptLock"))
      BY <2>1 DEF EpollWait, Threads
    <2>3. pc' \in [Threads -> Places]
      BY <1>2, <2>2 DEF Places, WorkerPlaces, ListenPlaces
    <2>4. /\ cur' \in [Threads -> Sockets \cup {None}]
          /\ lsn' \in [Threads -> Listeners \cup {None}]
          /\ UNCHANGED <<fd, shut>>
      BY <1>0, <2>1, <2>2 DEF EpollWait, ThreadTypeOK
    <2>5. /\ got' \in [Threads -> SUBSET {"in", "out", "err", "data", "eof", "fail"}]
          /\ ret' \in [Threads -> {"finish", "rearmGet", "acceptAdd", "denyCheck"}]
      BY <1>0, <2>1, <2>2 DEF EpollWait, Pending, ThreadTypeOK
    <2>6. HasObject'
      BY <1>0, <2>1, <2>2 DEF EpollWait, Goto, ThreadTypeOK, HasObject, UsePlaces
    <2> QED BY <1>0, <2>3, <2>4, <2>5, <2>6 DEF ThreadTypeOK
  <1>8. ASSUME NEW t \in Workers, StartWorker(t) PROVE ThreadTypeOK' /\ HasObject'
    <2>1. t \in Threads /\ Goto(t, "wait") /\ UNCHANGED <<local, lsn>>
      BY <1>8 DEF StartWorker, Threads, manager
    <2>2. pc' \in [Threads -> Places]
      BY <1>2, <2>1 DEF Places, WorkerPlaces
    <2>3. HasObject'
      BY <1>0, <2>1 DEF Goto, local, ThreadTypeOK, HasObject, UsePlaces
    <2> QED BY <1>0, <2>1, <2>2, <2>3 DEF local, ThreadTypeOK
  <1>9. ASSUME NEW t \in Apps, AppStep(t) PROVE ThreadTypeOK' /\ HasObject'
    <2>0. t \in Threads
      BY DEF Threads
    <2>1. PICK s \in Sockets : (ConnectToHost(t, s) \/ AppClose(t, s)) /\ UNCHANGED manager
      BY <1>9 DEF AppStep
    <2>2. Goto(t, "connectSocket") \/ Goto(t, "close")
      BY <2>1 DEF ConnectToHost, AppClose
    <2>3. pc' \in [Threads -> Places]
      BY <1>2, <2>0, <2>2 DEF Places, ConnectPlaces, ClosePlaces
    <2>4. /\ cur' = [cur EXCEPT ![t] = s]
          /\ ret' = [ret EXCEPT ![t] = "finish"]
          /\ UNCHANGED <<fd, got, shut, lsn>>
      BY <2>1 DEF ConnectToHost, AppClose, manager
    <2>5. HasObject'
      BY <1>0, <2>0, <2>2, <2>4 DEF Goto, ThreadTypeOK, HasObject
    <2> QED BY <1>0, <2>0, <2>3, <2>4, <2>5 DEF ThreadTypeOK
  <1>10. ASSUME NEW t \in Apps, AppFinish(t) PROVE ThreadTypeOK' /\ HasObject'
    BY <1>0, <1>5, <1>10 DEF AppFinish, Threads, manager, ThreadTypeOK
  <1> QED
    BY <1>1, <1>4, <1>6, <1>7, <1>8, <1>9, <1>10 DEF Next, StartListen, Peer, manager

\* A step keeps the types and the objects of the threads.
LEMMA TypeStep == TypeInv /\ [Next]_vars => TypeInv'
  <1> SUFFICES ASSUME TypeInv, [Next]_vars PROVE TypeInv'
    OBVIOUS
  <1>1. CASE Next
    BY <1>1, FdtTypes, RegTypes, ObjectTypes, ManagerTypes, ThreadTypes
    DEF TypeInv, TypeOK, KernelTypeOK
  <1>2. CASE UNCHANGED vars
    BY <1>2
    DEF vars, kernel, fdt, reg, object, local, manager, TypeInv, TypeOK, KernelTypeOK,
        FdtTypeOK, RegTypeOK, ObjectTypeOK, ThreadTypeOK, ManagerTypeOK, HasObject
  <1> QED BY <1>1, <1>2

\* Every reachable state is type correct, whatever the application does with the
\* library and whichever calls fail; a thread inside a method of clsTCPSocket works on
\* an object.
THEOREM TypeCorrect == Spec => [](TypeOK /\ HasObject)
  BY InitTypeInv, TypeStep, PTL DEF Spec, TypeInv

-----------------------------------------------------------------------------
(***************************************************************************)
(* One handler at a time.  The property holds when the application touches *)
(* a connection only from the handlers of that connection: with the other  *)
(* kinds of usage TLC shows states in which it does not.                   *)
(*                                                                         *)
(* OneHandler is not inductive: that an event finds no other thread at     *)
(* work needs every connection to be armed through one descriptor at most, *)
(* and that a new object has no handler needs it to be unknown to the      *)
(* threads and to the epoll set before it is constructed.                  *)
(***************************************************************************)
HandlersOnly ==
  Usage \cap {"appClose", "reconnect", "useAfterAccept", "deleteOnClosed"} = {}

OneArmed ==
  \A f, g \in Fds :
    ptr[f] \in Sockets /\ ptr[g] = ptr[f] /\ armed[f] /\ armed[g] => f = g

UnbornUnknown ==
  \A s \in Sockets : ~alive[s] =>
    (\A t \in Threads : cur[t] # s) /\ (\A f \in Fds : ptr[f] # s)

ConnectFinishes == \A t \in Threads : pc[t] \in ConnectPlaces => ret[t] = "finish"

Exclusive == OneHandler /\ OneArmed /\ UnbornUnknown
HandlerInv == TypeInv /\ Exclusive /\ ConnectFinishes

\* Initially no thread has an object and nothing is registered.
LEMMA InitHandlerInv == Init => HandlerInv
  <1> SUFFICES ASSUME Init PROVE HandlerInv
    OBVIOUS
  <1>1. TypeInv
    BY InitTypeInv
  <1>2. Exclusive
    BY KernelAssumption
    DEF Init, KernelInit, Exclusive, OneHandler, OneArmed, UnbornUnknown, Handled, Handles
  <1>3. ConnectFinishes
    BY DEF Init, ConnectFinishes, Threads
  <1> QED BY <1>1, <1>2, <1>3 DEF HandlerInv

\* A step that gives no thread an object and arms no connection is harmless.
LEMMA CalmStep ==
  ASSUME Exclusive,
         \A u \in Threads, s \in Sockets : Handles(u, s)' => Handles(u, s),
         \A u \in Threads : cur'[u] \in Sockets => cur'[u] = cur[u],
         \A f \in Fds : ptr'[f] \in Sockets =>
           ptr'[f] = ptr[f] /\ (armed'[f] => armed[f]),
         \A s \in Sockets : alive[s] => alive'[s]
  PROVE  Exclusive'
  <1>1. OneHandler'
    BY DEF Exclusive, OneHandler, Handled
  <1>2. OneArmed'
    BY DEF Exclusive, OneArmed
  <1>3. UnbornUnknown'
    BY DEF Exclusive, UnbornUnknown
  <1> QED BY <1>1, <1>2, <1>3 DEF Exclusive

\* The handler of a connection may arm it on its way out.
LEMMA ArmingStep ==
  ASSUME Exclusive, TypeInv, NEW t \in Threads, NEW f \in Fds, NEW m, NEW p,
         pc[t] \in HandlerPlaces, Arm(f, cur[t], m), Goto(t, p), p \notin HandlerPlaces,
         UNCHANGED <<cur, alive>>
  PROVE  Exclusive'
  <1>1. cur[t] \in Sockets /\ Handles(t, cur[t])
    BY DEF TypeInv, HasObject, HandlerPlaces, Handles
  <1>2. \A u \in Threads, s \in Sockets : Handles(u, s)' => Handles(u, s) /\ u # t
    BY DEF Handles, Goto, TypeInv, TypeOK, ThreadTypeOK
  <1>3. /\ ptr'[f] = cur[t] /\ armed'[f]
        /\ \A g \in Fds \ {f} : ptr'[g] = ptr[g] /\ armed'[g] = armed[g]
    BY DEF Arm, TypeInv, TypeOK, KernelTypeOK, RegTypeOK
  <1>4. \A g \in Fds : ptr[g] = cur[t] => ~armed[g]
    BY <1>1 DEF Exclusive, OneHandler, Handled
  <1>5. ~Handled(cur[t])'
    BY <1>1, <1>2 DEF Exclusive, OneHandler, Handled
  <1>6. OneHandler'
    BY <1>2, <1>3, <1>5 DEF Exclusive, OneHandler, Handled
  <1>7. OneArmed'
    BY <1>3, <1>4 DEF Exclusive, OneArmed
  <1>8. UnbornUnknown'
    BY <1>1, <1>3 DEF Exclusive, UnbornUnknown
  <1> QED BY <1>6, <1>7, <1>8 DEF Exclusive

\* A thread may start to work on a connection that nobody has and that is not armed
\* any more.
LEMMA TakingStep ==
  ASSUME Exclusive, TypeInv, NEW t \in Threads, NEW s \in Sockets,
         cur' = [cur EXCEPT ![t] = s], pc[t] \notin UsePlaces,
         \E p \in Places : Goto(t, p),
         ~Handled(s), UNCHANGED ptr,
         \A f \in Fds : armed'[f] => armed[f] /\ ptr[f] # s,
         alive'[s], \A r \in Sockets : alive[r] => alive'[r]
  PROVE  Exclusive'
  <1>1. \A u \in Threads, r \in Sockets : Handles(u, r)' => Handles(u, r) \/ (u = t /\ r = s)
    BY DEF Handles, Goto, TypeInv, TypeOK, ThreadTypeOK
  <1>2. OneHandler'
    BY <1>1 DEF Exclusive, OneHandler, Handled
  <1>3. OneArmed'
    BY DEF Exclusive, OneArmed
  <1>4. UnbornUnknown'
    BY DEF Exclusive, UnbornUnknown, TypeInv, TypeOK, ThreadTypeOK
  <1> QED BY <1>2, <1>3, <1>4 DEF Exclusive

\* A step inside a method of clsTCPSocket: the thread keeps the connection it has, and
\* the two calls of epoll_ctl(ADD) are the last thing it does with it.
LEMMA SocketStepExclusive ==
  ASSUME HandlersOnly, HandlerInv, NEW t \in Threads, SocketStep(t)
  PROVE  Exclusive'
  <1>0. Exclusive /\ TypeInv /\ ConnectFinishes
    BY DEF HandlerInv
  <1>1. /\ UNCHANGED cur
        /\ \E p \in Places : Goto(t, p)
    BY <1>0, SocketStepPlace
  <1>2. UNCHANGED alive
    BY DEF SocketStep, object, Close, CloseMark, CloseFd, SetClosed, DropFd, Accepting,
           AcceptAdd, AcceptMark, onConnected, onReceiving, Recv, AfterRecv, Callback,
           Send, SendLoop, SendFile, ResumeSendFile, SendFileLoop, ConnectSocket,
           ConnectHost, ConnectAdd
  <1>3. ASSUME pc[t] \in HandlerPlaces \/ Goto(t, "denyCheck"),
               \A f \in Fds : ptr'[f] \in Sockets =>
                 ptr'[f] = ptr[f] /\ (armed'[f] => armed[f])
        PROVE  Exclusive'
    <2>1. \A u \in Threads, s \in Sockets : Handles(u, s)' => Handles(u, s)
      BY <1>0, <1>1, <1>3
      DEF Handles, Goto, TypeInv, TypeOK, ThreadTypeOK, HandlerPlaces, UsePlaces
    <2> QED BY <1>0, <1>1, <1>2, <1>3, <2>1, CalmStep
  <1>4. CASE AcceptMark(t)
    <2>1. Goto(t, "denyCheck") /\ UNCHANGED reg
      BY <1>4 DEF AcceptMark, HandlersOnly
    <2> QED BY <1>3, <2>1 DEF reg
  <1>5. CASE ~AcceptMark(t)
    <2>1. pc[t] \in HandlerPlaces
      BY <1>5
      DEF SocketStep, Close, CloseMark, CloseFd, SetClosed, DropFd, Accepting, AcceptAdd,
          onConnected, onReceiving, Recv, AfterRecv, Callback, Send, SendLoop, SendFile,
          ResumeSendFile, SendFileLoop, ConnectSocket, ConnectHost, ConnectAdd,
          HandlerPlaces, UsePlaces, Places, WorkerPlaces, ListenPlaces, SendPlaces,
          ClosePlaces, ConnectPlaces
    <2>2. CASE UNCHANGED reg
      BY <1>3, <2>1, <2>2 DEF reg
    <2>3. CASE CloseFd(t)
      BY <1>0, <1>3, <2>1, <2>3, KernelAssumption
      DEF CloseFd, SysClose, Unregister, kernel, reg, TypeInv, TypeOK, KernelTypeOK,
          RegTypeOK
    <2>4. CASE AcceptAdd(t) /\ ~UNCHANGED reg
      <3>1. /\ sock[cur[t]] \in Fds
            /\ Arm(sock[cur[t]], cur[t], events[cur[t]])
            /\ Goto(t, "acceptMark")
        BY <2>4 DEF AcceptAdd, EpollAdd, CanAdd, IsOpen, reg
      <3> QED
        BY <1>0, <1>1, <1>2, <2>1, <3>1, ArmingStep DEF HandlerPlaces
    <2>5. CASE ConnectAdd(t) /\ ~UNCHANGED reg
      <3>1. /\ sock[cur[t]] \in Fds
            /\ Arm(sock[cur[t]], cur[t], events[cur[t]])
            /\ pc[t] = "connectAdd" /\ Goto(t, ret[t])
        BY <2>5 DEF ConnectAdd, EpollAdd, CanAdd, IsOpen, reg, Return
      <3>2. ret[t] = "finish"
        BY <1>0, <3>1 DEF ConnectFinishes, ConnectPlaces
      <3> QED
        BY <1>0, <1>1, <1>2, <2>1, <3>1, <3>2, ArmingStep DEF HandlerPlaces, UsePlaces
    <2> QED
      BY <1>5, <2>2, <2>3, <2>4, <2>5
      DEF SocketStep, kernel, Close, CloseMark, SetClosed, DropFd, Accepting, onConnected,
          onReceiving, Recv, AfterRecv, Callback, Send, SendLoop, SendFile,
          ResumeSendFile, SendFileLoop, ConnectSocket, ConnectHost
  <1> QED BY <1>4, <1>5

\* A step of the manager: ModifySocket arms the connection and is the last thing the
\* worker does with it; the accept callback takes a new object.
LEMMA ManagerStepExclusive ==
  ASSUME HandlersOnly, HandlerInv, NEW t \in Threads, ManagerStep(t)
  PROVE  Exclusive'
  <1> USE DEF manager, local, object, kernel
  <1>0. Exclusive /\ TypeInv
    BY DEF HandlerInv
  <1>1. ASSUME UNCHANGED cur \/ Forget(t),
               \E p : Goto(t, p) /\ (pc[t] \in HandlerPlaces \/ p \notin HandlerPlaces),
               \A f \in Fds : ptr'[f] \in Sockets =>
                 ptr'[f] = ptr[f] /\ (armed'[f] => armed[f]),
               UNCHANGED alive
        PROVE  Exclusive'
    <2>1. \A u \in Threads : cur'[u] \in Sockets => cur'[u] = cur[u]
      BY <1>0, <1>1, KernelAssumption DEF Forget, TypeInv, TypeOK, ThreadTypeOK
    <2>2. \A u \in Threads, s \in Sockets : Handles(u, s)' => Handles(u, s)
      BY <1>0, <1>1, <2>1 DEF Handles, Goto, TypeInv, TypeOK, ThreadTypeOK
    <2> QED BY <1>0, <1>1, <2>1, <2>2, CalmStep
  <1>2. CASE _ParseEvents(t)
    BY <1>1, <1>2 DEF _ParseEvents, reg, HandlerPlaces, UsePlaces, Places, WorkerPlaces
  <1>3. CASE RearmGet(t)
    BY <1>1, <1>3 DEF RearmGet, reg, HandlerPlaces, UsePlaces, Places, WorkerPlaces
  <1>4. CASE ModifySocket(t)
    <2>1. pc[t] \in HandlerPlaces /\ Goto(t, "closeEvent") /\ "closeEvent" \notin HandlerPlaces
      BY <1>4 DEF ModifySocket, HandlerPlaces, UsePlaces, Places, WorkerPlaces
    <2>2. CASE UNCHANGED reg
      BY <1>1, <1>4, <2>1, <2>2 DEF ModifySocket, reg
    <2>3. CASE fd[t] \in Fds /\ Arm(fd[t], cur[t], events[cur[t]])
      BY <1>0, <1>4, <2>1, <2>3, ArmingStep DEF ModifySocket
    <2> QED BY <1>4, <2>2, <2>3 DEF ModifySocket, EpollMod, Registered
  <1>5. CASE CloseEvent(t)
    BY <1>1, <1>5 DEF CloseEvent, HandlersOnly, reg, HandlerPlaces, UsePlaces
  <1>6. CASE RemoveLock(t) \/ RemoveUnlock(t)
    BY <1>1, <1>6 DEF RemoveLock, RemoveUnlock, Return, reg, HandlerPlaces, UsePlaces,
                      Places, ClosePlaces
  <1>7. CASE RemoveSocket(t)
    <2>1. \A f \in Fds : ptr'[f] \in Sockets => ptr'[f] = ptr[f] /\ (armed'[f] => armed[f])
      BY <1>0, <1>7, KernelAssumption
      DEF RemoveSocket, EpollDel, Unregister, reg, TypeInv, TypeOK, KernelTypeOK, RegTypeOK
    <2> QED
      BY <1>1, <1>7, <2>1 DEF RemoveSocket, HandlerPlaces, UsePlaces, Places, ClosePlaces
  <1>8. CASE AcceptLock(t)
    BY <1>1, <1>8 DEF AcceptLock, reg, HandlerPlaces, UsePlaces
  <1>9. CASE OnAccepting(t)
    BY <1>1, <1>9 DEF OnAccepting, reg, HandlerPlaces, UsePlaces
  <1>10. CASE AcceptCallback(t)
    <2>1. CASE UNCHANGED <<object, cur>> /\ Goto(t, "denyCheck")
      BY <1>1, <1>10, <2>1 DEF AcceptCallback, reg, HandlerPlaces, UsePlaces
    <2>2. ASSUME NEW s \in Sockets, Construct(s), cur' = [cur EXCEPT ![t] = s],
                 Goto(t, "accepting")
          PROVE  Exclusive'
      <3>1. pc[t] \notin UsePlaces /\ UNCHANGED reg
        BY <1>10 DEF AcceptCallback, UsePlaces
      <3>2. ~Handled(s) /\ (\A f \in Fds : ptr[f] # s)
        BY <1>0, <2>2 DEF Construct, Exclusive, UnbornUnknown, Handled, Handles
      <3>3. alive'[s] /\ (\A r \in Sockets : alive[r] => alive'[r])
        BY <1>0, <2>2 DEF Construct, TypeInv, TypeOK, ObjectTypeOK
      <3>4. "accepting" \in Places
        BY DEF Places, ListenPlaces
      <3> QED BY <1>0, <2>2, <3>1, <3>2, <3>3, <3>4, TakingStep DEF reg
    <2> QED BY <1>10, <2>1, <2>2 DEF AcceptCallback
  <1>11. CASE DenyCheck(t)
    <2>1. \A f \in Fds : ptr'[f] \in Sockets => ptr'[f] = ptr[f] /\ (armed'[f] => armed[f])
      BY <1>0, <1>11, KernelAssumption
      DEF DenyCheck, SysClose, Unregister, reg, TypeInv, TypeOK, KernelTypeOK, RegTypeOK
    <2> QED
      BY <1>1, <1>11, <2>1 DEF DenyCheck, HandlerPlaces, UsePlaces
  <1>12. CASE ListenRearm(t)
    <2>1. lsn[t] \notin Sockets
      BY <1>0, KernelAssumption DEF TypeInv, TypeOK, ThreadTypeOK
    <2>2. \A f \in Fds : ptr'[f] \in Sockets => ptr'[f] = ptr[f] /\ (armed'[f] => armed[f])
      BY <1>0, <1>12, <2>1
      DEF ListenRearm, EpollMod, Arm, reg, TypeInv, TypeOK, KernelTypeOK, RegTypeOK
    <2> QED
      BY <1>1, <1>12, <2>2 DEF ListenRearm, HandlerPlaces, UsePlaces
  <1> QED
    BY <1>2, <1>3, <1>4, <1>5, <1>6, <1>7, <1>8, <1>9, <1>10, <1>11, <1>12 DEF ManagerStep

\* The remaining steps: an event and a call of ConnectToHost take a connection.
LEMMA OtherStepExclusive ==
  ASSUME HandlersOnly, HandlerInv, Next,
         \A t \in Threads : ~SocketStep(t) /\ ~ManagerStep(t)
  PROVE  Exclusive'
  <1> USE DEF manager, local, object, kernel
  <1>0. Exclusive /\ TypeInv
    BY DEF HandlerInv
  <1>1. CASE UNCHANGED <<pc, cur, alive, reg>>
    BY <1>0, <1>1 DEF reg, Exclusive, OneHandler, OneArmed, UnbornUnknown, Handled, Handles
  <1>2. ASSUME NEW l \in Listeners, StartListen(l) PROVE Exclusive'
    <2>1. \A f \in Fds : ptr'[f] \in Sockets => ptr'[f] = ptr[f] /\ (armed'[f] => armed[f])
      BY <1>0, <1>2, KernelAssumption
      DEF StartListen, Arm, reg, TypeInv, TypeOK, KernelTypeOK, RegTypeOK
    <2> QED BY <1>0, <1>2, <2>1, CalmStep DEF StartListen, Handles
  <1>3. ASSUME NEW t \in Threads, UNCHANGED <<alive, reg>>, UNCHANGED cur \/ Forget(t),
               Goto(t, "wait") \/ Goto(t, "idle") \/ Goto(t, "acceptLock")
        PROVE  Exclusive'
    <2>1. \A u \in Threads : cur'[u] \in Sockets => cur'[u] = cur[u]
      BY <1>0, <1>3, KernelAssumption DEF Forget, TypeInv, TypeOK, ThreadTypeOK
    <2>2. \A u \in Threads, s \in Sockets : Handles(u, s)' => Handles(u, s)
      BY <1>0, <1>3, <2>1
      DEF Handles, Goto, TypeInv, TypeOK, ThreadTypeOK, HandlerPlaces, UsePlaces
    <2> QED BY <1>0, <1>3, <2>1, <2>2, CalmStep DEF reg
  <1>4. ASSUME NEW t \in Workers, StartWorker(t) PROVE Exclusive'
    BY <1>3, <1>4 DEF StartWorker, Threads
  <1>5. ASSUME NEW t \in Apps, AppFinish(t) PROVE Exclusive'
    BY <1>3, <1>5 DEF AppFinish, Threads
  <1>6. ASSUME NEW t \in Workers, NEW f \in Fds, EpollWait(t, f) PROVE Exclusive'
    <2>1. t \in Threads
      BY DEF Threads
    <2>2. armed[f] /\ UNCHANGED <<ptr, alive>> /\ armed' = [armed EXCEPT ![f] = FALSE]
      BY <1>6 DEF EpollWait, Deliverable, Disarm
    <2>3. \A g \in Fds : armed'[g] => armed[g] /\ g # f
      BY <1>0, <2>2 DEF TypeInv, TypeOK, KernelTypeOK, RegTypeOK
    <2>4. CASE ptr[f] \in Sockets /\ cur' = [cur EXCEPT ![t] = ptr[f]] /\ Goto(t, "parse")
      <3>1. ~Handled(ptr[f]) /\ alive[ptr[f]]
        BY <1>0, <2>2, <2>4 DEF Exclusive, OneHandler, UnbornUnknown
      <3>2. \A g \in Fds : armed'[g] => armed[g] /\ ptr[g] # ptr[f]
        BY <1>0, <2>2, <2>3, <2>4 DEF Exclusive, OneArmed
      <3>3. pc[t] \notin UsePlaces /\ "parse" \in Places
        BY <1>6 DEF EpollWait, UsePlaces, Places, WorkerPlaces
      <3> QED BY <1>0, <2>1, <2>2, <2>4, <3>1, <3>2, <3>3, TakingStep
    <2>5. CASE UNCHANGED cur /\ Goto(t, "acceptLock")
      <3>1. \A u \in Threads, s \in Sockets : Handles(u, s)' => Handles(u, s)
        BY <1>0, <2>1, <2>5
        DEF Handles, Goto, TypeInv, TypeOK, ThreadTypeOK, HandlerPlaces, UsePlaces
      <3> QED BY <1>0, <2>2, <2>3, <2>5, <3>1, CalmStep
    <2> QED BY <1>6, <2>4, <2>5 DEF EpollWait
  <1>7. ASSUME NEW t \in Apps, AppStep(t) PROVE Exclusive'
    <2>1. t \in Threads
      BY DEF Threads
    <2>2. PICK s \in Sockets : ConnectToHost(t, s)
      BY <1>7 DEF AppStep, AppClose, HandlersOnly
    <2>3. Construct(s) /\ UNCHANGED reg /\ pc[t] \notin UsePlaces
      BY <2>2 DEF ConnectToHost, HandlersOnly, UsePlaces
    <2>4. ~Handled(s) /\ (\A f \in Fds : ptr[f] # s)
      BY <1>0, <2>3 DEF Construct, Exclusive, UnbornUnknown, Handled, Handles
    <2>5. alive'[s] /\ (\A r \in Sockets : alive[r] => alive'[r])
      BY <1>0, <2>3 DEF Construct, TypeInv, TypeOK, ObjectTypeOK
    <2>6. cur' = [cur EXCEPT ![t] = s] /\ Goto(t, "connectSocket")
      BY <2>2 DEF ConnectToHost
    <2>7. "connectSocket" \in Places
      BY DEF Places, ConnectPlaces
    <2> QED BY <1>0, <2>1, <2>3, <2>4, <2>5, <2>6, <2>7, TakingStep DEF reg
  <1>8. CASE Peer
    BY <1>1, <1>8 DEF Peer, PeerConnect, PeerSend, PeerEof, PeerReset, PeerAnswer,
                      PeerReads, Arrives
  <1> QED
    BY <1>2, <1>4, <1>5, <1>6, <1>7, <1>8 DEF Next, Wait

\* Only ConnectToHost enters its own steps, and it returns to the application.
LEMMA ConnectFinishesStep ==
  ASSUME TypeInv, ConnectFinishes, Next
  PROVE  ConnectFinishes'
  <1>0. TypeInv /\ ConnectFinishes
    OBVIOUS
  <1> USE DEF manager, local
  <1>1. CASE UNCHANGED <<pc, ret>>
    BY <1>0, <1>1 DEF ConnectFinishes
  <1>2. ASSUME NEW t \in Threads, NEW p, NEW r, Goto(t, p), ret' = [ret EXCEPT ![t] = r],
               p \in ConnectPlaces => r = "finish"
        PROVE  ConnectFinishes'
    BY <1>0, <1>2 DEF ConnectFinishes, Goto, TypeInv, TypeOK, ThreadTypeOK
  <1>3. ASSUME NEW t \in Threads, NEW p, Goto(t, p), UNCHANGED ret,
               p \in ConnectPlaces => pc[t] \in ConnectPlaces
        PROVE  ConnectFinishes'
    BY <1>0, <1>3 DEF ConnectFinishes, Goto, TypeInv, TypeOK, ThreadTypeOK
  <1>4. ASSUME NEW t \in Threads, Return(t), UNCHANGED ret PROVE ConnectFinishes'
    <2>1. ret[t] \notin ConnectPlaces
      BY <1>0 DEF TypeInv, TypeOK, ThreadTypeOK, ConnectPlaces
    <2> QED BY <1>3, <1>4, <2>1 DEF Return
  <1>5. ASSUME NEW t \in Threads, SocketStep(t) PROVE ConnectFinishes'
    <2>1. CASE Accepting(t) \/ AcceptAdd(t) \/ AcceptMark(t)
      BY <1>2, <1>3, <2>1 DEF Accepting, AcceptAdd, AcceptMark, ConnectPlaces
    <2>2. CASE ConnectSocket(t) \/ ConnectHost(t) \/ ConnectAdd(t)
      BY <1>3, <1>4, <2>2 DEF ConnectSocket, ConnectHost, ConnectAdd, ConnectPlaces
    <2>3. CASE Close(t) \/ CloseMark(t) \/ CloseFd(t) \/ SetClosed(t)
      BY <1>3, <1>4, <2>3 DEF Close, CloseMark, CloseFd, SetClosed, ConnectPlaces
    <2>4. CASE DropFd(t)
      BY <1>3, <1>4, <2>4 DEF DropFd, Return, ConnectPlaces
    <2>5. CASE onConnected(t) \/ onReceiving(t) \/ Recv(t) \/ AfterRecv(t) \/ Callback(t)
      BY <1>3, <1>4, <2>5 DEF onConnected, onReceiving, Recv, AfterRecv, Callback, ConnectPlaces
    <2>6. CASE Send(t) \/ SendLoop(t) \/ SendFile(t) \/ ResumeSendFile(t) \/ SendFileLoop(t)
      BY <1>3, <1>4, <2>6 DEF Send, SendLoop, SendFile, ResumeSendFile, SendFileLoop, ConnectPlaces
    <2> QED BY <1>5, <2>1, <2>2, <2>3, <2>4, <2>5, <2>6 DEF SocketStep
  <1>6. ASSUME NEW t \in Threads, ManagerStep(t) PROVE ConnectFinishes'
    BY <1>2, <1>3, <1>4, <1>6
    DEF ManagerStep, _ParseEvents, RearmGet, ModifySocket, CloseEvent, RemoveLock,
        RemoveSocket, RemoveUnlock, AcceptLock, OnAccepting, AcceptCallback, DenyCheck,
        ListenRearm, Forget, ConnectPlaces
  <1>7. ASSUME NEW t \in Workers, Wait(t) \/ StartWorker(t) PROVE ConnectFinishes'
    BY <1>2, <1>3, <1>7 DEF Wait, EpollWait, StartWorker, Threads, ConnectPlaces
  <1>8. ASSUME NEW t \in Apps, AppStep(t) \/ AppFinish(t) PROVE ConnectFinishes'
    BY <1>2, <1>8
    DEF AppStep, ConnectToHost, AppClose, AppFinish, Forget, Threads, ConnectPlaces
  <1> QED
    BY <1>1, <1>5, <1>6, <1>7, <1>8 DEF Next, StartListen, Peer

\* Every step keeps the strengthened invariant.
LEMMA HandlerStep ==
  ASSUME HandlersOnly
  PROVE  HandlerInv /\ [Next]_vars => HandlerInv'
  <1> SUFFICES ASSUME HandlerInv, [Next]_vars PROVE HandlerInv'
    OBVIOUS
  <1>1. TypeInv'
    BY TypeStep DEF HandlerInv
  <1>2. CASE Next
    <2>1. Exclusive'
      BY <1>2, SocketStepExclusive, ManagerStepExclusive, OtherStepExclusive
    <2> QED BY <1>1, <1>2, <2>1, ConnectFinishesStep DEF HandlerInv
  <1>3. CASE UNCHANGED vars
    <2>1. Exclusive' /\ ConnectFinishes'
      BY <1>3
      DEF vars, kernel, reg, object, local, HandlerInv, Exclusive, OneHandler, OneArmed,
          UnbornUnknown, ConnectFinishes, Handled, Handles
    <2> QED BY <1>1, <2>1 DEF HandlerInv
  <1> QED BY <1>2, <1>3

\* When the application touches a connection only from its handlers, EPOLLONESHOT
\* gives every connection to one thread at a time, for any number of workers, callers
\* of ConnectToHost, listeners and descriptors, and whichever system calls fail.
THEOREM OneHandlerAtATime == ASSUME HandlersOnly PROVE Spec => []OneHandler
  <1>1. HandlerInv => OneHandler
    BY DEF HandlerInv, Exclusive
  <1> QED BY InitHandlerInv, HandlerStep, <1>1, PTL DEF Spec
=============================================================================
