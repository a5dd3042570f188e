---------------------------- MODULE Runtime_proofs ----------------------------
(***************************************************************************)
(* Theorems about Pipe, ThreadTimer and Udp, the parts of the runtime a    *)
(* program uses beside the TCP server.                                     *)
(*                                                                         *)
(* Pipe, for every set of descriptors and requests, every bound of the     *)
(* queues and every choice of the calls that fail.                         *)
(*                                                                         *)
(* ThreadTimer, for any number of threads: a timer that is stopped while   *)
(* its thread sleeps may be started, stopped and made a single shot in any *)
(* order.                                                                  *)
(*                                                                         *)
(* Udp, for any number of workers, clients, calls and faults, and a        *)
(* network that loses, doubles and reorders datagrams.                     *)
(***************************************************************************)
EXTENDS Pipe, ThreadTimer, Udp, TLAPS

-----------------------------------------------------------------------------
(***************************************************************************)
(* Pipe: the inductive invariants.                                         *)
(***************************************************************************)
Messages == Requests \cup {None}

\* Where the thread has stored a socket and not given it up, where it has bound it,
\* and where it has put it into readfds.
SocketPlaces == {"unlink", "bind", "inner", "select", "selecting", "isSet", "recv",
                 "deliver"}
BoundPlaces == SocketPlaces \ {"unlink", "bind"}
WaitPlaces == {"select", "selecting", "isSet", "recv"}

\* m_bRunning is set only while the owner is outside of the library, and a thread
\* that was started before it is set cannot have passed the outer loop's test.
OwnerInv ==
  /\ running => app = "idle"
  /\ app = "started" => thr \in {"outer", "done"}

HasSocket == thr \in SocketPlaces => listenSock # Invalid

\* While the pipe runs nobody but the thread touches the socket and the path.
ServeInv ==
  running =>
    /\ thr \in SocketPlaces => listenSock \in open
    /\ thr = "bind" => path = None
    /\ thr \in BoundPlaces => path = listenSock
    /\ thr \in WaitPlaces => sel = listenSock

\* As long as nothing has failed: a socket is made only when none is left, and
\* m_listenSock is overwritten only after close().
OneSocket ==
  spare = MaxFaults =>
    /\ open \subseteq {Zero, listenSock}
    /\ thr = "create" \/ (thr = "outer" /\ running) =>
         open \subseteq {Zero} /\ listenSock \in {Zero, Invalid}
    /\ app = "started" => open \subseteq {Zero} /\ listenSock = Zero
    /\ app \in {"stopClose", "stopZero"} => thr # "create"
    /\ app = "stopZero" \/ thr = "selectInvalid" => open \subseteq {Zero}
    /\ thr \notin {"unlinkClose", "unlinkZero"}

\* And no queue holds an empty datagram.
NoEmpty ==
  spare = MaxFaults => \A f \in Fds : queue[f] \in Seq(Requests)

PipeInv == TypeOK /\ OwnerInv /\ HasSocket /\ ServeInv /\ OneSocket /\ NoEmpty

-----------------------------------------------------------------------------
(***************************************************************************)
(* Type correctness.                                                       *)
(***************************************************************************)
\* Init gives every variable a value of its type, and has the invariant.
LEMMA InitPipeInv == Init => PipeInv
  <1> SUFFICES ASSUME Init PROVE PipeInv
    OBVIOUS
  <1>1. /\ queue \in [Fds -> Seq(Requests \cup {None})]
        /\ queue \in [Fds -> Seq(Requests)]
    BY DEF Init
  <1>2. TypeOK
    <2>1. spare \in 0..MaxFaults
      BY PipeAssumption DEF Init
    <2>2. /\ running \in BOOLEAN /\ app \in AppPlaces /\ thr \in ThreadPlaces
          /\ thr # "deliver"
      BY DEF Init, AppPlaces, ThreadPlaces
    <2>3. /\ listenSock \in Fds \cup {Invalid} /\ sel \in Fds \cup {Invalid}
          /\ msg \in Requests \cup {None} /\ open \subseteq Fds
          /\ path \in Fds \cup {None, Invalid} /\ answers \subseteq Requests
          /\ req \in [Requests -> {"new", "made", "sent", "over"}]
      BY PipeAssumption DEF Init
    <2> QED
      BY <1>1, <2>1, <2>2, <2>3 DEF TypeOK
  <1>3. OwnerInv /\ HasSocket /\ ServeInv /\ OneSocket
    BY DEF Init, OwnerInv, HasSocket, ServeInv, OneSocket, SocketPlaces, BoundPlaces,
           WaitPlaces
  <1>4. NoEmpty
    BY <1>1 DEF NoEmpty
  <1> QED
    BY <1>2, <1>3, <1>4 DEF PipeInv

\* close() keeps the types of the descriptors, the queues and the path.
LEMMA SysCloseType ==
  ASSUME TypeOK, NEW f, SysClose(f)
  PROVE  /\ open' \subseteq Fds
         /\ queue' \in [Fds -> Seq(Messages)]
         /\ path' \in Fds \cup {None, Invalid}
  <1>1. << >> \in Seq(Messages)
    OBVIOUS
  <1> QED
    BY <1>1 DEF TypeOK, SysClose, Messages

\* The number of calls that may still fail stays within its bound.
LEMMA FailsType == ASSUME TypeOK, NEW c, Fails(c) PROVE spare' \in 0..MaxFaults
  BY PipeAssumption DEF TypeOK, Fails

\* Receiving and sending keep the type of the queues.
LEMMA QueueType ==
  ASSUME NEW S, NEW q \in [Fds -> Seq(S)], NEW f \in Fds
  PROVE  /\ \A r \in S : [q EXCEPT ![f] = Append(@, r)] \in [Fds -> Seq(S)]
         /\ q[f] # << >> => /\ Head(q[f]) \in S
                            /\ [q EXCEPT ![f] = Tail(@)] \in [Fds -> Seq(S)]
  OBVIOUS

\* Every step keeps every variable in its type.
LEMMA TypeStep == ASSUME TypeOK, [Next]_vars PROVE TypeOK'
  <1> USE DEF AppPlaces, ThreadPlaces, pipe, threads, system, peers
  <1>1. CASE Owner
    <2>1. CASE StopClose
      BY <2>1, SysCloseType DEF StopClose, TypeOK, Messages
    <2>2. CASE Listen \/ Started \/ StopListen \/ StopTest \/ StopZero \/ Destroy \/ Join
      BY <2>2, PipeAssumption
      DEF TypeOK, Listen, Started, StopListen, StopTest, StopZero, Destroy, Join
    <2> QED
      BY <1>1, <2>1, <2>2 DEF Owner
  <1>2. CASE _onListenerThread
    <2>1. CASE UnlinkClose \/ SelectClose
      BY <2>1, SysCloseType DEF UnlinkClose, SelectClose, TypeOK, Messages
    <2>2. CASE Create
      BY <2>2, FailsType, PipeAssumption DEF Create, Free, TypeOK
    <2>3. CASE Unlink
      BY <2>3, FailsType DEF Unlink, TypeOK
    <2>4. CASE Bind
      BY <2>4, FailsType DEF Bind, TypeOK
    <2>5. CASE Recv
      <3>1. CASE listenSock \in open \ {Zero}
        <4>1. queue \in [Fds -> Seq(Messages)] /\ listenSock \in Fds
          BY <3>1 DEF TypeOK, Messages
        <4>2. /\ queue[listenSock] # << >>
              /\ msg' = Head(queue[listenSock])
              /\ queue' = [queue EXCEPT ![listenSock] = Tail(@)]
          BY <2>5, <3>1 DEF Recv
        <4>3. queue' \in [Fds -> Seq(Messages)] /\ msg' \in Messages
          BY <4>1, <4>2, QueueType
        <4> QED
          BY <2>5, <3>1, <4>3 DEF Recv, TypeOK, Messages
      <3>2. CASE listenSock \notin open \ {Zero}
        BY <2>5, <3>2 DEF Recv, TypeOK
      <3> QED
        BY <3>1, <3>2
    <2>6. CASE Deliver
      BY <2>6 DEF Deliver, TypeOK
    <2>7. CASE \/ Outer \/ UnlinkZero \/ Inner \/ Select \/ Timeout \/ Selected
               \/ SelectInvalid \/ IsSet
      BY <2>7, PipeAssumption
      DEF TypeOK, Outer, UnlinkZero, Inner, Select, Timeout, Selected, SelectInvalid, IsSet
    <2> QED
      BY <1>2, <2>1, <2>2, <2>3, <2>4, <2>5, <2>6, <2>7 DEF _onListenerThread
  <1>3. CASE Peers
    <2>1. ASSUME path \notin {None, Invalid}, NEW x \in Messages,
                 queue' = [queue EXCEPT ![path] = Append(@, x)]
          PROVE  queue' \in [Fds -> Seq(Messages)]
      <3>1. queue \in [Fds -> Seq(Messages)] /\ path \in Fds
        BY <2>1 DEF TypeOK, Messages
      <3> QED
        BY <2>1, <3>1, QueueType
    <2>2. CASE SendEmpty
      <3>1. queue' \in [Fds -> Seq(Messages)]
        BY <2>1, <2>2 DEF SendEmpty, Messages
      <3>2. spare' \in 0..MaxFaults
        BY <2>2, FailsType DEF SendEmpty, TypeOK
      <3> QED
        BY <2>2, <3>1, <3>2 DEF SendEmpty, TypeOK, Messages
    <2>3. ASSUME NEW r \in Requests, SendMessage(r) PROVE TypeOK'
      <3>1. CASE path \notin {None, Invalid}
        <4>1. queue' \in [Fds -> Seq(Messages)]
          BY <2>1, <2>3, <3>1 DEF SendMessage, Messages
        <4> QED
          BY <2>3, <4>1 DEF SendMessage, TypeOK, Messages
      <3>2. CASE path \in {None, Invalid}
        BY <2>3, <3>2 DEF SendMessage, TypeOK
      <3> QED
        BY <3>1, <3>2
    <2>4. ASSUME NEW r \in Requests, CreateReceiver(r) \/ ReceiveMessage(r) PROVE TypeOK'
      BY <2>4 DEF CreateReceiver, ReceiveMessage, TypeOK
    <2> QED
      BY <1>3, <2>2, <2>3, <2>4 DEF Peers
  <1>4. CASE UNCHANGED vars
    BY <1>4 DEF vars, TypeOK
  <1> QED
    BY <1>1, <1>2, <1>3, <1>4 DEF Next

-----------------------------------------------------------------------------
(***************************************************************************)
(* The owner and the thread.                                               *)
(***************************************************************************)
\* Steps of the thread and of the requests leave the owner and m_bRunning alone,
\* those of the owner and of the requests the thread's own variables; requests
\* change neither m_listenSock nor the descriptors.
LEMMA Frames ==
  /\ _onListenerThread => UNCHANGED <<running, app>>
  /\ Peers => UNCHANGED <<running, listenSock, app, thr, sel, open, path>>
  <1>1. _onListenerThread => UNCHANGED <<running, app>>
    BY DEF _onListenerThread, Outer, Create, Unlink, UnlinkClose, UnlinkZero, Bind, Inner,
           Select, Timeout, Selected, SelectClose, SelectInvalid, IsSet, Recv, Deliver, pipe
  <1>2. Peers => UNCHANGED <<running, listenSock, app, thr, sel, open, path>>
    BY DEF Peers, SendEmpty, CreateReceiver, SendMessage, ReceiveMessage, pipe, threads, system
  <1> QED
    BY <1>1, <1>2

\* Every step keeps OwnerInv.
LEMMA OwnerStep == ASSUME OwnerInv, [Next]_vars PROVE OwnerInv'
  <1> USE DEF OwnerInv, pipe, threads
  <1>1. CASE Owner
    BY <1>1
    DEF Owner, Listen, Started, StopListen, StopTest, StopClose, StopZero, Destroy, Join
  <1>2. CASE _onListenerThread
    <2>1. CASE app = "started"
      BY <1>2, <2>1, Frames
      DEF _onListenerThread, Outer, Create, Unlink, UnlinkClose, UnlinkZero, Bind, Inner,
          Select, Timeout, Selected, SelectClose, SelectInvalid, IsSet, Recv, Deliver
    <2>2. CASE app # "started"
      BY <1>2, <2>2, Frames
    <2> QED
      BY <2>1, <2>2
  <1>3. CASE Peers
    BY <1>3, Frames
  <1>4. CASE UNCHANGED vars
    BY <1>4 DEF vars
  <1> QED
    BY <1>1, <1>2, <1>3, <1>4 DEF Next

\* Every step keeps HasSocket: -1 is stored only on the way to the outer loop.
LEMMA HasSocketStep == ASSUME TypeOK, HasSocket, [Next]_vars PROVE HasSocket'
  <1> USE PipeAssumption DEF HasSocket, SocketPlaces, pipe, threads
  <1>1. CASE Owner
    BY <1>1
    DEF Owner, Listen, Started, StopListen, StopTest, StopClose, StopZero, Destroy, Join
  <1>2. CASE _onListenerThread
    <2>1. CASE Create
      BY <2>1 DEF Create, Free
    <2>2. CASE UnlinkZero \/ SelectInvalid \/ Outer \/ UnlinkClose \/ SelectClose
      BY <2>2 DEF UnlinkZero, SelectInvalid, Outer, UnlinkClose, SelectClose
    <2>3. CASE \/ Unlink \/ Bind \/ Inner \/ Select \/ Timeout \/ Selected \/ IsSet \/ Recv
               \/ Deliver
      BY <2>3 DEF Unlink, Bind, Inner, Select, Timeout, Selected, IsSet, Recv, Deliver
    <2> QED
      BY <1>2, <2>1, <2>2, <2>3 DEF _onListenerThread
  <1>3. CASE Peers
    BY <1>3, Frames
  <1>4. CASE UNCHANGED vars
    BY <1>4 DEF vars
  <1> QED
    BY <1>1, <1>2, <1>3, <1>4 DEF Next

\* Every step keeps ServeInv: while m_bRunning is set the owner is idle, so that only
\* the thread moves, and when it is being set the thread is not past the outer loop.
LEMMA ServeStep == ASSUME TypeOK, OwnerInv, ServeInv, [Next]_vars PROVE ServeInv'
  <1> USE PipeAssumption
      DEF ServeInv, SocketPlaces, BoundPlaces, WaitPlaces, pipe, threads, system
  <1>1. CASE Owner
    <2>1. CASE Started
      BY <2>1 DEF Started, OwnerInv
    <2>2. CASE Listen \/ Join
      BY <2>2 DEF Listen, Join, OwnerInv
    <2>3. CASE StopListen \/ StopTest \/ StopClose \/ StopZero \/ Destroy
      BY <2>3 DEF StopListen, StopTest, StopClose, StopZero, Destroy, OwnerInv
    <2> QED
      BY <1>1, <2>1, <2>2, <2>3 DEF Owner
  <1>2. CASE _onListenerThread
    <2>1. CASE Create
      BY <2>1 DEF Create
    <2>2. CASE Unlink
      BY <2>2 DEF Unlink
    <2>3. CASE Bind
      BY <2>3 DEF Bind
    <2>4. CASE Inner
      BY <2>4 DEF Inner
    <2>5. CASE Select
      BY <2>5 DEF Select
    <2>8. CASE Timeout
      BY <2>8 DEF Timeout
    <2>9. CASE Selected
      BY <2>9 DEF Selected
    <2>10. CASE IsSet
      BY <2>10 DEF IsSet
    <2>11. CASE Deliver
      BY <2>11 DEF Deliver
    <2>6. CASE Recv
      BY <2>6 DEF Recv
    <2>7. CASE Outer \/ UnlinkClose \/ UnlinkZero \/ SelectClose \/ SelectInvalid
      BY <2>7 DEF Outer, UnlinkClose, UnlinkZero, SelectClose, SelectInvalid
    <2> QED
      BY <1>2, <2>1, <2>2, <2>3, <2>4, <2>5, <2>6, <2>7, <2>8, <2>9, <2>10, <2>11
      DEF _onListenerThread
  <1>3. CASE Peers
    BY <1>3, Frames
  <1>4. CASE UNCHANGED vars
    BY <1>4 DEF vars
  <1> QED
    BY <1>1, <1>2, <1>3, <1>4 DEF Next

-----------------------------------------------------------------------------
(***************************************************************************)
(* No socket is lost.                                                      *)
(***************************************************************************)
\* The number of calls that may still fail never grows.
LEMMA SpareStep ==
  ASSUME TypeOK, [Next]_vars, spare' = MaxFaults
  PROVE  spare = MaxFaults /\ \A c : ~Fails(c)
  <1>1. \A c : ~Fails(c)
    BY PipeAssumption DEF Fails, TypeOK
  <1>2. CASE Owner
    BY <1>1, <1>2
    DEF Owner, Listen, Started, StopListen, StopTest, StopClose, StopZero, Destroy, Join
  <1>3. CASE _onListenerThread
    BY <1>1, <1>3
    DEF _onListenerThread, Outer, Create, Unlink, UnlinkClose, UnlinkZero, Bind, Inner,
        Select, Timeout, Selected, SelectClose, SelectInvalid, IsSet, Recv, Deliver
  <1>4. CASE Peers
    BY <1>1, <1>4 DEF Peers, SendEmpty, CreateReceiver, SendMessage, ReceiveMessage
  <1>5. CASE UNCHANGED vars
    BY <1>1, <1>5 DEF vars
  <1> QED
    BY <1>1, <1>2, <1>3, <1>4, <1>5 DEF Next

\* Every step keeps NoEmpty.
LEMMA NoEmptyStep == ASSUME TypeOK, NoEmpty, [Next]_vars PROVE NoEmpty'
  <1> SUFFICES ASSUME spare' = MaxFaults PROVE \A f \in Fds : queue'[f] \in Seq(Requests)
    BY DEF NoEmpty
  <1>1. spare = MaxFaults /\ \A c : ~Fails(c)
    BY SpareStep
  <1>2. queue \in [Fds -> Seq(Requests)]
    BY <1>1 DEF NoEmpty, TypeOK
  <1>3. CASE UNCHANGED queue
    BY <1>2, <1>3
  <1>4. ASSUME NEW f, SysClose(f) PROVE queue' \in [Fds -> Seq(Requests)]
    <2>1. << >> \in Seq(Requests)
      OBVIOUS
    <2> QED
      BY <1>2, <1>4, <2>1 DEF SysClose
  <1>5. CASE StopClose \/ UnlinkClose \/ SelectClose
    BY <1>4, <1>5 DEF StopClose, UnlinkClose, SelectClose
  <1>6. CASE Recv /\ listenSock \in open \ {Zero}
    <2>1. listenSock \in Fds
      BY <1>6 DEF TypeOK
    <2>2. queue[listenSock] # << >> /\ queue' = [queue EXCEPT ![listenSock] = Tail(@)]
      BY <1>6 DEF Recv
    <2>3. queue' \in [Fds -> Seq(Requests)]
      BY <1>2, <2>1, <2>2, QueueType
    <2> QED
      BY <2>3
  <1>7. ASSUME NEW r \in Requests, SendMessage(r), path \notin {None, Invalid}
        PROVE  queue' \in [Fds -> Seq(Requests)]
    <2>1. path \in Fds /\ queue' = [queue EXCEPT ![path] = Append(@, r)]
      BY <1>1, <1>7 DEF SendMessage, TypeOK
    <2> QED
      BY <1>2, <2>1, QueueType
  <1>8. CASE Peers
    BY <1>1, <1>3, <1>7, <1>8
    DEF Peers, SendEmpty, CreateReceiver, SendMessage, ReceiveMessage, system
  <1>9. CASE Owner
    BY <1>3, <1>5, <1>9
    DEF Owner, Listen, Started, StopListen, StopTest, StopZero, Destroy, Join, system
  <1>10. CASE _onListenerThread
    BY <1>3, <1>5, <1>6, <1>10
    DEF _onListenerThread, Outer, Create, Unlink, UnlinkZero, Bind, Inner,
        Select, Timeout, Selected, SelectInvalid, IsSet, Recv, Deliver, system
  <1> QED
    BY <1>3, <1>8, <1>9, <1>10 DEF Next, vars, system

\* As long as nothing fails, what recvfrom returns is not empty.
LEMMA RecvNotEmpty ==
  ASSUME TypeOK, NoEmpty, spare = MaxFaults, Recv, listenSock \in open \ {Zero}
  PROVE  thr' = "deliver"
  <1>1. queue[listenSock] \in Seq(Requests) /\ queue[listenSock] # << >>
    BY DEF NoEmpty, TypeOK, Recv
  <1>2. msg' \in Requests
    BY <1>1 DEF Recv
  <1> QED
    BY <1>2, PipeAssumption DEF Recv

\* Every step keeps OneSocket.
LEMMA OneSocketStep == ASSUME PipeInv, [Next]_vars PROVE OneSocket'
  <1> USE PipeAssumption DEF pipe, threads, system
  <1>0. TypeOK /\ OwnerInv /\ ServeInv /\ OneSocket /\ NoEmpty
    BY DEF PipeInv
  <1>1. CASE spare' # MaxFaults
    BY <1>1 DEF OneSocket
  <1>2. CASE spare' = MaxFaults
    <2>0. spare = MaxFaults /\ \A c : ~Fails(c)
      BY <1>0, <1>2, SpareStep
    <2>1. CASE Owner
      <3>1. CASE Listen
        BY <1>0, <2>0, <3>1 DEF OneSocket, Listen
      <3>2. CASE Started
        BY <1>0, <2>0, <3>2 DEF OneSocket, Started, OwnerInv
      <3>3. CASE StopListen \/ Destroy
        BY <1>0, <2>0, <3>3 DEF OneSocket, StopListen, Destroy
      <3>4. CASE StopTest
        BY <1>0, <2>0, <3>4 DEF OneSocket, StopTest, OwnerInv
      <3>5. CASE StopClose
        BY <1>0, <2>0, <3>5 DEF OneSocket, StopClose, SysClose, OwnerInv
      <3>6. CASE StopZero
        BY <1>0, <2>0, <3>6 DEF OneSocket, StopZero, OwnerInv
      <3>7. CASE Join
        BY <1>0, <2>0, <3>7 DEF OneSocket, Join, OwnerInv
      <3> QED
        BY <2>1, <3>1, <3>2, <3>3, <3>4, <3>5, <3>6, <3>7 DEF Owner
    <2>2. CASE _onListenerThread
      <3>1. CASE Outer
        BY <1>0, <2>0, <3>1 DEF OneSocket, Outer, OwnerInv
      <3>2. CASE Create
        BY <1>0, <2>0, <3>2 DEF OneSocket, Create, Free, OwnerInv, TypeOK
      <3>3. CASE Unlink \/ UnlinkClose \/ UnlinkZero
        BY <1>0, <2>0, <3>3 DEF OneSocket, Unlink, UnlinkClose, UnlinkZero
      <3>4. CASE Bind
        BY <1>0, <2>0, <3>4 DEF OneSocket, Bind, ServeInv, SocketPlaces
      <3>5. CASE Inner
        BY <1>0, <2>0, <3>5 DEF OneSocket, Inner
      <3>6. CASE Select \/ Timeout \/ Selected \/ IsSet \/ Deliver
        BY <1>0, <2>0, <3>6 DEF OneSocket, Select, Timeout, Selected, IsSet, Deliver
      <3>7. CASE SelectClose
        BY <1>0, <2>0, <3>7 DEF OneSocket, SelectClose, SysClose
      <3>8. CASE SelectInvalid
        BY <1>0, <2>0, <3>8 DEF OneSocket, SelectInvalid, OwnerInv
      <3>9. CASE Recv
        BY <1>0, <2>0, <3>9, RecvNotEmpty
        DEF OneSocket, Recv, ServeInv, SocketPlaces
      <3> QED
        BY <2>2, <3>1, <3>2, <3>3, <3>4, <3>5, <3>6, <3>7, <3>8, <3>9
        DEF _onListenerThread
    <2>3. CASE Peers
      BY <1>0, <2>0, <2>3, Frames DEF OneSocket
    <2>4. CASE UNCHANGED vars
      BY <1>0, <2>4 DEF vars, OneSocket
    <2> QED
      BY <2>1, <2>2, <2>3, <2>4 DEF Next
  <1> QED
    BY <1>1, <1>2

-----------------------------------------------------------------------------
(***************************************************************************)
(* The theorems.                                                           *)
(***************************************************************************)
\* PipeInv holds in every state.
LEMMA Invariance == Spec => []PipeInv
  <1>1. PipeInv /\ [Next]_vars => PipeInv'
    BY TypeStep, OwnerStep, HasSocketStep, ServeStep, OneSocketStep, NoEmptyStep
    DEF PipeInv
  <1> QED
    BY <1>1, InitPipeInv, PTL DEF Spec

\* Every variable of clsPipe and of what it uses keeps its type.
THEOREM PipeTypeCorrect == Spec => []TypeOK
  <1>1. PipeInv => TypeOK
    BY DEF PipeInv
  <1> QED
    BY <1>1, Invariance, PTL

\* The listener thread never gives -1 to FD_SET, whatever the owner does meanwhile.
THEOREM NeverSelectsInvalid == Spec => []FdSetValid
  <1>1. PipeInv => FdSetValid
    BY DEF PipeInv, HasSocket, SocketPlaces, FdSetValid
  <1> QED
    BY <1>1, Invariance, PTL

\* A running pipe waits on the socket its path names.
THEOREM WaitsOnPath == Spec => []ServesPath
  <1>1. PipeInv => ServesPath
    BY DEF PipeInv, ServeInv, ServesPath, BoundPlaces, SocketPlaces, WaitPlaces
  <1> QED
    BY <1>1, Invariance, PTL

\* As long as nothing fails no socket of the pipe is lost.
THEOREM SocketsNamed == Spec => []NoLostSocket
  <1>1. PipeInv => NoLostSocket
    BY DEF PipeInv, OneSocket, NoLostSocket
  <1> QED
    BY <1>1, Invariance, PTL

-----------------------------------------------------------------------------
(***************************************************************************)
(* ThreadTimer: the inductive invariant.                                   *)
(***************************************************************************)
Awake == {"lock", "callback", "unlock", "finish"}
TimerPlaces == {"none", "start", "sleep", "ended", "delete"} \cup Awake

TimerTypeOK ==
  /\ m_pthread \in Threads \cup {NULL} /\ created \in Threads \cup {NULL}
  /\ isSingleshot \in BOOLEAN
  /\ owner \in {"idle", "create", "assign", "kill", "delete", "clear"}
  /\ object \in [Threads -> {"none", "live", "deleted"}]
  /\ mutex \in [Threads -> Threads \cup {NULL}]
  /\ thread \in [Threads -> TimerPlaces]
  /\ once \in [Threads -> BOOLEAN]
  /\ cancelled \subseteq Threads
  /\ hurried \in BOOLEAN

\* Until owner and thread meet, m_pthread is NULL or names a live object but for the
\* moment between its deletion and Clear, when its thread is asleep and cancelled; while
\* a start is under way it is NULL, and a stop that has read it finds it unchanged.
TimerOwnerInv ==
  /\ m_pthread # NULL /\ owner # "clear" => object[m_pthread] = "live"
  /\ owner \in {"create", "assign"} => m_pthread = NULL
  /\ owner = "kill" => m_pthread # NULL
  /\ owner \in {"delete", "clear"} => m_pthread \in cancelled \cup {NULL}
  /\ owner = "clear" /\ m_pthread # NULL =>
       object[m_pthread] = "deleted" /\ thread[m_pthread] \in {"sleep", "ended"}
  /\ created # NULL => /\ owner = "assign" /\ object[created] = "live"
                       /\ thread[created] \in {"start", "sleep"} /\ created \notin cancelled

\* Every thread, by where it is: awake it is the timer's own, before its first sleep and
\* asleep it is named or has been cancelled, and at its end only itself knows its object.
ThreadInv ==
  \A t \in Threads :
    /\ thread[t] \in Awake =>
         m_pthread = t /\ object[t] = "live" /\ owner \in {"idle", "kill", "delete"}
    /\ thread[t] = "start" => object[t] = "live" /\ t \in {m_pthread, created}
    /\ thread[t] = "sleep" /\ t \notin cancelled => t \in {m_pthread, created}
    /\ thread[t] = "delete" => object[t] = "live" /\ t \notin {m_pthread, created}
    /\ object[t] = "live" => t \in {m_pthread, created} \/ thread[t] = "delete"
    /\ object[t] = "none" => thread[t] = "none" /\ t \notin cancelled

Unhurried == TimerOwnerInv /\ ThreadInv
TimerInv == TimerTypeOK /\ (hurried \/ Unhurried)

-----------------------------------------------------------------------------
LEMMA TimerInitInv == TimerInit => TimerInv
  BY DEF TimerInit, TimerInv, Unhurried, TimerTypeOK, TimerOwnerInv, ThreadInv, TimerPlaces, Awake

\* Every step keeps the types, hurried or not.
LEMMA TimerTypeStep == ASSUME TimerTypeOK, TimerNext PROVE TimerTypeOK'
  <1> USE TimerAssumption DEF TimerTypeOK, TimerPlaces, Awake, timer, objects, posix
  <1>1. ASSUME NEW sec \in {0, 1}, StartTimer(sec)
        PROVE  TimerTypeOK'
    BY <1>1 DEF StartTimer
  <1>2. ASSUME NEW b \in BOOLEAN, SetSingleShot(b)
        PROVE  TimerTypeOK'
    BY <1>2 DEF SetSingleShot
  <1>3. CASE CreateThread
    BY <1>3 DEF CreateThread
  <1>4. CASE Assign \/ StopTimer \/ Kill \/ Clear
    BY <1>4 DEF Assign, StopTimer, Kill, Clear, Live
  <1>5. CASE Delete
    BY <1>5 DEF Delete, Live
  <1>6. ASSUME NEW t \in Threads, TimerThread(t)
        PROVE  TimerTypeOK'
    <2>1. CASE __onThreadTimer(t) \/ Cancel(t)
      BY <2>1 DEF __onThreadTimer, Cancel
    <2>2. CASE Wake(t)
      BY <2>2 DEF Wake
    <2>3. CASE MutexLock(t) \/ MutexUnlock(t)
      BY <2>3 DEF MutexLock, MutexUnlock, Live
    <2>4. CASE OnTimerTimerOut(t) \/ _onThread(t)
      BY <2>4 DEF OnTimerTimerOut, _onThread
    <2>5. CASE Finish(t)
      BY <2>5 DEF Finish
    <2> QED
      BY <1>6, <2>1, <2>2, <2>3, <2>4, <2>5 DEF TimerThread
  <1> QED
    BY <1>1, <1>2, <1>3, <1>4, <1>5, <1>6 DEF TimerNext, TimerOwner

\* The steps of StartTimer, SetSingleShot and StopTimer.
LEMMA TimerOwnerStep ==
  ASSUME TimerTypeOK, Unhurried, TimerOwner, ~hurried'
  PROVE  Unhurried'
  <1> USE TimerAssumption DEF Unhurried, TimerTypeOK, TimerOwnerInv, ThreadInv, TimerPlaces, Awake,
          timer, objects, posix
  <1>1. ASSUME NEW sec \in {0, 1}, StartTimer(sec)
        PROVE  Unhurried'
    BY <1>1 DEF StartTimer
  <1>2. ASSUME NEW b \in BOOLEAN, SetSingleShot(b)
        PROVE  Unhurried'
    BY <1>2 DEF SetSingleShot
  <1>3. CASE CreateThread
    BY <1>3 DEF CreateThread
  <1>4. CASE Assign
    BY <1>4 DEF Assign
  <1>5. CASE StopTimer
    BY <1>5 DEF StopTimer
  <1>6. CASE Kill
    BY <1>6 DEF Kill, Live
  <1>7. CASE Delete
    <2>1. ~DeletesAwake
      BY <1>7 DEF Delete
    <2>2. m_pthread # NULL => thread[m_pthread] \in {"sleep", "ended"}
      BY <2>1 DEF DeletesAwake, Asleep
    <2> QED
      BY <1>7, <2>2 DEF Delete, Live
  <1>8. CASE Clear
    BY <1>8 DEF Clear
  <1> QED
    BY <1>1, <1>2, <1>3, <1>4, <1>5, <1>6, <1>7, <1>8 DEF TimerOwner

\* The steps of a timer thread.
LEMMA ThreadStep ==
  ASSUME TimerTypeOK, Unhurried, NEW t \in Threads, TimerThread(t), ~hurried'
  PROVE  Unhurried'
  <1> USE TimerAssumption DEF Unhurried, TimerTypeOK, TimerOwnerInv, ThreadInv, TimerPlaces, Awake,
          timer, objects, posix
  <1>1. CASE __onThreadTimer(t)
    BY <1>1 DEF __onThreadTimer
  <1>2. CASE Cancel(t)
    BY <1>2 DEF Cancel
  <1>3. CASE Wake(t)
    <2>1. m_pthread = t
      BY <1>3 DEF Wake, WakesUnnamed
    <2> QED
      BY <1>3, <2>1 DEF Wake
  <1>4. CASE MutexLock(t)
    BY <1>4 DEF MutexLock, Live
  <1>5. CASE OnTimerTimerOut(t)
    BY <1>5 DEF OnTimerTimerOut
  <1>6. CASE MutexUnlock(t)
    BY <1>6 DEF MutexUnlock, Live
  <1>7. CASE Finish(t)
    <2>1. owner # "kill"
      BY <1>7 DEF Finish, EndsUnderStop
    <2> QED
      BY <1>7, <2>1 DEF Finish
  <1>8. CASE _onThread(t)
    BY <1>8 DEF _onThread, Live
  <1> QED
    BY <1>1, <1>2, <1>3, <1>4, <1>5, <1>6, <1>7, <1>8 DEF TimerThread

\* hurried is never taken back.
LEMMA HurriedStays == ASSUME hurried, [TimerNext]_tvars PROVE hurried'
  BY DEF TimerNext, TimerOwner, TimerThread, tvars, StartTimer, SetSingleShot, CreateThread, Assign,
     StopTimer, Kill, Delete, Clear, __onThreadTimer, Cancel, Wake, MutexLock, OnTimerTimerOut,
     MutexUnlock, Finish, _onThread

\* Whatever order of StartTimer, SetSingleShot, StopTimer, sleeps and callbacks: until a
\* stop deletes the object of a thread that is awake, a thread wakes before StartTimer has
\* stored it or a single shot ends between the test and the Kill of StopTimer, the thread
\* uses its own, live object alone, nothing is used after its deletion, and none is lost.
THEOREM ThreadsOwned == TimerSpec => []TimerOwned
  <1>1. TimerInit => TimerInv
    BY TimerInitInv
  <1>2. TimerInv /\ [TimerNext]_tvars => TimerInv'
    <2> SUFFICES ASSUME TimerInv, [TimerNext]_tvars PROVE TimerInv'
      OBVIOUS
    <2>1. CASE UNCHANGED tvars
      BY <2>1 DEF tvars, timer, objects, posix, TimerInv, Unhurried, TimerTypeOK, TimerOwnerInv,
                  ThreadInv
    <2>2. CASE TimerNext
      <3>1. TimerTypeOK'
        BY <2>2, TimerTypeStep DEF TimerInv
      <3>2. ASSUME ~hurried'
            PROVE  Unhurried'
        <4>1. Unhurried
          BY <3>2, HurriedStays DEF TimerInv
        <4> QED
          BY <2>2, <3>2, <4>1, TimerOwnerStep, ThreadStep DEF TimerNext, TimerInv
      <3> QED
        BY <3>1, <3>2 DEF TimerInv
    <2> QED
      BY <2>1, <2>2
  <1>3. TimerInv => TimerOwned
    <2> SUFFICES ASSUME TimerTypeOK, Unhurried PROVE UsesOwnObject /\ NoThreadLost
      BY DEF TimerOwned, TimerInv
    <2> USE TimerAssumption DEF Unhurried, TimerTypeOK, TimerOwnerInv, ThreadInv, Awake, Live
    <2>1. UsesOwnObject
      BY DEF UsesOwnObject
    <2>2. NoThreadLost
      BY DEF NoThreadLost
    <2> QED
      BY <2>1, <2>2
  <1> QED
    BY <1>1, <1>2, <1>3, PTL DEF TimerSpec

-----------------------------------------------------------------------------
(***************************************************************************)
(* Udp: the inductive invariant.                                           *)
(***************************************************************************)
Calls == (Callers \X Nat) \cup {NoAnswer}
Datagrams == [call : Calls, port : Nat]
Outcomes == [answer : Calls, fresh : BOOLEAN]

Clients == [at : {"idle", "socket", "options", "send", "receive"},
            lookup : BOOLEAN, call : Nat, socket : Nat, timed : BOOLEAN, fresh : BOOLEAN]

UdpTypeOK ==
  /\ listener \in {"none", "bound", "on", "closed"} /\ armed \in BOOLEAN
  /\ serving \in [UdpWorkers -> {"off", "wait", "receive", "callback", "rearm"}]
  /\ holds \in [UdpWorkers -> Datagrams]
  /\ arrived \in Seq(Datagrams) /\ passed \in Seq(Datagrams) /\ read \in Nat
  /\ client \in [Callers -> Clients]
  /\ results \in [Callers -> Seq(Outcomes)]
  /\ asks \subseteq Datagrams /\ replies \subseteq Datagrams

\* The registration is for one event: while a worker is busy it is not armed and no
\* other worker is busy, and there is something to read when it reports.
OneBusy ==
  /\ armed => listener = "on"
  /\ \A w \in UdpWorkers : Busy(w) => listener = "on" /\ ~armed
  /\ \A v, w \in UdpWorkers : Busy(v) /\ Busy(w) => v = w
  /\ \A w \in UdpWorkers : serving[w] = "receive" => read < Len(arrived)

\* All that was read has been passed on, but for the datagram in a worker's hands.
InOrder ==
  /\ read <= Len(arrived)
  /\ \/ /\ \A w \in UdpWorkers : serving[w] # "callback"
        /\ passed = SubSeq(arrived, 1, read)
     \/ /\ \E w \in UdpWorkers : serving[w] = "callback" /\ holds[w] = arrived[read]
        /\ read > 0 /\ passed = SubSeq(arrived, 1, read - 1)

\* No two clients have the same port, and a client has one while it needs it.
Waits(c) == client[c].at \in {"options", "send", "receive"}
PortsApart ==
  /\ \A c \in Callers : Waits(c) => client[c].socket # 0
  /\ \A b, c \in Callers : client[b].socket = client[c].socket /\ client[b].socket # 0 => b = c

\* What may still come to a port that was fresh was asked by the call that has it.
FreshOwn ==
  \A c \in Callers : Waits(c) /\ client[c].fresh =>
    \A d \in OnWay : d.port = client[c].socket => d.call = <<c, client[c].call>>

\* A client has one result for each call that has returned.
CallsCounted ==
  \A c \in Callers :
    /\ client[c].at = "idle" => Len(results[c]) = client[c].call
    /\ client[c].at # "idle" => Len(results[c]) + 1 = client[c].call

ServerInv == UdpTypeOK /\ OneBusy /\ InOrder
ClientInv == PortsApart /\ FreshOwn /\ CallsCounted /\ AnswersMatch
UdpInv == ServerInv /\ ClientInv

-----------------------------------------------------------------------------
(***************************************************************************)
(* Sequences.                                                              *)
(***************************************************************************)
\* The beginning of a sequence is that of a longer one, and of itself cut off behind it.
LEMMA Beginning ==
  ASSUME NEW S, NEW q \in Seq(S), NEW n \in Nat, n <= Len(q), NEW e
  PROVE  /\ SubSeq(q, 1, n) \in Seq(S) /\ Len(SubSeq(q, 1, n)) = n
         /\ \A k \in Nat : k <= n => SubSeq(SubSeq(q, 1, n), 1, k) = SubSeq(q, 1, k)
         /\ SubSeq(Append(q, e), 1, n) = SubSeq(q, 1, n)
         /\ n > 0 => Append(SubSeq(q, 1, n - 1), q[n]) = SubSeq(q, 1, n)
  <1>1. SubSeq(q, 1, n) \in Seq(S) /\ Len(SubSeq(q, 1, n)) = n
    OBVIOUS
  <1>2. ASSUME NEW k \in Nat, k <= n
        PROVE  SubSeq(SubSeq(q, 1, n), 1, k) = SubSeq(q, 1, k)
    BY <1>2
  <1>3. SubSeq(Append(q, e), 1, n) = SubSeq(q, 1, n)
    OBVIOUS
  <1>4. n > 0 => Append(SubSeq(q, 1, n - 1), q[n]) = SubSeq(q, 1, n)
    OBVIOUS
  <1> QED
    BY <1>1, <1>2, <1>3, <1>4

-----------------------------------------------------------------------------
(***************************************************************************)
(* The server.                                                             *)
(***************************************************************************)
LEMMA UdpInitInv == UdpInit => UdpInv
  <1> SUFFICES ASSUME UdpInit PROVE UdpInv
    OBVIOUS
  <1>1. NoDatagram \in Datagrams
    BY DEF NoDatagram, Datagrams, Calls, NoAnswer
  <1>2. << >> \in Seq(Datagrams) /\ << >> \in Seq(Outcomes) /\ Len(<< >>) = 0
        /\ SubSeq(<< >>, 1, 0) = << >>
    OBVIOUS
  <1>3. UdpTypeOK
    BY <1>1, <1>2 DEF UdpInit, UdpTypeOK, Clients
  <1>4. OneBusy /\ InOrder
    BY <1>2 DEF UdpInit, OneBusy, Busy, InOrder
  <1>5. PortsApart /\ FreshOwn /\ CallsCounted /\ AnswersMatch
    BY <1>2 DEF UdpInit, PortsApart, FreshOwn, Waits, CallsCounted, AnswersMatch
  <1> QED
    BY <1>3, <1>4, <1>5 DEF UdpInv, ServerInv, ClientInv

\* The steps that leave the clients alone, and put nothing on the way that was not there
\* but a worker's empty hands, keep what is said of the calls.
LEMMA ClientsKept ==
  ASSUME ClientInv, UNCHANGED clients, \A d \in OnWay' : d \in OnWay \/ d.port = 0
  PROVE  ClientInv'
  <1>1. PortsApart' /\ CallsCounted' /\ AnswersMatch'
    BY DEF ClientInv, PortsApart, Waits, CallsCounted, AnswersMatch, clients
  <1>2. FreshOwn'
    <2>1. \A c \in Callers : Waits(c) => client[c].socket # 0
      BY DEF ClientInv, PortsApart
    <2>2. client' = client
      BY DEF clients
    <2> QED
      BY <2>1, <2>2 DEF ClientInv, FreshOwn, Waits
  <1> QED
    BY <1>1, <1>2 DEF ClientInv

\* Those that leave the server alone keep what is said of it.
LEMMA ServerKept ==
  ASSUME OneBusy, InOrder, UNCHANGED serverSide
  PROVE  OneBusy' /\ InOrder'
  BY DEF OneBusy, InOrder, Busy, serverSide, server, workers, inbox

\* The application's steps and those of the workers.
LEMMA ServerStep ==
  ASSUME UdpInv, UdpServer \/ \E w \in UdpWorkers : UdpWorker(w)
  PROVE  UdpInv'
  <1> USE DEF UdpInv, ServerInv, serverSide, server, workers, inbox, network
  <1>1. CASE BindListener
    <2>1. UdpTypeOK'
      BY <1>1 DEF BindListener, UdpTypeOK, clients
    <2>2. OneBusy' /\ InOrder'
      BY <1>1 DEF BindListener, OneBusy, Busy, InOrder
    <2>3. OnWay' = OnWay
      BY <1>1 DEF BindListener, OnWay
    <2> QED
      BY <1>1, <2>1, <2>2, <2>3, ClientsKept DEF BindListener
  <1>2. CASE AddListener
    <2>1. arrived' = arrived \/ arrived' = SubSeq(arrived, 1, read)
      BY <1>2 DEF AddListener, Discard
    <2>2. read \in Nat /\ read <= Len(arrived) /\ arrived \in Seq(Datagrams)
      BY DEF UdpTypeOK, InOrder
    <2>3. /\ arrived' \in Seq(Datagrams) /\ read <= Len(arrived')
          /\ \A k \in Nat : k <= read => SubSeq(arrived', 1, k) = SubSeq(arrived, 1, k)
          /\ \A i \in DOMAIN arrived' : i \in DOMAIN arrived /\ arrived'[i] = arrived[i]
      BY <2>1, <2>2, Beginning
    <2>4. UdpTypeOK'
      BY <1>2, <2>3 DEF AddListener, UdpTypeOK, clients
    <2>5. \A w \in UdpWorkers : serving[w] \notin {"receive", "callback", "rearm"}
      BY <1>2 DEF AddListener, OneBusy, Busy
    <2>6. OneBusy'
      BY <1>2, <2>5 DEF AddListener, OneBusy, Busy
    <2>7. InOrder'
      BY <1>2, <2>2, <2>3, <2>5 DEF AddListener, InOrder
    <2>8. \A d \in OnWay' : d \in OnWay
      BY <1>2, <2>2, <2>3 DEF AddListener, OnWay
    <2> QED
      BY <1>2, <2>4, <2>6, <2>7, <2>8, ClientsKept DEF AddListener
  <1>3. CASE StopListen_
    <2>1. arrived' = SubSeq(arrived, 1, read)
      BY <1>3 DEF StopListen_, Discard
    <2>2. read \in Nat /\ read <= Len(arrived) /\ arrived \in Seq(Datagrams)
      BY DEF UdpTypeOK, InOrder
    <2>3. /\ arrived' \in Seq(Datagrams) /\ read <= Len(arrived')
          /\ \A k \in Nat : k <= read => SubSeq(arrived', 1, k) = SubSeq(arrived, 1, k)
          /\ \A i \in DOMAIN arrived' : i \in DOMAIN arrived /\ arrived'[i] = arrived[i]
      BY <2>1, <2>2, Beginning
    <2>4. UdpTypeOK'
      BY <1>3, <2>3 DEF StopListen_, UdpTypeOK, clients
    <2>5. \A w \in UdpWorkers : serving[w] \notin {"receive", "callback", "rearm"}
      BY <1>3 DEF StopListen_, Busy
    <2>6. OneBusy'
      BY <1>3, <2>5 DEF StopListen_, OneBusy, Busy
    <2>7. InOrder'
      BY <1>3, <2>2, <2>3, <2>5 DEF StopListen_, InOrder
    <2>8. \A d \in OnWay' : d \in OnWay
      BY <1>3, <2>2, <2>3 DEF StopListen_, OnWay
    <2> QED
      BY <1>3, <2>4, <2>6, <2>7, <2>8, ClientsKept DEF StopListen_
  <1>4. ASSUME NEW w \in UdpWorkers, Start(w)
        PROVE  UdpInv'
    <2>1. UdpTypeOK'
      BY <1>4 DEF Start, UdpTypeOK, clients
    <2>2. OneBusy' /\ InOrder'
      BY <1>4 DEF Start, UdpTypeOK, OneBusy, Busy, InOrder
    <2>3. OnWay' = OnWay
      BY <1>4 DEF Start, OnWay
    <2> QED
      BY <1>4, <2>1, <2>2, <2>3, ClientsKept DEF Start
  <1>5. ASSUME NEW w \in UdpWorkers, UdpEvent(w)
        PROVE  UdpInv'
    <2>1. UdpTypeOK'
      BY <1>5 DEF UdpEvent, UdpTypeOK, clients
    <2>2. OneBusy' /\ InOrder'
      BY <1>5 DEF UdpEvent, UdpTypeOK, OneBusy, Busy, InOrder
    <2>3. OnWay' = OnWay
      BY <1>5 DEF UdpEvent, OnWay
    <2> QED
      BY <1>5, <2>1, <2>2, <2>3, ClientsKept DEF UdpEvent
  <1>6. ASSUME NEW w \in UdpWorkers, OnReceiveData(w)
        PROVE  UdpInv'
    <2>1. /\ arrived \in Seq(Datagrams) /\ read \in Nat /\ read < Len(arrived)
          /\ read + 1 \in DOMAIN arrived /\ arrived[read + 1] \in Datagrams
          /\ (read + 1) - 1 = read /\ read + 1 <= Len(arrived) /\ read + 1 > 0
      BY <1>6 DEF UdpTypeOK, OnReceiveData
    <2>2. UdpTypeOK'
      BY <1>6, <2>1 DEF OnReceiveData, UdpTypeOK, clients
    <2>3. \A v \in UdpWorkers : v # w => ~Busy(v)
      BY <1>6 DEF OnReceiveData, OneBusy, Busy
    <2>4. OneBusy'
      BY <1>6, <2>3 DEF OnReceiveData, OneBusy, Busy, UdpTypeOK
    <2>5. passed = SubSeq(arrived, 1, read)
      BY <1>6, <2>3 DEF OnReceiveData, InOrder, Busy
    <2>6. InOrder'
      BY <1>6, <2>1, <2>5 DEF OnReceiveData, InOrder, UdpTypeOK
    <2>7. \A d \in OnWay' : d \in OnWay
      <3>1. \A v \in UdpWorkers : holds'[v] = holds[v] \/ holds'[v] = arrived[read + 1]
        BY <1>6 DEF OnReceiveData, UdpTypeOK
      <3>2. \A i \in (read + 1) + 1 .. Len(arrived) : i \in read + 1 .. Len(arrived)
        BY <2>1
      <3>3. read + 1 \in read + 1 .. Len(arrived)
        BY <2>1
      <3> QED
        BY <1>6, <3>1, <3>2, <3>3 DEF OnReceiveData, OnWay
    <2> QED
      BY <1>6, <2>2, <2>4, <2>6, <2>7, ClientsKept DEF OnReceiveData
  <1>7. ASSUME NEW w \in UdpWorkers, UDPCallback(w)
        PROVE  UdpInv'
    <2>1. holds[w] \in Datagrams /\ holds[w] \in OnWay
      BY DEF UdpTypeOK, OnWay
    <2>2. \A v \in UdpWorkers : v # w => ~Busy(v)
      BY <1>7 DEF UDPCallback, OneBusy, Busy
    <2>3. read > 0 /\ holds[w] = arrived[read] /\ passed = SubSeq(arrived, 1, read - 1)
      BY <1>7, <2>2 DEF UDPCallback, InOrder, Busy
    <2>4. passed' = SubSeq(arrived, 1, read) /\ read \in Nat /\ read <= Len(arrived)
      BY <1>7, <2>3, Beginning DEF UDPCallback, UdpTypeOK, InOrder
    <2>5. UdpTypeOK'
      BY <1>7, <2>1 DEF UDPCallback, UdpTypeOK, clients
    <2>6. OneBusy'
      BY <1>7, <2>2 DEF UDPCallback, OneBusy, Busy, UdpTypeOK
    <2>7. InOrder'
      BY <1>7, <2>2, <2>4 DEF UDPCallback, InOrder, Busy, UdpTypeOK
    <2>8. \A d \in OnWay' : d \in OnWay
      BY <1>7, <2>1 DEF UDPCallback, OnWay
    <2> QED
      BY <1>7, <2>5, <2>6, <2>7, <2>8, ClientsKept DEF UDPCallback
  <1>8. ASSUME NEW w \in UdpWorkers, UdpRearm(w)
        PROVE  UdpInv'
    <2>1. NoDatagram \in Datagrams /\ NoDatagram.port = 0
      BY DEF NoDatagram, Datagrams, Calls, NoAnswer
    <2>2. UdpTypeOK'
      BY <1>8, <2>1 DEF UdpRearm, UdpTypeOK, clients
    <2>3. listener = "on" /\ \A v \in UdpWorkers : v # w => ~Busy(v)
      BY <1>8 DEF UdpRearm, OneBusy, Busy
    <2>4. OneBusy'
      BY <1>8, <2>3 DEF UdpRearm, OneBusy, Busy, UdpTypeOK
    <2>5. InOrder'
      BY <1>8, <2>3 DEF UdpRearm, InOrder, Busy, UdpTypeOK
    <2>6. \A d \in OnWay' : d \in OnWay \/ d.port = 0
      <3>1. \A v \in UdpWorkers : holds'[v] = holds[v] \/ holds'[v] = NoDatagram
        BY <1>8 DEF UdpRearm, UdpTypeOK
      <3> QED
        BY <1>8, <2>1, <3>1 DEF UdpRearm, OnWay
    <2> QED
      BY <1>8, <2>2, <2>4, <2>5, <2>6, ClientsKept DEF UdpRearm
  <1> QED
    BY <1>1, <1>2, <1>3, <1>4, <1>5, <1>6, <1>7, <1>8 DEF UdpServer, UdpWorker

-----------------------------------------------------------------------------
(***************************************************************************)
(* The clients and the network.                                            *)
(***************************************************************************)
\* A step that moves one client on, within its call or into the next one, to a port of its
\* own, and gives the network only datagrams from there.
LEMMA MoveStep ==
  ASSUME UdpInv, NEW c \in Callers, NEW r \in Clients, r.at # "idle",
         Len(results[c]) + 1 = r.call,
         r.at \in {"options", "send", "receive"} => r.socket # 0,
         \A b \in Callers \ {c} : client[b].socket = r.socket => r.socket = 0,
         \A d \in OnWay' : d \in OnWay \/ d.port = r.socket,
         r.at \in {"options", "send", "receive"} /\ r.fresh =>
           \A d \in OnWay' : d.port = r.socket => d.call = <<c, r.call>>,
         client' = [client EXCEPT ![c] = r], UNCHANGED <<results, replies>>,
         UNCHANGED serverSide, asks' \subseteq Datagrams
  PROVE  UdpInv'
  <1> USE DEF UdpInv, ServerInv, serverSide, server, workers, inbox
  <1>1. UdpTypeOK'
    BY DEF UdpTypeOK
  <1>2. OneBusy' /\ InOrder'
    BY ServerKept
  <1>3. client'[c] = r /\ \A b \in Callers \ {c} : client'[b] = client[b]
    BY DEF UdpTypeOK
  <1>4. CallsCounted' /\ AnswersMatch'
    BY <1>3 DEF ClientInv, CallsCounted, AnswersMatch
  <1>5. PortsApart'
    BY <1>3 DEF ClientInv, PortsApart, Waits
  <1>6. FreshOwn'
    <2>1. ASSUME NEW b \in Callers \ {c}, Waits(b), client[b].fresh,
                 NEW d \in OnWay', d.port = client[b].socket
          PROVE  d.call = <<b, client[b].call>>
      <3>1. client[b].socket # 0
        BY <2>1 DEF ClientInv, PortsApart
      <3>2. d \in OnWay
        BY <2>1, <3>1
      <3> QED
        BY <2>1, <3>2 DEF ClientInv, FreshOwn
    <2> QED
      BY <1>3, <2>1 DEF FreshOwn, Waits
  <1> QED
    BY <1>1, <1>2, <1>4, <1>5, <1>6 DEF ClientInv

\* A call that returns nothing, or what has come to its port.
LEMMA ReturnStep ==
  ASSUME UdpInv, NEW c \in Callers, client[c].at # "idle", NEW answer \in Calls,
         client[c].fresh => answer \in {NoAnswer, <<c, client[c].call>>},
         Returns(c, answer), UNCHANGED asks, replies' \subseteq replies
  PROVE  UdpInv'
  <1> USE DEF UdpInv, ServerInv, serverSide, server, workers, inbox
  <1> DEFINE r == [client[c] EXCEPT !.at = "idle", !.lookup = FALSE, !.socket = 0,
                                   !.timed = FALSE, !.fresh = FALSE]
             o == [answer |-> answer, fresh |-> client[c].fresh]
  <1>1. /\ client[c].call \in Nat /\ results[c] \in Seq(Outcomes) /\ o \in Outcomes
        /\ Len(results[c]) + 1 = client[c].call /\ client[c] \in Clients
    BY DEF ClientInv, UdpTypeOK, CallsCounted, Clients, Outcomes
  <1>2. /\ Append(results[c], o) \in Seq(Outcomes)
        /\ Len(Append(results[c], o)) = client[c].call
        /\ \A n \in 1 .. Len(results[c]) : Append(results[c], o)[n] = results[c][n]
        /\ Append(results[c], o)[client[c].call] = o
    <2> HIDE DEF o
    <2> QED
      BY <1>1
  <1>3. /\ r \in Clients /\ r.at = "idle" /\ r.call = client[c].call /\ r.socket = 0
        /\ client' = [client EXCEPT ![c] = r]
        /\ results' = [results EXCEPT ![c] = Append(results[c], o)]
    BY <1>1 DEF Returns, Clients, UdpTypeOK
  <1>9. o.fresh => o.answer \in {NoAnswer, <<c, client[c].call>>}
    OBVIOUS
  <1> HIDE DEF r, o
  <1>10. client'[c] = r /\ \A b \in Callers \ {c} : client'[b] = client[b]
    BY <1>3 DEF UdpTypeOK
  <1>4. UdpTypeOK'
    <2>1. client' \in [Callers -> Clients] /\ results' \in [Callers -> Seq(Outcomes)]
      <3>1. client \in [Callers -> Clients] /\ results \in [Callers -> Seq(Outcomes)]
        BY DEF UdpTypeOK
      <3> QED BY <1>2, <1>3, <3>1
    <2> QED BY <2>1 DEF Returns, UdpTypeOK
  <1>5. OneBusy' /\ InOrder'
    BY ServerKept DEF Returns
  <1>6. PortsApart' /\ FreshOwn'
    <2>1. \A d \in OnWay' : d \in OnWay
      BY DEF OnWay, Returns
    <2>2. PortsApart'
      BY <1>3, <1>10 DEF ClientInv, PortsApart, Waits
    <2>3. FreshOwn'
      BY <1>3, <1>10, <2>1 DEF ClientInv, FreshOwn, Waits
    <2> QED
      BY <2>2, <2>3
  <1>7. CallsCounted'
    BY <1>2, <1>3 DEF ClientInv, CallsCounted, UdpTypeOK
  <1>8. AnswersMatch'
    <2> SUFFICES ASSUME NEW b \in Callers, NEW n \in DOMAIN results'[b], results'[b][n].fresh
                 PROVE  results'[b][n].answer \in {NoAnswer, <<b, n>>}
      BY DEF AnswersMatch
    <2>1. CASE b # c
      BY <1>3, <2>1 DEF ClientInv, AnswersMatch, UdpTypeOK
    <2>2. CASE b = c
      <3>1. results'[c] = Append(results[c], o)
        BY <1>3 DEF UdpTypeOK
      <3>2. n \in 1 .. client[c].call
        BY <1>2, <2>2, <3>1
      <3>3. CASE n = client[c].call
        BY <1>2, <1>9, <2>2, <3>1, <3>3
      <3>4. CASE n # client[c].call
        <4>1. n \in 1 .. Len(results[c]) /\ n \in DOMAIN results[c]
          BY <1>1, <3>2, <3>4
        <4> QED
          BY <1>2, <2>2, <3>1, <4>1 DEF ClientInv, AnswersMatch
      <3> QED
        BY <3>3, <3>4
    <2> QED
      BY <2>1, <2>2
  <1> QED
    BY <1>4, <1>5, <1>6, <1>7, <1>8 DEF ClientInv

\* The steps of a client.
LEMMA CallStep ==
  ASSUME UdpInv, NEW c \in Callers, Ask(c) \/ SendReceive(c)
  PROVE  UdpInv'
  <1>1. /\ client[c] \in Clients /\ client[c].call \in Nat /\ client \in [Callers -> Clients]
        /\ client[c].at = "idle" => Len(results[c]) = client[c].call
        /\ client[c].at # "idle" => Len(results[c]) + 1 = client[c].call
        /\ client[c].at \in {"options", "send", "receive"} => client[c].socket # 0
        /\ \A b \in Callers \ {c} : client[b].socket = client[c].socket => client[c].socket = 0
    BY DEF UdpInv, ServerInv, ClientInv, UdpTypeOK, Clients, CallsCounted, PortsApart, Waits
  <1>2. asks \subseteq Datagrams /\ NoAnswer \in Calls
    BY DEF UdpInv, ServerInv, UdpTypeOK, Calls
  <1>10. client[c].at \in {"options", "send", "receive"} /\ client[c].fresh =>
           \A d \in OnWay : d.port = client[c].socket => d.call = <<c, client[c].call>>
    BY DEF UdpInv, ClientInv, FreshOwn, Waits
  <1>11. UNCHANGED <<asks, replies>> /\ UNCHANGED serverSide => OnWay' = OnWay
    BY DEF OnWay, serverSide, workers, inbox
  <1>12. ASSUME Returns(c, NoAnswer), client[c].at # "idle", UNCHANGED <<asks, replies>>
         PROVE  UdpInv'
    BY <1>2, <1>12, ReturnStep
  <1>3. CASE Ask(c)
    <2>1. PICK b, z \in BOOLEAN :
            client' = [client EXCEPT ![c].at = "socket", ![c].call = @ + 1, ![c].lookup = b,
                                     ![c].timed = b \/ z, ![c].fresh = FALSE]
      BY <1>3 DEF Ask
    <2>2. PICK n \in Nat : n = client[c].call + 1
      BY <1>1
    <2>0. PICK y \in BOOLEAN : y = (b \/ z)
      OBVIOUS
    <2> DEFINE q == [client[c] EXCEPT !.at = "socket", !.call = n, !.lookup = b, !.timed = y,
                                      !.fresh = FALSE]
    <2>3. client' = [client EXCEPT ![c] = q]
      BY <1>1, <2>0, <2>1, <2>2
    <2>4. /\ q \in Clients /\ q.at = "socket" /\ q.call = Len(results[c]) + 1
          /\ q.socket = client[c].socket
      BY <1>1, <1>3, <2>2 DEF Clients, Ask
    <2>5. UNCHANGED <<results, replies, asks>> /\ UNCHANGED serverSide
      BY <1>3 DEF Ask, network
    <2> HIDE DEF q
    <2> QED
      BY <1>1, <1>2, <1>11, <2>3, <2>4, <2>5, MoveStep
  <1>4. CASE Socket(c)
    <2>1. CASE Returns(c, NoAnswer)
      <3>1. client[c].at # "idle" /\ UNCHANGED <<asks, replies>>
        BY <1>4, <2>1 DEF Socket, network
      <3> QED
        BY <1>12, <2>1, <3>1
    <2>2. CASE ~Returns(c, NoAnswer)
      <3>1. PICK p \in Ports :
              /\ \A d \in Callers : client[d].socket # p
              /\ client' = [client EXCEPT ![c].at = "options", ![c].socket = p,
                                          ![c].fresh = \A d \in OnWay : d.port # p]
              /\ UNCHANGED <<results, network>> /\ UNCHANGED serverSide
        BY <1>4, <2>2 DEF Socket
      <3>2. PICK y \in BOOLEAN : y = \A d \in OnWay : d.port # p
        OBVIOUS
      <3>3. p \in Nat /\ p # 0
        BY UdpAssumption
      <3> DEFINE q == [client[c] EXCEPT !.at = "options", !.socket = p, !.fresh = y]
      <3>4. /\ client' = [client EXCEPT ![c] = q]
            /\ UNCHANGED <<results, replies, asks>> /\ UNCHANGED serverSide
        BY <1>1, <3>1, <3>2 DEF network
      <3>5. /\ q \in Clients /\ q.at = "options" /\ q.call = Len(results[c]) + 1
            /\ q.socket = p /\ q.fresh = y
        BY <1>1, <1>4, <3>3 DEF Clients, Socket
      <3>6. OnWay' = OnWay
        BY <1>11, <3>4
      <3>7. q.fresh => \A d \in OnWay' : d.port = q.socket => d.call = <<c, q.call>>
        BY <3>2, <3>5, <3>6
      <3> HIDE DEF q
      <3> QED
        BY <1>2, <3>1, <3>3, <3>4, <3>5, <3>6, <3>7, MoveStep
    <2> QED
      BY <2>1, <2>2
  <1>5. CASE Options(c)
    <2>1. CASE Returns(c, NoAnswer)
      <3>1. client[c].at # "idle" /\ UNCHANGED <<asks, replies>>
        BY <1>5, <2>1 DEF Options, network
      <3> QED
        BY <1>12, <2>1, <3>1
    <2>2. CASE ~Returns(c, NoAnswer)
      <3> DEFINE q == [client[c] EXCEPT !.at = "send"]
      <3>1. /\ client' = [client EXCEPT ![c] = q]
            /\ UNCHANGED <<results, replies, asks>> /\ UNCHANGED serverSide
        BY <1>1, <1>5, <2>2 DEF Options, Goes, network
      <3>2. /\ q \in Clients /\ q.at = "send" /\ q.call = client[c].call
            /\ q.socket = client[c].socket /\ q.fresh = client[c].fresh
            /\ client[c].at \in {"options", "send", "receive"} /\ client[c].at # "idle"
        BY <1>1, <1>5 DEF Clients, Options
      <3> HIDE DEF q
      <3> QED
        BY <1>1, <1>2, <1>10, <1>11, <3>1, <3>2, MoveStep
    <2> QED
      BY <2>1, <2>2
  <1>6. CASE LookupOptions(c)
    <2> DEFINE q == [client[c] EXCEPT !.at = "send", !.timed = FALSE]
    <2>1. /\ client' = [client EXCEPT ![c] = q]
          /\ UNCHANGED <<results, replies, asks>> /\ UNCHANGED serverSide
      BY <1>1, <1>6 DEF LookupOptions
    <2>2. /\ q \in Clients /\ q.at = "send" /\ q.call = client[c].call
          /\ q.socket = client[c].socket /\ q.fresh = client[c].fresh
          /\ client[c].at \in {"options", "send", "receive"} /\ client[c].at # "idle"
      BY <1>1, <1>6 DEF Clients, LookupOptions
    <2> HIDE DEF q
    <2> QED
      BY <1>1, <1>2, <1>10, <1>11, <2>1, <2>2, MoveStep
  <1>7. CASE SendTo(c)
    <2>1. CASE Returns(c, NoAnswer)
      <3>1. \/ client[c].at # "idle" /\ UNCHANGED <<asks, replies>>
            \/ Goes(c, "receive")
        BY <1>7 DEF SendTo
      <3>2. ~Goes(c, "receive")
        <4>1. client'[c].at = "idle"
          BY <1>1, <2>1 DEF Returns, Clients
        <4>2. Goes(c, "receive") => client'[c].at = "receive"
          BY <1>1 DEF Goes, Clients
        <4> QED
          BY <4>1, <4>2
      <3> QED
        BY <1>12, <2>1, <3>1, <3>2
    <2>2. CASE ~Returns(c, NoAnswer)
      <3> DEFINE q == [client[c] EXCEPT !.at = "receive"]
                 d == [call |-> <<c, client[c].call>>, port |-> client[c].socket]
      <3>1. /\ client' = [client EXCEPT ![c] = q] /\ asks' = asks \cup {d}
            /\ UNCHANGED <<results, replies>> /\ UNCHANGED serverSide
        BY <1>1, <1>7, <2>2 DEF SendTo, Goes
      <3>2. /\ q \in Clients /\ q.at = "receive" /\ q.call = client[c].call
            /\ q.socket = client[c].socket /\ q.fresh = client[c].fresh
            /\ client[c].at \in {"options", "send", "receive"} /\ client[c].at # "idle"
        BY <1>1, <1>7 DEF Clients, SendTo
      <3>3. d \in Datagrams /\ d.port = client[c].socket /\ d.call = <<c, client[c].call>>
        BY <1>1, <1>7 DEF SendTo, Datagrams, Clients, Calls
      <3> HIDE DEF q, d
      <3>4. asks' \subseteq Datagrams
        BY <1>2, <3>1, <3>3
      <3>5. \A e \in OnWay' : e \in OnWay \/ e = d
        BY <3>1 DEF OnWay, serverSide, workers, inbox
      <3>6. \A e \in OnWay' : e \in OnWay \/ e.port = q.socket
        BY <3>2, <3>3, <3>5
      <3>7. q.fresh => \A e \in OnWay' : e.port = q.socket => e.call = <<c, q.call>>
        BY <1>10, <3>2, <3>3, <3>5
      <3>8. q.call = Len(results[c]) + 1 /\ q.socket # 0 /\ q.at # "idle"
        BY <1>1, <3>2
      <3>9. \A b \in Callers \ {c} : client[b].socket = q.socket => q.socket = 0
        BY <1>1, <3>2
      <3> QED
        BY <3>1, <3>2, <3>4, <3>6, <3>7, <3>8, <3>9, MoveStep
    <2> QED
      BY <2>1, <2>2
  <1>8. CASE ReceiveFrom(c)
    <2>1. PICK d \in replies : /\ d.port = client[c].socket
                               /\ replies' = replies \ {d} /\ UNCHANGED asks
                               /\ Returns(c, d.call)
      BY <1>8 DEF ReceiveFrom
    <2>2. client[c].at = "receive" /\ d \in OnWay
      BY <1>8 DEF ReceiveFrom, OnWay
    <2>3. client[c].fresh => d.call = <<c, client[c].call>>
      BY <1>10, <2>1, <2>2
    <2>4. d.call \in Calls
      BY DEF UdpInv, ServerInv, UdpTypeOK, Datagrams
    <2> QED
      BY <2>1, <2>2, <2>3, <2>4, ReturnStep
  <1>9. CASE TimeOut(c)
    BY <1>9, <1>12 DEF TimeOut, network
  <1> QED
    BY <1>3, <1>4, <1>5, <1>6, <1>7, <1>8, <1>9 DEF SendReceive

\* The steps of the network.
LEMMA NetworkStep ==
  ASSUME UdpInv, (\E d \in asks : Deliver_(d)) \/ (\E d \in asks \cup replies : Lose(d))
  PROVE  UdpInv'
  <1> USE DEF UdpInv, ServerInv, server, workers, inbox
  <1>1. ASSUME NEW d \in asks, Deliver_(d)
        PROVE  UdpInv'
    <2>1. /\ d \in Datagrams /\ d \in OnWay /\ read \in Nat /\ read <= Len(arrived)
          /\ arrived \in Seq(Datagrams) /\ asks' \subseteq asks
          /\ arrived' = arrived \/ arrived' = Append(arrived, d)
      BY <1>1 DEF UdpTypeOK, OnWay, InOrder, Deliver_
    <2>2. /\ arrived' \in Seq(Datagrams) /\ Len(arrived') >= Len(arrived)
          /\ \A k \in Nat : k <= read => SubSeq(arrived', 1, k) = SubSeq(arrived, 1, k)
          /\ \A i \in DOMAIN arrived' : arrived'[i] = d \/ (i \in DOMAIN arrived /\ arrived'[i] = arrived[i])
          /\ DOMAIN arrived = 1 .. Len(arrived) /\ DOMAIN arrived' = 1 .. Len(arrived')
          /\ \A i \in DOMAIN arrived : arrived'[i] = arrived[i]
      <3>1. CASE arrived' = arrived
        BY <2>1, <3>1
      <3>2. CASE arrived' = Append(arrived, d)
        <4>1. /\ arrived' \in Seq(Datagrams) /\ Len(arrived') = Len(arrived) + 1
              /\ \A i \in 1 .. Len(arrived) : arrived'[i] = arrived[i]
              /\ arrived'[Len(arrived) + 1] = d
          BY <2>1, <3>2
        <4>2. DOMAIN arrived = 1 .. Len(arrived) /\ DOMAIN arrived' = 1 .. Len(arrived) + 1
          BY <2>1, <4>1
        <4>3. \A i \in DOMAIN arrived' : arrived'[i] = d \/ (i \in DOMAIN arrived /\ arrived'[i] = arrived[i])
          <5>1. \A i \in DOMAIN arrived' : i \in DOMAIN arrived \/ i = Len(arrived) + 1
            BY <2>1, <4>2
          <5> QED BY <2>1, <4>1, <4>2, <5>1
        <4>4. \A k \in Nat : k <= read => SubSeq(arrived', 1, k) = SubSeq(arrived, 1, k)
          BY <2>1, <3>2, SMTT(60)
        <4> QED BY <2>1, <4>1, <4>2, <4>3, <4>4
      <3> QED BY <2>1, <3>1, <3>2
    <2>3. UdpTypeOK'
      BY <1>1, <2>1, <2>2 DEF Deliver_, UdpTypeOK, clients
    <2>4. OneBusy'
      BY <1>1, <2>1, <2>2 DEF Deliver_, OneBusy, Busy
    <2>5. InOrder'
      BY <1>1, <2>1, <2>2 DEF Deliver_, InOrder
    <2>6. \A e \in OnWay' : e \in OnWay
      <3>1. \A i \in read + 1 .. Len(arrived') :
               arrived'[i] = d \/ (i \in read + 1 .. Len(arrived) /\ arrived'[i] = arrived[i])
        <4>1. /\ DOMAIN arrived = 1 .. Len(arrived) /\ DOMAIN arrived' = 1 .. Len(arrived')
              /\ \A i \in DOMAIN arrived' :
                   arrived'[i] = d \/ (i \in DOMAIN arrived /\ arrived'[i] = arrived[i])
              /\ read \in Nat
          BY <2>1, <2>2
        <4>2. \A i \in read + 1 .. Len(arrived') : i \in 1 .. Len(arrived')
          BY <4>1
        <4>3. \A i \in read + 1 .. Len(arrived') :
                 i \in 1 .. Len(arrived) => i \in read + 1 .. Len(arrived)
          BY <4>1
        <4> QED
          BY <4>1, <4>2, <4>3
      <3> QED
        BY <1>1, <2>1, <3>1 DEF Deliver_, OnWay
    <2> QED
      BY <1>1, <2>3, <2>4, <2>5, <2>6, ClientsKept DEF Deliver_
  <1>2. ASSUME NEW d \in asks \cup replies, Lose(d)
        PROVE  UdpInv'
    <2>1. UdpTypeOK'
      BY <1>2 DEF Lose, UdpTypeOK, clients
    <2>2. \A e \in OnWay' : e \in OnWay
      BY <1>2 DEF Lose, OnWay
    <2> QED
      BY <1>2, <2>1, <2>2, ClientsKept, ServerKept DEF Lose, serverSide
  <1> QED
    BY <1>1, <1>2

\* The callbacks of the UDP server get the datagrams in the order of their arrival and
\* recvfrom is called only when there is one; what a call of SendReceive returns on a port
\* that nothing was on its way to is nothing or the answer to its own request, also after
\* timeouts, losses and doubles, and although other clients and later calls get the ports
\* that were closed.
THEOREM UdpAnswersMatch == UdpSpec => []UdpExchange
  <1>1. UdpInit => UdpInv
    BY UdpInitInv
  <1>2. UdpInv /\ [UdpNext]_uvars => UdpInv'
    <2>1. CASE UNCHANGED uvars
      <3>1. OnWay' = OnWay
        BY <2>1 DEF uvars, OnWay, network, serverSide, workers, inbox
      <3> QED
        BY <2>1, <3>1, ClientsKept, ServerKept
        DEF uvars, UdpInv, ServerInv, UdpTypeOK, network, clients, serverSide, server, workers,
            inbox
    <2> QED
      BY <2>1, ServerStep, CallStep, NetworkStep DEF UdpNext
  <1>3. UdpInv => UdpExchange
    <2> SUFFICES ASSUME UdpInv PROVE UdpExchange
      OBVIOUS
    <2>1. read \in Nat /\ read <= Len(arrived) /\ arrived \in Seq(Datagrams)
      BY DEF UdpInv, ServerInv, UdpTypeOK, InOrder
    <2>2. \E k \in Nat : k <= read /\ passed = SubSeq(arrived, 1, k)
      <3>1. CASE passed = SubSeq(arrived, 1, read)
        BY <2>1, <3>1
      <3>2. CASE read > 0 /\ passed = SubSeq(arrived, 1, read - 1)
        <4>1. read - 1 \in Nat /\ read - 1 <= read
          BY <2>1, <3>2
        <4> QED
          BY <3>2, <4>1
      <3> QED
        BY <3>1, <3>2 DEF UdpInv, ServerInv, InOrder
    <2>3. passed = SubSeq(arrived, 1, Len(passed))
      BY <2>1, <2>2
    <2> QED
      BY <2>3 DEF UdpExchange, ReadsInOrder, UdpInv, ServerInv, ClientInv, OneBusy
  <1> QED
    BY <1>1, <1>2, <1>3, PTL DEF UdpSpec
=============================================================================
