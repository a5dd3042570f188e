------------------------------ MODULE TCPSocket ------------------------------
(***************************************************************************)
(* clsTCPSocket: the connection object and every method of it that changes *)
(* state, each as the steps between which another thread can run.  A step  *)
(* of thread t works on the object cur[t]; pc[t] names the place in the    *)
(* code.  The actions constrain the kernel's, the objects' and the         *)
(* threads' variables; EpollManager adds the variables of the manager.     *)
(***************************************************************************)
EXTENDS EpollKernel

CONSTANTS
  Workers,   \* threads that run clsEpollManager::_OnWaitForNewEvenet
  Apps,      \* threads of the application
  Usage,     \* what the application does with the library
  Faults     \* the system calls that may fail

UsageKinds ==
  {"close",          \* OnReceiveData, OnConnected and OnSendFileComplete may Close()
   "acceptClose",    \* OnAccepted and the accept callback may Close()
   "useAfterAccept", \* the accept callback uses the object after Accept()
   "send",           \* callbacks may Send()
   "sendfile",       \* callbacks may SendFile()
   "ssl",            \* Accept(fd, true) in the build without USE_SSL
   "deleteOnClosed", \* OnClosed does "delete this"
   "appClose",       \* an application thread may Close() a connection
   "connect",        \* application threads make outgoing connections
   "reconnect",      \* and use a closed object for the next one
   "lateListen"}     \* AddNewListener after the first worker was started
FaultKinds == {"socket", "resolve", "connect", "add", "file", "bind"}

Threads == Workers \cup Apps

ASSUME ThreadAssumption ==
  /\ Workers \cap Apps = {}
  /\ None \notin Threads
  /\ Usage \subseteq UsageKinds
  /\ Faults \subseteq FaultKinds

VARIABLES
  status,   \* Status
  sock,     \* m_socket
  events,   \* m_Event.events: EPOLLIN, and EPOLLOUT while a file is stuck
  sending,  \* m_fdFile # 0
  alive,    \* the object is constructed and not deleted
  pc,       \* where each thread is
  cur,      \* the object the thread works on
  fd,       \* the descriptor a thread holds in a local variable
  got,      \* the events epoll_wait returned, or what recv returned
  ret,      \* where the library call in progress returns to
  shut      \* Close() takes its isShutdown branch

object == <<status, sock, events, sending, alive>>
local  == <<cur, fd, got, ret, shut>>

StatusKinds == {"Closed", "Closing", "Connecting", "Accepting", "Connected"}
NoFd == {Zero, Invalid}

Goto(t, place) == pc' = [pc EXCEPT ![t] = place]
Return(t) == Goto(t, ret[t])
SetStatus(s, v) == status' = [status EXCEPT ![s] = v]

\* The constructor: what a new object holds.
Construct(s) ==
  /\ ~alive[s]
  /\ alive' = [alive EXCEPT ![s] = TRUE]
  /\ events' = [events EXCEPT ![s] = {}]
  /\ sending' = [sending EXCEPT ![s] = FALSE]

-----------------------------------------------------------------------------
(***************************************************************************)
(* Close(false).  Its callers never pass true.                             *)
(***************************************************************************)

Close(t) ==
  /\ pc[t] = "close"
  /\ \/ /\ status[cur[t]] \in {"Closed", "Closing"}
        /\ Return(t)
        /\ UNCHANGED shut
     \/ /\ status[cur[t]] = "Accepting"
        /\ Goto(t, "closeFd")
        /\ shut' = [shut EXCEPT ![t] = TRUE]
     \/ /\ status[cur[t]] \in {"Connecting", "Connected"}
        /\ Goto(t, "closing")
        /\ shut' = [shut EXCEPT ![t] = status[cur[t]] = "Connected"]
  /\ UNCHANGED <<kernel, object, cur, fd, got, ret>>

\* Mutant: Status is set to Closed before the descriptor is closed.
CloseMark_ClosedFirst(t) ==
  /\ pc[t] = "closing"
  /\ SetStatus(cur[t], "Closed")
  /\ sending' = [sending EXCEPT ![cur[t]] = FALSE]
  /\ Goto(t, IF shut[t] THEN "closeFd" ELSE "removeLock")
  /\ UNCHANGED <<kernel, sock, events, alive, local>>

CloseMark(t) ==
  /\ pc[t] = "closing"
  /\ \/ /\ sock[cur[t]] \in NoFd
        /\ SetStatus(cur[t], "Closed")
        /\ Return(t)
        /\ UNCHANGED sending
     \/ /\ sock[cur[t]] \notin NoFd
        /\ SetStatus(cur[t], "Closing")
        /\ sending' = [sending EXCEPT ![cur[t]] = FALSE]
        /\ Goto(t, IF shut[t] THEN "closeFd" ELSE "removeLock")
  /\ UNCHANGED <<kernel, sock, events, alive, local>>

\* CloseFinal: close(m_socket), then Status, then m_socket.
CloseFd(t) ==
  /\ pc[t] = "closeFd"
  /\ SysClose(sock[cur[t]])
  /\ Goto(t, "setClosed")
  /\ UNCHANGED <<object, local>>

\* Mutant: CloseFinal does not set Status.
SetClosed_Forgotten(t) ==
  /\ pc[t] = "setClosed"
  /\ Goto(t, "dropFd")
  /\ UNCHANGED <<kernel, object, local>>

SetClosed(t) ==
  /\ pc[t] = "setClosed"
  /\ SetStatus(cur[t], "Closed")
  /\ Goto(t, "dropFd")
  /\ UNCHANGED <<kernel, sock, events, sending, alive, local>>

\* Mutant: CloseFinal leaves the old number in m_socket.
DropFd_Forgotten(t) ==
  /\ pc[t] = "dropFd"
  /\ Goto(t, IF shut[t] THEN ret[t] ELSE "removeUnlock")
  /\ UNCHANGED <<kernel, object, local>>

DropFd(t) ==
  /\ pc[t] = "dropFd"
  /\ sock' = [sock EXCEPT ![cur[t]] = Invalid]
  /\ Goto(t, IF shut[t] THEN ret[t] ELSE "removeUnlock")
  /\ UNCHANGED <<kernel, status, events, sending, alive, local>>

-----------------------------------------------------------------------------
(***************************************************************************)
(* Accept(new_socket, useSSL) after its guard, on a new object.            *)
(***************************************************************************)
Accepting(t) ==
  /\ pc[t] = "accepting"
  /\ \/ /\ "ssl" \in Usage
        /\ Goto(t, "close")
        /\ ret' = [ret EXCEPT ![t] = "denyCheck"]
        /\ UNCHANGED <<status, events>>
     \/ /\ SetStatus(cur[t], "Connected")
        /\ events' = [events EXCEPT ![cur[t]] = {"in"}]
        /\ Goto(t, "callback")
        /\ ret' = [ret EXCEPT ![t] = "acceptAdd"]
  /\ UNCHANGED <<kernel, sock, sending, alive, cur, fd, got, shut>>

AcceptAdd(t) ==
  /\ pc[t] = "acceptAdd"
  /\ \/ /\ status[cur[t]] # "Connected"
        /\ Goto(t, "acceptMark")
        /\ UNCHANGED <<reg, ret>>
     \/ /\ status[cur[t]] = "Connected"
        /\ EpollAdd(sock[cur[t]], cur[t], events[cur[t]])
        /\ Goto(t, "acceptMark")
        /\ UNCHANGED ret
     \/ /\ status[cur[t]] = "Connected"
        /\ "add" \in Faults \/ ~CanAdd(sock[cur[t]])
        /\ Goto(t, "close")
        /\ ret' = [ret EXCEPT ![t] = "denyCheck"]
        /\ UNCHANGED reg
  /\ UNCHANGED <<fdt, object, cur, fd, got, shut>>

\* Mutants: the socket is not marked; it is marked with a value nobody tests for.
AcceptMark_Forgotten(t) ==
  /\ pc[t] = "acceptMark"
  /\ Goto(t, "denyCheck")
  /\ UNCHANGED <<kernel, object, local>>

AcceptMark_WrongTimeout(t) ==
  /\ pc[t] = "acceptMark"
  /\ SetMark(sock[cur[t]], "15Sec")
  /\ Goto(t, "denyCheck")
  /\ UNCHANGED <<reg, object, local>>

\* SetSocketConnectTimeout(m_socket, TIMEOUT_7Sec): the mark that says "accepted".
AcceptMark(t) ==
  /\ pc[t] = "acceptMark"
  /\ SetMark(sock[cur[t]], "taken")
  /\ \/ Goto(t, "denyCheck") /\ UNCHANGED ret
     \/ /\ "useAfterAccept" \in Usage
        /\ Goto(t, "callback")
        /\ ret' = [ret EXCEPT ![t] = "denyCheck"]
  /\ UNCHANGED <<reg, object, cur, fd, got, shut>>

-----------------------------------------------------------------------------
(***************************************************************************)
(* ConnectToHost, by an application thread.                                *)
(***************************************************************************)
\* Mutant: the guard on Status is missing.
ConnectToHost_Unguarded(t, s) ==
  /\ pc[t] = "idle"
  /\ "connect" \in Usage
  /\ alive' = [alive EXCEPT ![s] = TRUE]
  /\ SetStatus(s, "Connecting")
  /\ cur' = [cur EXCEPT ![t] = s]
  /\ ret' = [ret EXCEPT ![t] = "finish"]
  /\ Goto(t, "connectSocket")
  /\ UNCHANGED <<kernel, events, sending, sock, fd, got, shut>>

ConnectToHost(t, s) ==
  /\ pc[t] = "idle"
  /\ "connect" \in Usage
  /\ \/ /\ Construct(s)
        /\ sock' = [sock EXCEPT ![s] = Zero]
     \/ /\ "reconnect" \in Usage
        /\ alive[s] /\ status[s] = "Closed"
        /\ UNCHANGED <<alive, events, sending, sock>>
  /\ SetStatus(s, "Connecting")
  /\ cur' = [cur EXCEPT ![t] = s]
  /\ ret' = [ret EXCEPT ![t] = "finish"]
  /\ Goto(t, "connectSocket")
  /\ UNCHANGED <<kernel, fd, got, shut>>

ConnectSocket(t) ==
  /\ pc[t] = "connectSocket"
  /\ \/ \E f \in FreeFds :
          /\ NewFd(f, "conn", "other")
          /\ sock' = [sock EXCEPT ![cur[t]] = f]
          /\ Goto(t, "connectHost")
     \/ /\ "socket" \in Faults \/ FreeFds = {}
        /\ sock' = [sock EXCEPT ![cur[t]] = Invalid]
        /\ Goto(t, "close")
        /\ UNCHANGED fdt
  /\ UNCHANGED <<reg, status, events, sending, alive, local>>

\* Mutant: EPOLLOUT is not asked for while connecting.
ConnectHost_InputOnly(t) ==
  /\ pc[t] = "connectHost"
  /\ SetWire(sock[cur[t]], "syn")
  /\ events' = [events EXCEPT ![cur[t]] = {"in"}]
  /\ Goto(t, "connectAdd")
  /\ UNCHANGED <<reg, status, sock, sending, alive, local>>

\* The host name is resolved, then connect() is in progress or has failed.
ConnectHost(t) ==
  /\ pc[t] = "connectHost"
  /\ \/ /\ SetWire(sock[cur[t]], "syn")
        /\ events' = [events EXCEPT ![cur[t]] = {"in", "out"}]
        /\ Goto(t, "connectAdd")
        /\ UNCHANGED shut
     \/ /\ {"resolve", "connect"} \cap Faults # {}
        /\ shut' = [shut EXCEPT ![t] = TRUE]
        /\ Goto(t, "closeFd")
        /\ UNCHANGED <<fdt, events>>
  /\ UNCHANGED <<reg, status, sock, sending, alive, cur, fd, got, ret>>


ConnectAdd(t) ==
  /\ pc[t] = "connectAdd"
  /\ \/ EpollAdd(sock[cur[t]], cur[t], events[cur[t]]) /\ Return(t)
     \/ /\ "add" \in Faults \/ ~CanAdd(sock[cur[t]])
        /\ Goto(t, "close")
        /\ UNCHANGED reg
  /\ UNCHANGED <<fdt, object, local>>

\* Close() called from a thread that does not handle the connection.
AppClose(t, s) ==
  /\ pc[t] = "idle"
  /\ "appClose" \in Usage
  /\ alive[s]
  /\ cur' = [cur EXCEPT ![t] = s]
  /\ ret' = [ret EXCEPT ![t] = "finish"]
  /\ Goto(t, "close")
  /\ UNCHANGED <<kernel, object, fd, got, shut>>

-----------------------------------------------------------------------------
(***************************************************************************)
(* The handlers a worker calls.                                            *)
(***************************************************************************)
onConnected(t) ==
  /\ pc[t] = "onConnected"
  /\ events' = [events EXCEPT ![cur[t]] = {"in"}]
  /\ SetStatus(cur[t], "Connected")
  /\ Goto(t, "callback")
  /\ UNCHANGED <<kernel, sock, sending, alive, local>>

\* isSocketHaveError(): getsockopt(SO_ERROR) fails or reports an error.
HasError(s) == ~(IsOpen(sock[s]) /\ wire[sock[s]] # "reset")

onReceiving(t) ==
  /\ pc[t] = "onReceiving"
  /\ \/ status[cur[t]] = "Closing" /\ Goto(t, "removeLock")
     \/ status[cur[t]] \notin {"Closing", "Connected"} /\ Return(t)
     \/ status[cur[t]] = "Connected" /\ HasError(cur[t]) /\ Goto(t, "close")
     \/ status[cur[t]] = "Connected" /\ ~HasError(cur[t]) /\ Goto(t, "recv")
  /\ UNCHANGED <<kernel, object, local>>

\* recv(): 0 at the end of the stream, -1 on an error and when nothing is there.
Received(f) ==
  IF ~IsOpen(f) THEN "fail"
  ELSE IF wire[f] \in {"data", "eof"} THEN wire[f] ELSE "fail"

Recv(t) ==
  /\ pc[t] = "recv"
  /\ got' = [got EXCEPT ![t] = {Received(sock[cur[t]])}]
  /\ IF Received(sock[cur[t]]) = "data"
     THEN SetWire(sock[cur[t]], "quiet") ELSE UNCHANGED fdt
  /\ Goto(t, "received")
  /\ UNCHANGED <<reg, object, cur, fd, ret, shut>>

\* Mutant: the end of the stream is not seen as a close.
AfterRecv_IgnoresEof(t) ==
  /\ pc[t] = "received"
  /\ \/ (status[cur[t]] # "Connected" \/ got[t] = {"eof"}) /\ Return(t)
     \/ status[cur[t]] = "Connected" /\ got[t] = {"data"} /\ Goto(t, "callback")
     \/ status[cur[t]] = "Connected" /\ got[t] = {"fail"} /\ Goto(t, "close")
  /\ UNCHANGED <<kernel, object, local>>

AfterRecv(t) ==
  /\ pc[t] = "received"
  /\ \/ status[cur[t]] # "Connected" /\ Return(t)
     \/ status[cur[t]] = "Connected" /\ got[t] = {"data"} /\ Goto(t, "callback")
     \/ status[cur[t]] = "Connected" /\ got[t] # {"data"} /\ Goto(t, "close")
  /\ UNCHANGED <<kernel, object, local>>

\* The body of an application callback: nothing, or one call into the library.
MayClose(t) ==
  (IF ret[t] \in {"acceptAdd", "denyCheck"} THEN "acceptClose" ELSE "close") \in Usage

Callback(t) ==
  /\ pc[t] = "callback"
  /\ \/ Return(t)
     \/ MayClose(t) /\ Goto(t, "close")
     \/ "send" \in Usage /\ Goto(t, "send")
     \/ "sendfile" \in Usage /\ Goto(t, "SendFile")
  /\ UNCHANGED <<kernel, object, local>>

\* Send(): its guard, then the loop, which tries again as long as the buffer is full.
Send(t) ==
  /\ pc[t] = "send"
  /\ \/ status[cur[t]] # "Connected" /\ Return(t)
     \/ status[cur[t]] = "Connected" /\ Goto(t, "sendLoop")
  /\ UNCHANGED <<kernel, object, local>>

SendLoop(t) ==
  /\ pc[t] = "sendLoop"
  /\ \/ HasError(cur[t]) /\ UNCHANGED fdt
     \/ /\ ~HasError(cur[t])
        /\ ~full[sock[cur[t]]]
        /\ \E b \in BOOLEAN : SetFull(sock[cur[t]], b)
  /\ Return(t)
  /\ UNCHANGED <<reg, object, local>>

\* SendFile(fileFD): the file may be one that could not be opened.
SendFile(t) ==
  /\ pc[t] = "SendFile"
  /\ \/ /\ status[cur[t]] # "Connected" \/ sending[cur[t]]
        /\ Return(t)
        /\ UNCHANGED sending
     \/ /\ status[cur[t]] = "Connected" /\ ~sending[cur[t]]
        /\ \/ sending' = [sending EXCEPT ![cur[t]] = TRUE]
           \/ "file" \in Faults /\ UNCHANGED sending
        /\ Goto(t, "ResumeSendFile")
  /\ UNCHANGED <<kernel, status, sock, events, alive, local>>

ResumeSendFile(t) ==
  /\ pc[t] = "ResumeSendFile"
  /\ \/ /\ status[cur[t]] # "Connected"
        /\ Return(t)
        /\ UNCHANGED events
     \/ /\ status[cur[t]] = "Connected" /\ ~sending[cur[t]]
        /\ Goto(t, "close")
        /\ UNCHANGED events
     \/ /\ status[cur[t]] = "Connected" /\ sending[cur[t]]
        /\ events' = [events EXCEPT ![cur[t]] = {"in"}]
        /\ Goto(t, "sendfile")
  /\ UNCHANGED <<kernel, status, sock, sending, alive, local>>

\* Mutant: when the buffer is full EPOLLOUT is not asked for.
SendFileLoop_NoOut(t) ==
  /\ pc[t] = "sendfile"
  /\ \/ /\ status[cur[t]] # "Connected" \/ HasError(cur[t])
        /\ Return(t)
        /\ UNCHANGED <<fdt, sending>>
     \/ /\ status[cur[t]] = "Connected" /\ ~HasError(cur[t])
        /\ ~full[sock[cur[t]]]
        /\ sending' = [sending EXCEPT ![cur[t]] = FALSE]
        /\ Goto(t, "callback")
        /\ UNCHANGED fdt
     \/ /\ status[cur[t]] = "Connected" /\ ~HasError(cur[t])
        /\ SetFull(sock[cur[t]], TRUE)
        /\ Return(t)
        /\ UNCHANGED sending
  /\ UNCHANGED <<reg, events, status, sock, alive, local>>

\* The loop around sendfile64(): the file is through, or the buffer is full, or
\* the connection is broken.  On a blocking socket it waits for room.
SendFileLoop(t) ==
  /\ pc[t] = "sendfile"
  /\ \/ /\ status[cur[t]] # "Connected"
        /\ Return(t)
        /\ UNCHANGED <<fdt, events, sending>>
     \/ /\ status[cur[t]] = "Connected" /\ HasError(cur[t])
        /\ events' = [events EXCEPT ![cur[t]] = {"in", "out"}]
        /\ Return(t)
        /\ UNCHANGED <<fdt, sending>>
     \/ /\ status[cur[t]] = "Connected" /\ ~HasError(cur[t])
        /\ ~full[sock[cur[t]]]
        /\ sending' = [sending EXCEPT ![cur[t]] = FALSE]
        /\ Goto(t, "callback")
        /\ UNCHANGED <<fdt, events>>
     \/ /\ status[cur[t]] = "Connected" /\ ~HasError(cur[t])
        /\ ~block[sock[cur[t]]]
        /\ SetFull(sock[cur[t]], TRUE)
        /\ events' = [events EXCEPT ![cur[t]] = {"in", "out"}]
        /\ Return(t)
        /\ UNCHANGED sending
  /\ UNCHANGED <<reg, status, sock, alive, local>>
=============================================================================
