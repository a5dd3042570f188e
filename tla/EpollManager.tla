---------------------------- MODULE EpollManager ----------------------------
(***************************************************************************)
(* clsEpollManager and clsTCPListener: the loop every worker thread runs,  *)
(* the dispatch of an event, the removal of a socket, and the accept path, *)
(* which runs under the manager's mutex.                                   *)
(***************************************************************************)
EXTENDS TCPSocket

VARIABLES
  lock,     \* m_Mutex: the thread that holds it
  lsock,    \* clsTCPListener::m_Socket
  lsn,      \* the listener a worker is accepting from
  closed    \* how often OnClosed was called on the object (at most MaxClosed)

manager == <<lock, lsock, lsn>>
vars == <<kernel, object, pc, local, manager, closed>>

MaxClosed == 2   \* bound of the counter: once, or more than once

-----------------------------------------------------------------------------
(***************************************************************************)
(* AddNewListener: StartListen on a new listener.  Until it is added to    *)
(* the epoll set no other thread sees the descriptor.  A failed bind       *)
(* returns without close().                                                *)
(***************************************************************************)
StartListen(l) ==
  /\ lsock[l] = Zero
  /\ "lateListen" \in Usage \/ \A t \in Workers : pc[t] = "off"
  /\ \E f \in FreeFds :
       /\ NewFd(f, "listen", "default")
       /\ \/ /\ Arm(f, l, {"in"})
             /\ lsock' = [lsock EXCEPT ![l] = f]
          \/ "bind" \in Faults /\ UNCHANGED <<reg, lsock>>
  /\ UNCHANGED <<object, pc, local, lock, lsn, closed>>

\* AddWorker: a new thread enters the loop.
StartWorker(t) ==
  /\ t \in Workers
  /\ pc[t] = "off"
  /\ Goto(t, "wait")
  /\ UNCHANGED <<kernel, object, local, manager, closed>>

\* A thread is through with an object and forgets it.
Forget(t) ==
  /\ cur' = [cur EXCEPT ![t] = None]
  /\ fd' = [fd EXCEPT ![t] = Invalid]
  /\ got' = [got EXCEPT ![t] = {}]
  /\ ret' = [ret EXCEPT ![t] = "finish"]
  /\ shut' = [shut EXCEPT ![t] = FALSE]

\* epoll_wait returns one event, for a connection or for a listener.
EpollWait(t, f) ==
  /\ pc[t] = "wait"
  /\ Deliverable(f)
  /\ Disarm(f)
  /\ \/ /\ ptr[f] \in Sockets
        /\ cur' = [cur EXCEPT ![t] = ptr[f]]
        /\ got' = [got EXCEPT ![t] = Pending(f)]
        /\ ret' = [ret EXCEPT ![t] = "rearmGet"]
        /\ Goto(t, "parse")
        /\ UNCHANGED lsn
     \/ /\ ptr[f] \in Listeners
        /\ lsn' = [lsn EXCEPT ![t] = ptr[f]]
        /\ Goto(t, "acceptLock")
        /\ UNCHANGED <<cur, got, ret>>
  /\ UNCHANGED <<fdt, object, fd, shut, lock, lsock, closed>>

\* _ParseEvents: errors first, then EPOLLOUT, then EPOLLIN.  Without a pending
\* reset isSocketHaveError() is false unless the number was closed meanwhile.
_ParseEvents(t) ==
  LET s == cur[t]
      err == "err" \in got[t]
      out == ~err /\ "out" \in got[t]
  IN
  /\ pc[t] = "parse"
  /\ \/ err /\ status[s] = "Closing" /\ Goto(t, "removeLock")
     \/ err /\ status[s] # "Closing" /\ Goto(t, "close")
     \/ out /\ status[s] = "Connecting" /\ HasError(s) /\ Goto(t, "close")
     \/ out /\ status[s] = "Connecting" /\ ~HasError(s) /\ Goto(t, "onConnected")
     \/ out /\ status[s] # "Connecting" /\ Goto(t, "ResumeSendFile")
     \/ got[t] = {"in"} /\ Goto(t, "onReceiving")
  /\ shut' = [shut EXCEPT ![t] = FALSE]
  /\ UNCHANGED <<kernel, object, cur, fd, got, ret, manager, closed>>

\* The tail of the loop: ModifySocket(GetSocket(), Event()), then OnClosed.
RearmGet(t) ==
  /\ pc[t] = "rearmGet"
  /\ fd' = [fd EXCEPT ![t] = sock[cur[t]]]
  /\ Goto(t, "rearmMod")
  /\ UNCHANGED <<kernel, object, cur, got, ret, shut, manager, closed>>

\* Mutant: the socket is not armed again.
ModifySocket_Forgotten(t) ==
  /\ pc[t] = "rearmMod"
  /\ Goto(t, "closeEvent")
  /\ UNCHANGED <<kernel, object, local, manager, closed>>

ModifySocket(t) ==
  /\ pc[t] = "rearmMod"
  /\ EpollMod(fd[t], cur[t], events[cur[t]])
  /\ Goto(t, "closeEvent")
  /\ UNCHANGED <<fdt, object, local, manager, closed>>

\* Mutants: OnClosed after every event; OnClosed for sockets that were never opened.
CloseEvent_Always(t) ==
  /\ pc[t] = "closeEvent"
  /\ closed' = [closed EXCEPT ![cur[t]] = IF @ < MaxClosed THEN @ + 1 ELSE @]
  /\ alive' = [alive EXCEPT ![cur[t]] = "deleteOnClosed" \notin Usage]
  /\ Forget(t)
  /\ Goto(t, "wait")
  /\ UNCHANGED <<kernel, status, sock, events, sending, manager>>

CloseEvent_OnlyZero(t) ==
  /\ pc[t] = "closeEvent"
  /\ closed' = IF sock[cur[t]] = Zero
               THEN [closed EXCEPT ![cur[t]] = MaxClosed] ELSE closed
  /\ Forget(t)
  /\ Goto(t, "wait")
  /\ UNCHANGED <<kernel, object, manager>>

CloseEvent(t) ==
  /\ pc[t] = "closeEvent"
  /\ \/ /\ sock[cur[t]] # Invalid
        /\ UNCHANGED <<alive, status, sock, closed>>
     \/ /\ sock[cur[t]] = Invalid
        /\ closed' = [closed EXCEPT ![cur[t]] = IF @ < MaxClosed THEN @ + 1 ELSE @]
        /\ IF "deleteOnClosed" \in Usage
           THEN /\ alive' = [alive EXCEPT ![cur[t]] = FALSE]
                /\ SetStatus(cur[t], "Closed")
                /\ sock' = [sock EXCEPT ![cur[t]] = Zero]
           ELSE UNCHANGED <<alive, status, sock>>
  /\ Forget(t)
  /\ Goto(t, "wait")
  /\ UNCHANGED <<kernel, events, sending, manager>>

-----------------------------------------------------------------------------
(***************************************************************************)
(* RemoveSocket of a connection: under the mutex, DEL and then CloseFinal. *)
(***************************************************************************)
RemoveLock(t) ==
  /\ pc[t] = "removeLock"
  /\ lock = None
  /\ lock' = t
  /\ Goto(t, "removeDel")
  /\ UNCHANGED <<kernel, object, local, lsock, lsn, closed>>

RemoveSocket(t) ==
  /\ pc[t] = "removeDel"
  /\ \/ EpollDel(sock[cur[t]]) /\ Goto(t, "closeFd")
     \/ ~Registered(sock[cur[t]]) /\ Goto(t, "removeUnlock") /\ UNCHANGED reg
  /\ UNCHANGED <<fdt, object, local, manager, closed>>

RemoveUnlock(t) ==
  /\ pc[t] = "removeUnlock"
  /\ lock' = None
  /\ Return(t)
  /\ UNCHANGED <<kernel, object, local, lsock, lsn, closed>>

-----------------------------------------------------------------------------
(***************************************************************************)
(* clsTCPListener::OnAccepting and the re-arming of the listener.          *)
(***************************************************************************)
\* Mutant: the accept path does not take the mutex.
AcceptLock_Missing(t) ==
  /\ pc[t] = "acceptLock"
  /\ Goto(t, "accept")
  /\ UNCHANGED <<kernel, object, local, manager, closed>>

AcceptLock(t) ==
  /\ pc[t] = "acceptLock"
  /\ lock = None
  /\ lock' = t
  /\ Goto(t, "accept")
  /\ UNCHANGED <<kernel, object, local, lsock, lsn, closed>>

OnAccepting(t) ==
  LET lf == lsock[lsn[t]] IN
  /\ pc[t] = "accept"
  /\ \/ /\ wire[lf] = "data"
        /\ \E f \in FreeFds :
             /\ SysAccept(lf, f)
             /\ fd' = [fd EXCEPT ![t] = f]
        /\ Goto(t, "acceptCallback")
     \/ /\ wire[lf] # "data" \/ FreeFds = {}
        /\ Goto(t, "listenRearm")
        /\ UNCHANGED <<fdt, fd>>
  /\ UNCHANGED <<reg, object, cur, got, ret, shut, manager, closed>>

\* The accept callback makes an object and calls Accept(), or ignores the socket.
AcceptCallback(t) ==
  /\ pc[t] = "acceptCallback"
  /\ \/ \E s \in Sockets :
          /\ Construct(s)
          /\ SetStatus(s, "Accepting")
          /\ sock' = [sock EXCEPT ![s] = fd[t]]
          /\ closed' = [closed EXCEPT ![s] = 0]
          /\ cur' = [cur EXCEPT ![t] = s]
          /\ Goto(t, "accepting")
     \/ /\ Goto(t, "denyCheck")
        /\ UNCHANGED <<object, closed, cur>>
  /\ UNCHANGED <<kernel, fd, got, ret, shut, manager>>

\* SetSocketNonBlocking(new_socket), then the socket is closed if it is open and
\* does not carry the mark of Accept().
Denied(f) == IsOpen(f) /\ mark[f] # "taken"

\* Mutant: a socket the callback ignored is not closed.
DenyCheck_Missing(t) ==
  /\ pc[t] = "denyCheck"
  /\ Goto(t, "listenRearm")
  /\ UNCHANGED <<kernel, object, local, manager, closed>>

DenyCheck(t) ==
  /\ pc[t] = "denyCheck"
  /\ \/ /\ Denied(fd[t])
        /\ SysClose(fd[t])
     \/ /\ ~Denied(fd[t])
        /\ SetNonBlocking(fd[t])
        /\ UNCHANGED reg
  /\ Goto(t, "listenRearm")
  /\ UNCHANGED <<object, local, manager, closed>>

\* Mutant: the mutex is not given back.
ListenRearm_KeepsLock(t) ==
  /\ pc[t] = "listenRearm"
  /\ EpollMod(lsock[lsn[t]], lsn[t], {"in"})
  /\ lsn' = [lsn EXCEPT ![t] = None]
  /\ Forget(t)
  /\ Goto(t, "wait")
  /\ UNCHANGED <<fdt, object, lsock, lock, closed>>

ListenRearm(t) ==
  /\ pc[t] = "listenRearm"
  /\ EpollMod(lsock[lsn[t]], lsn[t], {"in"})
  /\ lock' = None
  /\ lsn' = [lsn EXCEPT ![t] = None]
  /\ Forget(t)
  /\ Goto(t, "wait")
  /\ UNCHANGED <<fdt, object, lsock, closed>>
=============================================================================
