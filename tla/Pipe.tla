-------------------------------- MODULE Pipe --------------------------------
(***************************************************************************)
(* clsPipe: a datagram socket under a path, a thread that serves it, and   *)
(* the requests other processes send to it.  The thread that owns the      *)
(* object (app) calls Listen, StopListen and the destructor; the listener  *)
(* thread (thr) reads m_listenSock and m_bRunning without a lock at every  *)
(* place where the code does, so each such read is a step of its own.      *)
(***************************************************************************)
EXTENDS Integers, Sequences, FiniteSets

CONSTANTS
  Fds,        \* descriptor numbers of the process
  Zero,       \* the number 0: standard input, and "no socket" in m_listenSock
  Invalid,    \* -1
  None,       \* no file under the path
  Requests,   \* the requests of other processes, each with a name of its own
  QueueMax,   \* bound: datagrams a socket queues (net.unix.max_dgram_qlen)
  Faults,     \* the system calls of the listener thread that may fail, and
              \* "empty": a datagram of length zero may arrive
  MaxFaults   \* bound: how often they fail

ASSUME PipeAssumption ==
  /\ Zero \in Fds
  /\ Invalid \notin Fds
  /\ None \notin Fds \cup Requests \cup {Invalid}
  /\ QueueMax \in Nat \ {0}
  /\ Faults \subseteq {"socket", "unlink", "bind", "empty"}
  /\ MaxFaults \in Nat

VARIABLES
  running,     \* m_bRunning
  listenSock,  \* m_listenSock
  app,         \* where the owner of the object is
  thr,         \* where the listener thread is; "none": m_Thread is not joinable
  sel,         \* the number in readfds; Invalid: select() watches nothing
  msg,         \* the datagram in buffer
  open,        \* the descriptors that are open
  queue,       \* what the socket of a descriptor has received; None: an empty datagram
  path,        \* the socket the path names; Invalid: one that is gone
  req,         \* how far a request is
  answers,     \* the requests whose answer lies in their own socket
  spare        \* how many calls may still fail

pipe == <<running, listenSock>>
threads == <<app, thr, sel, msg>>
system == <<open, queue, path>>
peers == <<req, answers>>
vars == <<pipe, threads, system, peers, spare>>

-----------------------------------------------------------------------------
(***************************************************************************)
(* System calls.                                                           *)
(***************************************************************************)
Free == Fds \ open

\* close(f); of a number that is not open it changes nothing.
SysClose(f) ==
  /\ open' = open \ {f}
  /\ queue' = [g \in Fds |-> IF g = f THEN << >> ELSE queue[g]]
  /\ path' = IF path = f /\ f \in open THEN Invalid ELSE path

\* One of the faults happens: a call of the listener thread fails although its
\* arguments are right, or a datagram is empty.
Fails(call) ==
  /\ call \in Faults
  /\ spare > 0
  /\ spare' = spare - 1

-----------------------------------------------------------------------------
(***************************************************************************)
(* The owner.                                                              *)
(***************************************************************************)
\* The name is set and the thread started, an old one having been joined by
\* killThread; m_bRunning follows in the next step.
Listen ==
  /\ app = "idle"
  /\ ~running
  /\ listenSock = Zero
  /\ thr \in {"none", "done"}
  /\ thr' = "outer"
  /\ app' = "started"
  /\ UNCHANGED <<pipe, sel, msg, system, peers, spare>>

Started ==
  /\ app = "started"
  /\ running' = TRUE
  /\ app' = "idle"
  /\ UNCHANGED <<listenSock, thr, sel, msg, system, peers, spare>>

StopListen ==
  /\ app = "idle"
  /\ running
  /\ running' = FALSE
  /\ app' = "stopTest"
  /\ UNCHANGED <<listenSock, thr, sel, msg, system, peers, spare>>

StopTest ==
  /\ app = "stopTest"
  /\ app' = IF listenSock \in {Zero, Invalid} THEN "join" ELSE "stopClose"
  /\ UNCHANGED <<pipe, thr, sel, msg, system, peers, spare>>

\* Mutant: StopListen only forgets the socket.
StopClose_Forgets ==
  /\ app = "stopClose"
  /\ app' = "stopZero"
  /\ UNCHANGED <<pipe, thr, sel, msg, system, peers, spare>>

StopClose ==
  /\ app = "stopClose"
  /\ SysClose(listenSock)
  /\ app' = "stopZero"
  /\ UNCHANGED <<pipe, thr, sel, msg, peers, spare>>

StopZero ==
  /\ app = "stopZero"
  /\ listenSock' = Zero
  /\ app' = "join"
  /\ UNCHANGED <<running, thr, sel, msg, system, peers, spare>>

\* The destructor: killThread joins the thread and finds nothing left to stop.
Destroy ==
  /\ app = "idle"
  /\ running' = FALSE
  /\ app' = "kill"
  /\ UNCHANGED <<listenSock, thr, sel, msg, system, peers, spare>>

Join ==
  /\ app \in {"join", "kill"}
  /\ thr \in {"none", "done"}
  /\ thr' = "none"
  /\ app' = IF app = "kill" THEN "gone" ELSE "idle"
  /\ UNCHANGED <<pipe, sel, msg, system, peers, spare>>

-----------------------------------------------------------------------------
(***************************************************************************)
(* _onListenerThread, the outer loop: a socket under the path.             *)
(***************************************************************************)
\* Mutant: the outer loop goes on for ever.
Outer_Endless ==
  /\ thr = "outer"
  /\ thr' = "create"
  /\ UNCHANGED <<pipe, app, sel, msg, system, peers, spare>>

Outer ==
  /\ thr = "outer"
  /\ thr' = IF running THEN "create" ELSE "done"
  /\ UNCHANGED <<pipe, app, sel, msg, system, peers, spare>>

Create ==
  /\ thr = "create"
  /\ \/ \E f \in Free :
          /\ open' = open \cup {f}
          /\ listenSock' = f
          /\ thr' = "unlink"
          /\ UNCHANGED spare
     \/ /\ \/ Fails("socket")
           \/ Free = {} /\ UNCHANGED spare
        /\ listenSock' = Invalid
        /\ thr' = "outer"
        /\ UNCHANGED open
  /\ UNCHANGED <<running, app, sel, msg, queue, path, peers>>

\* Mutant: what an earlier run left under the path is not removed.
Unlink_Missing ==
  /\ thr = "unlink"
  /\ thr' = "bind"
  /\ UNCHANGED <<pipe, app, sel, msg, system, peers, spare>>

Unlink ==
  /\ thr = "unlink"
  /\ \/ path' = None /\ thr' = "bind" /\ UNCHANGED spare
     \/ Fails("unlink") /\ thr' = "unlinkClose" /\ UNCHANGED path
  /\ UNCHANGED <<pipe, app, sel, msg, open, queue, peers>>

UnlinkClose ==
  /\ thr = "unlinkClose"
  /\ SysClose(listenSock)
  /\ thr' = "unlinkZero"
  /\ UNCHANGED <<pipe, app, sel, msg, peers, spare>>

UnlinkZero ==
  /\ thr = "unlinkZero"
  /\ listenSock' = Zero
  /\ thr' = "outer"
  /\ UNCHANGED <<running, app, sel, msg, system, peers, spare>>

\* Mutant: a failed bind is only reported.
Bind_GoesOn ==
  /\ thr = "bind"
  /\ \/ path' = listenSock /\ UNCHANGED spare
     \/ Fails("bind") /\ UNCHANGED path
  /\ thr' = "inner"
  /\ UNCHANGED <<pipe, app, sel, msg, open, queue, peers>>

\* bind() refuses a path that exists and a number that is not an open socket;
\* the socket is then left open.
Bind ==
  /\ thr = "bind"
  /\ \/ /\ path = None
        /\ listenSock \in open \ {Zero}
        /\ path' = listenSock
        /\ thr' = "inner"
        /\ UNCHANGED spare
     \/ /\ \/ Fails("bind")
           \/ /\ path # None \/ listenSock \notin open \ {Zero}
              /\ UNCHANGED spare
        /\ thr' = "outer"
        /\ UNCHANGED path
  /\ UNCHANGED <<pipe, app, sel, msg, open, queue, peers>>

-----------------------------------------------------------------------------
(***************************************************************************)
(* The inner loop: wait, receive, hand over.                               *)
(***************************************************************************)
\* The test of m_bRunning and FD_SET(m_listenSock).
Inner ==
  /\ thr = "inner"
  /\ IF running
     THEN sel' = listenSock /\ thr' = "select"
     ELSE thr' = "outer" /\ UNCHANGED sel
  /\ UNCHANGED <<pipe, app, msg, system, peers, spare>>

\* select(m_listenSock + 1): when m_listenSock has been set to 0 in between, the
\* number in readfds is beyond the range and nothing is watched.
Select ==
  /\ thr = "select"
  /\ IF sel = listenSock /\ sel \notin open
     THEN thr' = "selectClose" /\ UNCHANGED sel
     ELSE /\ thr' = "selecting"
          /\ sel' = IF sel = listenSock THEN sel ELSE Invalid
  /\ UNCHANGED <<pipe, app, msg, system, peers, spare>>

\* Ten seconds are over, or a signal came.
Timeout ==
  /\ thr = "selecting"
  /\ thr' = "inner"
  /\ UNCHANGED <<pipe, app, sel, msg, system, peers, spare>>

\* There is input.  A socket closed while select() holds it, and standard input,
\* may have some at any time.
Selected ==
  /\ thr = "selecting"
  /\ sel # Invalid
  /\ sel \in open \ {Zero} => queue[sel] # << >>
  /\ thr' = "isSet"
  /\ UNCHANGED <<pipe, app, sel, msg, system, peers, spare>>

SelectClose ==
  /\ thr = "selectClose"
  /\ SysClose(listenSock)
  /\ thr' = "selectInvalid"
  /\ UNCHANGED <<pipe, app, sel, msg, peers, spare>>

\* Mutant: the loop goes on after an error of select, as the comment at the
\* break considers.
SelectInvalid_Continues ==
  /\ thr = "selectInvalid"
  /\ listenSock' = Invalid
  /\ thr' = "inner"
  /\ UNCHANGED <<running, app, sel, msg, system, peers, spare>>

SelectInvalid ==
  /\ thr = "selectInvalid"
  /\ listenSock' = Invalid
  /\ thr' = "outer"
  /\ UNCHANGED <<running, app, sel, msg, system, peers, spare>>

IsSet ==
  /\ thr = "isSet"
  /\ thr' = IF listenSock = sel THEN "recv" ELSE "inner"
  /\ UNCHANGED <<pipe, app, sel, msg, system, peers, spare>>

\* Mutant: every datagram ends the inner loop.
Recv_Drops ==
  /\ thr = "recv"
  /\ thr' = "outer"
  /\ UNCHANGED <<pipe, app, sel, msg, system, peers, spare>>

\* Mutant: an error of recvfrom is not looked at.
Recv_Unchecked ==
  /\ thr = "recv"
  /\ IF listenSock \in open \ {Zero}
     THEN /\ queue[listenSock] # << >>
          /\ msg' = Head(queue[listenSock])
          /\ queue' = [queue EXCEPT ![listenSock] = Tail(@)]
     ELSE UNCHANGED <<msg, queue>>
  /\ thr' = "deliver"
  /\ UNCHANGED <<pipe, app, sel, open, path, peers, spare>>

\* recvfrom() waits when there is nothing to read.  An error and an empty
\* datagram lead to the outer loop, which makes a new socket.
Recv ==
  /\ thr = "recv"
  /\ IF listenSock \in open \ {Zero}
     THEN /\ queue[listenSock] # << >>
          /\ msg' = Head(queue[listenSock])
          /\ queue' = [queue EXCEPT ![listenSock] = Tail(@)]
          /\ thr' = IF msg' = None THEN "outer" ELSE "deliver"
     ELSE thr' = "outer" /\ UNCHANGED <<msg, queue>>
  /\ UNCHANGED <<pipe, app, sel, open, path, peers, spare>>

\* OnPipeReceiveMessage: the default one answers to the socket the message names,
\* when it is still there.
Deliver ==
  /\ thr = "deliver"
  /\ answers' = IF req[msg] \in {"made", "sent"} THEN answers \cup {msg} ELSE answers
  /\ thr' = "inner"
  /\ UNCHANGED <<pipe, app, sel, msg, system, req, spare>>

-----------------------------------------------------------------------------
(***************************************************************************)
(* A request of another process: CreateReceiver, SendMessage to the path,  *)
(* ReceiveMessage.                                                         *)
(***************************************************************************)
CreateReceiver(r) ==
  /\ req[r] = "new"
  /\ req' = [req EXCEPT ![r] = "made"]
  /\ UNCHANGED <<pipe, threads, system, answers, spare>>

\* Without a path, or when its socket is gone, nothing is sent; a full queue blocks.
SendMessage(r) ==
  /\ req[r] = "made"
  /\ req' = [req EXCEPT ![r] = "sent"]
  /\ IF path \in {None, Invalid}
     THEN UNCHANGED queue
     ELSE /\ Len(queue[path]) < QueueMax
          /\ queue' = [queue EXCEPT ![path] = Append(@, r)]
  /\ UNCHANGED <<pipe, threads, open, path, answers, spare>>

\* SendMessage of length zero; its sender does not matter.
SendEmpty ==
  /\ path \notin {None, Invalid}
  /\ Len(queue[path]) < QueueMax
  /\ queue' = [queue EXCEPT ![path] = Append(@, None)]
  /\ Fails("empty")
  /\ UNCHANGED <<pipe, threads, open, path, peers>>

\* The answer or the timeout; the socket and its path are removed.
ReceiveMessage(r) ==
  /\ req[r] = "sent"
  /\ req' = [req EXCEPT ![r] = "over"]
  /\ answers' = answers \ {r}
  /\ UNCHANGED <<pipe, threads, system, spare>>

-----------------------------------------------------------------------------
Init ==
  /\ running = FALSE
  /\ listenSock = Zero
  /\ app = "idle"
  /\ thr = "none"
  /\ sel = Invalid
  /\ msg = None
  /\ open = {Zero}
  /\ queue = [f \in Fds |-> << >>]
  /\ path \in {None, Invalid}
  /\ req = [r \in Requests |-> "new"]
  /\ answers = {}
  /\ spare = MaxFaults

Owner ==
  \/ Listen \/ Started \/ StopListen \/ StopTest \/ StopClose \/ StopZero
  \/ Destroy \/ Join

_onListenerThread ==
  \/ Outer \/ Create \/ Unlink \/ UnlinkClose \/ UnlinkZero \/ Bind
  \/ Inner \/ Select \/ Timeout \/ Selected \/ SelectClose \/ SelectInvalid
  \/ IsSet \/ Recv \/ Deliver

Peers ==
  \/ SendEmpty
  \/ \E r \in Requests : CreateReceiver(r) \/ SendMessage(r) \/ ReceiveMessage(r)

Next == Owner \/ _onListenerThread \/ Peers

Spec == Init /\ [][Next]_vars

(***************************************************************************)
(* Fairness: both threads run, and a call that was made returns; select    *)
(* does not report a timeout for ever while there is input.  The owner     *)
(* need not call anything.                                                 *)
(***************************************************************************)
Fairness ==
  /\ WF_vars(_onListenerThread)
  /\ SF_vars(Selected)
  /\ WF_vars(Started \/ StopTest \/ StopClose \/ StopZero \/ Join)

FairSpec == Spec /\ Fairness

-----------------------------------------------------------------------------
(***************************************************************************)
(* Properties.                                                             *)
(***************************************************************************)
AppPlaces == {"idle", "started", "stopTest", "stopClose", "stopZero", "join", "kill",
              "gone"}
ThreadPlaces == {"none", "done", "outer", "create", "unlink", "unlinkClose",
                 "unlinkZero", "bind", "inner", "select", "selecting", "isSet",
                 "selectClose", "selectInvalid", "recv", "deliver"}

\* Every variable holds a value of its type, and only a datagram that was received is
\* handed to OnPipeReceiveMessage.
TypeOK ==
  /\ running \in BOOLEAN
  /\ listenSock \in Fds \cup {Invalid}
  /\ app \in AppPlaces
  /\ thr \in ThreadPlaces
  /\ sel \in Fds \cup {Invalid}
  /\ msg \in Requests \cup {None}
  /\ open \subseteq Fds
  /\ queue \in [Fds -> Seq(Requests \cup {None})]
  /\ path \in Fds \cup {None, Invalid}
  /\ req \in [Requests -> {"new", "made", "sent", "over"}]
  /\ answers \subseteq Requests
  /\ spare \in 0..MaxFaults
  /\ thr = "deliver" => msg # None

\* The listener thread never puts -1 into the set it gives to select: FD_SET of a
\* negative number is undefined.  The break after an error of select and the
\* "continue" after a failed socket() see to that.
FdSetValid == thr = "inner" => listenSock # Invalid

\* While the pipe is running, the socket the thread waits on is the one the path
\* names: what other processes send arrives where it is read.
ServesPath ==
  running /\ thr \in {"select", "selecting", "isSet", "recv"} =>
    path = listenSock /\ sel = listenSock

\* As long as no call has failed and no datagram was empty, m_listenSock names every
\* socket the pipe has open: none is lost by Listen, StopListen and Listen again.
\* (The destructor leaves the one that is named open.)
NoLostSocket == spare = MaxFaults => open \subseteq {Zero, listenSock}

\* StopListen and the destructor return: the thread they join comes to its end
\* wherever it was, also in select() on a socket that was closed under it.
StopEnds == app \in {"stopTest", "join", "kill"} ~> app \in {"idle", "gone"}

\* What lies in the socket that the running pipe serves is handed over, unless the pipe is
\* stopped or an empty datagram lies before it: that makes the thread leave its loop for a new
\* socket (clsPipe.cpp:203-206), and what is left in the old one is never read.
Serving == running /\ thr \in {"inner", "select", "selecting", "isSet", "recv", "deliver"}
Reachable(r, f) ==
  \E i \in DOMAIN queue[f] : queue[f][i] = r /\ \A j \in 1 .. i - 1 : queue[f][j] # None

MessageRead ==
  \A r \in Requests :
    Serving /\ path \in Fds /\ path = listenSock /\ Reachable(r, path)
      ~> ~running \/ (thr = "deliver" /\ msg = r)

\* A pipe that runs and has its thread comes to serve its path, whatever lies under
\* the path from an earlier run and although calls fail now and then.
ListenServes ==
  running /\ thr \notin {"none", "done"} ~>
    ~running \/ (thr = "selecting" /\ path = listenSock /\ path \in open)

\* A pipe that has been stopped can be started again (the message of Listen says
\* "Please stop it before restarting"): m_listenSock is 0 again.
Restartable == app = "idle" /\ ~running => listenSock = Zero
=============================================================================
