----------------------------- MODULE EpollKernel -----------------------------
(***************************************************************************)
(* What the reactor of src/Network/TCPServer uses of the kernel: the table *)
(* of file descriptors, which hands a freed number out again, and one      *)
(* epoll instance with one-shot registrations.  Everything here is         *)
(* external to the repository and is modelled from the calls the code      *)
(* makes: socket, accept, recv, close, setsockopt(TCP_SYNCNT), epoll_ctl   *)
(* and epoll_wait.                                                         *)
(***************************************************************************)
EXTENDS FiniteSets, Naturals

CONSTANTS
  Fds,        \* descriptor numbers the kernel may hand out
  Zero,       \* the 0 a clsTCPSocket or clsTCPListener starts with
  Invalid,    \* ISINVALID, the -1 CloseFinal leaves behind
  Sockets,    \* clsTCPSocket objects (memory slots: a deleted one is reused)
  Listeners,  \* clsTCPListener objects
  None        \* no object, no thread

ASSUME KernelAssumption ==
  /\ {Zero, Invalid} \cap Fds = {}
  /\ Zero # Invalid
  /\ None \notin Sockets \cup Listeners
  /\ Sockets \cap Listeners = {}

VARIABLES
  \* the descriptor table, for each number:
  use,    \* what it is bound to
  mark,   \* TCP_SYNCNT, which the library uses as a flag: "default" is the value
          \* of a new socket (6), "taken" is TIMEOUT_7Sec (2), the mark Accept()
          \* leaves, "other" is what ConnectToHost asks for
  wire,   \* what has arrived and was not read: "quiet" nothing, "data", "eof",
          \* "reset"; "syn" while connecting; on a listening socket "data" is a
          \* connection to accept
  full,   \* the send buffer has no room
  block,  \* O_NONBLOCK is not set
  \* the registration of the number in the epoll instance:
  ptr,    \* data.ptr, None when the number is not registered
  mask,   \* the events asked for
  armed   \* no event was delivered since the last EPOLL_CTL_ADD or MOD

fdt == <<use, mark, wire, full, block>>
reg == <<ptr, mask, armed>>
kernel == <<fdt, reg>>

FdtTypeOK ==
  /\ use \in [Fds -> {"free", "listen", "conn"}]
  /\ mark \in [Fds -> {"default", "taken", "other"}]
  /\ wire \in [Fds -> {"quiet", "data", "eof", "reset", "syn"}]
  /\ full \in [Fds -> BOOLEAN]
  /\ block \in [Fds -> BOOLEAN]
RegTypeOK ==
  /\ ptr \in [Fds -> Sockets \cup Listeners \cup {None}]
  /\ mask \in [Fds -> SUBSET {"in", "out"}]
  /\ armed \in [Fds -> BOOLEAN]
KernelTypeOK == FdtTypeOK /\ RegTypeOK

KernelInit ==
  /\ use = [f \in Fds |-> "free"]
  /\ mark = [f \in Fds |-> "default"]
  /\ wire = [f \in Fds |-> "quiet"]
  /\ full = [f \in Fds |-> FALSE]
  /\ block = [f \in Fds |-> FALSE]
  /\ ptr = [f \in Fds |-> None]
  /\ mask = [f \in Fds |-> {}]
  /\ armed = [f \in Fds |-> FALSE]

IsOpen(f) == f \in Fds /\ use[f] # "free"
FreeFds == {f \in Fds : use[f] = "free"}
Registered(f) == f \in Fds /\ ptr[f] # None

\* f is bound to something else, but for what has arrived on it.
Bind(f, u, m, b) ==
  /\ use' = [use EXCEPT ![f] = u]
  /\ mark' = [mark EXCEPT ![f] = m]
  /\ full' = [full EXCEPT ![f] = FALSE]
  /\ block' = [block EXCEPT ![f] = b]

\* socket().
NewFd(f, u, m) == Bind(f, u, m, FALSE) /\ wire' = [wire EXCEPT ![f] = "quiet"]

\* accept() takes the connection that waits on l and gives it the number f.
SysAccept(l, f) ==
  Bind(f, "conn", "default", TRUE) /\ wire' = [wire EXCEPT ![l] = "quiet", ![f] = "quiet"]

SetMark(f, v) ==
  /\ mark' = IF IsOpen(f) THEN [mark EXCEPT ![f] = v] ELSE mark
  /\ UNCHANGED <<use, wire, full, block>>
SetWire(f, v) ==
  /\ wire' = IF IsOpen(f) THEN [wire EXCEPT ![f] = v] ELSE wire
  /\ UNCHANGED <<use, mark, full, block>>
SetFull(f, v) == full' = [full EXCEPT ![f] = v] /\ UNCHANGED <<use, mark, wire, block>>
SetNonBlocking(f) ==
  block' = [block EXCEPT ![f] = FALSE] /\ UNCHANGED <<use, mark, wire, full>>

Arm(f, p, m) ==
  /\ ptr' = [ptr EXCEPT ![f] = p]
  /\ mask' = [mask EXCEPT ![f] = m]
  /\ armed' = [armed EXCEPT ![f] = TRUE]
Unregister(f) ==
  /\ ptr' = [ptr EXCEPT ![f] = None]
  /\ mask' = [mask EXCEPT ![f] = {}]
  /\ armed' = [armed EXCEPT ![f] = FALSE]

\* close(): the number becomes free and leaves the epoll set; on a number that is
\* not open it fails (EBADF) and changes nothing.
SysClose(f) ==
  \/ IsOpen(f) /\ NewFd(f, "free", "default") /\ Unregister(f)
  \/ ~IsOpen(f) /\ UNCHANGED kernel

\* epoll_ctl ADD, MOD and DEL.
CanAdd(f) == IsOpen(f) /\ ~Registered(f)
EpollAdd(f, p, m) == CanAdd(f) /\ Arm(f, p, m)
EpollMod(f, p, m) ==
  \/ Registered(f) /\ Arm(f, p, m)
  \/ ~Registered(f) /\ UNCHANGED reg
EpollDel(f) == Registered(f) /\ Unregister(f)

(***************************************************************************)
(* The events epoll_wait returns for f: EPOLLERR and EPOLLHUP whatever the *)
(* mask says, EPOLLIN and EPOLLOUT when asked for.  EPOLLET does not show: *)
(* a one-shot registration is delivered once and re-arming it tests the    *)
(* readiness again.                                                        *)
(***************************************************************************)
Readable(f) == wire[f] \in {"data", "eof", "reset"}
Writable(f) == /\ use[f] = "conn"
               /\ wire[f] # "syn"
               /\ wire[f] = "reset" \/ ~full[f]

Pending(f) ==
  {e \in {"in"} \cap mask[f] : Readable(f)} \cup
  {e \in {"out"} \cap mask[f] : Writable(f)} \cup
  {e \in {"err"} : wire[f] = "reset"}

Deliverable(f) == armed[f] /\ Pending(f) # {}
\* Mutant: the registration is made without EPOLLONESHOT.
Disarm_Level(f) == f \in Fds /\ UNCHANGED reg
Disarm(f) == armed' = [armed EXCEPT ![f] = FALSE] /\ UNCHANGED <<ptr, mask>>

(***************************************************************************)
(* The remote side and the network.                                        *)
(***************************************************************************)
Arrives(f, kind, from, what) ==
  /\ use[f] = kind
  /\ wire[f] \in from
  /\ SetWire(f, what)
  /\ UNCHANGED reg

PeerConnect(f) == Arrives(f, "listen", {"quiet"}, "data")
PeerSend(f)    == Arrives(f, "conn", {"quiet"}, "data")
PeerEof(f)     == Arrives(f, "conn", {"quiet"}, "eof")
PeerReset(f)   == Arrives(f, "conn", {"quiet", "data", "syn"}, "reset")
PeerAnswer(f)  == Arrives(f, "conn", {"syn"}, "quiet")
PeerReads(f)   == full[f] /\ SetFull(f, FALSE) /\ UNCHANGED reg
=============================================================================
