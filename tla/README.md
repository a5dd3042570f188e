# libWrench: models, checks and proofs

libWrench is a C++ toolkit for Linux: a TCP reactor on epoll, UDP and
Unix-socket messaging, a DNS client, threads and timers, strings, and wrappers
of hash, Base64, JSON and INI code that it carries in its tree. This directory
holds TLA+ modules translated from its source, TLC configurations that check
them on small instances, and theorems that TLAPS has checked for every value of
the constants.

1. [The system](#1-the-system)
2. [The modules](#2-the-modules)
3. [The runs](#3-the-runs)
4. [Fairness](#4-fairness)
5. [The proofs](#5-the-proofs)
6. [Where code and comments disagree](#6-where-code-and-comments-disagree)
7. [What the code does not promise](#7-what-the-code-does-not-promise)
8. [Not modelled](#8-not-modelled)

To repeat the work: `tlc -config server.cfg MCTCPServer.tla` (the same for
`single`, `listeners`, `outbound`, `live`, `deny`, `delete`, `reuse`),
`tlc -config restart.cfg Pipe.tla`, `tlc -config runtime.cfg MCRuntime.tla`,
`tlc -config data.cfg MCData.tla`, `tlc -config tree.cfg MCTree.tla`, and
`tlapm` on each of
`TCPServer_proofs.tla`, `TCPServerFds_proofs.tla`, `TCPServerWake_proofs.tla`,
`TCPServerLife_proofs.tla`, `Runtime_proofs.tla`, `CString_proofs.tla`,
`HashStream_proofs.tla`, `Inputs_proofs.tla`.

## 1. The system

Paths are relative to `src/src/`.

### TCP reactor: `Network/TCPServer`

| part | state it keeps | operations |
|---|---|---|
| `clsEpollManager` | the epoll descriptor, one mutex, a counter that is only printed | `AddWorker`, the worker loop `_OnWaitForNewEvenet`, `_ParseEvents`, `AddSocket`, `ModifySocket`, `RemoveSocket` |
| `clsTCPSocket` | `m_socket`, `Status`, `m_Event`, the file being sent and its offset | `Accept`, `ConnectToHost`, `Send`, `SendFile`, `Close`, `isReadyForDelete`; called by the workers: `onConnected`, `onReceiving`, `ResumeSendFile`; virtual: `OnAccepted`, `OnConnected`, `OnReceiveData`, `OnSendFileComplete`, `OnSendFileStatus`, `OnClosed` |
| `clsTCPListener` | `m_Socket`, its event, the accept callback | `StartListen`, `StopListen`, `OnAccepting` |
| `clsTCPServer` | the manager and its default listener | `AddNewListener`, `Start`, `AddThreadPool`, `isReadyForAccept` |
| `clsIDType` | a type tag | tells the worker what `data.ptr` points to |

Any number of worker threads call `epoll_wait` on one epoll instance. Every
registration is one-shot (`EPOLLONESHOT`, `SocketHeader.h`): after an event the
descriptor is silent until the worker that took the event calls `ModifySocket`.
`data.ptr` of the event is the C++ object, and the worker calls the object's
handlers, which call the application's callbacks, which call the library again
(`Send`, `SendFile`, `Close`). Listeners are served in the same loop, but under
the manager's mutex, the same one `RemoveSocket` takes. Threads of the
application call `ConnectToHost`, `Send` and `Close` directly, without a lock.

What is hard: nothing in a `clsTCPSocket` is protected by a lock. The design
relies on one-shot delivery for mutual exclusion, on `Status` as a guard, on
descriptor numbers as identities (although the kernel hands a closed number out
at once) and on a socket option, `TCP_SYNCNT`, as the mark that says "somebody
accepted this connection".

What makes it correct: one thread at a time in a connection; an event reaches
the object that owns the descriptor; a live connection's descriptor is closed by
nobody else; every descriptor is closed in the end; no connection is left
without a registration that will wake it; `OnClosed` comes once, for every
connection, and nothing uses the object afterwards.

### What runs beside it

| part | state and operations | hard behaviour, and what makes it correct |
|---|---|---|
| `Network/UDPServer` | a listening socket in the same worker loop; `StartListen`, `OnReceiveData`, `StopListen` | one-shot registration must give each datagram to one worker and be renewed; deletion under the workers |
| `Network/UDPClient` | one request and its answer, with or without a timeout, on a socket of its own | an answer that comes late, twice or never must not become the answer to another request |
| `Network/pipe` | `m_listenSock`, `m_bRunning`, the listener thread; `Listen`, `StopListen`, `SendMessage`, `CreateReceiver`, `ReceiveMessage` | two threads write `m_listenSock`; every socket must be closed, and after `StopListen` a new `Listen` must work |
| `Network/DNSLookup` | none between calls; one exchange like the UDP client's | encoding of names, compression pointers, records of any length before the one that is wanted |
| `clsThread`, `clsThreadTimer` | the thread object deletes itself; `m_pthread` is shared without a lock | start, stop, expiry and self-deletion in any order |
| `clsAppController` | `shutdownRequested`, an eventfd | `wait` must return when a signal arrives |

### The data classes

| part | state and operations | hard behaviour, and what makes it correct |
|---|---|---|
| `clsCString` | the block `Buffer` points to, `m_Lengh`, `m_ReserveSize`; growing, assigning, reserving, reading files, searching | three lengths kept in step by hand through any sequence of calls; the text must be the one asked for |
| `Cryptography` | contexts of MD5, SHA-1, SHA-256, SHA-512; Base64, hexadecimal text, a mask whose key changes | chunks that end anywhere in a block; padding and counters at their boundaries; buffers exactly as large as the length functions say |
| `cJSON` | trees of linked items, a print buffer, a parser over a text of given length | lists linked both ways, failing allocations in the middle of a call, the buffer's last byte, texts cut anywhere |
| `iniSettings` | sections, keys and values that point into the loaded text | the text is cut and moved in place while it is read; repeated keys, comments, values over several lines |
| `ConvertUTF` | none | targets that fill up in the middle of a character; pairs of surrogates |

`Files`, `LinuxService` and `log` keep no state. `PROJECT.json` lists every
component with its status, and under "hazards" what is hard to test in this code,
with the properties that cover it.

## 2. The modules

```
EpollKernel  <-  TCPSocket  <-  EpollManager  <-  TCPServer  <-  MCTCPServer
                                                      ^
              TCPServerFds_proofs  ------------->  TCPServer_proofs
                      ^
TCPServerWake_proofs  <-  TCPServerLife_proofs

Connections  <=  TCPServer                             (refinement)

Pipe, ThreadTimer, AppController, Udp              <-  MCRuntime
Runtime_proofs                                         extends Pipe, ThreadTimer, Udp

TextValue  <=  CString                                 (refinement)
CStringText, Codec, Utf  <-  Inputs
CString, HashStream, Inputs                        <-  MCData
Dns, Ini, JsonText                                 <-  MCData (INSTANCE)
JsonTree                                           <-  MCTree
CString_proofs, HashStream_proofs, Inputs_proofs       one for each
```

An arrow points to the module that is EXTENDed. Modules on one line with commas
share nothing with each other.

**EpollKernel** is the environment: the descriptor table and one epoll instance,
modelled from the calls the code makes. For each number, `use`, `mark`
(`TCP_SYNCNT`), `wire` (what has arrived and was not read), `full` (the send
buffer) and `block` (no `O_NONBLOCK` yet); `ptr`, `mask` and `armed` are its
registration. `close` frees the number and drops the registration, `socket` and
`accept` return any free number, `EPOLLERR` is delivered whatever the mask says.
The peers and the network are the `Peer...` actions.

**TCPSocket** is `clsTCPSocket`. `status`, `sock`, `events`, `sending` and
`alive` are the fields of the object. A thread `t` is at `pc[t]`, works on
`cur[t]`, holds a number in `fd[t]` and the result of a system call in `got[t]`,
and will return to `ret[t]`. Every method is cut where another thread can run in
between and see a difference: `Close` at its reads of `Status`, `CloseFinal` at
its three writes (`CloseFd`, `SetClosed`, `DropFd`), `onReceiving` before and
after `recv`, `Accept` around `OnAccepted` and `AddSocket`. What an application
does in a callback is the action `Callback`: nothing, or one call of `Close`,
`Send` or `SendFile` (the callback runs again when that call returns to it
through `OnSendFileComplete`).

**EpollManager** is `clsEpollManager` and `clsTCPListener`: taking an event
(`EpollWait`), dispatching it (`_ParseEvents`), re-arming (`RearmGet` reads
`m_socket`, `ModifySocket` uses the number), the "Close Event" test
(`CloseEvent`), `RemoveSocket` under the mutex, and `OnAccepting` under the same
mutex with its deny check (`DenyCheck`).

**TCPServer** puts them together: the initial state, the next-state relation,
fairness, and all the properties of the server.

**Connections** is what `clsTCPSocket` promises, in three variables: `phase`
(where a connection is in its life), `number` (the descriptor it has) and `hand`
(the thread that works on it). A connection is made without a number and opened
with a fresh one, or accepted with a fresh one; it is established, closed, and
shut, each step by the thread that has it, and that thread may put it down only
when it is connecting, connected or closed. There is no kernel, no epoll set, no
mutex, no event mask and no handler. `TCPServer` instantiates it: `Phase` is
`"none"` before the constructor, `"new"` as long as `m_socket` is 0, `"Closed"`
from `close()` on (`CloseFinal` says so in `Status` and in `m_socket` only in its
next two steps) and `Status` otherwise; `Number` is `m_socket` where the phase has
a number; `Hand` is the thread inside a method of the object. The property
`ConnectionsKept` says that every behaviour of the server is one of
`Connections`. A connection that `Accept()` refuses is shut without having been
established.

**Pipe** is `clsPipe` with the processes around it. `running`, `listenSock` and
`thr` (`"none"`: not joinable) are the fields of the object; `app` is the place
of its owner, `sel` the number in `readfds`, `msg` the buffer. `open`, `queue`
and `path` are the descriptors, what their sockets have received, and which
socket the file name leads to. The two threads share `m_listenSock`, a plain
`int`, without a lock, so each read and write of it is an action of its own:
`StopTest`, `StopClose`, `StopZero` in `StopListen`; in the thread `Create`,
`Bind`, `Inner` (`FD_SET`), `Select` (the first argument of `select`), `IsSet`,
`Recv`, and the two error paths that close it (`UnlinkClose` and `UnlinkZero`,
`SelectClose` and `SelectInvalid`). A read that feeds the system call after it
is one step with it. A request is one round of `SendReceive` in `main.cpp` with
a name of its own: `CreateReceiver`, `SendMessage` to the path, `ReceiveMessage`
until the answer or the timeout. `Deliver` is the default `OnPipeReceiveMessage`,
which answers. `SendEmpty` is a process that sends an empty datagram, for which
the thread leaves its inner loop. `Faults` and `MaxFaults` say which calls of the
thread fail, whether such a datagram comes, and how often; a full descriptor
table, an occupied path and closed numbers make calls fail without that.

**Udp** is both ends of an exchange and the network between them. The server's
side is `listener`, its registration `armed`, and for each worker the place in
the loop and the datagram in its buffer; `arrived`, `read` and `passed` say what
came to the socket, how much of it was read and what the callbacks were given.
The client's side is the place of each caller in `SendReceive` (or in the
`SendPacket` of a lookup, which goes on when the timeout cannot be set), its
socket, and the results its calls have returned. A datagram is the number of a
call and the port its answer goes to; the network loses, doubles and reorders. A
socket gets any port that no open socket has, so also one to which an answer is
still on its way; `fresh` remembers that this was not so when the call got it.
`timed` says whether `SO_RCVTIMEO` was set to more than 0.

**ThreadTimer** is `clsThreadTimer` on `clsThread`: the owner's calls, cut at
every access to `m_pthread`, against the timer thread. `object[t]` says whether
the `clsThread` still exists; an action that needs it is enabled only while it
is live, and `TimerOwned` says that it always is. A new thread needs its object
too, until it has read its callback from it (`"start"`, `clsThread.cpp:69`). The
owner may call at any moment. `hurried` records that owner and thread have got
hold of the same object in one of three ways: `StopTimer` deletes the object of a
thread that is not in `sleep()` (`DeletesAwake`), a thread wakes before
`StartTimer` has stored `m_pthread` (`WakesUnnamed`), a single shot ends between
the test and the call of `Kill` in `StopTimer` (`EndsUnderStop`). The model goes
on behind each of them, and section 7 says what the code then does.

**AppController** is `wait()` in the main thread. A handler interrupts it between
any two of its steps; the main thread goes on when no handler runs. Two signals
may nest.

**CString** is the memory of a string object, byte by byte: `mem`, the size of
its block `alloc`, `reserve` (`m_ReserveSize`) and `len` (`m_Lengh`). `wild`
records an access outside the block, which the formulas of the code decide.
Every public method that changes an object is an action, and may be called on any
object at any time. Six uses leave length, reserve and block in disagreement, or
rely on an end mark that need not be there; the model makes them and records their
object in `odd`, and whatever is made of it, until it is cleared or given a new
text (section 7 lists them).
**TextValue** is what the class promises: objects that hold a sequence of
characters. `CString` instantiates it under the mapping `text`, and the property
`StringValue` says that every behaviour of the first is one of the second:
growing, reserving and resetting are not seen, one of the six uses makes the text
unknown (`Lose`), all else is an operation on the text.

**CStringText** has the static searches: `FindPostion`, `ReplaceText`,
`SplitString`, `replaceAll`, `trim`, comparisons; **Codec** Base64, hexadecimal
text and the mask; **Dns** the request and the parser of the answer, which walks
a name through every pointer in it, out of the packet or in a circle if the answer
says so (`Leads`); **Utf** the six conversions of `ConvertUTF.c`. Each is a set of functions on sequences in the
form of the code (its offsets, its loops as recursive functions, its buffers)
followed by what a user relies on, stated without reference to the loops.
**Inputs** lets an input of any part grow symbol by symbol and states `TextSearch`
and `EncodingsAgree` over whatever has been put in.

**HashStream** feeds a message chunk by chunk to the four hash functions. The
compression of a block is not modelled: a context keeps the blocks it compressed,
and a byte of the message is its position in it. What the property compares is
the list of blocks with the padding rule of the standards. `Block`, `Word`,
`LongBlock` and `LongWord` are constants; the run makes them small so that the
32-bit counters overflow into their second word.

**JsonText** is the printer and the parser of `cJSON.c`. The print buffer has a
size, an offset, a number of reallocations that will still succeed, and a mark
for a write outside of it; the parser takes an offset in a buffer of given length
and marks reads outside. **JsonTree** is the tree behind them: blocks of memory
with `next`, `prev` and `child`, the strings that are allocated, and a number of
allocations after which one fails in the middle of a call. `held` is what the
application has to free. `app` is the application of the behaviour: the keys it
gives, the items it keeps at most, and whether it makes references.
**MCTree** gives the applications and a view that numbers the items anew: blocks
are interchangeable, no action or property compares their numbers except for
identity, so states that differ in the numbers only have the same future.

**Ini** is `SimpleIni.h`. `LoadData` really cuts the text in place: places are
positions in the text, terminators and moved lines are written into it, and a
section, key, value or comment is read where it ended up, which is what makes the
two ways of loading (pointing into the text, or copying at once) different
programs. Lookups during the loading compare names earlier than that; `NamesStay`,
a part of `IniKeeps`, says that the names do not change in between.

Two constants describe the environment of an instance. `Usage` says what the
application does, `Faults` which system calls may fail:

| `Usage` | the application |
|---|---|
| `close` | may `Close()` in `OnReceiveData`, `OnConnected`, `OnSendFileComplete` |
| `acceptClose` | may `Close()` in `OnAccepted` and in the accept callback |
| `useAfterAccept` | uses the object in the accept callback after `Accept()` returned, as the commented-out sample in `main.cpp` does |
| `send`, `sendfile` | may call `Send()`, `SendFile()` in a callback |
| `ssl` | calls `Accept(fd, true)`, which the build without `USE_SSL` refuses |
| `deleteOnClosed` | does `delete this` in `OnClosed` |
| `appClose` | closes a connection from a thread that is not handling it |
| `connect`, `reconnect` | makes outgoing connections; uses a closed object again for the next one |
| `lateListen` | adds a listener after the first worker was started |

`Faults`: `socket`, `resolve`, `connect`, `add` (`EPOLL_CTL_ADD`), `file` (the
file of `SendFile` cannot be opened), `bind`. Independently of `Faults`, peers
may reset a connection at any moment and descriptors may run out.

### How data is abstracted

Payloads are not modelled: `wire` says only whether there is something to read,
an end of stream or a reset. `Send` is one step that may fill the buffer;
`SendFile` ends, or meets a full buffer, or meets a broken connection.
`OnSendFileStatus` has the place of any other callback and is left out, as are
the byte counts, the descriptors of files, the debugging output and the socket
options nothing else reads. A load that is followed at once by the system call
it feeds is one step, except in `ModifySocket`, where the number is read long
enough before for the connection to be closed in between. `SO_ERROR` stays
readable until the connection is closed, where Linux clears it when it is read;
every reader closes the connection, so the difference is not seen.

Elsewhere: characters and bytes are small numbers or one-letter strings from the
alphabet of the instance; a file that `ReadFile` reads is one of the texts an
application appends; numbers in JSON are whole; a datagram is the call it belongs
to. Allocation always succeeds in `CString`, whose code does not look, and may
fail anywhere in `JsonTree` and `JsonText`, whose code does.

## 3. The runs

Safety runs of the server use the symmetry of workers, connections, listeners
and descriptors; no property or initial state tells them apart. Runs with
liveness use none. `CHECK_DEADLOCK FALSE` is given because these systems may
stop: a server without traffic, an application that calls nothing, an input that
is complete.

| run | instance | what it shows |
|---|---|---|
| `server` | 2 workers, 2 objects, 1 listener, 3 numbers; `close`, `sendfile`; `add`, `file` fail | `OneHandler`, `RoutedToOwner`, `ArmedWhenIdle`, `NoFdLeak`, `ClosingEnds`, `TypeOK` when callbacks use only their own connection |
| `single` | 1 worker, 2 objects, 3 numbers; everything the sample in `main.cpp` does in callbacks, and `delete this` | `NoUseAfterDelete`, `OnClosedOnce` |
| `listeners` | 2 workers, 2 objects, 2 listeners, 4 numbers; `bind` fails | `CloseOnlyOwn` (the mutex makes the deny check safe against other accepts), `ClosedReported`, `ConnectionsKept` |
| `outbound` | 2 workers, 1 application thread, 2 objects, 3 numbers; `socket`, `resolve`, `connect`, `add` fail | `ArmedWhenIdle`, `RecvHasInput` for outgoing connections; `OwnFd` while one worker closes a number, the thread is given it and the other worker holds an event |
| `live` | 1 worker, 1 application thread that may close the connection at any moment, 1 object, 2 numbers, fair scheduling, peers that read | `DataRead`, `DeadPeerClosed`, `SendFileEnds`, `MutexReturned` |
| `runtime` | pipe: an owner that listens, stops and destroys in any order, 1 request, 2 numbers besides 0, queues of two datagrams, one failing `socket`, `unlink` or `bind` or one empty datagram; timer: 2 thread objects; controller: 3 signals; UDP: 2 workers, 1 client with 2 calls, 2 ports, 1 fault | pipe: `FdSetValid`, `ServesPath`, `NoLostSocket`, `StopEnds`, `MessageRead`, `ListenServes`, `TypeOK`; timer: `TimerOwned`, `TimerFires`; controller: `SignalEndsWait`; UDP: `UdpExchange`, `UdpServed` |
| `data` | 2 strings in blocks of at most 3 bytes; hashes: messages up to 70 bytes in chunks of 1, 3, 8, 14; every input up to the length `MCLongest` over `MCAlphabet` | `StringFits`, `StringValue`; `TextSearch`; `HashFeedsMessage`; `EncodingsAgree`; `LookupFindsAddress`; `JsonTexts`; `IniKeeps` |
| `tree` | one of four applications: with keys and references up to three items, with keys up to four, with references up to four, lists alone up to six; memory for 0, 1, 2 or 8 allocations of a call | `TreeSound`, `ListOperations` |
| `deny`, `delete`, `reuse`, `restart` | see section 6 | a violation each |

In `runtime` and `data` a behaviour chooses one part and stays with it, in `tree` one application: the state
space is the sum of the parts, not their product. An input of the functional
parts grows by one symbol a step; the expensive comparisons (`JsonTexts`,
`IniKeeps`) are made on the step that hands the finished input over, so each
input is looked at once.

### Why the bounds are enough

Of the server: the hazards are about two parties and one descriptor number. Two
workers are enough for one to act on what the other has changed; two objects and
one number fewer than the objects could use let a number go from one connection
to the next while a thread still holds it (in `server` and `single` the listener
has one of the three numbers, so accepts also meet an empty table). Objects are memory slots: with
`deleteOnClosed` a deleted object is constructed again, so a run covers
connection after connection; without it each object has one life and every
interleaving of two such lives. `closed` counts to 2, which is enough to tell
once from more than once. Everything else is finite without a bound.

Of the pipe: the owner listens and stops without end, so that a run begins with
whatever an earlier one left: a path, an open socket, a number in `m_listenSock`.
One failing call or empty datagram (`MaxFaults`) is enough to lose a socket and to
leave the next `Listen` a table with something in it; two numbers let one socket be
lost and the other still serve, so that the properties are not true for want of
numbers. A queue of two datagrams (`QueueMax`) lets a request stand behind an empty
one, and a sender wait.

Of the timer: two thread objects are one that ends and one that begins, and a
third start meets none left, like a failed `pthread_create`. Of the controller:
three signals are one in each window of `wait()`, or one that interrupts another
and one more. Of UDP: the hazards are a second worker and a second call of the
same client, whose port may be that of the first or another; one fault is a system
call that fails or a datagram that comes twice.

Of the data classes: in blocks of three bytes a text of two characters has an end
mark behind it and a text of one can be appended to; a string grows, is copied,
emptied and grows again inside the bound, and each of the six uses of `CString` but
one leads out of a block or loses a text there when it is not recorded (the
exception, growing a string without text, takes five bytes). The theorems of
section 5 hold for any bound. The hash instance has blocks of 8 bytes and 64 values
of a counter word, so a message of 70 bytes passes through every residue of the
block, the one- and two-block padding, and the carry between the words of the
counter (SHA-512: 4 words of 2 bytes). Answers of a DNS server have up to three
records, each with its name in full, compressed in one of three ways, leading to
itself or out of the packet, and a length that may be wrong. Searches see texts of 4
characters and matches of 2, enough for a match that begins inside a failed attempt.
Base64 and the converters see four units, one group of each and the beginning of the
next. INI texts are up to four pieces of a line, calls up to three; the JSON limits
are constants that the instance makes small enough to be reached (`INT_MAX` is 20;
every text is parsed with a nesting limit of 1 and of 2, and the two must differ
exactly where the depth does).

Of the trees: a call that would leave the application with more items than its
bound is not made, but it may use twice as many on its way. With six items a list
of four and an item held beside it, or two lists of two, occur: insert, replace,
detach and append have a first place, a last one and several in between. With four
items references and keys meet lists of two, and with three they meet each other.
An allocation that fails is the first, the second or the third of its call, so a
copy of a list fails at the list, at its first or at its second kid; with eight
none fails.

## 4. Fairness

For the server, `FairSpec` adds to `Spec`:

- weak fairness of starting a worker and of every step inside a method or
  handler: the scheduler runs every thread; an application thread need not begin a
  call;
- strong fairness of taking the mutex: a pthread mutex is not withheld for ever
  from a thread while it is given to others again and again;
- strong fairness of the return of a callback: an application's callback ends;
- strong fairness of the end of a file: `sendfile64` makes progress whenever the
  buffer has room again and again, and a file is finite;
- strong fairness of each descriptor: epoll keeps ready descriptors in a queue
  and rotates it, so a ready one is not passed over for ever.

`FairSpecReading` adds that a peer reads what fills its buffer, which only
`SendFileEnds` and, through the blocking send in `OnAccepted`, the liveness of
the single worker need. No fairness is assumed of what a peer sends, closes or
resets.

The parts of `MCRuntime` take turns in no behaviour, so `FairRunSpec` states the
fairness of each part under a common number (`Fair(i)`):

- pipe: weak fairness of the listener thread (its `select` has a timeout of ten
  seconds, so every step comes to an end; a `recvfrom` that has nothing to read is
  not enabled and nothing is assumed of it), strong fairness of `select` reporting
  input that stays there, and weak fairness of the owner inside a call. The owner
  need not make any call, and requests need not be made;
- timer: weak fairness of each timer thread (every sleep ends) and of the owner
  inside a call;
- controller: weak fairness of `wait` and of a running handler. Signals need not
  come;
- UDP: weak fairness of each worker and of a client inside a call. The network
  need not deliver anything and the application need not call. `UdpServed` says
  that a call with a timeout returns; one without waits for its answer, and for
  ever when that is lost.

## 5. The proofs

Eight modules hold proofs. Each states an inductive invariant of named parts and
proves that the initial states have it, that every action keeps it (a step for
each) and that it implies the property. The invariants were checked with TLC on
the instances of the runs before they were proved.

### The server

Four modules build on each other; every safety property of the server that a run
checks is a theorem, each for any number of workers (`TCPServerLife_proofs`: one),
application threads, connections, listeners and descriptors. The hypotheses are
about what the application does (`Usage`, and whether there are listeners and
outgoing connections or several workers) and which calls fail (`Faults`); for each
of them TLC finds a counterexample without it:

| hypothesis | says | without it |
|---|---|---|
| `HandlersOnly` | no `appClose`, `reconnect`, `useAfterAccept`, `deleteOnClosed`: a connection is touched only from its handlers | `OneHandler` fails |
| `NoTrespass` | no `appClose`, `reconnect`, `lateListen`, and no outgoing connections in a server that has listeners | a number is closed under its new owner (runs `deny`, `reuse`) |
| `Orderly` | outgoing connections, or failures of `EPOLL_CTL_ADD`, not both | a connection stays `Closing` (section 7) |
| `ClosedByHandlers` | no close on the accept path or by the thread that connects | such a close is not reported: the loop calls `OnClosed` only behind an event |
| `OneWorker` | at most one worker | run `delete` |

| theorem | property | hypotheses |
|---|---|---|
| `TypeCorrect` | `TypeOK` | |
| `OneHandlerAtATime` | `OneHandler` | `HandlersOnly` |
| `EventsFindOwner`, `LiveOwnsNumber`, `NoNumberLost`, `NobodyElseCloses` | `RoutedToOwner`, `OwnFd`, `NoFdLeak`, `CloseOnlyOwn` | `HandlersOnly`, `NoTrespass` |
| `NoWakeUpLost`, `RecvFindsInput` | `ArmedWhenIdle`, `RecvHasInput` | `HandlersOnly`, `NoTrespass` |
| `ClosesComplete` | `ClosingEnds` | and `Orderly` |
| `ConnectionsAreKept` | `ConnectionsKept` | and `Orderly` |
| `ClosesReported` | `ClosedReported` | `HandlersOnly`, `NoTrespass`, `ClosedByHandlers` |
| `DeletedUnused`, `ClosedOnce`, `OneWorkerOwns` | `NoUseAfterDelete`, `OnClosedOnce`; `RoutedToOwner`, `OwnFd`, `NoFdLeak` | `NoTrespass`, `OneWorker` |

The runs `server`, `listeners` and `outbound` satisfy `HandlersOnly` and
`NoTrespass`, `single` satisfies `NoTrespass` and `OneWorker`. The `add` fault of
`outbound` falls outside of `Orderly`, which its properties do not need.

**Types (`TCPServer_proofs`).** `TypeOK` alone is not inductive: a step reads
`sock[cur[t]]`, so a thread inside a method must have an object (`HasObject`). The
proof takes the parts of `TypeOK` (descriptor table, registrations, objects,
manager, threads) one lemma after the other, with a step for each action that
touches the part.

**One handler (`TCPServer_proofs`).** The inductive invariant `HandlerInv` adds to
`OneHandler`

- `OneArmed`: a connection is armed through at most one number. Without it the
  event a worker takes might leave a second armed registration behind, through
  which another worker enters. The number need not be the connection's own: a
  worker may re-arm with a number that was closed and given away, and the proof
  shows that even then exclusion is not lost;
- `UnbornUnknown`: an object that is not constructed is in no thread's hands and
  in no registration, so a new object has no handler yet;
- `ConnectFinishes`: `ConnectToHost` returns to the application, so adding the
  socket is the last thing the caller does with it.

The steps fall into three kinds, one lemma each: `CalmStep` (no thread gets an
object and nothing is armed), `ArmingStep` (the handler arms its connection and
is done with it) and `TakingStep` (a thread takes an object nobody has). Every
action is one of the three, or leaves the state alone as far as these properties
see.

**Who owns a descriptor (`TCPServerFds_proofs`).** The library tells connections
apart by numbers that the kernel gives away again at once, so whether `close` and
`epoll_ctl` hit the right one depends on the places of all threads. `FdInv` is

- `Flow` and `Mutex`: where a thread can be with which return place and
  `isShutdown`, and that whoever is between lock and unlock holds the mutex, on the
  whole way from `accept` to the re-arming of the listener, callbacks included;
- `Own` and `Routed`: what an object holds (`Holds`: until `CloseFinal` has called
  `close`) is an open connection and nobody else's, and a registration leads to the
  object that holds the number;
- `PathFd`: the new socket of the accept path is unclaimed, then held by the new
  object or closed again, and the mark tells which (`Unclaimed`, `Claimed`), which
  is what makes the deny check right; nobody closes the new connection before it is
  in the epoll set; the number `RearmGet` has read still is the object's in
  `ModifySocket`;
- `Leak`: an open connection has a holder, or the accept path has it.

Most actions bind and free no number, and one lemma (`KeepStep`) says what they
have to respect; for those that do, or that give a number to an object (`CloseFd`,
`ConnectSocket`, `OnAccepting`, `AcceptCallback`, `DenyCheck`, `StartListen`), the
parts are proved one by one. The steps are proved from `Fenced`, which asks for
exclusion without saying where it comes from, so that they serve with one worker
too.

**Wake-ups (`TCPServerWake_proofs`).** `Wake` divides connections in two: those in
a thread's hands (`Serving`: at this place of the code, what the events will be
when they are armed, whether a file waits, how the close under way ends) and the
others (`Resting`: open and armed for what they wait for, or closed). Two
things are proved of every step: it touches the connection in its thread's hands
only (`SocketFrame`, `ManagerFrame`), and it leaves the thread and this connection
in order, resting when the thread lets go of it (`SocketLeaves`, `ManagerLeaves`).
`InputWaits` says that what a worker was told to read is still there at `recv`,
since no other thread reads; `Reported` follows a close to the loop that calls
`OnClosed`.

**Lives of objects (`TCPServerLife_proofs`).** With `deleteOnClosed` and
`useAfterAccept` a thread goes on with an object that is in the epoll set already,
and exclusion rests on there being one worker. `LifeInv` adds to `FdInv` that a
deleted object is in no thread's hands and in no registration (`UnbornUnused`),
that a thread that connects is alone with its object until it adds it
(`Connecting`), and that the same holds of an object after `OnClosed`
(`ClosedLast`). The step that matters is `CloseEvent`: an object without a
descriptor has no registration, by `Routed`, so the worker that deletes it is the
last that could reach it.

**The server implements Connections (`TCPServerLife_proofs`).** `ConnectionsAreKept`
needs the whole invariant: `OneHandler` makes `Hand` a function (the thread it
chooses is the only one), `Own` and `PathFd` make a number fresh when a connection
gets it, `Routed` makes an event lead to a connection that is not closed, and
`Wake` says what a connection is like when a thread puts it down. Two facts had to
be added to `Wake`, both about the beginning of a life: a connection in a thread's
hands has `m_socket` 0 exactly in front of `socket()` and is `Accepting` only until
`Accept()` has made up its mind (`StartOK`), and a resting one is neither.

A step changes the mapped values of one connection at most (`ElsewhereSame`: the
others are in other threads' hands, or in nobody's, and the step does not touch
them), and its own connection in one of four ways, a lemma each: the thread goes on
with it or puts it down (`GoesOn`), takes it one step further (`Proceeds`), takes
it from the epoll set (`EpollWaitLives`), or begins its life (`ConnectToHostLives`,
`AcceptCallback` in `ManagerStepLives`). `SocketStepLives` then goes through the
actions of `clsTCPSocket`; all but `CloseMark`, `CloseFd`, `SetClosed`, `DropFd`,
`Accepting`, `onConnected` and `ConnectSocket` leave the phase and the number
alone, and of the three writes of `CloseFinal` only the first is seen, because
`FdGone` tells from the thread's place that the number is gone.

TLC checks `ConnectionsKept` on accepted connections (run `listeners`). The half
about outgoing ones is proved, and can be checked by adding the property to
`outbound.cfg`, which then takes about four minutes.

### The pipe

`Runtime_proofs` proves all safety properties of the pipe that the run `runtime` checks, from
`PipeAssumption` alone: `PipeTypeCorrect` (`TypeOK`), `NeverSelectsInvalid`
(`FdSetValid`), `WaitsOnPath` (`ServesPath`) and `SocketsNamed` (`NoLostSocket`),
for any descriptors, requests, queue bound and number of faults. The invariant
`PipeInv` behind them is checked part by part:

- `OwnerInv`: `m_bRunning` is set only while the owner is outside of the library,
  and when it is being set the thread is still in front of the outer loop or has
  ended. This is what makes the unlocked `m_listenSock` safe while the pipe runs:
  nobody but the thread moves;
- `HasSocket`: where the thread holds a socket, `m_listenSock` is not -1;
- `ServeInv`: while the pipe runs, the stored socket is open, it is the one the
  path names once it is bound, and the one in `readfds` from `FD_SET` on;
- `OneSocket`: before a failure, a socket is created only when no other is open,
  `m_listenSock` is overwritten only after the socket is closed, and `StopListen`
  cannot be between its test and its write while the thread is about to create
  one. `NoEmpty` supports it: `recvfrom` returns 0 only for an empty datagram.

### CString and its refinement

`CString_proofs` proves, from `StringAssumption` alone, for any set of objects,
characters and texts, any bound of the blocks and any sequence of calls, the six
uses of section 7 included:

- `StringTypeCorrect` and **`StaysInBlock`** (`StringFits`): only a call on a string
  that was used in one of the six ways, or made of one that was, reads or writes
  outside of its block. `StringFits` is far from inductive; the invariant
  `StringInv` says what every method relies on without saying so: a string outside
  of `odd` is either without a block (`Empty`), or its text fits the reserve and the
  reserve is smaller than the block (`Reserved`), or it took its caller's block,
  which ends with the text (`Taken`); and a text that fills its reserve has its end
  mark (`EndMarked`), without which `Replace` and `operator+` would run past it. Of
  a string in `odd` the invariant says no more than its type, so the proof also
  shows that nothing of it gets into another string unrecorded.
- **`TextsAreValues`** (`StringValue`): `CString` implements `TextValue`. The proof
  maps `StringInit` to `Value!Init` and every action to an action of `TextValue` or
  a stutter; one of the six uses to `Lose`. Its lemmas are about the only thing the
  mapping depends on: which bytes of a block spell a text (`Spells`), and that
  growing (`memset` behind the text, `realloc`) and copying leave or make them so.

### The timer

`Runtime_proofs` proves **`ThreadsOwned`** (`TimerOwned`) for any number of
threads, from `TimerAssumption` alone: whatever the owner calls and whenever, until
`hurried` is set every access to a `clsThread` is to a live one that belongs to the
timer, none is lost, and one thread at a time can call back. `TimerOwnerInv` says
where `m_pthread` may dangle (between `delete` and the assignment of `nullptr`,
nowhere else; its thread is then asleep and cancelled) and that a start under way
finds it NULL; `ThreadInv` says of every thread where it is, whether it still needs
its object, and who names it. Both hold as long as `hurried` is not set, and the
proof shows for each step that one which breaks them sets it.

### UDP

`Runtime_proofs` proves **`UdpAnswersMatch`** (`UdpExchange`) for any number of
workers, clients, ports, calls and faults. On the server's side the invariant is
`OneBusy` (the registration is not armed while a worker is busy, so no other is)
and `InOrder` (what was passed on is what was read, but for one datagram in a
worker's hands). On the clients' side `PortsApart` says that no two sockets have a
port in common, `FreshOwn` that whatever is on its way to a port, in whichever part
of the system it may be, was asked by the call that has the port, if that was fresh
when the call got it, and `CallsCounted` that a client has one result for each call
that has returned.

### The hashes

`HashStream_proofs` proves **`StreamsFeedMessage`** (`StreamFed`) and
**`HashesFeedMessage`** (`HashFeedsMessage`) from `HashAssumption`, for every block
and counter width it allows, so for those of the code too. Both have hypotheses
about lengths alone, which the run satisfies with its small words and the code with
its real ones:

- `ChunksFit`: one call is given fewer than `Word` bytes. The counters' carry is
  wrong for a longer one; the code's lengths are `int` and `Word` is 2^32. The
  message may be of any length, whatever number of carries.
- for the one-call functions and HMAC, which give the whole message to one update:
  `MaxMessage + Block < 2 * Word`.

The invariant `HashInv` is `ContextFed`: a context that has been fed a message `m`
has compressed `Cut(m, Block)`, its buffer begins with `Rest(m, Block)`, and its
counter is the length of `m` in digits of base `Word` (`MD5Fed`, `Sha1Fed`,
`SHA512Fed`). Behind the rest the buffer holds whatever earlier calls left there;
the proof shows that no byte of it is compressed. An update keeps this, because
the rest stands in front of the new bytes (`Grown`); the final functions write one
last block or two (`OneTail`, `TwoTail`), according to what the padding rule leaves
over. TLC has checked `HashInv` on the instance of the run `data`.

### Texts and codecs

`Inputs_proofs` proves properties of operations that are recursive functions of
their input, for inputs of any length. The library's induction theorems take an
operator as a parameter, which no installed prover can instantiate, so the module
has its own that speak of sets: `Induction` (a set that holds 0, and n + 1 with n,
holds every natural), `MeasureInduction` (the same along a measure) and `Recursion`
(a recursive definition whose argument gets smaller has a solution, the function
that `CHOOSE` then gives). They rest on `WFMin`, the least member of a set under a
well-founded relation. A proof about an operation then has three parts: the
recursion has a solution (`FindExists`, `ReplaceExists`, ...), any solution does at
every offset what is claimed (`FindFrom`, `ReplaceIsScan`, ...), and the operation,
which starts at the first offset, does it too.

- **`SearchesText`** (`TextSearch`), from `InputAssumption`: for texts over any
  alphabet and any `tolower()` on it. `FirstFrom` is what `FindPostion` owes at an
  offset: the end of the first match behind it, or 0. Its one-character search
  (`FindAt`) may stop at a character behind which no match fits; `OccursBegins` says
  that no match begins before it. `replaceAll` searches the rest of the text again
  and again, which is the scan of `ReplacesEvery` because a scan skips what holds no
  match (`ScanSkips`).
- **`BytesComeBack`** (`Base64Agrees` for every sequence of bytes): `Symbol(b, i, j)`
  gives symbol j directly; the encoder's recursion writes these, four for every three
  bytes begun (`EncodeStep`), and each byte of the decoder is read from the two
  symbols that share it (`ByteSymbols`). `CodedPrefix` says of any text what part of
  it is decoded, so that `DecodeFits` holds of texts that no encoder wrote.
- **`MasksUnderstood`** (`MaskAgrees` for every key and all messages): masking twice
  gives the byte back because a byte is the sum of its bits (`BitsOfByte`,
  `BitsOfSum`); a piece that begins at a multiple of four meets the same bytes of the
  key (`MaskInPieces`).

### What is only model-checked

Liveness: this prover has no support for fairness and ENABLED. The properties of
`Dns`, `Ini`, `JsonText`, `JsonTree` and `Utf`: `Ini`, `JsonText` and `JsonTree` use
RECURSIVE operators, which take the SMT prover away from every module that reaches
them. `LookupFindsAddress` is about packets in which a compression pointer may lead
in a circle; the length of a name is then a recursion without a solution, which
`Leads` has to be asked for first. Of the controller: `SignalEndsWait`, which is a
liveness property.

## 6. Where code and comments disagree

Four runs end in a counterexample, on purpose; `PROJECT.json` "findings" quotes
the lines.

- `deny`: `OnAccepting` is meant to close a new socket nobody accepted. It looks
  at the number, not at the object: when another worker closes the accepted
  connection before the callback has returned, and an application thread gets
  the number for an outgoing connection, that connection is closed.
- `delete`: `OnClosed` suggests `delete this`. With two workers the first may
  still use the object it re-armed.
- `reuse`: the sample in `main.cpp` (commented out) connects one object again
  and again. `CloseFinal` reports
  `Closed` before it resets `m_socket`; the reset may hit the next descriptor.
- `restart`: `Listen` asks to stop the pipe before it is started again. When
  `StopListen` comes before the thread has created its socket, the thread still
  creates it; `m_listenSock` stays set, and every later `Listen` refuses.

## 7. What the code does not promise

The properties do not hold of every use. TLC found these limits; they are why
`Usage` exists, why `odd`, `hurried` and `fresh` are recorded, and why some
properties have a premise.

The server:

- With `appClose` an application thread is inside a connection together with its
  worker, and `OneHandler` is false by design. For accepted connections and one
  worker, `RoutedToOwner`, `ClosingEnds` and `OnClosedOnce` still hold, and so do
  the properties of `live`. With two workers `RoutedToOwner` and `OnClosedOnce`
  fail: a worker may re-arm a number that has changed hands. For outgoing
  connections all three fail (the connection stays `Closing` when its thread's
  close meets the worker's), and when a third thread is given the number in between,
  `OwnFd` and `CloseOnlyOwn` fail too.
- With two workers `OnClosed` may come twice (hazard at `clsEpollManager.cpp:211`).
- When `EPOLL_CTL_ADD` fails for an outgoing connection, `Close(false)` asks
  `RemoveSocket` to remove what was never added; it gives up, the object stays
  `Closing` and the descriptor open. So `ClosingEnds` is checked where the `add`
  fault concerns accepted connections only.
- `SendFile` called between `Accept` and the return of the accept callback sets
  the event mask after the registration was made; a full buffer then leaves the
  file without `EPOLLOUT` (`ArmedWhenIdle` with `useAfterAccept`).
- A listener added while workers run may be handed the number whose accept is in
  progress; the deny check then closes the listener. `lateListen` is therefore
  off in all runs: the sample in `main.cpp` adds its listener before `Start()`.
- An object that is connected again may be in the hands of a worker that is still
  in its old connection: `RecvHasInput` holds of `reconnect` with one worker (the
  guard on `Status` keeps it off the new descriptor) and fails with two, or when
  other threads close connections as well.
- A server that also makes outgoing connections has neither `DeadPeerClosed` nor
  `ArmedWhenIdle`, even with one worker; the runs have listeners or `connect`.
- A failed `bind` leaves the descriptor of the listener open.

What the pipe does not promise: with a failed `bind`, an error of `recvfrom` or
an empty datagram (`clsPipe.cpp:203`) a new socket takes the path, while the old one
stays open and what is left in its queue is never read (`NoLostSocket` speaks of the
time before a failure, `MessageRead` of a request that no empty datagram stands in
front of); after an error of `select` in the middle of `StopListen` the
thread may close number 0; a thread that sees `m_bRunning` before `Listen` has
set it ends at once, and `isRunning()` is true without it; and the destructor
leaves the socket open, because it clears `m_bRunning` before it calls
`StopListen`.

The timer: when `StopTimer` finds the thread awake, or started and not yet at its
first instruction (a `StartTimer` followed at once by a `StopTimer`), the thread
uses the object that was deleted, or `m_pthread` when it is NULL or names the next
thread, since `pthread_cancel` takes effect in `sleep` only; a single shot that is
stopped while it ends has its object deleted twice or is cancelled through NULL;
and a thread that wakes before `StartTimer` has stored `m_pthread` uses NULL.
`TimerOwned` and `TimerFires` speak of the time before one of these.

The controller: a signal that comes between the read of the eventfd and `pause()`
is noticed with the next signal only. `SignalEndsWait` leaves this window out.

UDP: `OnReceiveData` and the client ask for `BUFFER_SIZE + 1` bytes and write a
zero behind what they got; a datagram of that size puts it outside of the buffer.
A `UDPClient` has no timeout unless `setTimeOut` is called (`m_timeOut` is 0), and a
lookup whose timeout could not be set has none either: when the datagram is lost
such a call waits for ever. Neither looks at who sent the answer or what it answers
(`UDPClient.cpp:90`, `clsDNSLookup.cpp:71`): an answer that is late, or comes twice,
is taken by the next call that gets its port (`UdpExchange` with `fresh`).

CString: the six uses are

- growing, or giving a block to, a string with a reserve and no text (`Bare`): it
  gets a block for the new text only, while the reserve becomes the sum. After
  `AddReserveSize(4)` and an append of 2 bytes the reserve is 6 and the block 3; the
  next appends find room in the reserve and write behind the block. The library does
  this itself: `clsHash.cpp:187-191` and `209-213`, `clsCString.cpp:292-293`, and
  `1049-1061`, and the sample in `main.cpp:67-68`;
- growing, assigning or indexing a string that took its caller's block (`Borrows`):
  it has no reserve and no end mark. `clsBase64.cpp:33` and `52` return such strings,
  and `operator=` copies as many bytes as the reserve counts, none
  (`clsCString.cpp:706-709`);
- `ReserveBlock` up to the end of the reserve or past it, which it does not compare
  with the block;
- `Copy` past the text: only the index is compared;
- `operator+` and `Replace` on a text that does not fill its reserve (not `Marked`):
  they look for an end mark that reserved memory need not have;
- appending a string to itself, which reads the block that `realloc` gave back.

Codecs and hashes: `hex_decode` reads one character behind a text of odd length;
`GenerateRandomBytes` (`clsHash.cpp`) writes one byte more than its size.

DNS: `ChangetoDnsNameFormat` counts in a type that host names of 126 characters
overflow. The parser compares neither a compression pointer nor the length of a
record with the packet (`clsDNSHeader.cpp:69-82`, `168`, `215`): one that leads out of
it before the address is followed and read there, one that leads to itself is
followed for ever. `LookupFindsAddress` therefore speaks of answers that are
well-formed up to the address, and lets a packet that was cut be left where the cut
is inside the data of a record.

ConvertUTF: `isLegalUTF8` has no lower bound for the byte behind ED and F4.

cJSON: when a buffer that is not terminated ends with a comma, the name of the next
member is looked for behind its end (`cJSON.c:1659`, `781`; `parse_string` marks it
`bad`, and `ParsesInside` allows that for texts that end so and no other);
`cJSON_AddItemReferenceToObject` loses its reference when the key cannot be copied
(an application of `JsonTree` makes it with `"referenceFails"` only, which no run
has); `cJSON_Minify` takes a quote behind two backslashes for an escaped one, so that
a string that ends in a backslash does not come back (`ParsesBack` leaves out its
minified form); `cJSON_Compare` is false for an object with two members of one name.

SimpleIni: a multi-line value whose tag stands on its first line has no end of its
own and takes in the text behind it (`SimpleIni.h:1817-1855`; `EmptyMultiLine` leaves
out what such a text is loaded as, `NamesStay` holds of it); a section line that is
not closed gives its name, with the line end, to the keys behind it (`1583-1591`); keys of
the unnamed section behind another section, values that begin with `<<<` and values
that contain the tag `Save` writes do not come back from a file (`Sayable`); the
comment of the first section becomes that of the file when there is no other.

## 8. Not modelled

- `clsSecureSocket` and the SSL branches: compiled only with `USE_SSL`.
- `StopListen` of the TCP listener, and of the UDP listener while a worker is
  busy: it deletes the object in the worker's hands, and nothing in the code
  orders the two.
- `AddSocket` for descriptors of the application.
- `setTimeOut`, keep-alive and the other socket options: no state of the program
  depends on them.
- Failure of `accept` other than for want of descriptors, and of
  `fcntl(O_NONBLOCK)`: the code ignores both.
- Memory exhaustion outside of cJSON and failing thread creation outside of the
  timer: the code does not handle them.
- In `Pipe`: the sleeps, which make the orders above rare but not impossible;
  names that are too long, which end the process; a second owner thread; a
  callback that calls `StopListen`, which would join itself. A socket closed
  while `select` holds it is taken as gone at once: what other processes could
  still send to it is lost either way.
- The compression functions of the hashes, CRC32 and the random numbers: they are
  arithmetic without control.
- Formatting of numbers in `CString`, `toUper`, and `Find` and `SplitString`
  variants nothing in the library calls.
- Fractions and exponents in cJSON, which are the C library's; files, wide
  characters and the conversions of values to integers, doubles and booleans in
  SimpleIni.
- `Files`, `LinuxService`, `log`: single system calls and formatting, no state.
