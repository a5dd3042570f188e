--------------------------------- MODULE Udp ---------------------------------
(***************************************************************************)
(* The UDP server, whose listener is served by the workers of its epoll    *)
(* instance, and the clients that send one datagram and wait for one:      *)
(* UDPClient and the SendPacket of the DNS lookup. The network loses,      *)
(* duplicates and reorders. A datagram is [call, port]: the call that      *)
(* asked, and the port of the clients' host the answer goes to. The kernel *)
(* gives a port that was closed to any later socket.                       *)
(***************************************************************************)
EXTENDS Integers, Sequences, FiniteSets

CONSTANTS UdpWorkers,        \* one thread for each call of clsUDPServer::Start
          Callers,           \* the clients
          Ports,             \* of the host the clients run on
          MaxCalls,          \* bound: the calls of a client
          UdpFaults          \* bound: system calls that fail and datagrams doubled

ASSUME UdpAssumption == MaxCalls \in Nat /\ UdpFaults \in Nat /\ Ports \subseteq Nat \ {0}

VARIABLES
  listener, armed, lost,   \* clsUDPListener, its registration, sockets nobody has
  serving, holds,          \* the workers and the datagrams they handle
  arrived, read, passed,   \* what came, how much was read, what the callbacks were given
  client, results,         \* the clients and what their calls have returned
  asks, replies, left     \* the network
server == <<listener, armed, lost>>
workers == <<serving, holds>>
inbox == <<arrived, read, passed>>
serverSide == <<server, workers, inbox>>
clients == <<client, results>>
network == <<asks, replies, left>>
uvars == <<serverSide, clients, network>>

NoDatagram == [call |-> <<>>, port |-> 0]
NoAnswer == <<>>
\* The datagrams that may still reach somebody.
OnWay == asks \cup replies \cup {arrived[i] : i \in read + 1 .. Len(arrived)}
           \cup {holds[w] : w \in UdpWorkers}
\* What has come and was not read goes with the socket.
Discard == arrived' = SubSeq(arrived, 1, read)
Fault == left > 0 /\ left' = left - 1
Busy(w) == serving[w] \in {"receive", "callback", "rearm"}

UdpInit ==
  /\ listener = "none" /\ armed = FALSE /\ lost = 0
  /\ serving = [w \in UdpWorkers |-> "off"] /\ holds = [w \in UdpWorkers |-> NoDatagram]
  /\ arrived = <<>> /\ read = 0 /\ passed = <<>>
  /\ client = [c \in Callers |-> [at |-> "idle", lookup |-> FALSE, call |-> 0, socket |-> 0,
                                  timed |-> FALSE, fresh |-> FALSE]]
  /\ results = [c \in Callers |-> <<>>]
  /\ asks = {} /\ replies = {} /\ left = UdpFaults

-----------------------------------------------------------------------------
\* AddNewListener: socket and bind. A failed bind leaves the socket open.
BindListener ==
  /\ listener = "none"
  /\ \/ listener' = "bound" /\ UNCHANGED <<lost, left>>
     \/ Fault /\ lost' \in {lost, lost + 1} /\ UNCHANGED listener
  /\ UNCHANGED <<armed, workers, inbox, clients, asks, replies>>

\* The socket is added for one event at a time, or closed.
AddListener ==
  /\ listener = "bound"
  /\ \/ listener' = "on" /\ armed' = TRUE /\ UNCHANGED <<left, arrived>>
     \/ Fault /\ listener' = "none" /\ Discard /\ UNCHANGED armed
  /\ UNCHANGED <<lost, workers, read, passed, clients, asks, replies>>

\* The application stops a listener while no worker is busy with it.
StopListen_ ==
  /\ listener = "on" /\ \A w \in UdpWorkers : ~Busy(w)
  /\ listener' = "closed" /\ armed' = FALSE /\ Discard
  /\ UNCHANGED <<lost, workers, read, passed, clients, network>>

Start(w) ==
  /\ serving[w] = "off" /\ serving' = [serving EXCEPT ![w] = "wait"]
  /\ UNCHANGED <<server, holds, inbox, clients, network>>

\* epoll_wait: a registration that has reported waits to be armed again.
UdpEvent(w) ==
  /\ serving[w] = "wait" /\ armed /\ read < Len(arrived)
  /\ armed' = FALSE
  /\ serving' = [serving EXCEPT ![w] = "receive"]
  /\ UNCHANGED <<listener, lost, holds, inbox, clients, network>>

\* Without a datagram recvfrom gives -1 and the zero goes before the buffer.
OnReceiveData(w) ==
  /\ serving[w] = "receive" /\ read < Len(arrived)
  /\ holds' = [holds EXCEPT ![w] = arrived[read + 1]]
  /\ read' = read + 1
  /\ serving' = [serving EXCEPT ![w] = "callback"]
  /\ UNCHANGED <<server, arrived, passed, clients, network>>

\* Mutant: the reply goes to the sender the listener has heard of last.
UDPCallback_ToLast(w) ==
  /\ serving[w] = "callback"
  /\ passed' = Append(passed, holds[w])
  /\ replies' \in {replies, replies \cup {[holds[w] EXCEPT !.port = arrived[Len(arrived)].port]}}
  /\ serving' = [serving EXCEPT ![w] = "rearm"]
  /\ UNCHANGED <<server, holds, arrived, read, clients, asks, left>>

\* The callback replies the sender of the datagram, or does not.
UDPCallback(w) ==
  /\ serving[w] = "callback"
  /\ passed' = Append(passed, holds[w])
  /\ replies' \in {replies, replies \cup {holds[w]}}
  /\ serving' = [serving EXCEPT ![w] = "rearm"]
  /\ UNCHANGED <<server, holds, arrived, read, clients, asks, left>>

UdpRearm_Forgets(w) ==
  /\ serving[w] = "rearm"
  /\ serving' = [serving EXCEPT ![w] = "wait"]
  /\ UNCHANGED <<server, holds, inbox, clients, network>>
UdpRearm(w) ==
  /\ serving[w] = "rearm"
  /\ armed' = TRUE
  /\ serving' = [serving EXCEPT ![w] = "wait"]
  /\ holds' = [holds EXCEPT ![w] = NoDatagram]
  /\ UNCHANGED <<listener, lost, inbox, clients, network>>

-----------------------------------------------------------------------------
Goes(c, place) == client' = [client EXCEPT ![c].at = place] /\ UNCHANGED results
\* Every way out of a call closes the socket.
Returns(c, answer) ==
  /\ client' = [client EXCEPT ![c].at = "idle", ![c].lookup = FALSE, ![c].socket = 0,
                              ![c].timed = FALSE, ![c].fresh = FALSE]
  /\ results' = [results EXCEPT ![c] = Append(@, [answer |-> answer, fresh |-> client[c].fresh])]
  /\ UNCHANGED serverSide

\* A call of UDPClient::SendReceive, whose timeout is 0 unless setTimeOut was called, or
\* of DNSLookup, which adds half a second to its own.
Ask(c) ==
  /\ client[c].at = "idle" /\ client[c].call < MaxCalls
  /\ \E b, z \in BOOLEAN :
       client' = [client EXCEPT ![c].at = "socket", ![c].call = @ + 1, ![c].lookup = b,
                                ![c].timed = b \/ z, ![c].fresh = FALSE]
  /\ UNCHANGED <<results, network>> /\ UNCHANGED serverSide

\* A new socket gets any port that no open socket has; it is fresh when nothing that was
\* asked from this port before is still on its way.
Socket(c) ==
  /\ client[c].at = "socket"
  /\ \/ \E p \in Ports :
          /\ \A d \in Callers : client[d].socket # p
          /\ client' = [client EXCEPT ![c].at = "options", ![c].socket = p,
                                      ![c].fresh = \A d \in OnWay : d.port # p]
          /\ UNCHANGED <<results, network>> /\ UNCHANGED serverSide
     \/ Fault /\ Returns(c, NoAnswer) /\ UNCHANGED <<asks, replies>>

\* UDPClient gives up when the timeout cannot be set, the lookup goes on without one.
Options(c) ==
  /\ client[c].at = "options"
  /\ \/ Goes(c, "send") /\ UNCHANGED network /\ UNCHANGED serverSide
     \/ Fault /\ ~client[c].lookup /\ Returns(c, NoAnswer) /\ UNCHANGED <<asks, replies>>
LookupOptions(c) ==
  /\ client[c].at = "options" /\ client[c].lookup /\ Fault
  /\ client' = [client EXCEPT ![c].at = "send", ![c].timed = FALSE]
  /\ UNCHANGED <<results, asks, replies>> /\ UNCHANGED serverSide

SendTo(c) ==
  /\ client[c].at = "send"
  /\ \/ /\ asks' = asks \cup {[call |-> <<c, client[c].call>>, port |-> client[c].socket]}
        /\ Goes(c, "receive") /\ UNCHANGED <<replies, left>> /\ UNCHANGED serverSide
     \/ Fault /\ Returns(c, NoAnswer) /\ UNCHANGED <<asks, replies>>

\* The first datagram that comes to the socket is the answer, whatever it is: neither its
\* sender nor its content is looked at. Only the server sends here.
ReceiveFrom(c) ==
  /\ client[c].at = "receive"
  /\ \E d \in replies :
       /\ d.port = client[c].socket
       /\ replies' = replies \ {d} /\ UNCHANGED <<asks, left>>
       /\ Returns(c, d.call)
TimeOut(c) ==
  /\ client[c].at = "receive" /\ client[c].timed
  /\ Returns(c, NoAnswer) /\ UNCHANGED network

-----------------------------------------------------------------------------
\* A request reaches the socket of the listener, once or twice, or is lost.
Deliver_(d) ==
  /\ \/ asks' = asks \ {d} /\ UNCHANGED left
     \/ Fault /\ UNCHANGED asks
  /\ arrived' = IF listener \in {"bound", "on"} THEN Append(arrived, d) ELSE arrived
  /\ UNCHANGED <<server, workers, read, passed, clients, replies>>
Lose(d) ==
  /\ asks' = asks \ {d} /\ replies' = replies \ {d}
  /\ UNCHANGED <<server, workers, inbox, clients, left>>

UdpServer == BindListener \/ AddListener \/ StopListen_ \/ \E w \in UdpWorkers : Start(w)
UdpWorker(w) == UdpEvent(w) \/ OnReceiveData(w) \/ UDPCallback(w) \/ UdpRearm(w)
SendReceive(c) ==
  Socket(c) \/ Options(c) \/ LookupOptions(c) \/ SendTo(c) \/ ReceiveFrom(c) \/ TimeOut(c)
UdpNext ==
  \/ UdpServer
  \/ \E w \in UdpWorkers : UdpWorker(w)
  \/ \E c \in Callers : Ask(c) \/ SendReceive(c)
  \/ \E d \in asks : Deliver_(d)
  \/ \E d \in asks \cup replies : Lose(d)
UdpSpec == UdpInit /\ [][UdpNext]_uvars

\* Workers and clients run; the network and the application need not.
UdpFairness ==
  /\ \A w \in UdpWorkers : WF_uvars(UdpWorker(w))
  /\ \A c \in Callers : WF_uvars(SendReceive(c))

-----------------------------------------------------------------------------
\* A worker calls recvfrom only when there is something to read, and the callbacks get
\* the datagrams in the order in which they came, however many workers there are.
ReadsInOrder ==
  /\ \A w \in UdpWorkers : serving[w] = "receive" => read < Len(arrived)
  /\ passed = SubSeq(arrived, 1, Len(passed))
\* A call returns nothing or the answer to what this very call has asked, although answers
\* come late or twice and ports are used again, when its port was fresh: an answer that is
\* on its way to a port when the next socket gets it is taken for the answer to the next.
AnswersMatch ==
  \A c \in Callers : \A n \in DOMAIN results[c] :
    results[c][n].fresh => results[c][n].answer \in {NoAnswer, <<c, n>>}
UdpExchange == ReadsInOrder /\ AnswersMatch

\* What has arrived is read, unless the listener is stopped, and a call that has a timeout
\* returns. (One without waits for its answer, for ever if that is lost.)
UdpServed ==
  /\ read < Len(arrived) /\ listener = "on" /\ (\E w \in UdpWorkers : serving[w] # "off")
       ~> read = Len(arrived) \/ listener # "on"
  /\ \A c \in Callers :
       client[c].at # "idle" /\ client[c].timed ~> client[c].at = "idle" \/ ~client[c].timed
=============================================================================
