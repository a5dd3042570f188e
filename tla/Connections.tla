----------------------------- MODULE Connections -----------------------------
(***************************************************************************)
(* What clsTCPSocket promises: connections that live once, each with a     *)
(* number of its own from its beginning to its end, and each in one        *)
(* thread's hands at a time.  The kernel, the epoll set, the mutex and the *)
(* calls a handler makes are not part of it.                               *)
(***************************************************************************)
CONSTANTS
  Sockets, Threads, Fds,
  Nobody,     \* no thread
  NoNumber    \* no descriptor number

VARIABLES
  phase,    \* where a connection is in its life
  number,   \* the descriptor number it has
  hand      \* the thread that works on it

Init ==
  /\ phase = [s \in Sockets |-> "none"]
  /\ number = [s \in Sockets |-> NoNumber]
  /\ hand = [s \in Sockets |-> Nobody]

Fresh(f) == \A s \in Sockets : number[s] # f
Idle(t) == \A s \in Sockets : hand[s] # t
Become(s, p) == phase' = [phase EXCEPT ![s] = p]

\* An application thread makes a connection; it has no number yet.
Make(s, t) ==
  /\ phase[s] = "none"
  /\ Idle(t)
  /\ Become(s, "new")
  /\ hand' = [hand EXCEPT ![s] = t]
  /\ UNCHANGED number

Open(s, f) ==
  /\ phase[s] = "new"
  /\ Fresh(f)
  /\ Become(s, "Connecting")
  /\ number' = [number EXCEPT ![s] = f]
  /\ UNCHANGED hand

\* A thread takes over the connection with the number f that a listener has accepted.
Accept(s, t, f) ==
  /\ phase[s] = "none"
  /\ Idle(t)
  /\ Fresh(f)
  /\ Become(s, "Accepting")
  /\ number' = [number EXCEPT ![s] = f]
  /\ hand' = [hand EXCEPT ![s] = t]

\* The steps in a life that whoever has the connection takes.
Establish(s) ==
  phase[s] \in {"Connecting", "Accepting"} /\ Become(s, "Connected") /\ UNCHANGED number
BeginClose(s) ==
  phase[s] \in {"Connecting", "Connected"} /\ Become(s, "Closing") /\ UNCHANGED number
Fail(s) == phase[s] = "new" /\ Become(s, "Closed") /\ UNCHANGED number
Shut(s) ==
  /\ phase[s] \in {"Connecting", "Accepting", "Closing"}
  /\ Become(s, "Closed")
  /\ number' = [number EXCEPT ![s] = NoNumber]

Proceed(s) ==
  /\ hand[s] # Nobody
  /\ Establish(s) \/ BeginClose(s) \/ Fail(s) \/ Shut(s)
  /\ UNCHANGED hand

\* An event brings a connection at rest into a thread's hands.
Deliver(s, t) ==
  /\ phase[s] \in {"Connecting", "Connected"}
  /\ hand[s] = Nobody
  /\ Idle(t)
  /\ hand' = [hand EXCEPT ![s] = t]
  /\ UNCHANGED <<phase, number>>

\* No connection is left half made, half accepted or half closed.
Release(s) ==
  /\ hand[s] # Nobody
  /\ phase[s] \in {"Connecting", "Connected", "Closed"}
  /\ hand' = [hand EXCEPT ![s] = Nobody]
  /\ UNCHANGED <<phase, number>>

Next ==
  \E s \in Sockets :
    \/ \E t \in Threads : \/ Make(s, t) \/ Deliver(s, t)
                          \/ \E f \in Fds : Accept(s, t, f)
    \/ \E f \in Fds : Open(s, f)
    \/ Proceed(s) \/ Release(s)

Spec == Init /\ [][Next]_<<phase, number, hand>>
=============================================================================
