------------------------------ MODULE MCRuntime ------------------------------
(***************************************************************************)
(* The parts of the library that run beside the TCP server: the pipe, the  *)
(* thread timer, the application controller and UDP. They share nothing;   *)
(* a behaviour chooses one of them. In the initial state of each of them   *)
(* no step is due, so that the fairness of one does not bind the others.   *)
(***************************************************************************)
EXTENDS Pipe, ThreadTimer, AppController, Udp, TLC

CONSTANT Parts
VARIABLE part
runvars == <<part, vars, tvars, avars, uvars>>

RunInit == part \in Parts /\ Init /\ TimerInit /\ AppInit /\ UdpInit
           /\ (part # "pipe" => path = None)
RunNext ==
  /\ UNCHANGED part
  /\ \/ part = "pipe" /\ Next /\ UNCHANGED <<tvars, avars, uvars>>
     \/ part = "timer" /\ TimerNext /\ UNCHANGED <<vars, avars, uvars>>
     \/ part = "app" /\ AppNext /\ UNCHANGED <<vars, tvars, uvars>>
     \/ part = "udp" /\ UdpNext /\ UNCHANGED <<vars, tvars, avars>>
RunSpec == RunInit /\ [][RunNext]_runvars

\* Fairness of each part as its module states it. A behaviour has one part, so that the
\* conditions that have a number are one condition of whatever part it has.
Fair(i) ==
  /\ UNCHANGED part
  /\ \/ part = "pipe" /\ UNCHANGED <<tvars, avars, uvars>>
        /\ \/ i = 1 /\ _onListenerThread
           \/ i = 2 /\ (Started \/ StopTest \/ StopClose \/ StopZero \/ Join)
     \/ part = "timer" /\ UNCHANGED <<vars, avars, uvars>>
        /\ \/ i \in Threads /\ TimerThread(i)
           \/ i = 0 /\ (Assign \/ CreateThread \/ Kill \/ Delete \/ Clear)
     \/ part = "app" /\ UNCHANGED <<vars, tvars, uvars>>
        /\ \/ i = 1 /\ wait
           \/ i = 2 /\ signalHandler
     \/ part = "udp" /\ UNCHANGED <<vars, tvars, avars>>
        /\ \/ i \in UdpWorkers /\ UdpWorker(i)
           \/ i = 0 /\ \E c \in Callers : SendReceive(c)
FairRunSpec ==
  /\ RunSpec
  /\ \A i \in 0 .. 3 : WF_runvars(Fair(i))
  /\ SF_runvars(part = "pipe" /\ Selected /\ UNCHANGED <<part, tvars, avars, uvars>>)
=============================================================================
