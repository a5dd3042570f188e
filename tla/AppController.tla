---------------------------- MODULE AppController ----------------------------
(***************************************************************************)
(* AppController: wait() in the main thread against the signal handler,    *)
(* which interrupts it between any two of its steps (the kernel prefers    *)
(* the main thread for a signal sent to the process).                      *)
(***************************************************************************)
EXTENDS Naturals, Sequences

CONSTANT MaxSignals   \* bound: the signals that come

VARIABLES shutdownRequested,
          efd,        \* the counter of the eventfd
          instance,   \* the controller exists
          main,       \* the place of the main thread
          handlers,   \* the handlers that run, the innermost last
          coming      \* the signals still to come
avars == <<shutdownRequested, efd, instance, main, handlers, coming>>

AppInit ==
  /\ shutdownRequested = FALSE /\ efd = 0 /\ instance = TRUE
  /\ main = "out" /\ handlers = <<>> /\ coming = MaxSignals

\* The main thread goes on when no handler runs.
Runs(place) == main = place /\ handlers = <<>>

CallWait == Runs("out") /\ instance /\ main' = "check"
            /\ UNCHANGED <<shutdownRequested, efd, instance, handlers, coming>>

wait ==
  \/ /\ Runs("check")
     /\ main' = IF shutdownRequested THEN "out" ELSE "read"
     /\ UNCHANGED <<shutdownRequested, efd, instance, handlers, coming>>
  \/ /\ Runs("read")
     /\ main' = IF efd > 0 THEN "out" ELSE "pause"
     /\ efd' = 0
     /\ UNCHANGED <<shutdownRequested, instance, handlers, coming>>
  \/ /\ Runs("pause") /\ main' = "pausing"
     /\ UNCHANGED <<shutdownRequested, efd, instance, handlers, coming>>

DestroyController == Runs("out") /\ instance /\ instance' = FALSE
            /\ UNCHANGED <<shutdownRequested, efd, main, handlers, coming>>

\* SIGINT or SIGTERM; each blocks only itself while its handler runs.
Signal ==
  /\ coming > 0 /\ Len(handlers) < 2
  /\ coming' = coming - 1 /\ handlers' = Append(handlers, "flag")
  /\ UNCHANGED <<shutdownRequested, efd, instance, main>>

Innermost(place) == handlers # <<>> /\ handlers[Len(handlers)] = place
\* pause() returns when the handler that interrupted it has returned.
Return ==
  /\ handlers' = SubSeq(handlers, 1, Len(handlers) - 1)
  /\ main' = IF main = "pausing" /\ Len(handlers) = 1 THEN "check" ELSE main

StoreFlag ==
  /\ Innermost("flag") /\ shutdownRequested' = TRUE
  /\ handlers' = [handlers EXCEPT ![Len(handlers)] = "write"]
  /\ UNCHANGED <<efd, instance, main, coming>>
WriteEfd_Skips ==
  /\ Innermost("write") /\ Return
  /\ UNCHANGED <<shutdownRequested, efd, instance, coming>>
WriteEfd ==
  /\ Innermost("write") /\ Return
  /\ efd' = IF instance THEN efd + 1 ELSE efd
  /\ UNCHANGED <<shutdownRequested, instance, coming>>
signalHandler == StoreFlag \/ WriteEfd

AppNext == CallWait \/ wait \/ DestroyController \/ Signal \/ signalHandler
AppSpec == AppInit /\ [][AppNext]_avars
AppFairness == WF_avars(wait) /\ WF_avars(signalHandler)

-----------------------------------------------------------------------------
\* A signal ends wait(), except one that comes between the read of the eventfd and
\* pause(): the flag covers what came before the loop looks at it, the eventfd what
\* comes between that and the read, the interruption what comes during pause().
SignalEndsWait ==
  ( \/ shutdownRequested /\ main \in {"check", "read"}
    \/ main = "pausing" /\ handlers # <<>> )
      ~> main = "out"
=============================================================================
