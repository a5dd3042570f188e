----------------------------- MODULE ThreadTimer -----------------------------
(***************************************************************************)
(* clsThreadTimer and the clsThread it runs on. The owner starts and stops *)
(* the timer; the timer thread sleeps, calls back under the mutex of the   *)
(* thread object that m_pthread names, and deletes its own object when it  *)
(* ends. Nothing but the mutex is locked: m_pthread belongs to both. A     *)
(* step that needs an object that is not there cannot be taken; TimerOwned *)
(* says when that may happen.                                              *)
(***************************************************************************)
EXTENDS Naturals, FiniteSets

CONSTANTS Threads,     \* the clsThread objects; bound: each is made once
          NULL

ASSUME TimerAssumption == NULL \notin Threads

VARIABLES
  interval, isSingleshot, m_pthread,   \* clsThreadTimer
  owner, created,                      \* the owner's place, the thread it has created
  object, mutex,                       \* clsThread: exists or deleted, who has the mutex
  thread, once, cancelled,             \* the POSIX threads
  hurried                              \* owner and thread have met in one of three ways

timer == <<interval, isSingleshot, m_pthread>>
objects == <<object, mutex>>
posix == <<thread, once, cancelled>>
tvars == <<timer, owner, created, objects, posix, hurried>>

Live(t) == t \in Threads /\ object[t] = "live"
\* A deleted object is not missed by a thread that pthread_cancel ends in sleep().
Asleep(t) == thread[t] \in {"sleep", "ended"}

(***************************************************************************)
(* The ways in which owner and thread get hold of the same object. A sleep *)
(* takes a second or more, so each is a matter of bad timing.              *)
(***************************************************************************)
DeletesAwake == m_pthread # NULL /\ ~Asleep(m_pthread)    \* StopTimer, a thread awake
WakesUnnamed(t) == m_pthread # t                          \* StartTimer has not stored it
EndsUnderStop == owner = "kill"                           \* a single shot, between test and Kill

TimerInit ==
  /\ interval = 0 /\ isSingleshot = FALSE /\ m_pthread = NULL
  /\ owner = "idle" /\ created = NULL
  /\ object = [t \in Threads |-> "none"] /\ mutex = [t \in Threads |-> NULL]
  /\ thread = [t \in Threads |-> "none"]
  /\ once = [t \in Threads |-> FALSE] /\ cancelled = {} /\ hurried = FALSE

-----------------------------------------------------------------------------
SetSingleShot(b) ==
  /\ owner = "idle" /\ isSingleshot' = b
  /\ UNCHANGED <<interval, m_pthread, owner, created, objects, posix, hurried>>

StartTimer(sec) ==
  /\ owner = "idle"
  /\ interval' = IF sec > 0 THEN sec ELSE interval
  /\ owner' = IF interval' > 0 /\ m_pthread = NULL THEN "create" ELSE "idle"
  /\ UNCHANGED <<isSingleshot, m_pthread, created, objects, posix, hurried>>

\* pthread_create may fail; then the new object is deleted and NULL returned.
CreateThread ==
  /\ owner = "create"
  /\ \/ \E t \in Threads :
          /\ object[t] = "none"
          /\ object' = [object EXCEPT ![t] = "live"]
          /\ thread' = [thread EXCEPT ![t] = "start"]
          /\ created' = t
     \/ created' = NULL /\ UNCHANGED <<object, thread>>
  /\ owner' = "assign"
  /\ UNCHANGED <<timer, mutex, once, cancelled, hurried>>

Assign ==
  /\ owner = "assign"
  /\ m_pthread' = created /\ owner' = "idle" /\ created' = NULL
  /\ UNCHANGED <<interval, isSingleshot, objects, posix, hurried>>

\* StopTimer and the destructor: m_pthread is read three times.
StopTimer ==
  /\ owner = "idle" /\ m_pthread # NULL
  /\ owner' = "kill"
  /\ UNCHANGED <<timer, created, objects, posix, hurried>>

Kill ==
  /\ owner = "kill" /\ Live(m_pthread)
  /\ cancelled' = cancelled \cup {m_pthread} /\ owner' = "delete"
  /\ UNCHANGED <<timer, created, objects, thread, once, hurried>>

Delete ==
  /\ owner = "delete"
  /\ \/ m_pthread = NULL /\ UNCHANGED object
     \/ Live(m_pthread) /\ object' = [object EXCEPT ![m_pthread] = "deleted"]
  /\ owner' = "clear" /\ hurried' = (hurried \/ DeletesAwake)
  /\ UNCHANGED <<timer, created, mutex, posix>>

Clear_Forgets ==
  /\ owner = "clear" /\ owner' = "idle"
  /\ UNCHANGED <<timer, created, objects, posix, hurried>>

Clear ==
  /\ owner = "clear" /\ m_pthread' = NULL /\ owner' = "idle"
  /\ UNCHANGED <<interval, isSingleshot, created, objects, posix, hurried>>

-----------------------------------------------------------------------------
\* _onThread reads the callback and its argument from the object, the callback the timer.
__onThreadTimer(t) ==
  /\ thread[t] = "start" /\ Live(t)
  /\ once' = [once EXCEPT ![t] = isSingleshot]
  /\ thread' = [thread EXCEPT ![t] = "sleep"]
  /\ UNCHANGED <<timer, owner, created, objects, cancelled, hurried>>

\* pthread_cancel takes effect in sleep(), the only cancellation point of the loop.
Cancel(t) ==
  /\ thread[t] = "sleep" /\ t \in cancelled
  /\ thread' = [thread EXCEPT ![t] = "ended"]
  /\ UNCHANGED <<timer, owner, created, objects, once, cancelled, hurried>>

Wake(t) ==
  /\ thread[t] = "sleep" /\ t \notin cancelled
  /\ thread' = [thread EXCEPT ![t] = "lock"]
  /\ hurried' = (hurried \/ WakesUnnamed(t))
  /\ UNCHANGED <<timer, owner, created, objects, once, cancelled>>

\* The object is found through m_pthread, not through the argument of the callback.
MutexLock(t) ==
  /\ thread[t] = "lock" /\ Live(m_pthread) /\ mutex[m_pthread] = NULL
  /\ mutex' = [mutex EXCEPT ![m_pthread] = t]
  /\ thread' = [thread EXCEPT ![t] = "callback"]
  /\ UNCHANGED <<timer, owner, created, object, once, cancelled, hurried>>

OnTimerTimerOut(t) ==
  /\ thread[t] = "callback"
  /\ thread' = [thread EXCEPT ![t] = "unlock"]
  /\ UNCHANGED <<timer, owner, created, objects, once, cancelled, hurried>>

MutexUnlock_Keeps(t) ==
  /\ thread[t] = "unlock" /\ Live(m_pthread)
  /\ thread' = [thread EXCEPT ![t] = IF once[t] THEN "finish" ELSE "sleep"]
  /\ UNCHANGED <<timer, owner, created, objects, once, cancelled, hurried>>

MutexUnlock(t) ==
  /\ thread[t] = "unlock" /\ Live(m_pthread)
  /\ mutex' = [mutex EXCEPT ![m_pthread] = NULL]
  /\ thread' = [thread EXCEPT ![t] = IF once[t] THEN "finish" ELSE "sleep"]
  /\ UNCHANGED <<timer, owner, created, object, once, cancelled, hurried>>

\* The end of a single-shot timer.
Finish(t) ==
  /\ thread[t] = "finish"
  /\ m_pthread' = NULL
  /\ thread' = [thread EXCEPT ![t] = "delete"]
  /\ hurried' = (hurried \/ EndsUnderStop)
  /\ UNCHANGED <<interval, isSingleshot, owner, created, objects, once, cancelled>>

_onThread(t) ==
  /\ thread[t] = "delete" /\ Live(t)
  /\ object' = [object EXCEPT ![t] = "deleted"]
  /\ thread' = [thread EXCEPT ![t] = "ended"]
  /\ UNCHANGED <<timer, owner, created, mutex, once, cancelled, hurried>>

-----------------------------------------------------------------------------
TimerOwner ==
  \/ \E sec \in {0, 1} : StartTimer(sec)
  \/ \E b \in BOOLEAN : SetSingleShot(b)
  \/ CreateThread \/ Assign \/ StopTimer \/ Kill \/ Delete \/ Clear
TimerThread(t) ==
  \/ __onThreadTimer(t) \/ Cancel(t) \/ Wake(t) \/ MutexLock(t) \/ OnTimerTimerOut(t)
  \/ MutexUnlock(t) \/ Finish(t) \/ _onThread(t)
TimerNext == TimerOwner \/ \E t \in Threads : TimerThread(t)
TimerSpec == TimerInit /\ [][TimerNext]_tvars

\* Every sleep ends, threads run and StartTimer and StopTimer return.
TimerFairness ==
  /\ \A t \in Threads : WF_tvars(TimerThread(t))
  /\ WF_tvars(Assign \/ CreateThread \/ Kill \/ Delete \/ Clear)

-----------------------------------------------------------------------------
\* As long as none of the three has happened, the thread uses only its own, live object,
\* whatever sequence of starts, stops, single shots and restarts came before, also when it
\* is stopped while it is awake; m_pthread never dangles between the calls.
UsesOwnObject ==
  /\ \A t \in Threads :
       /\ thread[t] \in {"lock", "callback", "unlock", "finish"} => m_pthread = t
       /\ thread[t] \in {"start", "lock", "callback", "unlock", "finish", "delete"} => Live(t)
  /\ owner = "kill" => Live(m_pthread)
  /\ owner \in {"idle", "delete"} => m_pthread = NULL \/ Live(m_pthread)
\* No clsThread is lost: a live object is named by m_pthread, is on its way into it or
\* is about to delete itself; and one timer thread at a time can call back.
NoThreadLost ==
  /\ \A t \in Threads : Live(t) => t \in {m_pthread, created} \/ thread[t] = "delete"
  /\ \A t, u \in Threads : t # u /\ {t, u} \cap cancelled = {} =>
       ~({thread[t], thread[u]} \subseteq {"start", "sleep", "lock", "callback", "unlock", "finish"})
\* The three are the only ways in which clsThreadTimer and its thread may come to use an
\* object that is not there, or to lose one.
TimerOwned == hurried \/ (UsesOwnObject /\ NoThreadLost)

\* A timer that has been started calls back, and goes on doing so, until it is stopped;
\* a single shot makes room for the next start.
TimerFires ==
  /\ m_pthread # NULL ~>
       (\E t \in Threads : thread[t] = "callback") \/ m_pthread = NULL \/ hurried
  /\ (\E t \in Threads : m_pthread = t /\ once[t]) ~> m_pthread = NULL \/ hurried
=============================================================================
