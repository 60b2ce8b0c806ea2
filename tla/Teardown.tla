------------------------------- MODULE Teardown -------------------------------
(***************************************************************************)
(* The end of the process: when the server is gone, the destructor of      *)
(* CacheInvalidator takes its members down one by one, while the           *)
(* notification thread, joined by ~DirectoryMonitor, and the priming       *)
(* thread, joined by ~CachePrimer, still work with them.                   *)
(*                                                                         *)
(* CachePrimer is the primer; this module adds the thread that schedules,  *)
(* which is DirectoryMonitor::WaitForNotifications with OnFileChanged, and *)
(* the order of destruction.  Where notifications come from is left to     *)
(* DirectoryNotifications, and a token that is not in the map to           *)
(* StatusCache.                                                            *)
(***************************************************************************)
EXTENDS CachePrimer, Sequences

CONSTANT NoRepo

ASSUME TeardownAssumption == NoRepo \notin Repos

VARIABLES
  destroyed,       \* members of CacheInvalidator already taken down
  monitor,         \* where ~DirectoryMonitor is
  stopNotifier,    \* m_stopNotificationThread is set
  queued,          \* notifications that wait
  notifier,        \* what the notification thread does next
  repo             \* the repository it works for

primerVars == vars
monitorVars == <<destroyed, monitor>>
notifierVars == <<stopNotifier, queued, notifier, repo>>
teardownVars == <<primerVars, monitorVars, notifierVars>>

\* Mutant: the primer is declared after the monitor.
PrimerBeforeMonitor == <<"tokens", "primer", "monitor", "cache">>

\* The members in the reverse order of their declaration: the map with its mutex,
\* m_directoryMonitor, m_cachePrimer, m_cache.
DestructionOrder == <<"tokens", "monitor", "primer", "cache">>

TeardownTypeOK ==
  /\ TypeOK
  /\ destroyed \in 0..Len(DestructionOrder)
  /\ monitor \in {"alive", "signal", "join", "joined"}
  /\ stopNotifier \in BOOLEAN
  /\ queued \in 0..MaxSchedules
  /\ notifier \in {"none", "wait", "check", "lookup", "invalidate", "schedule", "rearm",
                   "eventsLost", "done"}
  /\ repo \in Repos \cup {NoRepo}
  /\ repo = NoRepo <=> notifier \notin {"invalidate", "schedule", "rearm"}
  /\ notifier = "rearm" <=> scheduler = "wait"

TeardownInit ==
  /\ Init
  /\ destroyed = 0
  /\ monitor = "alive"
  /\ stopNotifier = FALSE
  /\ queued = 0
  /\ notifier = "none"
  /\ repo = NoRepo

Alive(member) ==
  \E i \in 1..Len(DestructionOrder) : DestructionOrder[i] = member /\ i > destroyed

\* The member whose destructor runs, once requests and server are gone.
Destroying(member) ==
  /\ destroyed > 0
  /\ destroyed < Len(DestructionOrder)
  /\ DestructionOrder[destroyed + 1] = member

-----------------------------------------------------------------------------
(* The notification thread.                                                *)

\* The first AddDirectory of a request starts it.
StartNotifier ==
  /\ destroyed = 0
  /\ notifier = "none"
  /\ notifier' = "wait"
  /\ UNCHANGED <<primerVars, monitorVars, stopNotifier, queued, repo>>

\* Notifications that are queued or handled: MaxSchedules bounds them together with the
\* calls that were made of them.
UnderWay ==
  queued + IF notifier \in {"check", "lookup", "invalidate", "schedule"} THEN 1 ELSE 0

\* The watcher pushes until Terminate has ended it.
NotificationArrives ==
  /\ notifier # "none"
  /\ monitor = "alive"
  /\ UnderWay + schedules < MaxSchedules
  /\ queued' = queued + 1
  /\ UNCHANGED <<primerVars, monitorVars, stopNotifier, notifier, repo>>

\* Mutant: the queue is looked at before the event.
WaitForQueueFirst ==
  /\ notifier = "wait"
  /\ stopNotifier \/ queued > 0
  /\ IF queued > 0
     THEN queued' = queued - 1 /\ notifier' = "check"
     ELSE notifier' = "done" /\ UNCHANGED queued
  /\ UNCHANGED <<primerVars, monitorVars, stopNotifier, repo>>

\* Of two signaled handles the first is reported: the event comes before the queue.
Wait ==
  /\ notifier = "wait"
  /\ stopNotifier \/ queued > 0
  /\ IF stopNotifier
     THEN notifier' = "done" /\ UNCHANGED queued
     ELSE queued' = queued - 1 /\ notifier' = "check"
  /\ UNCHANGED <<primerVars, monitorVars, stopNotifier, repo>>

\* CheckOverflow or Pop: the queue is cleared, or its head says that events were lost,
\* is a change of some repository, or is to be ignored.
CheckOverflow ==
  /\ notifier = "check"
  /\ \/ notifier' = "eventsLost" /\ queued' \in {0, queued}
     \/ notifier' \in {"lookup", "wait"} /\ UNCHANGED queued
  /\ UNCHANGED <<primerVars, monitorVars, stopNotifier, repo>>

OnEventsLost ==
  /\ notifier = "eventsLost"
  /\ notifier' = "wait"
  /\ UNCHANGED <<primerVars, monitorVars, stopNotifier, queued, repo>>

\* OnFileChanged: the token's repository, under the read lock of the map.
FindToken(r) ==
  /\ notifier = "lookup"
  /\ repo' = r
  /\ notifier' = "invalidate"
  /\ UNCHANGED <<primerVars, monitorVars, stopNotifier, queued>>

Invalidate ==
  /\ notifier = "invalidate"
  /\ notifier' = "schedule"
  /\ UNCHANGED <<primerVars, monitorVars, stopNotifier, queued, repo>>

\* Mutant: the mutex is released before the wait is started again.
SchedulePrimingAndReturn ==
  /\ notifier = "schedule"
  /\ SchedulePrimingForRepositoryPathInFiveSeconds(repo)
  /\ notifier' = "wait"
  /\ repo' = NoRepo
  /\ UNCHANGED <<monitorVars, stopNotifier, queued>>

SchedulePriming ==
  /\ notifier = "schedule"
  /\ SchedulePrimingForRepositoryPathInFiveSeconds(repo)
  /\ notifier' = IF scheduler' = "wait" THEN "rearm" ELSE "wait"
  /\ repo' = IF scheduler' = "wait" THEN repo ELSE NoRepo
  /\ UNCHANGED <<monitorVars, stopNotifier, queued>>

FinishScheduling ==
  /\ notifier = "rearm"
  /\ WaitAgain
  /\ notifier' = "wait"
  /\ repo' = NoRepo
  /\ UNCHANGED <<monitorVars, stopNotifier, queued>>

Notifier ==
  \/ Wait \/ CheckOverflow \/ OnEventsLost
  \/ \E r \in Repos : FindToken(r)
  \/ Invalidate \/ SchedulePriming \/ FinishScheduling

-----------------------------------------------------------------------------
(* The main thread, in the destructor of StatusController.                 *)

\* The map and its mutex, which have no thread of their own, and at the end the cache.
DestroyMember ==
  /\ \/ destroyed = 0
     \/ Destroying("cache")
  /\ destroyed' = destroyed + 1
  /\ UNCHANGED <<primerVars, monitor, notifierVars>>

\* ~DirectoryMonitor: m_readDirectoryChanges.Terminate() returns.
TerminateWatcher ==
  /\ Destroying("monitor")
  /\ monitor = "alive"
  /\ monitor' = IF notifier = "none" THEN "joined" ELSE "signal"
  /\ UNCHANGED <<primerVars, destroyed, notifierVars>>

\* Mutant: the event is not set.
JoinWithoutSignal ==
  /\ monitor = "signal"
  /\ monitor' = "join"
  /\ UNCHANGED <<primerVars, destroyed, notifierVars>>

SignalNotifier ==
  /\ monitor = "signal"
  /\ stopNotifier' = TRUE
  /\ monitor' = "join"
  /\ UNCHANGED <<primerVars, destroyed, queued, notifier, repo>>

\* Mutant: the thread is detached.
DetachNotifier ==
  /\ monitor = "join"
  /\ monitor' = "joined"
  /\ UNCHANGED <<primerVars, destroyed, notifierVars>>

JoinNotifier ==
  /\ monitor = "join"
  /\ notifier = "done"
  /\ monitor' = "joined"
  /\ UNCHANGED <<primerVars, destroyed, notifierVars>>

MonitorDestroyed ==
  /\ Destroying("monitor")
  /\ monitor = "joined"
  /\ destroyed' = destroyed + 1
  /\ UNCHANGED <<primerVars, monitor, notifierVars>>

\* ~CachePrimer.
DestroyPrimer ==
  /\ Destroying("primer")
  /\ SetStopEvent \/ CancelTimer \/ JoinPrimingThread
  /\ destroyed' = IF destructor' = "joined" THEN destroyed + 1 ELSE destroyed
  /\ UNCHANGED <<monitor, notifierVars>>

MainThread ==
  DestroyMember \/ TerminateWatcher \/ SignalNotifier \/ JoinNotifier \/ MonitorDestroyed
  \/ DestroyPrimer

-----------------------------------------------------------------------------
\* The timer and the priming thread, as in CachePrimer.
PrimingThread ==
  /\ \/ TimerExpires \/ RunReturns \/ StartPrimingThread \/ DispatchAborted \/ DispatchExpired
     \/ SwapRepositories \/ (\E r \in Repos : PrimeCacheEntry(r)) \/ FinishPriming
     \/ PollStopEvent
  /\ UNCHANGED <<monitorVars, notifierVars>>

TeardownNext ==
  \/ StartNotifier \/ NotificationArrives
  \/ Notifier
  \/ MainThread
  \/ PrimingThread

TeardownSpec == TeardownInit /\ [][TeardownNext]_teardownVars

\* The threads of CachePrimer and the others are scheduled; the main thread may be
\* told to shut down or not, but a destructor that has begun goes on.
FairTeardownSpec ==
  /\ TeardownSpec
  /\ Fairness
  /\ WF_teardownVars(Notifier)
  /\ WF_teardownVars(destroyed > 0 /\ MainThread)

-----------------------------------------------------------------------------
(* Properties.                                                             *)

\* What each thread is about to touch.
Uses(member) ==
  CASE member = "tokens" -> notifier = "lookup"
    [] member = "monitor" -> notifier \notin {"none", "done"}
    [] member = "primer" -> notifier \in {"schedule", "rearm"} \/ thread # "done"
    [] member = "cache" -> notifier \in {"eventsLost", "invalidate"} \/ thread = "prime"

(***************************************************************************)
(* No thread touches the queue, the primer or the cache after its          *)
(* destruction, wherever the notification thread and the priming thread    *)
(* are when it begins: the members are declared in an order that joins     *)
(* each thread before anything it works with goes (CacheInvalidator.h:18). *)
(***************************************************************************)
UsedIsAlive ==
  \A member \in {"monitor", "primer", "cache"} : Uses(member) => Alive(member)

(***************************************************************************)
(* The destructor never waits for ever for the notification thread, even   *)
(* with notifications still in the queue: it goes on to the primer.        *)
(***************************************************************************)
NotifierIsJoined == Destroying("monitor") ~> Destroying("primer")

(***************************************************************************)
(* "This class is thread-safe." (CacheInvalidator.h:5): the map of tokens  *)
(* and its mutex are alive when the notification thread looks a token up.  *)
(* Does not hold: they are declared last, so they go first.                *)
(***************************************************************************)
TokensAreAlive == Uses("tokens") => Alive("tokens")
=============================================================================
