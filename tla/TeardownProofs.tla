---------------------------- MODULE TeardownProofs ----------------------------
(***************************************************************************)
(* Proofs about CachePrimer, and about Teardown, which composes it with    *)
(* the thread that schedules and the one that destroys.  All hold for any  *)
(* repositories and any number of calls and notifications.                 *)
(***************************************************************************)
EXTENDS Teardown, TLAPS

-----------------------------------------------------------------------------
(* CachePrimer: the timer has one round of priming on the way at a time,   *)
(* and always one.  AlwaysOneRound is inductive once the types are known:  *)
(* Rounds counts every place where a round can be, so each step moves it   *)
(* or leaves it.                                                           *)

IInv == TypeOK /\ AlwaysOneRound

\* The two calls that leave one wait behind and take the rest of the timer along.
LEMMA RearmKeeps ==
  ASSUME IInv, SchedulePrimingInSixtySeconds, thread \in {"start", "prime"}
  PROVE  IInv'
<1>1. pending = 0 /\ expired = 0
  BY SMT DEF IInv, TypeOK, AlwaysOneRound, Rounds, SchedulePrimingInSixtySeconds
<1>2. TypeOK'
  BY <1>1, SMT DEF IInv, TypeOK, SchedulePrimingInSixtySeconds, setVars, stopVars
<1>3. AlwaysOneRound'
  BY <1>1, SMT DEF IInv, TypeOK, AlwaysOneRound, Rounds, SchedulePrimingInSixtySeconds, stopVars
<1>. QED
  BY <1>2, <1>3 DEF IInv

\* Every step keeps the types and the single round.
LEMMA StepKeeps ==
  ASSUME IInv, [Next]_vars
  PROVE  IInv'
<1>a. TypeOK /\ AlwaysOneRound
  BY DEF IInv
<1>1. CASE TimerExpires
  <2>1. TypeOK'
    BY <1>1, <1>a, SMT DEF TypeOK, AlwaysOneRound, Rounds, TimerExpires, setVars, stopVars
  <2>2. AlwaysOneRound'
    BY <1>1, <1>a, SMT DEF TypeOK, AlwaysOneRound, Rounds, TimerExpires, stopVars
  <2>. QED
    BY <2>1, <2>2 DEF IInv
<1>2. CASE RunReturns
  BY <1>2, <1>a, SMT DEF IInv, TypeOK, AlwaysOneRound, Rounds, RunReturns, timerVars, setVars, stopVars
<1>3. ASSUME NEW r \in Repos, SchedulePrimingForRepositoryPathInFiveSeconds(r)
      PROVE  IInv'
  <2>1. TypeOK'
    BY <1>3, <1>a, MaxSchedulesAssumption, SMT
    DEF MaxSchedulesAssumption, TypeOK, SchedulePrimingForRepositoryPathInFiveSeconds, CancelWaits, stopVars
  <2>2. AlwaysOneRound'
    BY <1>3, <1>a, SMT DEF TypeOK, AlwaysOneRound, Rounds,
       SchedulePrimingForRepositoryPathInFiveSeconds, CancelWaits, stopVars
  <2>. QED
    BY <2>1, <2>2 DEF IInv
<1>4. CASE WaitAgain
  <2>1. pending = 0
    BY <1>4, <1>a, SMT DEF TypeOK, AlwaysOneRound, Rounds, WaitAgain
  <2>2. TypeOK'
    BY <1>4, <1>a, <2>1, SMT DEF TypeOK, WaitAgain, setVars, stopVars
  <2>3. AlwaysOneRound'
    BY <1>4, <1>a, <2>1, SMT DEF TypeOK, AlwaysOneRound, Rounds, WaitAgain, stopVars
  <2>. QED
    BY <2>2, <2>3 DEF IInv
<1>5. CASE StartPrimingThread
  BY <1>5, RearmKeeps DEF StartPrimingThread
<1>6. CASE DispatchAborted
  <2>1. TypeOK'
    BY <1>6, <1>a, SMT DEF TypeOK, DispatchAborted, setVars, stopVars
  <2>2. AlwaysOneRound'
    BY <1>6, <1>a, SMT DEF AlwaysOneRound, Rounds, DispatchAborted, stopVars
  <2>. QED
    BY <2>1, <2>2 DEF IInv
<1>7. CASE DispatchExpired
  <2>1. TypeOK'
    BY <1>7, <1>a, SMT DEF TypeOK, DispatchExpired, setVars, stopVars
  <2>2. AlwaysOneRound'
    BY <1>7, <1>a, SMT DEF TypeOK, AlwaysOneRound, Rounds, DispatchExpired, stopVars
  <2>. QED
    BY <2>1, <2>2 DEF IInv
<1>8. CASE SwapRepositories
  BY <1>8, <1>a, SMT DEF IInv, TypeOK, AlwaysOneRound, Rounds, SwapRepositories, timerVars, stopVars
<1>9. ASSUME NEW r \in Repos, PrimeCacheEntry(r)
      PROVE  IInv'
  BY <1>9, <1>a, SMT DEF IInv, TypeOK, AlwaysOneRound, Rounds, PrimeCacheEntry, timerVars, stopVars
<1>10. CASE FinishPriming
  BY <1>10, RearmKeeps DEF FinishPriming
<1>11. CASE PollStopEvent
  BY <1>11, <1>a, SMT DEF IInv, TypeOK, AlwaysOneRound, Rounds, PollStopEvent, timerVars, setVars, stopVars
<1>12. CASE Destroy
  BY <1>12, <1>a, SMT
  DEF IInv, TypeOK, AlwaysOneRound, Rounds, Destroy, SetStopEvent, timerVars, setVars
<1>13. CASE CancelTimer
  BY <1>13, <1>a, SMT DEF IInv, TypeOK, AlwaysOneRound, Rounds, CancelTimer, CancelWaits, setVars
<1>14. CASE JoinPrimingThread
  BY <1>14, <1>a, SMT DEF IInv, TypeOK, AlwaysOneRound, Rounds, JoinPrimingThread, timerVars, setVars
<1>15. CASE UNCHANGED vars
  BY <1>15, <1>a, SMT DEF IInv, TypeOK, AlwaysOneRound, Rounds, vars
<1>. QED
  BY <1>1, <1>2, <1>3, <1>4, <1>5, <1>6, <1>7, <1>8, <1>9, <1>10, <1>11, <1>12, <1>13, <1>14, <1>15
  DEF Next, Schedule

\* A primer that has just been constructed has no round on the way.
LEMMA InitKeeps == Init => IInv
<1>1. Init => TypeOK
  <2>1. Init => schedules \in 0..MaxSchedules
    BY MaxSchedulesAssumption DEF MaxSchedulesAssumption, Init
  <2>2. Init => ioStopped \in BOOLEAN /\ stopEvent \in BOOLEAN
    BY Zenon DEF Init
  <2>3. Init => repositoriesToPrime \in SUBSET Repos /\ priming \in SUBSET Repos
    BY SMT DEF Init
  <2>4. Init => pending \in 0..1 /\ expired \in 0..1 /\ aborted \in Nat
    BY SMT DEF Init
  <2>5. Init => /\ delay \in {"unset", "five", "sixty"}
                /\ scheduler \in {"idle", "wait"}
                /\ thread \in {"start", "run", "swap", "prime", "poll", "done"}
                /\ destructor \in {"none", "cancel", "join", "joined"}
    BY Zenon DEF Init
  <2>. QED
    BY <2>1, <2>2, <2>3, <2>4, <2>5, Zenon DEF TypeOK
<1>2. Init => AlwaysOneRound
  BY SMT DEF Init, AlwaysOneRound, Rounds
<1>. QED
  BY <1>1, <1>2 DEF IInv

\* Every behaviour of the primer keeps the inductive invariant (CachePrimer.cpp).
THEOREM Inductive == Spec => []IInv
<1>1. Init => IInv
  BY InitKeeps
<1>2. IInv /\ [Next]_vars => IInv'
  BY StepKeeps
<1>. QED
  BY <1>1, <1>2, PTL DEF Spec

\* Every variable keeps its type; in particular the timer never has two waits, nor two
\* expiries to handle.  Of cancelled waits any number may be queued.
THEOREM TypeCorrect == Spec => []TypeOK
<1>1. IInv => TypeOK
  BY DEF IInv
<1>. QED
  BY Inductive, <1>1, PTL

(***************************************************************************)
(* From the start of the thread to the destructor's cancel, exactly one    *)
(* round of priming is on its way: a scheduled repository is never left    *)
(* without a wait that will serve it, and never served by two.             *)
(***************************************************************************)
THEOREM OneRoundAtATime == Spec => []AlwaysOneRound
<1>1. IInv => AlwaysOneRound
  BY DEF IInv
<1>. QED
  BY Inductive, <1>1, PTL

-----------------------------------------------------------------------------
(* Teardown: nothing but the map of tokens is used after its destruction,  *)
(* and the composition uses the primer as CachePrimer says, so its round   *)
(* of priming is the only one here too.                                    *)
(*                                                                         *)
(* What links a thread to a member is who has joined it by then: ThreadInv *)
(* says how far the destruction can have come for what the threads do.     *)

ThreadInv ==
  /\ destroyed \in 0..4
  /\ notifier \in {"invalidate", "schedule", "rearm"} => repo \in Repos
  /\ scheduler \in {"idle", "wait"}
  /\ scheduler = "wait" => notifier = "rearm"
  /\ notifier \notin {"none", "done"} => destroyed <= 1
  /\ monitor # "alive" => destroyed >= 1
  /\ monitor = "joined" => notifier \in {"none", "done"}
  /\ destroyed >= 2 => monitor = "joined"
  /\ destroyed >= 3 => thread = "done"
  /\ destructor # "none" => destroyed >= 2

\* Which member is next, by number.
LEMMA Members ==
  ASSUME destroyed \in 0..4
  PROVE  /\ Destroying("monitor") <=> destroyed = 1
         /\ Destroying("primer") <=> destroyed = 2
         /\ Destroying("cache") <=> destroyed = 3
         /\ destroyed <= 1 => Alive("monitor")
         /\ destroyed <= 2 => Alive("primer")
         /\ destroyed <= 3 => Alive("cache")
<1>. DEFINE D == DestructionOrder
<1>1. /\ Len(D) = 4
      /\ D[1] = "tokens" /\ D[2] = "monitor" /\ D[3] = "primer" /\ D[4] = "cache"
  BY DEF DestructionOrder
<1>2. destroyed > 0 /\ destroyed < 4 <=> destroyed \in {1, 2, 3}
  OBVIOUS
<1>. HIDE DEF D
<1>3. /\ Destroying("monitor") <=> destroyed = 1
      /\ Destroying("primer") <=> destroyed = 2
      /\ Destroying("cache") <=> destroyed = 3
  BY <1>1, <1>2 DEF Destroying, D
<1>4. \A i \in 1..4 : destroyed < i => Alive(D[i])
  BY <1>1 DEF Alive, D
<1>. QED  BY <1>1, <1>3, <1>4

\* The steps of the notification thread and of what feeds it.
LEMMA NotifierKeeps ==
  ASSUME ThreadInv, StartNotifier \/ NotificationArrives \/ Notifier
  PROVE  ThreadInv'
<1>1. CASE StartNotifier
  BY <1>1 DEF ThreadInv, StartNotifier, primerVars, vars, monitorVars
<1>2. CASE NotificationArrives
  BY <1>2 DEF ThreadInv, NotificationArrives, primerVars, vars, monitorVars
<1>3. CASE Wait
  BY <1>3 DEF ThreadInv, Wait, primerVars, vars, monitorVars
<1>4. CASE CheckOverflow
  BY <1>4 DEF ThreadInv, CheckOverflow, primerVars, vars, monitorVars
<1>5. CASE OnEventsLost
  BY <1>5 DEF ThreadInv, OnEventsLost, primerVars, vars, monitorVars
<1>6. ASSUME NEW r \in Repos, FindToken(r)
      PROVE  ThreadInv'
  BY <1>6 DEF ThreadInv, FindToken, primerVars, vars, monitorVars
<1>7. CASE Invalidate
  BY <1>7 DEF ThreadInv, Invalidate, primerVars, vars, monitorVars
<1>8. CASE SchedulePriming
  <2>1. /\ UNCHANGED <<monitorVars, thread, destructor>>
        /\ scheduler' \in {"idle", "wait"}
    BY <1>8 DEF SchedulePriming, SchedulePrimingForRepositoryPathInFiveSeconds, stopVars
  <2>2. /\ notifier = "schedule"
        /\ \/ scheduler' = "wait" /\ notifier' = "rearm" /\ repo' = repo
           \/ scheduler' # "wait" /\ notifier' = "wait"
    BY <1>8 DEF SchedulePriming
  <2>. QED  BY <2>1, <2>2 DEF ThreadInv, monitorVars
<1>9. CASE FinishScheduling
  BY <1>9 DEF ThreadInv, FinishScheduling, WaitAgain, monitorVars, stopVars
<1>. QED
  BY <1>1, <1>2, <1>3, <1>4, <1>5, <1>6, <1>7, <1>8, <1>9 DEF Notifier

\* The steps of the main thread.
LEMMA MainKeeps ==
  ASSUME ThreadInv, MainThread
  PROVE  ThreadInv'
<1>. USE Members
<1>1. CASE DestroyMember
  BY <1>1 DEF ThreadInv, DestroyMember, primerVars, vars, notifierVars
<1>2. CASE TerminateWatcher
  BY <1>2 DEF ThreadInv, TerminateWatcher, primerVars, vars, notifierVars
<1>3. CASE SignalNotifier
  BY <1>3 DEF ThreadInv, SignalNotifier, primerVars, vars
<1>4. CASE JoinNotifier
  BY <1>4 DEF ThreadInv, JoinNotifier, primerVars, vars, notifierVars
<1>5. CASE MonitorDestroyed
  BY <1>5 DEF ThreadInv, MonitorDestroyed, primerVars, vars, notifierVars
<1>6. CASE DestroyPrimer
  <2>1. /\ destroyed = 2 /\ UNCHANGED <<monitor, notifier, repo, thread, scheduler>>
        /\ destroyed' = 2 \/ (destroyed' = 3 /\ destructor' = "joined")
    BY <1>6 DEF ThreadInv, DestroyPrimer, notifierVars, SetStopEvent, CancelTimer, JoinPrimingThread
  <2>2. destructor' = "joined" => thread = "done"
    BY <1>6 DEF DestroyPrimer, SetStopEvent, CancelTimer, JoinPrimingThread
  <2>. QED  BY <2>1, <2>2 DEF ThreadInv
<1>. QED
  BY <1>1, <1>2, <1>3, <1>4, <1>5, <1>6 DEF MainThread

\* The priming thread does not come back once it is done.
LEMMA PrimingKeeps ==
  ASSUME ThreadInv, PrimingThread
  PROVE  ThreadInv'
<1>1. UNCHANGED <<destroyed, monitor, notifier, repo>>
  BY DEF PrimingThread, monitorVars, notifierVars
<1>2. thread = "done" => thread' = "done"
  BY DEF PrimingThread, TimerExpires, RunReturns, StartPrimingThread,
     SchedulePrimingInSixtySeconds, DispatchAborted, DispatchExpired, SwapRepositories,
     PrimeCacheEntry, FinishPriming, PollStopEvent
<1>3. UNCHANGED <<destructor, scheduler>>
  BY DEF PrimingThread, TimerExpires, RunReturns, StartPrimingThread,
     SchedulePrimingInSixtySeconds, DispatchAborted, DispatchExpired, SwapRepositories,
     PrimeCacheEntry, FinishPriming, PollStopEvent, stopVars
<1>. QED  BY <1>1, <1>2, <1>3 DEF ThreadInv

LEMMA ThreadsAreJoinedInOrder == TeardownSpec => []ThreadInv
<1>1. TeardownInit => ThreadInv
  BY DEF TeardownInit, Init, ThreadInv
<1>2. ThreadInv /\ [TeardownNext]_teardownVars => ThreadInv'
  <2>1. ThreadInv /\ TeardownNext => ThreadInv'
    BY NotifierKeeps, MainKeeps, PrimingKeeps DEF TeardownNext
  <2>2. ThreadInv /\ UNCHANGED teardownVars => ThreadInv'
    BY DEF ThreadInv, teardownVars, primerVars, vars, monitorVars, notifierVars
  <2>. QED  BY <2>1, <2>2
<1>. QED  BY <1>1, <1>2, PTL DEF TeardownSpec

\* No thread uses the queue, the primer or the cache after its destruction, for any
\* repositories: the order of the members of CacheInvalidator (CacheInvalidator.h:18-23)
\* and the joins in the destructors of DirectoryMonitor and CachePrimer.
THEOREM NothingIsUsedAfterItsEnd == TeardownSpec => []UsedIsAlive
<1>1. ThreadInv => UsedIsAlive
  <2>. SUFFICES ASSUME ThreadInv PROVE UsedIsAlive
    OBVIOUS
  <2>1. /\ Uses("monitor") => destroyed <= 1
        /\ Uses("primer") => destroyed <= 2
        /\ Uses("cache") => destroyed <= 2
    BY DEF ThreadInv, Uses
  <2>. QED  BY <2>1, Members DEF ThreadInv, UsedIsAlive
<1>. QED  BY <1>1, ThreadsAreJoinedInOrder, PTL

\* The joins keep the two promises that CachePrimer's Schedule and Destroy ask for, which
\* no action of Teardown makes by itself: ~CachePrimer does not begin while a call is
\* under way, and none is made once it has.  It rests on the order of the members
\* (CacheInvalidator.h:18-23) and on ~DirectoryMonitor joining the thread that calls.
THEOREM PrimerIsUsedAsModelled == TeardownSpec => Spec
<1>1. TeardownInit => Init
  BY DEF TeardownInit
<1>2. ThreadInv /\ [TeardownNext]_teardownVars => [Next]_vars
  <2>. SUFFICES ASSUME ThreadInv, [TeardownNext]_teardownVars PROVE [Next]_vars
    OBVIOUS
  <2>1. CASE StartNotifier \/ NotificationArrives
    BY <2>1 DEF StartNotifier, NotificationArrives, primerVars
  <2>2. CASE Notifier
    <3>1. CASE SchedulePriming
      <4>1. repo \in Repos /\ destructor = "none"
        BY <3>1 DEF ThreadInv, SchedulePriming
      <4>2. SchedulePrimingForRepositoryPathInFiveSeconds(repo)
        BY <3>1 DEF SchedulePriming
      <4>3. Schedule(repo)
        BY <4>1, <4>2 DEF Schedule
      <4>. QED  BY <4>1, <4>3 DEF Next
    <3>2. CASE FinishScheduling
      BY <3>2 DEF FinishScheduling, Next
    <3>3. CASE ~SchedulePriming /\ ~FinishScheduling
      BY <2>2, <3>3 DEF Notifier, Wait, CheckOverflow, OnEventsLost, FindToken, Invalidate,
         primerVars
    <3>. QED  BY <3>1, <3>2, <3>3
  <2>3. CASE MainThread
    <3>1. CASE DestroyPrimer
      <4>1. scheduler = "idle"
        BY <3>1, Members DEF ThreadInv, DestroyPrimer
      <4>. QED  BY <3>1, <4>1 DEF DestroyPrimer, Destroy, Next
    <3>. QED  BY <2>3, <3>1 DEF MainThread, DestroyMember, TerminateWatcher, SignalNotifier,
       JoinNotifier, MonitorDestroyed, primerVars
  <2>4. CASE PrimingThread
    BY <2>4 DEF PrimingThread, Next
  <2>5. CASE UNCHANGED teardownVars
    BY <2>5 DEF teardownVars, primerVars
  <2>. QED  BY <2>1, <2>2, <2>3, <2>4, <2>5 DEF TeardownNext
<1>. QED  BY <1>1, <1>2, ThreadsAreJoinedInOrder, PTL DEF TeardownSpec, Spec

\* So in the whole process there is one round of priming at a time, and always one
\* until the destructor (CachePrimer.cpp:76-89).
THEOREM OneRoundInTheProcess == TeardownSpec => []AlwaysOneRound
<1>. QED  BY PrimerIsUsedAsModelled, OneRoundAtATime, PTL

-----------------------------------------------------------------------------
LEMMA TeardownStepType ==
  ASSUME TypeOK, TypeOK', ThreadInv, ThreadInv', TeardownTypeOK,
         [TeardownNext]_teardownVars
  PROVE  TeardownTypeOK'
<1>. DEFINE Own == /\ destroyed \in 0..4
                   /\ monitor \in {"alive", "signal", "join", "joined"}
                   /\ stopNotifier \in BOOLEAN
                   /\ queued \in 0..MaxSchedules
            At == /\ notifier \in {"none", "wait", "check", "lookup", "invalidate", "schedule",
                                   "rearm", "eventsLost", "done"}
                  /\ repo \in Repos \cup {NoRepo}
                  /\ repo = NoRepo <=> notifier \notin {"invalidate", "schedule", "rearm"}
                  /\ notifier = "rearm" <=> scheduler = "wait"
<1>1. Len(DestructionOrder) = 4
  BY DEF DestructionOrder
<1>2. Own /\ At
  BY <1>1 DEF TeardownTypeOK
<1>3. SUFFICES Own' /\ At'
  BY <1>1 DEF TeardownTypeOK
<1>4. destroyed' \in 0..4
  BY DEF ThreadInv
<1>5. schedules \in Nat /\ MaxSchedules \in Nat /\ scheduler \in {"idle", "wait"}
  BY MaxSchedulesAssumption DEF TypeOK, MaxSchedulesAssumption
<1>6. ASSUME UNCHANGED <<monitorVars, stopNotifier>>, queued' \in 0..MaxSchedules
      PROVE  Own'
  BY <1>2, <1>4, <1>6 DEF monitorVars
<1>7. CASE StartNotifier
  <2>1. Own'
    BY <1>2, <1>6, <1>7 DEF StartNotifier
  <2>2. At'
    BY <1>2, <1>7 DEF StartNotifier, primerVars, vars
  <2>. QED  BY <2>1, <2>2
<1>8. CASE NotificationArrives
  <2>1. queued' \in 0..MaxSchedules
    <3>1. UnderWay >= queued
      BY <1>2 DEF UnderWay
    <3>2. queued < MaxSchedules
      <4>1. UnderWay \in Nat
        BY <1>2 DEF UnderWay
      <4>2. UnderWay + schedules < MaxSchedules
        BY <1>8 DEF NotificationArrives
      <4>. QED  BY <1>2, <1>5, <3>1, <4>1, <4>2
    <3>. QED  BY <1>2, <1>5, <1>8, <3>2 DEF NotificationArrives
  <2>2. Own'
    BY <1>6, <1>8, <2>1 DEF NotificationArrives
  <2>3. At'
    BY <1>2, <1>8 DEF NotificationArrives, primerVars, vars
  <2>. QED  BY <2>2, <2>3
<1>9. CASE Notifier
  <2>1. CASE Wait
    <3>1. queued' \in 0..MaxSchedules
      BY <1>2, <1>5, <2>1 DEF Wait
    <3>2. At'
      BY <1>2, <2>1 DEF Wait, primerVars, vars
    <3>. QED  BY <1>6, <2>1, <3>1, <3>2 DEF Wait
  <2>2. CASE CheckOverflow
    <3>1. queued' \in 0..MaxSchedules
      BY <1>2, <1>5, <2>2 DEF CheckOverflow
    <3>2. At'
      BY <1>2, <2>2 DEF CheckOverflow, primerVars, vars
    <3>. QED  BY <1>6, <2>2, <3>1, <3>2 DEF CheckOverflow
  <2>3. CASE OnEventsLost
    <3>1. At'
      BY <1>2, <2>3 DEF OnEventsLost, primerVars, vars
    <3>. QED  BY <1>2, <1>6, <2>3, <3>1 DEF OnEventsLost
  <2>4. ASSUME NEW r \in Repos, FindToken(r) PROVE Own' /\ At'
    <3>1. At'
      BY <1>2, <2>4, TeardownAssumption DEF FindToken, primerVars, vars
    <3>. QED  BY <1>2, <1>6, <2>4, <3>1 DEF FindToken
  <2>5. CASE Invalidate
    <3>1. At'
      BY <1>2, <2>5 DEF Invalidate, primerVars, vars
    <3>. QED  BY <1>2, <1>6, <2>5, <3>1 DEF Invalidate
  <2>6. CASE SchedulePriming
    <3>1. /\ scheduler' \in {"idle", "wait"}
          /\ notifier = "schedule" /\ notifier' = IF scheduler' = "wait" THEN "rearm" ELSE "wait"
          /\ repo' = IF scheduler' = "wait" THEN repo ELSE NoRepo
          /\ UNCHANGED <<monitorVars, stopNotifier, queued>>
      BY <2>6 DEF SchedulePriming, TypeOK
    <3>. QED  BY <1>2, <1>6, <3>1
  <2>7. CASE FinishScheduling
    <3>1. /\ scheduler' = "idle" /\ notifier' = "wait" /\ repo' = NoRepo
          /\ UNCHANGED <<monitorVars, stopNotifier, queued>>
      BY <2>7 DEF FinishScheduling, WaitAgain
    <3>. QED  BY <1>2, <1>6, <3>1
  <2>. QED  BY <1>9, <2>1, <2>2, <2>3, <2>4, <2>5, <2>6, <2>7 DEF Notifier
<1>10. CASE MainThread
  <2>1. /\ UNCHANGED <<scheduler, notifier, repo>> /\ queued' = queued
        /\ stopNotifier' \in {stopNotifier, TRUE}
        /\ monitor' \in {monitor, "signal", "join", "joined"}
    BY <1>10 DEF MainThread, DestroyMember, TerminateWatcher, SignalNotifier, JoinNotifier,
       MonitorDestroyed, DestroyPrimer, SetStopEvent, CancelTimer, JoinPrimingThread,
       primerVars, vars, notifierVars
  <2>. QED  BY <1>2, <1>4, <2>1
<1>11. CASE PrimingThread
  <2>1. UNCHANGED <<monitorVars, notifierVars, scheduler>>
    BY <1>11 DEF PrimingThread, TimerExpires, RunReturns, StartPrimingThread,
       SchedulePrimingInSixtySeconds, DispatchAborted, DispatchExpired, SwapRepositories,
       PrimeCacheEntry, FinishPriming, PollStopEvent
  <2>. QED  BY <1>2, <1>6, <2>1 DEF notifierVars
<1>12. CASE UNCHANGED teardownVars
  BY <1>2, <1>6, <1>12 DEF teardownVars, primerVars, vars, notifierVars
<1>. QED  BY <1>7, <1>8, <1>9, <1>10, <1>11, <1>12 DEF TeardownNext

\* The notification thread has a repository in hand exactly while it works for one, and
\* holds the primer's mutex exactly while it starts the wait again
\* (CachePrimer.cpp:76-89).
THEOREM TeardownTypeCorrect == TeardownSpec => []TeardownTypeOK
<1>1. TeardownInit => TeardownTypeOK
  <2>. SUFFICES ASSUME TeardownInit PROVE TeardownTypeOK
    OBVIOUS
  <2>1. TypeOK
    BY InitKeeps DEF TeardownInit, IInv
  <2>2. 0 \in 0..Len(DestructionOrder) /\ 0 \in 0..MaxSchedules
    BY MaxSchedulesAssumption DEF DestructionOrder, MaxSchedulesAssumption
  <2>. QED  BY <2>1, <2>2, TeardownAssumption DEF TeardownInit, TeardownTypeOK, Init
<1>2. /\ TypeOK /\ TypeOK' /\ ThreadInv /\ ThreadInv' /\ TeardownTypeOK
      /\ [TeardownNext]_teardownVars
      => TeardownTypeOK'
  BY TeardownStepType
<1>. QED
  BY <1>1, <1>2, ThreadsAreJoinedInOrder, PrimerIsUsedAsModelled, TypeCorrect, PTL
  DEF TeardownSpec
=============================================================================
