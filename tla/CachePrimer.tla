----------------------------- MODULE CachePrimer -----------------------------
(***************************************************************************)
(* CachePrimer: one thread, one timer and the set of repositories whose    *)
(* status is to be reloaded when the timer expires.                        *)
(*                                                                         *)
(* The notification thread schedules repositories (five seconds after the  *)
(* last file change), the priming thread runs the timer's handlers inside  *)
(* io_service::run and re-arms the timer for sixty seconds, and the        *)
(* destructor stops the priming thread.  That nobody schedules during or   *)
(* after the destructor is what Schedule and Destroy ask of the primer's   *)
(* owner; Teardown has the owner and uses the actions without them.  The   *)
(* steps follow boost::asio on Windows, where an io_service that has run   *)
(* out of work makes every later run() return but still dispatches what    *)
(* was posted before.                                                      *)
(*                                                                         *)
(* There is no clock: a pending wait may expire at any time, and the delay *)
(* it was given is remembered.                                             *)
(***************************************************************************)
EXTENDS Naturals, FiniteSets

CONSTANTS Repos,
          MaxSchedules      \* bound on the calls that schedule a repository

ASSUME MaxSchedulesAssumption == MaxSchedules \in Nat

VARIABLES
  repositoriesToPrime,   \* m_repositoriesToPrime
  pending,               \* waits of m_primingTimer that have neither expired nor been cancelled
  delay,                 \* what the timer was last set to
  expired,               \* handlers posted with success, not yet run
  aborted,               \* handlers posted with operation_aborted, not yet run
  ioStopped,             \* m_primingService ran out of work
  scheduler,             \* the notification thread, inside m_primingMutex or not
  thread,                \* the priming thread
  priming,               \* its local repositoriesToPrime
  stopEvent,             \* m_stopPrimingThread is set
  destructor,
  schedules

vars == <<repositoriesToPrime, pending, delay, expired, aborted, ioStopped,
          scheduler, thread, priming, stopEvent, destructor, schedules>>

timerVars == <<pending, delay, expired, aborted, ioStopped>>
setVars == <<repositoriesToPrime, priming>>
stopVars == <<stopEvent, destructor>>

TypeOK ==
  /\ repositoriesToPrime \in SUBSET Repos
  /\ pending \in 0..1
  /\ delay \in {"unset", "five", "sixty"}
  /\ expired \in 0..1
  /\ aborted \in Nat
  /\ ioStopped \in BOOLEAN
  /\ scheduler \in {"idle", "wait"}
  /\ thread \in {"start", "run", "swap", "prime", "poll", "done"}
  /\ priming \in SUBSET Repos
  /\ stopEvent \in BOOLEAN
  /\ destructor \in {"none", "cancel", "join", "joined"}
  /\ schedules \in 0..MaxSchedules

Init ==
  /\ repositoriesToPrime = {}
  /\ pending = 0
  /\ delay = "unset"
  /\ expired = 0
  /\ aborted = 0
  /\ ioStopped = FALSE
  /\ scheduler = "idle"
  /\ thread = "start"
  /\ priming = {}
  /\ stopEvent = FALSE
  /\ destructor = "none"
  /\ schedules = 0

-----------------------------------------------------------------------------
(* The timer, as the code uses it.                                         *)

\* deadline_timer::cancel, and the cancelling half of expires_from_now.
CancelWaits ==
  /\ aborted' = aborted + pending
  /\ pending' = 0

Work == pending + expired + aborted

\* Inside run(): the time has come, the handler is posted.
TimerExpires ==
  /\ thread = "run"
  /\ pending > 0
  /\ expired' = expired + pending
  /\ pending' = 0
  /\ UNCHANGED <<delay, aborted, ioStopped, setVars, stopVars, scheduler, thread, schedules>>

\* run() returns at once, now and in every later call, when work ran out.
RunReturns ==
  /\ thread = "run"
  /\ ioStopped
  /\ thread' = "poll"
  /\ UNCHANGED <<timerVars, setVars, stopVars, scheduler, schedules>>

-----------------------------------------------------------------------------
(* The notification thread.                                                *)

\* Mutants: the wait is always started again, or never.
SchedulePrimingAlwaysWaiting(r) ==
  /\ scheduler = "idle"
  /\ schedules < MaxSchedules
  /\ schedules' = schedules + 1
  /\ repositoriesToPrime' = repositoriesToPrime \cup {r}
  /\ delay' = "five"
  /\ CancelWaits
  /\ scheduler' = "wait"
  /\ UNCHANGED <<expired, ioStopped, priming, stopVars, thread>>
SchedulePrimingNeverWaiting(r) ==
  /\ scheduler = "idle"
  /\ schedules < MaxSchedules
  /\ schedules' = schedules + 1
  /\ repositoriesToPrime' = repositoriesToPrime \cup {r}
  /\ delay' = "five"
  /\ CancelWaits
  /\ UNCHANGED <<expired, ioStopped, priming, stopVars, thread, scheduler>>

\* Under m_primingMutex; the wait is started again only if one was cancelled.
SchedulePrimingForRepositoryPathInFiveSeconds(r) ==
  /\ scheduler = "idle"
  /\ schedules < MaxSchedules
  /\ schedules' = schedules + 1
  /\ repositoriesToPrime' = repositoriesToPrime \cup {r}
  /\ delay' = "five"
  /\ CancelWaits
  /\ scheduler' = IF pending > 0 THEN "wait" ELSE "idle"
  /\ UNCHANGED <<expired, ioStopped, priming, stopVars, thread>>

WaitAgain ==
  /\ scheduler = "wait"
  /\ pending' = pending + 1
  /\ scheduler' = "idle"
  /\ UNCHANGED <<delay, expired, aborted, ioStopped, setVars, stopVars, thread, schedules>>

-----------------------------------------------------------------------------
(* The priming thread.                                                     *)

\* Under m_primingMutex: first thing the thread does, and last of each round.
SchedulePrimingInSixtySeconds ==
  /\ scheduler = "idle"
  /\ delay' = "sixty"
  /\ aborted' = aborted + pending
  /\ pending' = 1                    \* expires_from_now, then async_wait
  /\ thread' = "run"
  /\ UNCHANGED <<expired, ioStopped, setVars, stopVars, scheduler, schedules>>

StartPrimingThread ==
  /\ thread = "start"
  /\ SchedulePrimingInSixtySeconds

\* Mutant: the handler does not look at its error code.
DispatchIgnoringError ==
  /\ thread = "run"
  /\ aborted > 0
  /\ aborted' = aborted - 1
  /\ thread' = "swap"
  /\ UNCHANGED <<pending, delay, expired, ioStopped, setVars, stopVars, scheduler, schedules>>

\* A cancelled wait: the handler returns; it may have been the last work.
DispatchAborted ==
  /\ thread = "run"
  /\ aborted > 0
  /\ aborted' = aborted - 1
  /\ ioStopped' = (ioStopped \/ Work = 1)
  /\ UNCHANGED <<pending, delay, expired, setVars, stopVars, scheduler, thread, schedules>>

DispatchExpired ==
  /\ thread = "run"
  /\ expired > 0
  /\ expired' = expired - 1
  /\ thread' = "swap"
  /\ UNCHANGED <<pending, delay, aborted, ioStopped, setVars, stopVars, scheduler, schedules>>

SwapRepositories ==
  /\ thread = "swap"
  /\ scheduler = "idle"
  /\ priming' = repositoriesToPrime
  /\ repositoriesToPrime' = {}
  /\ thread' = "prime"
  /\ UNCHANGED <<timerVars, stopVars, scheduler, schedules>>

PrimeCacheEntry(r) ==
  /\ thread = "prime"
  /\ r \in priming
  /\ priming' = priming \ {r}
  /\ UNCHANGED <<repositoriesToPrime, timerVars, stopVars, scheduler, thread, schedules>>

FinishPriming ==
  /\ thread = "prime"
  /\ priming = {}
  /\ SchedulePrimingInSixtySeconds

\* WaitForSingleObject(m_stopPrimingThread, 5) between two calls of run().
PollStopEvent ==
  /\ thread = "poll"
  /\ thread' = IF stopEvent THEN "done" ELSE "run"
  /\ UNCHANGED <<timerVars, setVars, stopVars, scheduler, schedules>>

-----------------------------------------------------------------------------
(* ~CachePrimer.                                                           *)

SetStopEvent ==
  /\ destructor = "none"
  /\ stopEvent' = TRUE
  /\ destructor' = "cancel"
  /\ UNCHANGED <<timerVars, setVars, scheduler, thread, schedules>>

\* Under m_primingMutex.
CancelTimer ==
  /\ destructor = "cancel"
  /\ scheduler = "idle"
  /\ CancelWaits
  /\ destructor' = "join"
  /\ UNCHANGED <<delay, expired, ioStopped, setVars, stopEvent, scheduler, thread, schedules>>

JoinPrimingThread ==
  /\ destructor = "join"
  /\ thread = "done"
  /\ destructor' = "joined"
  /\ UNCHANGED <<timerVars, setVars, stopEvent, scheduler, thread, schedules>>

-----------------------------------------------------------------------------

\* What the primer asks of its owner: it is not called during or after its destruction.
Schedule(r) ==
  /\ destructor = "none"
  /\ SchedulePrimingForRepositoryPathInFiveSeconds(r)

Destroy ==
  /\ scheduler = "idle"
  /\ SetStopEvent

Next ==
  \/ TimerExpires
  \/ RunReturns
  \/ \E r \in Repos : Schedule(r)
  \/ WaitAgain
  \/ StartPrimingThread
  \/ DispatchAborted
  \/ DispatchExpired
  \/ SwapRepositories
  \/ \E r \in Repos : PrimeCacheEntry(r)
  \/ FinishPriming
  \/ PollStopEvent
  \/ Destroy
  \/ CancelTimer
  \/ JoinPrimingThread

(***************************************************************************)
(* Threads keep running and PrimeCacheEntry returns: weak fairness.  What  *)
(* happens inside run() gets strong fairness, because run() may return and *)
(* be called again in between: Windows hands out what was posted in order, *)
(* and every call looks for expired timers first.  Nothing makes file      *)
(* changes happen or the destructor begin.                                 *)
(***************************************************************************)
Fairness ==
  /\ SF_vars(TimerExpires) /\ SF_vars(DispatchAborted) /\ SF_vars(DispatchExpired)
  /\ SF_vars(RunReturns)
  /\ WF_vars(WaitAgain)
  /\ WF_vars(StartPrimingThread) /\ SF_vars(SwapRepositories) /\ SF_vars(FinishPriming)
  /\ WF_vars(\E r \in Repos : PrimeCacheEntry(r))
  /\ WF_vars(PollStopEvent)
  /\ WF_vars(CancelTimer) /\ WF_vars(JoinPrimingThread)

Spec == Init /\ [][Next]_vars
FairSpec == Spec /\ Fairness

-----------------------------------------------------------------------------

\* The waits and handlers that lead to another round of priming.
Rounds ==
  pending + expired
  + (IF scheduler = "wait" THEN 1 ELSE 0)
  + (IF thread \in {"swap", "prime"} THEN 1 ELSE 0)

(***************************************************************************)
(* However scheduling, expiry and handlers interleave, the timer never has *)
(* two rounds of priming on the way, and from the thread's start to the    *)
(* destructor's cancel it has one: what is scheduled is always waited for. *)
(* (The test of expires_from_now's result at CachePrimer.cpp:80.)          *)
(***************************************************************************)
AlwaysOneRound ==
  /\ Rounds <= 1
  /\ thread = "start" => Rounds = 0
  /\ thread # "start" /\ destructor \in {"none", "cancel"} => Rounds = 1

(***************************************************************************)
(* A scheduled repository gets its turn once the wave of changes subsides, *)
(* unless the primer is being destroyed, although most calls that schedule *)
(* cancel the wait that was to serve the call before.                      *)
(***************************************************************************)
ScheduledIsPrimed ==
  \A r \in Repos :
    r \in repositoriesToPrime ~> (r \in priming \/ destructor # "none")

(***************************************************************************)
(* If the destructor's cancel left no handler to run but cancelled ones,   *)
(* the priming thread runs out of work, sees the event and is joined.      *)
(***************************************************************************)
CancelledIsJoined ==
  (destructor = "join" /\ Rounds = 0 /\ thread # "start") ~> (destructor = "joined")

(***************************************************************************)
(* "Instructs the cache process to terminate itself." (README.md:98): the  *)
(* destructor's join returns.  Does not hold.                              *)
(***************************************************************************)
DestroyedIsJoined == (destructor = "join") ~> (destructor = "joined")

(***************************************************************************)
(* "Cancels any currently scheduled priming and reschedules for five       *)
(* seconds in the future." (CachePrimer.h:42): a repository that waits for *)
(* priming does not wait for the sixty second timer.  Does not hold.       *)
(***************************************************************************)
ScheduledInFiveSeconds ==
  repositoriesToPrime # {} /\ pending > 0 => delay = "five"
=============================================================================
