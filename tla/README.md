# git-status-cache: a TLA+ model

GitStatusCache.exe answers "what is the git status of this path?" out of a cache
that it keeps current by watching the repositories on disk.  The modules here model
the program's control: who fills and who clears the cache, how a change on disk
travels to the thread that removes an entry, how a status is put together from many
calls to libgit2, how requests are served and how the process stops.  They are
checked with TLC on small instances; the theorems are proved with TLAPS for every
value of the constants.

## The system

Six kinds of threads run in the process: the main thread, the pipe server, one thread
per client, the watcher (ReadDirectoryChanges' worker), the notification thread of
DirectoryMonitor and the priming thread.

| Part | State | Operations | Used by |
| --- | --- | --- | --- |
| `NamedPipeServer`, `NamedPipeInstance` | instances, their threads, pipe handles | wait for a client, read, answer, close, cancel | clients, main |
| `StatusController` | timings of GetStatus, shutdown event | GetStatus, GetCacheStatistics, Shutdown | client threads |
| `StatusCache` | none of its own | look up the cache, then register the directories | `StatusController` |
| `Cache` | `m_cache`, seven counters | `GetStatus`, `PrimeCacheEntry`, two invalidations, statistics | client, priming, notification threads |
| `Git` | none | find a repository, compute its status | `Cache`, `StatusController` |
| `CacheInvalidator` | `m_tokensToRepositories` | register directories, `OnFileChanged`, events lost | client and notification threads |
| `DirectoryMonitor` | `m_directories`, its thread | `AddDirectory`, `WaitForNotifications` | `CacheInvalidator` |
| `CReadDirectoryChanges` | worker thread, one request per directory | add, read, terminate | `DirectoryMonitor`, Windows |
| `CThreadSafeQueue` | list, semaphore, overflow flag | push, pop, clear | watcher and notification threads |
| `CachePrimer` | scheduled repositories, a timer, its thread | schedule in 5 s, in 60 s, expiry, destruction | notification and priming threads |

How they meet.  A client thread calls `StatusCache::GetStatus`, which reads the
cache (and on a miss queries git with no lock held and stores the answer) and *then*
has the working and the .git directory of the repository watched.  Windows reports a
change to the watcher, which pushes a notification with the directory's token.  The
notification thread waits on the queue's semaphore, pops, finds the repository of
the token, removes its entry and schedules it for priming.  A queue or a buffer that
overflows makes it clear the whole cache.  When the timer expires the priming thread
loads the scheduled repositories again, by the same unlocked query.

What is hard here: state that is read, then used after the lock was given up (the
query and its store, the registration of directories, the queue's two-part push);
counters and flags at their limits; threads stopped by calls that reach them only
while they block; a timer whose expiry races with its cancellation; and a status read
in a dozen calls while another program works in the repository.

What makes each part correct:

| Part | It is correct when |
| --- | --- |
| cache and invalidation | an outdated entry has its removal on the way, and is removed in the end |
| registration | a directory is opened once, and its token leads to its repository before a change is handled |
| queue | no item waits without a signal, order is kept, no loss is forgotten |
| watcher | an open directory always has a read under way; nothing runs after deletion |
| primer | one round of priming at a time, none is forgotten, the thread can be joined |
| destruction | no thread works with a member that has been destroyed; each is joined |
| requests | each is accepted or refused by what it says, and answered and counted once |
| statistics | numbers read one by one fit together |
| pipe | each request is answered, the server always listens again, threads are joined |
| git | an undisturbed status is exact, a disturbed one is not made up |

## Modules

| Module | Models | A step is |
| --- | --- | --- |
| `Cache` | Cache.cpp: the map and the calls into it | a critical section of `m_cacheMutex`, or the query |
| `StatusCache` (on `Cache`) | StatusCache, CacheInvalidator, DirectoryMonitor, the watcher's records, what priming does to the cache | a critical section or a call between two of them |
| `StatusService` | the abstract promise of the cache | a change, an answer, an announcement, a removal |
| `NotificationQueue` | ThreadSafeQueue.h and the loop that consumes it | a lock, a semaphore operation, a flag |
| `NotificationService` | the abstract promise of the queue | send, deliver, give up, report |
| `DirectoryNotifications` (on `NotificationQueue`) | records of changes, reads, buffers and the completions that push them | what Windows does to a record or a read, a step of the worker, or one of the queue |
| `CachePrimer` | CachePrimer.cpp with boost::asio's timer and io_service | a posted handler, a call on the timer, a lock |
| `Teardown` (on `CachePrimer`) | the destruction of CacheInvalidator's members with the notification thread still running | a step of the primer, of the notification thread, or of a destructor |
| `CacheStatistics` | the counters of Cache, in the calls that move them | one atomic increment or what it counts |
| `StatusController` (on `CacheStatistics`) | HandleRequest, GetStatus, the statistics report, Shutdown | a call, or one read of a counter |
| `NamedPipe` | NamedPipeServer, NamedPipeInstance, shutdown, main | one blocking call or what follows it |
| `ReadChanges` | CReadDirectoryChanges and its worker | one APC, or one call that queues APCs |
| `Git` | `Git::GetStatus` | one call to libgit2, one file read, or one entry of the status list |
| `MCStatusCache`, `MCGit` | the layouts and repositories that are checked | |
| `StatusCacheProofs`, `NotificationQueueProofs`, `DirectoryNotificationsProofs`, `TeardownProofs` (also of `CachePrimer`), `StatusControllerProofs` (also of `CacheStatistics`), `NamedPipeProofs`, `ReadChangesProofs`, `GitProofs` | theorems | |

`Cache` and `StatusCache`.  What git would report of a repository is a version number
`disk[r]` that each change increments; an entry is *stale* when its version is not
that of the disk.  `cache` is `m_cache`, `call[c]` where a thread is inside
`GetStatus` or `PrimeCacheEntry`.  `directories`, `tokensToRepositories`,
`repositoriesToPrime` carry the code's names; a directory stands for its token,
because DirectoryMonitor never reuses one.  `adds` is the queue of APCs to the
watcher, `unread[d]` what Windows still holds for a watched directory (more than
`BufferLimit` means that it was discarded and a "changes lost" will be reported).
`exposed[r]` is history: it is TRUE when no watch can have seen the change that made
the entry stale.  A repository cloned into another one reports its changes to both
(`Inside`).  Bare repositories have no entry, since `Git::GetStatus` rejects them.

`StatusService` says what all this is for, without a thread, a watch, a token or a
queue.  It has the disk, the cache, the repositories with `news` on the way and those
that are outdated `unseen`.  An answer is one that was right some time in the past; news
goes only with the entry it is about.  `StatusCache` implements it with *news* as
what is announced anywhere between Windows' buffer and OnFileChanged, and *unseen* as
`exposed`.

Here a query is one step.  That loses nothing about the cache: a change in the middle
of a query is reported like one after it, so both leave the same state.  What happens
inside the query is `Git`'s subject.  Likewise pop and clear of the queue are one step
each here, and `NotificationQueue` takes them apart.  A push that finds the semaphore
full is two, because the notification thread may come in between: `raising` is TRUE
while the entry has been taken back and the overflow flag is not up yet.

`NotificationQueue` numbers the notifications.  `producer` and `consumer` say where
the two threads are in push and in the loop, `missed` is history: what was removed
and not dispatched since the cache was last cleared.  `failed` means that undefined
behaviour was met (`pop_back` or an entry that is not there).

`DirectoryNotifications` puts in front of that queue what fills it.  Windows records
up to `BufferLimit` changes of a directory while no read takes them (`recorded`) and
throws all away when there is one more (`discarded`).  A pending read (`reading`)
completes with the records, which land in `buffer` (m_Buffer), or with no bytes when
they were thrown away.  The worker takes a completion, copies the buffer (`backup`,
m_BackupBuffer), reads again and pushes record by record, so the next read may fill
m_Buffer in the middle of this.  Dispatch and report are joined to the loop's steps in
`NotificationQueue`.  `carried` is history: what each push was about; `unknown`: the
changes of which the cache has heard nothing.  Directories that fail or close are
`ReadChanges`' subject, tokens and repositories are `StatusCache`'s.

`CachePrimer` has no clock: a wait may expire at any time; `delay` remembers what it
was set to.  `pending`, `expired` and `aborted` are the waits and the posted
handlers.  On Windows an io_service that ran out of work stays stopped, but its
next `run` still dispatches what was posted before: `RunReturns` and `PollStopEvent`.

`Teardown` adds to the primer the only thread that schedules.  `notifier` is where the
notification thread is, in its loop and inside OnFileChanged; the half of the
scheduling that waits for the timer again is a stage of its own (`rearm`), so that
the destructors may come between.  `destroyed` counts the members in
`DestructionOrder`, the reverse of their declaration; `monitor` is where
~DirectoryMonitor is.  `queued` only counts notifications, since where they come from
does not matter here.  The worker of the directories is taken to have ended by then;
that `Terminate` may give up after ten seconds is in `ReadChanges`.  What `CachePrimer`
by itself has to assume of its owner, that nobody schedules during or after its
destructor, stands in the two actions `Schedule` and `Destroy` of its next-state
relation.  `Teardown` uses the actions behind them without that guard, so that the
destructors and joins have to ensure it.

`StatusController`: a request is a record of what its document says of the four fields
that are looked at, with any combination of flaws.  `request[t]` is the stage of a thread
in HandleRequest, and the call into the cache goes through the counters of
`CacheStatistics`, whose other two threads prime and invalidate meanwhile.  The
statistics request reads the counters in the order of the code (`Counters`, `progress`) and then the timings, of which the
number of calls is kept: nothing depends on how long a call took.  `answered` and
`answeredBefore` are history.

`NamedPipe` distinguishes "about to make a blocking call" from "blocked in it",
because `CancelSynchronousIo` only ends the latter: `Blocked` says when a call has not
completed.  A short response stays in the pipe until the client reads it; a long one
keeps WriteFile waiting and is withdrawn when that is cancelled.  A request of more than
4096 bytes and a CreateNamedPipe that fails end the process (`terminated`), as an
exception does that leaves a thread.  An instance is the memory of a NamedPipeInstance,
used again after it was destroyed.

`ReadChanges` holds for each worker the sequence of its APCs; all of them run before
`SleepEx` returns.  Two first calls of AddDirectory may each start a worker, and the ten
seconds of Terminate may run out wherever the worker is (`WaitTimesOut`).  Once the
server is deleted, after either, the model ends: what a worker would do to it then is
undefined.

`Git` keeps a record of what each call to libgit2 would answer at this moment
(`disk`) and all such records during the query (`seen`).  `git_status_list_new` takes
down the changed files at one moment (`statusList`); the loop of GetFileStatus then
handles them one per step, while the disk goes on changing.  An entry has two deltas, of
which libgit2 may leave out one (`NoDelta`).  libgit2, boost::asio and
Windows are modelled from how the code uses them and marked external.

## Runs

| Run | Configuration | What it shows |
| --- | --- | --- |
| `safe` | StatusCache_safe | two requests, all other threads, one repository with two directories that may fail (1,266,115 states): TypeOK, StaleEntryIsAnnounced, WatchedOnce, ServedIsMapped, StatusService as refinement |
| `live` | StatusCache_live | two changes, buffer and queue overflow, fair threads (80,024 states): StaleEntryIsDropped |
| `queue` | DirectoryNotifications | four changes in two directories, records, reads and buffers, push, pop and clear taken apart, a queue of one (84,837 states): ItemsAreSignaled, LossIsRemembered, NotificationService as refinement, ChangeIsOnItsWay, PushedInOrder, ChangeArrives |
| `primer` | Teardown | timer, handlers, scheduling thread, destructors (16,793 states): AlwaysOneRound, UsedIsAlive, ScheduledIsPrimed, CancelledIsJoined, NotifierIsJoined |
| `controller` | StatusController | requests of two clients with every combination of flaws, counters read one by one (1,317,396 states): EffectiveWithinTotal, RemovedWasStored, LookupsAreRequests, AnsweredIsReported, AnswerIsDeserved |
| `pipe` | NamedPipe | a client that comes and goes, asks, asks too much and shuts down (300,737 states): ThreadsHaveOwners, RequestIsAnswered, ServerListens, AbortedIsJoined, CancelledThreadIsJoined |
| `watcher` | ReadChanges | three directories, two workers, reads that complete, fail and are cancelled, a wait that may time out at any time (81,729 states): OpenIsRead, OutstandingCounts, TerminatedIsQuiet, CancelledIsEnded |
| `git` | Git_exact | sixteen repositories, two changes during a query (1,661,479 states): UndisturbedIsExact, CountsWereTrue, FilesAreListed |
| `gap` | StatusCache_gap | violated: QuietCacheIsCurrent |
| `token` | StatusCache_token | violated: TokenIsKnown |
| `phantom` | NotificationQueue_phantom | violated: SignaledMeansEntry |
| `primer_hang` | CachePrimer_hang | violated: DestroyedIsJoined |

The properties that hold:

* *StaleEntryIsAnnounced* is the heart of the design.  If an entry was current when
  it was stored and every later change was seen by a watch, then an outdated entry
  has something on the way that removes it: an unread report, a notification in the
  queue, the overflow flag, up or about to be, or the notification thread at work.
  *StaleEntryIsDropped* says that it arrives, with one exception that the code makes: a
  flag that is raised when the notification thread has just emptied the queue waits for
  the next notification (`LossWaits`).  *ServiceSpec* (of `StatusCache`) says more, step by
  step: what is stored was right once, and nobody gets rid of a piece of news but by removing the
  entry.
* *WatchedOnce*, *ServedIsMapped*: registration is split over two locks and an APC,
  and two requests for one repository interleave in it.
* *ItemsAreSignaled*: an item is entered before its signal is given and may be taken
  back; still no item is left that nobody will be woken for.
* *ChangeIsOnItsWay*: a change passes four buffers on its way (Windows' record,
  m_Buffer, m_BackupBuffer, the queue), each of which can overflow or be overwritten;
  at every moment it is in one of them or its loss is known to somebody who will report
  it.  *PushedInOrder* rests on the copy made before the next read; *ChangeArrives* is
  the same path in the end.
* *UsedIsAlive*: the notification thread invalidates and schedules, the priming
  thread loads, and the destructors take away what they use in an order that only the
  declaration of the members fixes.  *NotifierIsJoined*: the join that this rests on
  ends, wherever in its loop the thread is.
* *AlwaysOneRound*: `expires_from_now` may cancel a wait, or come when the handler
  is already posted or running; there are never two rounds on the way and never none.
* *EffectiveWithinTotal*, *RemovedWasStored*: these rest on the order of the
  increments and of the reads, which no lock enforces.  The second is about the counters
  at one moment: a response, which reads one after another, may show more effective
  invalidations than misses and effective primes.
* *LookupsAreRequests*, *AnsweredIsReported*: the counters of the cache and the timings
  of the controller are two ledgers of the same requests, written and read at different
  times; a report shows no lookup beyond its requests and those still running, and
  misses no request that was answered before it was asked for.
* *AnswerIsDeserved*: only a request that passes every check is acted upon, and an
  error is the answer exactly when the request or its repository deserves it.
* *RequestIsAnswered*: also for the Shutdown that has the server destroyed while its
  answer is not written yet.  A long response counts when the client has read it; one that
  is in the middle of WriteFile when the server is destroyed is taken back.
  *CancelledThreadIsJoined*: the destructor does not wait for a client that has read its answer.
* *TerminatedIsQuiet*: completions that were queued before the termination come after it
  and try to read again, and another worker may be opening directories; still the worker
  that Terminate waits for has no read once it has run the termination, and nothing is
  queued to it when the server is deleted because it ended.
* *CountsWereTrue*: the ahead and behind counts are those of the reported branch and
  its upstream, although both may move while the query runs.
* *FilesAreListed*: the files are those of one moment of the query, whatever changes
  meanwhile, each listed under each of its flags and in its order, and a conflict once
  although libgit2 reports it in two entries.

The properties that the code does not keep, each with the line that promises it:

* *QuietCacheIsCurrent* (Cache.h:31).  `StatusCache::GetStatus` stores first and
  watches afterwards; a change in between is seen by nobody and the entry stays
  wrong until the next change.
* *TokenIsKnown* (CacheInvalidator.h:8).  The watch starts before the token is in
  `m_tokensToRepositories`; a change reported in between makes `OnFileChanged` throw
  out of the notification thread, which terminates the process.
* *SignaledMeansEntry* (ReadDirectoryChanges.h:122).  A clear between the list
  operation and the signal of a push leaves a signal without an entry, and the loop
  ignores that `Pop` then fails.
* *DestroyedIsJoined* (README.md:98).  A cancel that comes while the priming thread is
  in its handler is undone when the handler sets the timer again.

### Further configurations

These are kept beside the runs and are checked in the same way
(`tlc -config X.cfg M`).  The first one holds, the others each end with a
counterexample to the property in their configuration.

| Configuration | Module | Shows |
| --- | --- | --- |
| StatusCache_nested | MCStatusCache | holds: the invariants and the refinement of `safe` for a repository cloned into another (4,165,996 states) |
| StatusCache_race | MCStatusCache | *InvalidationIsNotUndone*: a query overtaken by the invalidation stores its answer after it (Cache.cpp:35) |
| StatusCache_failure | MCStatusCache | *FailureIsForgotten*: a failed query is cached, and nothing is watched that would remove it |
| StatusCache_unreported | MCStatusCache | *StaleEntryIsRemoved*: the same flag as in NotificationQueue_unreported, seen from the cache: the outdated entry stays until something else changes |
| StatusCache_open | MCStatusCache | *RegisteredIsWatched*: a directory that cannot be opened stays registered |
| NotificationQueue_takeback | NotificationQueue | *EntryIsThereToTakeBack*: `pop_back` without the lock on a list the consumer has emptied (ThreadSafeQueue.h:61) |
| NotificationQueue_unreported | NotificationQueue | *LossIsReported*: the flag raised after the consumer took the last item is seen only with the next change |
| CachePrimer_sixty | CachePrimer | *ScheduledInFiveSeconds*: what is scheduled while the handler runs waits for sixty seconds |
| Teardown_tokens | Teardown | *TokensAreAlive*: the map of tokens and its mutex are destroyed before the notification thread that uses them is joined (CacheInvalidator.h:21-23) |
| NamedPipe_connect | NamedPipe | *CancelledServerIsJoined*: the cancel comes between two connects |
| NamedPipe_exit | NamedPipe | *DestroyedIsExited*: the cancel comes while a client's thread handles a request |
| ReadChanges_workers | ReadChanges | *OneWorker*: two first calls of AddDirectory start a worker each |
| ReadChanges_timeout | ReadChanges | *DeletedIsQuiet*: Terminate gives up after ten seconds and the server is deleted while its worker still has something to do (ReadDirectoryChanges.cpp:72) |
| ReadChanges_deletion | ReadChanges | *RequestsDeleteThemselves*: a completion queued before the termination reads again on a closed handle |
| Git_torn | MCGit | *BranchWasTrue*: HEAD changes between the check that it is detached and the reading of the file |
| Git_partial | MCGit | *FailedPartIsReported*: errors of three of the five parts are dropped |

### Bounds

* `MaxVersion` (changes per repository), `MaxSent`, `MaxSchedules`, `MaxOperations`,
  `MaxChanges` (changes on disk during one query, or on the way to the queue) bound
  what the environment does; in `Teardown`, `MaxSchedules` bounds the notifications.
  They say that a wave of activity subsides; they do not weaken the safety
  properties beyond the length of the wave.
* `QueueLimit` and `BufferLimit` are 1 or 2 (1000 notifications and 16 KB in the
  code), so that a run overflows them: four changes in two directories overflow the record of
  one and the queue at once.  The theorems hold for every limit.
* `MaxOperations` 4 (requests, primes and invalidations together) lets two requests, a
  statistics request and one of the other threads overlap in every way.
* One `Instances` value is kept free for the server, so that three of them serve two
  threads at a time beside the instance that listens: the thread of a client that
  has left and that of the next one.
* `Workers`: two are enough to show that there can be more than one.
* `MCGit!Repositories` has a repository for each way through `GetRefStatus`: on a
  branch, up to date, ahead, behind or both, with an upstream that is gone, remote or local, unborn,
  detached, in both kinds of rebase, merging, bisecting, bare, or none at all.

### Fairness

Weak fairness of each thread's own steps: the operating system schedules threads,
and no lock here is held across a blocking call.  The watcher's steps include
Windows' completion of reads that have something to report.  Only what happens inside
`io_service::run` in `CachePrimer` has strong fairness: while the service is out of
work `run` returns and is called again every five milliseconds, so a handler is not
continuously at hand, but each call dispatches what was posted, in order, and looks
for expired timers first.  Nothing is assumed of clients (but see `LongIsRead` below),
of changes on disk or of the failure of a read; a timer that is set expires at some
time.  In `ReadChanges` neither a completion nor the destructor has to come; a wait ends
with its object, and its ten seconds may run out before or never.
In `DirectoryNotifications` Windows completes a read that has something to tell, and
the worker and the notification thread are scheduled.  In `Teardown` the notification
thread is, and the main thread once it has begun to destroy; before that nobody has to
shut the program down.
Where `terminated` or `failed` ends the process, the properties allow for it.

### Assumptions

* `DisjointAssumption`: no directory is monitored for two repositories.  A token
  leads to one repository only, so two .git directories that name the same working
  directory would take it from each other.
* `CallsAreSerialized`, in one theorem about `ReadChanges` only
  (`SerializedCallsShareAWorker`) and in no run: no call of AddDirectory begins while
  another one starts the worker.  Nothing in the code ensures it; the theorem says that
  this race is the only way to a second worker.
* The sets that are counted are finite: the requests of `CacheStatistics`
  (`OperationsAssumption`), the directories of `ReadChanges` (`WorkersAssumption`), the
  commits of `Git` (`GitAssumption`).
* `LongIsRead`, in RequestIsAnswered: a client reads a long response at some time.  One
  that does not keeps the thread in WriteFile.
* `Git`: the repository does not return to a record of `disk` it has left within one
  query.  `GitAssumption` says that every record is one that libgit2 can give
  (`WellFormed`): its operation is one of git_repository_state_t, a reference that
  exists has a name, git keeps the name of a rebased branch in one of two places, and an
  entry that has a flag has the delta that goes with it.

## Proofs

Every safety invariant of the passing runs, and both refinements, are theorems, for
every value of the constants that the assumptions allow.  Few of the invariants are
inductive; the strengthening each one needs says why the code is right, and stands at
the head of its part of the proof.  Four properties that the code does not keep are
answered by a theorem that says what is left of them: where they can fail, and that they
fail nowhere else.

`StatusCacheProofs` (any repositories, directories, threads, layout and limits):

* `TypeCorrect`: Spec => []TypeOK; `Inductive`: Spec => []IInv.  Beside the types, `IInv`
  has `TokensAreOwned` (a token leads to a repository that has this directory monitored),
  `RegistrationsAreOwned` (a request in the middle of registering owes its repository
  exactly the directories that are not mapped yet, and its call is over and succeeded) and
  `AnswersArePast` (a version in hand or in the cache is one the disk has had).
  DisjointAssumption makes the repository of a token unique.
* `CacheProvidesService`: Spec => ServiceSpec, the refinement of `StatusService`.  A
  notification in the hands of the notification thread removes the right entry only
  because its token leads to the repository it was reported for.  `NewsKept` is the core:
  each action but OnEventsLost and OnFileChangedInvalidate leaves every piece of news on
  its way (`PushAnnounces`: a push leaves the item or the flag), and these two give up
  what they remove and nothing else.  Then each step maps to the service's step of the same
  meaning: ChangeOnDisk to Change, StoreStatus to Answer, the two removals to Invalidate,
  everything else to Announce or a stutter.
* `NoChangeIsForgotten`: Spec => []StaleEntryIsAnnounced, which follows from the service
  alone (`ServiceStep`), without another look at the threads.
* `OnlyExposedEntriesStay`: when everything is at rest, an entry that is outdated was
  stored outdated, or changed where no watch could see it, or a loss waits with its flag
  up and the queue empty.  *QuietCacheIsCurrent* fails in these three ways (StatusCache_race,
  the run `gap`, StatusCache_unreported) and in no fourth.  `OnlyRacesAndFailuresExpose`, an
  action property, gives the causes: an answer overtaken by a change before it was stored,
  or a change while a directory of the repository is not registered, has its watch still
  to start, or may fail.  `KnownIsOpened` (a registered directory is watched, or about to
  be, or may fail) and `MonitoredCovers` (each place of a repository lies in one of its
  monitored directories) are behind it.
* `ServedRepositoryIsMapped`: Spec => []ServedIsMapped, from `RegistrationsAreOwned`.
* `DirectoriesAreWatchedOnce`: Spec => []WatchedOnce.  `AskedOnce` adds that whatever is
  open, queued for the watcher or about to be queued is already in `m_directories`, and
  that no two threads are about to queue the same directory: the insertion under the
  lock decides who asks.
* `OnlyRegistrationRaces`: when an exception ends the process, some request is registering
  the very directory the notification is about and has not entered its token yet.
  *TokenIsKnown* fails in this window only: `ReportedIsKnown` (whatever can be reported is
  in `m_directories`) and `KnownIsMapped` (what is there has its token, or a request that
  is about to enter it).

`NotificationQueueProofs` (every `QueueLimit` and `MaxSent`): `TypeCorrect`,
`NoWakeupIsLost` ([]ItemsAreSignaled), `NoLossIsForgotten` ([]LossIsRemembered),
`DispatchIsInOrder` ([]InOrder) and `Refinement` (Spec => ServiceSpec).  The first is
used by the others.  In the refinement each step maps to the service's step of the same
meaning: PushBack to Send, TakeBack to Reject, Clear to Drop, OnEventsLost to Report,
Pop to Deliver; the rest is stuttering.  `OnlyClearLosesCount` is what is left of
*SignaledMeansEntry* and *EntryIsThereToTakeBack*: until the list is cleared for the first
time the semaphore counts the items exactly (`SignalsMatch`), so a signal finds its
entry and a push its own to take back, also when the semaphore is full.

`DirectoryNotificationsProofs` (any directories and limits):

* `QueueIsUsedAsModelled` (SystemSpec => Spec): the worker's and the thread's steps are
  steps of the queue or leave it alone.  So the queue's theorems hold of the whole
  path: `PathKeepsQueuePromises`, and `PathProvidesService` (SystemSpec => ServiceSpec),
  two refinements one on top of the other.
* `PathTypeCorrect` ([]SystemTypeOK), `RecordsArePushedInOrder` ([]PushedInOrder) and
  `NoChangeIsForgotten` ([]ChangeIsOnItsWay).  `PathInv` says where the records of a
  directory can be.  `OneRead`: a directory has one read, or one completion that waits,
  or is being copied; this is what keeps m_Buffer from being overwritten before the
  copy.  `InStages`: pushed comes before copied, copied before buffered, buffered before
  recorded.  `BytesAreThere`: a completion with bytes finds them in the buffer.
  ChangeIsOnItsWay needs the queue's InOrder as well, for the record that is popped.

`TeardownProofs`, first of `CachePrimer` (every set of repositories): `TypeCorrect` and
`OneRoundAtATime` ([]AlwaysOneRound).  The two are inductive together: that there is
never more than one wait and one expiry is a consequence of there being one round (of
cancelled handlers several may be queued).  Then of
`Teardown` (and any number of notifications):

* `NothingIsUsedAfterItsEnd`: TeardownSpec => []UsedIsAlive.  Its inductive invariant
  `ThreadInv` ties the count of destroyed members to the two joins: while the
  notification thread runs at most the map of tokens is gone, past ~DirectoryMonitor it
  is over, past ~CachePrimer so is the priming thread.
* `PrimerIsUsedAsModelled`: TeardownSpec => Spec, and with it `OneRoundInTheProcess`
  ([]AlwaysOneRound).  `CachePrimer` is not scheduled once its destructor began, nor
  destroyed during a call.  No guard in `Teardown` says so: it follows from `ThreadInv`,
  that ~CachePrimer comes after ~DirectoryMonitor, which has joined the thread that calls.
* `TeardownTypeCorrect`: TeardownSpec => []TeardownTypeOK, from the first two.

`StatusControllerProofs` (any finite set of request threads, any number of operations).
What a response shows was read at several moments, so each invariant about it needs one
about the counters at every moment, with the threads between two counters accounted
for, and `ReadBefore`: what was read was the value a while ago, and counters only grow
(`CountersGrow`).

* `TypeCorrect` ([]TypeOK).
* `TotalsAreTotals` ([]EffectiveWithinTotal): `PrimesBacked` and `InvalidationsBacked`,
  an effective count is backed by a total one while its thread is between the two.
* `RemovalsAreCovered` ([]RemovedWasStored): `RemovalsBacked` counts, beside the
  counters, the entries in the map, the entry that is erased and not yet counted, and
  those that are counted and not yet stored.
* `LookupsAreCounted` ([]LookupsAreRequests) and `AnsweredAreReported`
  ([]AnsweredIsReported): `LookupsBacked` and `AnswersBacked` count the requests that
  have been looked up and not recorded, or recorded and not answered.  The reader is
  none of them: this is the "one per *other* thread" of LookupsAreRequests.
* `AnswersAreDeserved` ([]AnswerIsDeserved): `InHand`, at every stage the document is
  one that deserves to be there.

`NamedPipeProofs` (any clients and instances): `TypeCorrect` and `OwnersOutliveThreads`
([]ThreadsHaveOwners).  `current` is the instance outside of `m_pipeInstances`, or being
destroyed.  It belongs to the server thread until that thread has been joined, then to the
destructor; `ServerHasInstance`, `DestructorHasInstance` and `ServerIsJoined` keep the two
apart.

`ReadChangesProofs` (any directories, workers and failures):

* `TypeCorrect`, `RequestsAreCounted` ([]OutstandingCounts) and `OpenDirectoriesAreRead`
  ([]OpenIsRead).  `RequestsInv` says that a directory is in at most one APC or pending
  read (`OneAPC`, `APCsFit`, `ReadersFit`), so a request that is counted off was
  counted, once, and m_nOutstandingRequests does not wrap below zero.
* `TerminatedWorkerIsQuiet`: Spec => []TerminatedIsQuiet, however many workers there are.
  `QuietInv`: what is open is in m_pBlocks (`OpenIsBlocked`), so RequestTermination
  reaches it; what Terminate queues to a worker comes behind every APC that could open a
  directory there (`EndComesLast`); and a worker that ended had nothing left to run.
* `SerializedCallsShareAWorker`: Spec /\ [][CallsAreSerialized]_vars => []OneWorker.  So
  the race of two first calls (ReadChanges_workers) is the only way to a second worker.

`GitProofs` (any repositories and any number of changes during the query):

* `TypeCorrect`; `CountsCompareTips` ([]CountsWereTrue): `CountsInv` says of the two
  commits in hand that each was the tip of its branch at some moment of the query.
* `UndisturbedQueryIsExact` ([]UndisturbedIsExact; of the stashes it is their number that
  is compared): `ExactInv` says, before each call,
  what an undisturbed query knows; in particular the way through GetRefStatus leads to
  the branch that the reference definition reports (`BranchOf`) in each of its cases.
* `EveryFileIsListed` ([]FilesAreListed): `FilesInv` says that after each round of the loop
  the lists show the entries handled so far (`Listed`).  `FlaggedNext` and `FlaggedPlace`
  count the entries with a flag, `AddEntryLists` is one round; the induction over the
  entries is the one over the steps.

Only model-checked:

* every liveness property (StaleEntryIsDropped, ChangeArrives, ScheduledIsPrimed, the
  joins of `Teardown` and `NamedPipe`, RequestIsAnswered, ServerListens, CancelledIsEnded):
  they rest on fairness, and the provers have no rule for ENABLED;
* the properties of the runs that end with a counterexample, which are false.

## Not modelled

Logging, string conversions and handle wrappers keep no state that the program depends
on, nor do the options of the command line.  Of requests, JSON that is no object is
left out (asking it for a member is an assertion of rapidjson, whose sources are not
here), and of answers the text and layout.  The durations in the statistics are left
out too; noticed on the way: before the first request the minimum is reported as
UINT64_MAX nanoseconds (StatusController.cpp:215), and a stash id loses its last digit
(Git.cpp:512, as in the README's sample).  The sample program of ReadDirectoryChanges
is not part of the executable.  libgit2 and rapidjson are git submodules whose
directories are empty.

## Plan

Built, in this order: Cache and StatusCache, NotificationQueue with its service,
CachePrimer, CacheStatistics, NamedPipe, ReadChanges, Git; the proofs of the first
three; DirectoryNotifications on the queue, Teardown on the primer and
StatusController on the statistics; the proofs that the first two use what they are
built on as it is modelled; StatusService over the cache; the proofs of all safety
invariants and of both refinements, and of what is left of the promises that do not hold.

To come:

1. The notification path of StatusCache as a refinement of NotificationService.  Its
   queue holds directories, so this needs the notifications numbered by history
   variables in a module on top of StatusCache.
2. More action properties from the inductive invariants, such as that an instance of the
   pipe is freed by its owner only.
