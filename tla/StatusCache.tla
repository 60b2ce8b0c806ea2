----------------------------- MODULE StatusCache -----------------------------
(***************************************************************************)
(* The cache kept current: StatusCache, CacheInvalidator, DirectoryMonitor *)
(* and the use CachePrimer makes of the cache, around the map of Cache.    *)
(*                                                                         *)
(* Request threads (NamedPipeInstance) read the cache and then register    *)
(* the repository's directories.  The watcher thread of                    *)
(* ReadDirectoryChanges opens the registered directories and queues what   *)
(* Windows reports about them.  The notification thread (DirectoryMonitor) *)
(* takes the notifications from the queue, invalidates the repository they *)
(* belong to and schedules it for priming.  The priming thread reloads it. *)
(*                                                                         *)
(* DirectoryMonitor gives every registered directory a token of its own    *)
(* and never reuses one, so the directory itself stands for its token.     *)
(* A push that finds the queue full gives its notification up and raises   *)
(* the overflow flag in a step of its own.  The module NotificationQueue   *)
(* opens push and pop up further.  The five and sixty second timers of the *)
(* priming thread are left to CachePrimer: here it may wake up any time.   *)
(***************************************************************************)
EXTENDS Cache, Sequences, SequencesExt

CONSTANTS Primer,            \* the priming thread, one of Callers
          Directories,       \* paths that may be registered
          WorkingDirectory,  \* [Repos -> Directories \cup {NoDirectory}]
          RepositoryPath,    \* [Repos -> Directories], the .git directory
          Inside,            \* pairs <<d, e>>: path e is a proper prefix of path d
          Unreliable,        \* directories that may fail to be opened or read
          BufferLimit,       \* changes that fit the buffer of a directory read
          QueueLimit,        \* notifications that fit the queue (1000 in the code)
          NoDirectory, NoRepo

VARIABLES
  directories,           \* m_directories: the paths that have been given a token
  adds,                  \* AddDirectory APCs queued to the watcher thread
  watched,               \* directories the watcher has open and reads
  unread,                \* changes Windows holds for each watched directory; more
                         \* than BufferLimit: they were discarded
  queue,                 \* m_Notifications
  overflow,              \* its m_bOverflow
  raising,               \* a push has given its notification up and not raised it yet
  notifier,              \* what the notification thread is doing
  tokensToRepositories,  \* m_tokensToRepositories
  monitor,               \* progress of each request thread in MonitorRepositoryDirectories
  repositoriesToPrime,   \* m_repositoriesToPrime
  priming,               \* the local set the priming thread works through
  terminated,            \* an exception left a thread: std::terminate
  exposed                \* history: see below

(***************************************************************************)
(* exposed[r] is not in the program.  It is TRUE when nothing can have     *)
(* told the cache about a change: the entry of r was already outdated when *)
(* it was stored, or r changed where no registered directory was watched.  *)
(***************************************************************************)

monitorVars == <<directories, adds, watched, unread, queue, overflow, raising>>
threadVars == <<notifier, tokensToRepositories, monitor, repositoriesToPrime, priming>>
vars == <<cacheVars, monitorVars, threadVars, terminated, exposed>>

Requests == Callers \ {Primer}

\* Mutant: the repository directory is never registered.
MonitorWorkingOnly(r) ==
  IF WorkingDirectory[r] = NoDirectory THEN <<RepositoryPath[r]>> ELSE <<WorkingDirectory[r]>>

\* MonitorRepositoryDirectories: the working directory, then the repository
\* directory unless it lies inside the working directory.
MonitoredDirectories(r) ==
  LET w == WorkingDirectory[r]
      g == RepositoryPath[r]
  IN  IF w = NoDirectory THEN <<g>>
      ELSE IF <<g, w>> \in Inside THEN <<w>> ELSE <<w, g>>

Monitored(r) == Range(MonitoredDirectories(r))

\* Where the files that make up the status of r are.
Places(r) == {WorkingDirectory[r], RepositoryPath[r]} \ {NoDirectory}

ASSUME StatusCacheAssumption ==
  /\ Primer \in Callers
  /\ NoDirectory \notin Directories
  /\ NoRepo \notin Repos
  /\ WorkingDirectory \in [Repos -> Directories \cup {NoDirectory}]
  /\ RepositoryPath \in [Repos -> Directories]
  /\ BufferLimit \in Nat \ {0}
  /\ QueueLimit \in Nat \ {0}

\* No directory is monitored for the sake of two repositories.
ASSUME DisjointAssumption ==
  \A r, s \in Repos : r # s => Monitored(r) \cap Monitored(s) = {}

Notification == [directory : Directories, kind : {"change", "ignored", "lost"}]

NotMonitoring == [step |-> "none", todo |-> <<>>]
Idle(stage) == [stage |-> stage, directory |-> NoDirectory, repo |-> NoRepo]

\* What the notification thread may be at.
Idling == [stage : {"unstarted", "waiting", "eventsLost"},
           directory : {NoDirectory}, repo : {NoRepo}]
LookingUp == [stage : {"lookup"}, directory : Directories, repo : {NoRepo}]
Invalidating == [stage : {"invalidate", "schedule"},
                 directory : {NoDirectory}, repo : Repos]

\* Where a request thread may be in MonitorRepositoryDirectories.
BetweenDirectories == [step : {"add"}, todo : Seq(Directories)]
InDirectory == [step : {"watch", "map"}, todo : Seq(Directories) \ {<<>>}]

MonitorTypeOK ==
  /\ directories \in SUBSET Directories
  /\ adds \in Seq(Directories)
  /\ watched \in SUBSET Directories
  /\ unread \in [Directories -> 0..BufferLimit + 1]
  /\ queue \in Seq(Notification)
  /\ Len(queue) <= QueueLimit
  /\ overflow \in BOOLEAN
  /\ raising \in BOOLEAN

ThreadTypeOK ==
  /\ notifier \in Idling \cup LookingUp \cup Invalidating
  /\ tokensToRepositories \in [Directories -> Repos \cup {NoRepo}]
  /\ monitor \in [Requests -> {NotMonitoring} \cup BetweenDirectories \cup InDirectory]
  /\ repositoriesToPrime \in SUBSET Repos
  /\ priming \in SUBSET Repos

TypeOK ==
  /\ CacheTypeOK
  /\ MonitorTypeOK
  /\ ThreadTypeOK
  /\ terminated \in BOOLEAN
  /\ exposed \in [Repos -> BOOLEAN]

Init ==
  /\ CacheInit
  /\ directories = {}
  /\ adds = <<>>
  /\ watched = {}
  /\ unread = [d \in Directories |-> 0]
  /\ queue = <<>>
  /\ overflow = FALSE
  /\ raising = FALSE
  /\ notifier = Idle("unstarted")
  /\ tokensToRepositories = [d \in Directories |-> NoRepo]
  /\ monitor = [t \in Requests |-> NotMonitoring]
  /\ repositoriesToPrime = {}
  /\ priming = {}
  /\ terminated = FALSE
  /\ exposed = [r \in Repos |-> FALSE]

-----------------------------------------------------------------------------
(* The repositories on disk and what Windows reports about them.           *)

\* The watched directories in whose subtree d lies.
Reporting(d) == {e \in watched : e = d \/ <<d, e>> \in Inside}

\* A change to the status of r, made in one of its places.
ChangeOnDisk(r, d) ==
  /\ d \in Places(r)
  /\ Change(r)
  /\ unread' = [e \in Directories |->
                  IF e \in Reporting(d) /\ unread[e] <= BufferLimit
                  THEN unread[e] + 1 ELSE unread[e]]
  /\ exposed' = [exposed EXCEPT ![r] = @ \/ Reporting(d) \cap Monitored(r) = {}]
  /\ UNCHANGED <<cache, call, directories, adds, watched, queue, overflow, raising,
                 threadVars, terminated>>

-----------------------------------------------------------------------------
(* The watcher thread.  While it is in the middle of a push it does nothing *)
(* else.                                                                   *)

\* The AddDirectory APC: the directory is opened and read from now on, or it
\* cannot be opened and the request is deleted.
WatchDirectory ==
  /\ ~raising
  /\ adds # <<>>
  /\ adds' = Tail(adds)
  /\ \/ watched' = watched \cup {Head(adds)}
     \/ Head(adds) \in Unreliable /\ UNCHANGED watched
  /\ UNCHANGED <<cacheVars, directories, unread, queue, overflow, raising, threadVars,
                 terminated, exposed>>

\* Mutant: one notification too many is let in.
PushBeyondLimit(n) ==
  IF Len(queue) <= QueueLimit
  THEN queue' = Append(queue, n) /\ UNCHANGED raising
  ELSE raising' = TRUE /\ UNCHANGED queue

\* Push up to the semaphore: it lets the notification in, or is full and the
\* notification is taken back.  Nobody pops an entry that is taken back: the
\* semaphore never counted it.
Push(n) ==
  IF Len(queue) < QueueLimit
  THEN queue' = Append(queue, n) /\ UNCHANGED raising
  ELSE raising' = TRUE /\ UNCHANGED queue

\* The rest of a push that failed.  The notification thread may have emptied the
\* queue by now: then it waits with the flag up until something else is pushed.
RaiseOverflow ==
  /\ raising
  /\ overflow' = TRUE
  /\ raising' = FALSE
  /\ UNCHANGED <<cacheVars, directories, adds, watched, unread, queue, threadVars,
                 terminated, exposed>>

\* One record of a completed read is queued.
ProcessNotification(d) ==
  /\ ~raising
  /\ unread[d] \in 1..BufferLimit
  /\ unread' = [unread EXCEPT ![d] = @ - 1]
  /\ Push([directory |-> d, kind |-> "change"])
  /\ UNCHANGED <<cacheVars, directories, adds, watched, overflow, threadVars, terminated,
                 exposed>>

\* A read completes with no bytes: the buffer was too small for the changes.
NotifyEventsLost(d) ==
  /\ ~raising
  /\ unread[d] > BufferLimit
  /\ unread' = [unread EXCEPT ![d] = 0]
  /\ Push([directory |-> d, kind |-> "lost"])
  /\ UNCHANGED <<cacheVars, directories, adds, watched, overflow, threadVars, terminated,
                 exposed>>

\* A read completes with no bytes and an error, as when the directory is deleted:
\* no further read is issued.
ReadFails(d) ==
  /\ ~raising
  /\ d \in watched \cap Unreliable
  /\ unread[d] = 0
  /\ watched' = watched \ {d}
  /\ UNCHANGED <<cacheVars, directories, adds, unread, queue, overflow, raising,
                 threadVars, terminated, exposed>>

\* A record about index.lock or .git, which says nothing about the status.
ProcessIgnoredNotification(d) ==
  /\ ~raising
  /\ d \in watched
  /\ Push([directory |-> d, kind |-> "ignored"])
  /\ UNCHANGED <<cacheVars, directories, adds, watched, unread, overflow, threadVars,
                 terminated, exposed>>

-----------------------------------------------------------------------------
(* The notification thread: WaitForNotifications and OnFileChanged.        *)

\* Mutant: the queue is emptied and nobody is told.
CheckOverflowSilently ==
  /\ notifier.stage = "waiting"
  /\ queue # <<>>
  /\ overflow
  /\ queue' = <<>>
  /\ overflow' = FALSE
  /\ UNCHANGED <<cacheVars, directories, adds, watched, unread, raising, threadVars,
                 terminated, exposed>>

\* CheckOverflow finds the flag: the queue is emptied.
CheckOverflow ==
  /\ notifier.stage = "waiting"
  /\ queue # <<>>
  /\ overflow
  /\ queue' = <<>>
  /\ overflow' = FALSE
  /\ notifier' = Idle("eventsLost")
  /\ UNCHANGED <<cacheVars, directories, adds, watched, unread, raising,
                 tokensToRepositories, monitor, repositoriesToPrime, priming,
                 terminated, exposed>>

\* The switch on the action popped, and ShouldIgnoreFileChange.
Pop ==
  /\ notifier.stage = "waiting"
  /\ queue # <<>>
  /\ ~overflow
  /\ queue' = Tail(queue)
  /\ notifier' = CASE Head(queue).kind = "lost" -> Idle("eventsLost")
                   [] Head(queue).kind = "ignored" -> Idle("waiting")
                   [] Head(queue).kind = "change" ->
                        [Idle("lookup") EXCEPT !.directory = Head(queue).directory]
  /\ UNCHANGED <<cacheVars, directories, adds, watched, unread, overflow, raising,
                 tokensToRepositories, monitor, repositoriesToPrime, priming,
                 terminated, exposed>>

\* m_onEventsLostCallback.
OnEventsLost ==
  /\ notifier.stage = "eventsLost"
  /\ InvalidateAllCacheEntries
  /\ notifier' = Idle("waiting")
  /\ UNCHANGED <<monitorVars, tokensToRepositories, monitor, repositoriesToPrime,
                 priming, terminated, exposed>>

\* OnFileChanged finds the repository of the token.
FindToken ==
  /\ notifier.stage = "lookup"
  /\ tokensToRepositories[notifier.directory] # NoRepo
  /\ notifier' = [Idle("invalidate") EXCEPT
                    !.repo = tokensToRepositories[notifier.directory]]
  /\ UNCHANGED <<cacheVars, monitorVars, tokensToRepositories, monitor,
                 repositoriesToPrime, priming, terminated, exposed>>

\* OnFileChanged finds no repository: the logic_error it throws leaves the thread.
FailedToFindToken ==
  /\ notifier.stage = "lookup"
  /\ tokensToRepositories[notifier.directory] = NoRepo
  /\ terminated' = TRUE
  /\ UNCHANGED <<cacheVars, monitorVars, threadVars, exposed>>

\* Mutant: the entry is left to the priming thread to replace.
OnFileChangedRely ==
  /\ notifier.stage = "invalidate"
  /\ notifier' = [notifier EXCEPT !.stage = "schedule"]
  /\ UNCHANGED <<cacheVars, monitorVars, tokensToRepositories, monitor,
                 repositoriesToPrime, priming, terminated, exposed>>

OnFileChangedInvalidate ==
  /\ notifier.stage = "invalidate"
  /\ InvalidateCacheEntry(notifier.repo)
  /\ notifier' = [notifier EXCEPT !.stage = "schedule"]
  /\ UNCHANGED <<monitorVars, tokensToRepositories, monitor, repositoriesToPrime,
                 priming, terminated, exposed>>

\* SchedulePrimingForRepositoryPathInFiveSeconds.
OnFileChangedSchedule ==
  /\ notifier.stage = "schedule"
  /\ repositoriesToPrime' = repositoriesToPrime \cup {notifier.repo}
  /\ notifier' = Idle("waiting")
  /\ UNCHANGED <<cacheVars, monitorVars, tokensToRepositories, monitor, priming,
                 terminated, exposed>>

-----------------------------------------------------------------------------
(* The request threads: StatusCache::GetStatus.                            *)

\* The query and the store are the same for requests and for the priming thread.
Query(c) ==
  /\ QueryGit(c)
  /\ UNCHANGED <<monitorVars, threadVars, terminated, exposed>>

StoreStatus(c) ==
  /\ Store(c)
  /\ LET status == call[c].status
         r == call[c].repo
     IN  exposed' = [exposed EXCEPT ![r] = status.ok /\ status.version # disk[r]]
  /\ UNCHANGED <<monitorVars, threadVars, terminated>>

GetStatus(t, r) ==
  /\ Hit(t, r) \/ Miss(t, r)
  /\ UNCHANGED <<monitorVars, threadVars, terminated, exposed>>

\* A status that was retrieved, cached or not, has its directories registered.
MonitorRepositoryDirectories(t) ==
  /\ call[t].stage = "done"
  /\ call[t].status.ok
  /\ monitor[t] = NotMonitoring
  /\ monitor' = [monitor EXCEPT ![t] =
                   [step |-> "add", todo |-> MonitoredDirectories(call[t].repo)]]
  /\ UNCHANGED <<cacheVars, monitorVars, notifier, tokensToRepositories,
                 repositoriesToPrime, priming, terminated, exposed>>

\* Mutant: the directory is looked up and not entered in the same critical section.
AddDirectoryUnrecorded(t) ==
  /\ monitor[t].step = "add"
  /\ monitor[t].todo # <<>>
  /\ monitor' = [monitor EXCEPT ![t].step =
                   IF Head(monitor[t].todo) \in directories THEN "map" ELSE "watch"]
  /\ UNCHANGED <<cacheVars, monitorVars, notifier, tokensToRepositories,
                 repositoriesToPrime, priming, terminated, exposed>>

\* DirectoryMonitor::AddDirectory under m_directoriesMutex: a known directory
\* returns its token at once, a new one is entered first and watched after.
AddDirectory(t) ==
  /\ monitor[t].step = "add"
  /\ monitor[t].todo # <<>>
  /\ LET d == Head(monitor[t].todo)
     IN  /\ monitor' = [monitor EXCEPT ![t].step =
                          IF d \in directories THEN "map" ELSE "watch"]
         /\ directories' = directories \cup {d}
  /\ UNCHANGED <<cacheVars, adds, watched, unread, queue, overflow, raising, notifier,
                 tokensToRepositories, repositoriesToPrime, priming, terminated,
                 exposed>>

\* The rest of AddDirectory, after the mutex: the APC that starts the watch, and
\* the notification thread the first time.
StartWatch(t) ==
  /\ monitor[t].step = "watch"
  /\ adds' = Append(adds, Head(monitor[t].todo))
  /\ notifier' = IF notifier.stage = "unstarted" THEN Idle("waiting") ELSE notifier
  /\ monitor' = [monitor EXCEPT ![t].step = "map"]
  /\ UNCHANGED <<cacheVars, directories, watched, unread, queue, overflow, raising,
                 tokensToRepositories, repositoriesToPrime, priming, terminated,
                 exposed>>

\* m_tokensToRepositories[token] = status.RepositoryPath under its write lock.
MapToken(t) ==
  /\ monitor[t].step = "map"
  /\ tokensToRepositories' =
       [tokensToRepositories EXCEPT ![Head(monitor[t].todo)] = call[t].repo]
  /\ monitor' = [monitor EXCEPT ![t] = [step |-> "add", todo |-> Tail(@.todo)]]
  /\ UNCHANGED <<cacheVars, monitorVars, notifier, repositoriesToPrime, priming,
                 terminated, exposed>>

\* The answer goes to the client.
Respond(t) ==
  /\ Return(t)
  /\ \/ ~call[t].status.ok
     \/ monitor[t] = [step |-> "add", todo |-> <<>>]
  /\ monitor' = [monitor EXCEPT ![t] = NotMonitoring]
  /\ UNCHANGED <<monitorVars, notifier, tokensToRepositories, repositoriesToPrime,
                 priming, terminated, exposed>>

-----------------------------------------------------------------------------
(* The priming thread: OnPrimingTimerExpiration and PrimeCacheEntry.       *)

\* The timer has expired: the scheduled repositories are swapped out.
OnPrimingTimerExpiration ==
  /\ call[Primer] = NoCall
  /\ priming = {}
  /\ repositoriesToPrime # {}
  /\ priming' = repositoriesToPrime
  /\ repositoriesToPrime' = {}
  /\ UNCHANGED <<cacheVars, monitorVars, notifier, tokensToRepositories, monitor,
                 terminated, exposed>>

PrimeMiss(r) ==
  /\ r \in priming
  /\ Miss(Primer, r)
  /\ UNCHANGED <<monitorVars, threadVars, terminated, exposed>>

\* PrimeCacheEntry returns at once when there is an entry.
PrimeHit(r) ==
  /\ r \in priming
  /\ call[Primer] = NoCall
  /\ Cached(r)
  /\ priming' = priming \ {r}
  /\ UNCHANGED <<cacheVars, monitorVars, notifier, tokensToRepositories, monitor,
                 repositoriesToPrime, terminated, exposed>>

PrimeDone ==
  /\ Return(Primer)
  /\ priming' = priming \ {call[Primer].repo}
  /\ UNCHANGED <<monitorVars, notifier, tokensToRepositories, monitor,
                 repositoriesToPrime, terminated, exposed>>

-----------------------------------------------------------------------------
Environment ==
  \/ \E r \in Repos, d \in Directories : ChangeOnDisk(r, d)
  \/ \E d \in Directories : ReadFails(d) \/ ProcessIgnoredNotification(d)
  \/ \E t \in Requests, r \in Repos : GetStatus(t, r)

Watcher ==
  \/ WatchDirectory \/ RaiseOverflow
  \/ \E d \in Directories : ProcessNotification(d) \/ NotifyEventsLost(d)

Notifier ==
  \/ CheckOverflow \/ Pop \/ OnEventsLost
  \/ FindToken \/ FailedToFindToken
  \/ OnFileChangedInvalidate \/ OnFileChangedSchedule

Request(t) ==
  \/ Query(t) \/ StoreStatus(t) \/ MonitorRepositoryDirectories(t)
  \/ AddDirectory(t) \/ StartWatch(t) \/ MapToken(t) \/ Respond(t)

Priming ==
  \/ OnPrimingTimerExpiration
  \/ \E r \in Repos : PrimeMiss(r) \/ PrimeHit(r)
  \/ Query(Primer) \/ StoreStatus(Primer) \/ PrimeDone

Next ==
  /\ ~terminated
  /\ \/ Environment
     \/ Watcher
     \/ Notifier
     \/ \E t \in Requests : Request(t)
     \/ Priming

Spec == Init /\ [][Next]_vars

\* Threads are scheduled and Windows completes reads: each thread that can take
\* a step eventually takes one.  Clients and changes owe nothing.
Fairness ==
  /\ WF_vars(~terminated /\ Watcher)
  /\ WF_vars(~terminated /\ Notifier)
  /\ \A t \in Requests : WF_vars(~terminated /\ Request(t))
  /\ WF_vars(~terminated /\ Priming)

FairSpec == Spec /\ Fairness
-----------------------------------------------------------------------------
(* Properties.                                                             *)

\* The entry of r is not what git would report now.
Stale(r) == Cached(r) /\ cache[r].ok /\ cache[r].version # disk[r]

\* Something on its way to the cache will remove the entry of r: changes of its
\* directories still in Windows' buffers or in the queue, lost events recorded, or
\* about to be, and still to be acted upon, or a notification in the hands of the
\* notification thread.
Announced(r) ==
  \/ \E d \in Monitored(r) : unread[d] > 0
  \/ \E i \in 1..Len(queue) :
       \/ queue[i].kind = "lost"
       \/ queue[i].kind = "change" /\ queue[i].directory \in Monitored(r)
  \/ raising \/ overflow
  \/ notifier.stage = "eventsLost"
  \/ notifier.stage = "lookup" /\ notifier.directory \in Monitored(r)
  \/ notifier.stage = "invalidate" /\ notifier.repo = r

\* An entry that was current when it was stored, of a repository whose changes
\* have all been seen by a watch, is outdated only while the news is still on its
\* way through buffer, queue and notification thread: no step of that path, and
\* no overflow on it, drops the last trace of a change.
StaleEntryIsAnnounced ==
  \A r \in Repos : Stale(r) /\ ~exposed[r] => Announced(r)

\* The cache, with its threads, watches, tokens and queue, keeps the promise of
\* StatusService: whatever is stored was right once, and the news of a change leaves
\* the path from Windows' buffers to OnFileChanged only with the entry it is about.
News == {r \in Repos : Announced(r)}
Unseen == {r \in Repos : exposed[r]}
Service == INSTANCE StatusService WITH news <- News, unseen <- Unseen
ServiceSpec == Service!Spec

\* However AddDirectory calls of different requests interleave, a directory is
\* opened once: it is never queued to the watcher, or about to be, a second time.
WatchRequests ==
  [t \in {t \in Requests : monitor[t].step = "watch"} |-> Head(monitor[t].todo)]
WatchedOnce ==
  /\ IsInjective(adds)
  /\ Range(adds) \cap watched = {}
  /\ IsInjective(WatchRequests)
  /\ Range(WatchRequests) \cap (Range(adds) \cup watched) = {}

\* When a request has registered its directories, a change in any place of the
\* repository is in the subtree of a directory whose token leads back to it,
\* whichever request registered that directory and whatever else runs.
ServedIsMapped ==
  \A t \in Requests :
    monitor[t] = [step |-> "add", todo |-> <<>>] =>
      \A p \in Places(call[t].repo) : \E d \in Directories :
        /\ d = p \/ <<p, d>> \in Inside
        /\ tokensToRepositories[d] = call[t].repo

\* The flag is up and the notification thread, which looks at it when there is a
\* notification, has none to wake it: the next one makes it clear the cache.
LossWaits == overflow /\ queue = <<>>

\* An outdated entry whose changes were seen does not outlive the notifications:
\* it is removed, or replaced, or the repository changes unseen.  Only a loss that
\* the notification thread overtook, before its flag was up, waits for more to come.
StaleEntryIsDropped ==
  \A r \in Repos :
    Stale(r) /\ ~exposed[r] ~> ~Stale(r) \/ exposed[r] \/ LossWaits \/ terminated

-----------------------------------------------------------------------------
(* What the documentation promises and the code does not keep.             *)

\* No thread has a step to take until a client asks or a file changes.
Quiet ==
  /\ \A c \in Callers : call[c] = NoCall
  /\ adds = <<>> /\ queue = <<>> /\ ~raising
  /\ \A d \in Directories : unread[d] = 0
  /\ notifier.stage = "waiting"

\* GetStatus "retrieves current git status": once every thread is idle and every
\* notification has been handled, what the cache holds is current.  A change that
\* falls between the first query and the opening of the directory breaks it, and so
\* does a loss that waits.
QuietCacheIsCurrent == Quiet /\ ~terminated => \A r \in Repos : ~Stale(r)

\* The cache is told when "notifications may be lost" (DirectoryMonitor.h): an outdated
\* entry whose changes were seen is removed without any further change.
StaleEntryIsRemoved ==
  \A r \in Repos :
    Stale(r) /\ ~exposed[r] ~> ~Stale(r) \/ exposed[r] \/ terminated

\* Cache entries are invalidated "in response to file system changes": a query
\* that is overtaken by the invalidation of a watched repository does not put
\* back an outdated entry with nothing left to remove it.
InvalidationIsNotUndone ==
  [][\A r \in Repos :
       Stale(r)' /\ ~Stale(r) /\ Monitored(r) \subseteq watched => Announced(r)']_vars

\* GetStatus "queries git" when it has no status: a query that failed is not the
\* answer for ever.
FailureIsForgotten ==
  \A r \in Repos :
    cache[r] = FailedStatus ~> cache[r] # FailedStatus \/ terminated

\* The token passed back with a notification is one whose repository is known.
TokenIsKnown == ~terminated

\* Registering a directory makes it monitored.
RegisteredIsWatched ==
  \A d \in Directories : d \in directories ~> d \in watched \/ terminated

=============================================================================
