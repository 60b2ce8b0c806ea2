-------------------------- MODULE StatusCacheProofs --------------------------
(***************************************************************************)
(* Proofs about StatusCache, for any repositories, threads, directories    *)
(* and limits that meet its assumptions.                                   *)
(***************************************************************************)
EXTENDS StatusCache, TLAPS

(***************************************************************************)
(* The directories of a repository, as a sequence of one or two of them.   *)
(***************************************************************************)
LEMMA MonitoredType ==
  ASSUME NEW r \in Repos
  PROVE  /\ MonitoredDirectories(r) \in Seq(Directories)
         /\ Monitored(r) \subseteq Directories
<1>1. WorkingDirectory[r] \in Directories \cup {NoDirectory} /\ RepositoryPath[r] \in Directories
  BY StatusCacheAssumption
<1>2. MonitoredDirectories(r) \in Seq(Directories)
  BY <1>1 DEF MonitoredDirectories
<1>3. \A i \in DOMAIN MonitoredDirectories(r) : MonitoredDirectories(r)[i] \in Directories
  BY <1>2
<1>. QED  BY <1>2, <1>3 DEF Monitored, Range

\* What remains of a sequence after its first element.
LEMMA TailRange ==
  ASSUME NEW S, NEW s \in Seq(S), s # <<>>
  PROVE  /\ Head(s) \in S
         /\ Tail(s) \in Seq(S)
         /\ Head(s) \in Range(s)
         /\ Range(Tail(s)) \subseteq Range(s)
         /\ Range(s) = {Head(s)} \cup Range(Tail(s))
<1>1. Len(s) \in Nat /\ Len(s) > 0 /\ Head(s) = s[1] /\ DOMAIN s = 1..Len(s)
  OBVIOUS
<1>2. /\ Tail(s) \in Seq(S)
      /\ Len(Tail(s)) = Len(s) - 1
      /\ \A i \in 1..Len(Tail(s)) : Tail(s)[i] = s[i + 1]
  BY <1>1
<1>3. DOMAIN Tail(s) = 1..(Len(s) - 1)
  BY <1>2
<1>4. ASSUME NEW x \in Range(Tail(s)) PROVE x \in Range(s)
  <2>1. PICK i \in 1..(Len(s) - 1) : x = Tail(s)[i]
    BY <1>3 DEF Range
  <2>2. x = s[i + 1] /\ i + 1 \in 1..Len(s)
    BY <2>1, <1>1, <1>2
  <2>. QED  BY <2>2, <1>1 DEF Range
<1>5. ASSUME NEW x \in Range(s) PROVE x = Head(s) \/ x \in Range(Tail(s))
  <2>1. PICK i \in 1..Len(s) : x = s[i]
    BY <1>1 DEF Range
  <2>2. CASE i = 1
    BY <2>1, <2>2, <1>1
  <2>3. CASE i # 1
    <3>1. i - 1 \in 1..(Len(s) - 1) /\ x = Tail(s)[i - 1]
      BY <2>1, <2>3, <1>1, <1>2
    <3>. QED  BY <3>1, <1>3 DEF Range
  <2>. QED  BY <2>2, <2>3
<1>6. Head(s) \in S /\ Head(s) \in Range(s)
  BY <1>1 DEF Range
<1>. QED  BY <1>2, <1>4, <1>5, <1>6

-----------------------------------------------------------------------------
(***************************************************************************)
(* The inductive invariant: what the steps of the threads need to be steps *)
(* of StatusService.  When OnFileChanged looks a directory up, the entry   *)
(* it goes on to remove must be that of the repository whose change was    *)
(* reported.  So a token leads to a repository that has the directory      *)
(* monitored, which in turn needs that the directories a request has still *)
(* to register are its repository's, and that its call is over, with a     *)
(* status, when it registers them.  And a query that waits to be stored    *)
(* has an answer that was right when it was given.                         *)
(***************************************************************************)
TokensAreOwned ==
  \A d \in Directories :
    tokensToRepositories[d] # NoRepo => d \in Monitored(tokensToRepositories[d])

RegistrationsAreOwned ==
  \A t \in Requests :
    monitor[t] # NotMonitoring =>
      /\ call[t].stage = "done" /\ call[t].status.ok
      /\ Range(monitor[t].todo) \subseteq Monitored(call[t].repo)
      /\ \A d \in Monitored(call[t].repo) :
           d \in Range(monitor[t].todo) \/ tokensToRepositories[d] = call[t].repo

AnswersArePast ==
  \A c \in Callers : call[c].stage = "store" => call[c].status.version <= disk[call[c].repo]

IInv == TypeOK /\ TokensAreOwned /\ RegistrationsAreOwned /\ AnswersArePast

-----------------------------------------------------------------------------
(* Types.                                                                  *)

LEMMA StatusTypes == FailedStatus \in Status /\ NoEntry \notin Status
BY CacheAssumption DEF FailedStatus, Status

LEMMA CallTypes ==
  ASSUME NEW x \in Call \cup {NoCall}, x.stage \in {"query", "store", "done"}
  PROVE  x \in Call
BY DEF Call, NoCall

\* A step that leaves a group of variables alone keeps their types.
LEMMA UnchangedTypes ==
  /\ CacheTypeOK /\ UNCHANGED cacheVars => CacheTypeOK'
  /\ MonitorTypeOK /\ UNCHANGED monitorVars => MonitorTypeOK'
  /\ ThreadTypeOK /\ UNCHANGED threadVars => ThreadTypeOK'
BY DEF CacheTypeOK, cacheVars, MonitorTypeOK, monitorVars, ThreadTypeOK, threadVars

LEMMA PushType ==
  ASSUME MonitorTypeOK, NEW n \in Notification, Push(n)
  PROVE  queue' \in Seq(Notification) /\ Len(queue') <= QueueLimit /\ raising' \in BOOLEAN
<1>1. queue \in Seq(Notification) /\ Len(queue) <= QueueLimit /\ raising \in BOOLEAN
  BY DEF MonitorTypeOK
<1>2. queue' \in Seq(Notification)
  BY <1>1 DEF Push
<1>3. Len(queue') <= QueueLimit
  BY <1>1, StatusCacheAssumption DEF Push
<1>4. raising' \in BOOLEAN
  BY <1>1 DEF Push
<1>. QED  BY <1>2, <1>3, <1>4

LEMMA InitTypes ==
  ASSUME Init PROVE TypeOK
<1>1. CacheTypeOK
  BY CacheAssumption DEF Init, CacheInit, CacheTypeOK
<1>2. MonitorTypeOK
  <2>1. unread \in [Directories -> 0..BufferLimit + 1]
    BY StatusCacheAssumption DEF Init
  <2>2. queue \in Seq(Notification) /\ Len(queue) <= QueueLimit
    BY StatusCacheAssumption DEF Init
  <2>3. adds \in Seq(Directories) /\ directories = {} /\ watched = {}
        /\ overflow = FALSE /\ raising = FALSE
    BY DEF Init
  <2>. QED  BY <2>1, <2>2, <2>3 DEF MonitorTypeOK
<1>3. ThreadTypeOK
  <2>1. tokensToRepositories \in [Directories -> Repos \cup {NoRepo}]
    BY DEF Init
  <2>2. monitor \in [Requests -> {NotMonitoring} \cup BetweenDirectories \cup InDirectory]
    BY DEF Init
  <2>3. notifier = Idle("unstarted") /\ repositoriesToPrime = {} /\ priming = {}
    BY DEF Init
  <2>. QED  BY <2>1, <2>2, <2>3 DEF ThreadTypeOK, Idle, Idling
<1>. QED  BY <1>1, <1>2, <1>3 DEF Init, TypeOK

-----------------------------------------------------------------------------
LEMMA EnvironmentTypes ==
  ASSUME TypeOK, Environment PROVE TypeOK'
<1>. USE UnchangedTypes DEF TypeOK
<1>1. ASSUME NEW r \in Repos, NEW d \in Directories, ChangeOnDisk(r, d) PROVE TypeOK'
  <2>1. CacheTypeOK'
    BY <1>1, CacheAssumption DEF ChangeOnDisk, Change, CacheTypeOK
  <2>2. unread' \in [Directories -> 0..BufferLimit + 1]
    BY <1>1, StatusCacheAssumption DEF ChangeOnDisk, MonitorTypeOK
  <2>3. MonitorTypeOK'
    BY <1>1, <2>2 DEF ChangeOnDisk, MonitorTypeOK
  <2>4. exposed' \in [Repos -> BOOLEAN]
    BY <1>1 DEF ChangeOnDisk
  <2>. QED  BY <1>1, <2>1, <2>3, <2>4 DEF ChangeOnDisk
<1>2. ASSUME NEW d \in Directories, ReadFails(d) PROVE TypeOK'
  <2>1. MonitorTypeOK'
    BY <1>2 DEF ReadFails, MonitorTypeOK
  <2>. QED  BY <1>2, <2>1 DEF ReadFails
<1>3. ASSUME NEW d \in Directories, ProcessIgnoredNotification(d) PROVE TypeOK'
  <2>1. [directory |-> d, kind |-> "ignored"] \in Notification
    BY DEF Notification
  <2>2. MonitorTypeOK'
    BY <1>3, <2>1, PushType DEF ProcessIgnoredNotification, MonitorTypeOK
  <2>. QED  BY <1>3, <2>2 DEF ProcessIgnoredNotification
<1>4. ASSUME NEW t \in Requests, NEW r \in Repos, GetStatus(t, r) PROVE TypeOK'
  <2>1. t \in Callers /\ (Hit(t, r) \/ Miss(t, r))
    BY <1>4 DEF GetStatus, Requests
  <2>2. CacheTypeOK'
    BY <2>1, StatusTypes DEF Hit, Miss, Cached, Call, CacheTypeOK
  <2>. QED  BY <1>4, <2>2 DEF GetStatus
<1>. QED  BY <1>1, <1>2, <1>3, <1>4 DEF Environment

LEMMA WatcherTypes ==
  ASSUME TypeOK, Watcher PROVE TypeOK'
<1>. USE UnchangedTypes DEF TypeOK
<1>1. CASE WatchDirectory
  <2>1. adds \in Seq(Directories) /\ adds # <<>>
    BY <1>1 DEF WatchDirectory, MonitorTypeOK
  <2>2. Head(adds) \in Directories /\ Tail(adds) \in Seq(Directories)
    BY <2>1, TailRange
  <2>3. MonitorTypeOK'
    BY <1>1, <2>2 DEF WatchDirectory, MonitorTypeOK
  <2>. QED  BY <1>1, <2>3 DEF WatchDirectory
<1>2. ASSUME NEW d \in Directories, ProcessNotification(d) PROVE TypeOK'
  <2>1. [directory |-> d, kind |-> "change"] \in Notification
    BY DEF Notification
  <2>2. unread' \in [Directories -> 0..BufferLimit + 1]
    BY <1>2, StatusCacheAssumption DEF ProcessNotification, MonitorTypeOK
  <2>3. MonitorTypeOK'
    BY <1>2, <2>1, <2>2, PushType DEF ProcessNotification, MonitorTypeOK
  <2>. QED  BY <1>2, <2>3 DEF ProcessNotification
<1>3. ASSUME NEW d \in Directories, NotifyEventsLost(d) PROVE TypeOK'
  <2>1. [directory |-> d, kind |-> "lost"] \in Notification
    BY DEF Notification
  <2>2. unread' \in [Directories -> 0..BufferLimit + 1]
    BY <1>3, StatusCacheAssumption DEF NotifyEventsLost, MonitorTypeOK
  <2>3. MonitorTypeOK'
    BY <1>3, <2>1, <2>2, PushType DEF NotifyEventsLost, MonitorTypeOK
  <2>. QED  BY <1>3, <2>3 DEF NotifyEventsLost
<1>4. CASE RaiseOverflow
  <2>1. MonitorTypeOK'
    BY <1>4 DEF RaiseOverflow, MonitorTypeOK
  <2>. QED  BY <1>4, <2>1 DEF RaiseOverflow
<1>. QED  BY <1>1, <1>2, <1>3, <1>4 DEF Watcher

LEMMA NotifierTypes ==
  ASSUME TypeOK, Notifier PROVE TypeOK'
<1>. USE UnchangedTypes DEF TypeOK
<1>1. CASE CheckOverflow
  <2>1. queue' \in Seq(Notification) /\ Len(queue') <= QueueLimit /\ overflow' = FALSE
    BY <1>1, StatusCacheAssumption DEF CheckOverflow
  <2>m. MonitorTypeOK'
    BY <1>1, <2>1 DEF CheckOverflow, MonitorTypeOK
  <2>2. ThreadTypeOK'
    BY <1>1 DEF CheckOverflow, Idle, Idling, ThreadTypeOK
  <2>. QED  BY <1>1, <2>m, <2>2 DEF CheckOverflow
<1>2. CASE Pop
  <2>1. queue \in Seq(Notification) /\ queue # <<>> /\ Len(queue) <= QueueLimit
    BY <1>2 DEF Pop, MonitorTypeOK
  <2>2. Head(queue) \in Notification /\ Tail(queue) \in Seq(Notification)
    BY <2>1, TailRange
  <2>3. Len(Tail(queue)) <= QueueLimit
    BY <2>1, StatusCacheAssumption
  <2>4. MonitorTypeOK'
    BY <1>2, <2>2, <2>3 DEF Pop, MonitorTypeOK
  <2>5. Head(queue).kind \in {"change", "ignored", "lost"} /\ Head(queue).directory \in Directories
    BY <2>2 DEF Notification
  <2>6. ThreadTypeOK'
    <3>1. notifier' \in Idling \cup LookingUp
      BY <1>2, <2>5 DEF Pop, Idle, Idling, LookingUp
    <3>. QED  BY <1>2, <3>1 DEF Pop, ThreadTypeOK
  <2>. QED  BY <1>2, <2>4, <2>6 DEF Pop
<1>3. CASE OnEventsLost
  <2>1. CacheTypeOK'
    BY <1>3 DEF OnEventsLost, InvalidateAllCacheEntries, CacheTypeOK
  <2>2. ThreadTypeOK'
    BY <1>3 DEF OnEventsLost, Idle, Idling, ThreadTypeOK
  <2>. QED  BY <1>3, <2>1, <2>2 DEF OnEventsLost
<1>4. CASE FindToken
  <2>1. notifier.directory \in Directories
    BY <1>4 DEF FindToken, ThreadTypeOK, Idling, LookingUp, Invalidating
  <2>2. tokensToRepositories[notifier.directory] \in Repos
    BY <1>4, <2>1 DEF FindToken, ThreadTypeOK
  <2>3. notifier' \in Invalidating
    BY <1>4, <2>2 DEF FindToken, Idle, Invalidating
  <2>4. ThreadTypeOK'
    BY <1>4, <2>3 DEF FindToken, ThreadTypeOK
  <2>. QED  BY <1>4, <2>4 DEF FindToken
<1>5. CASE FailedToFindToken
  BY <1>5 DEF FailedToFindToken
<1>6. CASE OnFileChangedInvalidate
  <2>1. CacheTypeOK'
    BY <1>6 DEF OnFileChangedInvalidate, InvalidateCacheEntry, CacheTypeOK
  <2>2. notifier' \in Invalidating
    BY <1>6 DEF OnFileChangedInvalidate, ThreadTypeOK, Idling, LookingUp, Invalidating
  <2>3. ThreadTypeOK'
    BY <1>6, <2>2 DEF OnFileChangedInvalidate, ThreadTypeOK
  <2>. QED  BY <1>6, <2>1, <2>3 DEF OnFileChangedInvalidate
<1>7. CASE OnFileChangedSchedule
  <2>1. notifier.repo \in Repos
    BY <1>7 DEF OnFileChangedSchedule, ThreadTypeOK, Idling, LookingUp, Invalidating
  <2>2. ThreadTypeOK'
    BY <1>7, <2>1 DEF OnFileChangedSchedule, Idle, Idling, ThreadTypeOK
  <2>. QED  BY <1>7, <2>2 DEF OnFileChangedSchedule
<1>. QED  BY <1>1, <1>2, <1>3, <1>4, <1>5, <1>6, <1>7 DEF Notifier

LEMMA FillTypes ==
  ASSUME TypeOK, NEW c \in Callers, Query(c) \/ StoreStatus(c) PROVE TypeOK'
<1>. USE UnchangedTypes DEF TypeOK
<1>1. call[c] \in Call
  BY CallTypes DEF Query, QueryGit, StoreStatus, Store, CacheTypeOK
<1>2. call[c].repo \in Repos /\ call[c].status \in Status
  BY <1>1 DEF Call
<1>3. CASE Query(c)
  <2>1. PICK status \in {[ok |-> TRUE, version |-> disk[call[c].repo]], FailedStatus} :
          call' = [call EXCEPT ![c].stage = "store", ![c].status = status]
    BY <1>3 DEF Query, QueryGit
  <2>2. disk[call[c].repo] \in Nat
    BY <1>2, CacheAssumption DEF CacheTypeOK
  <2>5. [ok |-> TRUE, version |-> disk[call[c].repo]] \in Status
    BY <2>2 DEF Status
  <2>3. status \in Status
    BY <2>1, <2>5, StatusTypes
  <2>4. CacheTypeOK'
    BY <1>1, <1>3, <2>1, <2>3 DEF Query, QueryGit, Call, CacheTypeOK
  <2>. QED  BY <1>3, <2>4 DEF Query
<1>4. CASE StoreStatus(c)
  <2>1. CacheTypeOK'
    BY <1>1, <1>2, <1>4 DEF StoreStatus, Store, Call, CacheTypeOK
  <2>2. exposed' \in [Repos -> BOOLEAN]
    BY <1>4 DEF StoreStatus
  <2>. QED  BY <1>4, <2>1, <2>2 DEF StoreStatus
<1>. QED  BY <1>3, <1>4

LEMMA RequestTypes ==
  ASSUME TypeOK, RegistrationsAreOwned, NEW t \in Requests, Request(t) PROVE TypeOK'
<1>. USE UnchangedTypes DEF TypeOK
<1>1. t \in Callers
  BY DEF Requests
<1>2. monitor[t] \in {NotMonitoring} \cup BetweenDirectories \cup InDirectory
  BY DEF ThreadTypeOK
<1>3. CASE Query(t) \/ StoreStatus(t)
  BY <1>1, <1>3, FillTypes
<1>4. CASE MonitorRepositoryDirectories(t)
  <2>1. call[t] \in Call
    BY <1>1, <1>4, CallTypes DEF MonitorRepositoryDirectories, CacheTypeOK
  <2>2. MonitoredDirectories(call[t].repo) \in Seq(Directories)
    BY <2>1, MonitoredType DEF Call
  <2>3. [step |-> "add", todo |-> MonitoredDirectories(call[t].repo)] \in BetweenDirectories
    BY <2>2 DEF BetweenDirectories
  <2>4. ThreadTypeOK'
    BY <1>4, <2>3 DEF MonitorRepositoryDirectories, ThreadTypeOK
  <2>. QED  BY <1>4, <2>4 DEF MonitorRepositoryDirectories
<1>5. CASE AddDirectory(t)
  <2>1. monitor[t].todo \in Seq(Directories) /\ monitor[t].todo # <<>>
    BY <1>2, <1>5 DEF AddDirectory, NotMonitoring, BetweenDirectories, InDirectory
  <2>2. Head(monitor[t].todo) \in Directories
    BY <2>1, TailRange
  <2>3. MonitorTypeOK'
    BY <1>5, <2>2 DEF AddDirectory, MonitorTypeOK
  <2>4. PICK step \in {"watch", "map"} : monitor' = [monitor EXCEPT ![t].step = step]
    BY <1>5 DEF AddDirectory
  <2>5. [monitor[t] EXCEPT !.step = step] \in InDirectory
    BY <1>2, <1>5, <2>1 DEF AddDirectory, NotMonitoring, BetweenDirectories, InDirectory
  <2>6. ThreadTypeOK'
    BY <1>5, <2>4, <2>5 DEF AddDirectory, ThreadTypeOK
  <2>. QED  BY <1>5, <2>3, <2>6 DEF AddDirectory
<1>6. CASE StartWatch(t)
  <2>1. monitor[t] \in InDirectory
    BY <1>2, <1>6 DEF StartWatch, NotMonitoring, BetweenDirectories
  <2>2. Head(monitor[t].todo) \in Directories
    BY <2>1, TailRange DEF InDirectory
  <2>3. adds' \in Seq(Directories)
    BY <1>6, <2>2 DEF StartWatch, MonitorTypeOK
  <2>4. MonitorTypeOK'
    BY <1>6, <2>3 DEF StartWatch, MonitorTypeOK
  <2>5. [monitor[t] EXCEPT !.step = "map"] \in InDirectory
    BY <2>1 DEF InDirectory
  <2>6. notifier' \in Idling \cup LookingUp \cup Invalidating
    BY <1>6 DEF StartWatch, Idle, Idling, ThreadTypeOK
  <2>7. ThreadTypeOK'
    BY <1>6, <2>5, <2>6 DEF StartWatch, ThreadTypeOK
  <2>. QED  BY <1>6, <2>4, <2>7 DEF StartWatch
<1>7. CASE MapToken(t)
  <2>1. monitor[t] \in InDirectory
    BY <1>2, <1>7 DEF MapToken, NotMonitoring, BetweenDirectories
  <2>2. Tail(monitor[t].todo) \in Seq(Directories)
    BY <2>1, TailRange DEF InDirectory
  <2>3. call[t] \in Call
    <3>1. monitor[t] # NotMonitoring
      BY <2>1 DEF InDirectory, NotMonitoring
    <3>2. call[t].stage = "done"
      BY <3>1 DEF RegistrationsAreOwned
    <3>. QED  BY <1>1, <3>2, CallTypes DEF CacheTypeOK
  <2>4. call[t].repo \in Repos
    BY <2>3 DEF Call
  <2>5. [step |-> "add", todo |-> Tail(monitor[t].todo)] \in BetweenDirectories
    BY <2>2 DEF BetweenDirectories
  <2>6. ThreadTypeOK'
    BY <1>7, <2>4, <2>5 DEF MapToken, ThreadTypeOK
  <2>. QED  BY <1>7, <2>6 DEF MapToken
<1>8. CASE Respond(t)
  <2>1. CacheTypeOK'
    BY <1>8, <1>1 DEF Respond, Return, CacheTypeOK
  <2>2. ThreadTypeOK'
    BY <1>8 DEF Respond, ThreadTypeOK
  <2>. QED  BY <1>8, <2>1, <2>2 DEF Respond
<1>. QED  BY <1>3, <1>4, <1>5, <1>6, <1>7, <1>8 DEF Request

LEMMA PrimingTypes ==
  ASSUME TypeOK, Priming PROVE TypeOK'
<1>. USE UnchangedTypes, StatusCacheAssumption DEF TypeOK
<1>1. CASE OnPrimingTimerExpiration
  <2>1. ThreadTypeOK'
    BY <1>1 DEF OnPrimingTimerExpiration, ThreadTypeOK
  <2>. QED  BY <1>1, <2>1 DEF OnPrimingTimerExpiration
<1>2. ASSUME NEW r \in Repos, PrimeMiss(r) PROVE TypeOK'
  <2>1. CacheTypeOK'
    BY <1>2, StatusTypes DEF PrimeMiss, Miss, Call, CacheTypeOK
  <2>. QED  BY <1>2, <2>1 DEF PrimeMiss
<1>3. ASSUME NEW r \in Repos, PrimeHit(r) PROVE TypeOK'
  <2>1. ThreadTypeOK'
    BY <1>3 DEF PrimeHit, ThreadTypeOK
  <2>. QED  BY <1>3, <2>1 DEF PrimeHit
<1>4. CASE PrimeDone
  <2>1. CacheTypeOK'
    BY <1>4 DEF PrimeDone, Return, CacheTypeOK
  <2>2. ThreadTypeOK'
    BY <1>4 DEF PrimeDone, ThreadTypeOK
  <2>. QED  BY <1>4, <2>1, <2>2 DEF PrimeDone
<1>. QED  BY <1>1, <1>2, <1>3, <1>4, FillTypes DEF Priming

LEMMA StepTypes ==
  ASSUME TypeOK, RegistrationsAreOwned, [Next]_vars PROVE TypeOK'
<1>1. CASE Next
  BY <1>1, EnvironmentTypes, WatcherTypes, NotifierTypes, RequestTypes, PrimingTypes DEF Next
<1>2. CASE UNCHANGED vars
  BY <1>2, UnchangedTypes DEF vars, TypeOK
<1>. QED  BY <1>1, <1>2

-----------------------------------------------------------------------------
(* Tokens and registrations.                                               *)

\* Only MapToken gives a directory a repository, and only GetStatus, Query, Store
\* and Respond move a request from one call to another.
LEMMA StepTokens ==
  ASSUME TypeOK, TokensAreOwned, RegistrationsAreOwned, [Next]_vars
  PROVE  TokensAreOwned'
<1>1. CASE UNCHANGED tokensToRepositories
  BY <1>1 DEF TokensAreOwned
<1>2. ASSUME NEW t \in Requests, MapToken(t) PROVE TokensAreOwned'
  <2>1. monitor[t] \in InDirectory
    BY <1>2 DEF MapToken, NotMonitoring, BetweenDirectories, TypeOK, ThreadTypeOK
  <2>2. Head(monitor[t].todo) \in Range(monitor[t].todo)
    BY <2>1, TailRange DEF InDirectory
  <2>3. monitor[t] # NotMonitoring
    BY <1>2 DEF MapToken, NotMonitoring
  <2>4. Range(monitor[t].todo) \subseteq Monitored(call[t].repo)
    BY <2>3 DEF RegistrationsAreOwned
  <2>5. Head(monitor[t].todo) \in Monitored(call[t].repo)
    BY <2>2, <2>4
  <2>. QED  BY <1>2, <2>5 DEF MapToken, TokensAreOwned, TypeOK, ThreadTypeOK
<1>3. CASE ~ \E t \in Requests : MapToken(t)
  BY <1>1, <1>3 DEF Next, vars, Environment, Watcher, Notifier, Request, Priming,
       ChangeOnDisk, ReadFails, ProcessIgnoredNotification, GetStatus, RaiseOverflow,
       WatchDirectory,
       ProcessNotification, NotifyEventsLost, CheckOverflow, Pop, OnEventsLost, FindToken,
       FailedToFindToken, OnFileChangedInvalidate, OnFileChangedSchedule, Query,
       StoreStatus, MonitorRepositoryDirectories, AddDirectory, StartWatch, Respond,
       OnPrimingTimerExpiration, PrimeMiss, PrimeHit, PrimeDone, threadVars
<1>. QED  BY <1>2, <1>3

LEMMA StepRegistrations ==
  ASSUME TypeOK, RegistrationsAreOwned, [Next]_vars
  PROVE  RegistrationsAreOwned'
<1>. SUFFICES ASSUME NEW t \in Requests, (monitor[t] # NotMonitoring)'
              PROVE  /\ (call[t].stage = "done" /\ call[t].status.ok)'
                     /\ (Range(monitor[t].todo) \subseteq Monitored(call[t].repo))'
                     /\ \A d \in Monitored(call'[t].repo) :
                          (d \in Range(monitor[t].todo) \/ tokensToRepositories[d] = call[t].repo)'
  BY DEF RegistrationsAreOwned, Monitored, MonitoredDirectories
<1>. DEFINE Registration ==
       /\ call[t].stage = "done" /\ call[t].status.ok
       /\ Range(monitor[t].todo) \subseteq Monitored(call[t].repo)
       /\ \A d \in Monitored(call[t].repo) :
            d \in Range(monitor[t].todo) \/ tokensToRepositories[d] = call[t].repo
<1>t. t \in Callers /\ t # Primer
  BY DEF Requests
<1>r. monitor[t] # NotMonitoring => Registration
  BY DEF RegistrationsAreOwned
<1>. HIDE DEF Registration
<1>1. SUFFICES Registration'
  BY <1>1 DEF Registration, Monitored, MonitoredDirectories
<1>2. CASE /\ call'[t] = call[t]
           /\ monitor[t] # NotMonitoring
           /\ monitor'[t].todo = monitor[t].todo
           /\ tokensToRepositories' = tokensToRepositories
  BY <1>2, <1>r DEF Registration, Monitored, MonitoredDirectories
<1>3. CASE UNCHANGED <<call, monitor, tokensToRepositories>>
  BY <1>2, <1>3
<1>4. ASSUME NEW u \in Requests, NEW r \in Repos, GetStatus(u, r) PROVE Registration'
  <2>1. monitor' = monitor /\ tokensToRepositories' = tokensToRepositories
    BY <1>4 DEF GetStatus, threadVars
  <2>2. call[t].stage = "done"
    BY <2>1, <1>r DEF Registration
  <2>3. u # t /\ u \in Callers
    BY <1>4, <2>2 DEF GetStatus, Hit, Miss, NoCall, Requests
  <2>4. call'[t] = call[t]
    BY <1>4, <1>t, <2>3 DEF GetStatus, Hit, Miss, TypeOK, CacheTypeOK
  <2>. QED  BY <1>2, <2>1, <2>4
<1>5. ASSUME NEW c \in Callers, Query(c) \/ StoreStatus(c) PROVE Registration'
  <2>1. monitor' = monitor /\ tokensToRepositories' = tokensToRepositories
    BY <1>5 DEF Query, StoreStatus, threadVars
  <2>2. call[t].stage = "done"
    BY <2>1, <1>r DEF Registration
  <2>3. c # t
    BY <1>5, <2>2 DEF Query, QueryGit, StoreStatus, Store
  <2>4. call'[t] = call[t]
    BY <1>5, <1>t, <2>3 DEF Query, QueryGit, StoreStatus, Store, TypeOK, CacheTypeOK
  <2>. QED  BY <1>2, <2>1, <2>4
<1>6. ASSUME NEW u \in Requests, MonitorRepositoryDirectories(u) PROVE Registration'
  <2>1. call' = call /\ tokensToRepositories' = tokensToRepositories
    BY <1>6 DEF MonitorRepositoryDirectories, cacheVars
  <2>2. CASE u # t
    <3>1. monitor'[t] = monitor[t]
      BY <1>6, <2>2 DEF MonitorRepositoryDirectories, TypeOK, ThreadTypeOK
    <3>. QED  BY <1>2, <2>1, <3>1
  <2>3. CASE u = t
    <3>1. /\ call[t].stage = "done" /\ call[t].status.ok
          /\ monitor'[t].todo = MonitoredDirectories(call[t].repo)
      BY <1>6, <2>3 DEF MonitorRepositoryDirectories, TypeOK, ThreadTypeOK
    <3>2. Range(monitor'[t].todo) = Monitored(call[t].repo)
      BY <3>1 DEF Monitored
    <3>. QED  BY <2>1, <3>1, <3>2 DEF Registration, Monitored, MonitoredDirectories
  <2>. QED  BY <2>2, <2>3
<1>7. ASSUME NEW u \in Requests, AddDirectory(u) \/ StartWatch(u) PROVE Registration'
  <2>1. call' = call /\ tokensToRepositories' = tokensToRepositories
    BY <1>7 DEF AddDirectory, StartWatch, cacheVars
  <2>2. monitor[t] # NotMonitoring
    BY <1>7 DEF AddDirectory, StartWatch, NotMonitoring, TypeOK, ThreadTypeOK
  <2>3. PICK step \in {"watch", "map"} : monitor' = [monitor EXCEPT ![u].step = step]
    BY <1>7 DEF AddDirectory, StartWatch
  <2>4. monitor[t] \in {NotMonitoring} \cup BetweenDirectories \cup InDirectory
    BY DEF TypeOK, ThreadTypeOK
  <2>5. monitor'[t].todo = monitor[t].todo
    BY <2>3, <2>4 DEF NotMonitoring, BetweenDirectories, InDirectory, TypeOK, ThreadTypeOK
  <2>. QED  BY <1>2, <2>1, <2>2, <2>5
<1>8. ASSUME NEW u \in Requests, MapToken(u) PROVE Registration'
  <2>. DEFINE e == Head(monitor[u].todo)
              s == call[u].repo
  <2>1. call' = call
    BY <1>8 DEF MapToken, cacheVars
  <2>2. monitor[u] # NotMonitoring /\ monitor[u] \in InDirectory
    BY <1>8 DEF MapToken, NotMonitoring, BetweenDirectories, TypeOK, ThreadTypeOK
  <2>3. /\ e \in Directories
        /\ e \in Range(monitor[u].todo)
        /\ Range(monitor[u].todo) = {e} \cup Range(Tail(monitor[u].todo))
    BY <2>2, TailRange DEF InDirectory
  <2>4. call[u].stage = "done" /\ Range(monitor[u].todo) \subseteq Monitored(s)
    BY <2>2 DEF RegistrationsAreOwned
  <2>5. tokensToRepositories'[e] = s
    BY <1>8, <2>3 DEF MapToken, TypeOK, ThreadTypeOK
  <2>6. \A d \in Directories : d # e => tokensToRepositories'[d] = tokensToRepositories[d]
    BY <1>8, <2>3 DEF MapToken, TypeOK, ThreadTypeOK
  <2>7. call[t] \in Call \cup {NoCall} /\ call[u] \in Call \cup {NoCall}
    BY <1>t DEF TypeOK, CacheTypeOK, Requests
  <2>8. CASE u = t
    <3>1. monitor'[t].todo = Tail(monitor[t].todo)
      BY <1>8, <2>8 DEF MapToken, TypeOK, ThreadTypeOK
    <3>2. call[t] \in Call
      BY <2>7, <2>4, <2>8, CallTypes
    <3>3. Monitored(call[t].repo) \subseteq Directories
      BY <3>2, MonitoredType DEF Call
    <3>4. Registration
      BY <1>r, <2>2, <2>8
    <3>5. Range(monitor'[t].todo) \subseteq Monitored(call[t].repo)
      BY <2>3, <2>4, <2>8, <3>1
    <3>6. ASSUME NEW d \in Monitored(call[t].repo)
          PROVE  d \in Range(monitor'[t].todo) \/ tokensToRepositories'[d] = call[t].repo
      BY <2>3, <2>5, <2>6, <2>8, <3>1, <3>3, <3>4 DEF Registration
    <3>. QED  BY <2>1, <3>4, <3>5, <3>6 DEF Registration, Monitored, MonitoredDirectories
  <2>9. CASE u # t
    <3>1. monitor'[t] = monitor[t]
      BY <1>8, <2>9 DEF MapToken, TypeOK, ThreadTypeOK
    <3>2. Registration
      BY <1>r, <3>1
    <3>3. call[t] \in Call /\ call[u] \in Call
      BY <2>7, <2>4, <3>2, CallTypes DEF Registration
    <3>4. call[t].repo \in Repos /\ s \in Repos
      BY <3>3 DEF Call
    <3>5. Monitored(call[t].repo) \subseteq Directories
      BY <3>4, MonitoredType
    <3>6. call[t].repo = s \/ e \notin Monitored(call[t].repo)
      BY <2>3, <2>4, <3>4, DisjointAssumption
    <3>7. ASSUME NEW d \in Monitored(call[t].repo)
          PROVE  d \in Range(monitor[t].todo) \/ tokensToRepositories'[d] = call[t].repo
      BY <2>5, <2>6, <3>2, <3>5, <3>6 DEF Registration
    <3>. QED  BY <2>1, <3>1, <3>2, <3>7 DEF Registration, Monitored, MonitoredDirectories
  <2>. QED  BY <2>8, <2>9
<1>9. ASSUME NEW u \in Requests, Respond(u) PROVE Registration'
  <2>1. tokensToRepositories' = tokensToRepositories
    BY <1>9 DEF Respond
  <2>2. u # t
    BY <1>9 DEF Respond, TypeOK, ThreadTypeOK
  <2>3. monitor'[t] = monitor[t] /\ call'[t] = call[t]
    BY <1>9, <1>t, <2>2 DEF Respond, Return, TypeOK, ThreadTypeOK, CacheTypeOK
  <2>. QED  BY <1>2, <2>1, <2>3
<1>10. CASE PrimeDone \/ \E r \in Repos : PrimeMiss(r)
  <2>1. monitor' = monitor /\ tokensToRepositories' = tokensToRepositories
    BY <1>10 DEF PrimeDone, PrimeMiss, threadVars
  <2>2. call'[t] = call[t]
    BY <1>10, <1>t DEF PrimeDone, PrimeMiss, Return, Miss, TypeOK, CacheTypeOK
  <2>. QED  BY <1>2, <2>1, <2>2
<1>11. CASE UNCHANGED vars
  BY <1>11, <1>3 DEF vars, cacheVars, threadVars
<1>12. CASE Environment
  BY <1>12, <1>3, <1>4
     DEF Environment, ChangeOnDisk, Change, ReadFails, ProcessIgnoredNotification,
         threadVars, cacheVars
<1>13. CASE Watcher
  BY <1>13, <1>3 DEF Watcher, WatchDirectory, RaiseOverflow, ProcessNotification, NotifyEventsLost,
                     threadVars, cacheVars
<1>14. CASE Notifier
  BY <1>14, <1>3
     DEF Notifier, CheckOverflow, Pop, OnEventsLost, FindToken, FailedToFindToken,
         OnFileChangedInvalidate, OnFileChangedSchedule, InvalidateAllCacheEntries,
         InvalidateCacheEntry, threadVars, cacheVars
<1>15. ASSUME NEW u \in Requests, Request(u) PROVE Registration'
  BY <1>15, <1>5, <1>6, <1>7, <1>8, <1>9 DEF Request, Requests
<1>16. CASE Priming
  BY <1>16, <1>3, <1>5, <1>10, StatusCacheAssumption
     DEF Priming, OnPrimingTimerExpiration, PrimeHit, cacheVars
<1>. QED  BY <1>11, <1>12, <1>13, <1>14, <1>15, <1>16 DEF Next

-----------------------------------------------------------------------------
(* What is about to be stored was right once.                              *)

\* Only a query gives a call a status to store, and no change takes a version back.
LEMMA StepAnswers ==
  ASSUME TypeOK, AnswersArePast, [Next]_vars
  PROVE  AnswersArePast'
<1>. USE DEF AnswersArePast
<1>t. /\ call \in [Callers -> Call \cup {NoCall}]
      /\ \A r \in Repos : disk[r] \in Nat
  BY CacheAssumption DEF TypeOK, CacheTypeOK
<1>1. CASE UNCHANGED <<disk, call>>
  BY <1>1
<1>2. ASSUME NEW r \in Repos, NEW d \in Directories, ChangeOnDisk(r, d) PROVE AnswersArePast'
  <2>1. \A s \in Repos : disk'[s] \in Nat /\ disk[s] <= disk'[s]
    BY <1>t, <1>2 DEF ChangeOnDisk, Change, TypeOK, CacheTypeOK
  <2>2. \A c \in Callers : call[c].stage = "store" =>
          call[c].repo \in Repos /\ call[c].status.version \in Nat
    BY <1>t DEF Call, Status, NoCall
  <2>. QED  BY <1>2, <1>t, <2>1, <2>2 DEF ChangeOnDisk, Change
<1>3. ASSUME NEW c \in Callers, Query(c) PROVE AnswersArePast'
  <2>1. call[c] \in Call
    BY <1>t, <1>3, CallTypes DEF Query, QueryGit
  <2>2. /\ disk' = disk
        /\ \A e \in Callers : e # c => call'[e] = call[e]
        /\ call'[c].repo = call[c].repo
        /\ call'[c].status \in {[ok |-> TRUE, version |-> disk[call[c].repo]], FailedStatus}
    BY <1>t, <1>3, <2>1 DEF Query, QueryGit, Call
  <2>3. call'[c].status.version <= disk'[call'[c].repo]
    BY <1>t, <2>1, <2>2 DEF FailedStatus, Call
  <2>. QED  BY <2>2, <2>3
<1>4. ASSUME NEW c \in Callers, disk' = disk,
             \A e \in Callers : e # c => call'[e] = call[e], call'[c].stage # "store"
      PROVE  AnswersArePast'
  BY <1>4
<1>5. ASSUME NEW c \in Callers, NEW r \in Repos, Hit(c, r) \/ Miss(c, r) PROVE AnswersArePast'
  BY <1>t, <1>4, <1>5 DEF Hit, Miss
<1>6. ASSUME NEW c \in Callers, StoreStatus(c) PROVE AnswersArePast'
  <2>1. call[c] \in Call
    BY <1>t, <1>6, CallTypes DEF StoreStatus, Store
  <2>2. call'[c].stage = "done"
    BY <1>t, <1>6, <2>1 DEF StoreStatus, Store, Call
  <2>. QED  BY <1>t, <1>4, <1>6, <2>2 DEF StoreStatus, Store
<1>7. ASSUME NEW c \in Callers, Return(c) PROVE AnswersArePast'
  BY <1>t, <1>4, <1>7 DEF Return, NoCall
<1>8. CASE UNCHANGED vars
  BY <1>1, <1>8 DEF vars, cacheVars
<1>9. CASE Environment
  BY <1>1, <1>2, <1>5, <1>9
     DEF Environment, ReadFails, ProcessIgnoredNotification, GetStatus, Requests, cacheVars
<1>10. CASE Watcher
  BY <1>1, <1>10 DEF Watcher, WatchDirectory, RaiseOverflow, ProcessNotification,
                     NotifyEventsLost, cacheVars
<1>11. CASE Notifier
  BY <1>1, <1>11
     DEF Notifier, CheckOverflow, Pop, OnEventsLost, InvalidateAllCacheEntries, FindToken,
         FailedToFindToken, OnFileChangedInvalidate, InvalidateCacheEntry,
         OnFileChangedSchedule, cacheVars
<1>12. ASSUME NEW t \in Requests, Request(t) PROVE AnswersArePast'
  BY <1>1, <1>3, <1>6, <1>7, <1>12
     DEF Request, Requests, MonitorRepositoryDirectories, AddDirectory, StartWatch, MapToken,
         Respond, cacheVars
<1>13. CASE Priming
  BY <1>1, <1>3, <1>5, <1>6, <1>7, <1>13, StatusCacheAssumption
     DEF Priming, OnPrimingTimerExpiration, PrimeMiss, PrimeHit, PrimeDone, cacheVars
<1>. QED  BY <1>8, <1>9, <1>10, <1>11, <1>12, <1>13 DEF Next

-----------------------------------------------------------------------------
LEMMA InitInvariant ==
  ASSUME Init PROVE IInv
<1>1. TokensAreOwned
  BY DEF Init, TokensAreOwned
<1>2. RegistrationsAreOwned
  BY DEF Init, RegistrationsAreOwned
<1>3. AnswersArePast
  BY DEF Init, CacheInit, NoCall, AnswersArePast
<1>. QED  BY InitTypes, <1>1, <1>2, <1>3 DEF IInv

\* Every behaviour of the program keeps the inductive invariant: types, ownership of
\* tokens and registrations, and the trace of every change (StatusCache.cpp, Cache.cpp).
THEOREM Inductive == Spec => []IInv
<1>1. IInv /\ [Next]_vars => IInv'
  BY StepTypes, StepTokens, StepRegistrations, StepAnswers DEF IInv
<1>. QED  BY InitInvariant, <1>1, PTL DEF Spec

\* Every variable keeps its type: in particular no thread acts on a directory it
\* does not have, and the queue keeps to its limit.
THEOREM TypeCorrect == Spec => []TypeOK
<1>1. IInv => TypeOK
  BY DEF IInv
<1>. QED  BY Inductive, <1>1, PTL

-----------------------------------------------------------------------------
(* The cache keeps the promise of StatusService.                           *)

LEMMA NewsMeans ==
  /\ News \subseteq Repos /\ News' \subseteq Repos
  /\ \A r \in Repos : (r \in News <=> Announced(r)) /\ (r \in News' <=> Announced(r)')
BY DEF News

\* What a Push adds can only announce more.
LEMMA PushAnnounces ==
  ASSUME TypeOK, NEW n \in Notification, Push(n)
  PROVE  /\ \A i \in 1..Len(queue) : i \in 1..Len(queue') /\ queue'[i] = queue[i]
         /\ raising => raising'
         /\ raising' \/ \E i \in 1..Len(queue') : queue'[i] = n
<1>1. queue \in Seq(Notification)
  BY DEF TypeOK, MonitorTypeOK
<1>2. CASE queue' = Append(queue, n) /\ UNCHANGED raising
  <2>1. Len(queue') = Len(queue) + 1 /\ queue'[Len(queue) + 1] = n
    BY <1>1, <1>2
  <2>2. \A i \in 1..Len(queue) : queue'[i] = queue[i]
    BY <1>1, <1>2
  <2>. QED  BY <1>1, <1>2, <2>1, <2>2
<1>3. CASE raising' = TRUE /\ UNCHANGED queue
  BY <1>3
<1>. QED  BY <1>2, <1>3 DEF Push

\* Every step hands the news of a change on: from the buffer to the queue or the
\* watcher that is to raise the overflow flag, from there to the notification thread,
\* which ends by removing the entry.
LEMMA NewsKept ==
  ASSUME IInv, [Next]_vars, NEW r \in Repos, Announced(r)
  PROVE  \/ Announced(r)'
         \/ notifier' # notifier /\ (OnEventsLost \/ (OnFileChangedInvalidate /\ notifier.repo = r))
<1>. USE DEF IInv
<1>d. Monitored(r) \subseteq Directories
  BY MonitoredType
<1>q. queue \in Seq(Notification)
  BY DEF TypeOK, MonitorTypeOK
<1>1. CASE UNCHANGED <<unread, queue, overflow, raising, notifier>>
  BY <1>1 DEF Announced, Monitored, MonitoredDirectories
<1>2. ASSUME NEW s \in Repos, NEW d \in Directories, ChangeOnDisk(s, d) PROVE Announced(r)'
  <2>1. \A e \in Directories : unread[e] > 0 => unread'[e] > 0
    BY <1>2 DEF ChangeOnDisk, TypeOK, MonitorTypeOK
  <2>. QED
    BY <1>2, <1>d, <2>1 DEF ChangeOnDisk, Announced, Monitored, MonitoredDirectories, threadVars
<1>3. ASSUME NEW d \in Directories, NEW n \in Notification, Push(n), notifier' = notifier,
             overflow' = overflow,
             \A e \in Directories : e # d => unread'[e] = unread[e],
             UNCHANGED unread \/ n.kind = "lost" \/ (n.kind = "change" /\ n.directory = d)
      PROVE  Announced(r)'
  <2>1. /\ \A i \in 1..Len(queue) : i \in 1..Len(queue') /\ queue'[i] = queue[i]
        /\ raising => raising'
        /\ raising' \/ \E i \in 1..Len(queue') : queue'[i] = n
    BY <1>3, PushAnnounces
  <2>2. CASE \E e \in Monitored(r) : unread[e] > 0
    <3>1. PICK e \in Monitored(r) : unread[e] > 0
      BY <2>2
    <3>2. CASE unread'[e] = unread[e]
      BY <3>1, <3>2 DEF Announced, Monitored, MonitoredDirectories
    <3>3. CASE unread'[e] # unread[e]
      <4>1. n.kind = "lost" \/ (n.kind = "change" /\ n.directory \in Monitored(r))
        BY <1>3, <1>d, <3>3
      <4>. QED  BY <2>1, <4>1 DEF Announced, Monitored, MonitoredDirectories
    <3>. QED  BY <3>2, <3>3
  <2>3. CASE \E i \in 1..Len(queue) :
               \/ queue[i].kind = "lost"
               \/ queue[i].kind = "change" /\ queue[i].directory \in Monitored(r)
    BY <2>1, <2>3 DEF Announced, Monitored, MonitoredDirectories
  <2>4. CASE \/ raising \/ overflow
             \/ notifier.stage = "eventsLost"
             \/ notifier.stage = "lookup" /\ notifier.directory \in Monitored(r)
             \/ notifier.stage = "invalidate" /\ notifier.repo = r
    BY <1>3, <2>1, <2>4 DEF Announced, Monitored, MonitoredDirectories
  <2>. QED  BY <2>2, <2>3, <2>4 DEF Announced
<1>4. ASSUME NEW d \in Directories,
             ProcessNotification(d) \/ NotifyEventsLost(d) \/ ProcessIgnoredNotification(d)
      PROVE  Announced(r)'
  <2>. DEFINE note(k) == [directory |-> d, kind |-> k]
  <2>1. /\ \A k \in {"change", "ignored", "lost"} : note(k) \in Notification
        /\ \A e \in Directories : e # d => unread'[e] = unread[e]
        /\ notifier' = notifier /\ overflow' = overflow
    BY <1>4 DEF ProcessNotification, NotifyEventsLost, ProcessIgnoredNotification, TypeOK,
                MonitorTypeOK, threadVars, Notification
  <2>2. CASE ProcessNotification(d)
    BY <1>3, <2>1, <2>2 DEF ProcessNotification
  <2>3. CASE NotifyEventsLost(d)
    BY <1>3, <2>1, <2>3 DEF NotifyEventsLost
  <2>4. CASE ProcessIgnoredNotification(d)
    BY <1>3, <2>1, <2>4 DEF ProcessIgnoredNotification
  <2>. QED  BY <1>4, <2>2, <2>3, <2>4
<1>5. CASE CheckOverflow
  BY <1>5 DEF CheckOverflow, Announced, Idle
<1>6. CASE Pop
  <2>1. queue # <<>> /\ queue' = Tail(queue) /\ notifier.stage = "waiting"
        /\ UNCHANGED <<overflow, raising>>
    BY <1>6 DEF Pop
  <2>2. /\ Head(queue) = queue[1] /\ Len(queue) \in Nat /\ Len(queue') = Len(queue) - 1
        /\ \A i \in 1..Len(queue) : i = 1 \/ (i - 1 \in 1..Len(queue') /\ queue'[i - 1] = queue[i])
    BY <1>q, <2>1
  <2>3. queue[1].kind = "lost" => notifier'.stage = "eventsLost"
    BY <1>6, <2>2 DEF Pop, Idle
  <2>4. queue[1].kind = "change" =>
          notifier'.stage = "lookup" /\ notifier'.directory = queue[1].directory
    BY <1>6, <2>2 DEF Pop, Idle
  <2>5. CASE \E i \in 1..Len(queue) :
               \/ queue[i].kind = "lost"
               \/ queue[i].kind = "change" /\ queue[i].directory \in Monitored(r)
    <3>1. PICK i \in 1..Len(queue) :
               \/ queue[i].kind = "lost"
               \/ queue[i].kind = "change" /\ queue[i].directory \in Monitored(r)
      BY <2>5
    <3>2. CASE i = 1
      BY <2>3, <2>4, <3>1, <3>2 DEF Announced, Monitored, MonitoredDirectories
    <3>3. CASE i # 1
      BY <2>2, <3>1, <3>3 DEF Announced, Monitored, MonitoredDirectories
    <3>. QED  BY <3>2, <3>3
  <2>6. CASE (\E e \in Monitored(r) : unread[e] > 0) \/ raising \/ overflow
    BY <1>6, <2>6 DEF Pop, Announced, Monitored, MonitoredDirectories
  <2>. QED  BY <2>1, <2>5, <2>6 DEF Announced
<1>7. CASE OnEventsLost
  <2>1. notifier.stage = "eventsLost" /\ notifier'.stage = "waiting"
    BY <1>7 DEF OnEventsLost, Idle
  <2>2. notifier' # notifier
    BY <2>1
  <2>. QED  BY <1>7, <2>2
<1>8. CASE FindToken
  <2>1. notifier.directory \in Directories
    BY <1>8 DEF FindToken, TypeOK, ThreadTypeOK, Idling, LookingUp, Invalidating
  <2>2. notifier'.stage = "invalidate" /\ notifier'.repo = tokensToRepositories[notifier.directory]
    BY <1>8 DEF FindToken, Idle
  <2>3. /\ tokensToRepositories[notifier.directory] \in Repos
        /\ notifier.directory \in Monitored(tokensToRepositories[notifier.directory])
    BY <1>8, <2>1 DEF FindToken, TokensAreOwned, TypeOK, ThreadTypeOK
  <2>4. notifier.directory \in Monitored(r) => notifier'.repo = r
    BY <2>2, <2>3, DisjointAssumption
  <2>. QED
    BY <1>8, <2>2, <2>4 DEF FindToken, Announced, Monitored, MonitoredDirectories, monitorVars
<1>9. CASE OnFileChangedInvalidate
  <2>1. CASE notifier.repo = r
    <3>1. notifier \in Invalidating
      BY <1>9 DEF OnFileChangedInvalidate, TypeOK, ThreadTypeOK, Idling, LookingUp, Invalidating
    <3>2. notifier'.stage = "schedule" /\ notifier.stage = "invalidate"
      BY <1>9, <3>1 DEF OnFileChangedInvalidate, Invalidating
    <3>. QED  BY <1>9, <2>1, <3>2
  <2>2. CASE notifier.repo # r
    BY <1>9, <2>2
       DEF OnFileChangedInvalidate, Announced, Monitored, MonitoredDirectories, monitorVars
  <2>. QED  BY <2>1, <2>2
<1>10. CASE OnFileChangedSchedule
  BY <1>10 DEF OnFileChangedSchedule, Announced, Monitored, MonitoredDirectories, monitorVars
<1>11. ASSUME NEW t \in Requests, StartWatch(t) PROVE Announced(r)'
  BY <1>11 DEF StartWatch, Announced, Idle, Monitored, MonitoredDirectories
<1>12. CASE UNCHANGED vars
  BY <1>12, <1>1 DEF vars, monitorVars, threadVars
<1>13. CASE Environment
  BY <1>13, <1>1, <1>2, <1>4 DEF Environment, ReadFails, GetStatus, monitorVars, threadVars
<1>14. CASE Watcher
  <2>1. CASE RaiseOverflow
    BY <2>1 DEF RaiseOverflow, Announced
  <2>. QED  BY <1>14, <1>1, <1>4, <2>1 DEF Watcher, WatchDirectory, threadVars
<1>15. CASE Notifier
  BY <1>15, <1>1, <1>5, <1>6, <1>7, <1>8, <1>9, <1>10
     DEF Notifier, FailedToFindToken, monitorVars, threadVars
<1>16. ASSUME NEW t \in Requests, Request(t) PROVE Announced(r)'
  BY <1>16, <1>1, <1>11
     DEF Request, Query, StoreStatus, MonitorRepositoryDirectories, AddDirectory, MapToken,
         Respond, monitorVars, threadVars
<1>17. CASE Priming
  BY <1>17, <1>1
     DEF Priming, OnPrimingTimerExpiration, PrimeMiss, PrimeHit, Query, StoreStatus, PrimeDone,
         monitorVars, threadVars
<1>. QED  BY <1>12, <1>13, <1>14, <1>15, <1>16, <1>17 DEF Next

\* Elsewhere the notification thread does nothing, so all news is kept.
LEMMA AllNewsKept ==
  ASSUME IInv, [Next]_vars, notifier' = notifier
  PROVE  News \subseteq News'
BY NewsKept, NewsMeans

\* A change that no watch of its repository reports leaves the entry exposed; one that
\* is reported is waiting in a directory's buffer.
LEMMA ChangeServes ==
  ASSUME IInv, [Next]_vars, NEW s \in Repos, NEW d \in Directories, ChangeOnDisk(s, d)
  PROVE  Service!Change(s)
<1>. USE DEF IInv
<1>1. News \subseteq News'
  BY AllNewsKept DEF ChangeOnDisk, threadVars
<1>2. exposed' = [exposed EXCEPT ![s] = @ \/ Reporting(d) \cap Monitored(s) = {}]
  BY DEF ChangeOnDisk
<1>3. Unseen' \in {Unseen, Unseen \cup {s}}
  <2>1. exposed \in [Repos -> BOOLEAN]
    BY DEF TypeOK
  <2>. QED  BY <1>2, <2>1 DEF Unseen
<1>4. s \in News' \cup Unseen'
  <2>1. CASE Reporting(d) \cap Monitored(s) = {}
    BY <1>2, <2>1 DEF Unseen, TypeOK
  <2>2. CASE Reporting(d) \cap Monitored(s) # {}
    <3>1. PICK e \in Reporting(d) : e \in Monitored(s)
      BY <2>2
    <3>2. e \in Directories
      BY <3>1, MonitoredType
    <3>3. unread[e] \in Nat /\ (unread[e] > BufferLimit => unread[e] > 0)
      BY <3>2, StatusCacheAssumption DEF TypeOK, MonitorTypeOK
    <3>4. unread'[e] > 0
      BY <3>1, <3>2, <3>3, StatusCacheAssumption DEF ChangeOnDisk
    <3>5. Announced(s)'
      BY <3>1, <3>4 DEF Announced, Monitored, MonitoredDirectories
    <3>. QED  BY <3>5, NewsMeans
  <2>. QED  BY <2>1, <2>2
<1>. QED  BY <1>1, <1>3, <1>4 DEF ChangeOnDisk, Change, Service!Change

\* An answer is from the past (AnswersArePast), and storing an outdated one is what
\* `exposed` records.
LEMMA StoreServes ==
  ASSUME IInv, [Next]_vars, NEW c \in Callers, StoreStatus(c)
  PROVE  Service!Answer(call[c].repo)
<1>. USE DEF IInv
<1>. DEFINE r == call[c].repo
            status == call[c].status
<1>1. call[c] \in Call
  BY CallTypes DEF StoreStatus, Store, TypeOK, CacheTypeOK
<1>2. r \in Repos /\ status \in Status
  BY <1>1 DEF Call
<1>3. status \in [ok : BOOLEAN, version : 0..disk[r]]
  <2>1. status.version <= disk[r]
    BY DEF StoreStatus, Store, AnswersArePast
  <2>2. disk[r] \in Nat
    BY <1>2, CacheAssumption DEF TypeOK, CacheTypeOK
  <2>. QED  BY <1>2, <2>1, <2>2 DEF Status
<1>4. cache' = [cache EXCEPT ![r] = status] /\ disk' = disk
  BY DEF StoreStatus, Store
<1>5. exposed' = [exposed EXCEPT ![r] = status.ok /\ status.version # disk[r]]
  BY DEF StoreStatus
<1>6. Unseen' = IF status.ok /\ status.version # disk[r] THEN Unseen \cup {r} ELSE Unseen \ {r}
  BY <1>2, <1>5 DEF Unseen, TypeOK
<1>7. News' = News
  BY DEF StoreStatus, News, Announced, Monitored, MonitoredDirectories, monitorVars, threadVars
<1>. QED  BY <1>3, <1>4, <1>6, <1>7 DEF Service!Answer

\* The two steps that remove entries announce nothing.
LEMMA RemovalServes ==
  ASSUME IInv, [Next]_vars
  PROVE  /\ OnEventsLost => Service!Invalidate(Repos)
         /\ OnFileChangedInvalidate => Service!Invalidate({notifier.repo})
<1>. USE DEF IInv
<1>1. ASSUME OnEventsLost PROVE Service!Invalidate(Repos)
  <2>1. News' \subseteq News
    BY <1>1 DEF OnEventsLost, Idle, News, Announced, Monitored, MonitoredDirectories, monitorVars
  <2>2. News \ Repos = {}
    BY NewsMeans
  <2>3. cache' = [r \in Repos |-> IF r \in Repos THEN NoEntry ELSE cache[r]]
    BY <1>1 DEF OnEventsLost, InvalidateAllCacheEntries
  <2>4. disk' = disk /\ Unseen' = Unseen
    BY <1>1 DEF OnEventsLost, InvalidateAllCacheEntries, Unseen
  <2>. QED  BY <2>1, <2>2, <2>3, <2>4 DEF Service!Invalidate
<1>2. ASSUME OnFileChangedInvalidate PROVE Service!Invalidate({notifier.repo})
  <2>1. notifier'.stage = "schedule"
    <3>1. notifier \in Invalidating
      BY <1>2 DEF OnFileChangedInvalidate, TypeOK, ThreadTypeOK, Idling, LookingUp, Invalidating
    <3>. QED  BY <1>2, <3>1 DEF OnFileChangedInvalidate, Invalidating
  <2>2. News' \subseteq News
    BY <1>2, <2>1
       DEF OnFileChangedInvalidate, News, Announced, Monitored, MonitoredDirectories, monitorVars
  <2>3. News \ {notifier.repo} \subseteq News'
    <3>1. ~OnEventsLost
      BY <1>2 DEF OnFileChangedInvalidate, OnEventsLost
    <3>. QED  BY <3>1, NewsKept, NewsMeans
  <2>4. cache' = [r \in Repos |-> IF r \in {notifier.repo} THEN NoEntry ELSE cache[r]]
    BY <1>2 DEF OnFileChangedInvalidate, InvalidateCacheEntry, TypeOK, CacheTypeOK
  <2>5. disk' = disk /\ Unseen' = Unseen
    BY <1>2 DEF OnFileChangedInvalidate, InvalidateCacheEntry, Unseen
  <2>. QED  BY <2>2, <2>3, <2>4, <2>5 DEF Service!Invalidate
<1>. QED  BY <1>1, <1>2

\* What reads the cache, moves a notification on or registers a directory changes
\* neither what is stored nor what is on disk.
LEMMA OthersServe ==
  ASSUME IInv, [Next]_vars, ~OnEventsLost, ~OnFileChangedInvalidate,
         \A s \in Repos, d \in Directories : ~ChangeOnDisk(s, d),
         \A c \in Callers : ~StoreStatus(c)
  PROVE  Service!Announce
<1>1. UNCHANGED <<disk, cache, exposed>>
  BY StatusCacheAssumption
     DEF Next, Environment, Watcher, Notifier, Request, Priming, Requests, ReadFails,
         ProcessIgnoredNotification, GetStatus, Hit, Miss, RaiseOverflow, WatchDirectory,
         ProcessNotification, NotifyEventsLost, CheckOverflow, Pop, FindToken, FailedToFindToken,
         OnFileChangedSchedule, Query, QueryGit, MonitorRepositoryDirectories, AddDirectory,
         StartWatch, MapToken, Respond, Return, OnPrimingTimerExpiration, PrimeMiss, PrimeHit,
         PrimeDone, vars, cacheVars
<1>2. News \subseteq News'
  BY NewsKept, NewsMeans
<1>. QED  BY <1>1, <1>2 DEF Service!Announce, Unseen

(***************************************************************************)
(* The threads, the watches, the tokens and the queue implement the        *)
(* service: for any repositories that share no monitored directory, no     *)
(* step of any thread stores what was never true, or loses the news of a   *)
(* change and keeps the entry it is about (Cache.cpp, StatusCache.cpp,     *)
(* CacheInvalidator.cpp, DirectoryMonitor.cpp).                            *)
(***************************************************************************)
THEOREM CacheProvidesService == Spec => ServiceSpec
<1>1. Init => Service!Init
  <2>. SUFFICES ASSUME Init PROVE News = {} /\ Unseen = {}
    BY DEF Init, CacheInit, Service!Init
  <2>1. \A r \in Repos : Monitored(r) \subseteq Directories
    BY MonitoredType
  <2>2. notifier.stage = "unstarted" /\ Len(queue) = 0 /\ ~overflow /\ ~raising
    BY DEF Init, Idle
  <2>3. \A d \in Directories : unread[d] = 0
    BY DEF Init
  <2>4. ASSUME NEW r \in Repos PROVE ~Announced(r)
    <3>1. ~ \E d \in Monitored(r) : unread[d] > 0
      BY <2>1, <2>3
    <3>2. 1..Len(queue) = {}
      BY <2>2
    <3>. QED  BY <2>2, <3>1, <3>2 DEF Announced
  <2>. QED  BY <2>4 DEF Init, News, Unseen
<1>2. ASSUME IInv, [Next]_vars PROVE [Service!Next]_(Service!vars)
  <2>1. ASSUME NEW s \in Repos, NEW d \in Directories, ChangeOnDisk(s, d) PROVE Service!Next
    BY <1>2, <2>1, ChangeServes DEF Service!Next
  <2>2. ASSUME NEW c \in Callers, StoreStatus(c) PROVE Service!Next
    <3>1. call[c].repo \in Repos
      BY <1>2, <2>2, CallTypes DEF IInv, StoreStatus, Store, TypeOK, CacheTypeOK, Call
    <3>. QED  BY <1>2, <2>2, <3>1, StoreServes DEF Service!Next
  <2>3. CASE OnEventsLost \/ OnFileChangedInvalidate
    <3>1. OnFileChangedInvalidate => notifier.repo \in Repos
      BY <1>2 DEF IInv, OnFileChangedInvalidate, TypeOK, ThreadTypeOK, Idling, LookingUp,
                  Invalidating
    <3>2. Repos \in SUBSET Repos /\ (OnFileChangedInvalidate => {notifier.repo} \in SUBSET Repos)
      BY <3>1
    <3>. QED  BY <1>2, <2>3, <3>2, RemovalServes DEF Service!Next
  <2>. QED  BY <1>2, <2>1, <2>2, <2>3, OthersServe DEF Service!Next
<1>. QED  BY <1>1, <1>2, Inductive, PTL DEF Spec, ServiceSpec, Service!Spec

\* The promise is enough for StaleEntryIsAnnounced, whatever keeps it.
OutdatedIsNews ==
  /\ cache \in [Repos -> Status \cup {NoEntry}]
  /\ \A r \in Repos : Stale(r) => r \in News \cup Unseen

LEMMA ServiceStep ==
  ASSUME OutdatedIsNews, [Service!Next]_(Service!vars) PROVE OutdatedIsNews'
<1>. USE DEF OutdatedIsNews, Stale, Cached
<1>1. CASE UNCHANGED Service!vars
  BY <1>1 DEF Service!vars
<1>2. ASSUME NEW r \in Repos, Service!Change(r) PROVE OutdatedIsNews'
  <2>1. \A s \in Repos : s # r => disk'[s] = disk[s]
    BY <1>2 DEF Service!Change
  <2>2. News \subseteq News' /\ Unseen \subseteq Unseen' /\ r \in News' \cup Unseen'
    BY <1>2 DEF Service!Change
  <2>. QED  BY <1>2, <2>1, <2>2 DEF Service!Change
<1>3. ASSUME NEW r \in Repos, Service!Answer(r) PROVE OutdatedIsNews'
  <2>1. PICK status \in [ok : BOOLEAN, version : 0..disk[r]] :
          /\ cache' = [cache EXCEPT ![r] = status]
          /\ Unseen' = IF status.ok /\ status.version # disk[r]
                       THEN Unseen \cup {r} ELSE Unseen \ {r}
    BY <1>3 DEF Service!Answer
  <2>2. status \in Status /\ disk' = disk /\ News' = News
    BY <1>3, <2>1 DEF Service!Answer, Status
  <2>3. cache'[r] = status /\ \A s \in Repos : s # r => cache'[s] = cache[s]
    BY <2>1
  <2>. QED  BY <2>1, <2>2, <2>3
<1>4. CASE Service!Announce
  BY <1>4 DEF Service!Announce
<1>5. ASSUME NEW S \in SUBSET Repos, Service!Invalidate(S) PROVE OutdatedIsNews'
  BY <1>5 DEF Service!Invalidate
<1>. QED  BY <1>1, <1>2, <1>3, <1>4, <1>5 DEF Service!Next

\* No step of the path from the disk to m_cache (buffer, queue, overflow, lookup,
\* invalidation) loses the last trace of a change that a watch has seen.
THEOREM NoChangeIsForgotten == Spec => []StaleEntryIsAnnounced
<1>1. Service!Init => OutdatedIsNews
  BY DEF Service!Init, OutdatedIsNews, Stale, Cached
<1>2. OutdatedIsNews => StaleEntryIsAnnounced
  BY DEF OutdatedIsNews, News, Unseen, StaleEntryIsAnnounced
<1>. QED
  BY <1>1, <1>2, ServiceStep, CacheProvidesService, PTL DEF ServiceSpec, Service!Spec

(***************************************************************************)
(* What is left of QuietCacheIsCurrent, which does not hold: when every    *)
(* thread is idle and every notification has been handled, an outdated     *)
(* entry was outdated when it was stored, or its repository changed        *)
(* unwatched, or the overflow flag is up and nothing is queued that would  *)
(* make the notification thread look at it (ThreadSafeQueue.h:58-64).      *)
(***************************************************************************)
THEOREM OnlyExposedEntriesStay ==
  Spec => [](Quiet => \A r \in Repos : Stale(r) => exposed[r] \/ LossWaits)
<1>1. ASSUME TypeOK, StaleEntryIsAnnounced, Quiet, NEW r \in Repos, Stale(r), ~LossWaits
      PROVE  exposed[r]
  <2>1. 1..Len(queue) = {}
    BY <1>1 DEF Quiet
  <2>2. ~ \E d \in Monitored(r) : unread[d] > 0
    BY <1>1, MonitoredType DEF Quiet
  <2>3. ~Announced(r)
    BY <1>1, <2>1, <2>2 DEF Quiet, LossWaits, Announced
  <2>. QED  BY <1>1, <2>3 DEF StaleEntryIsAnnounced
<1>2. TypeOK /\ StaleEntryIsAnnounced =>
        (Quiet => \A r \in Repos : Stale(r) => exposed[r] \/ LossWaits)
  BY <1>1
<1>. QED  BY <1>2, TypeCorrect, NoChangeIsForgotten, PTL

-----------------------------------------------------------------------------
\* The directories a repository has monitored cover the places it is kept in.
LEMMA MonitoredCovers ==
  ASSUME NEW r \in Repos, NEW p \in Places(r)
  PROVE  \E d \in Monitored(r) : d = p \/ <<p, d>> \in Inside
<1>. DEFINE w == WorkingDirectory[r]
            g == RepositoryPath[r]
<1>1. p \in {w, g} /\ p # NoDirectory
  BY DEF Places
<1>2. CASE w = NoDirectory
  <2>1. MonitoredDirectories(r) = <<g>>
    BY <1>2 DEF MonitoredDirectories
  <2>2. g \in Monitored(r)
    BY <2>1 DEF Monitored, Range
  <2>. QED  BY <1>1, <1>2, <2>2
<1>3. CASE w # NoDirectory /\ <<g, w>> \in Inside
  <2>1. MonitoredDirectories(r) = <<w>>
    BY <1>3 DEF MonitoredDirectories
  <2>2. w \in Monitored(r)
    BY <2>1 DEF Monitored, Range
  <2>. QED  BY <1>1, <1>3, <2>2
<1>4. CASE w # NoDirectory /\ <<g, w>> \notin Inside
  <2>1. MonitoredDirectories(r) = <<w, g>>
    BY <1>4 DEF MonitoredDirectories
  <2>2. w \in Monitored(r) /\ g \in Monitored(r)
    BY <2>1 DEF Monitored, Range
  <2>. QED  BY <1>1, <2>2
<1>. QED  BY <1>2, <1>3, <1>4

\* After CacheInvalidator::MonitorRepositoryDirectories has returned, a change in any
\* place of the repository leads back to it, whoever registered the directory.
THEOREM ServedRepositoryIsMapped == Spec => []ServedIsMapped
<1>1. ASSUME IInv PROVE ServedIsMapped
  <2>. SUFFICES ASSUME NEW t \in Requests, monitor[t] = [step |-> "add", todo |-> <<>>],
                       NEW p \in Places(call[t].repo)
                PROVE  \E d \in Directories :
                         /\ d = p \/ <<p, d>> \in Inside
                         /\ tokensToRepositories[d] = call[t].repo
    BY DEF ServedIsMapped
  <2>1. monitor[t] # NotMonitoring /\ monitor[t].todo = <<>>
    BY DEF NotMonitoring
  <2>2. Range(monitor[t].todo) = {}
    BY <2>1 DEF Range
  <2>3. call[t].stage = "done"
    BY <1>1, <2>1 DEF IInv, RegistrationsAreOwned
  <2>4. \A d \in Monitored(call[t].repo) : tokensToRepositories[d] = call[t].repo
    BY <1>1, <2>1, <2>2 DEF IInv, RegistrationsAreOwned
  <2>5. call[t] \in Call
    BY <1>1, <2>3, CallTypes DEF IInv, TypeOK, CacheTypeOK, Requests
  <2>6. call[t].repo \in Repos
    BY <2>5 DEF Call
  <2>7. PICK d \in Monitored(call[t].repo) : d = p \/ <<p, d>> \in Inside
    BY <2>6, MonitoredCovers
  <2>8. d \in Directories
    BY <2>6, <2>7, MonitoredType
  <2>. QED  BY <2>4, <2>7, <2>8
<1>. QED  BY Inductive, <1>1, PTL

-----------------------------------------------------------------------------
(***************************************************************************)
(* WatchedOnce is not inductive either: a directory that is queued, open   *)
(* or about to be queued must be in m_directories, or AddDirectory would   *)
(* take it for a new one.                                                  *)
(***************************************************************************)
Asking(t) == monitor[t].step = "watch"
Asked(t) == Head(monitor[t].todo)

AskedOnce ==
  /\ watched \subseteq directories
  /\ \A i, j \in DOMAIN adds : adds[i] = adds[j] => i = j
  /\ \A i \in DOMAIN adds : adds[i] \in directories \ watched
  /\ \A t \in Requests :
       Asking(t) =>
         /\ Asked(t) \in directories \ watched
         /\ \A i \in DOMAIN adds : adds[i] # Asked(t)
  /\ \A t, u \in Requests : Asking(t) /\ Asking(u) /\ Asked(t) = Asked(u) => t = u

\* A step in which at most the request u begins to ask, for what is not known yet.
LEMMA AskedOnceKept ==
  ASSUME AskedOnce, adds' = adds, watched' \subseteq watched, directories \subseteq directories',
         NEW u,
         \A t \in Requests : t # u => monitor'[t] = monitor[t],
         u \in Requests /\ Asking(u)' =>
           (Asking(u) /\ Asked(u)' = Asked(u)) \/ (Asked(u)' \in directories' \ directories)
  PROVE  AskedOnce'
BY DEF AskedOnce, Asking, Asked

LEMMA StepAsked ==
  ASSUME TypeOK, AskedOnce, [Next]_vars
  PROVE  AskedOnce'
<1>t. /\ monitor \in [Requests -> {NotMonitoring} \cup BetweenDirectories \cup InDirectory]
      /\ adds \in Seq(Directories)
  BY DEF TypeOK, ThreadTypeOK, MonitorTypeOK
<1>1. CASE UNCHANGED <<directories, adds, watched, monitor>>
  BY <1>1 DEF AskedOnce, Asking, Asked
<1>2. CASE WatchDirectory
  <2>1. /\ adds # <<>> /\ adds' = Tail(adds)
        /\ watched' \subseteq watched \cup {Head(adds)}
        /\ UNCHANGED <<directories, monitor>>
    BY <1>2 DEF WatchDirectory, threadVars
  <2>2. /\ 1 \in DOMAIN adds /\ Head(adds) = adds[1] /\ DOMAIN adds' \subseteq Nat
        /\ \A i \in DOMAIN adds' : i + 1 \in DOMAIN adds /\ i + 1 # 1 /\ adds'[i] = adds[i + 1]
    BY <1>t, <2>1
  <2>3. \A i, j \in DOMAIN adds' : i + 1 = j + 1 => i = j
    BY <2>2
  <2>. QED  BY <2>1, <2>2, <2>3 DEF AskedOnce, Asking, Asked
<1>3. ASSUME NEW d \in Directories, ReadFails(d) PROVE AskedOnce'
  BY <1>3 DEF ReadFails, threadVars, AskedOnce, Asking, Asked
<1>4. ASSUME NEW u \in Requests, MonitorRepositoryDirectories(u) PROVE AskedOnce'
  <2>1. /\ UNCHANGED <<directories, adds, watched>>
        /\ \A t \in Requests : t # u => monitor'[t] = monitor[t]
        /\ ~Asking(u)'
    BY <1>t, <1>4 DEF MonitorRepositoryDirectories, monitorVars, Asking
  <2>. QED  BY <2>1, AskedOnceKept
<1>5. ASSUME NEW u \in Requests, AddDirectory(u) PROVE AskedOnce'
  <2>1. /\ UNCHANGED <<adds, watched>> /\ directories' = directories \cup {Asked(u)}
        /\ \A t \in Requests : t # u => monitor'[t] = monitor[t]
        /\ Asking(u)' => Asked(u)' = Asked(u) /\ Asked(u) \notin directories
    BY <1>t, <1>5 DEF AddDirectory, Asking, Asked
  <2>. QED  BY <2>1, AskedOnceKept
<1>6. ASSUME NEW u \in Requests, StartWatch(u) PROVE AskedOnce'
  <2>1. /\ Asking(u) /\ adds' = Append(adds, Asked(u)) /\ UNCHANGED <<directories, watched>>
        /\ \A t \in Requests : t # u => monitor'[t] = monitor[t]
        /\ ~Asking(u)'
    BY <1>t, <1>6 DEF StartWatch, Asking, Asked
  <2>2. Asked(u) \in Directories
    <3>1. monitor[u] \in InDirectory
      BY <1>t, <2>1 DEF Asking, NotMonitoring, BetweenDirectories
    <3>. QED  BY <3>1, TailRange DEF InDirectory, Asked
  <2>3. \A i \in DOMAIN adds' :
          \/ i \in DOMAIN adds /\ adds'[i] = adds[i]
          \/ i = Len(adds) + 1 /\ adds'[i] = Asked(u)
    BY <1>t, <2>1, <2>2
  <2>. QED  BY <2>1, <2>3 DEF AskedOnce, Asking, Asked
<1>7. ASSUME NEW u \in Requests, MapToken(u) PROVE AskedOnce'
  <2>1. /\ UNCHANGED <<directories, adds, watched>>
        /\ \A t \in Requests : t # u => monitor'[t] = monitor[t]
        /\ ~Asking(u)'
    BY <1>t, <1>7 DEF MapToken, monitorVars, Asking
  <2>. QED  BY <2>1, AskedOnceKept
<1>8. ASSUME NEW u \in Requests, Respond(u) PROVE AskedOnce'
  <2>1. /\ UNCHANGED <<directories, adds, watched>>
        /\ \A t \in Requests : t # u => monitor'[t] = monitor[t]
        /\ ~Asking(u)'
    BY <1>t, <1>8 DEF Respond, monitorVars, Asking, NotMonitoring
  <2>. QED  BY <2>1, AskedOnceKept
<1>9. CASE Environment /\ ~ \E d \in Directories : ReadFails(d)
  BY <1>1, <1>9 DEF Environment, ChangeOnDisk, ProcessIgnoredNotification, GetStatus,
     threadVars, monitorVars
<1>10. CASE (\E d \in Directories : ProcessNotification(d) \/ NotifyEventsLost(d))
             \/ RaiseOverflow \/ Notifier
  BY <1>1, <1>10 DEF ProcessNotification, RaiseOverflow, NotifyEventsLost, Notifier,
     CheckOverflow, Pop, OnEventsLost, FindToken, FailedToFindToken, OnFileChangedInvalidate,
     OnFileChangedSchedule, threadVars, monitorVars
<1>11. CASE Priming \/ (\E c \in Callers : Query(c) \/ StoreStatus(c)) \/ UNCHANGED vars
  BY <1>1, <1>11, StatusCacheAssumption DEF Priming, OnPrimingTimerExpiration, PrimeMiss,
     PrimeHit, PrimeDone, Query, StoreStatus, threadVars, monitorVars, vars
<1>. QED  BY <1>2, <1>3, <1>4, <1>5, <1>6, <1>7, <1>8, <1>9, <1>10, <1>11
          DEF Next, Environment, Watcher, Request, Requests

\* A directory is opened once, however the requests that register it interleave: the
\* check and the entry in m_directories are one critical section
\* (DirectoryMonitor.cpp:110-119).
THEOREM DirectoriesAreWatchedOnce == Spec => []WatchedOnce
<1>1. Init => AskedOnce
  BY DEF Init, NotMonitoring, AskedOnce, Asking, Asked
<1>2. IInv /\ AskedOnce /\ [Next]_vars => AskedOnce'
  BY StepAsked DEF IInv
<1>3. AskedOnce => WatchedOnce
  BY DEF AskedOnce, Asking, Asked, WatchedOnce, WatchRequests, IsInjective, Range
<1>. QED  BY <1>1, <1>2, <1>3, Inductive, PTL DEF Spec
-----------------------------------------------------------------------------
(***************************************************************************)
(* Why TokenIsKnown fails, and that it fails in no other way.  A directory *)
(* that may be reported is in m_directories, and what is there has its     *)
(* repository unless a request is still between AddDirectory and the line  *)
(* that maps the token (CacheInvalidator.cpp:56-60).                       *)
(***************************************************************************)
AddingIt(t, d) == monitor[t].step \in {"watch", "map"} /\ Head(monitor[t].todo) = d
BeingAdded(d) == \E t \in Requests : AddingIt(t, d)

ReportedIsKnown ==
  /\ watched \subseteq directories
  /\ \A i \in DOMAIN adds : adds[i] \in directories
  /\ \A d \in Directories : unread[d] > 0 => d \in directories
  /\ \A i \in DOMAIN queue : queue[i].directory \in directories
  /\ notifier.stage = "lookup" => notifier.directory \in directories

KnownIsMapped ==
  /\ \A t \in Requests, d \in Directories : AddingIt(t, d) => d \in directories
  /\ \A d \in directories : tokensToRepositories[d] # NoRepo \/ BeingAdded(d)

TerminatedByLookup ==
  terminated =>
    notifier.stage = "lookup" /\ tokensToRepositories[notifier.directory] = NoRepo

\* What may be reported only grows with the watches, and these with m_directories.
LEMMA StepReported ==
  ASSUME TypeOK, ReportedIsKnown, KnownIsMapped, [Next]_vars
  PROVE  ReportedIsKnown'
<1>. USE DEF ReportedIsKnown
<1>t. /\ adds \in Seq(Directories) /\ queue \in Seq(Notification)
      /\ unread \in [Directories -> 0..BufferLimit + 1] /\ watched \subseteq Directories
  BY DEF TypeOK, MonitorTypeOK
<1>1. CASE UNCHANGED <<directories, adds, watched, unread, queue, notifier>>
  BY <1>1
<1>2. ASSUME NEW r \in Repos, NEW d \in Directories, ChangeOnDisk(r, d) PROVE ReportedIsKnown'
  <2>1. \A e \in Directories : unread'[e] > 0 => unread[e] > 0 \/ e \in watched
    BY <1>t, <1>2 DEF ChangeOnDisk, Reporting
  <2>. QED  BY <1>2, <2>1 DEF ChangeOnDisk, threadVars
<1>3. ASSUME NEW d \in directories, NEW n \in Notification, Push(n), n.directory = d,
             UNCHANGED <<directories, adds, watched, notifier>>,
             \A e \in Directories : e # d => unread'[e] = unread[e]
      PROVE  ReportedIsKnown'
  <2>1. \A i \in DOMAIN queue' : queue'[i].directory \in directories
    <3>1. CASE queue' = queue
      BY <3>1
    <3>2. CASE queue' = Append(queue, n)
      BY <1>t, <1>3, <3>2
    <3>. QED  BY <1>3, <3>1, <3>2 DEF Push
  <2>. QED  BY <1>3, <2>1
<1>4. ASSUME NEW d \in Directories,
             ProcessNotification(d) \/ NotifyEventsLost(d) \/ ProcessIgnoredNotification(d)
      PROVE  ReportedIsKnown'
  <2>. DEFINE note(k) == [directory |-> d, kind |-> k]
  <2>1. /\ \A k \in {"change", "ignored", "lost"} :
             note(k) \in Notification /\ note(k).directory = d
        /\ UNCHANGED <<directories, adds, watched, notifier>>
        /\ \A e \in Directories : e # d => unread'[e] = unread[e]
    BY <1>4, <1>t DEF ProcessNotification, NotifyEventsLost, ProcessIgnoredNotification,
                      threadVars, Notification
  <2>2. d \in directories
    BY <1>4, <1>t, StatusCacheAssumption
       DEF ProcessNotification, NotifyEventsLost, ProcessIgnoredNotification
  <2>3. \E k \in {"change", "ignored", "lost"} : Push(note(k))
    BY <1>4 DEF ProcessNotification, NotifyEventsLost, ProcessIgnoredNotification
  <2>. QED  BY <1>3, <2>1, <2>2, <2>3
<1>5. CASE WatchDirectory
  <2>1. /\ adds # <<>> /\ adds' = Tail(adds)
        /\ watched' \subseteq watched \cup {Head(adds)}
        /\ UNCHANGED <<directories, unread, queue, notifier>>
    BY <1>5 DEF WatchDirectory, threadVars
  <2>2. /\ 1 \in DOMAIN adds /\ Head(adds) = adds[1]
        /\ \A i \in DOMAIN adds' : i + 1 \in DOMAIN adds /\ adds'[i] = adds[i + 1]
    BY <1>t, <2>1
  <2>. QED  BY <2>1, <2>2
<1>6. ASSUME RaiseOverflow \/ \E d \in Directories : ReadFails(d) PROVE ReportedIsKnown'
  BY <1>6 DEF RaiseOverflow, ReadFails, threadVars
<1>7. CASE CheckOverflow
  <2>1. queue' = <<>> /\ notifier'.stage # "lookup"
    BY <1>7 DEF CheckOverflow, Idle
  <2>2. UNCHANGED <<directories, adds, watched, unread>>
    BY <1>7 DEF CheckOverflow
  <2>. QED  BY <2>1, <2>2
<1>8. CASE Pop
  <2>1. queue # <<>> /\ queue' = Tail(queue) /\ UNCHANGED <<directories, adds, watched, unread>>
    BY <1>8 DEF Pop
  <2>2. /\ 1 \in DOMAIN queue /\ Head(queue) = queue[1] /\ queue[1] \in Notification
        /\ \A i \in DOMAIN queue' : i + 1 \in DOMAIN queue /\ queue'[i] = queue[i + 1]
    BY <1>t, <2>1
  <2>3. notifier'.stage = "lookup" => notifier'.directory = queue[1].directory
    BY <1>8, <2>2 DEF Pop, Idle, Notification
  <2>. QED  BY <2>1, <2>2, <2>3
<1>9. CASE OnEventsLost \/ FindToken \/ OnFileChangedSchedule
  <2>1. notifier'.stage # "lookup" /\ UNCHANGED monitorVars
    BY <1>9 DEF OnEventsLost, FindToken, OnFileChangedSchedule, Idle
  <2>. QED  BY <2>1 DEF monitorVars
<1>10. CASE OnFileChangedInvalidate
  <2>1. notifier \in Invalidating
    BY <1>10 DEF OnFileChangedInvalidate, TypeOK, ThreadTypeOK, Idling, LookingUp, Invalidating
  <2>2. notifier'.stage # "lookup" /\ UNCHANGED monitorVars
    BY <1>10, <2>1 DEF OnFileChangedInvalidate, Invalidating
  <2>. QED  BY <2>2 DEF monitorVars
<1>11. ASSUME NEW t \in Requests, AddDirectory(t) PROVE ReportedIsKnown'
  BY <1>11 DEF AddDirectory
<1>12. ASSUME NEW t \in Requests, StartWatch(t) PROVE ReportedIsKnown'
  <2>1. Head(monitor[t].todo) \in directories
    <3>1. monitor[t] \in InDirectory
      BY <1>12 DEF StartWatch, NotMonitoring, BetweenDirectories, TypeOK, ThreadTypeOK
    <3>2. Head(monitor[t].todo) \in Directories
      BY <3>1, TailRange DEF InDirectory
    <3>. QED  BY <1>12, <3>2 DEF StartWatch, KnownIsMapped, AddingIt
  <2>2. \A i \in DOMAIN adds' : adds'[i] \in directories
    BY <1>t, <1>12, <2>1 DEF StartWatch
  <2>3. notifier'.stage = "lookup" => notifier' = notifier
    BY <1>12 DEF StartWatch, Idle
  <2>. QED  BY <1>12, <2>2, <2>3 DEF StartWatch
<1>13. CASE UNCHANGED vars
  BY <1>1, <1>13 DEF vars, monitorVars, threadVars
<1>14. CASE Environment
  BY <1>1, <1>2, <1>4, <1>6, <1>14 DEF Environment, GetStatus, monitorVars, threadVars
<1>15. CASE Watcher
  BY <1>4, <1>5, <1>6, <1>15 DEF Watcher
<1>16. CASE Notifier
  BY <1>1, <1>7, <1>8, <1>9, <1>10, <1>16
     DEF Notifier, FailedToFindToken, monitorVars, threadVars
<1>17. ASSUME NEW t \in Requests, Request(t) PROVE ReportedIsKnown'
  BY <1>1, <1>11, <1>12, <1>17
     DEF Request, Query, StoreStatus, MonitorRepositoryDirectories, MapToken, Respond,
         monitorVars, threadVars
<1>18. CASE Priming
  BY <1>1, <1>18
     DEF Priming, OnPrimingTimerExpiration, PrimeMiss, PrimeHit, Query, StoreStatus, PrimeDone,
         monitorVars, threadVars
<1>. QED  BY <1>13, <1>14, <1>15, <1>16, <1>17, <1>18 DEF Next

\* A request that enters a directory goes on to map it.
LEMMA StepMapped ==
  ASSUME TypeOK, RegistrationsAreOwned, KnownIsMapped, [Next]_vars
  PROVE  KnownIsMapped'
<1>. USE DEF KnownIsMapped, BeingAdded, AddingIt
<1>t. /\ monitor \in [Requests -> {NotMonitoring} \cup BetweenDirectories \cup InDirectory]
      /\ directories \subseteq Directories
      /\ tokensToRepositories \in [Directories -> Repos \cup {NoRepo}]
  BY DEF TypeOK, ThreadTypeOK, MonitorTypeOK
<1>1. CASE UNCHANGED <<directories, tokensToRepositories, monitor>>
  BY <1>1
\* A request that is neither at a directory before nor after the step.
<1>2. ASSUME NEW u \in Requests, UNCHANGED <<directories, tokensToRepositories>>,
             \A t \in Requests : t # u => monitor'[t] = monitor[t],
             monitor[u].step \notin {"watch", "map"}, monitor'[u].step \notin {"watch", "map"}
      PROVE  KnownIsMapped'
  BY <1>2
<1>3. ASSUME NEW u \in Requests, MonitorRepositoryDirectories(u) \/ Respond(u)
      PROVE  KnownIsMapped'
  <2>1. /\ UNCHANGED <<directories, tokensToRepositories>>
        /\ \A t \in Requests : t # u => monitor'[t] = monitor[t]
        /\ monitor'[u].step \notin {"watch", "map"}
    BY <1>t, <1>3 DEF MonitorRepositoryDirectories, Respond, monitorVars, NotMonitoring
  <2>2. monitor[u].step \notin {"watch", "map"}
    <3>1. ASSUME Respond(u) PROVE monitor[u].step \notin {"watch", "map"}
      <4>1. CASE monitor[u] = NotMonitoring
        BY <4>1 DEF NotMonitoring
      <4>2. CASE monitor[u] # NotMonitoring
        BY <3>1, <4>2 DEF Respond, RegistrationsAreOwned
      <4>. QED  BY <4>1, <4>2
    <3>. QED  BY <1>3, <3>1 DEF MonitorRepositoryDirectories, NotMonitoring
  <2>. QED  BY <1>2, <2>1, <2>2
<1>4. ASSUME NEW u \in Requests, AddDirectory(u) PROVE KnownIsMapped'
  <2>. DEFINE d == Head(monitor[u].todo)
  <2>1. /\ directories' = directories \cup {d}
        /\ UNCHANGED tokensToRepositories
        /\ \A t \in Requests : t # u => monitor'[t] = monitor[t]
        /\ monitor[u].step = "add"
    BY <1>t, <1>4 DEF AddDirectory
  <2>2. /\ monitor'[u].step \in {"watch", "map"} /\ monitor'[u].todo = monitor[u].todo
        /\ monitor[u].todo # <<>>
    BY <1>t, <1>4 DEF AddDirectory
  <2>3. \A e \in Directories : e = d => BeingAdded(e)'
    BY <2>2
  <2>4. ASSUME NEW e \in directories PROVE tokensToRepositories'[e] # NoRepo \/ BeingAdded(e)'
    <3>1. CASE BeingAdded(e)
      <4>1. PICK t \in Requests : AddingIt(t, e)
        BY <3>1
      <4>2. t # u
        BY <2>1, <4>1
      <4>. QED  BY <2>1, <4>1, <4>2
    <3>2. CASE tokensToRepositories[e] # NoRepo
      BY <2>1, <3>2
    <3>. QED  BY <3>1, <3>2
  <2>5. ASSUME NEW t \in Requests, NEW e \in Directories, AddingIt(t, e)'
        PROVE  e \in directories'
    BY <2>1, <2>2, <2>5
  <2>6. \A e \in directories' : tokensToRepositories'[e] # NoRepo \/ BeingAdded(e)'
    <3>. HIDE DEF BeingAdded, AddingIt
    <3>1. d \in Directories
      <4>1. monitor[u] \in BetweenDirectories
        BY <1>t, <2>1 DEF NotMonitoring, InDirectory
      <4>. QED  BY <2>2, <4>1, TailRange DEF BetweenDirectories
    <3>. QED  BY <2>1, <2>3, <2>4, <3>1
  <2>. HIDE DEF BeingAdded, AddingIt
  <2>. QED  BY <2>5, <2>6
<1>5. ASSUME NEW u \in Requests, StartWatch(u) PROVE KnownIsMapped'
  <2>1. /\ UNCHANGED <<directories, tokensToRepositories>>
        /\ \A t \in Requests : t # u => monitor'[t] = monitor[t]
        /\ monitor[u].step = "watch"
        /\ monitor'[u].step = "map" /\ monitor'[u].todo = monitor[u].todo
    BY <1>t, <1>5 DEF StartWatch
  <2>. QED  BY <2>1
<1>6. ASSUME NEW u \in Requests, MapToken(u) PROVE KnownIsMapped'
  <2>. DEFINE d == Head(monitor[u].todo)
  <2>1. call[u] \in Call
    <3>1. call[u].stage = "done"
      BY <1>6 DEF MapToken, RegistrationsAreOwned, NotMonitoring
    <3>. QED  BY <3>1, CallTypes DEF TypeOK, CacheTypeOK, Requests
  <2>2. call[u].repo \in Repos /\ call[u].repo # NoRepo
    BY <2>1, StatusCacheAssumption DEF Call
  <2>3. /\ tokensToRepositories' = [tokensToRepositories EXCEPT ![d] = call[u].repo]
        /\ UNCHANGED directories
        /\ \A t \in Requests : t # u => monitor'[t] = monitor[t]
        /\ monitor[u].step = "map" /\ monitor'[u].step = "add"
    BY <1>t, <1>6 DEF MapToken, monitorVars
  <2>4. /\ \A e \in directories : e # d => tokensToRepositories'[e] = tokensToRepositories[e]
        /\ \A e \in directories : e = d => tokensToRepositories'[e] # NoRepo
    BY <1>t, <2>2, <2>3
  <2>5. ASSUME NEW e \in directories PROVE tokensToRepositories'[e] # NoRepo \/ BeingAdded(e)'
    <3>1. CASE e = d
      BY <2>4, <3>1
    <3>2. CASE e # d
      BY <2>3, <2>4, <3>2
    <3>. QED  BY <3>1, <3>2
  <2>. QED  BY <2>3, <2>5
<1>7. CASE UNCHANGED vars
  BY <1>1, <1>7 DEF vars, monitorVars, threadVars
<1>8. CASE Environment \/ Watcher \/ Notifier \/ Priming
  BY <1>1, <1>8
     DEF Environment, ChangeOnDisk, ReadFails, ProcessIgnoredNotification, GetStatus, Watcher,
         RaiseOverflow,
         WatchDirectory, ProcessNotification, NotifyEventsLost, Notifier, CheckOverflow, Pop,
         OnEventsLost, FindToken, FailedToFindToken, OnFileChangedInvalidate,
         OnFileChangedSchedule, Priming, OnPrimingTimerExpiration, PrimeMiss, PrimeHit, Query,
         StoreStatus, PrimeDone, monitorVars, threadVars
<1>9. ASSUME NEW t \in Requests, Request(t) PROVE KnownIsMapped'
  BY <1>1, <1>3, <1>4, <1>5, <1>6, <1>9
     DEF Request, Query, StoreStatus, monitorVars, threadVars
<1>. QED  BY <1>7, <1>8, <1>9 DEF Next

\* When an exception ends the program, some request is registering the very directory
\* the notification is about: it has started the watch, or found it started, and has
\* not entered the token yet.  Outside this window every token is known.
THEOREM OnlyRegistrationRaces == Spec => [](terminated => BeingAdded(notifier.directory))
<1>. DEFINE Inv == ReportedIsKnown /\ KnownIsMapped /\ TerminatedByLookup
<1>1. Init => Inv
  BY DEF Init, NotMonitoring, Idle, ReportedIsKnown, KnownIsMapped, AddingIt,
         TerminatedByLookup
<1>2. ASSUME TerminatedByLookup, [Next]_vars PROVE TerminatedByLookup'
  <2>1. CASE terminated
    <3>1. UNCHANGED vars
      BY <1>2, <2>1 DEF Next
    <3>. QED  BY <1>2, <3>1 DEF vars, threadVars, TerminatedByLookup
  <2>2. CASE ~terminated /\ FailedToFindToken
    BY <2>2 DEF FailedToFindToken, threadVars, TerminatedByLookup
  <2>3. CASE ~terminated /\ ~FailedToFindToken
    <3>1. terminated' = terminated
      BY <1>2, <2>3
         DEF Next, vars, Environment, ChangeOnDisk, ReadFails, ProcessIgnoredNotification,
             GetStatus, Watcher, WatchDirectory, RaiseOverflow, ProcessNotification,
             NotifyEventsLost,
             Notifier, CheckOverflow, Pop, OnEventsLost, FindToken, OnFileChangedInvalidate,
             OnFileChangedSchedule, Request, MonitorRepositoryDirectories, AddDirectory,
             StartWatch, MapToken, Respond, Priming, OnPrimingTimerExpiration, PrimeMiss,
             PrimeHit, Query, StoreStatus, PrimeDone
    <3>. QED  BY <2>3, <3>1 DEF TerminatedByLookup
  <2>. QED  BY <2>1, <2>2, <2>3
<1>3. IInv /\ Inv /\ [Next]_vars => Inv'
  BY <1>2, StepReported, StepMapped DEF IInv
<1>4. Inv => (terminated => BeingAdded(notifier.directory))
  BY DEF ReportedIsKnown, KnownIsMapped, TerminatedByLookup
<1>. QED  BY <1>1, <1>3, <1>4, Inductive, PTL DEF Spec

-----------------------------------------------------------------------------
(***************************************************************************)
(* How an entry comes to be outdated with nobody to tell the cache.        *)
(***************************************************************************)
Opening(d) ==
  \/ \E i \in DOMAIN adds : adds[i] = d
  \/ \E t \in Requests : Asking(t) /\ Asked(t) = d

KnownIsOpened == \A d \in directories : d \in watched \/ Opening(d) \/ d \in Unreliable

\* A registered directory stays registered, and a watch that works stays.
LEMMA StepOpened ==
  ASSUME TypeOK, RegistrationsAreOwned, KnownIsOpened, [Next]_vars
  PROVE  KnownIsOpened'
<1>t. /\ monitor \in [Requests -> {NotMonitoring} \cup BetweenDirectories \cup InDirectory]
      /\ adds \in Seq(Directories)
  BY DEF TypeOK, ThreadTypeOK, MonitorTypeOK
<1>1. CASE UNCHANGED <<directories, adds, watched, monitor>>
  BY <1>1 DEF KnownIsOpened, Opening, Asking, Asked
<1>2. CASE WatchDirectory
  <2>1. /\ adds # <<>> /\ adds' = Tail(adds)
        /\ watched \subseteq watched'
        /\ Head(adds) \in watched' \/ Head(adds) \in Unreliable
        /\ UNCHANGED <<directories, monitor>>
    BY <1>2 DEF WatchDirectory, threadVars
  <2>2. \A i \in DOMAIN adds :
          adds[i] = Head(adds) \/ (i - 1 \in DOMAIN adds' /\ adds'[i - 1] = adds[i])
    BY <1>t, <2>1
  <2>. QED  BY <2>1, <2>2 DEF KnownIsOpened, Opening, Asking, Asked
<1>3. ASSUME NEW d \in Directories, ReadFails(d) PROVE KnownIsOpened'
  <2>1. d \in Unreliable /\ watched' = watched \ {d} /\ UNCHANGED <<directories, adds, monitor>>
    BY <1>3 DEF ReadFails, threadVars
  <2>. QED  BY <2>1 DEF KnownIsOpened, Opening, Asking, Asked
<1>4. ASSUME NEW u \in Requests, UNCHANGED <<directories, adds, watched>>, ~Asking(u),
             \A t \in Requests : t # u => monitor'[t] = monitor[t]
      PROVE  KnownIsOpened'
  BY <1>4 DEF KnownIsOpened, Opening, Asking, Asked
<1>5. ASSUME NEW u \in Requests, AddDirectory(u) PROVE KnownIsOpened'
  <2>. DEFINE d == Asked(u)
  <2>1. /\ UNCHANGED <<adds, watched>> /\ directories' = directories \cup {d}
        /\ ~Asking(u)
        /\ \A t \in Requests : t # u => monitor'[t] = monitor[t]
        /\ d \notin directories => Asking(u)' /\ Asked(u)' = d
    BY <1>t, <1>5 DEF AddDirectory, Asking, Asked
  <2>2. ASSUME NEW e \in directories, e \in watched \/ Opening(e) \/ e \in Unreliable
        PROVE  (e \in watched \/ Opening(e) \/ e \in Unreliable)'
    BY <2>1, <2>2 DEF Opening, Asking, Asked
  <2>3. d \notin directories => Opening(d)'
    BY <2>1 DEF Opening
  <2>. QED  BY <2>1, <2>2, <2>3 DEF KnownIsOpened
<1>6. ASSUME NEW u \in Requests, StartWatch(u) PROVE KnownIsOpened'
  <2>1. /\ Asking(u) /\ adds' = Append(adds, Asked(u)) /\ UNCHANGED <<directories, watched>>
        /\ \A t \in Requests : t # u => monitor'[t] = monitor[t]
    BY <1>t, <1>6 DEF StartWatch, Asking, Asked
  <2>2. Asked(u) \in Directories
    <3>1. monitor[u] \in InDirectory
      BY <1>t, <2>1 DEF Asking, NotMonitoring, BetweenDirectories
    <3>. QED  BY <3>1, TailRange DEF InDirectory, Asked
  <2>3. /\ \A i \in DOMAIN adds : i \in DOMAIN adds' /\ adds'[i] = adds[i]
        /\ Len(adds) + 1 \in DOMAIN adds' /\ adds'[Len(adds) + 1] = Asked(u)
    BY <1>t, <2>1, <2>2
  <2>4. ASSUME NEW e \in directories, Opening(e) PROVE Opening(e)'
    <3>1. CASE \E i \in DOMAIN adds : adds[i] = e
      BY <2>3, <3>1 DEF Opening
    <3>2. CASE e = Asked(u)
      BY <2>3, <3>2 DEF Opening
    <3>3. ASSUME NEW t \in Requests, t # u, Asking(t), Asked(t) = e PROVE Opening(e)'
      BY <2>1, <3>3 DEF Opening, Asking, Asked
    <3>. QED  BY <2>4, <3>1, <3>2, <3>3 DEF Opening
  <2>. QED  BY <2>1, <2>4 DEF KnownIsOpened
<1>7. ASSUME NEW u \in Requests, MonitorRepositoryDirectories(u) \/ MapToken(u) \/ Respond(u)
      PROVE  KnownIsOpened'
  <2>1. /\ UNCHANGED <<directories, adds, watched>>
        /\ \A t \in Requests : t # u => monitor'[t] = monitor[t]
    BY <1>t, <1>7 DEF MonitorRepositoryDirectories, MapToken, Respond, monitorVars
  <2>2. ~Asking(u)
    <3>1. CASE Respond(u)
      BY <3>1 DEF Respond, RegistrationsAreOwned, NotMonitoring, Asking
    <3>. QED
      BY <1>7, <3>1 DEF MonitorRepositoryDirectories, MapToken, NotMonitoring, Asking
  <2>. QED  BY <1>4, <2>1, <2>2
<1>8. CASE Environment /\ ~ \E d \in Directories : ReadFails(d)
  BY <1>1, <1>8 DEF Environment, ChangeOnDisk, ProcessIgnoredNotification, GetStatus,
     threadVars, monitorVars
<1>9. CASE (\E d \in Directories : ProcessNotification(d) \/ NotifyEventsLost(d))
            \/ RaiseOverflow \/ Notifier
  BY <1>1, <1>9 DEF ProcessNotification, RaiseOverflow, NotifyEventsLost, Notifier,
     CheckOverflow, Pop, OnEventsLost, FindToken, FailedToFindToken, OnFileChangedInvalidate,
     OnFileChangedSchedule, threadVars, monitorVars
<1>10. CASE Priming \/ (\E c \in Callers : Query(c) \/ StoreStatus(c)) \/ UNCHANGED vars
  BY <1>1, <1>10, StatusCacheAssumption DEF Priming, OnPrimingTimerExpiration, PrimeMiss,
     PrimeHit, PrimeDone, Query, StoreStatus, threadVars, monitorVars, vars
<1>. QED  BY <1>2, <1>3, <1>5, <1>6, <1>7, <1>8, <1>9, <1>10
          DEF Next, Environment, Watcher, Request, Requests

\* Some directory of r does not report: it has no registration, its watch is still to
\* be started, or it may fail.
Unwatched(r) ==
  \E d \in Monitored(r) : d \notin directories \/ Opening(d) \/ d \in Unreliable

\* A query of r is overtaken by a change before its answer is stored.
Overtaken(r) ==
  \E c \in Callers : StoreStatus(c) /\ call[c].repo = r /\ call[c].status.version # disk[r]

\* The causes of QuietCacheIsCurrent's failure, of which OnlyExposedEntriesStay says
\* that they are behind every entry that stays outdated: an answer is stored too late
\* (Cache.cpp:31-36), or a change falls between the query and the watch that is started
\* after it (StatusCache.cpp:12-14), or a directory cannot be watched.  No other step of
\* any thread, overflow or not, exposes an entry.
THEOREM OnlyRacesAndFailuresExpose ==
  Spec => [][\A r \in Repos : ~exposed[r] /\ exposed'[r] => Unwatched(r) \/ Overtaken(r)]_vars
<1>. DEFINE A == \A r \in Repos : ~exposed[r] /\ exposed'[r] => Unwatched(r) \/ Overtaken(r)
<1>1. Init => KnownIsOpened
  BY DEF Init, KnownIsOpened
<1>2. IInv /\ KnownIsOpened /\ [Next]_vars => KnownIsOpened'
  BY StepOpened DEF IInv
<1>3. ASSUME IInv, KnownIsOpened, [Next]_vars PROVE [A]_vars
  <2>t. exposed \in [Repos -> BOOLEAN]
    BY <1>3 DEF IInv, TypeOK
  <2>1. ASSUME NEW s \in Repos, NEW p \in Directories, ChangeOnDisk(s, p) PROVE A
    <3>. SUFFICES ASSUME NEW r \in Repos, ~exposed[r], exposed'[r] PROVE Unwatched(r)
      OBVIOUS
    <3>1. r = s /\ Reporting(p) \cap Monitored(r) = {}
      BY <2>t, <2>1 DEF ChangeOnDisk
    <3>2. PICK d \in Monitored(r) : d = p \/ <<p, d>> \in Inside
      BY <2>1, <3>1, MonitoredCovers DEF ChangeOnDisk
    <3>3. d \notin watched
      BY <3>1, <3>2 DEF Reporting
    <3>. QED  BY <1>3, <3>3 DEF KnownIsOpened, Unwatched
  <2>2. ASSUME NEW c \in Callers, StoreStatus(c) PROVE A
    <3>. SUFFICES ASSUME NEW r \in Repos, ~exposed[r], exposed'[r] PROVE Overtaken(r)
      OBVIOUS
    <3>1. r = call[c].repo /\ call[c].status.version # disk[r]
      BY <2>t, <2>2 DEF StoreStatus
    <3>. QED  BY <2>2, <3>1 DEF Overtaken
  <2>3. CASE UNCHANGED exposed
    BY <2>3
  <2>4. CASE (\A s \in Repos, p \in Directories : ~ChangeOnDisk(s, p))
             /\ \A c \in Callers : ~StoreStatus(c)
    <3>1. UNCHANGED exposed
      BY <1>3, <2>4, StatusCacheAssumption
         DEF Next, vars, Environment, Watcher, Notifier, Request, Priming, Requests, ReadFails,
             ProcessIgnoredNotification, GetStatus, RaiseOverflow, WatchDirectory,
             ProcessNotification,
             NotifyEventsLost, CheckOverflow, Pop, OnEventsLost, FindToken, FailedToFindToken,
             OnFileChangedInvalidate, OnFileChangedSchedule, Query, MonitorRepositoryDirectories,
             AddDirectory, StartWatch, MapToken, Respond, OnPrimingTimerExpiration, PrimeMiss,
             PrimeHit, PrimeDone
    <3>. QED  BY <2>3, <3>1
  <2>. QED  BY <2>1, <2>2, <2>4
<1>. QED  BY <1>1, <1>2, <1>3, Inductive, PTL DEF Spec

=============================================================================
