-------------------------------- MODULE Cache --------------------------------
(***************************************************************************)
(* The map of git statuses (Cache.cpp), shared by the request threads, the *)
(* priming thread and the notification thread.                             *)
(*                                                                         *)
(* What `git status` reports of a repository is abstracted to a version    *)
(* number that grows with every change made to the repository.  A critical *)
(* section of m_cacheMutex is one step; the query to git, which runs with  *)
(* no lock held, is a step of its own, so anything may happen before it    *)
(* and between it and the store of its result.                             *)
(*                                                                         *)
(* The counters that Cache also keeps are added in CacheStatistics.        *)
(***************************************************************************)
EXTENDS Naturals

CONSTANTS Repos,       \* repository paths, the keys of m_cache
          Callers,     \* threads that may be inside GetStatus or PrimeCacheEntry
          MaxVersion,  \* bound on the changes made to one repository
          NoEntry      \* "not in m_cache"

\* std::tuple<bool, Git::Status>
Status == [ok : BOOLEAN, version : Nat]

\* What Git::GetStatus returns on failure: false and an empty status.
FailedStatus == [ok |-> FALSE, version |-> 0]

ASSUME CacheAssumption == MaxVersion \in Nat /\ NoEntry \notin Status

VARIABLES disk,   \* version each repository is at on disk
          cache,  \* m_cache
          call    \* the call each thread is in

cacheVars == <<disk, cache, call>>

NoCall == [stage |-> "idle"]

\* A thread inside GetStatus or PrimeCacheEntry: about to query git, about to
\* store the answer, or about to return `status`.
Call == [stage : {"query", "store", "done"}, repo : Repos, status : Status]

CacheTypeOK ==
  /\ disk \in [Repos -> 0..MaxVersion]
  /\ cache \in [Repos -> Status \cup {NoEntry}]
  /\ call \in [Callers -> Call \cup {NoCall}]

CacheInit ==
  /\ disk = [r \in Repos |-> 0]
  /\ cache = [r \in Repos |-> NoEntry]
  /\ call = [c \in Callers |-> NoCall]

Cached(r) == cache[r] # NoEntry

-----------------------------------------------------------------------------
\* A user, an editor or git itself changes the repository.
Change(r) ==
  /\ disk[r] < MaxVersion
  /\ disk' = [disk EXCEPT ![r] = @ + 1]

\* GetStatus, the lookup under the read lock finds an entry.
Hit(c, r) ==
  /\ call[c] = NoCall
  /\ Cached(r)
  /\ call' = [call EXCEPT ![c] = [stage |-> "done", repo |-> r, status |-> cache[r]]]
  /\ UNCHANGED <<disk, cache>>

\* GetStatus or PrimeCacheEntry, the lookup under the read lock finds nothing.
Miss(c, r) ==
  /\ call[c] = NoCall
  /\ ~Cached(r)
  /\ call' = [call EXCEPT ![c] = [stage |-> "query", repo |-> r, status |-> FailedStatus]]
  /\ UNCHANGED <<disk, cache>>

\* m_git.GetStatus, no lock held: the status of the repository as it is now, or
\* a failure.
QueryGit(c) ==
  /\ call[c].stage = "query"
  /\ \E status \in {[ok |-> TRUE, version |-> disk[call[c].repo]], FailedStatus} :
       call' = [call EXCEPT ![c].stage = "store", ![c].status = status]
  /\ UNCHANGED <<disk, cache>>

\* m_cache[repositoryPath] = status under the write lock, whatever the map holds
\* by now and whether or not the query succeeded.
Store(c) ==
  /\ call[c].stage = "store"
  /\ cache' = [cache EXCEPT ![call[c].repo] = call[c].status]
  /\ call' = [call EXCEPT ![c].stage = "done"]
  /\ UNCHANGED disk

Return(c) ==
  /\ call[c].stage = "done"
  /\ call' = [call EXCEPT ![c] = NoCall]
  /\ UNCHANGED <<disk, cache>>

\* The upgradable lock makes the lookup and the erasure one critical section.
InvalidateCacheEntry(r) ==
  /\ cache' = [cache EXCEPT ![r] = NoEntry]
  /\ UNCHANGED <<disk, call>>

InvalidateAllCacheEntries ==
  /\ cache' = [r \in Repos |-> NoEntry]
  /\ UNCHANGED <<disk, call>>

=============================================================================
