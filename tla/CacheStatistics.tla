--------------------------- MODULE CacheStatistics ---------------------------
(***************************************************************************)
(* The counters of Cache, and what its operations do between a counter and *)
(* the map.  StatusController, which calls them, composes these actions.   *)
(*                                                                         *)
(* Each counter is an atomic of its own: it is incremented outside of      *)
(* m_cacheMutex, before or after the critical section it counts, and read  *)
(* by itself.  Of the map only its keys matter here, and the query to git, *)
(* which counts nothing, is part of the wait before the store.             *)
(***************************************************************************)
EXTENDS Naturals, FiniteSets

CONSTANTS Repos,
          Requests,       \* request threads
          MaxOperations   \* bound on the operations begun

ASSUME OperationsAssumption == MaxOperations \in Nat /\ IsFiniteSet(Requests)

VARIABLES
  cached,    \* the keys of m_cache
  count,     \* the atomics of Cache
  call,      \* what each request thread does in GetStatus of the cache
  primer,    \* the priming thread, in PrimeCacheEntry
  notifier,  \* the notification thread, in InvalidateCacheEntry or InvalidateAll...
  started    \* operations begun

cacheVars == <<cached, count, call, primer, notifier>>

CounterNames == {"hits", "misses", "effectivePrimes", "totalPrimes",
                 "effectiveInvalidations", "totalInvalidations", "invalidateAlls"}

Idle == [stage |-> "idle"]
Returned == [stage |-> "returned"]
Busy(stages) == [stage : stages, repo : Repos]

CacheTypeOK ==
  /\ cached \in SUBSET Repos
  /\ count \in [CounterNames -> Nat]
  /\ call \in [Requests -> {Idle, Returned} \cup Busy({"countHit", "countMiss", "store"})]
  /\ primer \in {Idle} \cup Busy({"lookup", "countEffective", "store"})
  /\ notifier \in {Idle, [stage |-> "countEffective"], [stage |-> "clear"]} \cup Busy({"erase"})
  /\ started \in 0..MaxOperations

CacheInit ==
  /\ cached = {}
  /\ count = [c \in CounterNames |-> 0]
  /\ call = [t \in Requests |-> Idle]
  /\ primer = Idle
  /\ notifier = Idle
  /\ started = 0

Increment(c) == count' = [count EXCEPT ![c] = @ + 1]
Begin == started < MaxOperations /\ started' = started + 1

-----------------------------------------------------------------------------
(* GetStatus.                                                              *)

\* The lookup under the read lock.
Lookup(t, r) ==
  /\ call[t] = Idle
  /\ call' = [call EXCEPT ![t] =
                [stage |-> IF r \in cached THEN "countHit" ELSE "countMiss", repo |-> r]]
  /\ UNCHANGED <<cached, count, primer, notifier, started>>

CountHit(t) ==
  /\ call[t].stage = "countHit"
  /\ Increment("hits")
  /\ call' = [call EXCEPT ![t] = Returned]
  /\ UNCHANGED <<cached, primer, notifier, started>>

\* Mutants: the miss is counted as a hit, or taken off the counter.
CountMissAsHit(t) ==
  /\ call[t].stage = "countMiss"
  /\ Increment("hits")
  /\ call' = [call EXCEPT ![t].stage = "store"]
  /\ UNCHANGED <<cached, primer, notifier, started>>
CountMissDown(t) ==
  /\ call[t].stage = "countMiss"
  /\ count' = [count EXCEPT !["misses"] = @ - 1]
  /\ call' = [call EXCEPT ![t].stage = "store"]
  /\ UNCHANGED <<cached, primer, notifier, started>>

CountMiss(t) ==
  /\ call[t].stage = "countMiss"
  /\ Increment("misses")
  /\ call' = [call EXCEPT ![t].stage = "store"]
  /\ UNCHANGED <<cached, primer, notifier, started>>

\* A failure is stored like a status.
StoreStatus(t) ==
  /\ call[t].stage = "store"
  /\ cached' = cached \cup {call[t].repo}
  /\ call' = [call EXCEPT ![t] = Returned]
  /\ UNCHANGED <<count, primer, notifier, started>>

-----------------------------------------------------------------------------
(* PrimeCacheEntry.                                                        *)

CountPrime(r) ==
  /\ primer = Idle
  /\ Begin
  /\ Increment("totalPrimes")
  /\ primer' = [stage |-> "lookup", repo |-> r]
  /\ UNCHANGED <<cached, call, notifier>>

LookupForPrime ==
  /\ primer.stage = "lookup"
  /\ primer' = IF primer.repo \in cached THEN Idle ELSE [primer EXCEPT !.stage = "countEffective"]
  /\ UNCHANGED <<cached, count, call, notifier, started>>

CountEffectivePrime ==
  /\ primer.stage = "countEffective"
  /\ Increment("effectivePrimes")
  /\ primer' = [primer EXCEPT !.stage = "store"]
  /\ UNCHANGED <<cached, call, notifier, started>>

StorePrimed ==
  /\ primer.stage = "store"
  /\ cached' = cached \cup {primer.repo}
  /\ primer' = Idle
  /\ UNCHANGED <<count, call, notifier, started>>

-----------------------------------------------------------------------------
(* InvalidateCacheEntry and InvalidateAllCacheEntries.                     *)

CountInvalidation(r) ==
  /\ notifier = Idle
  /\ Begin
  /\ Increment("totalInvalidations")
  /\ notifier' = [stage |-> "erase", repo |-> r]
  /\ UNCHANGED <<cached, call, primer>>

\* One critical section: found means erased.
EraseEntry ==
  /\ notifier.stage = "erase"
  /\ cached' = cached \ {notifier.repo}
  /\ notifier' = IF notifier.repo \in cached THEN [stage |-> "countEffective"] ELSE Idle
  /\ UNCHANGED <<count, call, primer, started>>

CountEffectiveInvalidation ==
  /\ notifier.stage = "countEffective"
  /\ Increment("effectiveInvalidations")
  /\ notifier' = Idle
  /\ UNCHANGED <<cached, call, primer, started>>

CountInvalidateAll ==
  /\ notifier = Idle
  /\ Begin
  /\ Increment("invalidateAlls")
  /\ notifier' = [stage |-> "clear"]
  /\ UNCHANGED <<cached, call, primer>>

ClearEntries ==
  /\ notifier.stage = "clear"
  /\ cached' = {}
  /\ notifier' = Idle
  /\ UNCHANGED <<count, call, primer, started>>

-----------------------------------------------------------------------------

CacheStep ==
  \/ \E t \in Requests : CountHit(t) \/ CountMiss(t) \/ StoreStatus(t)
  \/ \E r \in Repos : CountPrime(r) \/ CountInvalidation(r)
  \/ LookupForPrime \/ CountEffectivePrime \/ StorePrimed
  \/ EraseEntry \/ CountEffectiveInvalidation
  \/ CountInvalidateAll \/ ClearEntries

(***************************************************************************)
(* Each counted removal removed an entry that a counted miss or a counted  *)
(* effective prime had stored, at every moment: fills are counted before   *)
(* they store and removals after they erase.  It is about the counters at  *)
(* one moment; a response reads them one after another and may show more   *)
(* removals than fills.                                                    *)
(***************************************************************************)
RemovedWasStored ==
  count.effectiveInvalidations + Cardinality(cached) <= count.misses + count.effectivePrimes
=============================================================================
