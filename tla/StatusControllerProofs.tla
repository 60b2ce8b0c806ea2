----------------------- MODULE StatusControllerProofs -----------------------
(***************************************************************************)
(* Proofs about StatusController, for any repositories, any finite number  *)
(* of request threads and any number of operations.                        *)
(***************************************************************************)
EXTENDS StatusController, FiniteSetTheorems, TLAPS

-----------------------------------------------------------------------------
(* Types.                                                                  *)

LEMMA CountersAreNames ==
  /\ Len(Counters) = 7
  /\ \A i \in 1..7 : Counters[i] \in CounterNames
BY DEF Counters, CounterNames

LEMMA DocumentsAreDocuments == Documents \subseteq Document
BY DEF Documents

LEMMA IncrementType ==
  ASSUME CacheTypeOK, NEW c \in CounterNames, Increment(c)
  PROVE  count' \in [CounterNames -> Nat]
BY DEF CacheTypeOK, Increment

LEMMA BeginType ==
  ASSUME CacheTypeOK, Begin PROVE started' \in 0..MaxOperations
BY OperationsAssumption DEF CacheTypeOK, Begin

LEMMA CacheStepTypes ==
  ASSUME CacheTypeOK, CacheStep PROVE CacheTypeOK'
<1>. USE DEF CacheTypeOK
<1>1. ASSUME NEW t \in Requests, CountHit(t) \/ CountMiss(t) \/ StoreStatus(t)
      PROVE  CacheTypeOK'
  <2>1. CASE CountHit(t)
    <3>1. count' \in [CounterNames -> Nat]
      BY <2>1, IncrementType DEF CountHit, CounterNames
    <3>. QED  BY <2>1, <3>1 DEF CountHit
  <2>2. CASE CountMiss(t)
    <3>1. count' \in [CounterNames -> Nat]
      BY <2>2, IncrementType DEF CountMiss, CounterNames
    <3>2. [call[t] EXCEPT !.stage = "store"] \in Busy({"store"})
      BY <2>2 DEF CountMiss, Idle, Returned, Busy
    <3>3. call' = [call EXCEPT ![t] = [call[t] EXCEPT !.stage = "store"]]
      BY <2>2 DEF CountMiss
    <3>. QED  BY <2>2, <3>1, <3>2, <3>3 DEF CountMiss, Busy
  <2>3. CASE StoreStatus(t)
    <3>1. call[t].repo \in Repos
      BY <2>3 DEF StoreStatus, Idle, Returned, Busy
    <3>. QED  BY <2>3, <3>1 DEF StoreStatus
  <2>. QED  BY <1>1, <2>1, <2>2, <2>3
<1>2. ASSUME NEW r \in Repos, CountPrime(r) \/ CountInvalidation(r)
      PROVE  CacheTypeOK'
  <2>1. count' \in [CounterNames -> Nat]
    BY <1>2, IncrementType DEF CountPrime, CountInvalidation, CounterNames
  <2>. QED  BY <1>2, <2>1, BeginType DEF CountPrime, CountInvalidation, Busy
<1>3. CASE LookupForPrime
  BY <1>3 DEF LookupForPrime, Busy, Idle
<1>4. CASE CountEffectivePrime
  <2>1. count' \in [CounterNames -> Nat]
    BY <1>4, IncrementType DEF CountEffectivePrime, CounterNames
  <2>. QED  BY <1>4, <2>1 DEF CountEffectivePrime, Busy, Idle
<1>5. CASE StorePrimed
  BY <1>5 DEF StorePrimed, Busy, Idle
<1>6. CASE EraseEntry
  BY <1>6 DEF EraseEntry
<1>7. CASE CountEffectiveInvalidation
  <2>1. count' \in [CounterNames -> Nat]
    BY <1>7, IncrementType DEF CountEffectiveInvalidation, CounterNames
  <2>. QED  BY <1>7, <2>1 DEF CountEffectiveInvalidation
<1>8. CASE CountInvalidateAll
  <2>1. count' \in [CounterNames -> Nat]
    BY <1>8, IncrementType DEF CountInvalidateAll, CounterNames
  <2>. QED  BY <1>8, <2>1, BeginType DEF CountInvalidateAll
<1>9. CASE ClearEntries
  BY <1>9 DEF ClearEntries
<1>. QED  BY <1>1, <1>2, <1>3, <1>4, <1>5, <1>6, <1>7, <1>8, <1>9 DEF CacheStep

\* A document in hand, at a stage: what a request thread may hold.
Handling == [stage : {"find", "cache", "record", "statistics", "answered"}, document : Document,
             answer : {"none", "error", "status", "statistics", "shuttingDown"}]

LEMMA GoToType ==
  ASSUME TypeOK, NEW t \in Requests, request[t] # Idle,
         NEW stage \in {"find", "cache", "record", "statistics", "answered"},
         NEW answer \in {"none", "error", "status", "statistics", "shuttingDown"},
         GoTo(t, stage, answer)
  PROVE  request' \in [Requests -> {Idle} \cup Handling]
<1>1. request[t] \in Handling
  BY DEF TypeOK, Handling
<1>2. [request[t] EXCEPT !.stage = stage, !.answer = answer] \in Handling
  BY <1>1 DEF Handling
<1>3. request' = [request EXCEPT ![t] = [request[t] EXCEPT !.stage = stage, !.answer = answer]]
  BY DEF GoTo
<1>. QED  BY <1>2, <1>3 DEF TypeOK, Handling

LEMMA RequestStepTypes ==
  ASSUME TypeOK, NEW t \in Requests, HandleRequest(t) PROVE TypeOK'
<1>. USE DEF TypeOK
<1>1. ASSUME NEW d \in Documents, Refuse(t, d) \/ BeginGetStatus(t, d)
                                   \/ BeginGetCacheStatistics(t, d) \/ Shutdown(t, d)
      PROVE  TypeOK'
  <2>1. d \in Document
    BY DocumentsAreDocuments
  <2>2. started' \in 0..MaxOperations
    BY <1>1, BeginType DEF Refuse, BeginGetStatus, BeginGetCacheStatistics, Shutdown, Take
  <2>3. request' \in [Requests -> {Idle} \cup Handling]
    BY <1>1, <2>1 DEF Refuse, BeginGetStatus, BeginGetCacheStatistics, Shutdown, Answer, At, Handling
  <2>4. CacheTypeOK'
    BY <1>1, <2>2 DEF Refuse, BeginGetStatus, BeginGetCacheStatistics, Shutdown, cacheVars,
                      CacheTypeOK
  <2>. QED
    BY <1>1, <2>3, <2>4 DEF Refuse, BeginGetStatus, BeginGetCacheStatistics, Shutdown, Handling
<1>2. CASE NoRepository(t)
  <2>1. request' \in [Requests -> {Idle} \cup Handling]
    BY <1>2, GoToType DEF NoRepository, Idle
  <2>. QED  BY <1>2, <2>1 DEF NoRepository, cacheVars, CacheTypeOK, Handling
<1>3. CASE DiscoverRepository(t)
  <2>1. request' \in [Requests -> {Idle} \cup Handling]
    BY <1>3, GoToType DEF DiscoverRepository, Idle
  <2>2. CacheTypeOK'
    BY <1>3 DEF DiscoverRepository, Lookup, CacheTypeOK, Busy
  <2>. QED  BY <1>3, <2>1, <2>2 DEF DiscoverRepository, Handling
<1>4. CASE GetStatus(t)
  <2>1. request' \in [Requests -> {Idle} \cup Handling]
    <3>1. request[t] # Idle
      BY <1>4 DEF GetStatus, Idle
    <3>2. CASE request[t].document.path \in Broken
      BY <1>4, <3>1, <3>2, GoToType DEF GetStatus
    <3>3. CASE request[t].document.path \notin Broken
      BY <1>4, <3>1, <3>3, GoToType DEF GetStatus
    <3>. QED  BY <3>2, <3>3
  <2>2. CacheTypeOK'
    BY <1>4 DEF GetStatus, CacheTypeOK
  <2>. QED  BY <1>4, <2>1, <2>2 DEF GetStatus, Handling
<1>5. CASE RecordGetStatusTime(t)
  <2>1. request[t] \in Handling
    BY <1>5 DEF RecordGetStatusTime, Handling, Idle
  <2>2. request' \in [Requests -> {Idle} \cup Handling]
    BY <1>5, <2>1, GoToType DEF RecordGetStatusTime, Handling, Idle
  <2>. QED  BY <1>5, <2>2 DEF RecordGetStatusTime, cacheVars, CacheTypeOK, Handling
<1>6. CASE ReadCounter(t)
  <2>1. progress + 1 \in 1..7 /\ Counters[progress + 1] \in CounterNames
    BY <1>6, CountersAreNames DEF ReadCounter
  <2>2. count[Counters[progress + 1]] \in Nat
    BY <2>1 DEF CacheTypeOK
  <2>. QED  BY <1>6, <2>1, <2>2, CountersAreNames DEF ReadCounter, cacheVars, CacheTypeOK
<1>7. CASE ReadTimings(t)
  BY <1>7, CountersAreNames DEF ReadTimings, cacheVars, CacheTypeOK
<1>8. CASE GetCacheStatistics(t)
  <2>1. request' \in [Requests -> {Idle} \cup Handling]
    BY <1>8, GoToType DEF GetCacheStatistics, Reads, Idle
  <2>. QED  BY <1>8, <2>1, CountersAreNames DEF GetCacheStatistics, cacheVars, CacheTypeOK, Handling
<1>9. CASE Respond(t)
  BY <1>9 DEF Respond, cacheVars, CacheTypeOK
<1>. QED  BY <1>1, <1>2, <1>3, <1>4, <1>5, <1>6, <1>7, <1>8, <1>9 DEF HandleRequest

LEMMA InitTypes == Init => TypeOK
<1>. SUFFICES ASSUME Init PROVE TypeOK
  OBVIOUS
<1>1. CacheTypeOK
  BY OperationsAssumption DEF Init, CacheInit, CacheTypeOK
<1>2. request \in [Requests -> {Idle} \cup Handling]
  BY DEF Init
<1>3. report \in [counters : [CounterNames -> Nat], calls : Nat]
  BY DEF Init
<1>4. /\ calls \in Nat /\ answered \in Nat /\ answeredBefore \in Nat
      /\ requestShutdown \in BOOLEAN /\ progress = 0
  BY DEF Init
<1>. QED  BY <1>1, <1>2, <1>3, <1>4, CountersAreNames DEF TypeOK, Handling

LEMMA StepTypes == TypeOK /\ [Next]_vars => TypeOK'
<1>. SUFFICES ASSUME TypeOK, [Next]_vars PROVE TypeOK'
  OBVIOUS
<1>1. CASE Next
  <2>1. ASSUME NEW t \in Requests, HandleRequest(t) PROVE TypeOK'
    BY <2>1, RequestStepTypes
  <2>2. CASE CacheStep /\ UNCHANGED controllerVars
    BY <2>2, CacheStepTypes DEF TypeOK, controllerVars
  <2>. QED  BY <1>1, <2>1, <2>2 DEF Next
<1>2. CASE UNCHANGED vars
  BY <1>2 DEF vars, cacheVars, controllerVars, TypeOK, CacheTypeOK
<1>. QED  BY <1>1, <1>2

(***************************************************************************)
(* The counters and histories stay numbers, every call, request, prime and *)
(* invalidation is at one of its stages, and a report is seven counters    *)
(* and a number of calls.                                                  *)
(***************************************************************************)
THEOREM TypeCorrect == Spec => []TypeOK
BY InitTypes, StepTypes, PTL DEF Spec

-----------------------------------------------------------------------------
(* What a step does to the counters.                                       *)

\* Requests reach the counters only through the cache, which counts on its own.
LEMMA RequestsCountNothing ==
  ASSUME NEW t \in Requests, HandleRequest(t)
  PROVE  UNCHANGED <<cached, count, primer, notifier>>
BY DEF HandleRequest, Refuse, BeginGetStatus, BeginGetCacheStatistics, Shutdown, NoRepository,
       DiscoverRepository, Lookup, GetStatus, RecordGetStatusTime, ReadCounter, ReadTimings,
       GetCacheStatistics, Respond, cacheVars

LEMMA IncrementCounts ==
  ASSUME CacheTypeOK, NEW c \in CounterNames, Increment(c)
  PROVE  /\ count'[c] = count[c] + 1
         /\ \A k \in CounterNames : k # c => count'[k] = count[k]
         /\ \A k \in CounterNames : count[k] \in Nat /\ count'[k] \in Nat
<1>1. \A k \in CounterNames : count[k] \in Nat
  BY DEF CacheTypeOK
<1>2. count' = [count EXCEPT ![c] = count[c] + 1]
  BY DEF Increment
<1>. QED  BY <1>1, <1>2 DEF CacheTypeOK

\* The counters of the cache are only ever incremented.
LEMMA CountersGrow ==
  ASSUME TypeOK, [Next]_vars
  PROVE  \A k \in CounterNames : count[k] \in Nat /\ count'[k] \in Nat /\ count[k] <= count'[k]
<1>1. \A k \in CounterNames : count[k] \in Nat
  BY DEF TypeOK, CacheTypeOK
<1>2. ASSUME NEW c \in CounterNames, Increment(c)
      PROVE  \A k \in CounterNames : count'[k] \in Nat /\ count[k] <= count'[k]
  <2>1. ASSUME NEW k \in CounterNames PROVE count'[k] \in Nat /\ count[k] <= count'[k]
    BY <1>1, <1>2, IncrementCounts DEF TypeOK
  <2>. QED  BY <2>1
<1>3. count' = count \/ \E c \in CounterNames : Increment(c)
  <2>1. CASE CacheStep
    BY <2>1 DEF CacheStep, CountHit, CountMiss, StoreStatus, CountPrime, CountInvalidation,
         LookupForPrime, CountEffectivePrime, StorePrimed, EraseEntry, CountEffectiveInvalidation,
         CountInvalidateAll, ClearEntries, CounterNames
  <2>2. ASSUME NEW t \in Requests, HandleRequest(t) PROVE count' = count
    BY <2>2, RequestsCountNothing
  <2>. QED  BY <2>1, <2>2 DEF Next, vars, cacheVars
<1>. QED  BY <1>1, <1>2, <1>3

-----------------------------------------------------------------------------
(***************************************************************************)
(* EffectiveWithinTotal.  It is not inductive: what the reader finds in    *)
(* two counters at two moments is ordered only because the counters are    *)
(* ordered at every moment, with the prime or the invalidation that has    *)
(* passed the first of the two and not yet the second accounted for, and   *)
(* because they only grow.                                                 *)
(***************************************************************************)
One(condition) == IF condition THEN 1 ELSE 0

PrimesBacked ==
  count.effectivePrimes + One(primer.stage \in {"lookup", "countEffective"}) <= count.totalPrimes

InvalidationsBacked ==
  count.effectiveInvalidations + One(notifier.stage \in {"erase", "countEffective"})
    <= count.totalInvalidations

\* What has been read was the counter's value a while ago.
ReadBefore ==
  \A i \in 1..7 : i <= progress => report.counters[Counters[i]] <= count[Counters[i]]

TotalsInv == PrimesBacked /\ InvalidationsBacked /\ ReadBefore /\ EffectiveWithinTotal

LEMMA BackedStep ==
  ASSUME TypeOK, PrimesBacked, InvalidationsBacked, [Next]_vars
  PROVE  PrimesBacked' /\ InvalidationsBacked'
<1>. USE DEF PrimesBacked, InvalidationsBacked, One
<1>1. CacheTypeOK /\ \A k \in CounterNames : count[k] \in Nat
  BY DEF TypeOK, CacheTypeOK
<1>2. CASE UNCHANGED <<count, primer, notifier>>
  BY <1>2
<1>3. ASSUME NEW t \in Requests, CountHit(t) \/ CountMiss(t) \/ StoreStatus(t)
      PROVE  PrimesBacked' /\ InvalidationsBacked'
  BY <1>1, <1>3, IncrementCounts DEF CountHit, CountMiss, StoreStatus, CounterNames
<1>4. ASSUME NEW r \in Repos, CountPrime(r) PROVE PrimesBacked' /\ InvalidationsBacked'
  BY <1>1, <1>4, IncrementCounts DEF CountPrime, CounterNames, Idle
<1>5. ASSUME NEW r \in Repos, CountInvalidation(r) PROVE PrimesBacked' /\ InvalidationsBacked'
  BY <1>1, <1>5, IncrementCounts DEF CountInvalidation, CounterNames, Idle
<1>6. CASE LookupForPrime
  BY <1>1, <1>6 DEF LookupForPrime, CounterNames, Idle, CacheTypeOK, Busy
<1>7. CASE CountEffectivePrime
  <2>1. primer.stage = "countEffective" /\ primer'.stage = "store" /\ notifier' = notifier
    BY <1>1, <1>7 DEF CountEffectivePrime, CacheTypeOK, Busy, Idle
  <2>. QED  BY <1>1, <1>7, <2>1, IncrementCounts DEF CountEffectivePrime, CounterNames
<1>8. CASE StorePrimed
  BY <1>1, <1>8 DEF StorePrimed, CounterNames, Idle
<1>9. CASE EraseEntry
  BY <1>1, <1>9 DEF EraseEntry, CounterNames, Idle
<1>10. CASE CountEffectiveInvalidation
  BY <1>1, <1>10, IncrementCounts DEF CountEffectiveInvalidation, CounterNames, Idle
<1>11. CASE CountInvalidateAll
  BY <1>1, <1>11, IncrementCounts DEF CountInvalidateAll, CounterNames, Idle
<1>12. CASE ClearEntries
  BY <1>1, <1>12 DEF ClearEntries, CounterNames, Idle
<1>13. ASSUME NEW t \in Requests, HandleRequest(t) PROVE UNCHANGED <<count, primer, notifier>>
  BY <1>13, RequestsCountNothing
<1>. QED
  BY <1>2, <1>3, <1>4, <1>5, <1>6, <1>7, <1>8, <1>9, <1>10, <1>11, <1>12, <1>13
  DEF Next, CacheStep, vars, cacheVars

\* The steps that change what has been read.
LEMMA ReadingSteps ==
  ASSUME [Next]_vars
  PROVE  \/ UNCHANGED <<progress, report>>
         \/ progress' = 0 /\ report' = report
         \/ \E t \in Requests : ReadCounter(t) \/ ReadTimings(t)
BY DEF Next, HandleRequest, Refuse, BeginGetStatus, BeginGetCacheStatistics, Shutdown,
       NoRepository, DiscoverRepository, GetStatus, RecordGetStatusTime, GetCacheStatistics,
       Respond, controllerVars, vars

LEMMA ReadCounterEffect ==
  ASSUME TypeOK, NEW t \in Requests, ReadCounter(t)
  PROVE  /\ progress \in 0..6 /\ progress' = progress + 1
         /\ report'.counters[Counters[progress + 1]] = count[Counters[progress + 1]]
         /\ \A i \in 1..7 :
              i # progress + 1 => report'.counters[Counters[i]] = report.counters[Counters[i]]
         /\ report'.calls = report.calls
<1>. DEFINE c == Counters[progress + 1]
<1>1. progress \in 0..6 /\ progress + 1 \in 1..7 /\ c \in CounterNames
  BY CountersAreNames DEF ReadCounter, TypeOK
<1>2. report \in [counters : [CounterNames -> Nat], calls : Nat]
  BY DEF TypeOK
<1>3. /\ report'.counters = [report.counters EXCEPT ![c] = count[c]]
      /\ report'.calls = report.calls
      /\ progress' = progress + 1
  BY <1>2 DEF ReadCounter
<1>4. ASSUME NEW i \in 1..7, i # progress + 1 PROVE Counters[i] # c
  BY <1>1, <1>4 DEF Counters
<1>5. \A i \in 1..7 : Counters[i] \in CounterNames
  BY CountersAreNames
<1>6. report'.counters[c] = count[c]
  BY <1>1, <1>2, <1>3
<1>7. ASSUME NEW i \in 1..7, i # progress + 1
      PROVE  report'.counters[Counters[i]] = report.counters[Counters[i]]
  BY <1>2, <1>3, <1>4, <1>5, <1>7
<1>. QED  BY <1>1, <1>3, <1>6, <1>7

LEMMA ReadTimingsEffect ==
  ASSUME TypeOK, NEW t \in Requests, ReadTimings(t)
  PROVE  /\ progress = 7 /\ progress' = 8
         /\ report'.counters = report.counters
         /\ report'.calls = calls
<1>1. report \in [counters : [CounterNames -> Nat], calls : Nat]
  BY DEF TypeOK
<1>. QED  BY <1>1, CountersAreNames DEF ReadTimings, TypeOK

LEMMA ReadBeforeStep ==
  ASSUME TypeOK, ReadBefore, [Next]_vars PROVE ReadBefore'
<1>1. \A i \in 1..7 : Counters[i] \in CounterNames
  BY CountersAreNames
<1>2. \A i \in 1..7 : count[Counters[i]] \in Nat /\ count'[Counters[i]] \in Nat
                        /\ count[Counters[i]] <= count'[Counters[i]]
  BY <1>1, CountersGrow
<1>3. \A i \in 1..7 : report.counters[Counters[i]] \in Nat
  BY <1>1 DEF TypeOK
<1>4. progress \in Nat
  BY DEF TypeOK
<1>. SUFFICES ASSUME NEW i \in 1..7, i <= progress'
              PROVE  report'.counters[Counters[i]] <= count'[Counters[i]]
  BY Zenon DEF ReadBefore
<1>5. CASE UNCHANGED <<progress, report>>
  BY <1>2, <1>3, <1>4, <1>5 DEF ReadBefore
<1>6. CASE progress' = 0
  BY <1>6
<1>7. ASSUME NEW t \in Requests, ReadCounter(t)
      PROVE  report'.counters[Counters[i]] <= count'[Counters[i]]
  <2>1. CASE i = progress + 1
    BY <1>2, <1>7, <2>1, ReadCounterEffect
  <2>2. CASE i # progress + 1
    <3>1. i <= progress /\ report'.counters[Counters[i]] = report.counters[Counters[i]]
      BY <1>4, <1>7, <2>2, ReadCounterEffect
    <3>. QED  BY <1>2, <1>3, <3>1 DEF ReadBefore
  <2>. QED  BY <2>1, <2>2
<1>8. ASSUME NEW t \in Requests, ReadTimings(t)
      PROVE  report'.counters[Counters[i]] <= count'[Counters[i]]
  <2>1. i <= progress /\ report'.counters[Counters[i]] = report.counters[Counters[i]]
    BY <1>8, ReadTimingsEffect
  <2>. QED  BY <1>2, <1>3, <2>1 DEF ReadBefore
<1>. QED  BY <1>5, <1>6, <1>7, <1>8, ReadingSteps

LEMMA TotalsStep ==
  ASSUME TypeOK, TotalsInv, [Next]_vars PROVE TotalsInv'
<1>. USE DEF TotalsInv
<1>1. PrimesBacked' /\ InvalidationsBacked'
  BY BackedStep
<1>2. ReadBefore'
  BY ReadBeforeStep
<1>3. EffectiveWithinTotal'
  <2>. DEFINE s == report.counters
  <2>1. /\ Counters[3] = "effectivePrimes" /\ Counters[4] = "totalPrimes"
        /\ Counters[5] = "effectiveInvalidations" /\ Counters[6] = "totalInvalidations"
    BY DEF Counters
  <2>2. /\ s.effectivePrimes \in Nat /\ s.totalPrimes \in Nat
        /\ s.effectiveInvalidations \in Nat /\ s.totalInvalidations \in Nat
        /\ count.effectivePrimes \in Nat /\ count.totalPrimes \in Nat
        /\ count.effectiveInvalidations \in Nat /\ count.totalInvalidations \in Nat
    BY DEF TypeOK, CacheTypeOK, CounterNames
  <2>3. /\ progress >= 3 => s.effectivePrimes <= count.effectivePrimes
        /\ progress >= 5 => s.effectiveInvalidations <= count.effectiveInvalidations
    <3>1. 3 <= progress => s[Counters[3]] <= count[Counters[3]]
      BY DEF ReadBefore
    <3>2. 5 <= progress => s[Counters[5]] <= count[Counters[5]]
      BY DEF ReadBefore
    <3>. QED  BY <2>1, <3>1, <3>2 DEF TypeOK
  <2>4. /\ count.effectivePrimes <= count.totalPrimes
        /\ count.effectiveInvalidations <= count.totalInvalidations
    BY <2>2 DEF PrimesBacked, InvalidationsBacked, One
  <2>5. CASE UNCHANGED <<progress, report>>
    BY <2>5 DEF EffectiveWithinTotal
  <2>6. CASE progress' = 0
    BY <2>6 DEF EffectiveWithinTotal
  <2>7. ASSUME NEW t \in Requests, ReadCounter(t) PROVE EffectiveWithinTotal'
    <3>1. progress \in 0..6 /\ progress' = progress + 1
      BY <2>7, ReadCounterEffect
    <3>2. /\ progress # 2 => s'.effectivePrimes = s.effectivePrimes
          /\ progress # 3 => s'.totalPrimes = s.totalPrimes
          /\ progress = 3 => s'.totalPrimes = count.totalPrimes
          /\ progress # 4 => s'.effectiveInvalidations = s.effectiveInvalidations
          /\ progress # 5 => s'.totalInvalidations = s.totalInvalidations
          /\ progress = 5 => s'.totalInvalidations = count.totalInvalidations
      BY <2>1, <2>7, <3>1, ReadCounterEffect
    <3>3. progress' >= 4 => s'.effectivePrimes <= s'.totalPrimes
      BY <2>2, <2>3, <2>4, <3>1, <3>2 DEF EffectiveWithinTotal
    <3>4. progress' >= 6 => s'.effectiveInvalidations <= s'.totalInvalidations
      BY <2>2, <2>3, <2>4, <3>1, <3>2 DEF EffectiveWithinTotal
    <3>. QED  BY <3>3, <3>4 DEF EffectiveWithinTotal
  <2>8. ASSUME NEW t \in Requests, ReadTimings(t) PROVE EffectiveWithinTotal'
    BY <2>8, ReadTimingsEffect DEF EffectiveWithinTotal
  <2>. QED  BY <2>5, <2>6, <2>7, <2>8, ReadingSteps
<1>. QED  BY <1>1, <1>2, <1>3

(***************************************************************************)
(* However the threads interleave, no report shows more effective than     *)
(* total primes or invalidations: GetCacheStatistics reads the total last, *)
(* and PrimeCacheEntry and InvalidateCacheEntry increment it first.        *)
(***************************************************************************)
THEOREM TotalsAreTotals == Spec => []EffectiveWithinTotal
<1>1. Init => TypeOK /\ TotalsInv
  <2>. SUFFICES ASSUME Init PROVE TypeOK /\ TotalsInv
    OBVIOUS
  <2>1. TypeOK
    BY InitTypes
  <2>2. PrimesBacked /\ InvalidationsBacked
    BY DEF Init, CacheInit, PrimesBacked, InvalidationsBacked, One, Idle, CounterNames
  <2>3. ReadBefore /\ EffectiveWithinTotal
    BY DEF Init, ReadBefore, EffectiveWithinTotal
  <2>. QED  BY <2>1, <2>2, <2>3 DEF TotalsInv
<1>2. TypeOK /\ TotalsInv /\ [Next]_vars => (TypeOK /\ TotalsInv)'
  BY StepTypes, TotalsStep
<1>3. TotalsInv => EffectiveWithinTotal
  BY DEF TotalsInv
<1>. QED  BY <1>1, <1>2, <1>3, PTL DEF Spec

-----------------------------------------------------------------------------
(***************************************************************************)
(* RemovedWasStored.  What makes it inductive is the work between a        *)
(* counter and the map: an entry that has been erased is still to be       *)
(* counted, and a counted miss or prime is still to store its entry.       *)
(***************************************************************************)
Storing == {t \in Requests : call[t].stage = "store"}

RemovalsBacked ==
  /\ IsFiniteSet(cached)
  /\ count.effectiveInvalidations + One(notifier.stage = "countEffective")
       + Cardinality(cached) + Cardinality(Storing) + One(primer.stage = "store")
     <= count.misses + count.effectivePrimes

LEMMA SubsetsOfRequests ==
  ASSUME NEW S \in SUBSET Requests
  PROVE  IsFiniteSet(S) /\ Cardinality(S) \in Nat /\ Cardinality(S) <= Cardinality(Requests)
BY OperationsAssumption, FS_Subset, FS_CardinalityType

\* Storing, when one thread moves.
LEMMA StoringMoves ==
  ASSUME TypeOK, NEW t \in Requests, NEW c, call' = [call EXCEPT ![t] = c]
  PROVE  /\ c.stage # "store" => Storing' = Storing \ {t}
         /\ c.stage = "store" => Storing' = Storing \cup {t}
BY DEF Storing, TypeOK, CacheTypeOK

LEMMA OneMore ==
  ASSUME NEW S, IsFiniteSet(S), NEW x
  PROVE  /\ IsFiniteSet(S \cup {x})
         /\ Cardinality(S \cup {x}) \in Nat
         /\ Cardinality(S \cup {x}) <= Cardinality(S) + 1
<1>1. IsFiniteSet(S \cup {x}) /\ Cardinality(S) \in Nat
  BY FS_AddElement, FS_CardinalityType
<1>2. Cardinality(S \cup {x}) = IF x \in S THEN Cardinality(S) ELSE Cardinality(S) + 1
  BY FS_AddElement
<1>. QED  BY <1>1, <1>2

LEMMA RemovalsStep ==
  ASSUME TypeOK, RemovalsBacked, [Next]_vars PROVE RemovalsBacked'
<1>1. \A k \in CounterNames : count[k] \in Nat
  BY DEF TypeOK, CacheTypeOK
<1>2. /\ IsFiniteSet(cached) /\ Cardinality(cached) \in Nat
      /\ IsFiniteSet(Storing) /\ Cardinality(Storing) \in Nat
  BY SubsetsOfRequests, FS_CardinalityType DEF RemovalsBacked, Storing
<1>3. CacheTypeOK
  BY DEF TypeOK
<1>4. CASE UNCHANGED <<cached, count, primer, notifier, Storing>>
  BY <1>4 DEF RemovalsBacked
<1>5. ASSUME NEW t \in Requests, CountHit(t) PROVE RemovalsBacked'
  <2>1. Storing' = Storing
    BY <1>5, StoringMoves DEF CountHit, Returned, Storing
  <2>. QED  BY <1>1, <1>2, <1>3, <1>5, <2>1, IncrementCounts DEF CountHit, RemovalsBacked, CounterNames
<1>6. ASSUME NEW t \in Requests, CountMiss(t) PROVE RemovalsBacked'
  <2>1. Storing' = Storing \cup {t} /\ t \notin Storing
    <3>1. call' = [call EXCEPT ![t] = [call[t] EXCEPT !.stage = "store"]]
      BY <1>6 DEF CountMiss
    <3>2. [call[t] EXCEPT !.stage = "store"].stage = "store"
      BY <1>3, <1>6 DEF CountMiss, CacheTypeOK, Busy, Idle, Returned
    <3>. QED  BY <1>6, <3>1, <3>2, StoringMoves DEF CountMiss, Storing
  <2>2. Cardinality(Storing') = Cardinality(Storing) + 1
    BY <1>2, <2>1, FS_AddElement
  <2>3. UNCHANGED <<cached, primer, notifier>>
    BY <1>6 DEF CountMiss
  <2>4. count'.misses = count.misses + 1 /\ count'.effectivePrimes = count.effectivePrimes
        /\ count'.effectiveInvalidations = count.effectiveInvalidations
    BY <1>3, <1>6, IncrementCounts DEF CountMiss, CounterNames
  <2>. QED  BY <1>1, <1>2, <2>2, <2>3, <2>4 DEF RemovalsBacked, One, CounterNames
<1>7. ASSUME NEW t \in Requests, StoreStatus(t) PROVE RemovalsBacked'
  <2>1. Storing' = Storing \ {t} /\ t \in Storing
    BY <1>7, StoringMoves DEF StoreStatus, Returned, Storing
  <2>2. Cardinality(Storing') = Cardinality(Storing) - 1
    BY <1>2, <2>1, FS_RemoveElement
  <2>3. IsFiniteSet(cached') /\ Cardinality(cached') \in Nat
        /\ Cardinality(cached') <= Cardinality(cached) + 1
    BY <1>2, <1>7, OneMore DEF StoreStatus
  <2>4. UNCHANGED <<count, primer, notifier>>
    BY <1>7 DEF StoreStatus
  <2>. QED  BY <1>1, <1>2, <2>2, <2>3, <2>4 DEF RemovalsBacked, One, CounterNames
<1>8. ASSUME NEW r \in Repos, CountPrime(r) \/ CountInvalidation(r) PROVE RemovalsBacked'
  <2>1. /\ UNCHANGED <<cached, call>>
        /\ (primer'.stage = "store") = (primer.stage = "store")
        /\ (notifier'.stage = "countEffective") = (notifier.stage = "countEffective")
    BY <1>8 DEF CountPrime, CountInvalidation, Idle
  <2>2. count'.misses = count.misses /\ count'.effectivePrimes = count.effectivePrimes
        /\ count'.effectiveInvalidations = count.effectiveInvalidations
    BY <1>3, <1>8, IncrementCounts DEF CountPrime, CountInvalidation, CounterNames
  <2>. QED  BY <1>1, <1>2, <2>1, <2>2 DEF RemovalsBacked, Storing, One, CounterNames
<1>9. CASE LookupForPrime
  BY <1>1, <1>2, <1>3, <1>9 DEF LookupForPrime, RemovalsBacked, Storing, One, CounterNames, Idle,
     CacheTypeOK, Busy
<1>10. CASE CountEffectivePrime
  <2>1. UNCHANGED <<cached, call, notifier>> /\ primer.stage # "store"
    BY <1>10 DEF CountEffectivePrime
  <2>2. count'.misses = count.misses /\ count'.effectivePrimes = count.effectivePrimes + 1
        /\ count'.effectiveInvalidations = count.effectiveInvalidations
    BY <1>3, <1>10, IncrementCounts DEF CountEffectivePrime, CounterNames
  <2>. QED  BY <1>1, <1>2, <2>1, <2>2 DEF RemovalsBacked, Storing, One, CounterNames
<1>11. CASE StorePrimed
  <2>1. IsFiniteSet(cached') /\ Cardinality(cached') \in Nat
        /\ Cardinality(cached') <= Cardinality(cached) + 1
    BY <1>2, <1>11, OneMore DEF StorePrimed
  <2>. QED  BY <1>1, <1>2, <1>11, <2>1 DEF StorePrimed, RemovalsBacked, Storing, One, CounterNames, Idle
<1>12. CASE EraseEntry
  <2>1. IsFiniteSet(cached') /\ Cardinality(cached')
          = IF notifier.repo \in cached THEN Cardinality(cached) - 1 ELSE Cardinality(cached)
    BY <1>2, <1>12, FS_RemoveElement DEF EraseEntry
  <2>. QED  BY <1>1, <1>2, <1>12, <2>1 DEF EraseEntry, RemovalsBacked, Storing, One, CounterNames, Idle
<1>13. CASE CountEffectiveInvalidation
  <2>1. UNCHANGED <<cached, call, primer>> /\ notifier.stage = "countEffective" /\ notifier' = Idle
    BY <1>13 DEF CountEffectiveInvalidation
  <2>2. count'.misses = count.misses /\ count'.effectivePrimes = count.effectivePrimes
        /\ count'.effectiveInvalidations = count.effectiveInvalidations + 1
    BY <1>3, <1>13, IncrementCounts DEF CountEffectiveInvalidation, CounterNames
  <2>. QED  BY <1>1, <1>2, <2>1, <2>2 DEF RemovalsBacked, Storing, One, CounterNames, Idle
<1>14. CASE CountInvalidateAll
  BY <1>1, <1>2, <1>3, <1>14, IncrementCounts
  DEF CountInvalidateAll, RemovalsBacked, Storing, One, CounterNames, Idle
<1>15. CASE ClearEntries
  BY <1>1, <1>2, <1>15, FS_EmptySet
  DEF ClearEntries, RemovalsBacked, Storing, One, CounterNames, Idle
<1>16. ASSUME NEW t \in Requests, HandleRequest(t)
       PROVE  UNCHANGED <<cached, count, primer, notifier, Storing>>
  <2>1. UNCHANGED <<cached, count, primer, notifier>>
    BY <1>16, RequestsCountNothing
  <2>2. CASE DiscoverRepository(t)
    BY <2>1, <2>2, StoringMoves DEF DiscoverRepository, Lookup, Idle, Storing
  <2>3. CASE GetStatus(t)
    BY <2>1, <2>3, StoringMoves DEF GetStatus, Idle, Returned, Storing
  <2>4. CASE ~DiscoverRepository(t) /\ ~GetStatus(t)
    <3>1. call' = call
      BY <1>16, <2>4 DEF HandleRequest, Refuse, BeginGetStatus, BeginGetCacheStatistics, Shutdown,
         NoRepository, RecordGetStatusTime, ReadCounter, ReadTimings, GetCacheStatistics, Respond,
         cacheVars
    <3>. QED  BY <2>1, <3>1 DEF Storing
  <2>. QED  BY <2>2, <2>3, <2>4
<1>. QED
  BY <1>4, <1>5, <1>6, <1>7, <1>8, <1>9, <1>10, <1>11, <1>12, <1>13, <1>14, <1>15, <1>16
  DEF Next, CacheStep, vars, cacheVars, Storing

(***************************************************************************)
(* The removals that are counted never outrun the misses and primes that   *)
(* stored what was removed, the entries that are still there included.     *)
(***************************************************************************)
THEOREM RemovalsAreCovered == Spec => []RemovedWasStored
<1>1. Init => TypeOK /\ RemovalsBacked
  <2>. SUFFICES ASSUME Init PROVE TypeOK /\ RemovalsBacked
    OBVIOUS
  <2>1. TypeOK
    BY InitTypes
  <2>2. Storing = {}
    BY DEF Init, CacheInit, Storing, Idle
  <2>. QED  BY <2>1, <2>2, FS_EmptySet DEF Init, CacheInit, RemovalsBacked, One, Idle, CounterNames
<1>2. TypeOK /\ RemovalsBacked /\ [Next]_vars => (TypeOK /\ RemovalsBacked)'
  BY StepTypes, RemovalsStep
<1>3. TypeOK /\ RemovalsBacked => RemovedWasStored
  <2>. SUFFICES ASSUME TypeOK, RemovalsBacked PROVE RemovedWasStored
    OBVIOUS
  <2>1. Cardinality(cached) \in Nat /\ Cardinality(Storing) \in Nat
    BY SubsetsOfRequests, FS_CardinalityType DEF RemovalsBacked, Storing
  <2>2. \A k \in CounterNames : count[k] \in Nat
    BY DEF TypeOK, CacheTypeOK
  <2>. QED  BY <2>1, <2>2 DEF CounterNames, RemovalsBacked, One, RemovedWasStored
<1>. QED  BY <1>1, <1>2, <1>3, PTL DEF Spec

-----------------------------------------------------------------------------
(***************************************************************************)
(* AnswerIsDeserved.  The decision to answer is taken when a request is    *)
(* accepted and the answer given several steps later: at each stage the    *)
(* document must still be one that deserves to be there.  A thread is      *)
(* inside the cache only while its request is at that stage.               *)
(***************************************************************************)
InHand(t) ==
  LET d == request[t].document
      stage == request[t].stage
  IN  /\ stage \in {"find", "cache", "record"} => Accepts(d) /\ d.action = "GetStatus"
      /\ stage = "cache" => d.path \in Repos
      /\ stage = "record" =>
           request[t].answer = IF d.path \in Repos \ Broken THEN "status" ELSE "error"
      /\ stage = "statistics" => Accepts(d) /\ d.action = "GetCacheStatistics"
      /\ stage # "cache" => call[t] = Idle

HandlingInv == (\A t \in Requests : InHand(t)) /\ AnswerIsDeserved

\* A request moves only its own thread, and never takes a shutdown back.
LEMMA RequestsMoveAlone ==
  ASSUME TypeOK, NEW t \in Requests, HandleRequest(t)
  PROVE  /\ \A u \in Requests : u # t => request'[u] = request[u] /\ call'[u] = call[u]
         /\ requestShutdown => requestShutdown'
<1>1. ASSUME NEW u \in Requests, u # t PROVE request'[u] = request[u] /\ call'[u] = call[u]
  BY <1>1 DEF TypeOK, CacheTypeOK, HandleRequest, Refuse, BeginGetStatus, BeginGetCacheStatistics,
     Shutdown, Answer, NoRepository, DiscoverRepository, Lookup, GetStatus, GoTo,
     RecordGetStatusTime, ReadCounter, ReadTimings, GetCacheStatistics, Respond, cacheVars
<1>2. requestShutdown => requestShutdown'
  BY DEF HandleRequest, Refuse, BeginGetStatus, BeginGetCacheStatistics, Shutdown, NoRepository,
     DiscoverRepository, GetStatus, RecordGetStatusTime, ReadCounter, ReadTimings,
     GetCacheStatistics, Respond
<1>. QED  BY <1>1, <1>2

\* What GoTo makes of a request in hand.
LEMMA GoToEffect ==
  ASSUME TypeOK, NEW t \in Requests, request[t] # Idle, NEW stage, NEW answer,
         GoTo(t, stage, answer)
  PROVE  /\ request'[t].stage = stage
         /\ request'[t].answer = answer
         /\ request'[t].document = request[t].document
<1>1. request[t] \in Handling
  BY DEF TypeOK, Handling
<1>2. request'[t] = [request[t] EXCEPT !.stage = stage, !.answer = answer]
  BY DEF GoTo, TypeOK
<1>. QED  BY <1>1, <1>2 DEF Handling

LEMMA HandlingStep ==
  ASSUME TypeOK, HandlingInv, [Next]_vars PROVE HandlingInv'
<1>. DEFINE Deserved(t) ==
       request[t].stage = "answered" =>
         /\ request[t].answer = IF Serviceable(request[t].document)
                                THEN AnswerTo[request[t].document.action] ELSE "error"
         /\ request[t].answer = "shuttingDown" => requestShutdown
<1>1. \A t \in Requests : InHand(t) /\ Deserved(t)
  BY DEF HandlingInv, AnswerIsDeserved
<1>. SUFFICES ASSUME NEW u \in Requests PROVE InHand(u)' /\ Deserved(u)'
  BY DEF HandlingInv, AnswerIsDeserved
<1>2. InHand(u) /\ Deserved(u)
  BY <1>1
<1>3. ASSUME request'[u] = request[u], call'[u] = call[u], requestShutdown => requestShutdown'
      PROVE  InHand(u)' /\ Deserved(u)'
  BY <1>2, <1>3 DEF InHand
<1>4. ASSUME NEW t \in Requests, HandleRequest(t), t # u PROVE InHand(u)' /\ Deserved(u)'
  BY <1>3, <1>4, RequestsMoveAlone
<1>5. ASSUME HandleRequest(u) PROVE InHand(u)' /\ Deserved(u)'
  <2>1. ASSUME NEW d \in Documents, Refuse(u, d) PROVE InHand(u)' /\ Deserved(u)'
    <3>1. request'[u].stage = "answered" /\ request'[u].answer = "error" /\ request'[u].document = d
      BY <2>1 DEF Refuse, Answer, At, TypeOK
    <3>2. ~Serviceable(d)
      BY <2>1 DEF Refuse, Accepts, Recognizes, Serviceable
    <3>3. call'[u] = Idle
      BY <1>2, <2>1 DEF Refuse, Take, InHand, Idle, cacheVars
    <3>. QED  BY <3>1, <3>2, <3>3 DEF InHand
  <2>2. ASSUME NEW d \in Documents, BeginGetStatus(u, d) PROVE InHand(u)' /\ Deserved(u)'
    <3>1. request'[u].stage = "find" /\ request'[u].document = d
      BY <2>2 DEF BeginGetStatus, At, TypeOK
    <3>2. call'[u] = Idle
      BY <1>2, <2>2 DEF BeginGetStatus, Take, InHand, Idle, cacheVars
    <3>. QED  BY <2>2, <3>1, <3>2 DEF InHand, BeginGetStatus
  <2>3. ASSUME NEW d \in Documents, BeginGetCacheStatistics(u, d)
        PROVE  InHand(u)' /\ Deserved(u)'
    <3>1. request'[u].stage = "statistics" /\ request'[u].document = d
      BY <2>3 DEF BeginGetCacheStatistics, At, TypeOK
    <3>2. call'[u] = Idle
      BY <1>2, <2>3 DEF BeginGetCacheStatistics, Take, InHand, Idle, cacheVars
    <3>. QED  BY <2>3, <3>1, <3>2 DEF InHand, BeginGetCacheStatistics
  <2>4. ASSUME NEW d \in Documents, Shutdown(u, d) PROVE InHand(u)' /\ Deserved(u)'
    <3>1. /\ request'[u].stage = "answered" /\ request'[u].answer = "shuttingDown"
          /\ request'[u].document = d
      BY <2>4 DEF Shutdown, Answer, At, TypeOK
    <3>2. Serviceable(d) /\ AnswerTo[d.action] = "shuttingDown" /\ requestShutdown'
      BY <2>4 DEF Shutdown, Accepts, Serviceable, AnswerTo
    <3>3. call'[u] = Idle
      BY <1>2, <2>4 DEF Shutdown, Take, InHand, Idle, cacheVars
    <3>. QED  BY <3>1, <3>2, <3>3 DEF InHand
  <2>5. CASE NoRepository(u)
    <3>1. /\ request'[u].stage = "record" /\ request'[u].answer = "error"
          /\ request'[u].document = request[u].document
      BY <2>5, GoToEffect DEF NoRepository, Idle
    <3>2. call'[u] = call[u]
      BY <2>5 DEF NoRepository, cacheVars
    <3>. QED  BY <1>2, <2>5, <3>1, <3>2 DEF InHand, NoRepository
  <2>6. CASE DiscoverRepository(u)
    <3>1. request'[u].stage = "cache" /\ request'[u].document = request[u].document
      BY <2>6, GoToEffect DEF DiscoverRepository, Idle
    <3>. QED  BY <1>2, <2>6, <3>1 DEF InHand, DiscoverRepository
  <2>7. CASE GetStatus(u)
    <3>1. /\ request'[u].stage = "record" /\ request'[u].document = request[u].document
          /\ request'[u].answer = IF request[u].document.path \in Broken THEN "error" ELSE "status"
      BY <2>7, GoToEffect DEF GetStatus, Idle
    <3>2. call'[u] = Idle
      BY <2>7 DEF GetStatus, TypeOK, CacheTypeOK
    <3>. QED  BY <1>2, <2>7, <3>1, <3>2 DEF InHand, GetStatus
  <2>8. CASE RecordGetStatusTime(u)
    <3>1. /\ request'[u].stage = "answered" /\ request'[u].answer = request[u].answer
          /\ request'[u].document = request[u].document
      BY <2>8, GoToEffect DEF RecordGetStatusTime, Idle
    <3>2. call'[u] = call[u]
      BY <2>8 DEF RecordGetStatusTime, cacheVars
    <3>3. request[u].answer = IF Serviceable(request[u].document) THEN "status" ELSE "error"
      BY <1>2, <2>8 DEF InHand, RecordGetStatusTime, Serviceable, Accepts
    <3>. QED  BY <1>2, <2>8, <3>1, <3>2, <3>3 DEF InHand, RecordGetStatusTime, AnswerTo
  <2>9. CASE ReadCounter(u) \/ ReadTimings(u)
    BY <1>3, <2>9 DEF ReadCounter, ReadTimings, cacheVars
  <2>10. CASE GetCacheStatistics(u)
    <3>1. /\ request'[u].stage = "answered" /\ request'[u].answer = "statistics"
          /\ request'[u].document = request[u].document
      BY <2>10, GoToEffect DEF GetCacheStatistics, Reads, Idle
    <3>2. call'[u] = call[u]
      BY <2>10 DEF GetCacheStatistics, cacheVars
    <3>3. Serviceable(request[u].document) /\ AnswerTo[request[u].document.action] = "statistics"
      BY <1>2, <2>10 DEF InHand, GetCacheStatistics, Reads, Serviceable, Accepts, AnswerTo
    <3>. QED  BY <1>2, <2>10, <3>1, <3>2, <3>3 DEF InHand, GetCacheStatistics, Reads
  <2>11. CASE Respond(u)
    BY <1>2, <2>11 DEF Respond, InHand, Idle, cacheVars, TypeOK
  <2>. QED
    BY <1>5, <2>1, <2>2, <2>3, <2>4, <2>5, <2>6, <2>7, <2>8, <2>9, <2>10, <2>11
    DEF HandleRequest
<1>6. CASE CacheStep /\ UNCHANGED controllerVars
  <2>1. request'[u] = request[u] /\ requestShutdown' = requestShutdown
    BY <1>6 DEF controllerVars
  <2>2. CASE call'[u] = call[u]
    BY <1>3, <2>1, <2>2
  <2>3. CASE call'[u] # call[u]
    <3>1. call[u] # Idle
      BY <1>6, <2>3 DEF CacheStep, CountHit, CountMiss, StoreStatus, CountPrime, CountInvalidation,
         LookupForPrime, CountEffectivePrime, StorePrimed, EraseEntry, CountEffectiveInvalidation,
         CountInvalidateAll, ClearEntries, TypeOK, CacheTypeOK, Idle
    <3>. QED  BY <1>2, <2>1, <3>1 DEF InHand
  <2>. QED  BY <2>2, <2>3
<1>7. CASE UNCHANGED vars
  BY <1>3, <1>7 DEF vars, cacheVars, controllerVars
<1>. QED  BY <1>4, <1>5, <1>6, <1>7 DEF Next

LEMMA HandlingInit ==
  ASSUME Init PROVE HandlingInv
BY DEF Init, CacheInit, HandlingInv, InHand, AnswerIsDeserved, Idle

(***************************************************************************)
(* Whatever the threads do meanwhile, a request is answered with what it   *)
(* deserves: an error exactly when it is refused or has no status to give, *)
(* and the announcement of a shutdown only when it has been signalled.     *)
(***************************************************************************)
THEOREM AnswersAreDeserved == Spec => []AnswerIsDeserved
<1>1. Init => TypeOK /\ HandlingInv
  BY InitTypes, HandlingInit
<1>2. TypeOK /\ HandlingInv /\ [Next]_vars => (TypeOK /\ HandlingInv)'
  BY StepTypes, HandlingStep
<1>3. HandlingInv => AnswerIsDeserved
  BY DEF HandlingInv
<1>. QED  BY <1>1, <1>2, <1>3, PTL DEF Spec

-----------------------------------------------------------------------------
(***************************************************************************)
(* LookupsAreRequests and AnsweredIsReported.  Neither is inductive: the   *)
(* numbers of a response are read at different moments, so what they are   *)
(* compared with is the requests that have been looked up and not yet      *)
(* recorded, and those that are recorded and not yet answered.  The reader *)
(* is none of them, which is where the - 1 comes from.                     *)
(***************************************************************************)
LookedUp ==
  {t \in Requests :
     \/ request[t].stage = "cache" /\ call[t].stage \in {"store", "returned"}
     \/ request[t].stage = "record" /\ request[t].document.path \in Repos}

Recorded ==
  {t \in Requests : request[t].stage = "answered" /\ IsGetStatus(request[t].document)}

LookupsBacked == count.hits + count.misses <= calls + Cardinality(LookedUp)

AnswersBacked == answered + Cardinality(Recorded) <= calls /\ answeredBefore <= answered

RequestsInv ==
  /\ LookupsBacked /\ AnswersBacked
  /\ LookupsAreRequests /\ AnsweredIsReported

\* The set of threads of which P holds, when only one of them moves.
LEMMA OneMoves ==
  ASSUME NEW S \in SUBSET Requests, NEW T \in SUBSET Requests, NEW t \in Requests,
         \A u \in Requests : u # t => (u \in T <=> u \in S)
  PROVE  /\ Cardinality(S) \in Nat /\ Cardinality(T) \in Nat
         /\ (t \in T <=> t \in S) => Cardinality(T) = Cardinality(S)
         /\ t \in T /\ t \notin S => Cardinality(T) = Cardinality(S) + 1
         /\ t \notin T /\ t \in S => Cardinality(T) = Cardinality(S) - 1
<1>1. IsFiniteSet(S) /\ Cardinality(S) \in Nat /\ Cardinality(T) \in Nat
  BY SubsetsOfRequests
<1>2. CASE t \in T <=> t \in S
  <2>1. T = S
    BY <1>2
  <2>. QED  BY <1>1, <1>2, <2>1
<1>3. CASE t \in T /\ t \notin S
  <2>1. T = S \cup {t}
    BY <1>3
  <2>. QED  BY <1>1, <1>3, <2>1, FS_AddElement
<1>4. CASE t \notin T /\ t \in S
  <2>1. T = S \ {t}
    BY <1>4
  <2>. QED  BY <1>1, <1>4, <2>1, FS_RemoveElement
<1>. QED  BY <1>2, <1>3, <1>4

LEMMA LookupsBackedStep ==
  ASSUME TypeOK, HandlingInv, LookupsBacked, [Next]_vars PROVE LookupsBacked'
<1>. DEFINE L == LookedUp
<1>1. /\ count.hits \in Nat /\ count.misses \in Nat /\ calls \in Nat
      /\ Cardinality(L) \in Nat /\ \A t \in Requests : InHand(t)
  BY SubsetsOfRequests DEF TypeOK, CacheTypeOK, CounterNames, LookedUp, HandlingInv
<1>2. L \in SUBSET Requests /\ L' \in SUBSET Requests
  BY DEF LookedUp
<1>3. CASE UNCHANGED <<count, calls, call, request>>
  BY <1>3 DEF LookupsBacked, LookedUp
<1>4. ASSUME NEW t \in Requests, CountHit(t) \/ CountMiss(t), UNCHANGED controllerVars
      PROVE  LookupsBacked'
  <2>1. count'.hits + count'.misses = count.hits + count.misses + 1
    <3>1. CacheTypeOK
      BY DEF TypeOK
    <3>2. CASE CountHit(t)
      <4>1. count'.hits = count.hits + 1 /\ count'.misses = count.misses
        BY <3>1, <3>2, IncrementCounts DEF CountHit, CounterNames
      <4>. QED  BY <1>1, <4>1
    <3>3. CASE CountMiss(t)
      <4>1. count'.hits = count.hits /\ count'.misses = count.misses + 1
        BY <3>1, <3>3, IncrementCounts DEF CountMiss, CounterNames
      <4>. QED  BY <1>1, <4>1
    <3>. QED  BY <1>4, <3>2, <3>3
  <2>2. \A u \in Requests : u # t => (u \in L' <=> u \in L)
    BY <1>4 DEF CountHit, CountMiss, controllerVars, LookedUp, TypeOK, CacheTypeOK
  <2>3. request[t].stage = "cache" /\ t \notin L
    BY <1>1, <1>4 DEF CountHit, CountMiss, InHand, Idle, LookedUp
  <2>4. call'[t].stage \in {"store", "returned"}
    BY <1>4 DEF CountHit, CountMiss, Returned, Idle, Busy, TypeOK, CacheTypeOK
  <2>5. t \in L' /\ calls' = calls
    BY <1>4, <2>3, <2>4 DEF controllerVars, LookedUp
  <2>6. Cardinality(L') = Cardinality(L) + 1
    BY <1>2, <2>2, <2>3, <2>5, OneMoves
  <2>. QED  BY <1>1, <2>1, <2>5, <2>6 DEF LookupsBacked
<1>5. ASSUME NEW t \in Requests, StoreStatus(t), UNCHANGED controllerVars PROVE LookupsBacked'
  <2>1. L' = L
    BY <1>5 DEF StoreStatus, controllerVars, LookedUp, Returned, TypeOK, CacheTypeOK
  <2>. QED  BY <1>5, <2>1 DEF StoreStatus, controllerVars, LookupsBacked
<1>6. CASE CacheStep /\ UNCHANGED controllerVars
  <2>1. CASE \E t \in Requests : CountHit(t) \/ CountMiss(t) \/ StoreStatus(t)
    BY <1>4, <1>5, <1>6, <2>1
  <2>2. CASE ~\E t \in Requests : CountHit(t) \/ CountMiss(t) \/ StoreStatus(t)
    <3>1. /\ call' = call
          /\ count' = count \/ \E c \in CounterNames \ {"hits", "misses"} : Increment(c)
      BY <1>6, <2>2 DEF CacheStep, CountPrime, CountInvalidation, LookupForPrime,
         CountEffectivePrime, StorePrimed, EraseEntry, CountEffectiveInvalidation,
         CountInvalidateAll, ClearEntries, CounterNames
    <3>2. count'.hits = count.hits /\ count'.misses = count.misses
      BY <3>1, IncrementCounts DEF TypeOK, CounterNames
    <3>. QED  BY <1>6, <3>1, <3>2 DEF controllerVars, LookupsBacked, LookedUp
  <2>. QED  BY <2>1, <2>2
<1>7. ASSUME NEW t \in Requests, HandleRequest(t) PROVE LookupsBacked'
  <2>1. count' = count
    BY <1>7, RequestsCountNothing
  <2>2. \A u \in Requests : u # t => (u \in L' <=> u \in L)
    BY <1>7, RequestsMoveAlone DEF LookedUp
  <2>3. CASE RecordGetStatusTime(t)
    <3>1. t \notin L'
      BY <2>3, GoToEffect DEF RecordGetStatusTime, LookedUp, Idle
    <3>2. Cardinality(L') \in Nat /\ Cardinality(L) <= Cardinality(L') + 1
      BY <1>2, <2>2, <3>1, OneMoves
    <3>3. calls' = calls + 1
      BY <2>3 DEF RecordGetStatusTime
    <3>. QED  BY <1>1, <2>1, <3>2, <3>3 DEF LookupsBacked
  <2>4. CASE ~RecordGetStatusTime(t)
    <3>1. calls' = calls
      BY <1>7, <2>4 DEF HandleRequest, Refuse, BeginGetStatus, BeginGetCacheStatistics, Shutdown,
         NoRepository, DiscoverRepository, GetStatus, ReadCounter, ReadTimings,
         GetCacheStatistics, Respond
    <3>2. t \in L' <=> t \in L
      <4>1. ASSUME NEW d \in Documents, Refuse(t, d) \/ BeginGetStatus(t, d)
                                         \/ BeginGetCacheStatistics(t, d) \/ Shutdown(t, d)
            PROVE  t \notin L' /\ t \notin L
        <5>1. request'[t].stage \in {"answered", "find", "statistics"} /\ request[t] = Idle
          BY <4>1 DEF Refuse, BeginGetStatus, BeginGetCacheStatistics, Shutdown, Answer, At, Take,
             TypeOK
        <5>. QED  BY <5>1 DEF LookedUp, Idle
      <4>2. CASE NoRepository(t)
        <5>1. request'[t].document = request[t].document /\ request'[t].stage = "record"
          BY <4>2, GoToEffect DEF NoRepository, Idle
        <5>. QED  BY <4>2, <5>1 DEF NoRepository, LookedUp
      <4>3. CASE DiscoverRepository(t)
        <5>1. request'[t].stage = "cache"
          BY <4>3, GoToEffect DEF DiscoverRepository, Idle
        <5>2. call'[t].stage \in {"countHit", "countMiss"}
          BY <4>3 DEF DiscoverRepository, Lookup, TypeOK, CacheTypeOK
        <5>. QED  BY <4>3, <5>1, <5>2 DEF DiscoverRepository, LookedUp
      <4>4. CASE GetStatus(t)
        <5>1. request'[t].document = request[t].document /\ request'[t].stage = "record"
          BY <4>4, GoToEffect DEF GetStatus, Idle
        <5>. QED  BY <1>1, <4>4, <5>1 DEF GetStatus, LookedUp, InHand, Returned
      <4>5. CASE ReadCounter(t) \/ ReadTimings(t)
        BY <4>5 DEF ReadCounter, ReadTimings, LookedUp, cacheVars
      <4>6. CASE GetCacheStatistics(t)
        <5>1. request'[t].stage = "answered"
          BY <4>6, GoToEffect DEF GetCacheStatistics, Reads, Idle
        <5>. QED  BY <4>6, <5>1 DEF GetCacheStatistics, Reads, LookedUp
      <4>7. CASE Respond(t)
        BY <4>7 DEF Respond, LookedUp, Idle, TypeOK
      <4>. QED  BY <1>7, <2>4, <4>1, <4>2, <4>3, <4>4, <4>5, <4>6, <4>7 DEF HandleRequest
    <3>3. Cardinality(L') = Cardinality(L)
      BY <1>2, <2>2, <3>2, OneMoves
    <3>. QED  BY <2>1, <3>1, <3>3 DEF LookupsBacked
  <2>. QED  BY <2>3, <2>4
<1>. QED  BY <1>3, <1>6, <1>7 DEF Next, vars, cacheVars, controllerVars

LEMMA AnswersBackedStep ==
  ASSUME TypeOK, HandlingInv, AnswersBacked, [Next]_vars PROVE AnswersBacked'
<1>. DEFINE R == Recorded
<1>1. /\ calls \in Nat /\ answered \in Nat /\ answeredBefore \in Nat /\ Cardinality(R) \in Nat
      /\ \A t \in Requests : InHand(t)
  BY SubsetsOfRequests DEF TypeOK, Recorded, HandlingInv
<1>2. R \in SUBSET Requests /\ R' \in SUBSET Requests
  BY DEF Recorded
<1>3. CASE UNCHANGED <<calls, request, answered, answeredBefore>>
  BY <1>3 DEF AnswersBacked, Recorded
<1>4. ASSUME NEW t \in Requests, HandleRequest(t) PROVE AnswersBacked'
  <2>1. \A u \in Requests : u # t => (u \in R' <=> u \in R)
    BY <1>4, RequestsMoveAlone DEF Recorded
  <2>2. CASE RecordGetStatusTime(t)
    <3>1. t \notin R
      BY <2>2 DEF RecordGetStatusTime, Recorded
    <3>2. Cardinality(R') \in Nat /\ Cardinality(R') <= Cardinality(R) + 1
      BY <1>2, <2>1, <3>1, OneMoves
    <3>3. calls' = calls + 1 /\ UNCHANGED <<answered, answeredBefore>>
      BY <2>2 DEF RecordGetStatusTime
    <3>. QED  BY <1>1, <3>2, <3>3 DEF AnswersBacked
  <2>3. CASE Respond(t)
    <3>1. t \notin R' /\ (t \in R <=> IsGetStatus(request[t].document))
      BY <2>3 DEF Respond, Recorded, Idle, TypeOK
    <3>2. answered' = (IF t \in R THEN answered + 1 ELSE answered)
          /\ UNCHANGED <<calls, answeredBefore>>
      BY <2>3, <3>1 DEF Respond
    <3>3. Cardinality(R') = IF t \in R THEN Cardinality(R) - 1 ELSE Cardinality(R)
      BY <1>2, <2>1, <3>1, OneMoves
    <3>. QED  BY <1>1, <3>2, <3>3 DEF AnswersBacked
  <2>4. CASE ~RecordGetStatusTime(t) /\ ~Respond(t)
    <3>1. calls' = calls /\ answered' = answered /\ answeredBefore' \in {answeredBefore, answered}
      BY <1>4, <2>4 DEF HandleRequest, Refuse, BeginGetStatus, BeginGetCacheStatistics, Shutdown,
         NoRepository, DiscoverRepository, GetStatus, ReadCounter, ReadTimings, GetCacheStatistics
    <3>2. t \notin R' \/ R' = R
      <4>1. ASSUME NEW d \in Documents, Refuse(t, d) PROVE t \notin R'
        <5>1. ~IsGetStatus(d)
          BY <4>1 DEF Refuse, IsGetStatus, Recognizes
        <5>2. request'[t].document = d
          BY <4>1 DEF Refuse, Answer, At, TypeOK
        <5>. QED  BY <5>1, <5>2 DEF Recorded
      <4>2. ASSUME NEW d \in Documents, BeginGetStatus(t, d) PROVE t \notin R'
        BY <4>2 DEF BeginGetStatus, At, TypeOK, Recorded
      <4>3. ASSUME NEW d \in Documents, BeginGetCacheStatistics(t, d) PROVE t \notin R'
        BY <4>3 DEF BeginGetCacheStatistics, At, TypeOK, Recorded
      <4>4. ASSUME NEW d \in Documents, Shutdown(t, d) PROVE t \notin R'
        BY <4>4 DEF Shutdown, Answer, At, TypeOK, Recorded, IsGetStatus
      <4>5. CASE NoRepository(t) \/ DiscoverRepository(t) \/ GetStatus(t)
        BY <4>5, GoToEffect DEF NoRepository, DiscoverRepository, GetStatus, Idle, Recorded
      <4>6. CASE ReadCounter(t) \/ ReadTimings(t)
        BY <4>6 DEF ReadCounter, ReadTimings, Recorded
      <4>7. CASE GetCacheStatistics(t)
        <5>1. request'[t].document.action = "GetCacheStatistics"
          BY <1>1, <4>7, GoToEffect DEF GetCacheStatistics, Reads, InHand, Idle
        <5>. QED  BY <5>1 DEF Recorded, IsGetStatus
      <4>. QED
        BY <1>4, <2>4, <4>1, <4>2, <4>3, <4>4, <4>5, <4>6, <4>7 DEF HandleRequest
    <3>3. Cardinality(R') \in Nat /\ Cardinality(R') <= Cardinality(R)
      BY <1>1, <1>2, <2>1, <3>2, OneMoves
    <3>. QED  BY <1>1, <3>1, <3>3 DEF AnswersBacked
  <2>. QED  BY <2>2, <2>3, <2>4
<1>. QED  BY <1>3, <1>4 DEF Next, vars, controllerVars

\* The reader is in no lookup.
LEMMA ReaderLooksNothingUp ==
  ASSUME NEW t \in Requests, Reads(t)
  PROVE  Cardinality(LookedUp) <= Cardinality(Requests) - 1
<1>1. LookedUp \in SUBSET (Requests \ {t})
  BY DEF LookedUp, Reads
<1>2. /\ IsFiniteSet(Requests \ {t})
      /\ Cardinality(Requests \ {t}) = Cardinality(Requests) - 1
  BY OperationsAssumption, FS_RemoveElement
<1>. QED  BY <1>1, <1>2, FS_Subset

LEMMA RequestsStep ==
  ASSUME TypeOK, HandlingInv, ReadBefore, RequestsInv, [Next]_vars PROVE RequestsInv'
<1>. USE DEF RequestsInv
<1>1. LookupsBacked' /\ AnswersBacked'
  BY LookupsBackedStep, AnswersBackedStep
<1>2. CASE UNCHANGED <<progress, report, answeredBefore>>
  BY <1>1, <1>2 DEF LookupsAreRequests, AnsweredIsReported
<1>3. CASE progress' \in 0..7
  BY <1>1, <1>3, CountersAreNames DEF LookupsAreRequests, AnsweredIsReported
<1>4. ASSUME NEW t \in Requests, ReadTimings(t) PROVE RequestsInv'
  <2>1. progress = 7 /\ report'.counters = report.counters /\ report'.calls = calls
        /\ answeredBefore' = answeredBefore /\ Reads(t)
    BY <1>4, ReadTimingsEffect DEF ReadTimings
  <2>2. report.counters.hits <= count.hits /\ report.counters.misses <= count.misses
    <3>1. Counters[1] = "hits" /\ Counters[2] = "misses"
      BY DEF Counters
    <3>. QED  BY <2>1, <3>1 DEF ReadBefore
  <2>3. Cardinality(LookedUp) \in Nat /\ Cardinality(Recorded) \in Nat
        /\ Cardinality(Requests) \in Nat /\ Cardinality(LookedUp) <= Cardinality(Requests) - 1
    BY <2>1, SubsetsOfRequests, ReaderLooksNothingUp DEF LookedUp, Recorded
  <2>4. /\ count.hits \in Nat /\ count.misses \in Nat /\ calls \in Nat
        /\ report.counters.hits \in Nat /\ report.counters.misses \in Nat
        /\ answered \in Nat /\ answeredBefore \in Nat
    BY DEF TypeOK, CacheTypeOK, CounterNames
  <2>5. report.counters.hits + report.counters.misses <= calls + Cardinality(Requests) - 1
    BY <2>2, <2>3, <2>4 DEF LookupsBacked
  <2>6. answeredBefore <= calls
    BY <2>3, <2>4 DEF AnswersBacked
  <2>. QED  BY <1>1, <2>1, <2>5, <2>6 DEF LookupsAreRequests, AnsweredIsReported
<1>5. \/ UNCHANGED <<progress, report, answeredBefore>> \/ progress' \in 0..7
      \/ \E t \in Requests : ReadTimings(t)
  <2>1. ASSUME NEW t \in Requests, NEW d \in Documents, BeginGetCacheStatistics(t, d)
        PROVE  progress' = 0
    BY <2>1 DEF BeginGetCacheStatistics
  <2>2. answeredBefore' = answeredBefore
          \/ \E t \in Requests : \E d \in Documents : BeginGetCacheStatistics(t, d)
    BY DEF Next, HandleRequest, Refuse, BeginGetStatus, Shutdown, NoRepository,
       DiscoverRepository, GetStatus, RecordGetStatusTime, ReadCounter, ReadTimings,
       GetCacheStatistics, Respond, controllerVars, vars
  <2>. QED  BY <2>1, <2>2, ReadingSteps, ReadCounterEffect
<1>. QED  BY <1>2, <1>3, <1>4, <1>5

RequestsIInv == TypeOK /\ HandlingInv /\ ReadBefore /\ RequestsInv

LEMMA RequestsInductive ==
  /\ Init => RequestsIInv
  /\ RequestsIInv /\ [Next]_vars => RequestsIInv'
<1>1. ASSUME Init PROVE RequestsIInv
  <2>1. TypeOK /\ HandlingInv
    BY <1>1, InitTypes, HandlingInit
  <2>2. ReadBefore /\ LookupsAreRequests /\ AnsweredIsReported
    BY <1>1, CountersAreNames DEF Init, ReadBefore, LookupsAreRequests, AnsweredIsReported
  <2>3. LookedUp = {} /\ Recorded = {}
    BY <1>1 DEF Init, LookedUp, Recorded, Idle
  <2>4. LookupsBacked /\ AnswersBacked
    BY <1>1, <2>3, FS_EmptySet DEF Init, CacheInit, LookupsBacked, AnswersBacked, CounterNames
  <2>. QED  BY <2>1, <2>2, <2>4 DEF RequestsIInv, RequestsInv
<1>2. ASSUME RequestsIInv, [Next]_vars PROVE RequestsIInv'
  BY <1>2, StepTypes, HandlingStep, ReadBeforeStep, RequestsStep DEF RequestsIInv
<1>. QED  BY <1>1, <1>2

(***************************************************************************)
(* For any number of request threads: the hits and misses of a response    *)
(* exceed its GetStatus requests by no more than the other threads can be  *)
(* in the middle of.                                                       *)
(***************************************************************************)
THEOREM LookupsAreCounted == Spec => []LookupsAreRequests
<1>1. RequestsIInv => LookupsAreRequests
  BY DEF RequestsIInv, RequestsInv
<1>. QED  BY <1>1, RequestsInductive, PTL DEF Spec

(***************************************************************************)
(* Whoever was answered before the statistics were asked for is among the  *)
(* requests they report.                                                   *)
(***************************************************************************)
THEOREM AnsweredAreReported == Spec => []AnsweredIsReported
<1>1. RequestsIInv => AnsweredIsReported
  BY DEF RequestsIInv, RequestsInv
<1>. QED  BY <1>1, RequestsInductive, PTL DEF Spec
=============================================================================
