-------------------------- MODULE StatusController --------------------------
(***************************************************************************)
(* StatusController: what HandleRequest makes of a request, what it counts *)
(* of GetStatus, and what a GetCacheStatistics request reads of that and   *)
(* of the counters of Cache while other threads count.                     *)
(*                                                                         *)
(* A request is what its document says of the fields HandleRequest and     *)
(* GetStatus look at.  Of the four timings, written and read under one     *)
(* lock, there is the number of calls: no control depends on how long one  *)
(* took.  The layout of an answer is left out: an answer is its kind and,  *)
(* for the statistics, the numbers in it.                                  *)
(***************************************************************************)
EXTENDS CacheStatistics, Sequences

CONSTANT Broken  \* repositories whose status cannot be retrieved

ASSUME StatisticsAssumption == Broken \subseteq Repos

VARIABLES
  calls,            \* m_totalGetStatusCalls, with the timings it stands for
  request,          \* what each request thread does in HandleRequest
  requestShutdown,  \* m_requestShutdown is set
  progress,         \* members read so far by the statistics request
  report,           \* what it read
  answered,         \* history: GetStatus requests that have been answered
  answeredBefore    \* history: the same when the statistics request began

controllerVars == <<calls, request, requestShutdown, progress, report, answered,
                    answeredBefore>>
vars == <<cacheVars, started, controllerVars>>

\* What a request may say.  "missing" includes a field of the wrong type.
Document == [json : BOOLEAN, version : {"missing", "other", "one"},
             action : {"missing", "unrecognized", "GetStatus", "GetCacheStatistics", "Shutdown"},
             path : {"missing", "outside"} \cup Repos]

\* The requests that are made: every combination of flaws, with each action and, where
\* it is looked at, each kind of path.  What does not parse has no members.
Documents ==
  {d \in Document :
    /\ d.action # "GetStatus" => d.path = "missing"
    /\ ~d.json => d.version = "missing" /\ d.action = "missing"}

\* Mutant: the version is not compared.
AcceptsAnyVersion(d) == d.json /\ d.version # "missing" /\ d.action # "missing"

\* The checks of HandleRequest before it looks at the action.
Accepts(d) == d.json /\ d.version = "one" /\ d.action # "missing"

IsGetStatus(d) == Accepts(d) /\ d.action = "GetStatus"

Recognizes(d) == d.action \in {"GetStatus", "GetCacheStatistics", "Shutdown"}

\* Mutant: the totals are read first.
CountersTotalFirst == <<"hits", "misses", "totalPrimes", "effectivePrimes",
                        "totalInvalidations", "effectiveInvalidations", "invalidateAlls">>

\* The order in which GetCacheStatistics reads the counters.
Counters == <<"hits", "misses", "effectivePrimes", "totalPrimes",
              "effectiveInvalidations", "totalInvalidations", "invalidateAlls">>

At(stage, document, answer) == [stage |-> stage, document |-> document, answer |-> answer]

TypeOK ==
  /\ CacheTypeOK
  /\ calls \in Nat
  /\ request \in [Requests -> {Idle} \cup
       [stage : {"find", "cache", "record", "statistics", "answered"}, document : Document,
        answer : {"none", "error", "status", "statistics", "shuttingDown"}]]
  /\ requestShutdown \in BOOLEAN
  /\ progress \in 0..Len(Counters) + 1
  /\ report \in [counters : [CounterNames -> Nat], calls : Nat]
  /\ answered \in Nat
  /\ answeredBefore \in Nat

Init ==
  /\ CacheInit
  /\ calls = 0
  /\ request = [t \in Requests |-> Idle]
  /\ requestShutdown = FALSE
  /\ progress = 0
  /\ report = [counters |-> [c \in CounterNames |-> 0], calls |-> 0]
  /\ answered = 0
  /\ answeredBefore = 0

-----------------------------------------------------------------------------
(* HandleRequest.                                                          *)

Take(t) == request[t] = Idle /\ Begin
Answer(t, d, answer) == request' = [request EXCEPT ![t] = At("answered", d, answer)]

\* One of the checks fails, or the action is none of the three.
Refuse(t, d) ==
  /\ Take(t)
  /\ ~Accepts(d) \/ ~Recognizes(d)
  /\ Answer(t, d, "error")
  /\ UNCHANGED <<cacheVars, calls, requestShutdown, progress, report, answered, answeredBefore>>

BeginGetStatus(t, d) ==
  /\ Take(t)
  /\ Accepts(d) /\ d.action = "GetStatus"
  /\ request' = [request EXCEPT ![t] = At("find", d, "none")]
  /\ UNCHANGED <<cacheVars, calls, requestShutdown, progress, report, answered, answeredBefore>>

\* Two statistics requests at a time only read: one is enough.
BeginGetCacheStatistics(t, d) ==
  /\ Take(t)
  /\ Accepts(d) /\ d.action = "GetCacheStatistics"
  /\ progress = 0
  /\ \A u \in Requests : request[u].stage # "statistics"
  /\ request' = [request EXCEPT ![t] = At("statistics", d, "none")]
  /\ answeredBefore' = answered
  /\ UNCHANGED <<cacheVars, calls, requestShutdown, progress, report, answered>>

\* SetEvent, then the answer.
Shutdown(t, d) ==
  /\ Take(t)
  /\ Accepts(d) /\ d.action = "Shutdown"
  /\ requestShutdown' = TRUE
  /\ Answer(t, d, "shuttingDown")
  /\ UNCHANGED <<cacheVars, calls, progress, report, answered, answeredBefore>>

\* The answer has left HandleRequest, and the thread reads its next request.
Respond(t) ==
  /\ request[t].stage = "answered"
  /\ request' = [request EXCEPT ![t] = Idle]
  /\ answered' = IF IsGetStatus(request[t].document) THEN answered + 1 ELSE answered
  /\ UNCHANGED <<cacheVars, started, calls, requestShutdown, progress, report, answeredBefore>>

-----------------------------------------------------------------------------
(* GetStatus.                                                              *)

GoTo(t, stage, answer) ==
  request' = [request EXCEPT ![t] = [@ EXCEPT !.stage = stage, !.answer = answer]]

\* No path in the request, or no repository there: the cache is not asked.
NoRepository(t) ==
  /\ request[t].stage = "find"
  /\ request[t].document.path \notin Repos
  /\ GoTo(t, "record", "error")
  /\ UNCHANGED <<cacheVars, started, calls, requestShutdown, progress, report,
                 answered, answeredBefore>>

DiscoverRepository(t) ==
  /\ request[t].stage = "find"
  /\ request[t].document.path \in Repos
  /\ Lookup(t, request[t].document.path)
  /\ GoTo(t, "cache", "none")
  /\ UNCHANGED <<calls, requestShutdown, progress, report, answered, answeredBefore>>

\* The cache has answered, with a status or with a failure.
GetStatus(t) ==
  /\ request[t].stage = "cache"
  /\ call[t] = Returned
  /\ call' = [call EXCEPT ![t] = Idle]
  /\ GoTo(t, "record", IF request[t].document.path \in Broken THEN "error" ELSE "status")
  /\ UNCHANGED <<cached, count, primer, notifier, started, calls, requestShutdown,
                 progress, report, answered, answeredBefore>>

\* Mutant: a GetStatus that ended in an error is not recorded.
RecordSuccessTime(t) ==
  /\ request[t].stage = "record"
  /\ calls' = IF request[t].answer = "error" THEN calls ELSE calls + 1
  /\ GoTo(t, "answered", request[t].answer)
  /\ UNCHANGED <<cacheVars, started, requestShutdown, progress, report, answered, answeredBefore>>

\* Under the write lock, whatever GetStatus returned.
RecordGetStatusTime(t) ==
  /\ request[t].stage = "record"
  /\ calls' = calls + 1
  /\ GoTo(t, "answered", request[t].answer)
  /\ UNCHANGED <<cacheVars, started, requestShutdown, progress, report, answered, answeredBefore>>

-----------------------------------------------------------------------------
(* GetCacheStatistics: the seven counters, then the timings under the lock. *)

Reads(t) == request[t].stage = "statistics"

ReadCounter(t) ==
  /\ Reads(t)
  /\ progress < Len(Counters)
  /\ LET c == Counters[progress + 1]
     IN  report' = [report EXCEPT !.counters[c] = count[c]]
  /\ progress' = progress + 1
  /\ UNCHANGED <<cacheVars, started, calls, request, requestShutdown, answered, answeredBefore>>

ReadTimings(t) ==
  /\ Reads(t)
  /\ progress = Len(Counters)
  /\ report' = [report EXCEPT !.calls = calls]
  /\ progress' = progress + 1
  /\ UNCHANGED <<cacheVars, started, calls, request, requestShutdown, answered, answeredBefore>>

\* The answer is composed of what was read.
GetCacheStatistics(t) ==
  /\ Reads(t)
  /\ progress = Len(Counters) + 1
  /\ progress' = 0
  /\ GoTo(t, "answered", "statistics")
  /\ UNCHANGED <<cacheVars, started, calls, requestShutdown, report, answered, answeredBefore>>

-----------------------------------------------------------------------------

HandleRequest(t) ==
  \/ \E d \in Documents :
       Refuse(t, d) \/ BeginGetStatus(t, d) \/ BeginGetCacheStatistics(t, d) \/ Shutdown(t, d)
  \/ NoRepository(t) \/ DiscoverRepository(t) \/ GetStatus(t)
  \/ RecordGetStatusTime(t) \/ ReadCounter(t) \/ ReadTimings(t) \/ GetCacheStatistics(t)
  \/ Respond(t)

Next ==
  \/ \E t \in Requests : HandleRequest(t)
  \/ CacheStep /\ UNCHANGED controllerVars

Spec == Init /\ [][Next]_vars

-----------------------------------------------------------------------------

(***************************************************************************)
(* However the counting threads and the reading one interleave, a response *)
(* never shows more effective than total primes or invalidations: the      *)
(* total is incremented before and read after (Cache.cpp:43,51,65,83 and   *)
(* 104-107).                                                               *)
(***************************************************************************)
EffectiveWithinTotal ==
  LET s == report.counters
  IN  /\ progress >= 4 => s.effectivePrimes <= s.totalPrimes
      /\ progress >= 6 => s.effectiveInvalidations <= s.totalInvalidations

(***************************************************************************)
(* The hits and misses of a response are those of its GetStatus requests:  *)
(* beyond the requests it reports there can only be the ones the other     *)
(* threads were in while it was read, although the two are read at         *)
(* different times and counted by different classes.  (In the sample       *)
(* response of README.md:83-88, 383 + 156 <= 541.)                         *)
(***************************************************************************)
LookupsAreRequests ==
  progress > Len(Counters) =>
    report.counters.hits + report.counters.misses
      <= report.calls + Cardinality(Requests) - 1

(***************************************************************************)
(* A client that was answered before the statistics were asked for finds   *)
(* its GetStatus among the requests they report, whether it got a status   *)
(* or an error: the time is recorded before HandleRequest returns          *)
(* (StatusController.cpp:280-282).                                         *)
(***************************************************************************)
AnsweredIsReported ==
  progress > Len(Counters) => answeredBefore <= report.calls

Serviceable(d) ==
  /\ d.json /\ d.version = "one"
  /\ \/ d.action = "GetStatus" /\ d.path \in Repos \ Broken
     \/ d.action \in {"GetCacheStatistics", "Shutdown"}

AnswerTo == [GetStatus |-> "status", GetCacheStatistics |-> "statistics",
             Shutdown |-> "shuttingDown"]

(***************************************************************************)
(* Only a well-formed request of version 1 is acted upon, and an answer is *)
(* an error exactly when the request or its repository deserves one.       *)
(* Shutdown is announced only when it has been signalled.                  *)
(***************************************************************************)
AnswerIsDeserved ==
  \A t \in Requests :
    request[t].stage = "answered" =>
      /\ request[t].answer = IF Serviceable(request[t].document)
                             THEN AnswerTo[request[t].document.action] ELSE "error"
      /\ request[t].answer = "shuttingDown" => requestShutdown
=============================================================================
