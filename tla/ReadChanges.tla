----------------------------- MODULE ReadChanges -----------------------------
(***************************************************************************)
(* The worker thread of ReadDirectoryChanges: how it is started, what it   *)
(* does with the asynchronous procedure calls (APCs) that come to it, and  *)
(* how it is stopped.                                                      *)
(*                                                                         *)
(* AddDirectory (CReadDirectoryChanges) runs in request threads: it starts *)
(* the worker if there is none and queues an APC to it.  In the worker the *)
(* APC opens the directory and begins a read, and each completed read      *)
(* comes back as another APC.  Terminate queues the APC that cancels all   *)
(* reads, and waits for the worker for ten seconds, whatever it does.      *)
(* Then the server is deleted: a worker that still runs has nothing valid  *)
(* to work with, and the model ends there.                                 *)
(*                                                                         *)
(* APCs run in the order they were queued, all of them before SleepEx      *)
(* returns.  What the notifications say is the subject of StatusCache.     *)
(***************************************************************************)
EXTENDS Naturals, Sequences, SequencesExt, FiniteSets

CONSTANTS Directories,   \* each is added once, by a thread of its own
          Workers,       \* bound on the worker threads that can be started
          Unreliable,    \* directories that cannot be opened, or whose read may fail
          NoWorker

ASSUME WorkersAssumption ==
  /\ NoWorker \notin Workers
  /\ IsFiniteSet(Directories)

VARIABLES
  hThread,       \* m_hThread
  worker,        \* where each worker is in Run
  apcs,          \* the APCs queued to it
  add,           \* progress of each call of AddDirectory
  request,       \* the CReadChangesRequest of each directory
  handle,        \* its m_hDirectory
  reader,        \* the worker whose ReadDirectoryChangesW is pending for it
  outstanding,   \* m_nOutstandingRequests
  blocks,        \* m_pBlocks
  terminating,   \* m_bTerminate
  main           \* the thread in ~CReadDirectoryChanges: the server is "deleted" when
                 \* the worker has ended or none was started, or when it "timedOut"

vars == <<hThread, worker, apcs, add, request, handle, reader, outstanding, blocks,
          terminating, main>>

requestVars == <<request, handle, reader, outstanding, blocks>>

APC == [kind : {"add", "complete", "failed", "aborted"}, directory : Directories]
       \cup {[kind |-> "terminate"]}

TypeOK ==
  /\ hThread \in Workers \cup {NoWorker}
  /\ worker \in [Workers -> {"none", "check", "asleep", "awake", "ended"}]
  /\ apcs \in [Workers -> Seq(APC)]
  /\ add \in [Directories -> {"none", "init", "queue", "done"}]
  /\ request \in [Directories -> {"none", "queued", "opened", "deleted"}]
  /\ handle \in [Directories -> {"none", "open", "closed"}]
  /\ reader \in [Directories -> Workers \cup {NoWorker}]
  /\ outstanding \in Nat
  /\ blocks \in SUBSET Directories
  /\ terminating \in BOOLEAN
  /\ main \in {"running", "waiting", "deleted", "timedOut"}

Init ==
  /\ hThread = NoWorker
  /\ worker = [w \in Workers |-> "none"]
  /\ apcs = [w \in Workers |-> <<>>]
  /\ add = [d \in Directories |-> "none"]
  /\ request = [d \in Directories |-> "none"]
  /\ handle = [d \in Directories |-> "none"]
  /\ reader = [d \in Directories |-> NoWorker]
  /\ outstanding = 0
  /\ blocks = {}
  /\ terminating = FALSE
  /\ main = "running"

Queue(w, apc) == [apcs EXCEPT ![w] = Append(@, apc)]

-----------------------------------------------------------------------------
(* CReadDirectoryChanges::AddDirectory, in a request thread.               *)

\* `if (!m_hThread)`
CheckThread(d) ==
  /\ add[d] = "none"
  /\ main = "running"
  /\ add' = [add EXCEPT ![d] = IF hThread = NoWorker THEN "init" ELSE "queue"]
  /\ UNCHANGED <<hThread, worker, apcs, requestVars, terminating, main>>

\* Init: _beginthreadex, whatever m_hThread is by now.
InitThread(d, w) ==
  /\ add[d] = "init"
  /\ worker[w] = "none"
  /\ worker' = [worker EXCEPT ![w] = "check"]
  /\ hThread' = w
  /\ add' = [add EXCEPT ![d] = "queue"]
  /\ UNCHANGED <<apcs, requestVars, terminating, main>>

QueueAddDirectory(d) ==
  /\ add[d] = "queue"
  /\ apcs' = Queue(hThread, [kind |-> "add", directory |-> d])
  /\ request' = [request EXCEPT ![d] = "queued"]
  /\ add' = [add EXCEPT ![d] = "done"]
  /\ UNCHANGED <<hThread, worker, handle, reader, outstanding, blocks, terminating, main>>

-----------------------------------------------------------------------------
(* The worker thread, CReadChangesServer::Run.                             *)

Run(w) ==
  /\ worker[w] = "check"
  /\ worker' = [worker EXCEPT ![w] = IF outstanding > 0 \/ ~terminating THEN "asleep" ELSE "ended"]
  /\ UNCHANGED <<hThread, apcs, add, requestVars, terminating, main>>

SleepReturns(w) ==
  /\ worker[w] = "awake"
  /\ apcs[w] = <<>>
  /\ worker' = [worker EXCEPT ![w] = "check"]
  /\ UNCHANGED <<hThread, apcs, add, requestVars, terminating, main>>

\* The next APC of w is apc, and SleepEx runs it.
Runs(w, apc) ==
  /\ worker[w] \in {"asleep", "awake"}
  /\ apcs[w] # <<>>
  /\ apc = Head(apcs[w])
  /\ worker' = [worker EXCEPT ![w] = "awake"]

Dequeue(w) == apcs' = [apcs EXCEPT ![w] = Tail(@)]

\* BeginRead does not look at its result: with no handle no read is pending.
BeginRead(w, d) ==
  reader' = [reader EXCEPT ![d] = IF handle'[d] = "open" THEN w ELSE NoWorker]

\* Mutant: the opened directory is not counted.
AddUncounted(w, d) ==
  /\ Runs(w, [kind |-> "add", directory |-> d])
  /\ Dequeue(w)
  /\ blocks' = blocks \cup {d}
  /\ request' = [request EXCEPT ![d] = "opened"]
  /\ handle' = [handle EXCEPT ![d] = "open"]
  /\ BeginRead(w, d)
  /\ UNCHANGED <<hThread, add, outstanding, terminating, main>>

\* AddDirectory of the server: OpenDirectory, then the first read.
AddDirectory(w, d) ==
  /\ Runs(w, [kind |-> "add", directory |-> d])
  /\ Dequeue(w)
  /\ \/ /\ outstanding' = outstanding + 1
        /\ blocks' = blocks \cup {d}
        /\ request' = [request EXCEPT ![d] = "opened"]
        /\ handle' = [handle EXCEPT ![d] = "open"]
        /\ BeginRead(w, d)
     \/ /\ d \in Unreliable
        /\ request' = [request EXCEPT ![d] = "deleted"]
        /\ UNCHANGED <<handle, reader, outstanding, blocks>>
  /\ UNCHANGED <<hThread, add, terminating, main>>

\* Mutant: the next read is left to be issued by somebody else.
CompletionWithoutRead(w, d) ==
  /\ Runs(w, [kind |-> "complete", directory |-> d])
  /\ Dequeue(w)
  /\ UNCHANGED <<hThread, add, requestVars, terminating, main>>

\* NotificationCompletion of a read that succeeded: the next read is issued at once.
\* (With no bytes events were lost; that too is followed by a read.)
NotificationCompletion(w, d) ==
  /\ Runs(w, [kind |-> "complete", directory |-> d])
  /\ Dequeue(w)
  /\ UNCHANGED handle
  /\ BeginRead(w, d)
  /\ UNCHANGED <<hThread, add, request, outstanding, blocks, terminating, main>>

\* NotificationCompletion of any other error returns: no read, nothing is deleted.
CompletionFailed(w, d) ==
  /\ Runs(w, [kind |-> "failed", directory |-> d])
  /\ Dequeue(w)
  /\ UNCHANGED <<hThread, add, requestVars, terminating, main>>

\* Mutant: the request is deleted and not counted off.
AbortedStillCounted(w, d) ==
  /\ Runs(w, [kind |-> "aborted", directory |-> d])
  /\ Dequeue(w)
  /\ request' = [request EXCEPT ![d] = "deleted"]
  /\ UNCHANGED <<hThread, add, handle, reader, outstanding, blocks, terminating, main>>

\* NotificationCompletion with ERROR_OPERATION_ABORTED: the request deletes itself.
CompletionAborted(w, d) ==
  /\ Runs(w, [kind |-> "aborted", directory |-> d])
  /\ Dequeue(w)
  /\ outstanding' = outstanding - 1
  /\ request' = [request EXCEPT ![d] = "deleted"]
  /\ UNCHANGED <<hThread, add, handle, reader, blocks, terminating, main>>

Cancelled(w) == {d \in blocks : reader[d] = w}

\* Mutant: the reads are cancelled and the handles left open.
TerminationWithoutClose(w) ==
  /\ Runs(w, [kind |-> "terminate"])
  /\ terminating' = TRUE
  /\ reader' = [d \in Directories |-> IF d \in Cancelled(w) THEN NoWorker ELSE reader[d]]
  /\ \E order \in SetToSeqs(Cancelled(w)) :
       apcs' = [apcs EXCEPT ![w] =
                  Tail(@) \o [i \in DOMAIN order |-> [kind |-> "aborted", directory |-> order[i]]]]
  /\ blocks' = {}
  /\ UNCHANGED <<hThread, add, request, handle, outstanding, main>>

\* RequestTermination: CancelIo ends the reads that this thread has pending, and
\* their completions are queued to it.
RequestTermination(w) ==
  /\ Runs(w, [kind |-> "terminate"])
  /\ terminating' = TRUE
  /\ handle' = [d \in Directories |-> IF d \in blocks THEN "closed" ELSE handle[d]]
  /\ reader' = [d \in Directories |-> IF d \in Cancelled(w) THEN NoWorker ELSE reader[d]]
  /\ \E order \in SetToSeqs(Cancelled(w)) :
       apcs' = [apcs EXCEPT ![w] =
                  Tail(@) \o [i \in DOMAIN order |-> [kind |-> "aborted", directory |-> order[i]]]]
  /\ blocks' = {}
  /\ UNCHANGED <<hThread, add, request, outstanding, main>>

\* Windows: a read completes and its completion is queued to the thread that issued it.
ReadCompletes(d) ==
  /\ reader[d] # NoWorker
  /\ \E kind \in {"complete"} \cup (IF d \in Unreliable THEN {"failed"} ELSE {}) :
       apcs' = Queue(reader[d], [kind |-> kind, directory |-> d])
  /\ reader' = [reader EXCEPT ![d] = NoWorker]
  /\ UNCHANGED <<hThread, worker, add, request, handle, outstanding, blocks, terminating, main>>

-----------------------------------------------------------------------------
(* Terminate, and the destructor that deletes the server after it, when no *)
(* request thread is left.                                                 *)

Terminate ==
  /\ main = "running"
  /\ \A d \in Directories : add[d] \in {"none", "done"}
  /\ IF hThread = NoWorker
     THEN main' = "deleted" /\ UNCHANGED apcs
     ELSE main' = "waiting" /\ apcs' = Queue(hThread, [kind |-> "terminate"])
  /\ UNCHANGED <<hThread, worker, add, requestVars, terminating>>

WorkerEnded ==
  /\ main = "waiting"
  /\ worker[hThread] = "ended"
  /\ main' = "deleted"
  /\ UNCHANGED <<hThread, worker, apcs, add, requestVars, terminating>>

\* The ten seconds may run out wherever the worker is.
WaitTimesOut ==
  /\ main = "waiting"
  /\ main' = "timedOut"
  /\ UNCHANGED <<hThread, worker, apcs, add, requestVars, terminating>>

-----------------------------------------------------------------------------
WorkerStep(w) ==
  \/ Run(w) \/ SleepReturns(w)
  \/ \E d \in Directories :
       \/ AddDirectory(w, d) \/ NotificationCompletion(w, d)
       \/ CompletionFailed(w, d) \/ CompletionAborted(w, d)
  \/ RequestTermination(w)

ServerExists == main \in {"running", "waiting"}

Next ==
  /\ ServerExists
  /\ \/ \E d \in Directories :
          \/ CheckThread(d) \/ QueueAddDirectory(d) \/ ReadCompletes(d)
          \/ \E w \in Workers : InitThread(d, w)
     \/ \E w \in Workers : WorkerStep(w)
     \/ Terminate \/ WorkerEnded \/ WaitTimesOut

Spec == Init /\ [][Next]_vars

\* The worker is scheduled, and a wait ends with its object.  Nothing makes reads
\* complete, the destructor begin or its ten seconds run out.
FairSpec ==
  /\ Spec
  /\ \A w \in Workers : WF_vars(ServerExists /\ WorkerStep(w))
  /\ WF_vars(WorkerEnded)

-----------------------------------------------------------------------------

(***************************************************************************)
(* An open directory never goes deaf while the server runs: a read of it   *)
(* is pending or its completion, which issues the next one, is on its way. *)
(* (Unreliable directories excepted: a failed read is not issued again.)   *)
(***************************************************************************)
Completing(d) ==
  \E w \in Workers : [kind |-> "complete", directory |-> d] \in Range(apcs[w])

OpenIsRead ==
  \A d \in Directories \ Unreliable :
    handle[d] = "open" => reader[d] # NoWorker \/ Completing(d)

(***************************************************************************)
(* The count that keeps the worker in its loop is the number of requests   *)
(* that have been opened and have not deleted themselves.                  *)
(***************************************************************************)
OutstandingCounts ==
  outstanding = Cardinality({d \in Directories : request[d] = "opened"})

(***************************************************************************)
(* Once the worker that Terminate knows has run the termination it reads   *)
(* no more, although completions that were queued behind or before it are  *)
(* still to come and read again (ReadDirectoryChangesPrivate.cpp:151), and *)
(* other workers may open directories.  So when the server is deleted      *)
(* because this worker ended, nothing is left of it that would use the     *)
(* server.                                                                 *)
(***************************************************************************)
TerminatedIsQuiet ==
  /\ terminating => \A d \in Directories : reader[d] # hThread
  /\ main = "deleted" /\ hThread # NoWorker => apcs[hThread] = <<>>

(***************************************************************************)
(* If every read was still pending when the termination came, and so was   *)
(* cancelled, and no other worker has a directory to open, the worker      *)
(* leaves its loop, unless the ten seconds are over before.                *)
(***************************************************************************)
CancelledIsEnded ==
  \A w \in Workers :
    (/\ terminating /\ hThread = w
     /\ \A d \in Directories :
          \/ request[d] \in {"none", "deleted"}
          \/ request[d] = "opened" /\ [kind |-> "aborted", directory |-> d] \in Range(apcs[w]))
      ~> worker[w] = "ended" \/ main = "timedOut"

(***************************************************************************)
(* "All functions in CReadChangesServer run in the context of the worker   *)
(* thread." (ReadDirectoryChangesPrivate.h:107): there is one.  Does not   *)
(* hold.                                                                   *)
(***************************************************************************)
OneWorker == Cardinality({w \in Workers : worker[w] # "none"}) <= 1

(***************************************************************************)
(* "Each Request object will delete itself."                               *)
(* (ReadDirectoryChangesPrivate.h:172), once termination has been          *)
(* requested and is given the time it takes.  Does not hold.               *)
(***************************************************************************)
RequestsDeleteThemselves ==
  terminating ~> main = "timedOut" \/ \A d \in Directories : request[d] # "opened"

(***************************************************************************)
(* "This class is responsible for thread startup, orderly thread shutdown" *)
(* (ReadDirectoryChangesPrivate.h:109): when the server and the queue      *)
(* behind it are deleted, nothing is left that could use them.  Does not   *)
(* hold: Terminate goes on after ten seconds, and may know of one worker   *)
(* only of two.                                                            *)
(***************************************************************************)
DeletedIsQuiet ==
  ~ServerExists =>
    /\ \A w \in Workers : apcs[w] = <<>> /\ worker[w] \in {"none", "asleep", "ended"}
    /\ \A d \in Directories : reader[d] = NoWorker
=============================================================================
