------------------------------ MODULE NamedPipe ------------------------------
(***************************************************************************)
(* NamedPipeServer, its NamedPipeInstances and the main thread that waits  *)
(* for a shutdown request and then destroys them (Main.cpp).               *)
(*                                                                         *)
(* The server thread creates a pipe instance, waits inside                 *)
(* ConnectNamedPipe for a client and gives the instance a thread, which    *)
(* reads a request, has StatusController handle it and writes the response *)
(* until the client leaves.  Blocking calls are ended from other threads   *)
(* by CancelSynchronousIo, which does nothing to a thread that is not      *)
(* inside one: so "about to call" and "blocked in the call" differ.        *)
(*                                                                         *)
(* A client has one request or one response in its pipe at a time.  A long *)
(* response does not fit the pipe's buffer: WriteFile blocks until it is   *)
(* read, and a WriteFile that is cancelled takes it back.  An Instance is  *)
(* the memory of a NamedPipeInstance, reused when destroyed.               *)
(***************************************************************************)
CONSTANTS Clients,
          Instances,     \* bound on the instances that exist at a time
          NoClient, NoInstance

ASSUME PipeAssumption == NoClient \notin Clients /\ NoInstance \notin Instances

VARIABLES
  main,           \* wWinMain, then ~NamedPipeServer
  requestShutdown,  \* m_requestShutdown is set
  server,         \* the server thread
  current,        \* its local `pipe`; in the destructor, the instance being destroyed
  pipeInstances,  \* m_pipeInstances
  pipe,           \* each instance's end of the pipe
  peer,           \* the client at the other end
  message,        \* what is in the pipe, or was read from it and is not answered
  thread,         \* each instance's thread
  isClosed,       \* m_isClosed
  terminated      \* an exception left a thread: std::terminate

vars == <<main, requestShutdown, server, current, pipeInstances, pipe, peer,
          message, thread, isClosed, terminated>>

mainVars == <<main, requestShutdown>>
serverVars == <<server, current, pipeInstances>>
pipeVars == <<pipe, peer, message>>
threadVars == <<thread, isClosed>>

Requests == {"query", "shutdown"}

\* What a client may send; "tooLong" is more than the BufferSize that is read.
Kinds == Requests \cup {"tooLong"}

TypeOK ==
  /\ main \in {"wait", "cancelServer", "joinServer", "destroy", "joinInstance", "exited"}
  /\ requestShutdown \in BOOLEAN
  /\ server \in {"remove", "create", "connect", "listening", "aborted", "stopped"}
  /\ current \in Instances \cup {NoInstance}
  /\ pipeInstances \in SUBSET Instances
  /\ pipe \in [Instances -> {"none", "open", "connected", "left", "closed"}]
  /\ peer \in [Instances -> Clients \cup {NoClient}]
  /\ message \in [Instances -> {"none", "response", "long"} \cup Kinds]
  /\ thread \in [Instances -> {"none", "read", "reading", "handle", "write", "writing",
                               "flush", "disconnect", "closed", "ended"}]
  /\ isClosed \in [Instances -> BOOLEAN]
  /\ terminated \in BOOLEAN

Init ==
  /\ main = "wait"
  /\ requestShutdown = FALSE
  /\ server = "remove"
  /\ current = NoInstance
  /\ pipeInstances = {}
  /\ pipe = [i \in Instances |-> "none"]
  /\ peer = [i \in Instances |-> NoClient]
  /\ message = [i \in Instances |-> "none"]
  /\ thread = [i \in Instances |-> "none"]
  /\ isClosed = [i \in Instances |-> FALSE]
  /\ terminated = FALSE

\* The memory of the instances in S is given back.
Free(S) ==
  /\ pipe' = [i \in Instances |-> IF i \in S THEN "none" ELSE pipe[i]]
  /\ peer' = [i \in Instances |-> IF i \in S THEN NoClient ELSE peer[i]]
  /\ message' = [i \in Instances |-> IF i \in S THEN "none" ELSE message[i]]
  /\ thread' = [i \in Instances |-> IF i \in S THEN "none" ELSE thread[i]]
  /\ isClosed' = [i \in Instances |-> IF i \in S THEN FALSE ELSE isClosed[i]]
  /\ pipeInstances' = pipeInstances \ S

Closed == {i \in pipeInstances : isClosed[i]}

-----------------------------------------------------------------------------
(* The server thread, WaitForClientRequest.                                *)

\* ~NamedPipeInstance joins the thread of each instance that is removed.
RemoveClosedPipeInstances ==
  /\ server = "remove"
  /\ \A i \in Closed : thread[i] = "ended"
  /\ Free(Closed)
  /\ server' = "create"
  /\ UNCHANGED <<mainVars, current, terminated>>

CreatePipe(i) ==
  /\ server = "create"
  /\ pipe[i] = "none"
  /\ pipe' = [pipe EXCEPT ![i] = "open"]
  /\ current' = i
  /\ server' = "connect"
  /\ UNCHANGED <<mainVars, pipeInstances, peer, message, threadVars, terminated>>

\* CreateNamedPipe fails, and the exception leaves the server thread.
CreateFails ==
  /\ server = "create"
  /\ terminated' = TRUE
  /\ UNCHANGED <<mainVars, serverVars, pipeVars, threadVars>>

\* ConnectNamedPipe blocks while there is no client.
Connect ==
  /\ server = "connect"
  /\ pipe[current] = "open"
  /\ server' = "listening"
  /\ UNCHANGED <<mainVars, current, pipeInstances, pipeVars, threadVars, terminated>>

\* Mutant: one client is served and no further instance created.
ConnectedLast ==
  /\ \/ server = "connect" /\ pipe[current] = "connected"
     \/ server = "listening" /\ pipe[current] \in {"connected", "left"}
  /\ thread' = [thread EXCEPT ![current] = "read"]
  /\ pipeInstances' = pipeInstances \cup {current}
  /\ current' = NoInstance
  /\ server' = "stopped"
  /\ UNCHANGED <<mainVars, pipeVars, isClosed, terminated>>

\* A client came, before the call or during it: the instance gets its thread and is
\* moved to m_pipeInstances.
Connected ==
  /\ \/ server = "connect" /\ pipe[current] = "connected"
     \/ server = "listening" /\ pipe[current] \in {"connected", "left"}
  /\ thread' = [thread EXCEPT ![current] = "read"]
  /\ pipeInstances' = pipeInstances \cup {current}
  /\ current' = NoInstance
  /\ server' = "remove"
  /\ UNCHANGED <<mainVars, pipeVars, isClosed, terminated>>

\* The client came and left before the call: neither a success nor
\* ERROR_OPERATION_ABORTED, and the exception leaves the server thread.
ConnectFails ==
  /\ server = "connect"
  /\ pipe[current] = "left"
  /\ terminated' = TRUE
  /\ UNCHANGED <<mainVars, serverVars, pipeVars, threadVars>>

\* Mutants: the local pointer is stored after it was given away; an aborted wait is
\* followed by another one.
AbortedMovedFrom ==
  /\ server = "aborted"
  /\ pipeInstances' = pipeInstances \cup {NoInstance}
  /\ current' = NoInstance
  /\ server' = "stopped"
  /\ UNCHANGED <<mainVars, pipeVars, threadVars, terminated>>

AbortedGoesOn ==
  /\ server = "aborted"
  /\ pipeInstances' = pipeInstances \cup {current}
  /\ current' = NoInstance
  /\ server' = "remove"
  /\ UNCHANGED <<mainVars, pipeVars, threadVars, terminated>>

\* ERROR_OPERATION_ABORTED: the instance, without a thread, joins the others and the
\* server thread ends.
Aborted ==
  /\ server = "aborted"
  /\ pipeInstances' = pipeInstances \cup {current}
  /\ current' = NoInstance
  /\ server' = "stopped"
  /\ UNCHANGED <<mainVars, pipeVars, threadVars, terminated>>

ServerStep ==
  \/ RemoveClosedPipeInstances \/ (\E i \in Instances : CreatePipe(i)) \/ CreateFails
  \/ Connect \/ Connected \/ ConnectFails \/ Aborted

-----------------------------------------------------------------------------
(* The thread of an instance, OnClientRequest.                             *)

Continue(i, stage) == thread' = [thread EXCEPT ![i] = stage]

\* ReadFile finds a request, blocks, or reports ERROR_BROKEN_PIPE.
ReadRequest(i) ==
  /\ thread[i] \in {"read", "reading"}
  /\ \/ message[i] \in Requests /\ Continue(i, "handle")
     \/ /\ message[i] \notin Kinds
        /\ pipe[i] = "connected"
        /\ thread[i] = "read"
        /\ Continue(i, "reading")
     \/ message[i] \notin Kinds /\ pipe[i] = "left" /\ Continue(i, "flush")
  /\ UNCHANGED <<mainVars, serverVars, pipeVars, isClosed, terminated>>

\* Any other error, here ERROR_MORE_DATA, ends the process.
ReadFails(i) ==
  /\ thread[i] \in {"read", "reading"}
  /\ message[i] = "tooLong"
  /\ terminated' = TRUE
  /\ UNCHANGED <<mainVars, serverVars, pipeVars, threadVars>>

\* StatusController::HandleRequest; Shutdown sets the event before it returns.
HandleRequest(i) ==
  /\ thread[i] = "handle"
  /\ requestShutdown' = (requestShutdown \/ message[i] = "shutdown")
  /\ Continue(i, "write")
  /\ UNCHANGED <<main, serverVars, pipeVars, isClosed, terminated>>

\* WriteFile; a long response, never that of a Shutdown, blocks the thread.
WriteResponse(i) ==
  /\ thread[i] = "write"
  /\ pipe[i] = "connected"
  /\ \/ message' = [message EXCEPT ![i] = "response"] /\ Continue(i, "read")
     \/ /\ message[i] = "query"
        /\ message' = [message EXCEPT ![i] = "long"]
        /\ Continue(i, "writing")
  /\ UNCHANGED <<mainVars, serverVars, pipe, peer, isClosed, terminated>>

\* The client has gone: ERROR_BROKEN_PIPE ends the loop, any other error ends the
\* process.
WriteFails(i) ==
  /\ thread[i] \in {"write", "writing"}
  /\ pipe[i] = "left"
  /\ \/ Continue(i, "flush") /\ UNCHANGED terminated
     \/ terminated' = TRUE /\ UNCHANGED thread
  /\ UNCHANGED <<mainVars, serverVars, pipeVars, isClosed>>

\* The client has read the long response.
WriteEnds(i) ==
  /\ thread[i] = "writing"
  /\ pipe[i] = "connected"
  /\ message[i] # "long"
  /\ Continue(i, "read")
  /\ UNCHANGED <<mainVars, serverVars, pipeVars, isClosed, terminated>>

\* Mutant: the pipe is read until the client has gone.
FlushUntilClientLeaves(i) ==
  /\ thread[i] = "flush"
  /\ pipe[i] = "left"
  /\ Continue(i, "disconnect")
  /\ UNCHANGED <<mainVars, serverVars, pipeVars, isClosed, terminated>>

\* FlushFileBuffers waits until the client has read everything, or has gone.
FlushFileBuffers(i) ==
  /\ thread[i] = "flush"
  /\ message[i] # "response" \/ pipe[i] = "left"
  /\ Continue(i, "disconnect")
  /\ UNCHANGED <<mainVars, serverVars, pipeVars, isClosed, terminated>>

Disconnect(i) ==
  /\ thread[i] = "disconnect"
  /\ pipe' = [pipe EXCEPT ![i] = "closed"]
  /\ peer' = [peer EXCEPT ![i] = NoClient]
  /\ message' = [message EXCEPT ![i] = "none"]
  /\ Continue(i, "closed")
  /\ isClosed' = [isClosed EXCEPT ![i] = TRUE]
  /\ UNCHANGED <<mainVars, serverVars, terminated>>

EndThread(i) ==
  /\ thread[i] = "closed"
  /\ Continue(i, "ended")
  /\ UNCHANGED <<mainVars, serverVars, pipeVars, isClosed, terminated>>

ThreadStep(i) ==
  \/ ReadRequest(i) \/ ReadFails(i) \/ HandleRequest(i)
  \/ WriteResponse(i) \/ WriteFails(i) \/ WriteEnds(i)
  \/ FlushFileBuffers(i) \/ Disconnect(i) \/ EndThread(i)

-----------------------------------------------------------------------------
(* The main thread.                                                        *)

WaitForShutdownRequest ==
  /\ main = "wait"
  /\ requestShutdown
  /\ main' = "cancelServer"
  /\ UNCHANGED <<requestShutdown, serverVars, pipeVars, threadVars, terminated>>

\* CancelSynchronousIo ends ConnectNamedPipe if the server thread is inside it.
CancelServer ==
  /\ main = "cancelServer"
  /\ server' = IF server = "listening" /\ pipe[current] = "open" THEN "aborted" ELSE server
  /\ main' = "joinServer"
  /\ UNCHANGED <<requestShutdown, current, pipeInstances, pipeVars, threadVars, terminated>>

JoinServer ==
  /\ main = "joinServer"
  /\ server = "stopped"
  /\ main' = "destroy"
  /\ UNCHANGED <<requestShutdown, serverVars, pipeVars, threadVars, terminated>>

\* The thread of i is inside ReadFile or WriteFile and the call has not completed.
\* (One that has left its loop has no client, and FlushFileBuffers does not block.)
Blocked(i) ==
  /\ pipe[i] = "connected"
  /\ \/ thread[i] = "reading" /\ message[i] \notin Kinds
     \/ thread[i] = "writing" /\ message[i] = "long"

\* CancelSynchronousIo: the blocked call returns ERROR_OPERATION_ABORTED, which ends
\* the loop; a long response is no longer there to be read.
CancelSynchronousIo(i) ==
  IF Blocked(i)
  THEN /\ Continue(i, "flush")
       /\ message' = [message EXCEPT ![i] = IF @ = "long" THEN "none" ELSE @]
  ELSE UNCHANGED <<thread, message>>

\* Mutant: only a thread that has closed its pipe is joined.
JoinClosed ==
  /\ main = "joinInstance"
  /\ isClosed[current] => thread[current] = "ended"
  /\ pipeInstances' = pipeInstances \ {current}
  /\ current' = NoInstance
  /\ main' = "destroy"
  /\ UNCHANGED <<requestShutdown, server, pipeVars, threadVars, terminated>>

\* ~NamedPipeInstance up to the join.
DestroyInstance(i) ==
  /\ main = "destroy"
  /\ i \in pipeInstances
  /\ current' = i
  /\ IF isClosed[i] THEN UNCHANGED <<thread, message>> ELSE CancelSynchronousIo(i)
  /\ main' = "joinInstance"
  /\ UNCHANGED <<requestShutdown, server, pipeInstances, pipe, peer, isClosed, terminated>>

\* An instance that never had a client has no thread to join.
JoinInstance ==
  /\ main = "joinInstance"
  /\ thread[current] \in {"none", "ended"}
  /\ Free({current})
  /\ current' = NoInstance
  /\ main' = "destroy"
  /\ UNCHANGED <<requestShutdown, server, terminated>>

\* wWinMain returns; the process ends with it.
Exit ==
  /\ main = "destroy"
  /\ pipeInstances = {}
  /\ main' = "exited"
  /\ UNCHANGED <<requestShutdown, serverVars, pipeVars, threadVars, terminated>>

MainStep ==
  \/ WaitForShutdownRequest \/ CancelServer \/ JoinServer
  \/ (\E i \in Instances : DestroyInstance(i)) \/ JoinInstance \/ Exit

-----------------------------------------------------------------------------
(* The clients.                                                            *)

\* The last of the Instances is kept for the server to create.
ClientConnects(c, i) ==
  /\ \A j \in Instances : peer[j] # c
  /\ pipe[i] = "open"
  /\ \E j \in Instances : pipe[j] = "none"
  /\ pipe' = [pipe EXCEPT ![i] = "connected"]
  /\ peer' = [peer EXCEPT ![i] = c]
  /\ UNCHANGED <<mainVars, serverVars, message, threadVars, terminated>>

ClientSends(i, kind) ==
  /\ pipe[i] = "connected"
  /\ message[i] = "none"
  /\ message' = [message EXCEPT ![i] = kind]
  /\ UNCHANGED <<mainVars, serverVars, pipe, peer, threadVars, terminated>>

ClientReads(i) ==
  /\ pipe[i] = "connected"
  /\ message[i] \in {"response", "long"}
  /\ message' = [message EXCEPT ![i] = "none"]
  /\ UNCHANGED <<mainVars, serverVars, pipe, peer, threadVars, terminated>>

ClientLeaves(i) ==
  /\ pipe[i] = "connected"
  /\ pipe' = [pipe EXCEPT ![i] = "left"]
  /\ peer' = [peer EXCEPT ![i] = NoClient]
  /\ UNCHANGED <<mainVars, serverVars, message, threadVars, terminated>>

ClientStep ==
  \E i \in Instances :
    \/ \E c \in Clients : ClientConnects(c, i)
    \/ \E kind \in Kinds : ClientSends(i, kind)
    \/ ClientReads(i) \/ ClientLeaves(i)

-----------------------------------------------------------------------------
Running == main # "exited" /\ ~terminated

Next == Running /\ (ServerStep \/ (\E i \in Instances : ThreadStep(i)) \/ MainStep \/ ClientStep)

Spec == Init /\ [][Next]_vars

\* Every thread of the process is scheduled; a client owes nothing.
FairSpec ==
  /\ Spec
  /\ WF_vars(Running /\ ServerStep)
  /\ \A i \in Instances : WF_vars(Running /\ ThreadStep(i))
  /\ WF_vars(Running /\ MainStep)

-----------------------------------------------------------------------------

(***************************************************************************)
(* A thread never outlives its NamedPipeInstance, and no request is        *)
(* handled once wWinMain may destroy StatusController: whatever the        *)
(* threads were doing when they were cancelled or removed, they have been  *)
(* joined.                                                                 *)
(***************************************************************************)
ThreadsHaveOwners ==
  \A i \in Instances :
    thread[i] \notin {"none", "ended"} => i \in pipeInstances /\ main # "exited"

(***************************************************************************)
(* A client that waits for the response to a request that can be read gets *)
(* it, or leaves; a long one counts as given when the client has read it,  *)
(* which clients are assumed to do.  Once the destructors are at work      *)
(* this still holds for a request that is being handled, such as the       *)
(* Shutdown that has the server destroyed, unless its response is long:    *)
(* the thread is joined before the process ends, but the cancel takes back *)
(* a long response that has not been read (NamedPipeInstance.cpp:95, 144). *)
(* A request that is too long, and any other exception, ends the process.  *)
(***************************************************************************)
LongIsRead(i) == []<>(message[i] # "long")

IsGiven(i) ==
  message[i] = "response" \/ (thread[i] = "writing" /\ message[i] = "none")

RequestIsAnswered ==
  \A i \in Instances :
    LongIsRead(i) =>
      (message[i] \in Requests /\ pipe[i] = "connected"
        ~> \/ IsGiven(i) \/ pipe[i] # "connected" \/ terminated
           \/ main \notin {"wait", "cancelServer"} /\ thread[i] \notin {"handle", "write"})

(***************************************************************************)
(* After every client, until a shutdown, the server waits for the next.    *)
(***************************************************************************)
ServerListens ==
  []<>((\E i \in Instances : pipe[i] = "open") \/ main # "wait" \/ terminated)

(***************************************************************************)
(* A ConnectNamedPipe that was cancelled in time ends the server thread,   *)
(* so that it is joined.                                                   *)
(***************************************************************************)
AbortedIsJoined ==
  (main = "joinServer" /\ server = "aborted") ~> (main = "destroy" \/ terminated)

(***************************************************************************)
(* ~NamedPipeInstance does not wait for the client: a thread that was out  *)
(* of its loop when it was cancelled, or that the cancel brought out of it,*)
(* is joined even if the client stays, as long as it has read what was     *)
(* written to it (NamedPipeInstance.cpp:31-34, 144).                       *)
(***************************************************************************)
CancelledThreadIsJoined ==
  (/\ main = "joinInstance"
   /\ thread[current] \in {"flush", "disconnect", "closed"}
   /\ message[current] # "response")
    ~> (main = "destroy" \/ terminated)

(***************************************************************************)
(* "Blocks until a client connects. Can be aborted with                    *)
(* ::CancelSynchronousIo." (NamedPipeInstance.h:41): so that the server    *)
(* thread is joined.  Does not hold.                                       *)
(***************************************************************************)
CancelledServerIsJoined == (main = "joinServer") ~> (main = "destroy" \/ terminated)

(***************************************************************************)
(* "Instructs the cache process to terminate itself." (README.md:98): once *)
(* the server thread has been joined, the process ends.  Does not hold.    *)
(***************************************************************************)
DestroyedIsExited == (main = "destroy") ~> (main = "exited" \/ terminated)
=============================================================================
