--------------------------- MODULE NamedPipeProofs ---------------------------
(***************************************************************************)
(* Proofs about NamedPipe, for any clients and any number of instances.    *)
(***************************************************************************)
EXTENDS NamedPipe, TLAPS

(***************************************************************************)
(* The inductive invariant.  The type of m_pipeInstances depends on        *)
(* `current` naming an instance whenever it is moved there, and current is *)
(* the server thread's until that thread has been joined, then the main    *)
(* thread's: so the two must not be at work on it together.                *)
(***************************************************************************)
ServerHasInstance == server \in {"connect", "listening", "aborted"} => current \in Instances

DestructorHasInstance == main = "joinInstance" => current \in Instances

ServerIsJoined == main \in {"destroy", "joinInstance", "exited"} => server = "stopped"

IInv ==
  /\ TypeOK
  /\ ServerHasInstance /\ DestructorHasInstance /\ ServerIsJoined
  /\ ThreadsHaveOwners

LEMMA FreeTypes ==
  ASSUME TypeOK, NEW S, Free(S)
  PROVE  /\ pipe' \in [Instances -> {"none", "open", "connected", "left", "closed"}]
         /\ peer' \in [Instances -> Clients \cup {NoClient}]
         /\ message' \in [Instances -> {"none", "response", "long"} \cup Kinds]
         /\ thread' \in [Instances -> {"none", "read", "reading", "handle", "write", "writing",
                                       "flush", "disconnect", "closed", "ended"}]
         /\ isClosed' \in [Instances -> BOOLEAN]
         /\ pipeInstances' \in SUBSET Instances
<1>1. pipe' \in [Instances -> {"none", "open", "connected", "left", "closed"}]
  BY DEF TypeOK, Free
<1>2. peer' \in [Instances -> Clients \cup {NoClient}]
  BY DEF TypeOK, Free
<1>3. message' \in [Instances -> {"none", "response", "long"} \cup Kinds]
  BY DEF TypeOK, Free
<1>4. thread' \in [Instances -> {"none", "read", "reading", "handle", "write", "writing",
                                 "flush", "disconnect", "closed", "ended"}]
  BY DEF TypeOK, Free
<1>5. isClosed' \in [Instances -> BOOLEAN] /\ pipeInstances' \in SUBSET Instances
  BY DEF TypeOK, Free
<1>. QED  BY <1>1, <1>2, <1>3, <1>4, <1>5

\* A thread that is freed with its instance is no thread any more; the others stay.
LEMMA FreeOwners ==
  ASSUME ThreadsHaveOwners, TypeOK, NEW S, Free(S), main' # "exited"
  PROVE  ThreadsHaveOwners'
BY DEF ThreadsHaveOwners, Free, TypeOK

LEMMA ServerStepInv ==
  ASSUME IInv, Running, ServerStep PROVE IInv'
<1>. USE DEF IInv, ServerHasInstance, DestructorHasInstance, ServerIsJoined
<1>0. main # "exited" /\ server # "stopped" /\ main \notin {"destroy", "joinInstance", "exited"}
  BY DEF Running, ServerStep, RemoveClosedPipeInstances, CreatePipe, CreateFails, Connect,
         Connected, ConnectFails, Aborted
<1>1. CASE RemoveClosedPipeInstances
  <2>1. Free(Closed) /\ server' = "create" /\ UNCHANGED <<main, requestShutdown, current, terminated>>
    BY <1>1 DEF RemoveClosedPipeInstances, mainVars
  <2>2. TypeOK'
    BY <2>1, FreeTypes DEF TypeOK
  <2>3. ThreadsHaveOwners'
    BY <1>0, <2>1, FreeOwners
  <2>. QED  BY <1>0, <2>1, <2>2, <2>3
<1>2. ASSUME NEW i \in Instances, CreatePipe(i) PROVE IInv'
  <2>1. TypeOK'
    BY <1>2 DEF CreatePipe, TypeOK, mainVars, threadVars
  <2>. QED  BY <1>0, <1>2, <2>1 DEF CreatePipe, ThreadsHaveOwners, mainVars, threadVars
<1>3. CASE Connect
  <2>1. TypeOK'
    BY <1>3 DEF Connect, TypeOK, mainVars, threadVars, pipeVars
  <2>. QED  BY <1>0, <1>3, <2>1 DEF Connect, ThreadsHaveOwners, mainVars, threadVars
<1>4. CASE Connected
  <2>1. current \in Instances
    BY <1>4 DEF Connected
  <2>2. TypeOK'
    BY <1>4, <2>1 DEF Connected, TypeOK, mainVars, pipeVars
  <2>3. ThreadsHaveOwners'
    BY <1>0, <1>4, <2>1 DEF Connected, ThreadsHaveOwners, TypeOK, mainVars
  <2>. QED  BY <1>0, <1>4, <2>2, <2>3 DEF Connected, mainVars
<1>5. CASE CreateFails \/ ConnectFails
  <2>1. terminated' = TRUE /\ UNCHANGED <<mainVars, serverVars, pipeVars, threadVars>>
    BY <1>5 DEF CreateFails, ConnectFails
  <2>2. TypeOK'
    BY <2>1 DEF TypeOK, mainVars, serverVars, threadVars, pipeVars
  <2>. QED  BY <2>1, <2>2 DEF ThreadsHaveOwners, mainVars, serverVars, threadVars
<1>6. CASE Aborted
  <2>1. current \in Instances
    BY <1>6 DEF Aborted
  <2>2. TypeOK'
    BY <1>6, <2>1 DEF Aborted, TypeOK, mainVars, threadVars, pipeVars
  <2>. QED  BY <1>0, <1>6, <2>2 DEF Aborted, ThreadsHaveOwners, mainVars, threadVars
<1>. QED  BY <1>1, <1>2, <1>3, <1>4, <1>5, <1>6 DEF ServerStep

LEMMA ThreadStepInv ==
  ASSUME IInv, Running, NEW i \in Instances, ThreadStep(i) PROVE IInv'
<1>. USE DEF IInv
<1>1. UNCHANGED <<main, server, current, pipeInstances>>
  BY DEF ThreadStep, ReadRequest, ReadFails, HandleRequest, WriteResponse, WriteFails,
         WriteEnds, FlushFileBuffers, Disconnect, EndThread, mainVars, serverVars, threadVars
<1>2. /\ thread[i] \notin {"none", "ended"}
      /\ thread' = thread \/ \E stage \in {"read", "reading", "handle", "write", "writing", "flush",
                                           "disconnect", "closed", "ended"} : Continue(i, stage)
  BY DEF ThreadStep, ReadRequest, ReadFails, HandleRequest, WriteResponse, WriteFails,
         WriteEnds, FlushFileBuffers, Disconnect, EndThread, Continue, threadVars
<1>3. thread' \in [Instances -> {"none", "read", "reading", "handle", "write", "writing",
                                 "flush", "disconnect", "closed", "ended"}]
  BY <1>2 DEF TypeOK, Continue
<1>4. /\ requestShutdown' \in BOOLEAN /\ terminated' \in BOOLEAN
      /\ isClosed' \in [Instances -> BOOLEAN]
      /\ pipe' \in [Instances -> {"none", "open", "connected", "left", "closed"}]
      /\ peer' \in [Instances -> Clients \cup {NoClient}]
      /\ message' \in [Instances -> {"none", "response", "long"} \cup Kinds]
  BY DEF TypeOK, ThreadStep, ReadRequest, ReadFails, HandleRequest, WriteResponse, WriteFails,
         WriteEnds, FlushFileBuffers, Disconnect, EndThread, mainVars, serverVars, threadVars, pipeVars
<1>5. TypeOK'
  BY <1>1, <1>3, <1>4 DEF TypeOK
<1>6. ThreadsHaveOwners'
  <2>1. i \in pipeInstances /\ main # "exited"
    BY <1>2 DEF ThreadsHaveOwners
  <2>. QED  BY <1>1, <1>2, <2>1 DEF ThreadsHaveOwners, Continue, TypeOK
<1>. QED
  BY <1>1, <1>5, <1>6 DEF ServerHasInstance, DestructorHasInstance, ServerIsJoined

LEMMA MainStepInv ==
  ASSUME IInv, Running, MainStep PROVE IInv'
<1>. USE DEF IInv, ServerHasInstance, DestructorHasInstance, ServerIsJoined
<1>1. CASE WaitForShutdownRequest
  BY <1>1 DEF WaitForShutdownRequest, TypeOK, ThreadsHaveOwners, serverVars, threadVars, pipeVars
<1>2. CASE CancelServer
  BY <1>2 DEF CancelServer, TypeOK, ThreadsHaveOwners, threadVars, pipeVars
<1>3. CASE JoinServer
  BY <1>3 DEF JoinServer, TypeOK, ThreadsHaveOwners, serverVars, threadVars, pipeVars
<1>4. ASSUME NEW i \in Instances, DestroyInstance(i) PROVE IInv'
  <2>1. /\ \/ UNCHANGED <<thread, message>>
           \/ /\ thread' = [thread EXCEPT ![i] = "flush"]
              /\ message' = [message EXCEPT ![i] = IF @ = "long" THEN "none" ELSE @]
        /\ i \in pipeInstances /\ main = "destroy" /\ main' = "joinInstance" /\ current' = i
        /\ UNCHANGED <<requestShutdown, server, pipeInstances, pipe, peer, isClosed, terminated>>
    BY <1>4 DEF DestroyInstance, CancelSynchronousIo, Continue
  <2>2. /\ thread' \in [Instances -> {"none", "read", "reading", "handle", "write", "writing",
                                      "flush", "disconnect", "closed", "ended"}]
        /\ message' \in [Instances -> {"none", "response", "long"} \cup Kinds]
    BY <2>1 DEF TypeOK
  <2>3. TypeOK'
    BY <2>1, <2>2 DEF TypeOK
  <2>4. ThreadsHaveOwners'
    BY <2>1 DEF ThreadsHaveOwners, TypeOK
  <2>. QED  BY <2>1, <2>3, <2>4
<1>5. CASE JoinInstance
  <2>1. Free({current}) /\ main' = "destroy" /\ current' = NoInstance
        /\ UNCHANGED <<requestShutdown, server, terminated>> /\ main = "joinInstance"
    BY <1>5 DEF JoinInstance
  <2>2. TypeOK'
    BY <2>1, FreeTypes DEF TypeOK
  <2>3. ThreadsHaveOwners'
    BY <2>1, FreeOwners
  <2>. QED  BY <2>1, <2>2, <2>3
<1>6. CASE Exit
  BY <1>6 DEF Exit, TypeOK, ThreadsHaveOwners, serverVars, threadVars, pipeVars
<1>. QED  BY <1>1, <1>2, <1>3, <1>4, <1>5, <1>6 DEF MainStep

\* Clients reach the process through the pipe alone.
LEMMA ClientStepInv ==
  ASSUME IInv, ClientStep PROVE IInv'
<1>. USE DEF IInv
<1>1. UNCHANGED <<main, requestShutdown, server, current, pipeInstances, thread, isClosed, terminated>>
  BY DEF ClientStep, ClientConnects, ClientSends, ClientReads, ClientLeaves, mainVars, serverVars,
         threadVars
<1>2. /\ pipe' \in [Instances -> {"none", "open", "connected", "left", "closed"}]
      /\ peer' \in [Instances -> Clients \cup {NoClient}]
      /\ message' \in [Instances -> {"none", "response", "long"} \cup Kinds]
  BY DEF TypeOK, ClientStep, ClientConnects, ClientSends, ClientReads, ClientLeaves
<1>3. TypeOK'
  BY <1>1, <1>2 DEF TypeOK
<1>. QED
  BY <1>1, <1>3 DEF ServerHasInstance, DestructorHasInstance, ServerIsJoined, ThreadsHaveOwners

LEMMA Inductive ==
  /\ Init => IInv
  /\ IInv /\ [Next]_vars => IInv'
<1>1. ASSUME Init PROVE IInv
  BY <1>1 DEF Init, IInv, TypeOK, ServerHasInstance, DestructorHasInstance, ServerIsJoined,
              ThreadsHaveOwners
<1>2. ASSUME IInv, [Next]_vars PROVE IInv'
  <2>1. CASE UNCHANGED vars
    BY <1>2, <2>1 DEF vars, IInv, TypeOK, ServerHasInstance, DestructorHasInstance, ServerIsJoined,
                      ThreadsHaveOwners
  <2>2. CASE Next
    BY <1>2, <2>2, ServerStepInv, ThreadStepInv, MainStepInv, ClientStepInv DEF Next
  <2>. QED  BY <1>2, <2>1, <2>2
<1>. QED  BY <1>1, <1>2

(***************************************************************************)
(* Every thread, pipe and message stays at one of its stages, and          *)
(* m_pipeInstances holds instances only: the pointer that is moved into it *)
(* is never empty.                                                         *)
(***************************************************************************)
THEOREM TypeCorrect == Spec => []TypeOK
<1>1. IInv => TypeOK
  BY DEF IInv
<1>. QED  BY <1>1, Inductive, PTL DEF Spec

(***************************************************************************)
(* However many instances there are and wherever their threads were when   *)
(* they were cancelled, no thread outlives its NamedPipeInstance and none  *)
(* is left when wWinMain returns.                                          *)
(***************************************************************************)
THEOREM OwnersOutliveThreads == Spec => []ThreadsHaveOwners
<1>1. IInv => ThreadsHaveOwners
  BY DEF IInv
<1>. QED  BY <1>1, Inductive, PTL DEF Spec
=============================================================================
