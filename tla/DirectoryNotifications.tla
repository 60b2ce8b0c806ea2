----------------------- MODULE DirectoryNotifications -----------------------
(***************************************************************************)
(* How a change on disk reaches the notification thread: Windows records   *)
(* it, a pending ReadDirectoryChangesW hands the records out, the          *)
(* completion copies them and reads again, and the worker pushes them one  *)
(* by one into the queue of NotificationQueue.                             *)
(*                                                                         *)
(* The next read fills m_Buffer whenever Windows likes, also while the     *)
(* worker is still pushing what the last one brought.  Opening, failing    *)
(* and closing of directories are left to ReadChanges.                     *)
(*                                                                         *)
(* A change is its directory and its number; a push that carries Lost is   *)
(* the notification FILE_ACTION_CHANGES_LOST.                              *)
(***************************************************************************)
EXTENDS NotificationQueue, Functions

CONSTANTS Directories,  \* directories that are open and read
          BufferLimit,  \* changes Windows can record for a directory between reads
          MaxChanges,   \* bound on the changes
          Lost          \* FILE_ACTION_CHANGES_LOST

ASSUME DirectoryAssumption ==
  /\ BufferLimit \in Nat \ {0}
  /\ MaxChanges \in Nat

VARIABLES
  changes,      \* changes made so far
  recorded,     \* what Windows has recorded for each directory
  discarded,    \* it had no room for more, and threw the record away
  reading,      \* directories whose read is pending
  buffer,       \* m_Buffer of each request
  completions,  \* completed reads that wait for the worker
  worker,       \* what the worker does of a completion
  backup,       \* what is left to push of m_BackupBuffer, of the request it handles
  carried,      \* history: what each push carried
  unknown       \* history: changes the cache has not been told of

queueVars == vars
diskVars == <<changes, recorded, discarded>>
readVars == <<reading, buffer, completions>>
workerVars == <<worker, backup, carried>>
systemVars == <<queueVars, diskVars, readVars, workerVars, unknown>>

Change == [directory : Directories, number : 1..MaxChanges]

Resting == [stage |-> "rest"]

SystemTypeOK ==
  /\ TypeOK
  /\ changes \in 0..MaxChanges
  /\ recorded \in [Directories -> Seq(Change)]
  /\ discarded \in SUBSET Directories
  /\ \A d \in Directories : Len(recorded[d]) <= BufferLimit
  /\ reading \in SUBSET Directories
  /\ buffer \in [Directories -> Seq(Change)]
  /\ completions \in Seq([directory : Directories, bytes : BOOLEAN])
  /\ worker \in {Resting} \cup [stage : {"read", "push", "eventsLost"}, directory : Directories,
                                bytes : BOOLEAN]
  /\ backup \in Seq(Change)
  /\ backup = <<>> <=> worker.stage # "push" /\ ~(worker.stage = "read" /\ worker.bytes)
  /\ carried \in Seq(Change \cup {Lost})
  /\ Len(carried) = sent
  /\ unknown \in SUBSET Change

SystemInit ==
  /\ Init
  /\ changes = 0
  /\ recorded = [d \in Directories |-> <<>>]
  /\ discarded = {}
  /\ reading = Directories
  /\ buffer = [d \in Directories |-> <<>>]
  /\ completions = <<>>
  /\ worker = Resting
  /\ backup = <<>>
  /\ carried = <<>>
  /\ unknown = {}

-----------------------------------------------------------------------------
(* Windows.                                                                *)

\* When the changes do not fit, all of them are discarded.
ChangeOnDisk(d) ==
  /\ changes < MaxChanges
  /\ changes' = changes + 1
  /\ LET c == [directory |-> d, number |-> changes + 1]
     IN  /\ unknown' = unknown \cup {c}
         /\ IF d \notin discarded /\ Len(recorded[d]) < BufferLimit
            THEN recorded' = [recorded EXCEPT ![d] = Append(@, c)] /\ UNCHANGED discarded
            ELSE recorded' = [recorded EXCEPT ![d] = <<>>] /\ discarded' = discarded \cup {d}
  /\ UNCHANGED <<queueVars, readVars, workerVars>>

\* A read completes as soon as there is something to tell, or with no bytes when that
\* was discarded.
ReadCompletes(d) ==
  /\ d \in reading
  /\ d \in discarded \/ recorded[d] # <<>>
  /\ reading' = reading \ {d}
  /\ buffer' = IF d \in discarded THEN buffer ELSE [buffer EXCEPT ![d] = recorded[d]]
  /\ completions' = Append(completions, [directory |-> d, bytes |-> d \notin discarded])
  /\ recorded' = [recorded EXCEPT ![d] = <<>>]
  /\ discarded' = discarded \ {d}
  /\ UNCHANGED <<queueVars, changes, workerVars, unknown>>

-----------------------------------------------------------------------------
(* The worker: NotificationCompletion.                                     *)

\* BackupBuffer, if there are bytes.
BackupBuffer ==
  /\ worker = Resting
  /\ producer = "idle"
  /\ completions # <<>>
  /\ completions' = Tail(completions)
  /\ LET c == Head(completions)
     IN  /\ worker' = [stage |-> "read", directory |-> c.directory, bytes |-> c.bytes]
         /\ backup' = IF c.bytes THEN buffer[c.directory] ELSE <<>>
  /\ UNCHANGED <<queueVars, diskVars, reading, buffer, carried, unknown>>

\* Mutants: the read is not issued again; a completion with no bytes is not followed
\* by a notification.
BeginNoRead ==
  /\ worker.stage = "read"
  /\ worker' = [worker EXCEPT !.stage = IF worker.bytes THEN "push" ELSE "eventsLost"]
  /\ UNCHANGED <<queueVars, diskVars, readVars, backup, carried, unknown>>
BeginReadOnly ==
  /\ worker.stage = "read"
  /\ reading' = reading \cup {worker.directory}
  /\ worker' = IF worker.bytes THEN [worker EXCEPT !.stage = "push"] ELSE Resting
  /\ UNCHANGED <<queueVars, diskVars, buffer, completions, backup, carried, unknown>>

\* The next read comes before what the last one brought is processed.
BeginRead ==
  /\ worker.stage = "read"
  /\ reading' = reading \cup {worker.directory}
  /\ worker' = [worker EXCEPT !.stage = IF worker.bytes THEN "push" ELSE "eventsLost"]
  /\ UNCHANGED <<queueVars, diskVars, buffer, completions, backup, carried, unknown>>

\* Mutants: the records are taken from m_Buffer; the loop ends before the last record.
ProcessBuffer ==
  /\ worker.stage = "push"
  /\ PushBack
  /\ LET all == buffer[worker.directory]
         done == Len(all) - Len(backup)
     IN  carried' = Append(carried, all[IF done < 0 THEN 1 ELSE done + 1])
  /\ backup' = Tail(backup)
  /\ worker' = IF Len(backup) = 1 THEN Resting ELSE worker
  /\ UNCHANGED <<diskVars, readVars, unknown>>
ProcessAllButLast ==
  /\ worker.stage = "push"
  /\ IF Len(backup) = 1
     THEN worker' = Resting /\ UNCHANGED <<queueVars, backup, carried>>
     ELSE PushBack /\ carried' = Append(carried, Head(backup)) /\ backup' = Tail(backup)
          /\ UNCHANGED worker
  /\ UNCHANGED <<diskVars, readVars, unknown>>

\* One round of the loop: a record is pushed, the last one ends it.
ProcessNotification ==
  /\ worker.stage = "push"
  /\ PushBack
  /\ carried' = Append(carried, Head(backup))
  /\ backup' = Tail(backup)
  /\ worker' = IF Len(backup) = 1 THEN Resting ELSE worker
  /\ UNCHANGED <<diskVars, readVars, unknown>>

NotifyEventsLost ==
  /\ worker.stage = "eventsLost"
  /\ PushBack
  /\ carried' = Append(carried, Lost)
  /\ worker' = Resting
  /\ UNCHANGED <<diskVars, readVars, backup, unknown>>

\* The rest of a push.
FinishPush == Producer /\ UNCHANGED <<diskVars, readVars, workerVars, unknown>>

WorkerStep ==
  BackupBuffer \/ BeginRead \/ ProcessNotification \/ NotifyEventsLost \/ FinishPush

-----------------------------------------------------------------------------
(* The notification thread.                                                *)

\* The switch on the action that was popped: the change removes the entry of its
\* repository, a loss removes all entries.
Dispatch ==
  /\ Pop
  /\ unknown' = IF carried[Head(items)] = Lost THEN {} ELSE unknown \ {carried[Head(items)]}
  /\ UNCHANGED <<diskVars, readVars, workerVars>>

ForgetAll ==
  /\ OnEventsLost
  /\ unknown' = {}
  /\ UNCHANGED <<diskVars, readVars, workerVars>>

WaitForNotifications ==
  \/ Dispatch \/ ForgetAll
  \/ (Wait \/ CheckOverflow \/ Clear \/ PopEmpty) /\ UNCHANGED <<diskVars, readVars, workerVars, unknown>>

-----------------------------------------------------------------------------
SystemNext ==
  /\ ~failed
  /\ \/ \E d \in Directories : ChangeOnDisk(d) \/ ReadCompletes(d)
     \/ WorkerStep
     \/ WaitForNotifications

SystemSpec == SystemInit /\ [][SystemNext]_systemVars

\* Both threads run, and Windows completes a read that has something to tell.
FairSystemSpec ==
  /\ SystemSpec
  /\ \A d \in Directories : WF_systemVars(~failed /\ ReadCompletes(d))
  /\ WF_systemVars(~failed /\ WorkerStep)
  /\ WF_systemVars(~failed /\ WaitForNotifications)

-----------------------------------------------------------------------------

\* Where the news of a change may be.
InCompletion(c) ==
  \E i \in DOMAIN completions :
    /\ completions[i].directory = c.directory
    /\ completions[i].bytes => c \in Range(buffer[c.directory])

WithWorker(c) ==
  \/ c \in Range(backup)
  \/ worker.stage # "rest" /\ ~worker.bytes

InQueue(c) == \E i \in DOMAIN items : carried[items[i]] \in {c, Lost}

(***************************************************************************)
(* No change is forgotten on its way from the disk to the cache, through   *)
(* four buffers and two threads: it is recorded, copied, being pushed or   *)
(* queued, or its loss is: discarded by Windows, about to be reported,     *)
(* or remembered by the queue (missed, LossIsRemembered).                  *)
(***************************************************************************)
ChangeIsOnItsWay ==
  \A c \in unknown :
    \/ c.directory \in discarded \/ c \in Range(recorded[c.directory])
    \/ InCompletion(c) \/ WithWorker(c) \/ InQueue(c)
    \/ missed # {}

(***************************************************************************)
(* The changes of a directory are pushed in the order they were made, each *)
(* at most once, although the next read may overwrite m_Buffer while they  *)
(* are pushed ("Double buffer strategy", ReadDirectoryChangesPrivate.h:98).*)
(***************************************************************************)
PushedInOrder ==
  \A i, j \in DOMAIN carried :
    i < j /\ Lost \notin {carried[i], carried[j]} /\ carried[i].directory = carried[j].directory
      => carried[i].number < carried[j].number

(***************************************************************************)
(* While the queue does not overflow every change reaches the cache, by a  *)
(* notification of its own or by one that clears the cache.                *)
(***************************************************************************)
ChangeArrives ==
  \A c \in Change : c \in unknown ~> c \notin unknown \/ missed # {} \/ failed
=============================================================================
