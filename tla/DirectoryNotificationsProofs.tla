-------------------- MODULE DirectoryNotificationsProofs --------------------
(***************************************************************************)
(* The data path does to the queue what NotificationQueue says it may do,  *)
(* so what NotificationQueueProofs proves of the queue holds of the        *)
(* records that come from the disk.                                        *)
(***************************************************************************)
EXTENDS DirectoryNotifications, NotificationQueueProofs

\* Windows, and the worker between two pushes, leave the queue alone.
LEMMA QueueUntouched ==
  ASSUME \/ \E d \in Directories : ChangeOnDisk(d) \/ ReadCompletes(d)
         \/ BackupBuffer \/ BeginRead
  PROVE  UNCHANGED vars
BY DEF ChangeOnDisk, ReadCompletes, BackupBuffer, BeginRead, queueVars

\* The worker's other steps are steps of the queue's producer.
LEMMA WorkerPushes ==
  ASSUME ProcessNotification \/ NotifyEventsLost \/ FinishPush
  PROVE  PushBack \/ Producer
BY DEF ProcessNotification, NotifyEventsLost, FinishPush

\* The notification thread's are those of its consumer.
LEMMA NotifierTakes ==
  ASSUME WaitForNotifications
  PROVE  Consumer
BY DEF WaitForNotifications, Dispatch, ForgetAll, Consumer

LEMMA SystemStep == [SystemNext]_systemVars => [Next]_vars
<1>1. SystemNext => [Next]_vars
  BY QueueUntouched, WorkerPushes, NotifierTakes DEF SystemNext, WorkerStep, Next
<1>2. UNCHANGED systemVars => UNCHANGED vars
  BY DEF systemVars, queueVars
<1>. QED  BY <1>1, <1>2

\* Every behaviour of the data path is one of the queue: with records that Windows
\* discards, reads that complete while the worker pushes, and a thread that reports
\* losses (ReadDirectoryChangesPrivate.cpp), the queue is used as its model assumes.
THEOREM QueueIsUsedAsModelled == SystemSpec => Spec
<1>1. SystemInit => Init
  BY DEF SystemInit
<1>. QED  BY <1>1, SystemStep, PTL DEF SystemSpec, Spec

\* So no wakeup is lost, no loss is forgotten and the order is kept on the whole path
\* from the disk to the notification thread (ThreadSafeQueue.h:45-118).
THEOREM PathKeepsQueuePromises ==
  SystemSpec => [](ItemsAreSignaled /\ LossIsRemembered /\ InOrder)
<1>. QED
  BY QueueIsUsedAsModelled, NoWakeupIsLost, NoLossIsForgotten, DispatchIsInOrder, PTL

\* And what the cache may rely on, each notification delivered in order or owed a
\* report of its loss, is kept when it is a directory read that sends them
\* (NotificationService, from ThreadSafeQueue.h:45-118 and DirectoryMonitor.cpp:151-199).
THEOREM PathProvidesService == SystemSpec => ServiceSpec
<1>. QED
  BY QueueIsUsedAsModelled, Refinement, PTL

-----------------------------------------------------------------------------
(* Where the changes of a directory are, and in which order: the inductive *)
(* invariant of the path.                                                  *)

\* A completion with bytes finds them in m_Buffer, and only such a one is pushed
\* record by record.
BytesAreThere ==
  /\ \A i \in DOMAIN completions :
       completions[i].bytes => buffer[completions[i].directory] # <<>>
  /\ worker.stage = "push" => worker.bytes

\* One read of a directory at a time: while its completion waits, or is being copied,
\* none is pending, so m_Buffer is not overwritten.
OneRead ==
  /\ \A i, j \in DOMAIN completions :
       completions[i].directory = completions[j].directory => i = j
  /\ \A i \in DOMAIN completions :
       /\ completions[i].directory \notin reading
       /\ worker.stage = "read" => worker.directory # completions[i].directory
  /\ worker.stage = "read" => worker.directory \notin reading

\* The records of a directory are its own, and none is from the future.
OwnRecords ==
  \A d \in Directories :
    /\ \A i \in DOMAIN recorded[d] : recorded[d][i].directory = d
    /\ \A i \in DOMAIN buffer[d] : buffer[d][i].directory = d
Known(s) == \A i \in DOMAIN s : s[i] # Lost => s[i].number <= changes

Precedes(a, b) == Lost \notin {a, b} /\ a.directory = b.directory => a.number < b.number
Rising(s) == \A i, j \in DOMAIN s : i < j => Precedes(s[i], s[j])
Before(s, t) == \A i \in DOMAIN s, j \in DOMAIN t : Precedes(s[i], t[j])

\* Pushed before it is copied, copied before it is read, read before it is recorded.
InStages ==
  /\ Rising(carried) /\ Rising(backup) /\ Before(carried, backup)
  /\ Known(carried) /\ Known(backup)
  /\ \A d \in Directories :
       /\ Rising(buffer[d]) /\ Rising(recorded[d]) /\ Before(buffer[d], recorded[d])
       /\ Known(buffer[d]) /\ Known(recorded[d])
       /\ Before(carried, recorded[d]) /\ Before(backup, recorded[d])
  /\ \A i \in DOMAIN completions :
       completions[i].bytes =>
         /\ Before(carried, buffer[completions[i].directory])
         /\ Before(backup, buffer[completions[i].directory])

PathInv == BytesAreThere /\ OneRead /\ OwnRecords /\ InStages

-----------------------------------------------------------------------------
LEMMA Appended ==
  ASSUME NEW S, NEW s \in Seq(S), NEW e \in S
  PROVE  /\ Append(s, e) \in Seq(S)
         /\ Append(s, e) # <<>>
         /\ Len(Append(s, e)) = Len(s) + 1
         /\ DOMAIN s = 1..Len(s) /\ DOMAIN Append(s, e) = 1..Len(s) + 1
         /\ \A i \in 1..Len(s) : Append(s, e)[i] = s[i]
         /\ Append(s, e)[Len(s) + 1] = e
OBVIOUS

LEMMA NothingLeft ==
  ASSUME NEW S, NEW s \in Seq(S)
  PROVE  s = <<>> <=> Len(s) = 0
OBVIOUS

\* The worker's stages, as they are typed.
Handled == [stage : {"read", "push", "eventsLost"}, directory : Directories, bytes : BOOLEAN]
BackupFits ==
  backup = <<>> <=> worker.stage # "push" /\ ~(worker.stage = "read" /\ worker.bytes)

LEMMA WorkerType ==
  ASSUME SystemTypeOK
  PROVE  /\ worker = Resting \/ worker \in Handled
         /\ worker.stage # "rest" => worker \in Handled
         /\ worker.stage = "rest" => worker = Resting
         /\ BackupFits
BY DEF SystemTypeOK, Handled, Resting, BackupFits

LEMMA SystemStepType ==
  ASSUME SystemTypeOK, BytesAreThere, [SystemNext]_systemVars PROVE SystemTypeOK'
<1>. DEFINE Others == /\ changes \in 0..MaxChanges
                      /\ recorded \in [Directories -> Seq(Change)]
                      /\ discarded \in SUBSET Directories
                      /\ \A d \in Directories : Len(recorded[d]) <= BufferLimit
                      /\ unknown \in SUBSET Change
            Reads == /\ reading \in SUBSET Directories
                     /\ buffer \in [Directories -> Seq(Change)]
                     /\ completions \in Seq([directory : Directories, bytes : BOOLEAN])
            Worker == /\ worker \in {Resting} \cup Handled
                      /\ backup \in Seq(Change)
                      /\ BackupFits
            Pushes == /\ carried \in Seq(Change \cup {Lost})
                      /\ Len(carried) = sent
<1>1. TypeOK /\ Others /\ Reads /\ Worker /\ Pushes
  BY DEF SystemTypeOK, Handled, BackupFits
<1>2. TypeOK'
  BY <1>1, StepType, SystemStep
<1>3. SUFFICES Others' /\ Reads' /\ Worker' /\ Pushes'
  BY <1>2 DEF SystemTypeOK, Handled, BackupFits
<1>4. ASSUME NEW d \in Directories, ChangeOnDisk(d) PROVE Others' /\ Reads' /\ Worker' /\ Pushes'
  <2>1. Reads' /\ Worker' /\ Pushes'
    BY <1>1, <1>4 DEF ChangeOnDisk, readVars, workerVars, queueVars, vars, BackupFits
  <2>2. [directory |-> d, number |-> changes + 1] \in Change /\ changes' \in 0..MaxChanges
    BY <1>1, <1>4, DirectoryAssumption DEF ChangeOnDisk, Change
  <2>3. unknown' \in SUBSET Change
    BY <1>1, <1>4, <2>2 DEF ChangeOnDisk
  <2>4. CASE d \notin discarded /\ Len(recorded[d]) < BufferLimit
    <3>1. /\ recorded' = [recorded EXCEPT ![d] = Append(@, [directory |-> d, number |-> changes + 1])]
          /\ discarded' = discarded
      BY <1>4, <2>4 DEF ChangeOnDisk
    <3>2. /\ recorded' \in [Directories -> Seq(Change)]
          /\ Len(recorded'[d]) = Len(recorded[d]) + 1
          /\ \A e \in Directories \ {d} : recorded'[e] = recorded[e]
      BY <1>1, <2>2, <3>1, Appended
    <3>. QED  BY <1>1, <2>1, <2>2, <2>3, <2>4, <3>1, <3>2, DirectoryAssumption
  <2>5. CASE ~(d \notin discarded /\ Len(recorded[d]) < BufferLimit)
    <3>1. recorded' = [recorded EXCEPT ![d] = <<>>] /\ discarded' = discarded \cup {d}
      BY <1>4, <2>5 DEF ChangeOnDisk
    <3>. QED  BY <1>1, <2>1, <2>2, <2>3, <3>1, DirectoryAssumption
  <2>. QED  BY <2>1, <2>4, <2>5
<1>5. ASSUME NEW d \in Directories, ReadCompletes(d) PROVE Others' /\ Reads' /\ Worker' /\ Pushes'
  <2>1. Worker' /\ Pushes'
    BY <1>1, <1>5 DEF ReadCompletes, workerVars, queueVars, vars, BackupFits
  <2>2. Others'
    BY <1>1, <1>5, DirectoryAssumption DEF ReadCompletes
  <2>3. [directory |-> d, bytes |-> d \notin discarded] \in [directory : Directories, bytes : BOOLEAN]
    OBVIOUS
  <2>4. completions' \in Seq([directory : Directories, bytes : BOOLEAN])
    BY <1>1, <1>5, <2>3, Appended DEF ReadCompletes
  <2>5. Reads'
    BY <1>1, <1>5, <2>4 DEF ReadCompletes
  <2>. QED  BY <2>1, <2>2, <2>5
<1>6. CASE BackupBuffer
  <2>1. Others' /\ Pushes'
    BY <1>1, <1>6 DEF BackupBuffer, diskVars, queueVars, vars
  <2>a. completions # <<>>
    BY <1>6 DEF BackupBuffer
  <2>2. /\ Head(completions) \in [directory : Directories, bytes : BOOLEAN]
        /\ Head(completions) = completions[1] /\ 1 \in DOMAIN completions
        /\ Tail(completions) \in Seq([directory : Directories, bytes : BOOLEAN])
    <3>. DEFINE S == [directory : Directories, bytes : BOOLEAN]
    <3>1. completions \in Seq(S)
      BY <1>1
    <3>. HIDE DEF S
    <3>2. completions[1] \in S /\ Tail(completions) \in Seq(S) /\ 1 \in DOMAIN completions
          /\ Head(completions) = completions[1]
      BY <3>1, <2>a
    <3>. QED  BY <3>2 DEF S
  <2>3. Reads'
    BY <1>1, <1>6, <2>2 DEF BackupBuffer
  <2>4. PICK c \in [directory : Directories, bytes : BOOLEAN] :
          /\ c.bytes => buffer[c.directory] # <<>>
          /\ worker' = [stage |-> "read", directory |-> c.directory, bytes |-> c.bytes]
          /\ backup' = IF c.bytes THEN buffer[c.directory] ELSE <<>>
    BY <1>6, <2>2 DEF BackupBuffer, BytesAreThere
  <2>5. Worker'
    BY <1>1, <2>4 DEF Handled, BackupFits
  <2>. QED  BY <2>1, <2>3, <2>5
<1>7. CASE BeginRead
  <2>1. Others' /\ Pushes'
    BY <1>1, <1>7 DEF BeginRead, diskVars, queueVars, vars
  <2>2. worker \in Handled
    BY <1>1, <1>7, WorkerType DEF BeginRead
  <2>3. Reads'
    BY <1>1, <1>7, <2>2 DEF BeginRead, Handled
  <2>4. Worker'
    BY <1>1, <1>7, <2>2 DEF BeginRead, Handled, BackupFits
  <2>. QED  BY <2>1, <2>3, <2>4
<1>8. CASE ProcessNotification
  <2>1. Others' /\ Reads'
    BY <1>1, <1>8 DEF ProcessNotification, diskVars, readVars
  <2>2. worker \in Handled /\ backup # <<>>
    BY <1>1, <1>8, WorkerType DEF ProcessNotification, BackupFits
  <2>3. /\ Tail(backup) \in Seq(Change) /\ Len(Tail(backup)) = Len(backup) - 1
        /\ Head(backup) \in Change
    BY <1>1, <2>2, AllButFirst
  <2>4. Pushes'
    <3>1. Head(backup) \in Change \cup {Lost}
      BY <2>3
    <3>2. carried' = Append(carried, Head(backup)) /\ sent' = sent + 1
      BY <1>8 DEF ProcessNotification, PushBack
    <3>. QED  BY <1>1, <3>1, <3>2, Appended
  <2>5. Tail(backup) = <<>> <=> Len(backup) = 1
    <3>1. Tail(backup) = <<>> <=> Len(Tail(backup)) = 0
      BY <2>3, NothingLeft
    <3>2. Len(backup) \in Nat
      BY <1>1
    <3>. QED  BY <2>3, <3>1, <3>2
  <2>6. Worker'
    <3>1. CASE Len(backup) = 1
      BY <1>8, <2>5, <2>3, <3>1 DEF ProcessNotification, Resting, BackupFits
    <3>2. CASE Len(backup) # 1
      BY <1>1, <1>8, <2>5, <2>3, <3>2 DEF ProcessNotification, BackupFits
    <3>. QED  BY <3>1, <3>2
  <2>. QED  BY <2>1, <2>4, <2>6
<1>9. CASE NotifyEventsLost
  <2>1. Others' /\ Reads'
    BY <1>1, <1>9 DEF NotifyEventsLost, diskVars, readVars
  <2>2. Pushes'
    BY <1>1, <1>9, Appended DEF NotifyEventsLost, PushBack
  <2>3. Worker'
    BY <1>1, <1>9 DEF NotifyEventsLost, Resting, BackupFits
  <2>. QED  BY <2>1, <2>2, <2>3
<1>10. CASE FinishPush
  <2>1. Others' /\ Reads' /\ Worker'
    BY <1>1, <1>10 DEF FinishPush, diskVars, readVars, workerVars, BackupFits
  <2>2. carried' = carried /\ sent' = sent
    BY <1>10 DEF FinishPush, workerVars, Producer, ReleaseSemaphore, TakeBack, RaiseOverflow
  <2>. QED  BY <1>1, <2>1, <2>2
<1>11. CASE WaitForNotifications
  <2>1. UNCHANGED <<diskVars, readVars, workerVars>> /\ sent' = sent
    BY <1>11 DEF WaitForNotifications, Dispatch, ForgetAll, Pop, OnEventsLost, Wait,
                 CheckOverflow, Clear, PopEmpty
  <2>2. Reads' /\ Worker' /\ Pushes'
    BY <1>1, <2>1 DEF readVars, workerVars, BackupFits
  <2>3. unknown' \in SUBSET unknown
    BY <1>11 DEF WaitForNotifications, Dispatch, ForgetAll
  <2>4. Others'
    BY <1>1, <2>1, <2>3 DEF diskVars
  <2>. QED  BY <2>2, <2>4
<1>12. CASE UNCHANGED systemVars
  BY <1>1, <1>12 DEF systemVars, queueVars, vars, diskVars, readVars, workerVars, BackupFits
<1>. QED  BY <1>4, <1>5, <1>6, <1>7, <1>8, <1>9, <1>10, <1>11, <1>12
          DEF SystemNext, WorkerStep

-----------------------------------------------------------------------------
(* What the steps do, position by position.                                *)

Completion == [directory : Directories, bytes : BOOLEAN]

LEMMA ReadCompletesEffect ==
  ASSUME SystemTypeOK, NEW d \in Directories, ReadCompletes(d)
  PROVE  /\ d \in reading /\ reading' = reading \ {d}
         /\ d \in discarded \/ recorded[d] # <<>>
         /\ \A e \in Directories \ {d} : recorded'[e] = recorded[e] /\ buffer'[e] = buffer[e]
         /\ recorded'[d] = <<>>
         /\ buffer'[d] = IF d \in discarded THEN buffer[d] ELSE recorded[d]
         /\ \A i \in DOMAIN completions :
              i \in DOMAIN completions' /\ completions'[i] = completions[i]
         /\ \E n \in DOMAIN completions' :
              /\ n \notin DOMAIN completions
              /\ completions'[n].directory = d
              /\ completions'[n].bytes <=> d \notin discarded
              /\ \A i \in DOMAIN completions' : i # n => i \in DOMAIN completions
         /\ UNCHANGED <<vars, changes, worker, backup, carried, unknown>>
<1>. DEFINE c == [directory |-> d, bytes |-> d \notin discarded]
            n == Len(completions) + 1
<1>1. completions \in Seq(Completion) /\ c \in Completion
  BY DEF SystemTypeOK, Completion
<1>2. completions' = Append(completions, c)
  BY DEF ReadCompletes
<1>3. c.directory = d /\ (c.bytes <=> d \notin discarded)
  OBVIOUS
<1>. HIDE DEF c
<1>4. /\ DOMAIN completions = 1..Len(completions) /\ DOMAIN completions' = 1..Len(completions) + 1
      /\ \A i \in 1..Len(completions) : completions'[i] = completions[i]
      /\ completions'[n] = c
      /\ Len(completions) \in Nat
  BY <1>1, <1>2, Appended
<1>5. /\ \A i \in DOMAIN completions :
           i \in DOMAIN completions' /\ completions'[i] = completions[i]
      /\ n \in DOMAIN completions' /\ n \notin DOMAIN completions
      /\ \A i \in DOMAIN completions' : i # n => i \in DOMAIN completions
  BY <1>4
<1>6. /\ d \in reading /\ reading' = reading \ {d}
      /\ d \in discarded \/ recorded[d] # <<>>
      /\ UNCHANGED <<vars, changes, worker, backup, carried, unknown>>
  BY DEF ReadCompletes, queueVars, workerVars
<1>7. /\ \A e \in Directories \ {d} : recorded'[e] = recorded[e] /\ buffer'[e] = buffer[e]
      /\ recorded'[d] = <<>>
      /\ buffer'[d] = IF d \in discarded THEN buffer[d] ELSE recorded[d]
  BY DEF ReadCompletes, SystemTypeOK
<1>. HIDE DEF n
<1>8. /\ n \in DOMAIN completions' /\ n \notin DOMAIN completions
      /\ completions'[n].directory = d
      /\ completions'[n].bytes <=> d \notin discarded
      /\ \A i \in DOMAIN completions' : i # n => i \in DOMAIN completions
  BY <1>3, <1>4, <1>5
<1>. QED  BY <1>5, <1>6, <1>7, <1>8

LEMMA BackupBufferEffect ==
  ASSUME SystemTypeOK, BackupBuffer
  PROVE  /\ worker = Resting /\ backup = <<>>
         /\ 1 \in DOMAIN completions /\ completions[1] \in Completion
         /\ \A i \in DOMAIN completions' :
              i + 1 \in DOMAIN completions /\ i + 1 # 1 /\ completions'[i] = completions[i + 1]
         /\ \A i \in DOMAIN completions :
              i # 1 => i - 1 \in DOMAIN completions' /\ completions'[i - 1] = completions[i]
         /\ worker' = [stage |-> "read", directory |-> completions[1].directory,
                       bytes |-> completions[1].bytes]
         /\ backup' = IF completions[1].bytes THEN buffer[completions[1].directory] ELSE <<>>
         /\ UNCHANGED <<vars, changes, recorded, discarded, reading, buffer, carried, unknown>>
<1>1. completions \in Seq(Completion) /\ completions # <<>>
  BY DEF SystemTypeOK, Completion, BackupBuffer
<1>2. completions' = Tail(completions)
  BY DEF BackupBuffer
<1>3. /\ DOMAIN completions = 1..Len(completions) /\ DOMAIN completions' = 1..Len(completions) - 1
      /\ \A i \in 1..Len(completions) - 1 : completions'[i] = completions[i + 1]
      /\ Head(completions) = completions[1] /\ completions[1] \in Completion
      /\ Len(completions) \in Nat /\ Len(completions) > 0
  BY <1>1, <1>2, AllButFirst
<1>4. /\ 1 \in DOMAIN completions
      /\ \A i \in DOMAIN completions' :
           i + 1 \in DOMAIN completions /\ i + 1 # 1 /\ completions'[i] = completions[i + 1]
      /\ \A i \in DOMAIN completions :
           i # 1 => i - 1 \in DOMAIN completions' /\ completions'[i - 1] = completions[i]
  BY <1>3
<1>5. worker = Resting /\ backup = <<>>
  BY WorkerType DEF BackupBuffer, BackupFits, Resting
<1>6. /\ worker' = [stage |-> "read", directory |-> completions[1].directory,
                    bytes |-> completions[1].bytes]
      /\ backup' = IF completions[1].bytes THEN buffer[completions[1].directory] ELSE <<>>
      /\ UNCHANGED <<vars, changes, recorded, discarded, reading, buffer, carried, unknown>>
  BY <1>3 DEF BackupBuffer, queueVars, diskVars
<1>. QED  BY <1>3, <1>4, <1>5, <1>6

LEMMA BeginReadEffect ==
  ASSUME SystemTypeOK, BeginRead
  PROVE  /\ worker \in Handled /\ worker.stage = "read"
         /\ worker'.stage = (IF worker.bytes THEN "push" ELSE "eventsLost")
         /\ worker'.bytes = worker.bytes
         /\ reading' = reading \cup {worker.directory}
         /\ UNCHANGED <<vars, changes, recorded, discarded, buffer, completions, backup,
                        carried, unknown>>
<1>1. worker \in Handled
  BY WorkerType DEF BeginRead
<1>. QED  BY <1>1 DEF BeginRead, Handled, queueVars, diskVars

\* Either loop step: a record is pushed, or the news that records were lost.
LEMMA PushEffect ==
  ASSUME SystemTypeOK, ProcessNotification \/ NotifyEventsLost
  PROVE  /\ worker \in Handled /\ worker.stage # "read"
         /\ worker' = Resting \/ worker' = worker
         /\ PushBack
         /\ \A i \in DOMAIN carried : i \in DOMAIN carried' /\ carried'[i] = carried[i]
         /\ sent + 1 \in DOMAIN carried'
         /\ \A i \in DOMAIN carried' : i # sent + 1 => i \in DOMAIN carried /\ i < sent + 1
         /\ \/ /\ worker.stage = "eventsLost" /\ worker' = Resting
               /\ carried'[sent + 1] = Lost /\ UNCHANGED backup
            \/ /\ worker.stage = "push" /\ 1 \in DOMAIN backup
               /\ carried'[sent + 1] = backup[1]
               /\ \A i \in DOMAIN backup' :
                    i + 1 \in DOMAIN backup /\ i + 1 > 1 /\ backup'[i] = backup[i + 1]
               /\ \A i \in DOMAIN backup :
                    i # 1 => i - 1 \in DOMAIN backup' /\ backup'[i - 1] = backup[i]
         /\ UNCHANGED <<changes, recorded, discarded, reading, buffer, completions, unknown>>
<1>1. worker \in Handled /\ worker.stage \in {"push", "eventsLost"}
  BY WorkerType DEF ProcessNotification, NotifyEventsLost
<1>2. /\ worker' = Resting \/ worker' = worker
      /\ PushBack
      /\ UNCHANGED <<changes, recorded, discarded, reading, buffer, completions, unknown>>
  BY DEF ProcessNotification, NotifyEventsLost, diskVars, readVars
<1>3. /\ carried \in Seq(Change \cup {Lost}) /\ Len(carried) = sent /\ sent \in Nat
      /\ backup \in Seq(Change)
  BY QueueAssumption DEF SystemTypeOK, TypeOK
<1>4. ASSUME NEW e \in Change \cup {Lost}, carried' = Append(carried, e)
      PROVE  /\ \A i \in DOMAIN carried : i \in DOMAIN carried' /\ carried'[i] = carried[i]
             /\ sent + 1 \in DOMAIN carried' /\ carried'[sent + 1] = e
             /\ \A i \in DOMAIN carried' : i # sent + 1 => i \in DOMAIN carried /\ i < sent + 1
  <2>1. /\ DOMAIN carried = 1..sent /\ DOMAIN carried' = 1..sent + 1
        /\ \A i \in 1..sent : carried'[i] = carried[i]
        /\ carried'[sent + 1] = e
    BY <1>3, <1>4, Appended
  <2>. QED  BY <1>3, <2>1
<1>5. CASE NotifyEventsLost
  <2>1. /\ carried' = Append(carried, Lost) /\ Lost \in Change \cup {Lost}
        /\ worker.stage = "eventsLost" /\ worker' = Resting /\ UNCHANGED backup
    BY <1>5 DEF NotifyEventsLost
  <2>. QED  BY <1>1, <1>2, <1>4, <2>1
<1>6. CASE ProcessNotification
  <2>1. worker.stage = "push" /\ backup # <<>>
    BY <1>6, WorkerType DEF ProcessNotification, BackupFits
  <2>2. carried' = Append(carried, Head(backup)) /\ backup' = Tail(backup)
    BY <1>6 DEF ProcessNotification
  <2>3. /\ DOMAIN backup = 1..Len(backup) /\ DOMAIN backup' = 1..Len(backup) - 1
        /\ \A i \in 1..Len(backup) - 1 : backup'[i] = backup[i + 1]
        /\ Head(backup) = backup[1] /\ backup[1] \in Change
        /\ Len(backup) \in Nat /\ Len(backup) > 0
    BY <1>3, <2>1, <2>2, AllButFirst
  <2>4. /\ 1 \in DOMAIN backup
        /\ \A i \in DOMAIN backup' :
             i + 1 \in DOMAIN backup /\ i + 1 > 1 /\ backup'[i] = backup[i + 1]
        /\ \A i \in DOMAIN backup :
             i # 1 => i - 1 \in DOMAIN backup' /\ backup'[i - 1] = backup[i]
    BY <2>3
  <2>5. Head(backup) = backup[1] /\ backup[1] \in Change \cup {Lost}
    BY <2>3
  <2>6. carried' = Append(carried, backup[1])
    BY <2>2, <2>5
  <2>. QED  BY <1>1, <1>2, <1>4, <2>1, <2>4, <2>5, <2>6
<1>. QED  BY <1>5, <1>6

NewChange(d) == [directory |-> d, number |-> changes + 1]

LEMMA ChangeOnDiskEffect ==
  ASSUME SystemTypeOK, NEW d \in Directories, ChangeOnDisk(d)
  PROVE  /\ changes' = changes + 1 /\ unknown' = unknown \cup {NewChange(d)}
         /\ \A e \in Directories \ {d} : recorded'[e] = recorded[e]
         /\ \/ /\ discarded' = discarded \cup {d}
               /\ DOMAIN recorded'[d] = {}
            \/ /\ UNCHANGED discarded
               /\ \A i \in DOMAIN recorded[d] :
                    i \in DOMAIN recorded'[d] /\ recorded'[d][i] = recorded[d][i]
               /\ \E n \in DOMAIN recorded'[d] :
                    /\ recorded'[d][n] = NewChange(d)
                    /\ \A i \in DOMAIN recorded'[d] : i # n => i \in DOMAIN recorded[d] /\ i < n
         /\ UNCHANGED <<vars, reading, buffer, completions, worker, backup, carried>>
<1>. DEFINE c == NewChange(d)
            n == Len(recorded[d]) + 1
<1>1. /\ changes' = changes + 1 /\ unknown' = unknown \cup {c}
      /\ UNCHANGED <<vars, reading, buffer, completions, worker, backup, carried>>
  BY DEF ChangeOnDisk, queueVars, readVars, workerVars, NewChange
<1>2. recorded[d] \in Seq(Change) /\ recorded \in [Directories -> Seq(Change)]
  BY DEF SystemTypeOK
<1>3. c \in Change
  BY DirectoryAssumption DEF ChangeOnDisk, Change, SystemTypeOK, NewChange
<1>. HIDE DEF c
<1>4. CASE recorded' = [recorded EXCEPT ![d] = Append(@, c)] /\ UNCHANGED discarded
  <2>1. /\ \A e \in Directories \ {d} : recorded'[e] = recorded[e]
        /\ recorded'[d] = Append(recorded[d], c)
    BY <1>2, <1>4
  <2>2. /\ DOMAIN recorded[d] = 1..Len(recorded[d])
        /\ DOMAIN recorded'[d] = 1..Len(recorded[d]) + 1
        /\ \A i \in 1..Len(recorded[d]) : recorded'[d][i] = recorded[d][i]
        /\ recorded'[d][n] = c
        /\ Len(recorded[d]) \in Nat
    BY <1>2, <1>3, <2>1, Appended
  <2>3. /\ \A i \in DOMAIN recorded[d] :
             i \in DOMAIN recorded'[d] /\ recorded'[d][i] = recorded[d][i]
        /\ n \in DOMAIN recorded'[d] /\ recorded'[d][n] = c
        /\ \A i \in DOMAIN recorded'[d] : i # n => i \in DOMAIN recorded[d] /\ i < n
    BY <2>2
  <2>. HIDE DEF n
  <2>. QED  BY <1>1, <1>4, <2>1, <2>3 DEF c
<1>5. CASE recorded' = [recorded EXCEPT ![d] = <<>>] /\ discarded' = discarded \cup {d}
  <2>1. /\ \A e \in Directories \ {d} : recorded'[e] = recorded[e]
        /\ recorded'[d] = <<>>
    BY <1>2, <1>5
  <2>2. DOMAIN recorded'[d] = {}
    BY <2>1
  <2>. QED  BY <1>1, <1>5, <2>1, <2>2 DEF c
<1>. QED  BY <1>4, <1>5 DEF ChangeOnDisk, c, NewChange

\* The notification thread and the rest of a push leave the path alone.
LEMMA PathUntouched ==
  ASSUME FinishPush \/ WaitForNotifications \/ UNCHANGED systemVars
  PROVE  UNCHANGED <<changes, recorded, discarded, reading, buffer, completions, worker,
                     backup, carried>>
BY DEF FinishPush, WaitForNotifications, Dispatch, ForgetAll, systemVars, diskVars, readVars,
       workerVars

-----------------------------------------------------------------------------
LEMMA PathTypes ==
  ASSUME SystemTypeOK
  PROVE  /\ \A i \in DOMAIN completions : completions[i] \in Completion
         /\ \A i \in DOMAIN completions : completions[i].directory \in Directories
         /\ \A d \in Directories, i \in Nat :
              /\ i \in DOMAIN recorded[d] => recorded[d][i] \in Change
              /\ i \in DOMAIN buffer[d] => buffer[d][i] \in Change
         /\ \A i \in DOMAIN carried : carried[i] \in Change \cup {Lost}
         /\ \A i \in DOMAIN backup : backup[i] \in Change
         /\ \A s \in {carried, backup, completions} : DOMAIN s \subseteq Nat
         /\ \A d \in Directories : DOMAIN recorded[d] \subseteq Nat /\ DOMAIN buffer[d] \subseteq Nat
<1>1. /\ completions \in Seq(Completion) /\ carried \in Seq(Change \cup {Lost})
      /\ backup \in Seq(Change)
      /\ \A d \in Directories : recorded[d] \in Seq(Change) /\ buffer[d] \in Seq(Change)
  BY DEF SystemTypeOK, Completion
<1>2. \A i \in DOMAIN completions : completions[i] \in Completion
  BY <1>1
<1>3. \A i \in DOMAIN completions : completions[i].directory \in Directories
  BY <1>2 DEF Completion
<1>. QED  BY <1>1, <1>2, <1>3

LEMMA ReadsKept ==
  ASSUME SystemTypeOK, BytesAreThere, OneRead, OwnRecords, [SystemNext]_systemVars
  PROVE  BytesAreThere' /\ OneRead' /\ OwnRecords'
<1>. DEFINE Kept == BytesAreThere' /\ OneRead' /\ OwnRecords'
<1>0. \A i \in DOMAIN completions : completions[i].directory \in Directories
  BY PathTypes
<1>. USE DEF BytesAreThere, OneRead, OwnRecords
<1>1. ASSUME NEW d \in Directories, ChangeOnDisk(d) PROVE Kept
  <2>1. /\ UNCHANGED <<reading, buffer, completions, worker>>
        /\ \A e \in Directories \ {d} : recorded'[e] = recorded[e]
    BY <1>1, ChangeOnDiskEffect
  <2>2. BytesAreThere' /\ OneRead'
    BY <2>1
  <2>3. \A i \in DOMAIN recorded'[d] : recorded'[d][i].directory = d
    <3>1. \A i \in DOMAIN recorded'[d] :
            recorded'[d][i] = NewChange(d) \/ (i \in DOMAIN recorded[d] /\ recorded'[d][i] = recorded[d][i])
      BY <1>1, ChangeOnDiskEffect
    <3>2. NewChange(d).directory = d
      BY DEF NewChange
    <3>. QED  BY <3>1, <3>2
  <2>4. OwnRecords'
    BY <2>1, <2>3
  <2>. QED  BY <2>2, <2>4
<1>2. ASSUME NEW d \in Directories, ReadCompletes(d) PROVE Kept
  <2>1. /\ d \in reading /\ reading' = reading \ {d} /\ UNCHANGED worker
        /\ \A e \in Directories \ {d} : recorded'[e] = recorded[e] /\ buffer'[e] = buffer[e]
        /\ recorded'[d] = <<>>
        /\ buffer'[d] = IF d \in discarded THEN buffer[d] ELSE recorded[d]
        /\ d \in discarded \/ recorded[d] # <<>>
    BY <1>2, ReadCompletesEffect
  <2>2. PICK n \in DOMAIN completions' :
          /\ n \notin DOMAIN completions
          /\ completions'[n].directory = d
          /\ completions'[n].bytes <=> d \notin discarded
          /\ \A i \in DOMAIN completions' : i # n => i \in DOMAIN completions
    BY <1>2, ReadCompletesEffect
  <2>3. \A i \in DOMAIN completions : completions'[i] = completions[i]
    BY <1>2, ReadCompletesEffect
  <2>4. \A i \in DOMAIN completions : completions[i].directory # d
    BY <2>1
  <2>5. BytesAreThere'
    BY <1>0, <2>1, <2>2, <2>3, <2>4
  <2>6. OneRead'
    BY <1>0, <2>1, <2>2, <2>3, <2>4
  <2>7. OwnRecords'
    BY <2>1
  <2>. QED  BY <2>5, <2>6, <2>7
<1>3. CASE BackupBuffer
  <2>1. /\ 1 \in DOMAIN completions
        /\ \A i \in DOMAIN completions' :
             i + 1 \in DOMAIN completions /\ i + 1 # 1 /\ completions'[i] = completions[i + 1]
        /\ worker'.stage = "read" /\ worker'.directory = completions[1].directory
        /\ UNCHANGED <<recorded, reading, buffer>>
    BY <1>3, BackupBufferEffect
  <2>2. BytesAreThere' /\ OwnRecords'
    BY <2>1
  <2>3. \A i, j \in DOMAIN completions' :
          completions'[i].directory = completions'[j].directory => i = j
    <3>1. \A i, j \in DOMAIN completions' : i \in Nat /\ j \in Nat /\ (i + 1 = j + 1 => i = j)
      <4>1. DOMAIN completions' = 1..Len(completions')
        BY <1>3, SystemStepType DEF SystemTypeOK
      <4>. QED  BY <4>1
    <3>. QED  BY <2>1, <3>1
  <2>4. OneRead'
    BY <2>1, <2>3
  <2>. QED  BY <2>2, <2>4
<1>4. CASE BeginRead
  <2>1. /\ worker \in Handled /\ worker.stage = "read"
        /\ worker'.stage = (IF worker.bytes THEN "push" ELSE "eventsLost")
        /\ worker'.bytes = worker.bytes
        /\ reading' = reading \cup {worker.directory}
        /\ UNCHANGED <<recorded, buffer, completions>>
    BY <1>4, BeginReadEffect
  <2>. QED  BY <2>1
<1>5. CASE ProcessNotification \/ NotifyEventsLost
  <2>1. /\ worker.stage # "read"
        /\ worker' = Resting \/ worker' = worker
        /\ UNCHANGED <<recorded, reading, buffer, completions>>
    BY <1>5, PushEffect
  <2>. QED  BY <2>1 DEF Resting
<1>6. CASE FinishPush \/ WaitForNotifications \/ UNCHANGED systemVars
  BY <1>6, PathUntouched
<1>. QED  BY <1>1, <1>2, <1>3, <1>4, <1>5, <1>6 DEF SystemNext, WorkerStep

-----------------------------------------------------------------------------
(* Sequences that rise and come one before the other.                      *)

\* t is s, or a part of it, with t[n] at its end.
LEMMA RisingWithOneMore ==
  ASSUME NEW s, NEW t, NEW n, Rising(s),
         \A i \in DOMAIN t : i # n => i \in DOMAIN s /\ i < n /\ t[i] = s[i],
         \A i \in DOMAIN s : Precedes(s[i], t[n]),
         n \in Nat, DOMAIN s \subseteq Nat
  PROVE  Rising(t)
<1>1. SUFFICES ASSUME NEW i \in DOMAIN t, NEW j \in DOMAIN t, i < j PROVE Precedes(t[i], t[j])
  BY DEF Rising
<1>2. CASE i = n
  BY <1>1, <1>2
<1>3. CASE i # n /\ j = n
  BY <1>3
<1>4. CASE i # n /\ j # n
  BY <1>1, <1>4 DEF Rising
<1>. QED  BY <1>2, <1>3, <1>4

\* t is s without its first element.
LEMMA RisingWithOneLess ==
  ASSUME NEW s, NEW t, Rising(s), DOMAIN t \subseteq Nat,
         \A i \in DOMAIN t : i + 1 \in DOMAIN s /\ t[i] = s[i + 1]
  PROVE  Rising(t)
<1>1. \A i, j \in DOMAIN t : i < j => i + 1 < j + 1
  OBVIOUS
<1>. QED  BY <1>1 DEF Rising

\* A change just made comes after all that are known.
LEMMA NewIsLast ==
  ASSUME NEW s, NEW d \in Directories, SystemTypeOK, Known(s),
         \A i \in DOMAIN s : s[i] \in Change \cup {Lost}
  PROVE  \A i \in DOMAIN s : Precedes(s[i], NewChange(d))
<1>1. changes \in Nat
  BY DirectoryAssumption DEF SystemTypeOK
<1>2. SUFFICES ASSUME NEW i \in DOMAIN s, s[i] # Lost PROVE s[i].number < changes + 1
  BY DEF Precedes, NewChange
<1>3. s[i] \in Change /\ s[i].number <= changes
  BY <1>2 DEF Known
<1>. QED  BY <1>1, <1>3, DirectoryAssumption DEF Change

\* What comes before s comes before any part of it.
LEMMA BeforePart ==
  ASSUME NEW r, NEW s, NEW t, Before(r, s),
         \A j \in DOMAIN t : \E i \in DOMAIN s : t[j] = s[i]
  PROVE  Before(r, t)
BY DEF Before

LEMMA StagesKept ==
  ASSUME SystemTypeOK, BytesAreThere, OneRead, OwnRecords, InStages, [SystemNext]_systemVars
  PROVE  InStages'
<1>. DEFINE Typed(s) == \A i \in DOMAIN s : s[i] \in Change \cup {Lost}
<1>0. \A i \in DOMAIN completions : completions[i].directory \in Directories
  BY PathTypes
<1>t. /\ Typed(carried) /\ Typed(backup)
      /\ \A e \in Directories : Typed(recorded[e]) /\ Typed(buffer[e])
      /\ DOMAIN carried \subseteq Nat /\ DOMAIN backup \subseteq Nat
      /\ \A e \in Directories : DOMAIN recorded[e] \subseteq Nat /\ DOMAIN buffer[e] \subseteq Nat
  <2>1. \A e \in Directories : DOMAIN recorded[e] \subseteq Nat /\ DOMAIN buffer[e] \subseteq Nat
    BY PathTypes
  <2>. QED  BY <2>1, PathTypes
<1>n. SystemTypeOK'
  BY SystemStepType
<1>m. /\ DOMAIN carried' \subseteq Nat /\ DOMAIN backup' \subseteq Nat
      /\ \A e \in Directories : DOMAIN recorded'[e] \subseteq Nat
  BY <1>n DEF SystemTypeOK
<1>1. ASSUME NEW d \in Directories, ChangeOnDisk(d) PROVE InStages'
  <2>1. /\ UNCHANGED <<buffer, completions, backup, carried>> /\ changes' = changes + 1
        /\ \A e \in Directories \ {d} : recorded'[e] = recorded[e]
    BY <1>1, ChangeOnDiskEffect
  <2>2. \A s : Known(s) /\ Typed(s) => Known(s)'
    <3>1. changes \in Nat
      BY DirectoryAssumption DEF SystemTypeOK
    <3>2. \A c \in Change : c.number \in Nat
      BY DirectoryAssumption DEF Change
    <3>. QED  BY <2>1, <3>1, <3>2 DEF Known
  <2>3. /\ Known(carried)' /\ Known(backup)'
        /\ \A e \in Directories : Known(buffer[e])'
        /\ \A e \in Directories \ {d} : Known(recorded[e])'
    BY <1>t, <2>1, <2>2 DEF InStages, Known
  <2>4. /\ Rising(recorded[d])' /\ Known(recorded[d])'
        /\ Before(carried, recorded[d])' /\ Before(backup, recorded[d])'
        /\ Before(buffer[d], recorded[d])'
    <3>. DEFINE Goal == /\ Rising(recorded[d])' /\ Known(recorded[d])'
                        /\ Before(carried, recorded[d])' /\ Before(backup, recorded[d])'
                        /\ Before(buffer[d], recorded[d])'
    <3>1. ASSUME DOMAIN recorded'[d] = {} PROVE Goal
      BY <3>1 DEF Rising, Known, Before
    <3>2. ASSUME NEW n \in DOMAIN recorded'[d],
                 recorded'[d][n] = NewChange(d),
                 \A i \in DOMAIN recorded'[d] :
                   i # n => i \in DOMAIN recorded[d] /\ i < n /\ recorded'[d][i] = recorded[d][i]
          PROVE  Goal
      <4>1. n \in Nat
        BY <1>m, <3>2
      <4>2. \A s : Known(s) /\ Typed(s) => \A i \in DOMAIN s : Precedes(s[i], NewChange(d))
        BY NewIsLast
      <4>3. \A i \in DOMAIN recorded[d] : Precedes(recorded[d][i], recorded'[d][n])
        BY <1>t, <3>2, <4>2 DEF InStages
      <4>4. Rising(recorded'[d])
        <5>1. Rising(recorded[d]) /\ DOMAIN recorded[d] \subseteq Nat
          BY <1>t DEF InStages
        <5>. QED  BY <3>2, <4>1, <4>3, <5>1, RisingWithOneMore
      <4>5. Known(recorded[d])'
        <5>1. NewChange(d).number = changes + 1
          BY DEF NewChange
        <5>2. Known(recorded[d])
          BY DEF InStages
        <5>3. \A i \in DOMAIN recorded[d] : recorded[d][i] # Lost => recorded[d][i].number <= changes'
          BY <1>t, <2>2, <5>2 DEF Known
        <5>4. changes + 1 <= changes'
          BY <2>1, DirectoryAssumption DEF SystemTypeOK
        <5>. QED  BY <3>2, <5>1, <5>3, <5>4 DEF Known
      <4>6. ASSUME NEW s, Before(s, recorded[d]), Known(s), Typed(s) PROVE Before(s, recorded'[d])
        <5>1. \A i \in DOMAIN s : Precedes(s[i], NewChange(d))
          BY <4>2, <4>6
        <5>. QED  BY <3>2, <4>6, <5>1 DEF Before
      <4>. QED  BY <1>t, <2>1, <4>4, <4>5, <4>6 DEF InStages
    <3>. QED  BY <1>1, <3>1, <3>2, ChangeOnDiskEffect
  <2>. QED  BY <2>1, <2>3, <2>4, <1>0 DEF InStages
<1>2. ASSUME NEW d \in Directories, ReadCompletes(d) PROVE InStages'
  <2>1. /\ UNCHANGED <<changes, backup, carried>>
        /\ \A e \in Directories \ {d} : recorded'[e] = recorded[e] /\ buffer'[e] = buffer[e]
        /\ recorded'[d] = <<>>
        /\ buffer'[d] = IF d \in discarded THEN buffer[d] ELSE recorded[d]
        /\ \A i \in DOMAIN completions : completions[i].directory # d
    BY <1>2, ReadCompletesEffect DEF OneRead
  <2>2. DOMAIN recorded'[d] = {}
    BY <2>1
  <2>3. /\ Rising(buffer'[d]) /\ Rising(recorded'[d]) /\ Before(buffer'[d], recorded'[d])
        /\ Known(buffer[d])' /\ Known(recorded[d])'
        /\ Before(carried, recorded'[d]) /\ Before(backup, recorded'[d])
    BY <2>1, <2>2 DEF InStages, Rising, Before, Known
  <2>4. ASSUME NEW i \in DOMAIN completions', completions'[i].bytes
        PROVE  /\ Before(carried, buffer'[completions'[i].directory])
               /\ Before(backup, buffer'[completions'[i].directory])
    <3>1. CASE i \in DOMAIN completions
      <4>1. /\ completions'[i] = completions[i]
            /\ buffer'[completions[i].directory] = buffer[completions[i].directory]
        BY <1>0, <1>2, <2>1, <3>1, ReadCompletesEffect
      <4>. QED  BY <2>4, <3>1, <4>1 DEF InStages
    <3>2. CASE i \notin DOMAIN completions
      <4>1. completions'[i].directory = d /\ d \notin discarded
        BY <1>2, <2>4, <3>2, ReadCompletesEffect
      <4>. QED  BY <2>1, <4>1 DEF InStages
    <3>. QED  BY <3>1, <3>2
  <2>5. \A e \in Directories \ {d} :
          /\ Rising(buffer'[e]) /\ Rising(recorded'[e]) /\ Before(buffer'[e], recorded'[e])
          /\ Known(buffer[e])' /\ Known(recorded[e])'
          /\ Before(carried, recorded'[e]) /\ Before(backup, recorded'[e])
    BY <2>1 DEF InStages, Known
  <2>6. Rising(carried) /\ Rising(backup) /\ Before(carried, backup)
        /\ Known(carried)' /\ Known(backup)'
    BY <2>1 DEF InStages, Known
  <2>. QED  BY <2>1, <2>3, <2>4, <2>5, <2>6 DEF InStages
<1>3. CASE BackupBuffer
  <2>. DEFINE d == completions[1].directory
  <2>1. /\ 1 \in DOMAIN completions /\ d \in Directories
        /\ \A i \in DOMAIN completions' :
             i + 1 \in DOMAIN completions /\ i + 1 # 1 /\ completions'[i] = completions[i + 1]
        /\ backup' = IF completions[1].bytes THEN buffer[d] ELSE <<>>
        /\ UNCHANGED <<changes, recorded, buffer, carried>>
    BY <1>0, <1>3, BackupBufferEffect
  <2>2. \A i \in DOMAIN completions' :
          /\ completions'[i].directory \in Directories
          /\ completions'[i].directory # d
          /\ completions'[i].bytes => Before(carried, buffer[completions'[i].directory])
    BY <1>0, <2>1 DEF OneRead, InStages
  <2>. HIDE DEF d
  <2>3. CASE completions[1].bytes
    <3>1. backup' = buffer[d]
      BY <2>1, <2>3
    <3>2. Before(carried, buffer[d])
      BY <2>1, <2>3 DEF InStages, d
    <3>3. ASSUME NEW e \in Directories PROVE Before(buffer[d], recorded[e])
      BY <2>1 DEF InStages, OwnRecords, Before, Precedes
    <3>4. ASSUME NEW e \in Directories, e # d PROVE Before(buffer[d], buffer[e])
      BY <2>1, <3>4 DEF OwnRecords, Before, Precedes
    <3>5. Known(backup)'
      BY <2>1, <3>1 DEF InStages, Known
    <3>6. Known(carried)' /\ \A e \in Directories : Known(buffer[e])' /\ Known(recorded[e])'
      BY <2>1 DEF InStages, Known
    <3>. QED  BY <2>1, <2>2, <3>1, <3>2, <3>3, <3>4, <3>5, <3>6 DEF InStages
  <2>4. CASE ~completions[1].bytes
    <3>1. DOMAIN backup' = {}
      BY <2>1, <2>4
    <3>2. /\ Rising(backup') /\ Before(carried, backup') /\ Known(backup)'
          /\ \A s : Before(backup', s)
      BY <3>1 DEF Rising, Before, Known
    <3>3. Known(carried)' /\ \A e \in Directories : Known(buffer[e])' /\ Known(recorded[e])'
      BY <2>1 DEF InStages, Known
    <3>. QED  BY <2>1, <2>2, <3>2, <3>3 DEF InStages
  <2>. QED  BY <2>3, <2>4
<1>4. CASE BeginRead
  BY <1>4, BeginReadEffect DEF InStages, Known
<1>5. CASE ProcessNotification \/ NotifyEventsLost
  <2>. DEFINE n == sent + 1
  <2>1. /\ \A i \in DOMAIN carried' : i # n => i \in DOMAIN carried /\ i < n /\ carried'[i] = carried[i]
        /\ n \in DOMAIN carried'
        /\ UNCHANGED <<changes, recorded, buffer, completions>>
    BY <1>5, PushEffect
  <2>2. n \in Nat
    BY <1>m, <2>1
  <2>3. \/ carried'[n] = Lost /\ UNCHANGED backup
        \/ /\ 1 \in DOMAIN backup /\ carried'[n] = backup[1]
           /\ \A i \in DOMAIN backup' : i + 1 \in DOMAIN backup /\ i + 1 > 1 /\ backup'[i] = backup[i + 1]
    BY <1>5, PushEffect
  <2>. HIDE DEF n
  <2>4. ASSUME NEW s, Before(carried, s), Before(backup, s) PROVE Before(carried', s) /\ Before(backup', s)
    <3>1. CASE carried'[n] = Lost /\ UNCHANGED backup
      BY <2>1, <2>4, <3>1 DEF Before, Precedes
    <3>2. CASE 1 \in DOMAIN backup /\ carried'[n] = backup[1]
               /\ \A i \in DOMAIN backup' : i + 1 \in DOMAIN backup /\ backup'[i] = backup[i + 1]
      BY <2>1, <2>4, <3>2 DEF Before
    <3>. QED  BY <2>3, <3>1, <3>2
  <2>5. Rising(carried')
    <3>1. \A i \in DOMAIN carried : Precedes(carried[i], carried'[n])
      BY <2>3 DEF InStages, Before, Precedes
    <3>2. Rising(carried) /\ DOMAIN carried \subseteq Nat
      BY <1>t DEF InStages
    <3>. QED  BY <2>1, <2>2, <3>1, <3>2, RisingWithOneMore
  <2>6. Rising(backup')
    <3>1. Rising(backup) /\ DOMAIN backup' \subseteq Nat
      BY <1>m DEF InStages
    <3>. QED  BY <2>3, <3>1, RisingWithOneLess
  <2>7. Before(carried', backup')
    <3>1. CASE carried'[n] = Lost /\ UNCHANGED backup
      BY <2>1, <3>1 DEF InStages, Before, Precedes
    <3>2. CASE 1 \in DOMAIN backup /\ carried'[n] = backup[1]
               /\ \A i \in DOMAIN backup' : i + 1 \in DOMAIN backup /\ i + 1 > 1 /\ backup'[i] = backup[i + 1]
      BY <2>1, <3>2 DEF InStages, Before, Rising
    <3>. QED  BY <2>3, <3>1, <3>2
  <2>8. Known(carried)' /\ Known(backup)'
    BY <2>1, <2>3 DEF InStages, Known
  <2>9. \A e \in Directories : Known(buffer[e])' /\ Known(recorded[e])'
    BY <2>1 DEF InStages, Known
  <2>. QED  BY <1>0, <2>1, <2>4, <2>5, <2>6, <2>7, <2>8, <2>9 DEF InStages
<1>6. CASE FinishPush \/ WaitForNotifications \/ UNCHANGED systemVars
  BY <1>6, PathUntouched DEF InStages, Known
<1>. QED  BY <1>1, <1>2, <1>3, <1>4, <1>5, <1>6 DEF SystemNext, WorkerStep

-----------------------------------------------------------------------------
(* No change is forgotten on the way.                                      *)

OnItsWay(c) ==
  \/ c.directory \in discarded \/ c \in Range(recorded[c.directory])
  \/ InCompletion(c) \/ WithWorker(c) \/ InQueue(c)
  \/ missed # {}

\* A notification that is in the queue stays there, under its number.
LEMMA QueueKept ==
  ASSUME SystemTypeOK, InOrder, NEW c, InQueue(c),
         \A n \in DOMAIN carried : n \in DOMAIN carried' /\ carried'[n] = carried[n],
         \A i \in DOMAIN items : \E j \in DOMAIN items' : items'[j] = items[i]
  PROVE  InQueue(c)'
<1>1. PICK i \in DOMAIN items : carried[items[i]] \in {c, Lost}
  BY DEF InQueue
<1>2. items[i] \in DOMAIN carried
  <2>1. /\ items \in Seq(Nat) /\ carried \in Seq(Change \cup {Lost}) /\ Len(carried) = sent
        /\ delivered \in Nat
    BY DEF SystemTypeOK, TypeOK
  <2>2. i \in 1..Len(items) /\ items[i] \in Nat
    BY <2>1
  <2>3. delivered < items[i] /\ items[i] <= sent
    BY <2>2 DEF InOrder
  <2>4. DOMAIN carried = 1..sent /\ sent \in Nat
    BY <2>1
  <2>. QED  BY <2>1, <2>2, <2>3, <2>4
<1>3. PICK j \in DOMAIN items' : items'[j] = items[i]
  OBVIOUS
<1>. QED  BY <1>1, <1>2, <1>3 DEF InQueue

\* A push enters its notification and leaves the others where they are.
LEMMA PushBackEffect ==
  ASSUME TypeOK, PushBack
  PROVE  /\ \A i \in DOMAIN items : \E j \in DOMAIN items' : items'[j] = items[i]
         /\ \E j \in DOMAIN items' : items'[j] = sent + 1
         /\ UNCHANGED missed
<1>1. items \in Seq(Nat) /\ sent + 1 \in Nat
  BY QueueAssumption DEF TypeOK
<1>2. items' = Append(items, sent + 1) /\ UNCHANGED missed
  BY DEF PushBack
<1>3. /\ DOMAIN items = 1..Len(items) /\ DOMAIN items' = 1..Len(items) + 1
      /\ \A i \in 1..Len(items) : items'[i] = items[i]
      /\ items'[Len(items) + 1] = sent + 1
      /\ Len(items) \in Nat
  BY <1>1, <1>2, Appended
<1>. QED  BY <1>2, <1>3

LEMMA OnItsWayKept ==
  ASSUME SystemTypeOK, BytesAreThere, OneRead, InOrder, ChangeIsOnItsWay,
         [SystemNext]_systemVars
  PROVE  ChangeIsOnItsWay'
<1>0. \A c \in unknown : c \in Change /\ c.directory \in Directories
  BY DEF SystemTypeOK, Change
<1>t. /\ TypeOK
      /\ \A c \in unknown : OnItsWay(c)
  BY WorkerType DEF SystemTypeOK, ChangeIsOnItsWay, OnItsWay
<1>q. SUFFICES ASSUME NEW c \in unknown' PROVE OnItsWay(c)'
  BY DEF ChangeIsOnItsWay, OnItsWay
<1>1. ASSUME NEW d \in Directories, ChangeOnDisk(d) PROVE OnItsWay(c)'
  <2>1. /\ UNCHANGED <<vars, buffer, completions, worker, backup, carried>>
        /\ unknown' = unknown \cup {NewChange(d)}
        /\ \A e \in Directories \ {d} : recorded'[e] = recorded[e]
    BY <1>1, ChangeOnDiskEffect
  <2>2. \/ discarded' = discarded \cup {d}
        \/ /\ UNCHANGED discarded
           /\ \A i \in DOMAIN recorded[d] :
                i \in DOMAIN recorded'[d] /\ recorded'[d][i] = recorded[d][i]
           /\ \E n \in DOMAIN recorded'[d] : recorded'[d][n] = NewChange(d)
    BY <1>1, ChangeOnDiskEffect
  <2>3. CASE c = NewChange(d)
    <3>1. c.directory = d
      BY <2>3 DEF NewChange
    <3>. QED  BY <2>2, <2>3, <3>1 DEF OnItsWay, Range
  <2>4. CASE c \in unknown
    <3>1. InCompletion(c)' <=> InCompletion(c)
      BY <2>1 DEF InCompletion
    <3>2. WithWorker(c)' <=> WithWorker(c)
      BY <2>1 DEF WithWorker
    <3>3. InQueue(c)' <=> InQueue(c)
      BY <2>1 DEF InQueue, vars
    <3>4. missed' = missed
      BY <2>1 DEF vars
    <3>5. c.directory \in discarded \/ c \in Range(recorded[c.directory])
            => c.directory \in discarded' \/ c \in Range(recorded'[c.directory])
      BY <1>0, <2>1, <2>2, <2>4 DEF Range
    <3>. QED  BY <1>t, <2>4, <3>1, <3>2, <3>3, <3>4, <3>5 DEF OnItsWay
  <2>. QED  BY <2>1, <2>3, <2>4
<1>2. ASSUME NEW d \in Directories, ReadCompletes(d) PROVE OnItsWay(c)'
  <2>1. /\ UNCHANGED <<vars, worker, backup, carried, unknown>>
        /\ \A e \in Directories \ {d} : recorded'[e] = recorded[e] /\ buffer'[e] = buffer[e]
        /\ buffer'[d] = IF d \in discarded THEN buffer[d] ELSE recorded[d]
        /\ \A i \in DOMAIN completions : completions[i].directory # d
        /\ \A i \in DOMAIN completions :
             i \in DOMAIN completions' /\ completions'[i] = completions[i]
    BY <1>2, ReadCompletesEffect DEF OneRead
  <2>2. discarded' = discarded \ {d}
    BY <1>2 DEF ReadCompletes
  <2>3. PICK n \in DOMAIN completions' :
          /\ completions'[n].directory = d
          /\ completions'[n].bytes <=> d \notin discarded
    BY <1>2, ReadCompletesEffect
  <2>4. c \in unknown
    BY <2>1
  <2>5. WithWorker(c) \/ InQueue(c) \/ missed # {} => OnItsWay(c)'
    BY <2>1 DEF OnItsWay, WithWorker, InQueue, vars
  <2>6. InCompletion(c) => InCompletion(c)'
    BY <1>0, <2>1, <2>4 DEF InCompletion
  <2>7. c.directory \in discarded \/ c \in Range(recorded[c.directory])
          => c.directory \in discarded' \/ c \in Range(recorded'[c.directory]) \/ InCompletion(c)'
    <3>1. CASE c.directory # d
      BY <1>0, <2>1, <2>2, <2>4, <3>1
    <3>2. CASE c.directory = d
      BY <2>1, <2>3, <3>2 DEF InCompletion
    <3>. QED  BY <3>1, <3>2
  <2>. QED  BY <1>t, <2>4, <2>5, <2>6, <2>7 DEF OnItsWay
<1>3. CASE BackupBuffer
  <2>1. /\ worker = Resting /\ backup = <<>> /\ 1 \in DOMAIN completions
        /\ \A i \in DOMAIN completions :
             i # 1 => i - 1 \in DOMAIN completions' /\ completions'[i - 1] = completions[i]
        /\ worker' = [stage |-> "read", directory |-> completions[1].directory,
                      bytes |-> completions[1].bytes]
        /\ backup' = IF completions[1].bytes THEN buffer[completions[1].directory] ELSE <<>>
        /\ UNCHANGED <<vars, recorded, discarded, buffer, carried, unknown>>
    BY <1>3, BackupBufferEffect
  <2>2. c \in unknown
    BY <2>1
  <2>3. ~WithWorker(c)
    BY <2>1 DEF WithWorker, Range, Resting
  <2>4. InCompletion(c) => InCompletion(c)' \/ WithWorker(c)'
    <3>1. ASSUME NEW i \in DOMAIN completions, completions[i].directory = c.directory,
                 completions[i].bytes => c \in Range(buffer[c.directory])
          PROVE  InCompletion(c)' \/ WithWorker(c)'
      <4>1. CASE i = 1
        BY <2>1, <3>1, <4>1 DEF WithWorker
      <4>2. CASE i # 1
        BY <2>1, <3>1, <4>2 DEF InCompletion
      <4>. QED  BY <4>1, <4>2
    <3>. QED  BY <3>1 DEF InCompletion
  <2>5. InQueue(c)' <=> InQueue(c)
    BY <2>1 DEF InQueue, vars
  <2>. QED  BY <1>t, <2>1, <2>2, <2>3, <2>4, <2>5 DEF OnItsWay, vars
<1>4. CASE BeginRead
  <2>1. /\ worker \in Handled /\ worker.stage = "read"
        /\ worker'.stage = (IF worker.bytes THEN "push" ELSE "eventsLost")
        /\ worker'.bytes = worker.bytes
        /\ UNCHANGED <<vars, recorded, discarded, buffer, completions, backup, carried, unknown>>
    BY <1>4, BeginReadEffect
  <2>2. WithWorker(c) => WithWorker(c)'
    BY <2>1 DEF WithWorker
  <2>3. /\ InCompletion(c)' <=> InCompletion(c)
        /\ InQueue(c)' <=> InQueue(c)
        /\ missed' = missed
    BY <2>1 DEF InCompletion, InQueue, vars
  <2>. QED  BY <1>t, <2>1, <2>2, <2>3 DEF OnItsWay
<1>5. CASE ProcessNotification \/ NotifyEventsLost
  <2>1. /\ worker \in Handled /\ worker.stage # "read" /\ worker.stage # "rest"
        /\ worker' = Resting \/ worker' = worker
        /\ \A i \in DOMAIN carried : i \in DOMAIN carried' /\ carried'[i] = carried[i]
        /\ UNCHANGED <<recorded, discarded, buffer, completions, unknown>>
        /\ PushBack
    BY <1>5, PushEffect DEF Handled
  <2>2. /\ \A i \in DOMAIN items : \E j \in DOMAIN items' : items'[j] = items[i]
        /\ \E j \in DOMAIN items' : items'[j] = sent + 1
        /\ UNCHANGED missed
    BY <1>t, <2>1, PushBackEffect
  <2>3. \/ /\ worker.stage = "eventsLost" /\ carried'[sent + 1] = Lost
        \/ /\ worker.stage = "push" /\ carried'[sent + 1] = backup[1]
           /\ \A i \in DOMAIN backup :
                i # 1 => i - 1 \in DOMAIN backup' /\ backup'[i - 1] = backup[i]
    BY <1>5, PushEffect
  <2>4. InQueue(c) => InQueue(c)'
    BY <2>1, <2>2, QueueKept
  <2>5. WithWorker(c) => WithWorker(c)' \/ InQueue(c)'
    <3>1. CASE carried'[sent + 1] = Lost
      BY <2>2, <3>1 DEF InQueue
    <3>2. CASE /\ worker.stage = "push" /\ carried'[sent + 1] = backup[1]
               /\ \A i \in DOMAIN backup :
                    i # 1 => i - 1 \in DOMAIN backup' /\ backup'[i - 1] = backup[i]
      <4>1. worker.bytes
        BY <3>2 DEF BytesAreThere
      <4>2. WithWorker(c) => \E i \in DOMAIN backup : backup[i] = c
        BY <4>1 DEF WithWorker, Range
      <4>. QED  BY <2>2, <3>2, <4>2 DEF WithWorker, InQueue, Range
    <3>. QED  BY <2>3, <3>1, <3>2
  <2>6. InCompletion(c)' <=> InCompletion(c)
    BY <2>1 DEF InCompletion
  <2>. QED  BY <1>t, <2>1, <2>2, <2>4, <2>5, <2>6 DEF OnItsWay
<1>6. CASE FinishPush \/ WaitForNotifications \/ UNCHANGED systemVars
  <2>1. UNCHANGED <<recorded, discarded, buffer, completions, worker, backup, carried>>
    BY <1>6, PathUntouched
  <2>2. (InCompletion(c)' <=> InCompletion(c)) /\ (WithWorker(c)' <=> WithWorker(c))
    BY <2>1 DEF InCompletion, WithWorker
  <2>3. ASSUME c \in unknown, (InQueue(c) \/ missed # {}) => (InQueue(c)' \/ missed' # {})
        PROVE  OnItsWay(c)'
    BY <1>t, <2>1, <2>2, <2>3 DEF OnItsWay
  <2>4. ASSUME UNCHANGED <<items, missed, unknown>> PROVE OnItsWay(c)'
    <3>1. InQueue(c)' <=> InQueue(c)
      BY <2>1, <2>4 DEF InQueue
    <3>. QED  BY <2>3, <2>4, <3>1
  <2>5. CASE FinishPush
    <3>1. CASE ReleaseSemaphore \/ RaiseOverflow
      BY <1>6, <2>4, <2>5, <3>1 DEF FinishPush, ReleaseSemaphore, RaiseOverflow
    <3>2. CASE TakeBack
      BY <2>3, <2>4, <2>5, <3>2 DEF FinishPush, TakeBack
    <3>. QED  BY <2>5, <3>1, <3>2 DEF FinishPush, Producer
  <2>6. CASE Dispatch
    <3>1. items # <<>> /\ items' = Tail(items) /\ items \in Seq(Nat) /\ UNCHANGED missed
      BY <1>t, <2>6 DEF Dispatch, Pop, TypeOK
    <3>2. /\ Head(items) = items[1]
          /\ \A i \in DOMAIN items : i # 1 => i - 1 \in DOMAIN items' /\ items'[i - 1] = items[i]
      <4>1. /\ DOMAIN items = 1..Len(items) /\ DOMAIN items' = 1..Len(items) - 1
            /\ \A i \in 1..Len(items) - 1 : items'[i] = items[i + 1]
            /\ Head(items) = items[1] /\ Len(items) \in Nat
        BY <3>1, AllButFirst
      <4>. QED  BY <4>1
    <3>3. c \in unknown /\ carried[items[1]] \notin {c, Lost}
      BY <2>6, <3>2 DEF Dispatch
    <3>4. InQueue(c) => InQueue(c)'
      BY <2>1, <3>2, <3>3 DEF InQueue
    <3>. QED  BY <2>3, <3>1, <3>3, <3>4
  <2>7. CASE ForgetAll
    BY <2>7 DEF ForgetAll
  <2>8. CASE (Wait \/ CheckOverflow \/ PopEmpty) /\ UNCHANGED unknown
    BY <2>4, <2>8 DEF Wait, CheckOverflow, PopEmpty
  <2>9. CASE Clear /\ UNCHANGED unknown
    <3>1. missed' = missed \cup {items[i] : i \in 1..Len(items)}
      BY <2>9 DEF Clear
    <3>2. InQueue(c) => missed' # {}
      <4>1. DOMAIN items = 1..Len(items)
        BY <1>t DEF TypeOK
      <4>. QED  BY <3>1, <4>1 DEF InQueue
    <3>. QED  BY <2>3, <2>9, <3>1, <3>2
  <2>10. CASE UNCHANGED systemVars
    BY <2>4, <2>10 DEF systemVars, queueVars, vars
  <2>. QED  BY <1>6, <2>5, <2>6, <2>7, <2>8, <2>9, <2>10 DEF WaitForNotifications
<1>. QED  BY <1>1, <1>2, <1>3, <1>4, <1>5, <1>6 DEF SystemNext, WorkerStep

-----------------------------------------------------------------------------
LEMMA PathInvHolds == SystemSpec => [](SystemTypeOK /\ PathInv)
<1>1. SystemInit => SystemTypeOK
  <2>1. SystemInit => TypeOK
    BY InitType DEF SystemInit
  <2>. QED  BY <2>1, DirectoryAssumption DEF SystemInit, Init, SystemTypeOK, Resting
<1>2. SystemInit => PathInv
  BY DEF SystemInit, Resting, PathInv, BytesAreThere, OneRead, OwnRecords, InStages, Rising,
         Before, Known
<1>3. SystemTypeOK /\ PathInv /\ [SystemNext]_systemVars => (SystemTypeOK /\ PathInv)'
  BY SystemStepType, ReadsKept, StagesKept DEF PathInv
<1>. QED  BY <1>1, <1>2, <1>3, PTL DEF SystemSpec

\* The path from the disk is well typed: what a directory has recorded stays within
\* its buffer, the copied records last exactly as long as their completion is
\* handled, and each push of the queue carries one record (ReadDirectoryChangesPrivate.cpp).
THEOREM PathTypeCorrect == SystemSpec => []SystemTypeOK
<1>. QED  BY PathInvHolds, PTL

\* The changes of a directory are pushed in the order they were made, each at most
\* once: one read at a time, copied before the next is issued ("Double buffer
\* strategy", ReadDirectoryChangesPrivate.h:98).
THEOREM RecordsArePushedInOrder == SystemSpec => []PushedInOrder
<1>1. PathInv => PushedInOrder
  BY DEF PathInv, InStages, Rising, Precedes, PushedInOrder
<1>. QED  BY <1>1, PathInvHolds, PTL

\* Whatever the interleaving of disk, worker and notification thread, the news of
\* every change the cache does not know of is in one of the four buffers, or its loss
\* is about to be reported.
THEOREM NoChangeIsForgotten == SystemSpec => []ChangeIsOnItsWay
<1>1. SystemInit => ChangeIsOnItsWay
  BY DEF SystemInit, ChangeIsOnItsWay
<1>2. /\ SystemTypeOK /\ PathInv /\ InOrder /\ ChangeIsOnItsWay /\ [SystemNext]_systemVars
      => ChangeIsOnItsWay'
  BY OnItsWayKept DEF PathInv
<1>. QED  BY <1>1, <1>2, PathInvHolds, PathKeepsQueuePromises, PTL DEF SystemSpec
=============================================================================
