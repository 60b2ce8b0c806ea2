-------------------------- MODULE NotificationQueue --------------------------
(***************************************************************************)
(* CThreadSafeQueue (ThreadSafeQueue.h) between the watcher thread, which  *)
(* pushes, and the notification thread, which waits on its semaphore and   *)
(* pops (DirectoryMonitor::WaitForNotifications).                          *)
(*                                                                         *)
(* A push enters the item under the lock and releases the semaphore after  *)
(* it; when the semaphore is full it takes the item back, with no lock, and *)
(* raises the overflow flag last.  Each of these is a step, and so are the *)
(* consumer's wait, its look at the flag, and its critical section.        *)
(*                                                                         *)
(* A notification is the number of its push.                               *)
(***************************************************************************)
EXTENDS Naturals, Sequences

CONSTANTS QueueLimit,  \* maximum count of the semaphore (1000 in the code)
          MaxSent      \* bound on the number of pushes

ASSUME QueueAssumption == QueueLimit \in Nat \ {0} /\ MaxSent \in Nat

VARIABLES
  items,      \* the list
  semaphore,  \* count of m_hSemaphore
  overflow,   \* m_bOverflow
  producer,   \* what the watcher thread does next of a push
  consumer,   \* what the notification thread does next
  sent,       \* pushes begun
  delivered,  \* the last notification dispatched
  missed,     \* history: removed from the list without being dispatched, since
              \* the last time the cache was cleared
  failed      \* undefined behaviour was met, or an exception left the thread

vars == <<items, semaphore, overflow, producer, consumer, sent, delivered, missed, failed>>

TypeOK ==
  /\ items \in Seq(Nat)
  /\ semaphore \in 0..QueueLimit
  /\ overflow \in BOOLEAN
  /\ producer \in {"idle", "release", "takeBack", "flag"}
  /\ consumer \in {"wait", "check", "clear", "eventsLost", "pop"}
  /\ sent \in 0..MaxSent
  /\ delivered \in Nat
  /\ missed \in SUBSET Nat
  /\ failed \in BOOLEAN

Init ==
  /\ items = <<>>
  /\ semaphore = 0
  /\ overflow = FALSE
  /\ producer = "idle"
  /\ consumer = "wait"
  /\ sent = 0
  /\ delivered = 0
  /\ missed = {}
  /\ failed = FALSE

-----------------------------------------------------------------------------
(* push.                                                                   *)

\* Mutant: the semaphore is released only for the first item of an empty list.
PushSignalingFirst ==
  /\ producer = "idle"
  /\ sent < MaxSent
  /\ sent' = sent + 1
  /\ items' = Append(items, sent + 1)
  /\ producer' = IF items = <<>> THEN "release" ELSE "idle"
  /\ UNCHANGED <<semaphore, overflow, consumer, delivered, missed, failed>>

PushBack ==
  /\ producer = "idle"
  /\ sent < MaxSent
  /\ sent' = sent + 1
  /\ items' = Append(items, sent + 1)
  /\ producer' = "release"
  /\ UNCHANGED <<semaphore, overflow, consumer, delivered, missed, failed>>

\* ReleaseSemaphore fails when the count is at its maximum.
ReleaseSemaphore ==
  /\ producer = "release"
  /\ \/ /\ semaphore < QueueLimit
        /\ semaphore' = semaphore + 1
        /\ producer' = "idle"
     \/ /\ semaphore = QueueLimit
        /\ producer' = "takeBack"
        /\ UNCHANGED semaphore
  /\ UNCHANGED <<items, overflow, consumer, sent, delivered, missed, failed>>

\* Mutant: the oldest item is taken back.
TakeBackFront ==
  /\ producer = "takeBack"
  /\ items # <<>>
  /\ missed' = missed \cup {Head(items)}
  /\ items' = Tail(items)
  /\ producer' = "flag"
  /\ UNCHANGED <<semaphore, overflow, consumer, sent, delivered, failed>>

\* pop_back with no lock: undefined on an empty list, and undefined while the
\* consumer is in its critical section.
TakeBack ==
  /\ producer = "takeBack"
  /\ \/ /\ items # <<>>
        /\ missed' = missed \cup {items[Len(items)]}
        /\ items' = SubSeq(items, 1, Len(items) - 1)
        /\ producer' = "flag"
        /\ UNCHANGED failed
     \/ /\ items = <<>> \/ consumer \in {"clear", "pop"}
        /\ failed' = TRUE
        /\ UNCHANGED <<items, missed, producer>>
  /\ UNCHANGED <<semaphore, overflow, consumer, sent, delivered>>

RaiseOverflow ==
  /\ producer = "flag"
  /\ overflow' = TRUE
  /\ producer' = "idle"
  /\ UNCHANGED <<items, semaphore, consumer, sent, delivered, missed, failed>>

-----------------------------------------------------------------------------
(* The notification thread.                                                *)

\* WaitForMultipleObjectsEx returns with the semaphore taken once.
Wait ==
  /\ consumer = "wait"
  /\ semaphore > 0
  /\ semaphore' = semaphore - 1
  /\ consumer' = "check"
  /\ UNCHANGED <<items, overflow, producer, sent, delivered, missed, failed>>

\* overflow() reads the flag with no lock.
CheckOverflow ==
  /\ consumer = "check"
  /\ consumer' = IF overflow THEN "clear" ELSE "pop"
  /\ UNCHANGED <<items, semaphore, overflow, producer, sent, delivered, missed, failed>>

\* Mutant: the list is cleared and the flag lowered with no report to follow.
ClearUnreported ==
  /\ consumer = "clear"
  /\ semaphore' = IF Len(items) < semaphore THEN semaphore - Len(items) ELSE 0
  /\ items' = <<>>
  /\ overflow' = FALSE
  /\ consumer' = "wait"
  /\ missed' = missed \cup {items[i] : i \in 1..Len(items)}
  /\ UNCHANGED <<producer, sent, delivered, failed>>

\* clear: the semaphore is taken once for each item, as far as it goes.
Clear ==
  /\ consumer = "clear"
  /\ semaphore' = IF Len(items) < semaphore THEN semaphore - Len(items) ELSE 0
  /\ items' = <<>>
  /\ overflow' = FALSE
  /\ consumer' = "eventsLost"
  /\ missed' = missed \cup {items[i] : i \in 1..Len(items)}
  /\ UNCHANGED <<producer, sent, delivered, failed>>

\* m_onEventsLostCallback clears the cache.
OnEventsLost ==
  /\ consumer = "eventsLost"
  /\ missed' = {}
  /\ consumer' = "wait"
  /\ UNCHANGED <<items, semaphore, overflow, producer, sent, delivered, failed>>

Pop ==
  /\ consumer = "pop"
  /\ items # <<>>
  /\ delivered' = Head(items)
  /\ items' = Tail(items)
  /\ consumer' = "wait"
  /\ UNCHANGED <<semaphore, overflow, producer, sent, missed, failed>>

\* pop finds no item: the semaphore is drained and the caller, which does not look
\* at the result, dispatches a token and an action it never set.  They may be the
\* last ones that were popped, ask for the cache to be cleared, or name no token.
PopEmpty ==
  /\ consumer = "pop"
  /\ items = <<>>
  /\ semaphore' = 0
  /\ \/ consumer' = "wait" /\ UNCHANGED failed
     \/ consumer' = "eventsLost" /\ UNCHANGED failed
     \/ failed' = TRUE /\ UNCHANGED consumer
  /\ UNCHANGED <<items, overflow, producer, sent, delivered, missed>>

-----------------------------------------------------------------------------
Producer == ReleaseSemaphore \/ TakeBack \/ RaiseOverflow
Consumer == Wait \/ CheckOverflow \/ Clear \/ OnEventsLost \/ Pop \/ PopEmpty

Next == ~failed /\ (PushBack \/ Producer \/ Consumer)

Spec == Init /\ [][Next]_vars

\* A push that was begun is completed and the notification thread runs.
FairSpec == Spec /\ WF_vars(~failed /\ Producer) /\ WF_vars(~failed /\ Consumer)

-----------------------------------------------------------------------------
(* Properties.                                                             *)

\* No wakeup is lost: there are never more items than the semaphore, the push and
\* the pop that are under way account for, so a waiting consumer is woken for
\* every item in the list.
Pending(thread, stages) == IF thread \in stages THEN 1 ELSE 0
ItemsAreSignaled ==
  Len(items) <= semaphore + Pending(producer, {"release", "takeBack"})
                          + Pending(consumer, {"check", "clear", "pop"})

\* A notification that was taken back or cleared away is never forgotten: until the
\* cache has been cleared, the producer is about to raise the flag, the flag is up
\* or the consumer is about to clear the cache.
LossIsRemembered ==
  missed # {} => overflow \/ producer = "flag" \/ consumer = "eventsLost"

\* Notifications are dispatched in the order they were pushed, each at most once.  The
\* service below promises as much; the proofs use this form.
InOrder ==
  /\ delivered <= sent
  /\ \A i \in 1..Len(items) : delivered < items[i] /\ items[i] <= sent
  /\ \A i, j \in 1..Len(items) : i < j => items[i] < items[j]

\* The queue keeps the promise of NotificationService.
Service == INSTANCE NotificationService WITH pending <- items
ServiceSpec == Service!Spec

-----------------------------------------------------------------------------
(* What the comments promise and the code does not keep.                   *)

\* The handle is "signaled when there is a queue entry": never without one.
SignaledMeansEntry ==
  semaphore > 0 /\ consumer = "wait" /\ producer = "idle" => items # <<>>

\* "If the semaphore is full, then take back the entry": the entry is there.
EntryIsThereToTakeBack == producer = "takeBack" /\ ~failed => items # <<>>

\* The queue that overflowed is cleared and the loss reported.
LossIsReported == missed # {} ~> missed = {} \/ failed

=============================================================================
