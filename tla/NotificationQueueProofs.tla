----------------------- MODULE NotificationQueueProofs -----------------------
(***************************************************************************)
(* Proofs about NotificationQueue, for any limit of the queue and any      *)
(* number of pushes.                                                       *)
(***************************************************************************)
EXTENDS NotificationQueue, SequenceTheorems, TLAPS

\* Taking the last element off a sequence.
LEMMA AllButLast ==
  ASSUME NEW S, NEW s \in Seq(S), s # <<>>
  PROVE  /\ SubSeq(s, 1, Len(s) - 1) \in Seq(S)
         /\ Len(SubSeq(s, 1, Len(s) - 1)) = Len(s) - 1
         /\ \A i \in 1..Len(s) - 1 : SubSeq(s, 1, Len(s) - 1)[i] = s[i]
         /\ s[Len(s)] \in S
<1>. DEFINE n == Len(s)
            t == SubSeq(s, 1, n - 1)
<1>1. n \in Nat /\ n > 0 /\ \A i \in 1..n : s[i] \in S
  OBVIOUS
<1>2. /\ t \in Seq(S)
      /\ Len(t) = IF 1 <= n - 1 THEN n - 1 - 1 + 1 ELSE 0
      /\ \A i \in 1..n - 1 - 1 + 1 : t[i] = s[1 + i - 1]
  <2>1. \A i \in 1..n - 1 : s[i] \in S
    BY <1>1
  <2>. QED  BY <1>1, <2>1, SubSeqProperties
<1>. HIDE DEF n, t
<1>3. Len(t) = n - 1
  BY <1>1, <1>2
<1>4. \A i \in 1..n - 1 : t[i] = s[i]
  BY <1>1, <1>2
<1>5. s[n] \in S
  BY <1>1
<1>. QED  BY <1>2, <1>3, <1>4, <1>5 DEF n, t

\* Taking the first element off a sequence.
LEMMA AllButFirst ==
  ASSUME NEW S, NEW s \in Seq(S), s # <<>>
  PROVE  /\ Tail(s) \in Seq(S)
         /\ Len(Tail(s)) = Len(s) - 1
         /\ \A i \in 1..Len(s) - 1 : Tail(s)[i] = s[i + 1]
         /\ Head(s) = s[1] /\ s[1] \in S
OBVIOUS

-----------------------------------------------------------------------------
LEMMA StepType ==
  ASSUME TypeOK, [Next]_vars PROVE TypeOK'
<1>. USE QueueAssumption DEF TypeOK
<1>1. CASE PushBack
  BY <1>1 DEF PushBack
<1>2. CASE ReleaseSemaphore
  BY <1>2 DEF ReleaseSemaphore
<1>3. CASE TakeBack
  <2>1. CASE items # <<>> /\ items' = SubSeq(items, 1, Len(items) - 1)
                          /\ missed' = missed \cup {items[Len(items)]}
    BY <1>3, <2>1, AllButLast DEF TakeBack
  <2>2. CASE UNCHANGED <<items, missed, producer>> /\ failed' = TRUE
    BY <1>3, <2>2 DEF TakeBack
  <2>. QED  BY <1>3, <2>1, <2>2 DEF TakeBack
<1>4. CASE RaiseOverflow
  BY <1>4 DEF RaiseOverflow
<1>5. CASE Wait
  BY <1>5 DEF Wait
<1>6. CASE CheckOverflow
  BY <1>6 DEF CheckOverflow
<1>7. CASE Clear
  <2>1. semaphore' \in 0..QueueLimit
    BY <1>7 DEF Clear
  <2>2. missed' \in SUBSET Nat
    <3>1. \A i \in 1..Len(items) : items[i] \in Nat
      OBVIOUS
    <3>. QED  BY <1>7, <3>1 DEF Clear
  <2>3. items' \in Seq(Nat)
    BY <1>7 DEF Clear
  <2>. QED  BY <1>7, <2>1, <2>2, <2>3 DEF Clear
<1>8. CASE OnEventsLost
  BY <1>8 DEF OnEventsLost
<1>9. CASE Pop
  BY <1>9, AllButFirst DEF Pop
<1>10. CASE PopEmpty
  <2>1. semaphore' \in 0..QueueLimit
    BY <1>10 DEF PopEmpty
  <2>2. consumer' \in {"wait", "eventsLost", "pop"}
    BY <1>10 DEF PopEmpty
  <2>3. failed' \in BOOLEAN
    BY <1>10 DEF PopEmpty
  <2>. QED  BY <1>10, <2>1, <2>2, <2>3 DEF PopEmpty
<1>11. CASE UNCHANGED vars
  BY <1>11 DEF vars
<1>. QED  BY <1>1, <1>2, <1>3, <1>4, <1>5, <1>6, <1>7, <1>8, <1>9, <1>10, <1>11
          DEF Next, Producer, Consumer

LEMMA InitType == Init => TypeOK
<1>. SUFFICES ASSUME Init PROVE TypeOK
  OBVIOUS
<1>1. items \in Seq(Nat) /\ missed \in SUBSET Nat
  BY DEF Init
<1>2. semaphore \in 0..QueueLimit /\ sent \in 0..MaxSent /\ delivered \in Nat
  BY QueueAssumption DEF Init
<1>. QED  BY <1>1, <1>2 DEF Init, TypeOK

\* The queue is well typed: its semaphore stays within its limits.
THEOREM TypeCorrect == Spec => []TypeOK
<1>. QED  BY InitType, StepType, PTL DEF Spec

-----------------------------------------------------------------------------
\* Every item in the list has its count in the semaphore, or a push or a pop under
\* way that accounts for it, whatever the interleaving of the two threads.
THEOREM NoWakeupIsLost == Spec => []ItemsAreSignaled
<1>1. Init => ItemsAreSignaled
  BY DEF Init, ItemsAreSignaled, Pending
<1>2. ASSUME TypeOK, ItemsAreSignaled, [Next]_vars PROVE ItemsAreSignaled'
  <2>. USE <1>2, QueueAssumption DEF TypeOK, ItemsAreSignaled, Pending
  <2>1. CASE PushBack
    <3>1. Len(items') = Len(items) + 1
      BY <2>1 DEF PushBack
    <3>. QED  BY <2>1, <3>1 DEF PushBack
  <2>2. CASE ReleaseSemaphore
    BY <2>2 DEF ReleaseSemaphore
  <2>3. CASE TakeBack
    <3>1. CASE items # <<>> /\ items' = SubSeq(items, 1, Len(items) - 1) /\ producer' = "flag"
      BY <2>3, <3>1, AllButLast DEF TakeBack
    <3>2. CASE UNCHANGED <<items, missed, producer>>
      BY <2>3, <3>2 DEF TakeBack
    <3>. QED  BY <2>3, <3>1, <3>2 DEF TakeBack
  <2>4. CASE RaiseOverflow
    BY <2>4 DEF RaiseOverflow
  <2>5. CASE Wait
    BY <2>5 DEF Wait
  <2>6. CASE CheckOverflow
    BY <2>6 DEF CheckOverflow
  <2>7. CASE Clear
    <3>1. Len(items') = 0
      BY <2>7 DEF Clear
    <3>2. semaphore' \in Nat
      BY <2>7 DEF Clear
    <3>3. /\ Pending(producer, {"release", "takeBack"})' \in {0, 1}
          /\ Pending(consumer, {"check", "clear", "pop"})' \in {0, 1}
      OBVIOUS
    <3>. HIDE DEF Pending
    <3>. QED  BY <3>1, <3>2, <3>3
  <2>8. CASE OnEventsLost
    BY <2>8 DEF OnEventsLost
  <2>9. CASE Pop
    BY <2>9, AllButFirst DEF Pop
  <2>10. CASE PopEmpty
    BY <2>10 DEF PopEmpty
  <2>11. CASE UNCHANGED vars
    BY <2>11 DEF vars
  <2>. QED  BY <2>1, <2>2, <2>3, <2>4, <2>5, <2>6, <2>7, <2>8, <2>9, <2>10, <2>11
            DEF Next, Producer, Consumer
<1>. QED  BY <1>1, <1>2, TypeCorrect, PTL DEF Spec

-----------------------------------------------------------------------------
(***************************************************************************)
(* Where SignaledMeansEntry breaks: as long as the list is not cleared     *)
(* (ThreadSafeQueue.h:90-100), the semaphore counts the items exactly,     *)
(* also when a push finds it full and takes its item back.                 *)
(***************************************************************************)
UntilClear == Init /\ [][Next /\ ~Clear]_vars

SignalsMatch ==
  Len(items) = semaphore + Pending(producer, {"release", "takeBack"})
                         + Pending(consumer, {"check", "clear", "pop"})

LEMMA SignalsMatchStep ==
  ASSUME TypeOK, SignalsMatch, [Next /\ ~Clear]_vars PROVE SignalsMatch'
<1>. USE QueueAssumption DEF TypeOK, SignalsMatch, Pending
<1>1. CASE PushBack
  <2>1. Len(items') = Len(items) + 1
    BY <1>1 DEF PushBack
  <2>. QED  BY <1>1, <2>1 DEF PushBack
<1>2. CASE ReleaseSemaphore
  BY <1>2 DEF ReleaseSemaphore
<1>3. CASE TakeBack
  <2>1. CASE items # <<>> /\ items' = SubSeq(items, 1, Len(items) - 1) /\ producer' = "flag"
    BY <1>3, <2>1, AllButLast DEF TakeBack
  <2>2. CASE UNCHANGED <<items, missed, producer>>
    BY <1>3, <2>2 DEF TakeBack
  <2>. QED  BY <1>3, <2>1, <2>2 DEF TakeBack
<1>4. CASE Wait
  BY <1>4 DEF Wait
<1>5. CASE Pop
  BY <1>5, AllButFirst DEF Pop
<1>6. CASE PopEmpty
  <2>1. Len(items) = 0
    BY <1>6 DEF PopEmpty
  <2>. QED  BY <1>6, <2>1 DEF PopEmpty
<1>7. CASE RaiseOverflow \/ CheckOverflow \/ OnEventsLost \/ UNCHANGED vars
  BY <1>7 DEF RaiseOverflow, CheckOverflow, OnEventsLost, vars
<1>. QED  BY <1>1, <1>2, <1>3, <1>4, <1>5, <1>6, <1>7 DEF Next, Producer, Consumer

\* Until the first clear no signal is without an entry, no push takes an item back that
\* is not there, and no pop finds the list empty: of what the comments of the queue
\* promise, only clear() takes anything away.
THEOREM OnlyClearLosesCount ==
  UntilClear => [](/\ SignaledMeansEntry
                   /\ EntryIsThereToTakeBack
                   /\ consumer = "pop" => items # <<>>)
<1>1. Init => SignalsMatch
  BY DEF Init, SignalsMatch, Pending
<1>2. [Next /\ ~Clear]_vars => [Next]_vars
  OBVIOUS
<1>3. ASSUME TypeOK, SignalsMatch
      PROVE  /\ SignaledMeansEntry
             /\ EntryIsThereToTakeBack
             /\ consumer = "pop" => items # <<>>
  BY <1>3 DEF TypeOK, SignalsMatch, Pending, SignaledMeansEntry, EntryIsThereToTakeBack
<1>. QED  BY InitType, StepType, SignalsMatchStep, <1>1, <1>2, <1>3, PTL DEF UntilClear

-----------------------------------------------------------------------------
\* What was taken back or cleared away is remembered until the cache is cleared.
THEOREM NoLossIsForgotten == Spec => []LossIsRemembered
<1>1. Init => LossIsRemembered
  BY DEF Init, LossIsRemembered
<1>2. LossIsRemembered /\ [Next]_vars => LossIsRemembered'
  BY DEF LossIsRemembered, Next, vars, Producer, Consumer, PushBack, ReleaseSemaphore,
         TakeBack, RaiseOverflow, Wait, CheckOverflow, Clear, OnEventsLost, Pop, PopEmpty
<1>. QED  BY <1>1, <1>2, PTL DEF Spec

-----------------------------------------------------------------------------
\* Notifications are dispatched in the order of their pushes, each at most once.
THEOREM DispatchIsInOrder == Spec => []InOrder
<1>1. Init => InOrder
  BY DEF Init, InOrder
<1>2. ASSUME TypeOK, InOrder, [Next]_vars PROVE InOrder'
  <2>. USE <1>2 DEF TypeOK, InOrder
  <2>1. CASE UNCHANGED <<items, delivered, sent>>
    BY <2>1
  <2>2. CASE PushBack
    <3>1. /\ Len(items') = Len(items) + 1
          /\ \A i \in 1..Len(items) : items'[i] = items[i]
          /\ items'[Len(items) + 1] = sent + 1
      BY <2>2 DEF PushBack
    <3>. QED  BY <2>2, <3>1 DEF PushBack
  <2>3. CASE TakeBack
    <3>1. CASE items # <<>> /\ items' = SubSeq(items, 1, Len(items) - 1)
      <4>1. /\ Len(items') = Len(items) - 1
            /\ \A i \in 1..Len(items) - 1 : items'[i] = items[i]
        BY <3>1, AllButLast
      <4>2. Len(items) \in Nat /\ \A i \in 1..Len(items') : i \in 1..Len(items) /\ items'[i] = items[i]
        BY <4>1
      <4>3. delivered' = delivered /\ sent' = sent
        BY <2>3 DEF TakeBack
      <4>. QED  BY <4>2, <4>3
    <3>. QED  BY <2>1, <2>3, <3>1 DEF TakeBack
  <2>4. CASE Clear
    BY <2>4 DEF Clear
  <2>5. CASE Pop
    BY <2>5, AllButFirst DEF Pop
  <2>. QED  BY <2>1, <2>2, <2>3, <2>4, <2>5
            DEF Next, vars, Producer, Consumer, ReleaseSemaphore, RaiseOverflow, Wait,
                CheckOverflow, OnEventsLost, PopEmpty
<1>. QED  BY <1>1, <1>2, TypeCorrect, PTL DEF Spec

-----------------------------------------------------------------------------
\* The steps of push, pop and clear, taken apart, keep the promise of
\* NotificationService: nothing is dropped outside Reject and Drop, which are owed a
\* report, and what is delivered is the oldest notification pending.
THEOREM Refinement == Spec => ServiceSpec
<1>1. Init => Service!Init
  BY DEF Init, Service!Init
<1>2. ASSUME TypeOK, [Next]_vars PROVE [Service!Next]_(Service!vars)
  <2>. USE <1>2 DEF Service!Next
  <2>1. CASE PushBack /\ ~failed
    <3>1. Service!Send
      BY <2>1 DEF PushBack, Service!Send
    <3>. QED  BY <2>1, <3>1
  <2>2. CASE TakeBack /\ ~failed
    <3>1. CASE UNCHANGED <<items, missed, producer>> /\ failed' = TRUE
      <4>1. Service!Fail
        BY <2>2, <3>1 DEF TakeBack, Service!Fail
      <4>. QED  BY <2>2, <4>1
    <3>2. CASE items # <<>> /\ UNCHANGED failed
      <4>1. Service!Reject
        BY <2>2, <3>2 DEF TakeBack, Service!Reject
      <4>. QED  BY <2>2, <4>1
    <3>. QED  BY <2>2, <3>1, <3>2 DEF TakeBack
  <2>3. CASE Clear /\ ~failed
    <3>1. Service!Drop
      BY <2>3 DEF Clear, Service!Drop
    <3>. QED  BY <2>3, <3>1
  <2>4. CASE OnEventsLost /\ ~failed
    <3>1. Service!Report
      BY <2>4 DEF OnEventsLost, Service!Report
    <3>. QED  BY <2>4, <3>1
  <2>5. CASE Pop /\ ~failed
    <3>1. Service!Deliver
      BY <2>5 DEF Pop, Service!Deliver
    <3>. QED  BY <2>5, <3>1
  <2>6. CASE PopEmpty /\ ~failed
    <3>1. CASE failed' = TRUE
      <4>1. Service!Fail
        BY <2>6, <3>1 DEF PopEmpty, Service!Fail
      <4>. QED  BY <2>6, <4>1
    <3>2. CASE UNCHANGED failed
      BY <2>6, <3>2 DEF PopEmpty, Service!vars
    <3>. QED  BY <2>6, <3>1, <3>2 DEF PopEmpty
  <2>7. CASE UNCHANGED <<sent, items, delivered, missed, failed>>
    BY <2>7 DEF Service!vars
  <2>. QED  BY <2>1, <2>2, <2>3, <2>4, <2>5, <2>6, <2>7
            DEF Next, vars, Producer, Consumer, ReleaseSemaphore, RaiseOverflow, Wait,
                CheckOverflow
<1>. QED  BY <1>1, <1>2, TypeCorrect, PTL DEF Spec, ServiceSpec, Service!Spec
=============================================================================
