-------------------------- MODULE ReadChangesProofs --------------------------
(***************************************************************************)
(* Proofs about ReadChanges, for any finite set of directories, any of     *)
(* them unreliable, and any number of workers.                             *)
(***************************************************************************)
EXTENDS ReadChanges, FiniteSetTheorems, TLAPS

-----------------------------------------------------------------------------
(* What a step does to the queue of a worker.                              *)

LEMMA APCTypes ==
  /\ \A kind \in {"add", "complete", "failed", "aborted"} : \A d \in Directories :
       [kind |-> kind, directory |-> d] \in APC
  /\ [kind |-> "terminate"] \in APC
  /\ \A a \in APC : a.kind # "terminate" => a.directory \in Directories
BY DEF APC

LEMMA DequeueEffect ==
  ASSUME TypeOK, NEW w \in Workers, apcs[w] # <<>>, Dequeue(w)
  PROVE  /\ apcs' \in [Workers -> Seq(APC)]
         /\ \A v \in Workers : v # w => apcs'[v] = apcs[v]
         /\ Len(apcs'[w]) = Len(apcs[w]) - 1
         /\ \A i \in 1..Len(apcs'[w]) :
              i + 1 \in 1..Len(apcs[w]) /\ apcs'[w][i] = apcs[w][i + 1]
<1>1. apcs \in [Workers -> Seq(APC)] /\ apcs[w] \in Seq(APC)
  BY DEF TypeOK
<1>2. Tail(apcs[w]) \in Seq(APC) /\ Len(Tail(apcs[w])) = Len(apcs[w]) - 1 /\ Len(apcs[w]) > 0
  BY <1>1
<1>3. apcs' = [apcs EXCEPT ![w] = Tail(apcs[w])]
  BY DEF Dequeue
<1>4. apcs'[w] = Tail(apcs[w])
  BY <1>1, <1>3
<1>5. \A i \in 1..Len(Tail(apcs[w])) :
        i + 1 \in 1..Len(apcs[w]) /\ Tail(apcs[w])[i] = apcs[w][i + 1]
  BY <1>1, <1>2
<1>. QED  BY <1>1, <1>2, <1>3, <1>4, <1>5

LEMMA QueueEffect ==
  ASSUME TypeOK, NEW w \in Workers, NEW a \in APC, apcs' = Queue(w, a)
  PROVE  /\ apcs' \in [Workers -> Seq(APC)]
         /\ \A v \in Workers : v # w => apcs'[v] = apcs[v]
         /\ Len(apcs'[w]) = Len(apcs[w]) + 1 /\ Len(apcs[w]) \in Nat
         /\ \A i \in 1..Len(apcs[w]) : apcs'[w][i] = apcs[w][i]
         /\ apcs'[w][Len(apcs[w]) + 1] = a
<1>1. apcs \in [Workers -> Seq(APC)] /\ apcs[w] \in Seq(APC)
  BY DEF TypeOK
<1>2. apcs' = [apcs EXCEPT ![w] = Append(apcs[w], a)] /\ Append(apcs[w], a) \in Seq(APC)
  BY <1>1 DEF Queue
<1>3. apcs'[w] = Append(apcs[w], a)
  BY <1>1, <1>2
<1>. QED  BY <1>1, <1>2, <1>3

LEMMA FunctionIsSequence ==
  ASSUME NEW S, NEW n \in Nat, NEW f \in [1..n -> S]
  PROVE  f \in Seq(S) /\ Len(f) = n
OBVIOUS

\* The cancelled reads complete in some order, behind what was queued already.
LEMMA CancelEffect ==
  ASSUME TypeOK, NEW w \in Workers, RequestTermination(w)
  PROVE  /\ apcs' \in [Workers -> Seq(APC)]
         /\ \A v \in Workers : v # w => apcs'[v] = apcs[v]
         /\ \E n \in Nat : \E order \in [1..n -> Cancelled(w)] :
              /\ Len(apcs[w]) \in Nat \ {0}
              /\ \A i, j \in 1..n : i # j => order[i] # order[j]
              /\ Len(apcs'[w]) = Len(apcs[w]) - 1 + n
              /\ \A i \in 1..(Len(apcs[w]) - 1) : apcs'[w][i] = apcs[w][i + 1]
              /\ \A i \in 1..n : apcs'[w][Len(apcs[w]) - 1 + i]
                                   = [kind |-> "aborted", directory |-> order[i]]
<1>1. apcs \in [Workers -> Seq(APC)] /\ apcs[w] \in Seq(APC) /\ apcs[w] # <<>>
  BY DEF TypeOK, RequestTermination, Runs
<1>2. Cancelled(w) \subseteq Directories /\ Cardinality(Cancelled(w)) \in Nat
  <2>1. Cancelled(w) \in SUBSET Directories
    BY DEF Cancelled, TypeOK
  <2>. QED  BY <2>1, WorkersAssumption, FS_Subset, FS_CardinalityType
<1>. DEFINE n == Cardinality(Cancelled(w))
<1>3. PICK order \in SetToSeqs(Cancelled(w)) :
        apcs' = [apcs EXCEPT ![w] = Tail(@) \o
                   [i \in DOMAIN order |-> [kind |-> "aborted", directory |-> order[i]]]]
  BY DEF RequestTermination
<1>4. order \in [1..n -> Cancelled(w)] /\ \A i, j \in 1..n : i # j => order[i] # order[j]
  BY DEF SetToSeqs
<1>. DEFINE aborted == [i \in 1..n |-> [kind |-> "aborted", directory |-> order[i]]]
<1>5. aborted \in [1..n -> APC]
  <2>1. \A i \in 1..n : [kind |-> "aborted", directory |-> order[i]] \in APC
    BY <1>2, <1>4, APCTypes
  <2>. QED  BY <2>1
<1>6. apcs' = [apcs EXCEPT ![w] = Tail(apcs[w]) \o aborted]
  BY <1>3, <1>4
<1>7. \A i \in 1..n : aborted[i] = [kind |-> "aborted", directory |-> order[i]]
  OBVIOUS
<1>. HIDE DEF aborted, n
<1>8. aborted \in Seq(APC) /\ Len(aborted) = n
  BY <1>2, <1>5, FunctionIsSequence DEF n
<1>9. Tail(apcs[w]) \in Seq(APC) /\ Len(Tail(apcs[w])) = Len(apcs[w]) - 1
      /\ Len(apcs[w]) \in Nat \ {0}
      /\ \A i \in 1..(Len(apcs[w]) - 1) : Tail(apcs[w])[i] = apcs[w][i + 1]
  BY <1>1
<1>10. apcs'[w] = Tail(apcs[w]) \o aborted
  BY <1>1, <1>6
<1>11. /\ apcs'[w] \in Seq(APC)
       /\ Len(apcs'[w]) = Len(apcs[w]) - 1 + n
       /\ \A i \in 1..(Len(apcs[w]) - 1) : apcs'[w][i] = apcs[w][i + 1]
       /\ \A i \in 1..n : apcs'[w][Len(apcs[w]) - 1 + i] = aborted[i]
  <2>1. PICK rest \in Seq(APC) : rest = Tail(apcs[w])
    BY <1>9
  <2>2. Len(rest) = Len(apcs[w]) - 1 /\ Len(apcs[w]) - 1 \in Nat
    BY <1>9, <2>1
  <2>3. \A i \in 1..(Len(apcs[w]) - 1) : rest[i] = apcs[w][i + 1]
    BY <1>9, <2>1
  <2>4. apcs'[w] = rest \o aborted
    BY <1>10, <2>1
  <2>0. rest \in Seq(APC) /\ aborted \in Seq(APC)
    BY <1>8, <2>1
  <2>5. /\ rest \o aborted \in Seq(APC)
        /\ Len(rest \o aborted) = Len(rest) + Len(aborted)
        /\ \A i \in 1..Len(rest) : (rest \o aborted)[i] = rest[i]
        /\ \A i \in 1..Len(aborted) : (rest \o aborted)[Len(rest) + i] = aborted[i]
    <3>1. rest \o aborted \in Seq(APC) /\ Len(rest \o aborted) = Len(rest) + Len(aborted)
      BY <2>0
    <3>2. ASSUME NEW i \in 1..Len(rest) PROVE (rest \o aborted)[i] = rest[i]
      BY <2>0
    <3>3. ASSUME NEW i \in 1..Len(aborted) PROVE (rest \o aborted)[Len(rest) + i] = aborted[i]
      BY <2>0
    <3>. QED  BY <3>1, <3>2, <3>3
  <2>6. Len(apcs'[w]) = Len(apcs[w]) - 1 + n /\ apcs'[w] \in Seq(APC)
    BY <1>8, <2>2, <2>4, <2>5
  <2>7. ASSUME NEW i \in 1..(Len(apcs[w]) - 1) PROVE apcs'[w][i] = apcs[w][i + 1]
    BY <1>8, <2>2, <2>3, <2>4, <2>5
  <2>8. ASSUME NEW i \in 1..n PROVE apcs'[w][Len(apcs[w]) - 1 + i] = aborted[i]
    BY <1>8, <2>2, <2>4, <2>5
  <2>. QED  BY <2>6, <2>7, <2>8
<1>12. \A v \in Workers : v # w => apcs'[v] = apcs[v]
  BY <1>1, <1>6
<1>13. apcs' \in [Workers -> Seq(APC)]
  BY <1>1, <1>6, <1>10, <1>11
<1>14. n \in Nat
  BY <1>2 DEF n
<1>15. order \in [1..n -> Cancelled(w)] /\ \A i, j \in 1..n : i # j => order[i] # order[j]
  BY <1>4 DEF n
<1>16. /\ \A i \in 1..n : apcs'[w][Len(apcs[w]) - 1 + i] = [kind |-> "aborted", directory |-> order[i]]
       /\ Len(apcs'[w]) = Len(apcs[w]) - 1 + n
       /\ \A i \in 1..(Len(apcs[w]) - 1) : apcs'[w][i] = apcs[w][i + 1]
  BY <1>7, <1>11
<1>17. \E m \in Nat : \E o \in [1..m -> Cancelled(w)] :
         /\ Len(apcs[w]) \in Nat \ {0}
         /\ \A i, j \in 1..m : i # j => o[i] # o[j]
         /\ Len(apcs'[w]) = Len(apcs[w]) - 1 + m
         /\ \A i \in 1..(Len(apcs[w]) - 1) : apcs'[w][i] = apcs[w][i + 1]
         /\ \A i \in 1..m : apcs'[w][Len(apcs[w]) - 1 + i]
                              = [kind |-> "aborted", directory |-> o[i]]
  <2>. USE <1>14, <1>15
  <2>. WITNESS n \in Nat
  <2>. WITNESS order \in [1..n -> Cancelled(w)]
  <2>. QED  BY <1>9, <1>15, <1>16
<1>. QED  BY <1>12, <1>13, <1>17

-----------------------------------------------------------------------------
(* Types.  A thread that is about to queue knows a worker.                 *)

HasThread == \A d \in Directories : add[d] = "queue" => hThread \in Workers

LEMMA BeginReadType ==
  ASSUME TypeOK, NEW w \in Workers, NEW d \in Directories, BeginRead(w, d)
  PROVE  reader' \in [Directories -> Workers \cup {NoWorker}]
BY DEF TypeOK, BeginRead

LEMMA RunsEffect ==
  ASSUME TypeOK, NEW w \in Workers, NEW a, Runs(w, a)
  PROVE  /\ apcs[w] # <<>> /\ Len(apcs[w]) \in Nat \ {0} /\ apcs[w][1] = a /\ a \in APC
         /\ worker' = [worker EXCEPT ![w] = "awake"]
         /\ worker' \in [Workers -> {"none", "check", "asleep", "awake", "ended"}]
         /\ worker[w] \in {"asleep", "awake"}
<1>1. apcs[w] \in Seq(APC) /\ apcs[w] # <<>> /\ a = Head(apcs[w])
  BY DEF TypeOK, Runs
<1>2. Len(apcs[w]) \in Nat \ {0} /\ apcs[w][1] = a /\ a \in APC
  BY <1>1
<1>. QED  BY <1>1, <1>2 DEF TypeOK, Runs

-----------------------------------------------------------------------------
(***************************************************************************)
(* The inductive invariant of OutstandingCounts, which says that the       *)
(* counter is right, and so does not rest on m_nOutstandingRequests alone: *)
(* a request that is counted off must have been counted, once.  A          *)
(* directory is in at most one APC or pending read at a time, and its      *)
(* request is at the stage that the APC or read belongs to.                *)
(***************************************************************************)
Of(a, d) == a.kind # "terminate" /\ a.directory = d

OneAPC ==
  \A v, w \in Workers : \A i \in 1..Len(apcs[v]), j \in 1..Len(apcs[w]) : \A d \in Directories :
    Of(apcs[v][i], d) /\ Of(apcs[w][j], d) => v = w /\ i = j

StageOf(a) == IF a.kind = "add" THEN "queued" ELSE "opened"

APCsFit ==
  \A w \in Workers : \A i \in 1..Len(apcs[w]) : \A d \in Directories :
    Of(apcs[w][i], d) => reader[d] = NoWorker /\ request[d] = StageOf(apcs[w][i])

ReadersFit == \A d \in Directories : reader[d] # NoWorker => request[d] = "opened"

NotYetAdded == \A d \in Directories : add[d] # "done" => request[d] = "none"

Opened == {d \in Directories : request[d] = "opened"}

RequestsInv == OneAPC /\ APCsFit /\ ReadersFit /\ NotYetAdded /\ OutstandingCounts

\* When the APC of a directory has run, none is left for it.
LEMMA RunKeepsOne ==
  ASSUME TypeOK, OneAPC, NEW w \in Workers, NEW d \in Directories, NEW a, Of(a, d),
         Runs(w, a), Dequeue(w)
  PROVE  /\ OneAPC'
         /\ \A v \in Workers : \A i \in 1..Len(apcs'[v]) :
              /\ ~Of(apcs'[v][i], d)
              /\ \E j \in 1..Len(apcs[v]) : apcs'[v][i] = apcs[v][j]
<1>1. /\ apcs[w] # <<>> /\ Len(apcs[w]) \in Nat \ {0} /\ apcs[w][1] = a
  BY RunsEffect
<1>. DEFINE was(v, i) == IF v = w THEN i + 1 ELSE i
<1>2. \A v \in Workers : \A i \in 1..Len(apcs'[v]) :
        /\ was(v, i) \in 1..Len(apcs[v])
        /\ apcs'[v][i] = apcs[v][was(v, i)]
        /\ v = w => was(v, i) # 1
  BY <1>1, DequeueEffect
<1>3. \A v \in Workers : \A i \in 1..Len(apcs'[v]) : ~Of(apcs'[v][i], d)
  <2>. SUFFICES ASSUME NEW v \in Workers, NEW i \in 1..Len(apcs'[v]), Of(apcs'[v][i], d)
                PROVE  FALSE
    OBVIOUS
  <2>1. 1 \in 1..Len(apcs[w]) /\ Of(apcs[w][1], d)
    BY <1>1
  <2>2. was(v, i) \in 1..Len(apcs[v]) /\ Of(apcs[v][was(v, i)], d) /\ (v = w => was(v, i) # 1)
    BY <1>2
  <2>. HIDE DEF was
  <2>. QED  BY <2>1, <2>2 DEF OneAPC
<1>4. OneAPC'
  <2>. SUFFICES ASSUME NEW u \in Workers, NEW v \in Workers, NEW i \in 1..Len(apcs'[u]),
                       NEW j \in 1..Len(apcs'[v]), NEW e \in Directories,
                       Of(apcs'[u][i], e), Of(apcs'[v][j], e)
                PROVE  u = v /\ i = j
    BY DEF OneAPC, Of
  <2>1. /\ was(u, i) \in 1..Len(apcs[u]) /\ Of(apcs[u][was(u, i)], e)
        /\ was(v, j) \in 1..Len(apcs[v]) /\ Of(apcs[v][was(v, j)], e)
    BY <1>2
  <2>2. u = v /\ was(u, i) = was(v, j)
    <3>. HIDE DEF was
    <3>. QED  BY <2>1 DEF OneAPC
  <2>. QED  BY <2>2
<1>. HIDE DEF was
<1>. QED  BY <1>2, <1>3, <1>4

\* An APC for a directory that is in no other.
LEMMA QueueKeepsOne ==
  ASSUME TypeOK, OneAPC, NEW w \in Workers, NEW a \in APC, apcs' = Queue(w, a),
         \A d \in Directories : Of(a, d) =>
           \A v \in Workers : \A i \in 1..Len(apcs[v]) : ~Of(apcs[v][i], d)
  PROVE  /\ OneAPC'
         /\ \A v \in Workers : \A i \in 1..Len(apcs'[v]) :
              apcs'[v][i] = a \/ \E j \in 1..Len(apcs[v]) : apcs'[v][i] = apcs[v][j]
         /\ \A v \in Workers : \A i \in 1..Len(apcs[v]) :
              i \in 1..Len(apcs'[v]) /\ apcs'[v][i] = apcs[v][i]
<1>1. /\ \A v \in Workers : v # w => apcs'[v] = apcs[v]
      /\ Len(apcs'[w]) = Len(apcs[w]) + 1 /\ Len(apcs[w]) \in Nat
      /\ \A i \in 1..Len(apcs[w]) : apcs'[w][i] = apcs[w][i]
      /\ apcs'[w][Len(apcs[w]) + 1] = a
  BY QueueEffect
<1>2. \A v \in Workers : \A i \in 1..Len(apcs'[v]) :
        \/ v = w /\ i = Len(apcs[w]) + 1 /\ apcs'[v][i] = a
        \/ i \in 1..Len(apcs[v]) /\ apcs'[v][i] = apcs[v][i]
  BY <1>1
<1>3. OneAPC'
  <2>. SUFFICES ASSUME NEW u \in Workers, NEW v \in Workers, NEW i \in 1..Len(apcs'[u]),
                       NEW j \in 1..Len(apcs'[v]), NEW e \in Directories,
                       Of(apcs'[u][i], e), Of(apcs'[v][j], e)
                PROVE  u = v /\ i = j
    BY DEF OneAPC, Of
  <2>1. \/ u = w /\ i = Len(apcs[w]) + 1 /\ apcs'[u][i] = a
        \/ i \in 1..Len(apcs[u]) /\ Of(apcs[u][i], e)
    BY <1>2
  <2>2. \/ v = w /\ j = Len(apcs[w]) + 1 /\ apcs'[v][j] = a
        \/ j \in 1..Len(apcs[v]) /\ Of(apcs[v][j], e)
    BY <1>2
  <2>. QED  BY <2>1, <2>2 DEF OneAPC
<1>4. \A v \in Workers : \A i \in 1..Len(apcs[v]) : i \in 1..Len(apcs'[v]) /\ apcs'[v][i] = apcs[v][i]
  BY <1>1
<1>. QED  BY <1>2, <1>3, <1>4

\* The completions of the cancelled reads: these directories had no APC.
LEMMA CancelKeepsOne ==
  ASSUME TypeOK, OneAPC, APCsFit, NEW w \in Workers, RequestTermination(w)
  PROVE  /\ OneAPC'
         /\ \A v \in Workers : \A i \in 1..Len(apcs'[v]) :
              \/ \E d \in Cancelled(w) : apcs'[v][i] = [kind |-> "aborted", directory |-> d]
              \/ \E j \in 1..Len(apcs[v]) : apcs'[v][i] = apcs[v][j]
<1>0. PICK n \in Nat : \E order \in [1..n -> Cancelled(w)] :
              /\ Len(apcs[w]) \in Nat \ {0}
              /\ \A i, j \in 1..n : i # j => order[i] # order[j]
              /\ Len(apcs'[w]) = Len(apcs[w]) - 1 + n
              /\ \A i \in 1..(Len(apcs[w]) - 1) : apcs'[w][i] = apcs[w][i + 1]
              /\ \A i \in 1..n : apcs'[w][Len(apcs[w]) - 1 + i]
                                   = [kind |-> "aborted", directory |-> order[i]]
  BY CancelEffect
<1>1. PICK order \in [1..n -> Cancelled(w)] :
              /\ Len(apcs[w]) \in Nat \ {0}
              /\ \A i, j \in 1..n : i # j => order[i] # order[j]
              /\ Len(apcs'[w]) = Len(apcs[w]) - 1 + n
              /\ \A i \in 1..(Len(apcs[w]) - 1) : apcs'[w][i] = apcs[w][i + 1]
              /\ \A i \in 1..n : apcs'[w][Len(apcs[w]) - 1 + i]
                                   = [kind |-> "aborted", directory |-> order[i]]
  BY <1>0
<1>2. \A v \in Workers : v # w => apcs'[v] = apcs[v]
  BY CancelEffect
<1>. DEFINE last == Len(apcs[w]) - 1
            was(v, i) == IF v = w THEN i + 1 ELSE i
            isNew(v, i) == v = w /\ i > last
<1>3. \A v \in Workers : \A i \in 1..Len(apcs'[v]) :
        \/ /\ isNew(v, i) /\ i - last \in 1..n
           /\ apcs'[v][i] = [kind |-> "aborted", directory |-> order[i - last]]
        \/ ~isNew(v, i) /\ was(v, i) \in 1..Len(apcs[v]) /\ apcs'[v][i] = apcs[v][was(v, i)]
  <2>. SUFFICES ASSUME NEW v \in Workers, NEW i \in 1..Len(apcs'[v])
                PROVE  \/ /\ isNew(v, i) /\ i - last \in 1..n
                          /\ apcs'[v][i] = [kind |-> "aborted", directory |-> order[i - last]]
                       \/ /\ ~isNew(v, i) /\ was(v, i) \in 1..Len(apcs[v])
                          /\ apcs'[v][i] = apcs[v][was(v, i)]
    OBVIOUS
  <2>1. CASE v # w
    BY <1>2, <2>1
  <2>2. CASE v = w /\ i <= last
    BY <1>1, <2>2
  <2>3. CASE v = w /\ i > last
    <3>0. i \in 1..Len(apcs'[w]) /\ Len(apcs'[w]) = last + n /\ last \in Nat
      BY <1>1, <2>3
    <3>1. i - last \in 1..n /\ last + (i - last) = i
      <4>. HIDE DEF last
      <4>. QED  BY <2>3, <3>0
    <3>2. apcs'[w][last + (i - last)] = [kind |-> "aborted", directory |-> order[i - last]]
      BY <1>1, <3>1
    <3>. QED  BY <2>3, <3>1, <3>2
  <2>4. v = w => i <= last \/ i > last
    BY <1>1
  <2>. QED  BY <2>1, <2>2, <2>3, <2>4
<1>4. \A d \in Cancelled(w) : d \in Directories
                           /\ \A v \in Workers : \A i \in 1..Len(apcs[v]) : ~Of(apcs[v][i], d)
  BY WorkersAssumption DEF Cancelled, APCsFit, TypeOK
<1>5. \A i \in 1..n : order[i] \in Cancelled(w)
  BY <1>1
<1>6. OneAPC'
  <2>. SUFFICES ASSUME NEW u \in Workers, NEW v \in Workers, NEW i \in 1..Len(apcs'[u]),
                       NEW j \in 1..Len(apcs'[v]), NEW e \in Directories,
                       Of(apcs'[u][i], e), Of(apcs'[v][j], e)
                PROVE  u = v /\ i = j
    BY DEF OneAPC, Of
  <2>1. \/ isNew(u, i) /\ i - last \in 1..n /\ order[i - last] = e
        \/ ~isNew(u, i) /\ was(u, i) \in 1..Len(apcs[u]) /\ Of(apcs[u][was(u, i)], e)
    <3>. HIDE DEF last, was, isNew
    <3>1. CASE isNew(u, i) /\ i - last \in 1..n
               /\ apcs'[u][i] = [kind |-> "aborted", directory |-> order[i - last]]
      <4>1. apcs'[u][i].directory = order[i - last]
        BY <3>1
      <4>. QED  BY <3>1, <4>1 DEF Of
    <3>2. CASE ~isNew(u, i) /\ was(u, i) \in 1..Len(apcs[u])
               /\ apcs'[u][i] = apcs[u][was(u, i)]
      BY <3>2
    <3>. QED  BY <1>3, <3>1, <3>2
  <2>2. \/ isNew(v, j) /\ j - last \in 1..n /\ order[j - last] = e
        \/ ~isNew(v, j) /\ was(v, j) \in 1..Len(apcs[v]) /\ Of(apcs[v][was(v, j)], e)
    <3>. HIDE DEF last, was, isNew
    <3>1. CASE isNew(v, j) /\ j - last \in 1..n
               /\ apcs'[v][j] = [kind |-> "aborted", directory |-> order[j - last]]
      <4>1. apcs'[v][j].directory = order[j - last]
        BY <3>1
      <4>. QED  BY <3>1, <4>1 DEF Of
    <3>2. CASE ~isNew(v, j) /\ was(v, j) \in 1..Len(apcs[v])
               /\ apcs'[v][j] = apcs[v][was(v, j)]
      BY <3>2
    <3>. QED  BY <1>3, <3>1, <3>2
  <2>3. CASE isNew(u, i) /\ isNew(v, j)
    <3>1. i - last = j - last
      <4>. HIDE DEF last, was
      <4>. QED  BY <1>1, <2>1, <2>2, <2>3
    <3>. QED  BY <1>1, <2>3, <3>1
  <2>4. CASE ~isNew(u, i) /\ ~isNew(v, j)
    <3>1. u = v /\ was(u, i) = was(v, j)
      <4>. HIDE DEF last, was, isNew
      <4>. QED  BY <2>1, <2>2, <2>4 DEF OneAPC
    <3>. QED  BY <3>1
  <2>5. isNew(u, i) <=> isNew(v, j)
    <3>. HIDE DEF last, was, isNew
    <3>. QED  BY <1>4, <1>5, <2>1, <2>2
  <2>. QED  BY <2>3, <2>4, <2>5
<1>7. ASSUME NEW v \in Workers, NEW i \in 1..Len(apcs'[v])
      PROVE  \/ \E d \in Cancelled(w) : apcs'[v][i] = [kind |-> "aborted", directory |-> d]
             \/ \E j \in 1..Len(apcs[v]) : apcs'[v][i] = apcs[v][j]
  <2>. HIDE DEF last, was, isNew
  <2>. QED  BY <1>3, <1>5
<1>. QED  BY <1>6, <1>7

LEMMA OpenedMoves ==
  ASSUME TypeOK, NEW d \in Directories, \A e \in Directories : e # d => request'[e] = request[e]
  PROVE  /\ Cardinality(Opened) \in Nat
         /\ request'[d] = "opened" /\ request[d] # "opened" =>
              Cardinality(Opened') = Cardinality(Opened) + 1
         /\ request'[d] # "opened" /\ request[d] = "opened" =>
              Cardinality(Opened') = Cardinality(Opened) - 1
         /\ request'[d] # "opened" /\ request[d] # "opened" => Opened' = Opened
<1>1. IsFiniteSet(Opened) /\ Cardinality(Opened) \in Nat
  BY WorkersAssumption, FS_Subset, FS_CardinalityType DEF Opened
<1>2. request'[d] = "opened" => Opened' = Opened \cup {d}
  BY DEF Opened
<1>3. request'[d] # "opened" => Opened' = Opened \ {d}
  BY DEF Opened
<1>4. d \in Opened <=> request[d] = "opened"
  BY DEF Opened
<1>5. /\ Cardinality(Opened \cup {d})
           = IF d \in Opened THEN Cardinality(Opened) ELSE Cardinality(Opened) + 1
      /\ Cardinality(Opened \ {d})
           = IF d \in Opened THEN Cardinality(Opened) - 1 ELSE Cardinality(Opened)
  BY <1>1, FS_AddElement, FS_RemoveElement
<1>. QED  BY <1>1, <1>2, <1>3, <1>4, <1>5

\* The thread of AddDirectory.
LEMMA QueueAddInv ==
  ASSUME TypeOK, HasThread, RequestsInv, NEW d \in Directories, QueueAddDirectory(d)
  PROVE  RequestsInv'
<1>. USE DEF RequestsInv
<1>1. hThread \in Workers /\ request[d] = "none"
  BY DEF QueueAddDirectory, HasThread, NotYetAdded
<1>. DEFINE a == [kind |-> "add", directory |-> d]
<1>2. a \in APC /\ a.kind = "add" /\ a.directory = d /\ apcs' = Queue(hThread, a)
  <2>1. a \in APC
    BY DEF APC
  <2>. QED  BY <2>1 DEF QueueAddDirectory
<1>. HIDE DEF a
<1>3. \A v \in Workers : \A i \in 1..Len(apcs[v]) : ~Of(apcs[v][i], d)
  BY <1>1 DEF APCsFit, StageOf
<1>4. /\ OneAPC'
      /\ \A v \in Workers : \A i \in 1..Len(apcs'[v]) :
              apcs'[v][i] = a \/ \E j \in 1..Len(apcs[v]) : apcs'[v][i] = apcs[v][j]
  <2>1. \A e \in Directories : Of(a, e) =>
           \A v \in Workers : \A i \in 1..Len(apcs[v]) : ~Of(apcs[v][i], e)
    BY <1>2, <1>3 DEF Of
  <2>. QED  BY <1>1, <1>2, <2>1, QueueKeepsOne
<1>5. reader' = reader /\ request' = [request EXCEPT ![d] = "queued"]
      /\ outstanding' = outstanding /\ add' = [add EXCEPT ![d] = "done"]
  BY DEF QueueAddDirectory
<1>6. reader[d] = NoWorker
  BY <1>1 DEF ReadersFit
<1>7. APCsFit'
  <2>. SUFFICES ASSUME NEW v \in Workers, NEW i \in 1..Len(apcs'[v]), NEW e \in Directories,
                       Of(apcs'[v][i], e)
                PROVE  reader'[e] = NoWorker /\ request'[e] = StageOf(apcs'[v][i])
    BY DEF APCsFit, Of, StageOf
  <2>1. CASE apcs'[v][i] = a
    <3>1. e = d
      BY <1>2, <2>1 DEF Of
    <3>. QED  BY <1>2, <1>5, <1>6, <2>1, <3>1 DEF StageOf, TypeOK
  <2>2. ASSUME NEW j \in 1..Len(apcs[v]), apcs'[v][i] = apcs[v][j]
        PROVE  reader'[e] = NoWorker /\ request'[e] = StageOf(apcs'[v][i])
    <3>1. e # d /\ reader[e] = NoWorker /\ request[e] = StageOf(apcs[v][j])
      BY <1>3, <2>2 DEF APCsFit
    <3>. QED  BY <1>5, <2>2, <3>1 DEF TypeOK
  <2>. QED  BY <1>4, <2>1, <2>2
<1>8. ReadersFit' /\ NotYetAdded'
  BY <1>1, <1>5, <1>6 DEF ReadersFit, NotYetAdded, TypeOK
<1>9. OutstandingCounts'
  <2>1. Opened' = Opened
    <3>1. request'[d] = "queued" /\ \A e \in Directories : e # d => request'[e] = request[e]
      BY <1>5 DEF TypeOK
    <3>. QED  BY <1>1, <3>1, OpenedMoves
  <2>2. outstanding = Cardinality(Opened)
    BY DEF OutstandingCounts, Opened
  <2>3. outstanding' = Cardinality(Opened')
    BY <1>5, <2>1, <2>2
  <2>. QED  BY <2>3 DEF OutstandingCounts, Opened
<1>. QED  BY <1>4, <1>7, <1>8, <1>9

(***************************************************************************)
(* An APC about a directory: it is in no queue afterwards, so whatever it  *)
(* makes of the request and the read of that directory fits.               *)
(***************************************************************************)
LEMMA RunInv ==
  ASSUME TypeOK, RequestsInv, NEW w \in Workers, NEW d \in Directories, NEW a, Of(a, d),
         Runs(w, a), Dequeue(w), add' = add,
         \A e \in Directories : e # d => reader'[e] = reader[e] /\ request'[e] = request[e],
         reader'[d] # NoWorker => request'[d] = "opened",
         OutstandingCounts'
  PROVE  RequestsInv'
<1>. USE DEF RequestsInv
<1>1. /\ OneAPC'
      /\ \A v \in Workers : \A i \in 1..Len(apcs'[v]) :
              /\ ~Of(apcs'[v][i], d)
              /\ \E j \in 1..Len(apcs[v]) : apcs'[v][i] = apcs[v][j]
  BY RunKeepsOne
<1>2. APCsFit'
  <2>. SUFFICES ASSUME NEW v \in Workers, NEW i \in 1..Len(apcs'[v]), NEW e \in Directories,
                       Of(apcs'[v][i], e)
                PROVE  reader'[e] = NoWorker /\ request'[e] = StageOf(apcs'[v][i])
    BY DEF APCsFit, Of, StageOf
  <2>1. e # d
    BY <1>1
  <2>2. PICK j \in 1..Len(apcs[v]) : apcs'[v][i] = apcs[v][j]
    BY <1>1
  <2>3. reader[e] = NoWorker /\ request[e] = StageOf(apcs[v][j])
    BY <2>2 DEF APCsFit
  <2>. QED  BY <2>1, <2>2, <2>3
<1>3. ReadersFit'
  BY DEF ReadersFit
<1>4. NotYetAdded'
  <2>1. \E i \in 1..Len(apcs[w]) : Of(apcs[w][i], d)
    BY RunsEffect
  <2>2. request[d] # "none"
    BY <2>1 DEF APCsFit, StageOf
  <2>. QED  BY <2>2 DEF NotYetAdded
<1>. QED  BY <1>1, <1>2, <1>3, <1>4

\* The counter and the requests are left alone.
LEMMA SameCount ==
  ASSUME OutstandingCounts, outstanding' = outstanding, request' = request
  PROVE  OutstandingCounts'
BY DEF OutstandingCounts

LEMMA CountIsOpened == OutstandingCounts <=> outstanding = Cardinality(Opened)
BY DEF OutstandingCounts, Opened

LEMMA AddDirectoryInv ==
  ASSUME TypeOK, RequestsInv, NEW w \in Workers, NEW d \in Directories, AddDirectory(w, d)
  PROVE  RequestsInv'
<1>. DEFINE a == [kind |-> "add", directory |-> d]
<1>1. Of(a, d) /\ StageOf(a) = "queued"
  BY DEF Of, StageOf
<1>2. Runs(w, a) /\ Dequeue(w) /\ add' = add
  BY DEF AddDirectory
<1>3. Len(apcs[w]) \in Nat \ {0} /\ apcs[w][1] = a
  BY <1>2, RunsEffect
<1>. HIDE DEF a
<1>4. 1 \in 1..Len(apcs[w]) /\ Of(apcs[w][1], d)
  BY <1>1, <1>3
<1>5. request[d] = "queued" /\ reader[d] = NoWorker
  BY <1>1, <1>3, <1>4 DEF RequestsInv, APCsFit
<1>6. /\ \A e \in Directories : e # d => reader'[e] = reader[e] /\ request'[e] = request[e]
      /\ reader'[d] # NoWorker => request'[d] = "opened"
  BY <1>5 DEF AddDirectory, BeginRead, TypeOK
<1>7. OutstandingCounts'
  <2>1. outstanding = Cardinality(Opened) /\ Cardinality(Opened) \in Nat
    BY <1>6, CountIsOpened, OpenedMoves DEF RequestsInv
  <2>2. \/ request'[d] = "opened" /\ outstanding' = outstanding + 1
        \/ request'[d] = "deleted" /\ outstanding' = outstanding
    BY DEF AddDirectory, TypeOK
  <2>3. outstanding' = Cardinality(Opened')
    BY <1>5, <1>6, <2>1, <2>2, OpenedMoves
  <2>. QED  BY <2>3 DEF OutstandingCounts, Opened
<1>. QED  BY <1>1, <1>2, <1>6, <1>7, RunInv

LEMMA CompletionInv ==
  ASSUME TypeOK, RequestsInv, NEW w \in Workers, NEW d \in Directories,
         \/ NotificationCompletion(w, d) \/ CompletionFailed(w, d) \/ CompletionAborted(w, d)
  PROVE  RequestsInv'
<1>1. PICK kind \in {"complete", "failed", "aborted"} :
        /\ Runs(w, [kind |-> kind, directory |-> d]) /\ Dequeue(w) /\ add' = add
        /\ kind # "aborted" => request' = request /\ outstanding' = outstanding
        /\ kind = "aborted" => /\ outstanding' = outstanding - 1
                               /\ request' = [request EXCEPT ![d] = "deleted"]
                               /\ reader' = reader
        /\ reader' = reader \/ BeginRead(w, d)
  BY DEF NotificationCompletion, CompletionFailed, CompletionAborted, requestVars
<1>. DEFINE a == [kind |-> kind, directory |-> d]
<1>2. Of(a, d) /\ StageOf(a) = "opened" /\ Runs(w, a)
  BY <1>1 DEF Of, StageOf
<1>3. Len(apcs[w]) \in Nat \ {0} /\ apcs[w][1] = a
  BY <1>2, RunsEffect
<1>. HIDE DEF a
<1>4. 1 \in 1..Len(apcs[w]) /\ Of(apcs[w][1], d)
  BY <1>2, <1>3
<1>5. request[d] = "opened" /\ reader[d] = NoWorker
  BY <1>2, <1>3, <1>4 DEF RequestsInv, APCsFit
<1>6. /\ \A e \in Directories : e # d => reader'[e] = reader[e] /\ request'[e] = request[e]
      /\ reader'[d] # NoWorker => request'[d] = "opened"
  BY <1>1, <1>5 DEF BeginRead, TypeOK
<1>7. OutstandingCounts'
  <2>1. outstanding = Cardinality(Opened) /\ Cardinality(Opened) \in Nat
    BY <1>6, CountIsOpened, OpenedMoves DEF RequestsInv
  <2>2. CASE kind = "aborted"
    <3>1. request'[d] = "deleted" /\ outstanding' = outstanding - 1
      BY <1>1, <2>2 DEF TypeOK
    <3>2. outstanding' = Cardinality(Opened')
      BY <1>5, <1>6, <2>1, <3>1, OpenedMoves
    <3>. QED  BY <3>2 DEF OutstandingCounts, Opened
  <2>3. CASE kind # "aborted"
    BY <1>1, <2>3, SameCount DEF RequestsInv
  <2>. QED  BY <2>2, <2>3
<1>. QED  BY <1>1, <1>2, <1>6, <1>7, RunInv

LEMMA TerminationInv ==
  ASSUME TypeOK, RequestsInv, NEW w \in Workers, RequestTermination(w)
  PROVE  RequestsInv'
<1>. USE DEF RequestsInv
<1>1. /\ OneAPC'
      /\ \A v \in Workers : \A i \in 1..Len(apcs'[v]) :
              \/ \E d \in Cancelled(w) : apcs'[v][i] = [kind |-> "aborted", directory |-> d]
              \/ \E j \in 1..Len(apcs[v]) : apcs'[v][i] = apcs[v][j]
  BY CancelKeepsOne
<1>2. /\ UNCHANGED <<add, request, outstanding>>
      /\ reader' = [d \in Directories |-> IF d \in Cancelled(w) THEN NoWorker ELSE reader[d]]
  BY DEF RequestTermination
<1>3. APCsFit'
  <2>. SUFFICES ASSUME NEW v \in Workers, NEW i \in 1..Len(apcs'[v]), NEW e \in Directories,
                       Of(apcs'[v][i], e)
                PROVE  reader'[e] = NoWorker /\ request'[e] = StageOf(apcs'[v][i])
    BY DEF APCsFit, Of, StageOf
  <2>1. ASSUME NEW d \in Cancelled(w), apcs'[v][i] = [kind |-> "aborted", directory |-> d]
        PROVE  reader'[e] = NoWorker /\ request'[e] = StageOf(apcs'[v][i])
    <3>1. e = d /\ StageOf(apcs'[v][i]) = "opened"
      BY <2>1 DEF Of, StageOf
    <3>2. request[d] = "opened"
      BY <3>1, WorkersAssumption DEF Cancelled, ReadersFit
    <3>. QED  BY <1>2, <3>1, <3>2
  <2>2. ASSUME NEW j \in 1..Len(apcs[v]), apcs'[v][i] = apcs[v][j]
        PROVE  reader'[e] = NoWorker /\ request'[e] = StageOf(apcs'[v][i])
    <3>1. reader[e] = NoWorker /\ request[e] = StageOf(apcs[v][j])
      BY <2>2 DEF APCsFit
    <3>. QED  BY <1>2, <2>2, <3>1
  <2>. QED  BY <1>1, <2>1, <2>2
<1>4. ReadersFit' /\ NotYetAdded'
  BY <1>2 DEF ReadersFit, NotYetAdded
<1>5. OutstandingCounts'
  BY <1>2, SameCount
<1>. QED  BY <1>1, <1>3, <1>4, <1>5

LEMMA ReadCompletesInv ==
  ASSUME TypeOK, RequestsInv, NEW d \in Directories, ReadCompletes(d)
  PROVE  RequestsInv'
<1>. USE DEF RequestsInv
<1>1. PICK kind \in {"complete", "failed"} :
        apcs' = Queue(reader[d], [kind |-> kind, directory |-> d])
  BY DEF ReadCompletes
<1>2. reader[d] \in Workers /\ request[d] = "opened"
  BY DEF ReadCompletes, TypeOK, ReadersFit
<1>. DEFINE a == [kind |-> kind, directory |-> d]
<1>3. a \in APC /\ StageOf(a) = "opened" /\ apcs' = Queue(reader[d], a)
      /\ \A e \in Directories : Of(a, e) <=> e = d
  BY <1>1 DEF APC, StageOf, Of
<1>. HIDE DEF a
<1>4. \A v \in Workers : \A i \in 1..Len(apcs[v]) : ~Of(apcs[v][i], d)
  BY <1>2, WorkersAssumption DEF APCsFit
<1>5. /\ OneAPC'
      /\ \A v \in Workers : \A i \in 1..Len(apcs'[v]) :
              apcs'[v][i] = a \/ \E j \in 1..Len(apcs[v]) : apcs'[v][i] = apcs[v][j]
  <2>1. \A e \in Directories : Of(a, e) =>
           \A v \in Workers : \A i \in 1..Len(apcs[v]) : ~Of(apcs[v][i], e)
    BY <1>3, <1>4
  <2>. QED  BY <1>2, <1>3, <2>1, QueueKeepsOne
<1>6. UNCHANGED <<add, request, outstanding>> /\ reader' = [reader EXCEPT ![d] = NoWorker]
  BY DEF ReadCompletes
<1>7. APCsFit'
  <2>. SUFFICES ASSUME NEW v \in Workers, NEW i \in 1..Len(apcs'[v]), NEW e \in Directories,
                       Of(apcs'[v][i], e)
                PROVE  reader'[e] = NoWorker /\ request'[e] = StageOf(apcs'[v][i])
    BY DEF APCsFit, Of, StageOf
  <2>1. CASE apcs'[v][i] = a
    <3>1. e = d
      BY <1>3, <2>1
    <3>. QED  BY <1>2, <1>3, <1>6, <2>1, <3>1 DEF TypeOK
  <2>2. ASSUME NEW j \in 1..Len(apcs[v]), apcs'[v][i] = apcs[v][j]
        PROVE  reader'[e] = NoWorker /\ request'[e] = StageOf(apcs'[v][i])
    <3>1. e # d /\ reader[e] = NoWorker /\ request[e] = StageOf(apcs[v][j])
      BY <1>4, <2>2 DEF APCsFit
    <3>. QED  BY <1>6, <2>2, <3>1 DEF TypeOK
  <2>. QED  BY <1>5, <2>1, <2>2
<1>8. ReadersFit' /\ NotYetAdded'
  BY <1>6 DEF ReadersFit, NotYetAdded, TypeOK
<1>9. OutstandingCounts'
  BY <1>6, SameCount
<1>. QED  BY <1>5, <1>7, <1>8, <1>9

\* The APC that is queued by Terminate is about no directory.
LEMMA TerminateInv ==
  ASSUME TypeOK, RequestsInv, Terminate PROVE RequestsInv'
<1>. USE DEF RequestsInv
<1>1. UNCHANGED <<add, request, reader, outstanding>>
  BY DEF Terminate, requestVars
<1>2. ReadersFit' /\ NotYetAdded' /\ OutstandingCounts'
  BY <1>1, SameCount DEF ReadersFit, NotYetAdded
<1>3. CASE apcs' = apcs
  BY <1>1, <1>2, <1>3 DEF OneAPC, APCsFit
<1>4. CASE apcs' # apcs
  <2>. DEFINE a == [kind |-> "terminate"]
  <2>1. hThread \in Workers /\ apcs' = Queue(hThread, a) /\ a \in APC /\ \A d \in Directories : ~Of(a, d)
    BY <1>4, APCTypes DEF Terminate, TypeOK, Of
  <2>. HIDE DEF a
  <2>2. /\ OneAPC'
        /\ \A v \in Workers : \A i \in 1..Len(apcs'[v]) :
              apcs'[v][i] = a \/ \E j \in 1..Len(apcs[v]) : apcs'[v][i] = apcs[v][j]
    BY <2>1, QueueKeepsOne
  <2>3. APCsFit'
    BY <1>1, <2>1, <2>2 DEF APCsFit
  <2>. QED  BY <1>2, <2>2, <2>3
<1>. QED  BY <1>3, <1>4

LEMMA RequestsStep ==
  ASSUME TypeOK, HasThread, RequestsInv, [Next]_vars PROVE RequestsInv'
<1>1. ASSUME UNCHANGED <<apcs, request, reader, outstanding>>,
             \A d \in Directories : add'[d] # "done" => add[d] # "done"
      PROVE  RequestsInv'
  BY <1>1 DEF RequestsInv, OneAPC, APCsFit, ReadersFit, NotYetAdded, OutstandingCounts
<1>2. CASE UNCHANGED vars
  BY <1>1, <1>2 DEF vars, requestVars
<1>3. ASSUME NEW d \in Directories, CheckThread(d) \/ (\E w \in Workers : InitThread(d, w))
      PROVE  RequestsInv'
  BY <1>1, <1>3 DEF CheckThread, InitThread, requestVars, TypeOK
<1>4. ASSUME NEW w \in Workers, Run(w) \/ SleepReturns(w) PROVE RequestsInv'
  BY <1>1, <1>4 DEF Run, SleepReturns, requestVars
<1>5. CASE WorkerEnded \/ WaitTimesOut
  BY <1>1, <1>5 DEF WorkerEnded, WaitTimesOut, requestVars
<1>6. ASSUME NEW w \in Workers, WorkerStep(w) PROVE RequestsInv'
  BY <1>4, <1>6, AddDirectoryInv, CompletionInv, TerminationInv DEF WorkerStep
<1>. QED
  BY <1>2, <1>3, <1>5, <1>6, QueueAddInv, ReadCompletesInv, TerminateInv DEF Next

-----------------------------------------------------------------------------
(* Type correctness needs the count: m_nOutstandingRequests never wraps.   *)

LEMMA HasThreadStep ==
  ASSUME TypeOK, HasThread, [Next]_vars PROVE HasThread'
<1>1. ASSUME NEW d \in Directories, CheckThread(d) PROVE HasThread'
  BY <1>1 DEF CheckThread, HasThread, TypeOK
<1>2. ASSUME NEW d \in Directories, NEW w \in Workers, InitThread(d, w) PROVE HasThread'
  BY <1>2 DEF InitThread, HasThread, TypeOK
<1>3. ASSUME NEW d \in Directories, QueueAddDirectory(d) PROVE HasThread'
  BY <1>3 DEF QueueAddDirectory, HasThread, TypeOK
<1>4. CASE UNCHANGED <<add, hThread>>
  BY <1>4 DEF HasThread
<1>. QED
  BY <1>1, <1>2, <1>3, <1>4 DEF Next, WorkerStep, Run, SleepReturns, AddDirectory,
     NotificationCompletion, CompletionFailed, CompletionAborted, RequestTermination,
     ReadCompletes, Terminate, WorkerEnded, WaitTimesOut, vars

LEMMA ThreadTypes ==
  ASSUME TypeOK, HasThread, [Next]_vars
  PROVE  /\ hThread' \in Workers \cup {NoWorker}
         /\ worker' \in [Workers -> {"none", "check", "asleep", "awake", "ended"}]
         /\ apcs' \in [Workers -> Seq(APC)]
         /\ add' \in [Directories -> {"none", "init", "queue", "done"}]
<1>. DEFINE Typed == /\ hThread' \in Workers \cup {NoWorker}
                     /\ worker' \in [Workers -> {"none", "check", "asleep", "awake", "ended"}]
                     /\ apcs' \in [Workers -> Seq(APC)]
                     /\ add' \in [Directories -> {"none", "init", "queue", "done"}]
<1>1. ASSUME NEW d \in Directories, CheckThread(d) PROVE Typed
  BY <1>1 DEF CheckThread, TypeOK
<1>2. ASSUME NEW d \in Directories, NEW w \in Workers, InitThread(d, w) PROVE Typed
  BY <1>2 DEF InitThread, TypeOK
<1>3. ASSUME NEW d \in Directories, QueueAddDirectory(d) PROVE Typed
  <2>1. [kind |-> "add", directory |-> d] \in APC /\ hThread \in Workers
    BY <1>3, APCTypes DEF QueueAddDirectory, HasThread
  <2>2. apcs' \in [Workers -> Seq(APC)]
    BY <1>3, <2>1, QueueEffect DEF QueueAddDirectory
  <2>. QED  BY <1>3, <2>2 DEF QueueAddDirectory, TypeOK
<1>4. ASSUME NEW d \in Directories, ReadCompletes(d) PROVE Typed
  <2>1. reader[d] \in Workers
    BY <1>4 DEF ReadCompletes, TypeOK
  <2>2. PICK kind \in {"complete", "failed"} :
          apcs' = Queue(reader[d], [kind |-> kind, directory |-> d])
    BY <1>4 DEF ReadCompletes
  <2>3. [kind |-> kind, directory |-> d] \in APC
    BY APCTypes
  <2>4. apcs' \in [Workers -> Seq(APC)]
    BY <2>1, <2>2, <2>3, QueueEffect
  <2>. QED  BY <1>4, <2>4 DEF ReadCompletes, TypeOK
<1>5. ASSUME NEW w \in Workers, Run(w) \/ SleepReturns(w) PROVE Typed
  BY <1>5 DEF Run, SleepReturns, TypeOK
<1>6. ASSUME NEW w \in Workers, NEW a, Runs(w, a), Dequeue(w), UNCHANGED <<hThread, add>>
      PROVE  Typed
  BY <1>6, RunsEffect, DequeueEffect DEF TypeOK
<1>7. ASSUME NEW w \in Workers, RequestTermination(w) PROVE Typed
  <2>1. Runs(w, [kind |-> "terminate"]) /\ UNCHANGED <<hThread, add>>
    BY <1>7 DEF RequestTermination
  <2>. QED  BY <1>7, <2>1, RunsEffect, CancelEffect DEF TypeOK
<1>8. ASSUME Terminate PROVE Typed
  <2>1. CASE hThread = NoWorker
    BY <1>8, <2>1 DEF Terminate, TypeOK
  <2>2. CASE hThread # NoWorker
    <3>1. apcs' \in [Workers -> Seq(APC)]
      BY <1>8, <2>2, APCTypes, QueueEffect DEF Terminate, TypeOK
    <3>. QED  BY <1>8, <3>1 DEF Terminate, TypeOK
  <2>. QED  BY <2>1, <2>2
<1>9. ASSUME WorkerEnded \/ WaitTimesOut \/ UNCHANGED vars PROVE Typed
  BY <1>9 DEF WorkerEnded, WaitTimesOut, vars, TypeOK
<1>10. ASSUME NEW w \in Workers, NEW d \in Directories,
              \/ AddDirectory(w, d) \/ NotificationCompletion(w, d)
              \/ CompletionFailed(w, d) \/ CompletionAborted(w, d)
       PROVE  Typed
  <2>1. \E kind \in {"add", "complete", "failed", "aborted"} :
          Runs(w, [kind |-> kind, directory |-> d]) /\ Dequeue(w) /\ UNCHANGED <<hThread, add>>
    BY <1>10 DEF AddDirectory, NotificationCompletion, CompletionFailed, CompletionAborted
  <2>. HIDE DEF Typed
  <2>. QED  BY <1>6, <2>1
<1>. HIDE DEF Typed
<1>11. ASSUME NEW w \in Workers, WorkerStep(w) PROVE Typed
  BY <1>5, <1>7, <1>10, <1>11 DEF WorkerStep
<1>12. ASSUME Next PROVE Typed
  BY <1>1, <1>2, <1>3, <1>4, <1>8, <1>9, <1>11, <1>12 DEF Next
<1>13. Typed
  BY <1>9, <1>12
<1>. QED  BY <1>13 DEF Typed

LEMMA RequestTypes ==
  ASSUME TypeOK, [Next]_vars
  PROVE  /\ request' \in [Directories -> {"none", "queued", "opened", "deleted"}]
         /\ handle' \in [Directories -> {"none", "open", "closed"}]
         /\ reader' \in [Directories -> Workers \cup {NoWorker}]
         /\ blocks' \in SUBSET Directories
         /\ terminating' \in BOOLEAN
         /\ main' \in {"running", "waiting", "deleted", "timedOut"}
<1>. DEFINE Typed == /\ request' \in [Directories -> {"none", "queued", "opened", "deleted"}]
                     /\ handle' \in [Directories -> {"none", "open", "closed"}]
                     /\ reader' \in [Directories -> Workers \cup {NoWorker}]
                     /\ blocks' \in SUBSET Directories
                     /\ terminating' \in BOOLEAN
                     /\ main' \in {"running", "waiting", "deleted", "timedOut"}
<1>1. ASSUME UNCHANGED <<request, handle, reader, blocks, terminating>>,
             main' \in {main, "waiting", "deleted", "timedOut"}
      PROVE  Typed
  BY <1>1 DEF TypeOK
<1>2. ASSUME NEW d \in Directories, QueueAddDirectory(d) PROVE Typed
  BY <1>2 DEF QueueAddDirectory, TypeOK
<1>3. ASSUME NEW d \in Directories, NEW w \in Workers, AddDirectory(w, d) PROVE Typed
  <2>1. reader' \in [Directories -> Workers \cup {NoWorker}]
    BY <1>3, BeginReadType DEF AddDirectory, TypeOK
  <2>. QED  BY <1>3, <2>1 DEF AddDirectory, TypeOK
<1>4. ASSUME NEW d \in Directories, NEW w \in Workers, NotificationCompletion(w, d) PROVE Typed
  <2>1. reader' \in [Directories -> Workers \cup {NoWorker}]
    BY <1>4, BeginReadType DEF NotificationCompletion
  <2>. QED  BY <1>4, <2>1 DEF NotificationCompletion, TypeOK
<1>5. ASSUME NEW d \in Directories, NEW w \in Workers, CompletionAborted(w, d) PROVE Typed
  BY <1>5 DEF CompletionAborted, TypeOK
<1>6. ASSUME NEW w \in Workers, RequestTermination(w) PROVE Typed
  BY <1>6 DEF RequestTermination, TypeOK
<1>7. ASSUME NEW d \in Directories, ReadCompletes(d) PROVE Typed
  BY <1>7 DEF ReadCompletes, TypeOK
<1>. HIDE DEF Typed
<1>8. ASSUME NEW d \in Directories, CheckThread(d) \/ (\E w \in Workers : InitThread(d, w))
      PROVE  Typed
  BY <1>1, <1>8 DEF CheckThread, InitThread, requestVars
<1>9. ASSUME NEW w \in Workers, WorkerStep(w) PROVE Typed
  <2>1. ASSUME NEW d \in Directories, CompletionFailed(w, d) PROVE Typed
    BY <1>1, <2>1 DEF CompletionFailed, requestVars
  <2>2. CASE Run(w) \/ SleepReturns(w)
    BY <1>1, <2>2 DEF Run, SleepReturns, requestVars
  <2>. QED  BY <1>3, <1>4, <1>5, <1>6, <1>9, <2>1, <2>2 DEF WorkerStep
<1>10. ASSUME Terminate \/ WorkerEnded \/ WaitTimesOut PROVE Typed
  BY <1>1, <1>10 DEF Terminate, WorkerEnded, WaitTimesOut, requestVars
<1>11. ASSUME UNCHANGED vars PROVE Typed
  BY <1>1, <1>11 DEF vars, requestVars
<1>12. ASSUME Next PROVE Typed
  BY <1>2, <1>7, <1>8, <1>9, <1>10, <1>12 DEF Next
<1>13. Typed
  BY <1>11, <1>12
<1>. QED  BY <1>13 DEF Typed

IInv == TypeOK /\ HasThread /\ RequestsInv

LEMMA Inductive ==
  /\ Init => IInv
  /\ IInv /\ [Next]_vars => IInv'
<1>1. ASSUME Init PROVE IInv
  <2>1. \A w \in Workers : 1..Len(apcs[w]) = {}
    BY <1>1 DEF Init
  <2>2. TypeOK /\ HasThread
    <3>1. apcs \in [Workers -> Seq(APC)]
      BY <1>1 DEF Init
    <3>. QED  BY <1>1, <3>1 DEF Init, TypeOK, HasThread
  <2>3. OneAPC /\ APCsFit /\ ReadersFit /\ NotYetAdded
    BY <1>1, <2>1 DEF Init, OneAPC, APCsFit, ReadersFit, NotYetAdded
  <2>4. Opened = {}
    BY <1>1 DEF Init, Opened
  <2>5. OutstandingCounts
    BY <1>1, <2>4, FS_EmptySet DEF Init, OutstandingCounts, Opened
  <2>. QED  BY <2>2, <2>3, <2>5 DEF IInv, RequestsInv
<1>2. ASSUME IInv, [Next]_vars PROVE IInv'
  <2>1. RequestsInv' /\ HasThread'
    BY <1>2, RequestsStep, HasThreadStep DEF IInv
  <2>2. outstanding' \in Nat
    <3>1. Opened' \in SUBSET Directories
      BY DEF Opened
    <3>2. Cardinality(Opened') \in Nat
      BY <3>1, WorkersAssumption, FS_Subset, FS_CardinalityType
    <3>. QED  BY <2>1, <3>2 DEF RequestsInv, OutstandingCounts, Opened
  <2>3. TypeOK'
    BY <1>2, <2>2, ThreadTypes, RequestTypes DEF IInv, TypeOK
  <2>. QED  BY <2>1, <2>3 DEF IInv
<1>. QED  BY <1>1, <1>2

(***************************************************************************)
(* Workers, queues and requests keep their types.  That the count of       *)
(* outstanding requests stays a number, never to be taken below zero, is   *)
(* the part that needs the rest of the inductive invariant.                *)
(***************************************************************************)
THEOREM TypeCorrect == Spec => []TypeOK
<1>1. IInv => TypeOK
  BY DEF IInv
<1>. QED  BY <1>1, Inductive, PTL DEF Spec

(***************************************************************************)
(* For any directories and any number of workers, the count that keeps a   *)
(* worker in its loop is that of the requests that are open: each is       *)
(* counted once, and counted off at most once.                             *)
(***************************************************************************)
THEOREM RequestsAreCounted == Spec => []OutstandingCounts
<1>1. IInv => OutstandingCounts
  BY DEF IInv, RequestsInv
<1>. QED  BY <1>1, Inductive, PTL DEF Spec

-----------------------------------------------------------------------------
(***************************************************************************)
(* OpenIsRead.  Given the types it is inductive by itself: whatever takes  *)
(* the completion of a reliable directory out of a queue issues the next   *)
(* read, unless the directory has been closed.                             *)
(***************************************************************************)
CompletingAt(d) ==
  \E w \in Workers : \E i \in 1..Len(apcs[w]) : apcs[w][i] = [kind |-> "complete", directory |-> d]

LEMMA CompletingIsAt ==
  ASSUME TypeOK, NEW d \in Directories PROVE Completing(d) <=> CompletingAt(d)
<1>1. \A w \in Workers : DOMAIN apcs[w] = 1..Len(apcs[w])
  BY DEF TypeOK
<1>. QED  BY <1>1 DEF Completing, CompletingAt, Range

LEMMA QueueKeepsCompletion ==
  ASSUME TypeOK, NEW w \in Workers, NEW a \in APC, apcs' = Queue(w, a),
         NEW d \in Directories, CompletingAt(d)
  PROVE  CompletingAt(d)'
<1>1. \A v \in Workers : \A i \in 1..Len(apcs[v]) : i \in 1..Len(apcs'[v]) /\ apcs'[v][i] = apcs[v][i]
  BY QueueEffect
<1>. QED  BY <1>1 DEF CompletingAt

\* Another APC than the completion runs.
LEMMA RunKeepsCompletion ==
  ASSUME TypeOK, NEW w \in Workers, NEW a, NEW d \in Directories, CompletingAt(d),
         Runs(w, a), a # [kind |-> "complete", directory |-> d],
         Dequeue(w) \/ RequestTermination(w)
  PROVE  CompletingAt(d)'
<1>1. PICK v \in Workers : \E i \in 1..Len(apcs[v]) :
        apcs[v][i] = [kind |-> "complete", directory |-> d]
  BY DEF CompletingAt
<1>2. PICK i \in 1..Len(apcs[v]) : apcs[v][i] = [kind |-> "complete", directory |-> d]
  BY <1>1
<1>3. Len(apcs[w]) \in Nat \ {0} /\ apcs[w][1] = a /\ apcs[w] # <<>>
  BY RunsEffect
<1>4. Len(apcs[v]) \in Nat
  BY DEF TypeOK
<1>5. CASE v # w
  <2>1. apcs'[v] = apcs[v]
    BY <1>3, <1>5, DequeueEffect, CancelEffect
  <2>. QED  BY <1>2, <2>1 DEF CompletingAt
<1>6. CASE v = w
  <2>1. i # 1 /\ i - 1 \in 1..(Len(apcs[w]) - 1) /\ (i - 1) + 1 = i
    BY <1>2, <1>3, <1>4, <1>6
  <2>2. i - 1 \in 1..Len(apcs'[w]) /\ apcs'[w][i - 1] = apcs[w][(i - 1) + 1]
    <3>1. CASE Dequeue(w)
      BY <1>3, <2>1, <3>1, DequeueEffect
    <3>2. CASE RequestTermination(w)
      <4>1. PICK n \in Nat :
              /\ Len(apcs'[w]) = Len(apcs[w]) - 1 + n
              /\ \A k \in 1..(Len(apcs[w]) - 1) : apcs'[w][k] = apcs[w][k + 1]
        BY <3>2, CancelEffect
      <4>. QED  BY <1>3, <2>1, <4>1
    <3>. QED  BY <3>1, <3>2
  <2>. QED  BY <1>2, <1>6, <2>1, <2>2 DEF CompletingAt
<1>. QED  BY <1>5, <1>6

LEMMA OpenIsReadStep ==
  ASSUME TypeOK, HasThread, OpenIsRead, TypeOK', [Next]_vars PROVE OpenIsRead'
<1>. SUFFICES ASSUME NEW d \in Directories \ Unreliable, handle'[d] = "open",
                     reader'[d] = NoWorker
              PROVE  CompletingAt(d)'
  <2>1. \A d \in Directories : Completing(d)' <=> CompletingAt(d)'
    <3>1. \A w \in Workers : DOMAIN apcs'[w] = 1..Len(apcs'[w])
      BY DEF TypeOK
    <3>. QED  BY <3>1 DEF Completing, CompletingAt, Range
  <2>. QED  BY <2>1 DEF OpenIsRead
<1>1. ASSUME handle[d] = "open", reader[d] = NoWorker PROVE CompletingAt(d)
  BY <1>1, CompletingIsAt DEF OpenIsRead
<1>2. ASSUME UNCHANGED <<apcs, handle, reader>> PROVE CompletingAt(d)'
  BY <1>1, <1>2 DEF CompletingAt
<1>3. ASSUME UNCHANGED <<handle, reader>>, NEW w \in Workers, NEW a \in APC, apcs' = Queue(w, a)
      PROVE  CompletingAt(d)'
  BY <1>1, <1>3, QueueKeepsCompletion
<1>4. ASSUME NEW e \in Directories, QueueAddDirectory(e) PROVE CompletingAt(d)'
  BY <1>3, <1>4, APCTypes DEF QueueAddDirectory, HasThread
<1>5. ASSUME NEW e \in Directories, ReadCompletes(e) PROVE CompletingAt(d)'
  <2>1. PICK kind \in {"complete"} \cup (IF e \in Unreliable THEN {"failed"} ELSE {}) :
          apcs' = Queue(reader[e], [kind |-> kind, directory |-> e])
    BY <1>5 DEF ReadCompletes
  <2>2. reader[e] \in Workers /\ [kind |-> kind, directory |-> e] \in APC
    BY <1>5, APCTypes DEF ReadCompletes, TypeOK
  <2>3. CASE e = d
    <3>1. kind = "complete"
      BY <2>3
    <3>2. /\ Len(apcs'[reader[d]]) = Len(apcs[reader[d]]) + 1 /\ Len(apcs[reader[d]]) \in Nat
          /\ apcs'[reader[d]][Len(apcs[reader[d]]) + 1] = [kind |-> "complete", directory |-> d]
      BY <2>1, <2>2, <2>3, <3>1, QueueEffect
    <3>. QED  BY <2>2, <2>3, <3>2 DEF CompletingAt
  <2>4. CASE e # d
    <3>1. handle' = handle /\ reader'[d] = reader[d]
      BY <1>5, <2>4 DEF ReadCompletes, TypeOK
    <3>. QED  BY <1>1, <2>1, <2>2, <3>1, QueueKeepsCompletion
  <2>. QED  BY <2>3, <2>4
<1>6. CASE Terminate
  <2>1. CASE hThread = NoWorker
    BY <1>2, <1>6, <2>1 DEF Terminate, requestVars
  <2>2. CASE hThread # NoWorker
    BY <1>3, <1>6, <2>2, APCTypes DEF Terminate, TypeOK, requestVars
  <2>. QED  BY <2>1, <2>2
<1>7. ASSUME NEW w \in Workers, NEW e \in Directories, AddDirectory(w, e) PROVE CompletingAt(d)'
  <2>1. /\ Runs(w, [kind |-> "add", directory |-> e]) /\ Dequeue(w)
        /\ handle'[d] = handle[d] /\ reader'[d] = reader[d]
    BY <1>7, WorkersAssumption DEF AddDirectory, BeginRead, TypeOK
  <2>. QED  BY <1>1, <2>1, RunKeepsCompletion
<1>8. ASSUME NEW w \in Workers, NEW e \in Directories, NotificationCompletion(w, e)
      PROVE  CompletingAt(d)'
  <2>1. /\ Runs(w, [kind |-> "complete", directory |-> e]) /\ Dequeue(w)
        /\ e # d /\ handle'[d] = handle[d] /\ reader'[d] = reader[d]
    BY <1>8, WorkersAssumption DEF NotificationCompletion, BeginRead, TypeOK
  <2>. QED  BY <1>1, <2>1, RunKeepsCompletion
<1>9. ASSUME NEW w \in Workers, NEW e \in Directories,
             CompletionFailed(w, e) \/ CompletionAborted(w, e)
      PROVE  CompletingAt(d)'
  <2>1. PICK kind \in {"failed", "aborted"} : Runs(w, [kind |-> kind, directory |-> e])
    BY <1>9 DEF CompletionFailed, CompletionAborted
  <2>2. Dequeue(w) /\ handle' = handle /\ reader' = reader
    BY <1>9 DEF CompletionFailed, CompletionAborted, requestVars
  <2>3. [kind |-> kind, directory |-> e] # [kind |-> "complete", directory |-> d]
    OBVIOUS
  <2>. QED  BY <1>1, <2>1, <2>2, <2>3, RunKeepsCompletion
<1>10. ASSUME NEW w \in Workers, RequestTermination(w) PROVE CompletingAt(d)'
  <2>1. Runs(w, [kind |-> "terminate"]) /\ handle[d] = "open" /\ reader[d] = NoWorker
    BY <1>10 DEF RequestTermination, Cancelled
  <2>2. [kind |-> "terminate"] # [kind |-> "complete", directory |-> d]
    OBVIOUS
  <2>. QED  BY <1>1, <1>10, <2>1, <2>2, RunKeepsCompletion
<1>11. ASSUME NEW w \in Workers, Run(w) \/ SleepReturns(w) PROVE CompletingAt(d)'
  BY <1>2, <1>11 DEF Run, SleepReturns, requestVars
<1>12. ASSUME NEW e \in Directories, CheckThread(e) \/ (\E w \in Workers : InitThread(e, w))
       PROVE  CompletingAt(d)'
  BY <1>2, <1>12 DEF CheckThread, InitThread, requestVars
<1>13. CASE WorkerEnded \/ WaitTimesOut \/ UNCHANGED vars
  BY <1>2, <1>13 DEF WorkerEnded, WaitTimesOut, requestVars, vars
<1>14. ASSUME NEW w \in Workers, WorkerStep(w) PROVE CompletingAt(d)'
  BY <1>7, <1>8, <1>9, <1>10, <1>11, <1>14 DEF WorkerStep
<1>. QED  BY <1>4, <1>5, <1>6, <1>12, <1>13, <1>14 DEF Next

(***************************************************************************)
(* For any directories and workers: an open, reliable directory is being   *)
(* read or its completion is queued, so the worker never goes deaf to it.  *)
(***************************************************************************)
THEOREM OpenDirectoriesAreRead == Spec => []OpenIsRead
<1>1. Init => OpenIsRead
  BY DEF Init, OpenIsRead
<1>2. IInv /\ IInv' /\ OpenIsRead /\ [Next]_vars => OpenIsRead'
  BY OpenIsReadStep DEF IInv
<1>. QED  BY <1>1, <1>2, Inductive, PTL DEF Spec

-----------------------------------------------------------------------------
(***************************************************************************)
(* TerminatedIsQuiet, for any number of workers.  What Terminate queues    *)
(* comes behind every APC that could open a directory in this worker, and  *)
(* when it runs it closes every handle: a completion that is still queued  *)
(* then finds its handle closed, and one that another worker opens later   *)
(* belongs to a directory that is nowhere in this worker's queue.          *)
(***************************************************************************)
Calling(d) == add[d] \in {"init", "queue"}
CallsAreOver == main # "running" => \A d \in Directories : ~Calling(d)

OpenIsBlocked ==
  /\ \A d \in Directories : handle[d] = "open" => d \in blocks
  /\ ~terminating => \A d \in Directories : reader[d] # NoWorker => handle[d] = "open"

Has(w, kind) == \E i \in 1..Len(apcs[w]) : apcs[w][i].kind = kind

EndComesLast ==
  /\ \A w \in Workers : Has(w, "terminate") => main # "running" /\ w = hThread
  /\ \A w \in Workers : \A i, j \in 1..Len(apcs[w]) :
       i < j /\ apcs[w][i].kind = "terminate" => apcs[w][j].kind # "add"

Terminated ==
  /\ main # "running" /\ hThread \in Workers
  /\ ~Has(hThread, "add")
  /\ \A d \in Directories : reader[d] # hThread
  /\ \A i \in 1..Len(apcs[hThread]) : \A d \in Directories :
       apcs[hThread][i] = [kind |-> "complete", directory |-> d] => handle[d] # "open"
  /\ worker[hThread] \in {"check", "asleep", "ended"} => Len(apcs[hThread]) = 0

EndIsKnown ==
  /\ \A w \in Workers : worker[w] = "ended" => terminating
  /\ main = "deleted" /\ hThread # NoWorker => worker[hThread] = "ended"

QuietInv ==
  CallsAreOver /\ OpenIsBlocked /\ EndComesLast /\ (terminating => Terminated) /\ EndIsKnown

\* What a step of a worker changes.
LEMMA WorkerStepEffect ==
  ASSUME TypeOK, NEW w \in Workers, WorkerStep(w)
  PROVE  /\ UNCHANGED <<hThread, add, main>>
         /\ worker[w] \in {"check", "asleep", "awake"}
         /\ worker'[w] \in {"check", "asleep", "awake", "ended"}
         /\ \A v \in Workers : v # w => worker'[v] = worker[v]
         /\ \A d \in Directories : reader'[d] \in {reader[d], w, NoWorker}
<1>1. CASE Run(w)
  BY <1>1 DEF Run, requestVars, TypeOK
<1>2. CASE SleepReturns(w)
  BY <1>2 DEF SleepReturns, requestVars, TypeOK
<1>3. ASSUME NEW a, Runs(w, a)
      PROVE  /\ worker[w] \in {"check", "asleep", "awake"} /\ worker'[w] = "awake"
             /\ \A v \in Workers : v # w => worker'[v] = worker[v]
  BY <1>3 DEF Runs, TypeOK
<1>4. ASSUME NEW d \in Directories, BeginRead(w, d)
      PROVE  \A e \in Directories : reader'[e] \in {reader[e], w, NoWorker}
  BY <1>4 DEF BeginRead, TypeOK
<1>5. ASSUME NEW d \in Directories, AddDirectory(w, d)
      PROVE  \A e \in Directories : reader'[e] \in {reader[e], w, NoWorker}
  BY <1>4, <1>5 DEF AddDirectory
<1>6. ASSUME NEW d \in Directories,
             \/ AddDirectory(w, d) \/ NotificationCompletion(w, d)
             \/ CompletionFailed(w, d) \/ CompletionAborted(w, d)
      PROVE  /\ UNCHANGED <<hThread, add, main>>
             /\ \A e \in Directories : reader'[e] \in {reader[e], w, NoWorker}
             /\ \E a : Runs(w, a)
  BY <1>4, <1>5, <1>6 DEF AddDirectory, NotificationCompletion, CompletionFailed,
     CompletionAborted, requestVars
<1>7. CASE RequestTermination(w)
  BY <1>3, <1>7 DEF RequestTermination, TypeOK
<1>. QED  BY <1>1, <1>2, <1>3, <1>6, <1>7 DEF WorkerStep

\* What the queues of the workers look like after an APC was run.
LEMMA RunShifts ==
  ASSUME TypeOK, NEW w \in Workers, NEW a, Runs(w, a), Dequeue(w) \/ RequestTermination(w)
  PROVE  /\ \A v \in Workers : v # w => apcs'[v] = apcs[v]
         /\ Len(apcs[w]) \in Nat \ {0} /\ apcs[w][1] = a /\ Len(apcs'[w]) \in Nat
         /\ \A i \in 1..Len(apcs'[w]) :
              \/ i + 1 \in 1..Len(apcs[w]) /\ apcs'[w][i] = apcs[w][i + 1]
              \/ apcs'[w][i].kind = "aborted"
         /\ \A i \in 1..Len(apcs[w]) :
              i # 1 => i - 1 \in 1..Len(apcs'[w]) /\ apcs'[w][i - 1] = apcs[w][i]
<1>1. apcs[w] # <<>> /\ Len(apcs[w]) \in Nat \ {0} /\ apcs[w][1] = a
  BY RunsEffect
<1>2. CASE Dequeue(w)
  <2>1. /\ apcs' \in [Workers -> Seq(APC)]
        /\ \A v \in Workers : v # w => apcs'[v] = apcs[v]
        /\ Len(apcs'[w]) = Len(apcs[w]) - 1
        /\ \A i \in 1..Len(apcs'[w]) :
             i + 1 \in 1..Len(apcs[w]) /\ apcs'[w][i] = apcs[w][i + 1]
    BY <1>1, <1>2, DequeueEffect
  <2>2. \A i \in 1..Len(apcs[w]) :
          i # 1 => i - 1 \in 1..Len(apcs'[w]) /\ apcs'[w][i - 1] = apcs[w][i]
    <3>1. \A i \in 1..Len(apcs[w]) : i # 1 => i - 1 \in 1..Len(apcs'[w]) /\ (i - 1) + 1 = i
      BY <1>1, <2>1
    <3>. QED  BY <2>1, <3>1
  <2>. QED  BY <1>1, <2>1, <2>2
<1>3. CASE RequestTermination(w)
  <2>1. PICK n \in Nat : \E order \in [1..n -> Cancelled(w)] :
          /\ Len(apcs'[w]) = Len(apcs[w]) - 1 + n
          /\ \A i \in 1..(Len(apcs[w]) - 1) : apcs'[w][i] = apcs[w][i + 1]
          /\ \A i \in 1..n : apcs'[w][Len(apcs[w]) - 1 + i] = [kind |-> "aborted", directory |-> order[i]]
    BY <1>3, CancelEffect
  <2>2. PICK order \in [1..n -> Cancelled(w)] :
          /\ Len(apcs'[w]) = Len(apcs[w]) - 1 + n
          /\ \A i \in 1..(Len(apcs[w]) - 1) : apcs'[w][i] = apcs[w][i + 1]
          /\ \A i \in 1..n : apcs'[w][Len(apcs[w]) - 1 + i] = [kind |-> "aborted", directory |-> order[i]]
    BY <2>1
  <2>. DEFINE last == Len(apcs[w]) - 1
  <2>7. last \in Nat /\ Len(apcs[w]) = last + 1 /\ Len(apcs'[w]) = last + n
    BY <1>1, <2>2
  <2>8. ASSUME NEW i \in 1..n PROVE apcs'[w][last + i].kind = "aborted"
    <3>1. apcs'[w][last + i] = [kind |-> "aborted", directory |-> order[i]]
      BY <2>2
    <3>. QED  BY <3>1
  <2>9. \A i \in 1..last : apcs'[w][i] = apcs[w][i + 1]
    BY <2>2
  <2>. HIDE DEF last
  <2>3. ASSUME NEW i \in 1..Len(apcs'[w])
        PROVE  \/ i + 1 \in 1..Len(apcs[w]) /\ apcs'[w][i] = apcs[w][i + 1]
               \/ apcs'[w][i].kind = "aborted"
    <3>1. CASE i \in 1..last
      BY <2>7, <2>9, <3>1
    <3>2. CASE i \notin 1..last
      <4>1. i - last \in 1..n /\ last + (i - last) = i
        BY <2>7, <3>2
      <4>2. apcs'[w][last + (i - last)].kind = "aborted"
        BY <2>8, <4>1
      <4>. QED  BY <4>1, <4>2
    <3>. QED  BY <3>1, <3>2
  <2>4. \A i \in 1..Len(apcs[w]) :
          i # 1 => i - 1 \in 1..Len(apcs'[w]) /\ apcs'[w][i - 1] = apcs[w][i]
    <3>1. \A i \in 1..Len(apcs[w]) :
            i # 1 => /\ i - 1 \in 1..last /\ (i - 1) + 1 = i
                     /\ i - 1 \in 1..Len(apcs'[w])
      BY <2>7
    <3>. QED  BY <2>9, <3>1
  <2>5. \A v \in Workers : v # w => apcs'[v] = apcs[v]
    BY <1>3, CancelEffect
  <2>6. Len(apcs'[w]) \in Nat
    BY <2>7
  <2>. QED  BY <1>1, <2>3, <2>4, <2>5, <2>6
<1>. QED  BY <1>2, <1>3

\* What of the queues can be seen after an APC was queued.
LEMMA QueueShows ==
  ASSUME TypeOK, NEW w \in Workers, NEW a \in APC, apcs' = Queue(w, a)
  PROVE  /\ \A v \in Workers : \A i \in 1..Len(apcs'[v]) :
              \/ i \in 1..Len(apcs[v]) /\ apcs'[v][i] = apcs[v][i]
              \/ v = w /\ i = Len(apcs[w]) + 1 /\ apcs'[v][i] = a
         /\ \A v \in Workers : \A i \in 1..Len(apcs[v]) :
              i \in 1..Len(apcs'[v]) /\ apcs'[v][i] = apcs[v][i]
         /\ \E i \in 1..Len(apcs'[w]) : apcs'[w][i] = a
         /\ \A v \in Workers : v # w => apcs'[v] = apcs[v]
<1>1. /\ \A v \in Workers : v # w => apcs'[v] = apcs[v]
      /\ Len(apcs'[w]) = Len(apcs[w]) + 1 /\ Len(apcs[w]) \in Nat
      /\ \A i \in 1..Len(apcs[w]) : apcs'[w][i] = apcs[w][i]
      /\ apcs'[w][Len(apcs[w]) + 1] = a
  BY QueueEffect
<1>2. \A i \in 1..Len(apcs'[w]) : i \in 1..Len(apcs[w]) \/ i = Len(apcs[w]) + 1
  BY <1>1
<1>3. /\ \A i \in 1..Len(apcs[w]) : i \in 1..Len(apcs'[w])
      /\ Len(apcs[w]) + 1 \in 1..Len(apcs'[w])
  BY <1>1
<1>. QED  BY <1>1, <1>2, <1>3

LEMMA CallsAreOverStep ==
  ASSUME TypeOK, CallsAreOver, [Next]_vars PROVE CallsAreOver'
<1>. USE DEF CallsAreOver, Calling
<1>1. CASE UNCHANGED <<add, main>>
  BY <1>1
<1>2. ASSUME NEW d \in Directories, CheckThread(d) PROVE CallsAreOver'
  BY <1>2 DEF CheckThread
<1>3. ASSUME NEW d \in Directories, QueueAddDirectory(d) \/ \E w \in Workers : InitThread(d, w)
      PROVE  CallsAreOver'
  BY <1>3 DEF QueueAddDirectory, InitThread
<1>4. ASSUME NEW d \in Directories, ReadCompletes(d) PROVE CallsAreOver'
  BY <1>1, <1>4 DEF ReadCompletes
<1>5. ASSUME NEW w \in Workers, WorkerStep(w) PROVE CallsAreOver'
  BY <1>1, <1>5, WorkerStepEffect
<1>6. CASE Terminate
  BY <1>6 DEF Terminate
<1>7. CASE WorkerEnded \/ WaitTimesOut
  BY <1>7 DEF WorkerEnded, WaitTimesOut
<1>8. CASE UNCHANGED vars
  BY <1>1, <1>8 DEF vars
<1>. QED  BY <1>2, <1>3, <1>4, <1>5, <1>6, <1>7, <1>8 DEF Next

LEMMA OpenIsBlockedStep ==
  ASSUME TypeOK, OpenIsBlocked, [Next]_vars PROVE OpenIsBlocked'
<1>. USE DEF OpenIsBlocked
<1>1. CASE UNCHANGED <<requestVars, terminating>>
  BY <1>1 DEF requestVars
<1>2. ASSUME NEW d \in Directories,
             CheckThread(d) \/ QueueAddDirectory(d) \/ \E w \in Workers : InitThread(d, w)
      PROVE  OpenIsBlocked'
  BY <1>2 DEF CheckThread, QueueAddDirectory, InitThread, requestVars
<1>3. ASSUME NEW d \in Directories, ReadCompletes(d) PROVE OpenIsBlocked'
  BY <1>3 DEF ReadCompletes, TypeOK
<1>4. ASSUME NEW w \in Workers, NEW d \in Directories, BeginRead(w, d)
      PROVE  \A e \in Directories :
               \/ reader'[e] = reader[e] /\ e # d
               \/ e = d /\ (reader'[e] # NoWorker => handle'[e] = "open")
  BY <1>4 DEF BeginRead, TypeOK
<1>5. ASSUME NEW w \in Workers, NEW d \in Directories, AddDirectory(w, d)
      PROVE  OpenIsBlocked'
  <2>1. terminating' = terminating
    BY <1>5 DEF AddDirectory
  <2>2. CASE UNCHANGED <<handle, reader, outstanding, blocks>>
    BY <2>1, <2>2
  <2>3. CASE /\ blocks' = blocks \cup {d}
             /\ handle' = [handle EXCEPT ![d] = "open"]
             /\ BeginRead(w, d)
    <3>1. handle'[d] = "open" /\ \A e \in Directories : e # d => handle'[e] = handle[e]
      BY <2>3 DEF TypeOK
    <3>2. \A e \in Directories : reader'[e] # NoWorker => handle'[e] = "open" \/ terminating
      BY <1>4, <2>3, <3>1
    <3>. QED  BY <2>1, <2>3, <3>1, <3>2
  <2>. QED  BY <1>5, <2>2, <2>3 DEF AddDirectory
<1>6. ASSUME NEW w \in Workers, NEW d \in Directories, NotificationCompletion(w, d)
      PROVE  OpenIsBlocked'
  BY <1>4, <1>6 DEF NotificationCompletion
<1>7. ASSUME NEW w \in Workers, NEW d \in Directories,
             CompletionFailed(w, d) \/ CompletionAborted(w, d)
      PROVE  OpenIsBlocked'
  BY <1>7 DEF CompletionFailed, CompletionAborted, requestVars
<1>8. ASSUME NEW w \in Workers, RequestTermination(w) PROVE OpenIsBlocked'
  BY <1>8 DEF RequestTermination, TypeOK
<1>9. ASSUME NEW w \in Workers, WorkerStep(w) PROVE OpenIsBlocked'
  <2>1. CASE Run(w) \/ SleepReturns(w)
    BY <1>1, <2>1 DEF Run, SleepReturns
  <2>. QED  BY <1>5, <1>6, <1>7, <1>8, <1>9, <2>1 DEF WorkerStep
<1>10. CASE Terminate \/ WorkerEnded \/ WaitTimesOut
  BY <1>1, <1>10 DEF Terminate, WorkerEnded, WaitTimesOut
<1>11. CASE UNCHANGED vars
  BY <1>1, <1>11 DEF vars
<1>. QED  BY <1>2, <1>3, <1>9, <1>10, <1>11 DEF Next

\* The order of a queue is kept when an APC comes behind, if it is no "add" behind the end.
LEMMA EndComesLastQueue ==
  ASSUME TypeOK, EndComesLast, NEW w \in Workers, NEW a \in APC, apcs' = Queue(w, a),
         hThread' = hThread, main' = main \/ main' # "running",
         a.kind = "terminate" => main' # "running" /\ w = hThread,
         a.kind = "add" => main = "running"
  PROVE  EndComesLast'
<1>. USE DEF EndComesLast
<1>1. /\ \A v \in Workers : \A i \in 1..Len(apcs'[v]) :
           \/ i \in 1..Len(apcs[v]) /\ apcs'[v][i] = apcs[v][i]
           \/ v = w /\ i = Len(apcs[w]) + 1 /\ apcs'[v][i] = a
  BY QueueShows
<1>2. ASSUME NEW v \in Workers, NEW i \in 1..Len(apcs'[v]), NEW j \in 1..Len(apcs'[v]),
             i < j, apcs'[v][i].kind = "terminate"
      PROVE  apcs'[v][j].kind # "add"
  <2>1. Len(apcs[v]) \in Nat /\ Len(apcs'[v]) \in Nat
    BY QueueEffect DEF TypeOK
  <2>2. CASE j \in 1..Len(apcs[v])
    <3>1. i \in 1..Len(apcs[v]) /\ j # Len(apcs[v]) + 1 /\ i # Len(apcs[v]) + 1
      BY <1>2, <2>1, <2>2
    <3>. QED  BY <1>1, <1>2, <2>2, <3>1
  <2>3. CASE j \notin 1..Len(apcs[v])
    <3>1. v = w /\ j = Len(apcs[v]) + 1 /\ apcs'[v][j] = a
      BY <1>1, <2>3
    <3>2. i \in 1..Len(apcs[v]) /\ i # Len(apcs[v]) + 1
      BY <1>2, <2>1, <3>1
    <3>3. Has(v, "terminate")
      BY <1>1, <1>2, <3>2 DEF Has
    <3>. QED  BY <3>1, <3>3
  <2>. QED  BY <2>2, <2>3
<1>3. ASSUME NEW v \in Workers, NEW i \in 1..Len(apcs'[v]), apcs'[v][i].kind = "terminate"
      PROVE  main' # "running" /\ v = hThread'
  <2>1. CASE i \in 1..Len(apcs[v]) /\ apcs'[v][i] = apcs[v][i]
    BY <1>3, <2>1 DEF Has
  <2>2. CASE v = w /\ apcs'[v][i] = a
    BY <1>3, <2>2
  <2>. QED  BY <1>1, <2>1, <2>2
<1>4. \A v \in Workers : Has(v, "terminate")' => main' # "running" /\ v = hThread'
  BY <1>3 DEF Has
<1>. QED  BY <1>2, <1>4

\* Nor is it disturbed when an APC is run.
LEMMA EndComesLastRun ==
  ASSUME TypeOK, EndComesLast, NEW w \in Workers, NEW a, Runs(w, a),
         Dequeue(w) \/ RequestTermination(w), UNCHANGED <<hThread, main>>
  PROVE  EndComesLast'
<1>. USE DEF EndComesLast
<1>1. /\ \A v \in Workers : v # w => apcs'[v] = apcs[v]
      /\ Len(apcs[w]) \in Nat \ {0} /\ Len(apcs'[w]) \in Nat
      /\ \A i \in 1..Len(apcs'[w]) :
           \/ i + 1 \in 1..Len(apcs[w]) /\ apcs'[w][i] = apcs[w][i + 1]
           \/ apcs'[w][i].kind = "aborted"
  BY RunShifts
<1>2. ASSUME NEW i \in 1..Len(apcs'[w]), NEW j \in 1..Len(apcs'[w]),
             i < j, apcs'[w][i].kind = "terminate"
      PROVE  apcs'[w][j].kind # "add"
  <2>1. i + 1 \in 1..Len(apcs[w]) /\ apcs'[w][i] = apcs[w][i + 1]
    BY <1>1, <1>2
  <2>2. CASE j + 1 \in 1..Len(apcs[w]) /\ apcs'[w][j] = apcs[w][j + 1]
    <3>1. i + 1 < j + 1
      BY <1>1, <1>2
    <3>. QED  BY <1>2, <2>1, <2>2, <3>1
  <2>3. CASE apcs'[w][j].kind = "aborted"
    BY <2>3
  <2>. QED  BY <1>1, <2>2, <2>3
<1>3. ASSUME NEW v \in Workers, NEW i \in 1..Len(apcs'[v]), apcs'[v][i].kind = "terminate"
      PROVE  Has(v, "terminate")
  <2>1. CASE v # w
    BY <1>1, <1>3, <2>1 DEF Has
  <2>2. CASE v = w
    <3>1. i + 1 \in 1..Len(apcs[w]) /\ apcs'[w][i] = apcs[w][i + 1]
      BY <1>1, <1>3, <2>2
    <3>. QED  BY <1>3, <2>2, <3>1 DEF Has
  <2>. QED  BY <2>1, <2>2
<1>4. \A v \in Workers : Has(v, "terminate")' => main' # "running" /\ v = hThread'
  BY <1>3 DEF Has
<1>5. \A v \in Workers : \A i, j \in 1..Len(apcs'[v]) :
        i < j /\ apcs'[v][i].kind = "terminate" => apcs'[v][j].kind # "add"
  BY <1>1, <1>2
<1>. QED  BY <1>4, <1>5

LEMMA EndComesLastStep ==
  ASSUME TypeOK, HasThread, CallsAreOver, EndComesLast, [Next]_vars
  PROVE  EndComesLast'
<1>1. CASE UNCHANGED <<hThread, apcs, main>>
  BY <1>1 DEF EndComesLast, Has
<1>2. ASSUME NEW d \in Directories, CheckThread(d) PROVE EndComesLast'
  BY <1>1, <1>2 DEF CheckThread
<1>3. ASSUME NEW d \in Directories, NEW w \in Workers, InitThread(d, w) PROVE EndComesLast'
  <2>1. main = "running" /\ UNCHANGED <<apcs, main>>
    BY <1>3 DEF InitThread, CallsAreOver, Calling
  <2>. QED  BY <2>1 DEF EndComesLast, Has
<1>4. ASSUME NEW d \in Directories, QueueAddDirectory(d) PROVE EndComesLast'
  <2>1. main = "running" /\ hThread \in Workers
    BY <1>4 DEF QueueAddDirectory, CallsAreOver, Calling, HasThread
  <2>. DEFINE a == [kind |-> "add", directory |-> d]
  <2>2. a \in APC /\ a.kind = "add"
    BY APCTypes
  <2>3. apcs' = Queue(hThread, a) /\ UNCHANGED <<hThread, main>>
    BY <1>4 DEF QueueAddDirectory
  <2>. HIDE DEF a
  <2>. QED  BY <2>1, <2>2, <2>3, EndComesLastQueue
<1>5. ASSUME NEW d \in Directories, ReadCompletes(d) PROVE EndComesLast'
  <2>1. reader[d] \in Workers
    BY <1>5 DEF ReadCompletes, TypeOK
  <2>2. PICK k \in {"complete", "failed"} :
          apcs' = Queue(reader[d], [kind |-> k, directory |-> d])
    BY <1>5 DEF ReadCompletes
  <2>. DEFINE a == [kind |-> k, directory |-> d]
  <2>3. a \in APC /\ a.kind \notin {"add", "terminate"} /\ apcs' = Queue(reader[d], a)
    BY <2>2, APCTypes
  <2>4. UNCHANGED <<hThread, main>>
    BY <1>5 DEF ReadCompletes
  <2>. HIDE DEF a
  <2>. QED  BY <2>1, <2>3, <2>4, EndComesLastQueue
<1>6. ASSUME NEW w \in Workers, WorkerStep(w) PROVE EndComesLast'
  <2>0. UNCHANGED <<hThread, main>>
    BY <1>6, WorkerStepEffect
  <2>1. CASE Run(w) \/ SleepReturns(w)
    BY <1>1, <2>0, <2>1 DEF Run, SleepReturns
  <2>2. ASSUME NEW d \in Directories,
               \/ AddDirectory(w, d) \/ NotificationCompletion(w, d)
               \/ CompletionFailed(w, d) \/ CompletionAborted(w, d)
        PROVE  EndComesLast'
    <3>1. Dequeue(w) /\ \E a : Runs(w, a)
      BY <2>2 DEF AddDirectory, NotificationCompletion, CompletionFailed, CompletionAborted
    <3>. QED  BY <2>0, <3>1, EndComesLastRun
  <2>3. CASE RequestTermination(w)
    <3>1. \E a : Runs(w, a)
      BY <2>3 DEF RequestTermination
    <3>. QED  BY <2>0, <2>3, <3>1, EndComesLastRun
  <2>. QED  BY <1>6, <2>1, <2>2, <2>3 DEF WorkerStep
<1>7. CASE Terminate
  <2>1. CASE hThread = NoWorker
    BY <1>7, <2>1 DEF Terminate, EndComesLast, Has
  <2>2. CASE hThread # NoWorker
    <3>. DEFINE a == [kind |-> "terminate"]
    <3>1. /\ main' = "waiting" /\ hThread' = hThread /\ hThread \in Workers
          /\ apcs' = Queue(hThread, a) /\ a \in APC /\ a.kind = "terminate"
      BY <1>7, <2>2, APCTypes DEF Terminate, TypeOK
    <3>. HIDE DEF a
    <3>. QED  BY <3>1, EndComesLastQueue
  <2>. QED  BY <2>1, <2>2
<1>8. CASE WorkerEnded \/ WaitTimesOut
  BY <1>8 DEF WorkerEnded, WaitTimesOut, EndComesLast, Has
<1>9. CASE UNCHANGED vars
  BY <1>1, <1>9 DEF vars
<1>. QED  BY <1>2, <1>3, <1>4, <1>5, <1>6, <1>7, <1>8, <1>9 DEF Next

\* The termination itself.
LEMMA TerminationEnds ==
  ASSUME TypeOK, OpenIsBlocked, EndComesLast, terminating => Terminated,
         NEW w \in Workers, RequestTermination(w)
  PROVE  Terminated'
<1>1. Runs(w, [kind |-> "terminate"]) /\ UNCHANGED <<hThread, main>>
  BY DEF RequestTermination
<1>2. /\ Len(apcs[w]) \in Nat \ {0} /\ apcs[w][1] = [kind |-> "terminate"]
      /\ worker'[w] = "awake"
  BY <1>1, RunsEffect DEF TypeOK
<1>3. Has(w, "terminate")
  BY <1>2 DEF Has
<1>4. w = hThread /\ main # "running"
  BY <1>3 DEF EndComesLast
<1>5. /\ Len(apcs'[w]) \in Nat
      /\ \A i \in 1..Len(apcs'[w]) :
           \/ i + 1 \in 1..Len(apcs[w]) /\ apcs'[w][i] = apcs[w][i + 1]
           \/ apcs'[w][i].kind = "aborted"
  BY <1>1, RunShifts
<1>6. ASSUME NEW i \in 1..Len(apcs'[w]) PROVE apcs'[w][i].kind # "add"
  <2>1. CASE i + 1 \in 1..Len(apcs[w]) /\ apcs'[w][i] = apcs[w][i + 1]
    <3>1. 1 \in 1..Len(apcs[w]) /\ 1 < i + 1 /\ apcs[w][1].kind = "terminate"
      BY <1>2, <1>5
    <3>. QED  BY <2>1, <3>1 DEF EndComesLast
  <2>2. CASE apcs'[w][i].kind = "aborted"
    BY <2>2
  <2>. QED  BY <1>5, <2>1, <2>2
<1>7. \A d \in Directories : handle'[d] # "open"
  BY DEF RequestTermination, OpenIsBlocked, TypeOK
<1>8. ASSUME NEW d \in Directories PROVE reader'[d] # w
  <2>1. reader'[d] = IF d \in Cancelled(w) THEN NoWorker ELSE reader[d]
    BY DEF RequestTermination
  <2>2. CASE d \in Cancelled(w)
    BY <2>1, <2>2, WorkersAssumption
  <2>3. CASE d \notin Cancelled(w)
    <3>1. reader[d] # w
      <4>1. CASE terminating
        BY <1>4, <4>1 DEF Terminated
      <4>2. CASE ~terminating
        BY <2>3, <4>2, WorkersAssumption DEF OpenIsBlocked, Cancelled
      <4>. QED  BY <4>1, <4>2
    <3>. QED  BY <2>1, <2>3, <3>1
  <2>. QED  BY <2>2, <2>3
<1>9. ~Has(hThread, "add")'
  BY <1>1, <1>4, <1>6 DEF Has
<1>. QED  BY <1>1, <1>2, <1>4, <1>7, <1>8, <1>9 DEF Terminated

\* A step of the worker that has run it: its queue only gets shorter.
LEMMA TerminatedWorkerStep ==
  ASSUME TypeOK, Terminated, WorkerStep(hThread), ~RequestTermination(hThread)
  PROVE  Terminated'
<1>1. UNCHANGED <<hThread, main>> /\ hThread \in Workers
  BY WorkerStepEffect DEF Terminated
<1>2. CASE Run(hThread)
  <2>1. UNCHANGED <<apcs, handle, reader, hThread, main>> /\ worker[hThread] = "check"
    BY <1>2 DEF Run, requestVars
  <2>. QED  BY <2>1 DEF Terminated, Has
<1>3. CASE SleepReturns(hThread)
  <2>1. /\ UNCHANGED <<apcs, handle, reader, hThread, main>> /\ Len(apcs[hThread]) = 0
    BY <1>3 DEF SleepReturns, requestVars
  <2>. QED  BY <2>1 DEF Terminated, Has
<1>4. ASSUME NEW a, Runs(hThread, a), Dequeue(hThread), UNCHANGED handle,
             \A d \in Directories : reader'[d] # hThread
      PROVE  Terminated'
  <2>1. /\ Len(apcs'[hThread]) \in Nat
        /\ \A i \in 1..Len(apcs'[hThread]) :
             \/ i + 1 \in 1..Len(apcs[hThread]) /\ apcs'[hThread][i] = apcs[hThread][i + 1]
             \/ apcs'[hThread][i].kind = "aborted"
    BY <1>1, <1>4, RunShifts
  <2>2. worker'[hThread] = "awake"
    BY <1>1, <1>4, RunsEffect DEF TypeOK
  <2>3. ASSUME NEW i \in 1..Len(apcs'[hThread])
        PROVE  /\ apcs'[hThread][i].kind # "add"
               /\ \A d \in Directories :
                    apcs'[hThread][i] = [kind |-> "complete", directory |-> d] => handle[d] # "open"
    <3>1. CASE i + 1 \in 1..Len(apcs[hThread]) /\ apcs'[hThread][i] = apcs[hThread][i + 1]
      BY <3>1 DEF Terminated, Has
    <3>2. CASE apcs'[hThread][i].kind = "aborted"
      BY <3>2
    <3>. QED  BY <2>1, <3>1, <3>2
  <2>4. ~Has(hThread, "add")'
    BY <1>1, <2>3 DEF Has
  <2>. QED  BY <1>1, <1>4, <2>2, <2>3, <2>4 DEF Terminated
<1>5. ASSUME NEW a, Runs(hThread, a)
      PROVE  /\ 1 \in 1..Len(apcs[hThread]) /\ apcs[hThread][1] = a
  BY <1>1, <1>5, RunsEffect
<1>6. ASSUME NEW d \in Directories, AddDirectory(hThread, d) PROVE FALSE
  <2>1. /\ 1 \in 1..Len(apcs[hThread])
        /\ apcs[hThread][1] = [kind |-> "add", directory |-> d]
    BY <1>5, <1>6 DEF AddDirectory
  <2>. QED  BY <2>1 DEF Terminated, Has
<1>7. ASSUME NEW d \in Directories, NotificationCompletion(hThread, d) PROVE Terminated'
  <2>1. handle[d] # "open"
    <3>1. /\ 1 \in 1..Len(apcs[hThread])
          /\ apcs[hThread][1] = [kind |-> "complete", directory |-> d]
      BY <1>5, <1>7 DEF NotificationCompletion
    <3>. QED  BY <3>1 DEF Terminated
  <2>2. /\ UNCHANGED handle /\ reader' = [reader EXCEPT ![d] = NoWorker]
        /\ Runs(hThread, [kind |-> "complete", directory |-> d]) /\ Dequeue(hThread)
    BY <1>7, <2>1 DEF NotificationCompletion, BeginRead
  <2>3. \A e \in Directories : reader'[e] # hThread
    BY <1>1, <2>2, WorkersAssumption DEF Terminated, TypeOK
  <2>. QED  BY <1>4, <2>2, <2>3
<1>8. ASSUME NEW d \in Directories, CompletionFailed(hThread, d) \/ CompletionAborted(hThread, d)
      PROVE  Terminated'
  <2>1. UNCHANGED <<handle, reader>> /\ Dequeue(hThread) /\ \E a : Runs(hThread, a)
    BY <1>8 DEF CompletionFailed, CompletionAborted, requestVars
  <2>2. \A e \in Directories : reader'[e] # hThread
    BY <2>1 DEF Terminated
  <2>. QED  BY <1>4, <2>1, <2>2
<1>. QED  BY <1>2, <1>3, <1>6, <1>7, <1>8 DEF WorkerStep

\* A step of another worker: it may open a directory, but none of those that are
\* in the queue of the terminated one.
LEMMA OtherWorkerStep ==
  ASSUME TypeOK, OneAPC, Terminated, NEW v \in Workers, v # hThread, WorkerStep(v),
         ~RequestTermination(v)
  PROVE  Terminated'
<1>1. /\ UNCHANGED <<hThread, main>> /\ hThread \in Workers
      /\ worker'[hThread] = worker[hThread]
      /\ \A d \in Directories : reader'[d] \in {reader[d], v, NoWorker}
  BY WorkerStepEffect DEF Terminated
<1>2. \A d \in Directories : reader'[d] # hThread
  BY <1>1, WorkersAssumption DEF Terminated
<1>3. ASSUME apcs'[hThread] = apcs[hThread],
             \A i \in 1..Len(apcs[hThread]) : \A d \in Directories :
               apcs[hThread][i] = [kind |-> "complete", directory |-> d] =>
                 handle'[d] = handle[d]
      PROVE  Terminated'
  <2>1. ~Has(hThread, "add")'
    BY <1>1, <1>3 DEF Terminated, Has
  <2>. QED  BY <1>1, <1>2, <1>3, <2>1 DEF Terminated
<1>4. CASE Run(v) \/ SleepReturns(v)
  BY <1>3, <1>4 DEF Run, SleepReturns, requestVars
<1>5. ASSUME NEW d \in Directories,
             \/ NotificationCompletion(v, d)
             \/ CompletionFailed(v, d) \/ CompletionAborted(v, d)
      PROVE  Terminated'
  <2>1. UNCHANGED handle /\ Dequeue(v)
    BY <1>5 DEF NotificationCompletion, CompletionFailed, CompletionAborted, requestVars
  <2>2. apcs'[hThread] = apcs[hThread]
    BY <1>1, <2>1 DEF Dequeue, TypeOK
  <2>. QED  BY <1>3, <2>1, <2>2
<1>6. ASSUME NEW d \in Directories, AddDirectory(v, d) PROVE Terminated'
  <2>1. /\ 1 \in 1..Len(apcs[v]) /\ apcs[v][1] = [kind |-> "add", directory |-> d]
        /\ Dequeue(v) /\ \A e \in Directories : e # d => handle'[e] = handle[e]
    BY <1>6, RunsEffect DEF AddDirectory, TypeOK
  <2>2. apcs'[hThread] = apcs[hThread]
    BY <1>1, <2>1 DEF Dequeue, TypeOK
  <2>3. ASSUME NEW i \in 1..Len(apcs[hThread]),
               apcs[hThread][i] = [kind |-> "complete", directory |-> d]
        PROVE  FALSE
    <3>1. Of(apcs[v][1], d) /\ Of(apcs[hThread][i], d)
      BY <2>1, <2>3 DEF Of
    <3>. QED  BY <1>1, <2>1, <3>1 DEF OneAPC
  <2>. QED  BY <1>3, <2>1, <2>2, <2>3
<1>. QED  BY <1>4, <1>5, <1>6 DEF WorkerStep

LEMMA TerminatedStep ==
  ASSUME TypeOK, OneAPC, QuietInv, [Next]_vars
  PROVE  terminating' => Terminated'
<1>. USE DEF QuietInv
<1>1. ASSUME NEW w \in Workers, WorkerStep(w) PROVE terminating' => Terminated'
  <2>1. CASE RequestTermination(w)
    BY <2>1, TerminationEnds
  <2>2. CASE ~RequestTermination(w)
    <3>1. terminating' = terminating
      BY <1>1, <2>2 DEF WorkerStep, Run, SleepReturns, AddDirectory, NotificationCompletion,
         CompletionFailed, CompletionAborted
    <3>2. CASE w = hThread /\ terminating
      BY <1>1, <2>2, <3>2, TerminatedWorkerStep
    <3>3. CASE w # hThread /\ terminating
      BY <1>1, <2>2, <3>3, OtherWorkerStep
    <3>. QED  BY <3>1, <3>2, <3>3
  <2>. QED  BY <2>1, <2>2
<1>2. ASSUME terminating, ~\E w \in Workers : WorkerStep(w) PROVE Terminated'
  <2>1. /\ Terminated /\ main # "running" /\ hThread \in Workers
        /\ \A d \in Directories : ~Calling(d)
    BY <1>2 DEF Terminated, CallsAreOver
  <2>2. CASE UNCHANGED <<hThread, worker, apcs, handle, reader>> /\ main' # "running"
    BY <2>1, <2>2 DEF Terminated, Has
  <2>3. ASSUME NEW d \in Directories,
               CheckThread(d) \/ QueueAddDirectory(d) \/ \E w \in Workers : InitThread(d, w)
        PROVE  FALSE
    BY <2>1, <2>3 DEF CheckThread, QueueAddDirectory, InitThread, Calling
  <2>4. ASSUME NEW d \in Directories, ReadCompletes(d) PROVE Terminated'
    <3>1. /\ UNCHANGED <<hThread, worker, handle, main>>
          /\ reader' = [reader EXCEPT ![d] = NoWorker]
      BY <2>4 DEF ReadCompletes
    <3>2. apcs'[hThread] = apcs[hThread]
      BY <2>1, <2>4 DEF ReadCompletes, Terminated, Queue, TypeOK
    <3>3. \A e \in Directories : reader'[e] # hThread
      BY <2>1, <3>1, WorkersAssumption DEF Terminated, TypeOK
    <3>4. ~Has(hThread, "add")'
      BY <2>1, <3>1, <3>2 DEF Terminated, Has
    <3>. QED  BY <2>1, <3>1, <3>2, <3>3, <3>4 DEF Terminated
  <2>5. CASE WorkerEnded \/ WaitTimesOut
    BY <2>2, <2>5 DEF WorkerEnded, WaitTimesOut, requestVars
  <2>6. CASE Terminate
    BY <2>1, <2>6 DEF Terminate
  <2>7. CASE UNCHANGED vars
    BY <2>1, <2>2, <2>7 DEF vars, requestVars
  <2>. QED  BY <1>2, <2>3, <2>4, <2>5, <2>6, <2>7 DEF Next
<1>3. ASSUME ~terminating, ~\E w \in Workers : WorkerStep(w) PROVE ~terminating'
  BY <1>3 DEF Next, CheckThread, QueueAddDirectory, ReadCompletes, InitThread, Terminate,
     WorkerEnded, WaitTimesOut, vars
<1>. QED  BY <1>1, <1>2, <1>3 DEF TypeOK

LEMMA EndIsKnownStep ==
  ASSUME TypeOK, QuietInv, [Next]_vars PROVE EndIsKnown'
<1>. USE DEF QuietInv, EndIsKnown
<1>1. CASE UNCHANGED <<hThread, worker, terminating, main>>
  BY <1>1
<1>2. ASSUME NEW d \in Directories, CheckThread(d) \/ QueueAddDirectory(d) \/ ReadCompletes(d)
      PROVE  EndIsKnown'
  BY <1>1, <1>2 DEF CheckThread, QueueAddDirectory, ReadCompletes
<1>3. ASSUME NEW d \in Directories, NEW w \in Workers, InitThread(d, w) PROVE EndIsKnown'
  <2>1. main = "running" /\ main' = main /\ terminating' = terminating
    BY <1>3 DEF InitThread, CallsAreOver, Calling
  <2>2. \A v \in Workers : worker'[v] = "ended" => worker[v] = "ended"
    BY <1>3 DEF InitThread, TypeOK
  <2>. QED  BY <2>1, <2>2
<1>4. ASSUME NEW w \in Workers, WorkerStep(w), Next PROVE EndIsKnown'
  <2>1. /\ UNCHANGED <<hThread, main>>
        /\ \A v \in Workers : v # w => worker'[v] = worker[v]
        /\ worker[w] # "ended"
    BY <1>4, WorkerStepEffect
  <2>2. main # "deleted"
    BY <1>4 DEF Next, ServerExists
  <2>3. worker'[w] = "ended" => terminating
    BY <1>4 DEF WorkerStep, Run, SleepReturns, Runs, AddDirectory, NotificationCompletion,
       CompletionFailed, CompletionAborted, RequestTermination, TypeOK
  <2>4. terminating => terminating'
    BY <1>4 DEF WorkerStep, Run, SleepReturns, AddDirectory, NotificationCompletion,
       CompletionFailed, CompletionAborted, RequestTermination
  <2>. QED  BY <2>1, <2>2, <2>3, <2>4
<1>5. CASE Terminate
  BY <1>5 DEF Terminate
<1>6. CASE WorkerEnded
  BY <1>6 DEF WorkerEnded
<1>7. CASE WaitTimesOut
  BY <1>7 DEF WaitTimesOut
<1>8. CASE UNCHANGED vars
  BY <1>1, <1>8 DEF vars
<1>. QED  BY <1>2, <1>3, <1>4, <1>5, <1>6, <1>7, <1>8 DEF Next

LEMMA InitQuiet == Init => QuietInv
<1>. SUFFICES ASSUME Init PROVE QuietInv
  OBVIOUS
<1>1. CallsAreOver
  BY DEF Init, CallsAreOver, Calling
<1>2. OpenIsBlocked
  BY DEF Init, OpenIsBlocked
<1>3. EndComesLast
  BY DEF Init, EndComesLast, Has
<1>4. ~terminating /\ EndIsKnown
  BY DEF Init, EndIsKnown
<1>. QED  BY <1>1, <1>2, <1>3, <1>4 DEF QuietInv

(***************************************************************************)
(* For any directories, workers, failures and order of completions: once   *)
(* the worker that Terminate knows has run the termination it has no read  *)
(* pending and begins none, and when the server is deleted because it has  *)
(* ended its queue is empty.  Nothing is claimed of a server that is       *)
(* deleted because the ten seconds were over, or of another worker.        *)
(***************************************************************************)
THEOREM TerminatedWorkerIsQuiet == Spec => []TerminatedIsQuiet
<1>1. Init => QuietInv
  BY InitQuiet
<1>2. IInv /\ QuietInv /\ [Next]_vars => QuietInv'
  <2>. SUFFICES ASSUME IInv, QuietInv, [Next]_vars PROVE QuietInv'
    OBVIOUS
  <2>1. CallsAreOver' /\ OpenIsBlocked'
    BY CallsAreOverStep, OpenIsBlockedStep DEF IInv, QuietInv
  <2>2. EndComesLast'
    BY EndComesLastStep DEF IInv, QuietInv
  <2>3. (terminating' => Terminated') /\ EndIsKnown'
    BY TerminatedStep, EndIsKnownStep DEF IInv, RequestsInv
  <2>. QED  BY <2>1, <2>2, <2>3 DEF QuietInv
<1>3. IInv /\ QuietInv => TerminatedIsQuiet
  <2>. SUFFICES ASSUME IInv, QuietInv PROVE TerminatedIsQuiet
    OBVIOUS
  <2>1. terminating => \A d \in Directories : reader[d] # hThread
    BY DEF QuietInv, Terminated
  <2>2. ASSUME main = "deleted", hThread # NoWorker PROVE apcs[hThread] = <<>>
    <3>1. hThread \in Workers /\ worker[hThread] = "ended" /\ terminating
      BY <2>2 DEF QuietInv, EndIsKnown, IInv, TypeOK
    <3>2. Len(apcs[hThread]) = 0 /\ apcs[hThread] \in Seq(APC)
      BY <3>1 DEF QuietInv, Terminated, IInv, TypeOK
    <3>. QED  BY <3>2
  <2>. QED  BY <2>1, <2>2 DEF TerminatedIsQuiet
<1>. QED  BY <1>1, <1>2, <1>3, Inductive, PTL DEF Spec

-----------------------------------------------------------------------------
(***************************************************************************)
(* What the second worker of OneWorker comes from: a call of AddDirectory  *)
(* that begins while another one starts the worker.  This says that none   *)
(* does, which nothing in ReadDirectoryChanges.cpp:80-90 ensures.          *)
(***************************************************************************)
CallsAreSerialized ==
  \A d \in Directories : CheckThread(d) => \A e \in Directories : add[e] # "init"

OneThread ==
  /\ \A d, e \in Directories : add[d] = "init" /\ add[e] = "init" => d = e
  /\ \A d \in Directories : add[d] = "init" => hThread = NoWorker
  /\ \A w \in Workers : worker[w] # "none" => w = hThread

LEMMA OneThreadStep ==
  ASSUME TypeOK, OneThread, [Next]_vars, [CallsAreSerialized]_vars PROVE OneThread'
<1>. USE DEF OneThread
<1>1. CASE UNCHANGED <<hThread, worker, add>>
  BY <1>1
<1>2. ASSUME NEW d \in Directories, CheckThread(d) PROVE OneThread'
  <2>1. \A e \in Directories : add[e] # "init"
    <3>1. CASE CallsAreSerialized
      BY <1>2, <3>1 DEF CallsAreSerialized
    <3>2. CASE UNCHANGED vars
      BY <1>2, <3>2 DEF CheckThread, TypeOK, vars
    <3>. QED  BY <3>1, <3>2
  <2>. QED  BY <1>2, <2>1 DEF CheckThread, TypeOK
<1>3. ASSUME NEW d \in Directories, NEW w \in Workers, InitThread(d, w) PROVE OneThread'
  <2>1. hThread = NoWorker /\ add[d] = "init" /\ hThread' = w /\ w # NoWorker
    BY <1>3, WorkersAssumption DEF InitThread
  <2>2. \A v \in Workers : v # w => worker'[v] = worker[v] /\ worker[v] = "none"
    BY <1>3, <2>1, WorkersAssumption DEF InitThread, TypeOK
  <2>3. \A e \in Directories : add'[e] # "init"
    BY <1>3, <2>1 DEF InitThread, TypeOK
  <2>. QED  BY <2>1, <2>2, <2>3
<1>4. ASSUME NEW d \in Directories, QueueAddDirectory(d) PROVE OneThread'
  BY <1>4 DEF QueueAddDirectory, TypeOK
<1>5. ASSUME NEW d \in Directories, ReadCompletes(d) PROVE OneThread'
  BY <1>1, <1>5 DEF ReadCompletes
<1>6. ASSUME NEW w \in Workers, WorkerStep(w) PROVE OneThread'
  <2>1. /\ UNCHANGED <<hThread, add>> /\ worker[w] # "none"
        /\ \A v \in Workers : v # w => worker'[v] = worker[v]
    BY <1>6, WorkerStepEffect
  <2>. QED  BY <2>1
<1>7. CASE Terminate \/ WorkerEnded \/ WaitTimesOut
  BY <1>1, <1>7 DEF Terminate, WorkerEnded, WaitTimesOut
<1>8. CASE UNCHANGED vars
  BY <1>1, <1>8 DEF vars
<1>. QED  BY <1>2, <1>3, <1>4, <1>5, <1>6, <1>7, <1>8 DEF Next

(***************************************************************************)
(* As long as no call of AddDirectory begins while another one starts the  *)
(* worker there is never more than one, whatever the directories do and    *)
(* however the worker ends: there is no second cause of OneWorker's        *)
(* failure.                                                                *)
(***************************************************************************)
THEOREM SerializedCallsShareAWorker ==
  Spec /\ [][CallsAreSerialized]_vars => []OneWorker
<1>1. Init => OneThread
  BY DEF Init, OneThread
<1>2. TypeOK /\ OneThread /\ [Next]_vars /\ [CallsAreSerialized]_vars => OneThread'
  BY OneThreadStep
<1>3. ASSUME OneThread PROVE OneWorker
  <2>. DEFINE running == {w \in Workers : worker[w] # "none"}
  <2>1. running \subseteq {hThread}
    BY <1>3 DEF OneThread
  <2>2. IsFiniteSet({hThread}) /\ Cardinality({hThread}) = 1
    BY FS_Singleton
  <2>3. Cardinality(running) <= 1
    BY <2>1, <2>2, FS_Subset
  <2>. QED  BY <2>3 DEF OneWorker
<1>. QED  BY <1>1, <1>2, <1>3, TypeCorrect, PTL DEF Spec
=============================================================================
