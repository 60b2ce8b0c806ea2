------------------------- MODULE NotificationService -------------------------
(***************************************************************************)
(* What the notification queue promises the cache.                         *)
(*                                                                         *)
(* Notifications are numbered in the order they are sent.  Each one is     *)
(* pending until it is delivered, in order, or until it is given up; what  *)
(* was given up is owed a report that events were lost.  The service may   *)
(* fail, after which it promises nothing.                                  *)
(***************************************************************************)
EXTENDS Naturals, Sequences

VARIABLES sent,       \* number of notifications sent
          pending,    \* those on their way
          delivered,  \* the last one delivered
          missed,     \* those given up since the last report
          failed

vars == <<sent, pending, delivered, missed, failed>>

Init ==
  /\ sent = 0
  /\ pending = <<>>
  /\ delivered = 0
  /\ missed = {}
  /\ failed = FALSE

Send ==
  /\ sent' = sent + 1
  /\ pending' = Append(pending, sent + 1)
  /\ UNCHANGED <<delivered, missed, failed>>

Deliver ==
  /\ pending # <<>>
  /\ delivered' = Head(pending)
  /\ pending' = Tail(pending)
  /\ UNCHANGED <<sent, missed, failed>>

\* The last notification sent is given up.
Reject ==
  /\ pending # <<>>
  /\ missed' = missed \cup {pending[Len(pending)]}
  /\ pending' = SubSeq(pending, 1, Len(pending) - 1)
  /\ UNCHANGED <<sent, delivered, failed>>

\* All pending notifications are given up.
Drop ==
  /\ missed' = missed \cup {pending[i] : i \in 1..Len(pending)}
  /\ pending' = <<>>
  /\ UNCHANGED <<sent, delivered, failed>>

\* One report covers all that was missed.
Report ==
  /\ missed' = {}
  /\ UNCHANGED <<sent, pending, delivered, failed>>

Fail ==
  /\ failed' = TRUE
  /\ UNCHANGED <<sent, pending, delivered, missed>>

Next == ~failed /\ (Send \/ Deliver \/ Reject \/ Drop \/ Report \/ Fail)

Spec == Init /\ [][Next]_vars

=============================================================================
