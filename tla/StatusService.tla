---------------------------- MODULE StatusService ----------------------------
(***************************************************************************)
(* What the cache of git statuses promises, without threads, directories,  *)
(* watches, tokens or queues.                                              *)
(*                                                                         *)
(* An answer that is stored was right some time in the past.  When it is   *)
(* outdated the cache knows (there is news of its repository), or nobody   *)
(* saw the change.  News may come at any time, for a change or for none,   *)
(* but there is one way to get rid of it: to remove the entry it is about. *)
(***************************************************************************)
EXTENDS Naturals

CONSTANTS Repos, NoEntry

VARIABLES disk,   \* version each repository is at
          cache,  \* the status kept for it, or NoEntry
          news,   \* repositories of which a change is being reported
          unseen  \* repositories with an entry that no news will remove

vars == <<disk, cache, news, unseen>>

Init ==
  /\ disk = [r \in Repos |-> 0]
  /\ cache = [r \in Repos |-> NoEntry]
  /\ news = {}
  /\ unseen = {}

\* A change makes news of its repository unless nobody sees it.  It may be taken for
\* a change of other repositories too.
Change(r) ==
  /\ disk' = [disk EXCEPT ![r] = @ + 1]
  /\ news \subseteq news'
  /\ unseen' \in {unseen, unseen \cup {r}}
  /\ r \in news' \cup unseen'
  /\ UNCHANGED cache

\* Only an answer that is outdated when it is stored has no news to come.
Answer(r) ==
  /\ \E status \in [ok : BOOLEAN, version : 0..disk[r]] :
       /\ cache' = [cache EXCEPT ![r] = status]
       /\ unseen' = IF status.ok /\ status.version # disk[r]
                    THEN unseen \cup {r} ELSE unseen \ {r}
  /\ UNCHANGED <<disk, news>>

Announce ==
  /\ news \subseteq news'
  /\ UNCHANGED <<disk, cache, unseen>>

\* The entries of S are removed, and with them the news of S, or some of it.
Invalidate(S) ==
  /\ cache' = [r \in Repos |-> IF r \in S THEN NoEntry ELSE cache[r]]
  /\ news \ S \subseteq news'
  /\ news' \subseteq news
  /\ UNCHANGED <<disk, unseen>>

Next ==
  \/ \E r \in Repos : Change(r) \/ Answer(r)
  \/ Announce
  \/ \E S \in SUBSET Repos : Invalidate(S)

Spec == Init /\ [][Next]_vars
=============================================================================
