------------------------------- MODULE GitProofs -------------------------------
(***************************************************************************)
(* Proofs about Git: whatever changes on disk between the calls of one     *)
(* query, the counts it reports compare the reported branch with its       *)
(* upstream; and when nothing changes and nothing fails, the status is     *)
(* exact.  For any repositories, commits and branches.                     *)
(***************************************************************************)
EXTENDS Git, FiniteSetTheorems, TLAPS

Late == step \in {"stash", "files", "entry", "done"}
OnHead == step \in {"upstream", "upstreamName", "aheadBehind"}

\* The result, and what is on disk.
Answered ==
  /\ result = "ok" => step = "done"
  /\ result = "none" <=> step # "done"
  /\ disk \in seen /\ seen \in SUBSET Disks

(***************************************************************************)
(* Why CountsWereTrue holds: what the query has in hand when it counts.    *)
(* Until then the status says nothing of an upstream, the reported branch  *)
(* is the one whose commit is in head, and each of the two commits was the *)
(* tip of its branch at some moment of the query.                          *)
(***************************************************************************)
NothingYet ==
  ~Late => /\ status.AheadBy = 0 /\ status.BehindBy = 0 /\ status.UpstreamGone = FALSE
           /\ step # "aheadBehind" => status.Upstream = ""

HeadInHand ==
  OnHead => /\ head \in [name : Branches, commit : Commits]
            /\ status.Branch = head.name /\ head.commit \in Tips(head.name)

UpstreamInHand ==
  step = "aheadBehind" =>
    upstream \in Commits /\ upstream \in UpstreamTips(head.name) /\ status.Upstream # ""

Compared ==
  /\ status.Upstream # "" /\ ~status.UpstreamGone
  /\ \E c \in Tips(status.Branch), u \in UpstreamTips(status.Branch) :
       status.AheadBy = Beyond(c, u) /\ status.BehindBy = Beyond(u, c)

CountsInv ==
  /\ NothingYet /\ HeadInHand /\ UpstreamInHand
  /\ Late /\ status.AheadBy + status.BehindBy > 0 => Compared

(***************************************************************************)
(* Why UndisturbedIsExact holds: what the status shows of an undisturbed   *)
(* repository, before each call.                                           *)
(***************************************************************************)
Quiet == seen = {disk} /\ failed = {} /\ result # "failed"

StateShown ==
  /\ step \in {"discover", "open", "workdir", "state", "detached"} => status.State = ""
  /\ step = "detached" => disk.operation = ""
  /\ step \notin {"discover", "open", "workdir", "state", "detached"} =>
       status.State = StateOf(disk)

BranchShown ==
  /\ step \in {"headFile", "rebaseApply", "rebaseMerge"} =>
       disk.head.kind = "detached" /\ status.Branch = "HEAD"
  /\ step = "headFile" => disk.operation = ""
  /\ step \in {"rebaseApply", "rebaseMerge"} => disk.operation # ""
  /\ step = "rebaseMerge" => disk.rebaseApply = ""
  /\ OnHead => /\ disk.head.kind = "branch" /\ head.name = disk.head.name
               /\ disk.refs[head.name] # NoCommit
  /\ OnHead \/ Late => status.Branch = BranchOf(disk)

UpstreamIsShown ==
  /\ step = "upstreamName" => disk.upstream[head.name].target = NoCommit
  /\ step = "aheadBehind" \/ Late => UpstreamShown(UpstreamOf(disk))

StashesShown ==
  step \in {"files", "entry", "done"} => Len(status.Stashes) = Len(disk.stashes)

ExactInv == Quiet => StateShown /\ BranchShown /\ UpstreamIsShown /\ StashesShown


-----------------------------------------------------------------------------
FieldNames == {"WorkingDirectory", "State", "Branch", "Upstream", "UpstreamGone", "AheadBy",
               "BehindBy", "Files", "Stashes"}

LEMMA EmptyFields ==
  /\ DOMAIN EmptyStatus = FieldNames
  /\ EmptyStatus.AheadBy = 0 /\ EmptyStatus.BehindBy = 0 /\ EmptyStatus.UpstreamGone = FALSE
  /\ EmptyStatus.State = "" /\ EmptyStatus.Branch = "" /\ EmptyStatus.Upstream = ""
<1>1. DOMAIN EmptyStatus = FieldNames
  BY DEF EmptyStatus, FieldNames
<1>. QED  BY <1>1 DEF EmptyStatus

\* Set changes one field.
LEMMA SetField ==
  ASSUME TypeOK, NEW f \in FieldNames, NEW v, Set(f, v)
  PROVE  /\ DOMAIN status' = DOMAIN EmptyStatus
         /\ status'[f] = v
         /\ \A g \in FieldNames : g # f => status'[g] = status[g]
<1>1. DOMAIN status = FieldNames
  BY EmptyFields DEF TypeOK
<1>. QED  BY <1>1, EmptyFields DEF Set

\* A count is at most the number of commits.
LEMMA BeyondType ==
  ASSUME NEW c \in Commits, NEW d \in Commits PROVE Beyond(c, d) \in 0..Cardinality(Commits)
<1>1. IsFiniteSet(Commits) /\ Ancestors[c] \ Ancestors[d] \in SUBSET Commits
  BY GitAssumption
<1>2. Cardinality(Commits) \in Nat /\ Cardinality(Ancestors[c] \ Ancestors[d]) \in Nat
      /\ Cardinality(Ancestors[c] \ Ancestors[d]) <= Cardinality(Commits)
  BY <1>1, FS_Subset, FS_CardinalityType
<1>. QED  BY <1>2 DEF Beyond

\* What is on disk, and what is known of its references.
LEMMA OnDisk ==
  ASSUME TypeOK
  PROVE  /\ disk \in Disks /\ WellFormed(disk)
         /\ disk.operation \in Operations
         /\ disk.head \in Heads
         /\ disk.head.kind \in {"branch", "detached", "missing"}
         /\ disk.head.kind = "branch" => disk.head.name \in Branches
         /\ disk.refs \in [Branches -> Commits \cup {NoCommit}]
<1>1. disk \in Disks /\ WellFormed(disk)
  BY GitAssumption DEF TypeOK
<1>2. disk.head \in Heads
  BY <1>1 DEF WellFormed
<1>3. CASE disk.head \in [kind : {"branch"}, name : Branches]
  BY <1>1, <1>3 DEF WellFormed
<1>4. CASE disk.head \in [kind : {"detached"}, commit : Commits]
  BY <1>1, <1>4 DEF WellFormed
<1>5. CASE disk.head = [kind |-> "missing"]
  <2>1. disk.head.kind = "missing"
    BY <1>5
  <2>. QED  BY <1>1, <1>2, <2>1 DEF WellFormed
<1>. QED  BY <1>2, <1>3, <1>4, <1>5 DEF Heads


StatusTyped ==
  /\ DOMAIN status = DOMAIN EmptyStatus
  /\ status.AheadBy \in 0..Cardinality(Commits)
  /\ status.BehindBy \in 0..Cardinality(Commits)

LEMMA StatusTypes ==
  ASSUME TypeOK
  PROVE  /\ status' = status => StatusTyped'
         /\ \A f \in FieldNames \ {"AheadBy", "BehindBy"} : \A v : Set(f, v) => StatusTyped'
         /\ status' = EmptyStatus => StatusTyped'
<1>1. status' = status => StatusTyped'
  BY DEF TypeOK, StatusTyped
<1>2. ASSUME NEW f \in FieldNames \ {"AheadBy", "BehindBy"}, NEW v, Set(f, v)
      PROVE  StatusTyped'
  BY <1>2, SetField DEF TypeOK, StatusTyped, FieldNames
<1>3. Cardinality(Commits) \in Nat
  BY GitAssumption, FS_CardinalityType
<1>4. ASSUME status' = EmptyStatus PROVE StatusTyped'
  <2>1. 0 \in 0..Cardinality(Commits)
    BY <1>3
  <2>2. status'.AheadBy = 0 /\ status'.BehindBy = 0 /\ DOMAIN status' = DOMAIN EmptyStatus
    BY <1>4, EmptyFields
  <2>. QED  BY <2>1, <2>2 DEF StatusTyped
<1>. QED  BY <1>1, <1>2, <1>4

\* GetFileStatus lists files, and nothing else.
LEMMA FileStep ==
  ASSUME TypeOK, GetFileStatus, ~Fail
  PROVE  /\ step \in {"files", "entry"} /\ step' \in {"entry", "done"}
         /\ result' = IF step' = "done" THEN "ok" ELSE result
         /\ UNCHANGED <<disk, seen, head, upstream, failed>>
         /\ \A f \in FieldNames \ {"Files"} : status'[f] = status[f]
         /\ StatusTyped'
<1>1. \/ UNCHANGED status
      \/ \E v : Set("Files", v)
  BY DEF GetFileStatus, CreateStatusList, ListEntry, ReturnStatus
<1>2. \A f \in FieldNames \ {"Files"} : status'[f] = status[f]
  BY <1>1, SetField DEF FieldNames
<1>3. StatusTyped'
  BY <1>1, StatusTypes DEF FieldNames
<1>. QED
  BY <1>2, <1>3 DEF GetFileStatus, CreateStatusList, ListEntry, ReturnStatus, locals

LEMMA TypeStep ==
  ASSUME TypeOK, HeadInHand, UpstreamInHand, [Next]_vars PROVE TypeOK'
<1>1. /\ status' = status => StatusTyped'
      /\ \A f \in FieldNames \ {"AheadBy", "BehindBy"} : \A v : Set(f, v) => StatusTyped'
      /\ status' = EmptyStatus => StatusTyped'
  BY StatusTypes
<1>2. ASSUME UNCHANGED <<disk, seen>>, StatusTyped', step' \in Steps, UNCHANGED locals,
             failed' \in SUBSET {"workdir", "state", "ref", "stash"}, result' \in {"none", "ok", "failed"}
      PROVE  TypeOK'
  BY <1>2 DEF TypeOK, StatusTyped, locals, fileVars
<1>3. CASE Fail
  BY <1>1, <1>2, <1>3 DEF Fail, TypeOK, Steps
<1>4. ASSUME NEW part \in {"workdir", "state", "ref", "stash"}, NEW next \in Steps, GiveUp(part, next)
      PROVE  TypeOK'
  BY <1>1, <1>2, <1>4 DEF GiveUp, TypeOK
<1>5. CASE DiscoverRepository \/ OpenRepository
  BY <1>1, <1>2, <1>3, <1>5 DEF DiscoverRepository, OpenRepository, TypeOK, Steps
<1>6. ASSUME NEW f \in FieldNames \ {"AheadBy", "BehindBy"}, NEW v, Set(f, v) \/ UNCHANGED status,
             UNCHANGED <<disk, seen, locals, failed>>, step' \in Steps, result' \in {result, "ok"}
      PROVE  TypeOK'
  BY <1>1, <1>2, <1>6 DEF TypeOK
<1>7. CASE GetWorkingDirectory
  BY <1>4, <1>6, <1>7 DEF GetWorkingDirectory, FieldNames, Steps
<1>8. CASE GetRepositoryState
  BY <1>4, <1>6, <1>8 DEF GetRepositoryState, FieldNames, Steps
<1>9. CASE CheckHeadDetached
  BY <1>6, <1>9 DEF CheckHeadDetached, FieldNames, Steps
<1>10. CASE GetUnbornHead \/ GetDetachedHead
  BY <1>6, <1>10 DEF GetUnbornHead, GetDetachedHead, FieldNames, Steps
<1>11. CASE GetBranchHead
  <2>1. head' \in [name : Branches, commit : Commits]
    BY <1>11, OnDisk DEF GetBranchHead
  <2>2. StatusTyped' /\ step' \in Steps /\ UNCHANGED <<disk, seen, upstream, fileVars, failed, result>>
    BY <1>1, <1>11 DEF GetBranchHead, FieldNames, Steps
  <2>. QED  BY <2>1, <2>2 DEF TypeOK, StatusTyped, fileVars
<1>12. CASE GetNoHead \/ UpstreamFails
  BY <1>4, <1>12 DEF GetNoHead, UpstreamFails, Steps
<1>13. CASE SetBranchToCurrentCommit
  <2>1. (\E v : Set("Branch", v)) \/ UNCHANGED status
    BY <1>13 DEF SetBranchToCurrentCommit
  <2>2. \A v : Set("Branch", v) => StatusTyped'
    BY <1>1 DEF FieldNames
  <2>3. StatusTyped'
    BY <1>1, <2>1, <2>2
  <2>. QED  BY <1>2, <1>13, <2>3 DEF SetBranchToCurrentCommit, TypeOK, Steps
<1>14. CASE SetBranchFromRebaseApplyHeadName \/ SetBranchFromRebaseMergeHeadName
  <2>1. \A v : Set("Branch", v) => StatusTyped'
    BY <1>1 DEF FieldNames
  <2>2. StatusTyped'
    BY <1>1, <1>14, <2>1 DEF SetBranchFromRebaseApplyHeadName,
       SetBranchFromRebaseMergeHeadName, SetBranchFromHeadName
  <2>3. UNCHANGED <<disk, seen, locals, failed, result>> /\ step' \in Steps
    BY <1>14 DEF SetBranchFromRebaseApplyHeadName,
       SetBranchFromRebaseMergeHeadName, SetBranchFromHeadName, Steps
  <2>. QED  BY <1>2, <2>2, <2>3 DEF TypeOK
<1>15. CASE GetUpstream
  <2>1. head.name \in Branches
    BY <1>15 DEF GetUpstream, HeadInHand, OnHead
  <2>2. disk.upstream[head.name].target \in Commits \cup {NoCommit}
    BY <2>1, OnDisk DEF WellFormed
  <2>3. upstream' \in Commits \cup {NoCommit} /\ StatusTyped' /\ step' \in Steps
    BY <1>1, <1>15, <2>2 DEF GetUpstream, FieldNames, Steps, TypeOK
  <2>. QED  BY <1>15, <2>3 DEF GetUpstream, TypeOK, StatusTyped, fileVars
<1>16. CASE GetUpstreamName
  <2>1. DOMAIN status = FieldNames
    BY EmptyFields DEF TypeOK
  <2>2. StatusTyped'
    BY <1>1, <1>16, <2>1 DEF GetUpstreamName, StatusTyped, TypeOK, FieldNames
  <2>. QED  BY <1>2, <1>16, <2>2 DEF GetUpstreamName, TypeOK, Steps
<1>17. CASE GetAheadBehind
  <2>1. head.commit \in Commits /\ upstream \in Commits
    BY <1>17 DEF GetAheadBehind, HeadInHand, UpstreamInHand, OnHead
  <2>2. DOMAIN status = FieldNames
    BY EmptyFields DEF TypeOK
  <2>3. StatusTyped'
    BY <1>17, <2>1, <2>2, BeyondType, EmptyFields DEF GetAheadBehind, StatusTyped, FieldNames
  <2>. QED  BY <1>2, <1>17, <2>3 DEF GetAheadBehind, TypeOK, Steps
<1>18. CASE GetStashList
  <2>1. \/ /\ \E v : Set("Stashes", v)
           /\ step' = "files" /\ UNCHANGED <<disk, seen, locals, failed, result>>
        \/ GiveUp("stash", "files")
    BY <1>18 DEF GetStashList
  <2>. QED  BY <1>4, <1>6, <2>1 DEF FieldNames, Steps
<1>19. CASE GetFileStatus /\ ~Fail
  <2>1. statusList' \in Seq(Entry) /\ index' \in 0..Len(statusList')
    <3>1. statusList \in Seq(Entry) /\ Len(statusList) \in Nat /\ index \in 0..Len(statusList)
      BY DEF TypeOK
    <3>2. disk.entries \in Seq(Entry)
      BY OnDisk DEF WellFormed
    <3>3. Len(disk.entries) \in Nat /\ 0 \in 0..Len(disk.entries)
      BY <3>2
    <3>. QED  BY <1>19, <3>1, <3>2, <3>3 DEF GetFileStatus, CreateStatusList, ListEntry, ReturnStatus,
              locals, fileVars
  <2>. QED  BY <1>19, <2>1, FileStep DEF TypeOK, StatusTyped, Steps
<1>20. CASE ChangeOnDisk
  BY <1>20 DEF ChangeOnDisk, TypeOK, locals, fileVars
<1>21. CASE UNCHANGED vars
  BY <1>1, <1>2, <1>21 DEF vars, locals, fileVars, TypeOK
<1>. QED  BY <1>5, <1>7, <1>8, <1>9, <1>10, <1>11, <1>12, <1>13, <1>14, <1>15, <1>16, <1>17,
             <1>3, <1>18, <1>19, <1>20, <1>21 DEF Next, GetRefStatus


\* Only the other program changes the disk, and it leaves the query alone.
LEMMA DiskEffect ==
  ASSUME TypeOK, [Next]_vars
  PROVE  \/ UNCHANGED <<disk, seen>>
         \/ /\ UNCHANGED <<step, status, locals, failed, result>>
            /\ disk' \in Disks \ seen /\ seen' = seen \cup {disk'} /\ step # "done"
<1>1. CASE ChangeOnDisk
  BY <1>1 DEF ChangeOnDisk
<1>2. CASE UNCHANGED vars
  BY <1>2 DEF vars
<1>3. CASE /\ Next /\ ~ChangeOnDisk
  <2>1. CASE DiscoverRepository \/ OpenRepository \/ GetFileStatus
    BY <2>1, FileStep DEF DiscoverRepository, OpenRepository, Fail
  <2>2. CASE GetWorkingDirectory \/ GetRepositoryState \/ CheckHeadDetached \/ GetStashList
    BY <2>2 DEF GetWorkingDirectory, GetRepositoryState, CheckHeadDetached, GetStashList, GiveUp
  <2>3. CASE GetRefStatus
    BY <2>3 DEF GetRefStatus, GetUnbornHead, GetBranchHead, GetDetachedHead, GetNoHead,
       SetBranchToCurrentCommit, SetBranchFromRebaseApplyHeadName,
       SetBranchFromRebaseMergeHeadName, SetBranchFromHeadName, GetUpstream, GetUpstreamName,
       GetAheadBehind, UpstreamFails, GiveUp
  <2>. QED  BY <1>3, <2>1, <2>2, <2>3 DEF Next
<1>. QED  BY <1>1, <1>2, <1>3

LEMMA AnsweredStep ==
  ASSUME TypeOK, Answered, [Next]_vars PROVE Answered'
<1>1. disk' \in seen' /\ seen' \in SUBSET Disks
  BY DiskEffect DEF Answered
<1>2. ASSUME (step' = "done" /\ result' # "none") \/ (step' # "done" /\ result' = "none")
      PROVE  Answered'
  BY <1>1, <1>2 DEF Answered
<1>3. CASE Fail
  <2>1. result' = "failed" /\ step' = "done"
    BY <1>3 DEF Fail
  <2>. QED  BY <1>2, <2>1
<1>4. ASSUME NEW p, NEW next, step # "done", next # "done", GiveUp(p, next) PROVE Answered'
  BY <1>2, <1>4 DEF GiveUp, Answered
<1>5. ASSUME step # "done", step' # "done", UNCHANGED result PROVE Answered'
  BY <1>2, <1>5 DEF Answered
<1>6. CASE DiscoverRepository \/ OpenRepository \/ CheckHeadDetached
  BY <1>3, <1>5, <1>6 DEF DiscoverRepository, OpenRepository, CheckHeadDetached
<1>7. CASE GetWorkingDirectory \/ GetRepositoryState \/ GetStashList \/ GetNoHead \/ UpstreamFails
  BY <1>4, <1>5, <1>7 DEF GetWorkingDirectory, GetRepositoryState, GetStashList, GetNoHead,
     UpstreamFails
<1>8. CASE GetRefStatus
  BY <1>5, <1>7, <1>8 DEF GetRefStatus, GetUnbornHead, GetBranchHead, GetDetachedHead,
     SetBranchToCurrentCommit, SetBranchFromRebaseApplyHeadName,
     SetBranchFromRebaseMergeHeadName, SetBranchFromHeadName, GetUpstream, GetUpstreamName,
     GetAheadBehind
<1>9. CASE GetFileStatus /\ ~Fail
  BY <1>2, <1>9, FileStep DEF Answered
<1>10. CASE ChangeOnDisk
  BY <1>5, <1>10 DEF ChangeOnDisk
<1>11. CASE UNCHANGED vars
  BY <1>2, <1>11 DEF vars, Answered, TypeOK
<1>. QED  BY <1>3, <1>6, <1>7, <1>8, <1>9, <1>10, <1>11 DEF Next

-----------------------------------------------------------------------------
(* The counts.                                                             *)

LEMMA CountsStep ==
  ASSUME TypeOK, Answered, CountsInv, [Next]_vars PROVE CountsInv'
<1>. USE DEF FieldNames
<1>0. /\ status.AheadBy \in Nat /\ status.BehindBy \in Nat
      /\ \A s \in Steps : s \in {"stash", "files", "done"} => s \notin {"upstream", "upstreamName", "aheadBehind"}
  BY GitAssumption, FS_CardinalityType DEF TypeOK
\* The three ways to leave the counts right without counting.
<1>1. ASSUME Late', status'.AheadBy = 0, status'.BehindBy = 0 PROVE CountsInv'
  <2>1. ~OnHead' /\ step' # "aheadBehind"
    BY <1>1 DEF Late, OnHead
  <2>2. NothingYet' /\ HeadInHand' /\ UpstreamInHand'
    BY <1>1, <2>1 DEF NothingYet, HeadInHand, UpstreamInHand
  <2>3. ~(status'.AheadBy + status'.BehindBy > 0)
    BY <1>1
  <2>. QED  BY <2>2, <2>3 DEF CountsInv
<1>2. ASSUME ~Late', ~OnHead', ~Late, step # "aheadBehind",
             \A f \in {"AheadBy", "BehindBy", "Upstream", "UpstreamGone"} : status'[f] = status[f]
      PROVE  CountsInv'
  BY <1>2 DEF CountsInv, NothingYet, HeadInHand, UpstreamInHand, OnHead
<1>3. ASSUME Late, Late', seen' = seen,
             \A f \in {"AheadBy", "BehindBy", "Upstream", "UpstreamGone", "Branch"} :
               status'[f] = status[f]
      PROVE  CountsInv'
  <2>1. NothingYet' /\ HeadInHand' /\ UpstreamInHand'
    BY <1>3 DEF NothingYet, HeadInHand, UpstreamInHand, Late, OnHead
  <2>2. Compared => Compared'
    BY <1>3 DEF Compared, Tips, UpstreamTips
  <2>. QED  BY <1>3, <2>1, <2>2 DEF CountsInv
<1>4. CASE Fail
  <2>1. status'.AheadBy = 0 /\ status'.BehindBy = 0 /\ Late'
    BY <1>4, EmptyFields DEF Fail, Late
  <2>. QED  BY <1>1, <2>1
<1>5. ASSUME NEW part, NEW next \in {"state", "head", "stash"}, GiveUp(part, next), ~Late,
             next # "stash" => step # "aheadBehind"
      PROVE  CountsInv'
  <2>1. CASE next # "stash" /\ step # "aheadBehind"
    BY <1>2, <1>5, <2>1 DEF GiveUp, Late, OnHead
  <2>2. CASE next = "stash"
    BY <1>1, <1>5, <2>2 DEF GiveUp, Late, CountsInv, NothingYet
  <2>. QED  BY <1>5, <2>1, <2>2
<1>6. CASE DiscoverRepository \/ OpenRepository
  BY <1>2, <1>4, <1>6 DEF DiscoverRepository, OpenRepository, Late, OnHead
<1>7. CASE GetWorkingDirectory
  BY <1>2, <1>5, <1>7, SetField DEF GetWorkingDirectory, Late, OnHead
<1>8. CASE GetRepositoryState
  BY <1>2, <1>5, <1>8, SetField DEF GetRepositoryState, Late, OnHead
<1>9. CASE CheckHeadDetached
  BY <1>2, <1>9, SetField DEF CheckHeadDetached, Late, OnHead
<1>10. CASE GetUnbornHead
  BY <1>1, <1>10, SetField DEF GetUnbornHead, Late, CountsInv, NothingYet
<1>11. CASE GetBranchHead
  <2>1. /\ step' = "upstream" /\ head' = [name |-> disk.head.name, commit |-> disk.refs[disk.head.name]]
        /\ disk.refs[disk.head.name] # NoCommit /\ disk.head.kind = "branch" /\ seen' = seen
        /\ step = "head" /\ Set("Branch", disk.head.name)
    BY <1>11 DEF GetBranchHead
  <2>2. /\ status'.Branch = disk.head.name
        /\ \A f \in {"AheadBy", "BehindBy", "Upstream", "UpstreamGone"} : status'[f] = status[f]
    BY <2>1, SetField
  <2>3. head'.name = disk.head.name /\ head'.commit = disk.refs[disk.head.name]
        /\ head' \in [name : Branches, commit : Commits]
    BY <2>1, OnDisk
  <2>4. (head.commit \in Tips(head.name))'
    <3>1. disk.refs[disk.head.name] \in {d.refs[disk.head.name] : d \in seen'} \ {NoCommit}
      BY <2>1 DEF Answered
    <3>. QED  BY <2>3, <3>1 DEF Tips
  <2>5. HeadInHand'
    <3>1. status'.Branch = head'.name
      BY <2>2, <2>3
    <3>. QED  BY <2>3, <2>4, <3>1 DEF HeadInHand
  <2>6. NothingYet'
    BY <2>1, <2>2 DEF CountsInv, NothingYet, Late
  <2>. QED  BY <2>1, <2>5, <2>6 DEF CountsInv, UpstreamInHand, Late
<1>12. CASE GetDetachedHead
  BY <1>2, <1>12, SetField DEF GetDetachedHead, Late, OnHead
<1>13. CASE GetNoHead \/ UpstreamFails
  BY <1>5, <1>13 DEF GetNoHead, UpstreamFails, Late
<1>14. CASE SetBranchToCurrentCommit
  <2>1. /\ step = "headFile" /\ step' = "stash"
        /\ (\E v : Set("Branch", v)) \/ UNCHANGED status
    BY <1>14 DEF SetBranchToCurrentCommit
  <2>2. status'.AheadBy = status.AheadBy /\ status'.BehindBy = status.BehindBy
    BY <2>1, SetField
  <2>. QED  BY <1>1, <2>1, <2>2 DEF Late, CountsInv, NothingYet
<1>15. ASSUME NEW name, NEW otherwise \in {"rebaseMerge", "stash"},
              SetBranchFromHeadName(name, otherwise), step \in {"rebaseApply", "rebaseMerge"}
       PROVE  CountsInv'
  <2>1. (\E v : Set("Branch", v)) \/ UNCHANGED status
    BY <1>15 DEF SetBranchFromHeadName
  <2>2. \A f \in {"AheadBy", "BehindBy", "Upstream", "UpstreamGone"} : status'[f] = status[f]
    BY <2>1, SetField
  <2>3. CASE step' = "rebaseMerge"
    BY <1>2, <1>15, <2>2, <2>3 DEF Late, OnHead
  <2>4. CASE step' = "stash"
    BY <1>1, <1>15, <2>2, <2>4 DEF Late, CountsInv, NothingYet
  <2>. QED  BY <1>15, <2>3, <2>4 DEF SetBranchFromHeadName
<1>16. CASE SetBranchFromRebaseApplyHeadName \/ SetBranchFromRebaseMergeHeadName
  BY <1>15, <1>16 DEF SetBranchFromRebaseApplyHeadName, SetBranchFromRebaseMergeHeadName
<1>17. CASE GetUpstream
  <2>1. /\ step = "upstream" /\ UNCHANGED <<disk, seen, head>>
        /\ head \in [name : Branches, commit : Commits] /\ status.Branch = head.name
        /\ head.commit \in Tips(head.name)
    BY <1>17 DEF GetUpstream, CountsInv, HeadInHand, OnHead
  <2>2. Tips(head.name)' = Tips(head.name)
    BY <2>1 DEF Tips
  <2>. DEFINE u == disk.upstream[head.name]
  <2>3. CASE u.target = NoCommit
    <3>1. step' = "upstreamName" /\ UNCHANGED <<status, upstream>>
      BY <1>17, <2>3 DEF GetUpstream
    <3>2. HeadInHand'
      BY <2>1, <2>2, <3>1 DEF HeadInHand
    <3>. QED  BY <2>1, <3>1, <3>2 DEF CountsInv, NothingYet, UpstreamInHand, Late
  <2>4. CASE u.target # NoCommit
    <3>1. step' = "aheadBehind" /\ upstream' = u.target /\ Set("Upstream", u.short)
      BY <1>17, <2>4 DEF GetUpstream
    <3>2. u.short # "" /\ u.target \in Commits
      BY <2>1, <2>4, OnDisk DEF WellFormed
    <3>3. /\ status'.Upstream # ""
          /\ \A f \in {"AheadBy", "BehindBy", "Branch", "UpstreamGone"} : status'[f] = status[f]
      BY <3>1, <3>2, SetField
    <3>4. upstream' \in UpstreamTips(head.name)'
      BY <2>1, <2>4, <3>1 DEF UpstreamTips, Answered
    <3>5. HeadInHand'
      BY <2>1, <2>2, <3>3 DEF HeadInHand
    <3>6. UpstreamInHand'
      BY <2>1, <3>1, <3>2, <3>3, <3>4 DEF UpstreamInHand
    <3>7. NothingYet'
      BY <2>1, <3>1, <3>3 DEF CountsInv, NothingYet, Late
    <3>. QED  BY <3>1, <3>5, <3>6, <3>7 DEF CountsInv, Late
  <2>. QED  BY <2>3, <2>4
<1>18. CASE GetUpstreamName
  <2>1. step = "upstreamName" /\ step' = "stash" /\ DOMAIN status = FieldNames
    BY <1>18, EmptyFields DEF GetUpstreamName, TypeOK
  <2>2. status'.AheadBy = status.AheadBy /\ status'.BehindBy = status.BehindBy
    BY <1>18, <2>1 DEF GetUpstreamName
  <2>. QED  BY <1>1, <2>1, <2>2 DEF CountsInv, NothingYet, Late
<1>19. CASE GetAheadBehind
  <2>1. /\ step = "aheadBehind" /\ step' = "stash" /\ UNCHANGED <<seen, head, upstream>>
        /\ DOMAIN status = FieldNames
    BY <1>19, EmptyFields DEF GetAheadBehind, TypeOK, locals, fileVars
  <2>2. /\ status'.AheadBy = Beyond(head.commit, upstream)
        /\ status'.BehindBy = Beyond(upstream, head.commit)
        /\ \A f \in {"Branch", "Upstream", "UpstreamGone"} : status'[f] = status[f]
    BY <1>19, <2>1 DEF GetAheadBehind
  <2>3. /\ head.commit \in Tips(status.Branch) /\ upstream \in UpstreamTips(status.Branch)
        /\ status.Upstream # "" /\ ~status.UpstreamGone
    BY <2>1 DEF CountsInv, HeadInHand, UpstreamInHand, NothingYet, Late, OnHead
  <2>4. /\ Tips(status.Branch)' = Tips(status.Branch)
        /\ UpstreamTips(status.Branch)' = UpstreamTips(status.Branch)
    BY <2>1, <2>2 DEF Tips, UpstreamTips
  <2>5. Compared'
    BY <2>2, <2>3, <2>4 DEF Compared
  <2>. QED  BY <2>1, <2>5 DEF CountsInv, NothingYet, HeadInHand, UpstreamInHand, Late, OnHead
<1>20. CASE GetStashList
  <2>1. /\ step = "stash" /\ step' = "files" /\ seen' = seen
        /\ (\E v : Set("Stashes", v)) \/ UNCHANGED status
    BY <1>20 DEF GetStashList, GiveUp
  <2>2. \A f \in {"AheadBy", "BehindBy", "Upstream", "UpstreamGone", "Branch"} :
          status'[f] = status[f]
    BY <2>1, SetField
  <2>. QED  BY <1>3, <2>1, <2>2 DEF Late
<1>21. CASE GetFileStatus
  <2>1. CASE ~Fail
    BY <1>3, <1>21, <2>1, FileStep DEF Late, FieldNames
  <2>2. CASE Fail
    BY <1>4, <2>2
  <2>. QED  BY <2>1, <2>2
<1>22. CASE UNCHANGED <<step, status, locals>> /\ seen \subseteq seen'
  <2>1. \A b : Tips(b) \subseteq {d.refs[b] : d \in seen'} \ {NoCommit}
    BY <1>22 DEF Tips
  <2>2. \A b : UpstreamTips(b) \subseteq {d.upstream[b].target : d \in seen'} \ {NoCommit}
    BY <1>22 DEF UpstreamTips
  <2>3. /\ Tips(head.name) \subseteq Tips(head.name)'
        /\ UpstreamTips(head.name) \subseteq UpstreamTips(head.name)'
        /\ Tips(status.Branch) \subseteq Tips(status.Branch)'
        /\ UpstreamTips(status.Branch) \subseteq UpstreamTips(status.Branch)'
    BY <1>22, <2>1, <2>2 DEF Tips, UpstreamTips, locals, fileVars
  <2>4. NothingYet' /\ HeadInHand' /\ UpstreamInHand'
    BY <1>22, <2>3 DEF CountsInv, NothingYet, HeadInHand, UpstreamInHand, Late, OnHead, locals, fileVars
  <2>5. Compared => Compared'
    BY <1>22, <2>3 DEF Compared
  <2>. QED  BY <1>22, <2>4, <2>5 DEF CountsInv, Late
<1>23. CASE ChangeOnDisk
  BY <1>22, <1>23 DEF ChangeOnDisk
<1>24. CASE UNCHANGED vars
  BY <1>22, <1>24 DEF vars, locals, fileVars
<1>. QED  BY <1>6, <1>7, <1>8, <1>9, <1>10, <1>11, <1>12, <1>13, <1>14, <1>16, <1>17, <1>18,
             <1>19, <1>20, <1>21, <1>23, <1>24 DEF Next, GetRefStatus


-----------------------------------------------------------------------------
(* The undisturbed query.                                                  *)

LEMMA QuietBefore ==
  ASSUME TypeOK, Answered, [Next]_vars, Quiet'
  PROVE  Quiet /\ UNCHANGED <<disk, seen, failed>> /\ ~Fail
<1>1. ~Fail
  BY DEF Quiet, Fail
<1>2. UNCHANGED <<disk, seen>>
  BY DiskEffect DEF Quiet, Answered
<1>3. failed \subseteq failed'
  <2>1. CASE DiscoverRepository \/ OpenRepository \/ GetFileStatus
    BY <2>1, FileStep DEF DiscoverRepository, OpenRepository, Fail
  <2>2. CASE GetWorkingDirectory \/ GetRepositoryState \/ CheckHeadDetached \/ GetStashList
    BY <2>2 DEF GetWorkingDirectory, GetRepositoryState, CheckHeadDetached, GetStashList, GiveUp
  <2>3. CASE GetRefStatus
    BY <2>3 DEF GetRefStatus, GetUnbornHead, GetBranchHead, GetDetachedHead, GetNoHead,
       SetBranchToCurrentCommit, SetBranchFromRebaseApplyHeadName,
       SetBranchFromRebaseMergeHeadName, SetBranchFromHeadName, GetUpstream, GetUpstreamName,
       GetAheadBehind, UpstreamFails, GiveUp
  <2>4. CASE ChangeOnDisk \/ UNCHANGED vars
    BY <2>4 DEF ChangeOnDisk, vars
  <2>. QED  BY <2>1, <2>2, <2>3, <2>4 DEF Next
<1>4. result # "failed"
  <2>1. CASE step # "done"
    BY <2>1 DEF Answered
  <2>2. CASE step = "done"
    <3>1. UNCHANGED vars
      BY <2>2 DEF Next, GetRefStatus, DiscoverRepository, OpenRepository, GetFileStatus,
         CreateStatusList, ListEntry, ReturnStatus,
         GetWorkingDirectory, GetRepositoryState, CheckHeadDetached, GetStashList,
         GetUnbornHead, GetBranchHead, GetDetachedHead, GetNoHead, SetBranchToCurrentCommit,
         SetBranchFromRebaseApplyHeadName, SetBranchFromRebaseMergeHeadName, GetUpstream,
         GetUpstreamName, GetAheadBehind, UpstreamFails, ChangeOnDisk
    <3>. QED  BY <3>1 DEF vars, Quiet
  <2>. QED  BY <2>1, <2>2
<1>5. failed' = {} /\ seen' = {disk'}
  BY DEF Quiet
<1>. QED  BY <1>1, <1>2, <1>3, <1>4, <1>5 DEF Quiet

\* What BranchOf, StateOf and UpstreamOf say of each kind of head.
LEMMA WhatToShow ==
  ASSUME TypeOK
  PROVE  /\ disk.head.kind = "branch" /\ disk.refs[disk.head.name] = NoCommit =>
              BranchOf(disk) = "UNBORN" /\ UpstreamOf(disk) = NoUpstream
         /\ disk.head.kind = "branch" /\ disk.refs[disk.head.name] # NoCommit =>
              /\ BranchOf(disk) = disk.head.name
              /\ UpstreamOf(disk) = disk.upstream[disk.head.name]
         /\ disk.head.kind = "detached" => UpstreamOf(disk) = NoUpstream
         /\ disk.head.kind = "detached" /\ disk.operation = "" => BranchOf(disk) = disk.head.commit
         /\ disk.head.kind = "detached" /\ disk.operation # "" =>
              /\ disk.rebaseApply # "" => BranchOf(disk) = disk.rebaseApply
              /\ disk.rebaseApply = "" /\ disk.rebaseMerge # "" => BranchOf(disk) = disk.rebaseMerge
              /\ disk.rebaseApply = "" /\ disk.rebaseMerge = "" => BranchOf(disk) = "HEAD"
         /\ StateOf(disk) = "DETACHED" <=> disk.operation = "" /\ disk.head.kind = "detached"
<1>1. disk.operation # "DETACHED" /\ (disk.rebaseApply = "" \/ disk.rebaseMerge = "")
  BY OnDisk DEF WellFormed, Operations
<1>2. ASSUME disk.head.kind = "detached", disk.operation # ""
      PROVE  /\ disk.rebaseApply # "" => BranchOf(disk) = disk.rebaseApply
             /\ disk.rebaseApply = "" /\ disk.rebaseMerge # "" => BranchOf(disk) = disk.rebaseMerge
             /\ disk.rebaseApply = "" /\ disk.rebaseMerge = "" => BranchOf(disk) = "HEAD"
  <2>. DEFINE names == {disk.rebaseApply, disk.rebaseMerge}
  <2>1. BranchOf(disk) = IF names = {""} THEN "HEAD" ELSE CHOOSE b \in names : b # ""
    BY <1>2 DEF BranchOf
  <2>2. CASE disk.rebaseApply # ""
    <3>1. names # {""} /\ \A b \in names : b # "" => b = disk.rebaseApply
      BY <1>1, <2>2
    <3>2. \E b \in names : b # ""
      BY <2>2
    <3>. QED  BY <2>1, <2>2, <3>1, <3>2
  <2>3. CASE disk.rebaseApply = "" /\ disk.rebaseMerge # ""
    <3>1. names # {""} /\ \A b \in names : b # "" => b = disk.rebaseMerge
      BY <2>3
    <3>2. \E b \in names : b # ""
      BY <2>3
    <3>. QED  BY <2>1, <2>3, <3>1, <3>2
  <2>4. CASE disk.rebaseApply = "" /\ disk.rebaseMerge = ""
    <3>1. names = {""}
      BY <2>4
    <3>. QED  BY <2>1, <2>4, <3>1
  <2>. QED  BY <2>2, <2>3, <2>4
<1>3. StateOf(disk) = "DETACHED" <=> disk.operation = "" /\ disk.head.kind = "detached"
  BY <1>1 DEF StateOf
<1>4. disk.head.kind = "branch" /\ disk.refs[disk.head.name] = NoCommit =>
        BranchOf(disk) = "UNBORN" /\ UpstreamOf(disk) = NoUpstream
  BY DEF BranchOf, UpstreamOf
<1>5. disk.head.kind = "branch" /\ disk.refs[disk.head.name] # NoCommit =>
        /\ BranchOf(disk) = disk.head.name
        /\ UpstreamOf(disk) = disk.upstream[disk.head.name]
  BY DEF BranchOf, UpstreamOf
<1>6. disk.head.kind = "detached" => UpstreamOf(disk) = NoUpstream
  BY DEF UpstreamOf
<1>7. disk.head.kind = "detached" /\ disk.operation = "" => BranchOf(disk) = disk.head.commit
  BY DEF BranchOf
<1>. QED  BY <1>2, <1>3, <1>4, <1>5, <1>6, <1>7


\* The stashes are listed one by one.
LEMMA SequenceDomain ==
  ASSUME NEW S, NEW s \in Seq(S) PROVE Len(s) \in Nat /\ DOMAIN s = 1..Len(s) /\ \A i \in DOMAIN s : s[i] \in S
OBVIOUS

LEMMA StashLength ==
  ASSUME TypeOK, Set("Stashes", [i \in DOMAIN disk.stashes |-> disk.stashes[i].first39])
  PROVE  Len(status'.Stashes) = Len(disk.stashes)
<1>1. disk.stashes \in Seq([first39 : STRING, last : STRING])
  BY OnDisk DEF WellFormed
<1>2. Len(disk.stashes) \in Nat /\ DOMAIN disk.stashes = 1..Len(disk.stashes)
  BY <1>1, SequenceDomain
<1>. DEFINE ids == [i \in DOMAIN disk.stashes |-> disk.stashes[i].first39]
<1>3. DOMAIN ids = 1..Len(disk.stashes)
  BY <1>2
<1>4. \A i \in DOMAIN disk.stashes : disk.stashes[i].first39 \in STRING
  <2>1. \A i \in DOMAIN disk.stashes : disk.stashes[i] \in [first39 : STRING, last : STRING]
    BY <1>1, SequenceDomain
  <2>2. \A r \in [first39 : STRING, last : STRING] : r.first39 \in STRING
    OBVIOUS
  <2>. QED  BY <2>1, <2>2
<1>5. ids \in [1..Len(disk.stashes) -> STRING]
  BY <1>2, <1>4
<1>. HIDE DEF ids
<1>7. Len(ids) = Len(disk.stashes)
  BY <1>2, <1>5
<1>8. status'.Stashes = ids
  BY SetField DEF FieldNames, ids
<1>. QED  BY <1>7, <1>8

LEMMA ExactStep ==
  ASSUME TypeOK, Answered, CountsInv, ExactInv, [Next]_vars PROVE ExactInv'
<1>. SUFFICES ASSUME Quiet' PROVE StateShown' /\ BranchShown' /\ UpstreamIsShown' /\ StashesShown'
  BY DEF ExactInv
<1>. USE DEF FieldNames
<1>1. /\ ~Fail /\ UNCHANGED <<disk, seen, failed>>
      /\ StateShown /\ BranchShown /\ UpstreamIsShown /\ StashesShown /\ NothingYet
      /\ \A part, next : ~GiveUp(part, next)
  <2>1. ~Fail /\ UNCHANGED <<disk, seen, failed>> /\ Quiet
    BY QuietBefore
  <2>2. \A part, next : ~GiveUp(part, next)
    BY <2>1 DEF GiveUp, Quiet
  <2>. QED  BY <2>1, <2>2 DEF ExactInv, CountsInv
<1>2. /\ StateOf(disk)' = StateOf(disk) /\ BranchOf(disk)' = BranchOf(disk)
      /\ UpstreamOf(disk)' = UpstreamOf(disk)
  BY <1>1
<1>3. ASSUME \A f \in {"Upstream", "UpstreamGone"} : status'[f] = status[f]
      PROVE  UpstreamShown(UpstreamOf(disk)) => UpstreamShown(UpstreamOf(disk))'
  BY <1>2, <1>3 DEF UpstreamShown
\* Nothing of an upstream is shown, and there is none.
<1>4. ASSUME UpstreamOf(disk) = NoUpstream, ~Late, step # "aheadBehind",
             \A f \in {"Upstream", "UpstreamGone"} : status'[f] = status[f]
      PROVE  UpstreamShown(UpstreamOf(disk))'
  <2>1. status'.Upstream = "" /\ status'.UpstreamGone = FALSE
    BY <1>1, <1>4 DEF NothingYet, Late
  <2>2. NoUpstream.short = "" /\ NoUpstream.target = NoCommit
    BY DEF NoUpstream
  <2>. QED  BY <1>2, <1>4, <2>1, <2>2 DEF UpstreamShown
<1>5. CASE DiscoverRepository \/ OpenRepository
  BY <1>1, <1>5 DEF DiscoverRepository, OpenRepository, StateShown, BranchShown,
     UpstreamIsShown, StashesShown, OnHead, Late
<1>6. CASE GetWorkingDirectory
  BY <1>1, <1>6, SetField DEF GetWorkingDirectory, StateShown, BranchShown,
     UpstreamIsShown, StashesShown, OnHead, Late
<1>7. CASE GetRepositoryState
  <2>1. /\ step = "state" /\ Set("State", disk.operation)
        /\ step' = IF disk.operation = "" THEN "detached" ELSE "head"
    BY <1>1, <1>7 DEF GetRepositoryState
  <2>2. status'.State = disk.operation
    BY <2>1, SetField
  <2>3. StateShown'
    BY <1>1, <1>2, <2>1, <2>2 DEF StateShown, StateOf
  <2>. QED  BY <2>1, <2>3 DEF BranchShown, UpstreamIsShown, StashesShown, OnHead, Late
<1>8. CASE CheckHeadDetached
  <2>1. /\ step = "detached" /\ step' = "head" /\ status.State = "" /\ disk.operation = ""
        /\ IF disk.head.kind = "detached" THEN Set("State", "DETACHED") ELSE UNCHANGED status
    BY <1>1, <1>8 DEF CheckHeadDetached, StateShown
  <2>2. status'.State = StateOf(disk)
    BY <2>1, SetField DEF StateOf
  <2>3. StateShown'
    BY <1>2, <2>1, <2>2 DEF StateShown
  <2>. QED  BY <2>1, <2>3 DEF BranchShown, UpstreamIsShown, StashesShown, OnHead, Late
\* The steps that follow leave the state alone.
<1>9. ASSUME step \notin {"discover", "open", "workdir", "state", "detached"},
             step' \notin {"discover", "open", "workdir", "state", "detached"},
             status'.State = status.State
      PROVE  StateShown'
  BY <1>1, <1>2, <1>9 DEF StateShown
\* GetRefStatus is done with.
<1>10. ASSUME step \notin {"discover", "open", "workdir", "state", "detached"}, step' = "stash",
              status'.State = status.State, status'.Branch = BranchOf(disk),
              UpstreamShown(UpstreamOf(disk))'
       PROVE  StateShown' /\ BranchShown' /\ UpstreamIsShown' /\ StashesShown'
  BY <1>2, <1>9, <1>10 DEF BranchShown, UpstreamIsShown, StashesShown, OnHead, Late
<1>11. CASE GetUnbornHead
  <2>1. /\ step = "head" /\ step' = "stash" /\ Set("Branch", "UNBORN")
        /\ disk.head.kind = "branch" /\ disk.refs[disk.head.name] = NoCommit
    BY <1>11 DEF GetUnbornHead
  <2>2. /\ status'.Branch = BranchOf(disk)
        /\ \A f \in {"State", "Upstream", "UpstreamGone"} : status'[f] = status[f]
    BY <2>1, SetField, WhatToShow
  <2>3. UpstreamShown(UpstreamOf(disk))'
    BY <1>4, <2>1, <2>2, WhatToShow DEF Late
  <2>. QED  BY <1>10, <2>1, <2>2, <2>3
<1>12. CASE GetBranchHead
  <2>1. /\ step = "head" /\ step' = "upstream" /\ Set("Branch", disk.head.name)
        /\ disk.head.kind = "branch" /\ disk.refs[disk.head.name] # NoCommit
        /\ head' = [name |-> disk.head.name, commit |-> disk.refs[disk.head.name]]
    BY <1>12 DEF GetBranchHead
  <2>2. status'.Branch = BranchOf(disk) /\ status'.State = status.State
    BY <2>1, SetField, WhatToShow
  <2>3. (head.name)' = disk.head.name
    BY <2>1
  <2>4. BranchShown'
    BY <1>1, <1>2, <2>1, <2>2, <2>3 DEF BranchShown, OnHead, Late
  <2>. QED  BY <1>9, <2>1, <2>2, <2>4 DEF UpstreamIsShown, StashesShown, Late
<1>13. CASE GetDetachedHead
  <2>1. /\ step = "head" /\ disk.head.kind = "detached" /\ Set("Branch", "HEAD")
        /\ step' = IF status.State = "DETACHED" THEN "headFile" ELSE "rebaseApply"
    BY <1>13 DEF GetDetachedHead
  <2>2. status'.Branch = "HEAD" /\ status'.State = status.State
    BY <2>1, SetField
  <2>3. status.State = "DETACHED" <=> disk.operation = ""
    BY <1>1, <2>1, WhatToShow DEF StateShown
  <2>4. BranchShown'
    BY <1>1, <2>1, <2>2, <2>3 DEF BranchShown, OnHead, Late
  <2>. QED  BY <1>9, <2>1, <2>2, <2>4 DEF UpstreamIsShown, StashesShown, Late
<1>14. CASE SetBranchToCurrentCommit
  <2>1. /\ step = "headFile" /\ step' = "stash" /\ disk.head.kind = "detached"
        /\ disk.operation = "" /\ Set("Branch", disk.head.commit)
    BY <1>1, <1>14 DEF SetBranchToCurrentCommit, BranchShown
  <2>2. /\ status'.Branch = BranchOf(disk)
        /\ \A f \in {"State", "Upstream", "UpstreamGone"} : status'[f] = status[f]
    BY <2>1, SetField, WhatToShow
  <2>3. UpstreamShown(UpstreamOf(disk))'
    BY <1>4, <2>1, <2>2, WhatToShow DEF Late
  <2>. QED  BY <1>10, <2>1, <2>2, <2>3
<1>15. ASSUME NEW name, NEW otherwise, SetBranchFromHeadName(name, otherwise),
              step \in {"rebaseApply", "rebaseMerge"}, step' = "stash",
              name # "" => name = BranchOf(disk), name = "" => BranchOf(disk) = "HEAD"
       PROVE  StateShown' /\ BranchShown' /\ UpstreamIsShown' /\ StashesShown'
  <2>1. disk.head.kind = "detached" /\ status.Branch = "HEAD"
    BY <1>1, <1>15 DEF BranchShown
  <2>2. /\ status'.Branch = BranchOf(disk)
        /\ \A f \in {"State", "Upstream", "UpstreamGone"} : status'[f] = status[f]
    <3>1. CASE name = ""
      BY <1>15, <2>1, <3>1 DEF SetBranchFromHeadName
    <3>2. CASE name # ""
      BY <1>15, <3>2, SetField DEF SetBranchFromHeadName
    <3>. QED  BY <3>1, <3>2
  <2>3. UpstreamShown(UpstreamOf(disk))'
    BY <1>4, <1>15, <2>1, <2>2, WhatToShow DEF Late
  <2>. QED  BY <1>10, <1>15, <2>2, <2>3
<1>16. CASE SetBranchFromRebaseApplyHeadName
  <2>1. /\ step = "rebaseApply" /\ SetBranchFromHeadName(disk.rebaseApply, "rebaseMerge")
        /\ disk.head.kind = "detached" /\ disk.operation # ""
    BY <1>1, <1>16 DEF SetBranchFromRebaseApplyHeadName, BranchShown
  <2>2. CASE disk.rebaseApply = ""
    <3>1. step' = "rebaseMerge" /\ UNCHANGED status
      BY <2>1, <2>2 DEF SetBranchFromHeadName
    <3>2. BranchShown'
      BY <1>1, <2>1, <2>2, <3>1 DEF BranchShown, OnHead, Late
    <3>. QED  BY <1>9, <2>1, <3>1, <3>2 DEF UpstreamIsShown, StashesShown, Late
  <2>3. CASE disk.rebaseApply # ""
    <3>1. step' = "stash"
      BY <2>1, <2>3 DEF SetBranchFromHeadName
    <3>2. BranchOf(disk) = disk.rebaseApply
      BY <2>1, <2>3, WhatToShow
    <3>. QED  BY <1>15, <2>1, <2>3, <3>1, <3>2
  <2>. QED  BY <2>2, <2>3
<1>17. CASE SetBranchFromRebaseMergeHeadName
  <2>1. /\ step = "rebaseMerge" /\ SetBranchFromHeadName(disk.rebaseMerge, "stash")
        /\ disk.head.kind = "detached" /\ disk.operation # "" /\ disk.rebaseApply = ""
    BY <1>1, <1>17 DEF SetBranchFromRebaseMergeHeadName, BranchShown
  <2>2. step' = "stash"
    BY <2>1 DEF SetBranchFromHeadName
  <2>3. /\ disk.rebaseMerge # "" => BranchOf(disk) = disk.rebaseMerge
        /\ disk.rebaseMerge = "" => BranchOf(disk) = "HEAD"
    BY <2>1, WhatToShow
  <2>. QED  BY <1>15, <2>1, <2>2, <2>3
<1>18. CASE GetUpstream
  <2>. DEFINE u == disk.upstream[head.name]
  <2>1. /\ step = "upstream" /\ UNCHANGED head
        /\ disk.head.kind = "branch" /\ head.name = disk.head.name
        /\ disk.refs[head.name] # NoCommit /\ status.Branch = BranchOf(disk)
        /\ UpstreamOf(disk) = u
    BY <1>1, <1>18, WhatToShow DEF GetUpstream, BranchShown, OnHead
  <2>2. CASE u.target = NoCommit
    <3>1. step' = "upstreamName" /\ UNCHANGED status
      BY <1>18, <2>2 DEF GetUpstream
    <3>2. BranchShown'
      BY <1>1, <1>2, <2>1, <3>1 DEF BranchShown, OnHead, Late
    <3>3. UpstreamIsShown'
      BY <1>1, <2>1, <2>2, <3>1 DEF UpstreamIsShown, Late
    <3>. QED  BY <1>9, <2>1, <3>1, <3>2, <3>3 DEF StashesShown
  <2>3. CASE u.target # NoCommit
    <3>1. step' = "aheadBehind" /\ Set("Upstream", u.short)
      BY <1>18, <2>3 DEF GetUpstream
    <3>2. /\ status'.Upstream = u.short
          /\ \A f \in {"State", "Branch", "UpstreamGone"} : status'[f] = status[f]
      BY <3>1, SetField
    <3>3. BranchShown'
      BY <1>1, <1>2, <2>1, <3>1, <3>2 DEF BranchShown, OnHead, Late
    <3>4. status'.UpstreamGone = FALSE
      BY <1>1, <2>1, <3>2, SetField, <3>1 DEF NothingYet, Late
    <3>5. UpstreamShown(UpstreamOf(disk))'
      BY <1>2, <2>1, <2>3, <3>2, <3>4 DEF UpstreamShown
    <3>. QED  BY <1>9, <2>1, <3>1, <3>2, <3>3, <3>5 DEF UpstreamIsShown, StashesShown
  <2>. QED  BY <2>2, <2>3
<1>19. CASE GetUpstreamName
  <2>. DEFINE u == disk.upstream[head.name]
  <2>1. /\ step = "upstreamName" /\ step' = "stash" /\ u.target = NoCommit
        /\ UpstreamOf(disk) = u /\ status.Branch = BranchOf(disk)
        /\ status.Upstream = "" /\ status.UpstreamGone = FALSE
    BY <1>1, <1>19, WhatToShow DEF GetUpstreamName, BranchShown, UpstreamIsShown, OnHead,
       NothingYet, Late
  <2>2. CASE u = NoUpstream
    <3>1. UNCHANGED status
      BY <1>19, <2>2 DEF GetUpstreamName
    <3>2. UpstreamShown(UpstreamOf(disk))'
      BY <1>4, <2>1, <2>2, <3>1 DEF Late
    <3>. QED  BY <1>10, <2>1, <3>1, <3>2
  <2>3. CASE u # NoUpstream
    <3>1. DOMAIN status = FieldNames
      BY EmptyFields DEF TypeOK
    <3>2. /\ status'.UpstreamGone = TRUE
          /\ status'.Upstream = IF u.remote THEN u.short ELSE u.full
          /\ status'.State = status.State /\ status'.Branch = status.Branch
      BY <1>19, <2>3, <3>1 DEF GetUpstreamName
    <3>3. UpstreamShown(UpstreamOf(disk))'
      BY <1>2, <2>1, <2>3, <3>2 DEF UpstreamShown
    <3>. QED  BY <1>10, <2>1, <3>2, <3>3
  <2>. QED  BY <2>2, <2>3
<1>20. CASE GetAheadBehind
  <2>1. /\ step = "aheadBehind" /\ step' = "stash" /\ DOMAIN status = FieldNames
        /\ status.Branch = BranchOf(disk) /\ UpstreamShown(UpstreamOf(disk))
    BY <1>1, <1>20, EmptyFields DEF GetAheadBehind, TypeOK, BranchShown, UpstreamIsShown, OnHead
  <2>2. \A f \in {"State", "Branch", "Upstream", "UpstreamGone"} : status'[f] = status[f]
    BY <1>20, <2>1 DEF GetAheadBehind
  <2>. QED  BY <1>3, <1>10, <2>1, <2>2
\* The last two calls leave all but their own field alone.
<1>21. ASSUME Late, Late', step' \in {"files", "entry", "done"},
              \A f \in {"State", "Branch", "Upstream", "UpstreamGone"} : status'[f] = status[f],
              Len(status'.Stashes) = Len(disk.stashes)
       PROVE  StateShown' /\ BranchShown' /\ UpstreamIsShown' /\ StashesShown'
  <2>1. UpstreamShown(UpstreamOf(disk))'
    BY <1>1, <1>3, <1>21 DEF UpstreamIsShown
  <2>2. StateShown'
    BY <1>9, <1>21 DEF Late
  <2>3. BranchShown'
    BY <1>1, <1>2, <1>21 DEF BranchShown, Late, OnHead
  <2>4. UpstreamIsShown' /\ StashesShown'
    BY <1>1, <1>21, <2>1 DEF UpstreamIsShown, StashesShown
  <2>. QED  BY <2>2, <2>3, <2>4
<1>22. CASE GetStashList
  <2>1. /\ step = "stash" /\ step' = "files"
        /\ Set("Stashes", [i \in DOMAIN disk.stashes |-> disk.stashes[i].first39])
    BY <1>1, <1>22 DEF GetStashList
  <2>2. \A f \in {"State", "Branch", "Upstream", "UpstreamGone"} : status'[f] = status[f]
    BY <2>1, SetField
  <2>3. Len(status'.Stashes) = Len(disk.stashes)
    BY <2>1, StashLength
  <2>. QED  BY <1>21, <2>1, <2>2, <2>3 DEF Late
<1>23. CASE GetFileStatus
  <2>1. /\ Late /\ Late' /\ step' \in {"entry", "done"}
        /\ \A f \in {"State", "Branch", "Upstream", "UpstreamGone", "Stashes"} :
             status'[f] = status[f]
    BY <1>1, <1>23, FileStep DEF Late, FieldNames
  <2>2. Len(status'.Stashes) = Len(disk.stashes)
    BY <1>1, <1>23, <2>1, FileStep DEF StashesShown
  <2>. QED  BY <1>21, <2>1, <2>2
<1>24. CASE GetNoHead \/ UpstreamFails
  BY <1>1, <1>24 DEF GetNoHead, UpstreamFails
<1>25. CASE ChangeOnDisk \/ UNCHANGED vars
  <2>1. UNCHANGED <<step, status, head>>
    BY <1>25 DEF ChangeOnDisk, vars, locals, fileVars
  <2>2. UpstreamShown(UpstreamOf(disk)) => UpstreamShown(UpstreamOf(disk))'
    BY <1>3, <2>1
  <2>. QED  BY <1>1, <1>2, <2>1, <2>2 DEF StateShown, BranchShown, UpstreamIsShown, StashesShown,
            OnHead, Late
<1>. QED  BY <1>5, <1>6, <1>7, <1>8, <1>11, <1>12, <1>13, <1>14, <1>16, <1>17, <1>18, <1>19,
             <1>20, <1>22, <1>23, <1>24, <1>25 DEF Next, GetRefStatus

-----------------------------------------------------------------------------
(***************************************************************************)
(* Why FilesAreListed holds: after each round of the loop the lists show   *)
(* the entries that have been handled.                                     *)
(***************************************************************************)
Items == STRING \cup STRING \X STRING

FilesInv ==
  /\ status.Files \in [Flags -> Seq(Items)]
  /\ step \notin {"entry", "done"} => status.Files = EmptyStatus.Files
  /\ step = "entry" =>
       /\ \E d \in seen : statusList = d.entries
       /\ Listed(status.Files, statusList, index)
  /\ FilesAreListed

LEMMA ItemType == ASSUME NEW f \in Flags, NEW e \in Entry PROVE ItemFor(f, e) \in Items
<1>1. DeltaFor(f, e) \in Delta
  BY DEF DeltaFor, Entry
<1>2. DeltaFor(f, e).old \in STRING /\ DeltaFor(f, e).new \in STRING
  BY <1>1 DEF Delta
<1>. QED  BY <1>2 DEF ItemFor, PathOf, Items

\* The entries that carry a flag, as one more entry is handled.
LEMMA FlaggedNext ==
  ASSUME NEW entries, NEW f, NEW n \in Nat
  PROVE  /\ IsFiniteSet(Flagged(entries, n, f))
         /\ Cardinality(Flagged(entries, n, f)) \in Nat
         /\ n + 1 \notin Flagged(entries, n, f)
         /\ f \notin entries[n + 1].flags => Flagged(entries, n + 1, f) = Flagged(entries, n, f)
         /\ f \in entries[n + 1].flags =>
              /\ Flagged(entries, n + 1, f) = Flagged(entries, n, f) \cup {n + 1}
              /\ Cardinality(Flagged(entries, n + 1, f)) = Cardinality(Flagged(entries, n, f)) + 1
<1>1. IsFiniteSet(1..n) /\ Flagged(entries, n, f) \subseteq 1..n
  BY FS_Interval DEF Flagged
<1>2. IsFiniteSet(Flagged(entries, n, f)) /\ Cardinality(Flagged(entries, n, f)) \in Nat
  BY <1>1, FS_Subset, FS_CardinalityType
<1>3. n + 1 \notin Flagged(entries, n, f) /\ 1..n + 1 = 1..n \cup {n + 1}
  BY DEF Flagged
<1>4. f \notin entries[n + 1].flags => Flagged(entries, n + 1, f) = Flagged(entries, n, f)
  BY <1>3 DEF Flagged
<1>5. f \in entries[n + 1].flags =>
        Flagged(entries, n + 1, f) = Flagged(entries, n, f) \cup {n + 1}
  BY <1>3 DEF Flagged
<1>. QED  BY <1>2, <1>3, <1>4, <1>5, FS_AddElement

\* The place of an entry in the list of its flag.
LEMMA FlaggedPlace ==
  ASSUME NEW entries, NEW f, NEW n \in Nat, NEW i \in Flagged(entries, n, f)
  PROVE  Cardinality(Flagged(entries, i, f)) \in 1..Cardinality(Flagged(entries, n, f))
<1>1. i \in 1..n /\ i \in Flagged(entries, i, f)
      /\ Flagged(entries, i, f) \subseteq Flagged(entries, n, f)
  BY DEF Flagged
<1>2. /\ IsFiniteSet(Flagged(entries, i, f)) /\ Cardinality(Flagged(entries, i, f)) \in Nat
      /\ IsFiniteSet(Flagged(entries, n, f)) /\ Cardinality(Flagged(entries, n, f)) \in Nat
  BY <1>1, FlaggedNext
<1>3. Cardinality(Flagged(entries, i, f)) <= Cardinality(Flagged(entries, n, f))
  BY <1>1, <1>2, FS_Subset
<1>4. Cardinality(Flagged(entries, i, f)) # 0
  BY <1>1, <1>2, FS_EmptySet
<1>. QED  BY <1>2, <1>3, <1>4

LEMMA AppendType ==
  ASSUME NEW S, NEW s \in Seq(S), NEW x \in S PROVE Append(s, x) \in Seq(S)
OBVIOUS

\* One entry goes to the lists it belongs to, behind those that went before.
LEMMA AddEntryLists ==
  ASSUME NEW files \in [Flags -> Seq(Items)], NEW entries \in Seq(Entry),
         NEW n \in Nat, n < Len(entries), Listed(files, entries, n)
  PROVE  /\ AddEntry(files, entries[n + 1]) \in [Flags -> Seq(Items)]
         /\ Listed(AddEntry(files, entries[n + 1]), entries, n + 1)
<1>. DEFINE e == entries[n + 1]
            added == AddEntry(files, e)
<1>1. e \in Entry /\ 1..n + 1 \subseteq 1..Len(entries)
  OBVIOUS
<1>2. ASSUME NEW f \in Flags
      PROVE  /\ files[f] \in Seq(Items) /\ ItemFor(f, e) \in Items
             /\ added[f] = IF f \notin e.flags
                               \/ (f \in ConflictIgnoreFlags /\ Contains(files[f], ItemFor(f, e)))
                            THEN files[f] ELSE Append(files[f], ItemFor(f, e))
  BY <1>1, ItemType DEF AddEntry
<1>3. added = [f \in Flags |-> added[f]]
  BY DEF AddEntry
<1>. HIDE DEF added
<1>4. added \in [Flags -> Seq(Items)]
  <2>1. ASSUME NEW f \in Flags PROVE added[f] \in Seq(Items)
    <3>. DEFINE s == files[f]
                item == ItemFor(f, e)
    <3>1. s \in Seq(Items) /\ item \in Items /\ (added[f] = s \/ added[f] = Append(s, item))
      BY <1>2
    <3>2. Append(s, item) \in Seq(Items)
      BY <3>1, AppendType
    <3>. QED  BY <3>1, <3>2
  <2>. QED  BY <1>3, <2>1
<1>5. ASSUME NEW f \in Flags, f \in ConflictIgnoreFlags
      PROVE  /\ Range(added[f]) = {ItemFor(f, entries[i]) : i \in Flagged(entries, n + 1, f)}
             /\ IsInjective(added[f])
  <2>. DEFINE s == files[f]
              item == ItemFor(f, e)
  <2>1. /\ s \in Seq(Items) /\ item \in Items
        /\ Range(s) = {ItemFor(f, entries[i]) : i \in Flagged(entries, n, f)}
        /\ IsInjective(s)
    BY <1>2, <1>5 DEF Listed
  <2>2. CASE f \notin e.flags
    <3>1. added[f] = s
      BY <1>2, <2>2
    <3>2. Flagged(entries, n + 1, f) = Flagged(entries, n, f)
      BY <2>2, FlaggedNext
    <3>. HIDE DEF s
    <3>. QED  BY <2>1, <3>1, <3>2
  <2>3. CASE f \in e.flags
    <3>1. {ItemFor(f, entries[i]) : i \in Flagged(entries, n + 1, f)} = Range(s) \cup {item}
      <4>1. Flagged(entries, n + 1, f) = Flagged(entries, n, f) \cup {n + 1}
        BY <2>3, FlaggedNext
      <4>. HIDE DEF s
      <4>. QED  BY <2>1, <4>1
    <3>2. CASE Contains(s, item)
      <4>1. item \in Range(s) /\ added[f] = s
        BY <1>2, <1>5, <2>1, <3>2 DEF Contains, Range
      <4>. QED  BY <2>1, <3>1, <4>1
    <3>3. CASE ~Contains(s, item)
      <4>1. added[f] = Append(s, item)
        BY <1>2, <1>5, <2>3, <3>3
      <4>2. /\ Len(s) \in Nat /\ DOMAIN s = 1..Len(s) /\ DOMAIN added[f] = 1..Len(s) + 1
            /\ \A i \in 1..Len(s) : added[f][i] = s[i]
            /\ added[f][Len(s) + 1] = item
        BY <2>1, <4>1
      <4>3. \A i \in 1..Len(s) : s[i] # item
        BY <3>3 DEF Contains
      <4>4. 1..Len(s) + 1 = 1..Len(s) \cup {Len(s) + 1}
        BY <4>2
      <4>5. Range(added[f]) = Range(s) \cup {item}
        BY <4>2, <4>4 DEF Range
      <4>6. IsInjective(added[f])
        BY <2>1, <4>2, <4>3, <4>4 DEF IsInjective
      <4>. QED  BY <3>1, <4>5, <4>6
    <3>. QED  BY <3>2, <3>3
  <2>. QED  BY <2>2, <2>3
<1>6. ASSUME NEW f \in Flags, f \notin ConflictIgnoreFlags
      PROVE  /\ Len(added[f]) = Cardinality(Flagged(entries, n + 1, f))
             /\ \A i \in Flagged(entries, n + 1, f) :
                  added[f][Cardinality(Flagged(entries, i, f))] = ItemFor(f, entries[i])
  <2>. DEFINE s == files[f]
              item == ItemFor(f, e)
  <2>1. /\ s \in Seq(Items) /\ item \in Items
        /\ Len(s) = Cardinality(Flagged(entries, n, f))
        /\ \A i \in Flagged(entries, n, f) :
             s[Cardinality(Flagged(entries, i, f))] = ItemFor(f, entries[i])
    BY <1>2, <1>6 DEF Listed
  <2>2. CASE f \notin e.flags
    <3>1. added[f] = s
      BY <1>2, <2>2
    <3>2. Flagged(entries, n + 1, f) = Flagged(entries, n, f)
      BY <2>2, FlaggedNext
    <3>. HIDE DEF s
    <3>. QED  BY <2>1, <3>1, <3>2
  <2>3. CASE f \in e.flags
    <3>1. added[f] = Append(s, item)
      BY <1>2, <1>6, <2>3
    <3>2. /\ Flagged(entries, n + 1, f) = Flagged(entries, n, f) \cup {n + 1}
          /\ Cardinality(Flagged(entries, n + 1, f)) = Len(s) + 1
      BY <2>1, <2>3, FlaggedNext
    <3>3. /\ Len(added[f]) = Len(s) + 1 /\ added[f][Len(s) + 1] = item
          /\ \A i \in 1..Len(s) : added[f][i] = s[i]
      BY <2>1, <3>1
    <3>4. ASSUME NEW i \in Flagged(entries, n, f)
          PROVE  added[f][Cardinality(Flagged(entries, i, f))] = ItemFor(f, entries[i])
      <4>1. Cardinality(Flagged(entries, i, f)) \in 1..Len(s)
        BY <2>1, FlaggedPlace
      <4>. QED  BY <2>1, <3>3, <4>1
    <3>. QED  BY <3>2, <3>3, <3>4
  <2>. QED  BY <2>2, <2>3
<1>7. Listed(added, entries, n + 1)
  <2>. SUFFICES ASSUME NEW f \in Flags
                PROVE  IF f \in ConflictIgnoreFlags
                       THEN /\ Range(added[f]) = {ItemFor(f, entries[i]) : i \in Flagged(entries, n + 1, f)}
                            /\ IsInjective(added[f])
                       ELSE /\ Len(added[f]) = Cardinality(Flagged(entries, n + 1, f))
                            /\ \A i \in Flagged(entries, n + 1, f) :
                                 added[f][Cardinality(Flagged(entries, i, f))] = ItemFor(f, entries[i])
    BY Zenon DEF Listed
  <2>1. CASE f \in ConflictIgnoreFlags
    BY <1>5, <2>1, Zenon
  <2>2. CASE f \notin ConflictIgnoreFlags
    BY <1>6, <2>2, Zenon
  <2>. QED  BY <2>1, <2>2
<1>. QED  BY <1>4, <1>7 DEF added

\* Nothing is listed before the loop.
LEMMA NothingListed ==
  ASSUME NEW entries PROVE Listed(EmptyStatus.Files, entries, 0)
<1>1. ASSUME NEW f \in Flags PROVE EmptyStatus.Files[f] = <<>>
  BY <1>1 DEF EmptyStatus
<1>2. ASSUME NEW f PROVE Flagged(entries, 0, f) = {}
  BY DEF Flagged
<1>3. Cardinality({}) = 0
  BY FS_EmptySet
<1>4. Range(<<>>) = {} /\ IsInjective(<<>>) /\ Len(<<>>) = 0
  BY DEF Range, IsInjective
<1>. HIDE DEF EmptyStatus
<1>5. ASSUME NEW f \in Flags
      PROVE  /\ Range(EmptyStatus.Files[f]) = {ItemFor(f, entries[i]) : i \in Flagged(entries, 0, f)}
             /\ IsInjective(EmptyStatus.Files[f])
             /\ Len(EmptyStatus.Files[f]) = Cardinality(Flagged(entries, 0, f))
             /\ \A i \in Flagged(entries, 0, f) :
                  EmptyStatus.Files[f][Cardinality(Flagged(entries, i, f))] = ItemFor(f, entries[i])
  BY <1>1, <1>2, <1>3, <1>4
<1>. QED  BY <1>5 DEF Listed

LEMMA EmptyFiles ==
  /\ "Files" \in FieldNames
  /\ EmptyStatus.Files \in [Flags -> Seq(Items)]
BY DEF FieldNames, EmptyStatus

\* Only GetFileStatus lists files.
LEMMA OtherSteps ==
  ASSUME TypeOK, Answered, [Next]_vars, ~GetFileStatus
  PROVE  \/ Fail
         \/ UNCHANGED <<step, status, locals, result>> /\ seen \subseteq seen'
         \/ /\ status'.Files = status.Files
            /\ step \notin {"entry", "done"} /\ step' \notin {"entry", "done"}
            /\ UNCHANGED result
<1>. DEFINE Kept == /\ status'.Files = status.Files
                    /\ step \notin {"entry", "done"} /\ step' \notin {"entry", "done"}
                    /\ UNCHANGED result
<1>1. ASSUME NEW f \in FieldNames \ {"Files"}, NEW v, Set(f, v) \/ UNCHANGED status
      PROVE  status'.Files = status.Files
  BY <1>1, SetField, EmptyFiles
<1>2. ASSUME NEW p, NEW next, step \notin {"entry", "done"}, next \notin {"entry", "done"},
             GiveUp(p, next)
      PROVE  Kept
  BY <1>2 DEF GiveUp
<1>3. CASE DiscoverRepository \/ OpenRepository
  BY <1>3 DEF DiscoverRepository, OpenRepository
<1>4. CASE CheckHeadDetached
  BY <1>1, <1>4 DEF CheckHeadDetached, FieldNames
<1>5. CASE GetWorkingDirectory \/ GetRepositoryState \/ GetStashList
  BY <1>1, <1>2, <1>5 DEF GetWorkingDirectory, GetRepositoryState, GetStashList, FieldNames
<1>6. CASE GetRefStatus
  <2>1. CASE GetNoHead \/ UpstreamFails
    BY <1>2, <2>1 DEF GetNoHead, UpstreamFails
  <2>2. CASE GetUnbornHead \/ GetBranchHead \/ GetDetachedHead
    BY <1>1, <2>2 DEF GetUnbornHead, GetBranchHead, GetDetachedHead, FieldNames
  <2>3. CASE SetBranchToCurrentCommit \/ SetBranchFromRebaseApplyHeadName
             \/ SetBranchFromRebaseMergeHeadName
    BY <1>1, <2>3 DEF SetBranchToCurrentCommit, SetBranchFromRebaseApplyHeadName,
       SetBranchFromRebaseMergeHeadName, SetBranchFromHeadName, FieldNames
  <2>4. CASE GetUpstream \/ GetUpstreamName \/ GetAheadBehind
    BY <1>1, <2>4, EmptyFields DEF GetUpstream, GetUpstreamName, GetAheadBehind, FieldNames, TypeOK
  <2>. QED  BY <1>6, <2>1, <2>2, <2>3, <2>4 DEF GetRefStatus
<1>7. CASE ChangeOnDisk \/ UNCHANGED vars
  BY <1>7 DEF ChangeOnDisk, vars
<1>. QED  BY <1>3, <1>4, <1>5, <1>6, <1>7 DEF Next

LEMMA FilesStep ==
  ASSUME TypeOK, Answered, FilesInv, [Next]_vars PROVE FilesInv'
<1>1. seen \subseteq seen'
  BY DiskEffect
<1>2. CASE Fail
  BY <1>2, EmptyFiles DEF Fail, FilesInv, FilesAreListed
<1>3. CASE ~GetFileStatus /\ ~Fail
  <2>1. CASE UNCHANGED <<step, status, locals, result>> /\ seen \subseteq seen'
    BY <2>1 DEF FilesInv, FilesAreListed, locals, fileVars
  <2>2. CASE ~UNCHANGED <<step, status, locals, result>>
    BY <1>3, <2>2, OtherSteps DEF FilesInv, FilesAreListed, Answered
  <2>. QED  BY <1>1, <2>1, <2>2
<1>4. CASE CreateStatusList /\ ~Fail
  <2>1. /\ step = "files" /\ step' = "entry" /\ status' = status /\ result' = result
        /\ disk.entries = statusList' /\ index' = 0 /\ disk \in seen'
    BY <1>1, <1>4 DEF CreateStatusList, Answered
  <2>2. status.Files = EmptyStatus.Files /\ result # "ok"
    BY <2>1 DEF FilesInv, Answered
  <2>. QED  BY <2>1, <2>2, NothingListed DEF FilesInv, FilesAreListed
<1>5. CASE ListEntry
  <2>1. /\ step = "entry" /\ step' = "entry" /\ index < Len(statusList)
        /\ index' = index + 1 /\ statusList' = statusList /\ result' = result
        /\ status'.Files = AddEntry(status.Files, statusList[index + 1])
    BY <1>5, SetField, EmptyFiles DEF ListEntry
  <2>2. /\ status.Files \in [Flags -> Seq(Items)] /\ statusList \in Seq(Entry) /\ index \in Nat
        /\ Listed(status.Files, statusList, index) /\ result # "ok"
    BY <2>1 DEF FilesInv, TypeOK, Answered
  <2>3. /\ status'.Files \in [Flags -> Seq(Items)]
        /\ Listed(status'.Files, statusList, index + 1)
    BY <2>1, <2>2, AddEntryLists
  <2>. QED  BY <1>1, <2>1, <2>2, <2>3 DEF FilesInv, FilesAreListed
<1>6. CASE ReturnStatus
  BY <1>1, <1>6 DEF ReturnStatus, FilesInv, FilesAreListed
<1>. QED  BY <1>2, <1>3, <1>4, <1>5, <1>6 DEF GetFileStatus

-----------------------------------------------------------------------------
IInv == TypeOK /\ Answered /\ CountsInv /\ ExactInv /\ FilesInv

LEMMA InitInv == Init => IInv
<1>. SUFFICES ASSUME Init PROVE IInv
  OBVIOUS
<1>1. Cardinality(Commits) \in Nat
  BY GitAssumption, FS_CardinalityType
<1>2. status.AheadBy = 0 /\ status.BehindBy = 0 /\ status.UpstreamGone = FALSE
      /\ status.State = "" /\ status.Branch = "" /\ status.Upstream = ""
  BY EmptyFields DEF Init
<1>3. TypeOK
  <2>1. status.AheadBy \in 0..Cardinality(Commits) /\ status.BehindBy \in 0..Cardinality(Commits)
    <3>1. 0 \in 0..Cardinality(Commits)
      BY <1>1
    <3>. QED  BY <1>2, <3>1
  <2>2. /\ disk \in Disks /\ seen \in SUBSET Disks /\ step \in Steps
        /\ failed \subseteq {"workdir", "state", "ref", "stash"} /\ result \in {"none", "ok", "failed"}
        /\ status = EmptyStatus /\ head = NoHead /\ upstream = NoCommit
        /\ statusList \in Seq(Entry) /\ index \in 0..Len(statusList)
    BY DEF Init, Steps
  <2>. QED  BY <2>1, <2>2 DEF TypeOK
<1>4. Answered
  BY DEF Init, Answered
<1>5. CountsInv
  BY <1>2 DEF Init, CountsInv, NothingYet, HeadInHand, UpstreamInHand, Late, OnHead
<1>6. ExactInv
  BY <1>2 DEF Init, ExactInv, StateShown, BranchShown, UpstreamIsShown, StashesShown, Late, OnHead
<1>7. FilesInv
  BY EmptyFiles DEF Init, FilesInv, FilesAreListed
<1>. QED  BY <1>3, <1>4, <1>5, <1>6, <1>7 DEF IInv

LEMMA Inductive == Spec => []IInv
<1>1. Init => IInv
  BY InitInv
<1>2. IInv /\ [Next]_vars => IInv'
  <2>. SUFFICES ASSUME IInv, [Next]_vars PROVE IInv'
    OBVIOUS
  <2>1. TypeOK /\ Answered /\ CountsInv /\ ExactInv /\ FilesInv
    BY DEF IInv
  <2>2. TypeOK'
    BY <2>1, TypeStep DEF CountsInv
  <2>. QED  BY <2>1, <2>2, AnsweredStep, CountsStep, ExactStep, FilesStep DEF IInv
<1>. QED  BY <1>1, <1>2, PTL DEF Spec

(***************************************************************************)
(* Every variable keeps its type; in particular a count is that of a set   *)
(* of commits, never a signed distance.                                    *)
(***************************************************************************)
THEOREM TypeCorrect == Spec => []TypeOK
<1>1. IInv => TypeOK
  BY DEF IInv
<1>. QED  BY <1>1, Inductive, PTL

(***************************************************************************)
(* GetRefStatus, for any repositories and however often they change during *)
(* the query: counts are reported with a live upstream only, and compare   *)
(* two commits that the reported branch and its upstream were at.          *)
(***************************************************************************)
THEOREM CountsCompareTips == Spec => []CountsWereTrue
<1>1. IInv => CountsWereTrue
  BY DEF IInv, Answered, CountsInv, Compared, CountsWereTrue, Late
<1>. QED  BY <1>1, Inductive, PTL

(***************************************************************************)
(* GetStatus, for any repositories: a query during which nothing changes   *)
(* and no part fails shows the state, the branch, its upstream and as many *)
(* stashes as there are, by whichever way through GetRefStatus.            *)
(***************************************************************************)
THEOREM UndisturbedQueryIsExact == Spec => []UndisturbedIsExact
<1>1. IInv => UndisturbedIsExact
  BY DEF IInv, Answered, ExactInv, Quiet, Undisturbed, UndisturbedIsExact, StateShown, BranchShown,
     UpstreamIsShown, StashesShown, Late
<1>. QED  BY <1>1, Inductive, PTL

(***************************************************************************)
(* GetFileStatus, for any status list and any change during the query: the *)
(* files of a status are those of one moment of the query, every flag of   *)
(* every entry in its place, and ignored and conflicted files once each.   *)
(***************************************************************************)
THEOREM EveryFileIsListed == Spec => []FilesAreListed
<1>1. IInv => FilesAreListed
  BY DEF IInv, FilesInv
<1>. QED  BY <1>1, Inductive, PTL
=============================================================================
