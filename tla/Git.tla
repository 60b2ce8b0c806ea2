--------------------------------- MODULE Git ---------------------------------
(***************************************************************************)
(* Git::GetStatus: the status of a repository, put together from a row of  *)
(* calls to libgit2 while the files on disk may change under it.           *)
(*                                                                         *)
(* A step is one call to libgit2, or one file the code reads itself, and   *)
(* what the code makes of the answer.  The disk is a record of what those  *)
(* calls would answer at this moment; libgit2 itself is not in the         *)
(* repository.  A name of a reference is a string, a commit is a member of *)
(* Commits, which also stands for its seven digit abbreviation, and the    *)
(* commits reachable from it are Ancestors[c].                             *)
(***************************************************************************)
EXTENDS Integers, FiniteSets, Sequences, SequencesExt

CONSTANTS Branches,
          Commits,
          Ancestors,   \* [Commits -> SUBSET Commits]
          Disks,       \* what may be on disk
          MaxChanges   \* bound: changes on disk during one query

VARIABLES
  disk,      \* what is on disk now
  seen,      \* history: what was on disk at some moment of the query
  step,      \* the next call of GetStatus
  status,    \* the Git::Status under construction
  head,      \* the reference git_repository_head returned, a branch and its commit
  upstream,  \* the commit git_branch_upstream returned
  statusList,  \* what git_status_list_new returned
  index,     \* the entries of it that have been handled, `i` in GetFileStatus
  failed,    \* history: parts whose function returned false
  result     \* what GetStatus returned

fileVars == <<statusList, index>>
locals == <<head, upstream, fileVars>>
vars == <<disk, seen, step, status, locals, failed, result>>

NoCommit == "no commit"
NoPath == ""
NoUpstream == [short |-> "", full |-> "", remote |-> FALSE, target |-> NoCommit]
NoHead == [name |-> "", commit |-> NoCommit]

\* What git_repository_state may say, as status.State shows it.
Operations == {"", "MERGING", "REVERTING", "CHERRY-PICKING", "BISECTING", "REBASE", "REBASE-i",
               "REBASE-m", "AM", "AM/REBASE"}

Heads == [kind : {"branch"}, name : Branches] \cup [kind : {"detached"}, commit : Commits]
         \cup {[kind |-> "missing"]}

IndexFlags == {"INDEX_NEW", "INDEX_MODIFIED", "INDEX_DELETED", "INDEX_RENAMED", "INDEX_TYPECHANGE"}
WorkingFlags == {"WT_NEW", "WT_MODIFIED", "WT_DELETED", "WT_TYPECHANGE", "WT_RENAMED",
                 "WT_UNREADABLE"}
ConflictIgnoreFlags == {"IGNORED", "CONFLICTED"}
Flags == IndexFlags \cup WorkingFlags \cup ConflictIgnoreFlags

\* An entry of the status list: its flags, and the deltas of the index and of the
\* working directory, of which one may be missing (a null pointer).
NoDelta == [present |-> FALSE, old |-> NoPath, new |-> NoPath]
Delta == [present : BOOLEAN, old : STRING, new : STRING]
Entry == [flags : SUBSET Flags, headToIndex : Delta, indexToWorkdir : Delta]

\* What libgit2 can say of a repository: a reference that exists has a name, git keeps
\* the name of a rebased branch in one of the two places, and a flag comes with its delta.
WellFormed(d) ==
  /\ d.operation \in Operations
  /\ d.head \in Heads
  /\ d.refs \in [Branches -> Commits \cup {NoCommit}]
  /\ \A b \in Branches :
       /\ d.upstream[b].target \in Commits \cup {NoCommit}
       /\ d.upstream[b].target # NoCommit => d.upstream[b].short # ""
       /\ d.upstream[b].remote \in BOOLEAN
  /\ d.rebaseApply = "" \/ d.rebaseMerge = ""
  /\ d.stashes \in Seq([first39 : STRING, last : STRING])
  /\ d.entries \in Seq(Entry)
  /\ \A entry \in Range(d.entries) :
       /\ entry.flags \cap IndexFlags # {} => entry.headToIndex.present
       /\ entry.flags \cap WorkingFlags # {} => entry.indexToWorkdir.present
       /\ \A delta \in {entry.headToIndex, entry.indexToWorkdir} :
            ~delta.present => delta = NoDelta

ASSUME GitAssumption ==
  /\ IsFiniteSet(Commits) /\ NoCommit \notin Commits
  /\ Ancestors \in [Commits -> SUBSET Commits]
  /\ \A d \in Disks : WellFormed(d)

EmptyStatus ==
  [WorkingDirectory |-> "", State |-> "", Branch |-> "", Upstream |-> "",
   UpstreamGone |-> FALSE, AheadBy |-> 0, BehindBy |-> 0,
   Files |-> [f \in Flags |-> <<>>], Stashes |-> <<>>]

Steps == {"discover", "open", "workdir", "state", "detached", "head", "headFile",
          "rebaseApply", "rebaseMerge", "upstream", "upstreamName", "aheadBehind",
          "stash", "files", "entry", "done"}

TypeOK ==
  /\ disk \in Disks
  /\ seen \in SUBSET Disks
  /\ step \in Steps
  /\ DOMAIN status = DOMAIN EmptyStatus
  /\ status.AheadBy \in 0..Cardinality(Commits)
  /\ status.BehindBy \in 0..Cardinality(Commits)
  /\ head \in {NoHead} \cup [name : Branches, commit : Commits]
  /\ upstream \in Commits \cup {NoCommit}
  /\ statusList \in Seq(Entry)
  /\ index \in 0..Len(statusList)
  /\ failed \subseteq {"workdir", "state", "ref", "stash"}
  /\ result \in {"none", "ok", "failed"}

Init ==
  /\ disk \in Disks
  /\ seen = {disk}
  /\ step = "discover"
  /\ status = EmptyStatus
  /\ head = NoHead
  /\ upstream = NoCommit
  /\ statusList = <<>>
  /\ index = 0
  /\ failed = {}
  /\ result = "none"

-----------------------------------------------------------------------------
(* Files: the entries of the status list.                                  *)

\* The old path of a delta if there is one, else the new one.
PathOf(delta) == IF delta.old # NoPath THEN delta.old ELSE delta.new

\* The delta of an entry that the lists of a flag are made from.
DeltaFor(f, entry) ==
  IF f \in IndexFlags THEN entry.headToIndex
  ELSE IF f \in WorkingFlags THEN entry.indexToWorkdir
  ELSE IF entry.indexToWorkdir.present THEN entry.indexToWorkdir
  ELSE entry.headToIndex

ItemFor(f, entry) ==
  LET delta == DeltaFor(f, entry)
  IN  IF f \in {"INDEX_RENAMED", "WT_RENAMED"} THEN <<delta.old, delta.new>> ELSE PathOf(delta)

\* Mutant: a conflict that libgit2 reports in two entries is listed twice.
AddEntryTwice(lists, entry) ==
  [f \in Flags |-> IF f \in entry.flags THEN Append(lists[f], ItemFor(f, entry)) ELSE lists[f]]

\* One entry goes to the list of each of its flags; ignored and conflicted files
\* that are listed already are left out.
AddEntry(lists, entry) ==
  [f \in Flags |->
     LET item == ItemFor(f, entry)
     IN  IF f \notin entry.flags \/ (f \in ConflictIgnoreFlags /\ Contains(lists[f], item))
         THEN lists[f]
         ELSE Append(lists[f], item)]

-----------------------------------------------------------------------------
(* The query.                                                              *)

\* GetStatus returns a failure and an empty status.
Fail == result' = "failed" /\ status' = EmptyStatus /\ step' = "done"
        /\ UNCHANGED <<disk, seen, locals, failed>>

\* A part cannot be had: the function returns false, which GetStatus ignores.
GiveUp(part, next) ==
  failed' = failed \cup {part} /\ step' = next /\ UNCHANGED <<disk, seen, status, locals, result>>

Set(field, value) == status' = [status EXCEPT ![field] = value]

DiscoverRepository ==
  /\ step = "discover"
  /\ \/ disk.repository # "none" /\ step' = "open"
        /\ UNCHANGED <<disk, seen, status, locals, failed, result>>
     \/ Fail

\* git_repository_open_ext, then git_repository_is_bare.
OpenRepository ==
  /\ step = "open"
  /\ \/ disk.repository = "worktree" /\ step' = "workdir"
        /\ UNCHANGED <<disk, seen, status, locals, failed, result>>
     \/ Fail

\* git_repository_workdir, which may return no path.
GetWorkingDirectory ==
  /\ step = "workdir"
  /\ \/ /\ Set("WorkingDirectory", "worktree")
        /\ step' = "state"
        /\ UNCHANGED <<disk, seen, locals, failed, result>>
     \/ GiveUp("workdir", "state")

GetRepositoryState ==
  /\ step = "state"
  /\ \/ /\ Set("State", disk.operation)
        /\ step' = IF disk.operation = "" THEN "detached" ELSE "head"
        /\ UNCHANGED <<disk, seen, locals, failed, result>>
     \/ GiveUp("state", "head")

\* git_repository_head_detached, when no operation is under way.
CheckHeadDetached ==
  /\ step = "detached"
  /\ IF disk.head.kind = "detached" THEN Set("State", "DETACHED") ELSE UNCHANGED status
  /\ step' = "head"
  /\ UNCHANGED <<disk, seen, locals, failed, result>>

\* git_repository_head, for each thing HEAD may be.
GetUnbornHead ==
  /\ step = "head"
  /\ disk.head.kind = "branch" /\ disk.refs[disk.head.name] = NoCommit
  /\ Set("Branch", "UNBORN")
  /\ step' = "stash"
  /\ UNCHANGED <<disk, seen, locals, failed, result>>

GetBranchHead ==
  /\ step = "head"
  /\ disk.head.kind = "branch" /\ disk.refs[disk.head.name] # NoCommit
  /\ head' = [name |-> disk.head.name, commit |-> disk.refs[disk.head.name]]
  /\ Set("Branch", disk.head.name)
  /\ step' = "upstream"
  /\ UNCHANGED <<disk, seen, upstream, fileVars, failed, result>>

\* Mutant: the file that tells the rebased branch is looked for in all states.
GetDetachedHeadAlwaysRebase ==
  /\ step = "head"
  /\ disk.head.kind = "detached"
  /\ Set("Branch", "HEAD")
  /\ step' = "rebaseApply"
  /\ UNCHANGED <<disk, seen, locals, failed, result>>

GetDetachedHead ==
  /\ step = "head"
  /\ disk.head.kind = "detached"
  /\ Set("Branch", "HEAD")
  /\ step' = IF status.State = "DETACHED" THEN "headFile" ELSE "rebaseApply"
  /\ UNCHANGED <<disk, seen, locals, failed, result>>

GetNoHead == step = "head" /\ GiveUp("ref", "stash")

\* The first seven characters of the file HEAD: of a commit, or of "ref: refs/heads/".
SetBranchToCurrentCommit ==
  /\ step = "headFile"
  /\ CASE disk.head.kind = "detached" -> Set("Branch", disk.head.commit)
       [] disk.head.kind = "branch" -> Set("Branch", "ref: re")
       [] OTHER -> UNCHANGED status
  /\ step' = "stash"
  /\ UNCHANGED <<disk, seen, locals, failed, result>>

\* SetBranchFromHeadName: the file names a branch, or is missing or names none.
SetBranchFromHeadName(name, otherwise) ==
  /\ IF name = "" THEN UNCHANGED status ELSE Set("Branch", name)
  /\ step' = IF name = "" THEN otherwise ELSE "stash"
  /\ UNCHANGED <<disk, seen, locals, failed, result>>

SetBranchFromRebaseApplyHeadName ==
  step = "rebaseApply" /\ SetBranchFromHeadName(disk.rebaseApply, "rebaseMerge")

SetBranchFromRebaseMergeHeadName ==
  step = "rebaseMerge" /\ SetBranchFromHeadName(disk.rebaseMerge, "stash")

\* git_branch_upstream of the branch that was read as HEAD.
GetUpstream ==
  /\ step = "upstream"
  /\ LET u == disk.upstream[head.name]
     IN  IF u.target = NoCommit
         THEN step' = "upstreamName" /\ UNCHANGED <<status, upstream>>
         ELSE /\ upstream' = u.target
              /\ Set("Upstream", u.short)
              /\ step' = "aheadBehind"
  /\ UNCHANGED <<disk, seen, head, fileVars, failed, result>>

UpstreamFails == step \in {"upstream", "aheadBehind"} /\ GiveUp("ref", "stash")

\* git_branch_upstream_name: an upstream is configured although its reference is
\* gone.  Only "refs/remotes/" is stripped from its name.
GetUpstreamName ==
  /\ step = "upstreamName"
  /\ LET u == disk.upstream[head.name]
     IN  IF u = NoUpstream
         THEN UNCHANGED status
         ELSE status' = [status EXCEPT !.UpstreamGone = TRUE,
                                       !.Upstream = IF u.remote THEN u.short ELSE u.full]
  /\ step' = "stash"
  /\ UNCHANGED <<disk, seen, locals, failed, result>>

\* The commits of c that d does not have.
Beyond(c, d) == Cardinality(Ancestors[c] \ Ancestors[d])

\* Mutant: the commit of HEAD is looked up again.
GetAheadBehindAnew ==
  /\ step = "aheadBehind"
  /\ LET c == IF disk.head.kind = "branch" THEN disk.refs[disk.head.name] ELSE head.commit
         now == IF c = NoCommit THEN head.commit ELSE c
     IN  status' = [status EXCEPT !.AheadBy = Beyond(now, upstream),
                                  !.BehindBy = Beyond(upstream, now)]
  /\ step' = "stash"
  /\ UNCHANGED <<disk, seen, locals, failed, result>>

\* Mutant: one signed distance, positive or negative.
GetAheadBehindSigned ==
  /\ step = "aheadBehind"
  /\ status' = [status EXCEPT
                  !.AheadBy = Beyond(head.commit, upstream) - Beyond(upstream, head.commit)]
  /\ step' = "stash"
  /\ UNCHANGED <<disk, seen, locals, failed, result>>

\* git_graph_ahead_behind, of the two commits that were read before.
GetAheadBehind ==
  /\ step = "aheadBehind"
  /\ status' = [status EXCEPT !.AheadBy = Beyond(head.commit, upstream),
                              !.BehindBy = Beyond(upstream, head.commit)]
  /\ step' = "stash"
  /\ UNCHANGED <<disk, seen, locals, failed, result>>

\* git_stash_foreach; the buffer takes 39 of the 40 digits of an id.
GetStashList ==
  /\ step = "stash"
  /\ \/ /\ Set("Stashes", [i \in DOMAIN disk.stashes |-> disk.stashes[i].first39])
        /\ step' = "files"
        /\ UNCHANGED <<disk, seen, locals, failed, result>>
     \/ GiveUp("stash", "files")

\* git_status_list_new takes down what has changed at this moment.
CreateStatusList ==
  /\ step = "files"
  /\ \/ /\ statusList' = disk.entries
        /\ index' = 0
        /\ step' = "entry"
        /\ UNCHANGED <<disk, seen, status, head, upstream, failed, result>>
     \/ Fail

\* One round of the loop: git_status_byindex.
ListEntry ==
  /\ step = "entry"
  /\ index < Len(statusList)
  /\ Set("Files", AddEntry(status.Files, statusList[index + 1]))
  /\ index' = index + 1
  /\ UNCHANGED <<disk, seen, step, head, upstream, statusList, failed, result>>

\* The loop is over, and with it GetStatus.
ReturnStatus ==
  /\ step = "entry"
  /\ index = Len(statusList)
  /\ step' = "done"
  /\ result' = "ok"
  /\ UNCHANGED <<disk, seen, status, locals, failed>>

GetFileStatus == CreateStatusList \/ ListEntry \/ ReturnStatus

\* Another program changes the repository while the query runs.
ChangeOnDisk ==
  /\ step # "done"
  /\ Cardinality(seen) <= MaxChanges
  /\ \E d \in Disks \ seen : disk' = d /\ seen' = seen \cup {d}
  /\ UNCHANGED <<step, status, locals, failed, result>>

GetRefStatus ==
  \/ GetUnbornHead \/ GetBranchHead \/ GetDetachedHead \/ GetNoHead
  \/ SetBranchToCurrentCommit
  \/ SetBranchFromRebaseApplyHeadName \/ SetBranchFromRebaseMergeHeadName
  \/ GetUpstream \/ GetUpstreamName \/ GetAheadBehind \/ UpstreamFails

Next ==
  \/ DiscoverRepository \/ OpenRepository
  \/ GetWorkingDirectory \/ GetRepositoryState \/ CheckHeadDetached
  \/ GetRefStatus \/ GetStashList \/ GetFileStatus
  \/ ChangeOnDisk

Spec == Init /\ [][Next]_vars

-----------------------------------------------------------------------------
(* What the status should say.                                             *)

Undisturbed == result = "ok" /\ seen = {disk} /\ failed = {}

\* The branch a repository is on: the current one, the one being rebased, or the
\* current commit when it is on none.
BranchOf(d) ==
  CASE d.head.kind = "branch" ->
         IF d.refs[d.head.name] = NoCommit THEN "UNBORN" ELSE d.head.name
    [] d.head.kind = "detached" ->
         IF d.operation = "" THEN d.head.commit
         ELSE IF {d.rebaseApply, d.rebaseMerge} = {""} THEN "HEAD"
         ELSE CHOOSE b \in {d.rebaseApply, d.rebaseMerge} : b # ""
    [] OTHER -> ""

StateOf(d) == IF d.operation = "" /\ d.head.kind = "detached" THEN "DETACHED" ELSE d.operation

\* The upstream of the current branch.
UpstreamOf(d) ==
  IF d.head.kind = "branch" /\ d.refs[d.head.name] # NoCommit
  THEN d.upstream[d.head.name] ELSE NoUpstream

UpstreamShown(u) ==
  /\ status.UpstreamGone = (u # NoUpstream /\ u.target = NoCommit)
  /\ status.Upstream = IF status.UpstreamGone /\ ~u.remote THEN u.full ELSE u.short

\* GetRepositoryState, GetRefStatus, GetStashList: when nothing fails and nothing
\* changes during the query, the status shows the state, the branch and its upstream,
\* whichever of the many ways through GetRefStatus was taken, and as many stashes as
\* there are.
UndisturbedIsExact ==
  Undisturbed =>
    /\ status.State = StateOf(disk)
    /\ status.Branch = BranchOf(disk)
    /\ UpstreamShown(UpstreamOf(disk))
    /\ Len(status.Stashes) = Len(disk.stashes)

\* The commits of branch b, and of its upstream, during the query.
Tips(b) == {d.refs[b] : d \in seen} \ {NoCommit}
UpstreamTips(b) == {d.upstream[b].target : d \in seen} \ {NoCommit}

\* GetRefStatus: whatever changes during the query, the counts compare the reported
\* branch with its upstream, each as it was at some moment, and a status without a
\* live upstream has no counts.
CountsWereTrue ==
  result = "ok" /\ status.AheadBy + status.BehindBy > 0 =>
    /\ status.Upstream # "" /\ ~status.UpstreamGone
    /\ \E c \in Tips(status.Branch), u \in UpstreamTips(status.Branch) :
         status.AheadBy = Beyond(c, u) /\ status.BehindBy = Beyond(u, c)

\* The first n entries that carry flag f.
Flagged(entries, n, f) == {i \in 1..n : f \in entries[i].flags}

\* What `files` shows of the first n entries: for each flag the entries that carry it,
\* in their order; ignored and conflicted files once each.
Listed(files, entries, n) ==
  \A f \in Flags :
    IF f \in ConflictIgnoreFlags
    THEN /\ Range(files[f]) = {ItemFor(f, entries[i]) : i \in Flagged(entries, n, f)}
         /\ IsInjective(files[f])
    ELSE /\ Len(files[f]) = Cardinality(Flagged(entries, n, f))
         /\ \A i \in Flagged(entries, n, f) :
              files[f][Cardinality(Flagged(entries, i, f))] = ItemFor(f, entries[i])

\* GetFileStatus: whatever changes during the query, the files are those of one moment
\* of it; every flag of every entry is listed, a rename with both names, and a conflict
\* once although libgit2 reports some conflicts in two entries.
FilesAreListed ==
  result = "ok" => \E d \in seen : Listed(status.Files, d.entries, Len(d.entries))

-----------------------------------------------------------------------------
(* What the documentation says and the code does not do.                   *)

\* GetRefStatus "Retrieves the current branch/upstream": the branch in the status is
\* the branch, or the commit, the repository was on at some moment of the query.
BranchWasTrue ==
  result = "ok" /\ failed = {} =>
    \E d \in seen : \/ status.Branch = BranchOf(d)
                    \/ d.head.kind = "detached" /\ status.Branch = d.head.commit

\* "Any errors with the request will be reported back": a query that could not get
\* one of the parts of the status fails.
FailedPartIsReported == failed # {} /\ step = "done" => result = "failed"

=============================================================================
