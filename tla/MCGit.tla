-------------------------------- MODULE MCGit --------------------------------
(***************************************************************************)
(* Repositories for model checking Git: two branches and three commits,    *)
(* c2 and c3 made on top of c1 on two lines.                               *)
(***************************************************************************)
EXTENDS Git, TLC

Two == {"main", "topic"}
Three == {"c1", "c2", "c3"}
Lines == "c1" :> {"c1"} @@ "c2" :> {"c1", "c2"} @@ "c3" :> {"c1", "c3"}

OnBranch(b) == [kind |-> "branch", name |-> b]
Detached(c) == [kind |-> "detached", commit |-> c]

DeltaOf(old, new) == [present |-> TRUE, old |-> old, new |-> new]
EntryOf(flags, staged, workdir) ==
  [flags |-> flags, headToIndex |-> staged, indexToWorkdir |-> workdir]

\* A file changed in the index and again in the working directory, a rename, two
\* new files and an ignored one, and a conflict reported in two entries.
Edited == <<EntryOf({"INDEX_MODIFIED", "WT_DELETED"}, DeltaOf("a", "a"), DeltaOf("a", "a")),
            EntryOf({"INDEX_RENAMED"}, DeltaOf("b", "c"), NoDelta),
            EntryOf({"WT_NEW"}, NoDelta, DeltaOf(NoPath, "d")),
            EntryOf({"WT_NEW"}, NoDelta, DeltaOf(NoPath, "f")),
            EntryOf({"IGNORED"}, NoDelta, DeltaOf("e", "e"))>>
Conflict == <<EntryOf({"CONFLICTED"}, NoDelta, DeltaOf("a", "a")),
              EntryOf({"CONFLICTED"}, DeltaOf("a", "a"), NoDelta),
              EntryOf({"CONFLICTED"}, DeltaOf("b", "b"), NoDelta)>>

Upstreams == "main" :> [short |-> "origin/main", full |-> "refs/remotes/origin/main",
                        remote |-> TRUE, target |-> "c3"]
          @@ "topic" :> NoUpstream

\* A clone on main that is ahead of and behind its upstream.
Clone ==
  [repository |-> "worktree", operation |-> "", head |-> OnBranch("main"),
   refs |-> "main" :> "c2" @@ "topic" :> "c1", upstream |-> Upstreams,
   rebaseApply |-> "", rebaseMerge |-> "", stashes |-> <<>>, entries |-> Edited]

\* main tracks topic, and topic has been deleted.
TracksLocal ==
  [Clone EXCEPT !.refs["topic"] = NoCommit,
                !.upstream["main"] = [short |-> "topic", full |-> "refs/heads/topic",
                                      remote |-> FALSE, target |-> NoCommit]]

Rebasing(apply, merge, operation) ==
  [Clone EXCEPT !.head = Detached("c3"), !.operation = operation, !.entries = Conflict,
                !.rebaseApply = apply, !.rebaseMerge = merge]

Repositories ==
  { Clone,
    [Clone EXCEPT !.refs["main"] = "c3"],
    [Clone EXCEPT !.refs["main"] = "c1"],
    [Clone EXCEPT !.upstream["main"].target = "c1"],
    [Clone EXCEPT !.upstream["main"].target = NoCommit],
    TracksLocal,
    [Clone EXCEPT !.head = OnBranch("topic"),
                  !.stashes = <<[first39 |-> "s1", last |-> "0"], [first39 |-> "s2", last |-> "0"]>>],
    [Clone EXCEPT !.head = Detached("c1")],
    [Clone EXCEPT !.head = OnBranch("topic"), !.refs["topic"] = NoCommit],
    [Clone EXCEPT !.head = [kind |-> "missing"]],
    [Clone EXCEPT !.operation = "MERGING", !.entries = Conflict],
    [Clone EXCEPT !.head = Detached("c2"), !.operation = "BISECTING"],
    Rebasing("main", "", "REBASE"),
    Rebasing("", "topic", "REBASE-i"),
    [Clone EXCEPT !.repository = "bare"],
    [Clone EXCEPT !.repository = "none"] }

=============================================================================
