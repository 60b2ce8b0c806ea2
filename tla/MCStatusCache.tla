---------------------------- MODULE MCStatusCache ----------------------------
(***************************************************************************)
(* Layouts of repositories on disk for model checking StatusCache.         *)
(***************************************************************************)
EXTENDS StatusCache, TLC

CONSTANTS outer, inner,      \* repositories
          w1, w2, g1, g2     \* their working and .git directories

\* One repository with its .git directory inside the working directory.
PlainWorking == outer :> w1
PlainPath == outer :> g1
PlainInside == {<<g1, w1>>}

\* One repository whose .git directory is elsewhere (a linked worktree).
ApartInside == {}

\* A repository cloned into the working directory of another one: a change to the
\* inner repository is reported to the watches of both.
NestedWorking == outer :> w1 @@ inner :> w2
NestedPath == outer :> g1 @@ inner :> g2
NestedInside == {<<g1, w1>>, <<w2, w1>>, <<g2, w2>>, <<g2, w1>>}

=============================================================================
