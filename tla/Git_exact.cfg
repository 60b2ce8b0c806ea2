\* Sixteen repositories, two changes on disk during a query.  No deadlock check: the
\* query returns and the changes are bounded.
SPECIFICATION Spec

CONSTANTS
  Branches <- Two
  Commits <- Three
  Ancestors <- Lines
  Disks <- Repositories
  MaxChanges = 2

INVARIANTS
  TypeOK
  UndisturbedIsExact
  CountsWereTrue
  FilesAreListed

CHECK_DEADLOCK FALSE
