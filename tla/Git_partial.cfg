\* Sixteen repositories, one change on disk during a query.
SPECIFICATION Spec

CONSTANTS
  Branches <- Two
  Commits <- Three
  Ancestors <- Lines
  Disks <- Repositories
  MaxChanges = 1

INVARIANT FailedPartIsReported

CHECK_DEADLOCK FALSE
