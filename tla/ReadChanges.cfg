\* Three directories, one of them unreliable, which may be added at the same time.
\* No deadlock check: the worker ends.
SPECIFICATION FairSpec

CONSTANTS
  Directories = {d1, d2, d3}
  Workers = {w1, w2}
  Unreliable = {d3}
  NoWorker = NoWorker

INVARIANTS
  TypeOK
  OpenIsRead
  OutstandingCounts
  TerminatedIsQuiet

PROPERTIES
  CancelledIsEnded

CHECK_DEADLOCK FALSE
