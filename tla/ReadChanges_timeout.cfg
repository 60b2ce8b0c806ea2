\* One reliable directory.
\* No deadlock check: the worker ends.
SPECIFICATION Spec

CONSTANTS
  Directories = {d1}
  Workers = {w1}
  Unreliable = {}
  NoWorker = NoWorker

INVARIANTS
  DeletedIsQuiet

CHECK_DEADLOCK FALSE
