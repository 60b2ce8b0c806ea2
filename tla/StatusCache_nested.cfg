\* A repository cloned into the working directory of another one: lost events and
\* changes to the inner one concern both.  No deadlock check: an exception may end the process.
SPECIFICATION Spec

CONSTANTS
  NoEntry = NoEntry
  NoDirectory = NoDirectory
  NoRepo = NoRepo
  outer = outer
  inner = inner
  w1 = w1
  w2 = w2
  g1 = g1
  g2 = g2
  Primer = primer
  Repos = {outer, inner}
  Callers = {t1, primer}
  Directories = {w1, w2, g1, g2}
  WorkingDirectory <- NestedWorking
  RepositoryPath <- NestedPath
  Inside <- NestedInside
  Unreliable = {}
  MaxVersion = 1
  BufferLimit = 1
  QueueLimit = 1

INVARIANTS
  TypeOK
  StaleEntryIsAnnounced
  WatchedOnce
  ServedIsMapped

PROPERTIES
  ServiceSpec

CHECK_DEADLOCK FALSE
