\* One repository whose .git directory is not inside the working directory, so that it
\* has two directories to register; two requests at a time.  No deadlock check: an exception may end the process.
SPECIFICATION Spec

CONSTANTS
  NoEntry = NoEntry
  NoDirectory = NoDirectory
  NoRepo = NoRepo
  outer = outer
  inner = inner
  w1 = w1
  w2 = w2
  g1 = g1
  g2 = g2
  Primer = primer
  Repos = {outer}
  Callers = {t1, t2, primer}
  Directories = {w1, g1}
  WorkingDirectory <- PlainWorking
  RepositoryPath <- PlainPath
  Inside <- ApartInside
  Unreliable = {g1}
  MaxVersion = 1
  BufferLimit = 1
  QueueLimit = 1

INVARIANTS
  TypeOK
  StaleEntryIsAnnounced
  WatchedOnce
  ServedIsMapped

PROPERTIES
  ServiceSpec

CHECK_DEADLOCK FALSE
