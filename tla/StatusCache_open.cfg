\* A directory that cannot be opened.  No deadlock check: an exception may end the process.
SPECIFICATION FairSpec

CONSTANTS
  NoEntry = NoEntry
  NoDirectory = NoDirectory
  NoRepo = NoRepo
  outer = outer
  inner = inner
  w1 = w1
  w2 = w2
  g1 = g1
  g2 = g2
  Primer = primer
  Repos = {outer}
  Callers = {t1, primer}
  Directories = {w1, g1}
  WorkingDirectory <- PlainWorking
  RepositoryPath <- PlainPath
  Inside <- PlainInside
  Unreliable = {w1}
  MaxVersion = 0
  BufferLimit = 1
  QueueLimit = 1

PROPERTIES
  RegisteredIsWatched

CHECK_DEADLOCK FALSE
