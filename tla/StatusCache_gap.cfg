\* The smallest run with a change that nobody sees.  No deadlock check: an exception may end the process.
SPECIFICATION Spec

CONSTANTS
  NoEntry = NoEntry
  NoDirectory = NoDirectory
  NoRepo = NoRepo
  outer = outer
  inner = inner
  w1 = w1
  w2 = w2
  g1 = g1
  g2 = g2
  Primer = primer
  Repos = {outer}
  Callers = {t1, primer}
  Directories = {w1, g1}
  WorkingDirectory <- PlainWorking
  RepositoryPath <- PlainPath
  Inside <- PlainInside
  Unreliable = {w1}
  MaxVersion = 1
  BufferLimit = 1
  QueueLimit = 1

INVARIANTS
  QuietCacheIsCurrent

CHECK_DEADLOCK FALSE
