\* One reliable directory.
\* No deadlock check: the worker ends.
SPECIFICATION FairSpec

CONSTANTS
  Directories = {d1}
  Workers = {w1, w2}
  Unreliable = {}
  NoWorker = NoWorker

PROPERTIES
  RequestsDeleteThemselves

CHECK_DEADLOCK FALSE
