\* Two directories added at the same time.
\* No deadlock check: the worker ends.
SPECIFICATION Spec

CONSTANTS
  Directories = {d1, d2}
  Workers = {w1, w2}
  Unreliable = {}
  NoWorker = NoWorker

INVARIANTS
  OneWorker

CHECK_DEADLOCK FALSE
