\* Two requests at a time on two repositories, one of which has no status to give, and
\* four operations in all.  No deadlock check: the operations are bounded.
SPECIFICATION Spec
CONSTANTS
  Repos = {r1, r2}
  Requests = {t1, t2}
  Broken = {r2}
  MaxOperations = 4
INVARIANTS TypeOK EffectiveWithinTotal RemovedWasStored LookupsAreRequests
  AnsweredIsReported AnswerIsDeserved
CHECK_DEADLOCK FALSE
