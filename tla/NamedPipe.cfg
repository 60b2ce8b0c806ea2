\* One client that comes back, room for two instances that serve it besides the one
\* that listens.  No deadlock check: the process ends.
SPECIFICATION FairSpec

CONSTANTS
  Clients = {c1}
  Instances = {i1, i2, i3}
  NoClient = NoClient
  NoInstance = NoInstance

INVARIANTS
  TypeOK
  ThreadsHaveOwners

PROPERTIES
  RequestIsAnswered
  ServerListens
  AbortedIsJoined
  CancelledThreadIsJoined

CHECK_DEADLOCK FALSE
