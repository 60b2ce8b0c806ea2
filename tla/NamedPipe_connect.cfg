\* One client, room for two instances.  No deadlock check: the process ends.
SPECIFICATION FairSpec
CONSTANTS
  Clients = {c1}
  Instances = {i1, i2}
  NoClient = NoClient
  NoInstance = NoInstance
PROPERTY CancelledServerIsJoined
CHECK_DEADLOCK FALSE
