SPECIFICATION Spec
CONSTANTS
  Clients = {"c1", "c2"}
  UdpSockets = {}
  Ends <- MCEnds
  Capacity = 2
  Paced = {"c1"}
  Throwing = {"c2"}
  HeadOnly = {}
  LongKeys = {}
  Fds = {3, 4, 5}
  Listener = "listener"
  NoSocket = "none"
  max_events_ = 2
  Casts <- MCCasts
INVARIANT
  TasksSeeTheirPackets
