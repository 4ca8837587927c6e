SPECIFICATION Spec
CONSTANTS
  Clients = {"c1", "c2", "h", "l"}
  UdpSockets = {"u"}
  Ends <- MCEnds
  Capacity = 2
  Paced = {"c1", "h"}
  Throwing = {"c2"}
  HeadOnly = {"h"}
  LongKeys = {"l", "u"}
  Fds = {3, 4, 5}
  Listener = "listener"
  NoSocket = "none"
  max_events_ = 2
  Casts <- MCCasts
INVARIANTS
  TypeOK
  DescriptorsAgree
  EventsAreFresh
  NothingForgotten
  PacedTasksSeeTheirPackets
  PacedGetEachPacketOnce
PROPERTIES
  ClosesWhenDrained
  PacedPacketIsDelivered
  DepartedIsClosed
  StopTakesEffect
