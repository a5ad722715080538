\* Three events over two connections, one fault (an event missed, a connection or the agent lost),
\* channels of one event, one client that comes and goes and may never read.
CONSTANTS
  MaxEvents = 3
  MaxConns = 2
  MaxFaults = 1
  ChanCap = 1
  InboxCap = 1
  Subs = {s1}
SPECIFICATION FairSpec
INVARIANTS
  SendsToOpen
  AtMostOnce
  InOrder
  SeenIsRecorded
PROPERTIES
  ReadIsRecorded
  ClientsLeave
  DeliverySpec
CHECK_DEADLOCK FALSE
