SPECIFICATION FairSpec
CONSTANTS
  Plans <- AllPlans
  Quote <- ThreeQuotes
  MAX_BUFFERED_UPDATES = 1
  MaxConn = 2
  Capacity = 1
  MaxSock = 2
  MaxUnread = 1
  HandlerEvents = 3
  HandlerFaults = 1
  ArbEvents = 2
  ArbFaults = 1
  Depth = 1
INVARIANTS
  TypeOK
  Gapless
  Accounted
  SnapshotBridged
  EndExplained
  DeduperSound
  OnceWhileRemembered
  LateOnlyIfMissed
  NothingToReplay
  BookExact
PROPERTIES
  FirstCopyPasses
  ShutdownStops
  GroupReconnects
CHECK_DEADLOCK FALSE
