SPECIFICATION Spec
CONSTANTS
  Streams <- ThreeStreams
  ObsStreams <- OneObs
  Key <- FileKey
  BATCH_SIZE = 2
  MaxAttempts = 1
  MaxRows = 3
  MaxFaults = 2
  MaxLives = 2
  MaxBreaks = 2
  Requests = {r1, r2, r3}
  MaxLinks = 3
  MaxCuts = 1
  Trades = {t1, t2, t3}
  SEEN_LIMIT = 2
  Copies = 2
  From = 1
  WINDOW = 2
  LIMIT = 2
  MaxTime = 5
  MaxTrades = 5
  Threads = {w1, w2, w3}
  THRESHOLD = 2
  MaxCount = 3
  Quantities <- SomeQuantities
  Prices <- TwoPrices
  Fees <- AFeeAndARebate
  FeeRate = 2
  EPSILON = 2
  MaxDeals = 3
INVARIANTS
  TypeOK
  RowsOnce
  RowsExplained
  RequestsSound
  TradesReported
  HistoryComplete
  NeverStuck
  PositionExact
PROPERTIES
  FilesKept
CHECK_DEADLOCK FALSE
