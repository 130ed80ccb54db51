CONSTANTS
  Keys = {k1}
  ParseThreads = {p1}
  WorkThreads = {w1}
  ParseNum = 2
  DealNum = 2
  Sync = {2}
  Cancellable = {1}
  MaxIssued = 2
SPECIFICATION FairSpec
INVARIANTS TypeOK OnePlace NotifiedInOrder ControllersLive
PROPERTIES QuietWhenStopped StopReturns NotificationIsCalled
CHECK_DEADLOCK FALSE
