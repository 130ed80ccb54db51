CONSTANTS
  SyncCallers = {s1}
  AsyncCallers = {a1}
  ParseThreads = {p1, p2}
  WorkThreads = {w1, w2}
  NoCaller = NoCaller
  ParseNum = 1
  DealNum = 2
  IntMax = 100
  MaxRequests = 2
  MaxAnswers = 1
  SendMayFail = TRUE
  SpuriousWakeups = TRUE
  Cancelling = TRUE
SPECIFICATION Spec
SYMMETRY ThreadSymmetry
INVARIANTS TypeOK OnePlace
PROPERTIES LifeSpec
