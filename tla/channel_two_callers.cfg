CONSTANTS
  SyncCallers = {}
  AsyncCallers = {a1, a2}
  ParseThreads = {p1}
  WorkThreads = {w1}
  NoCaller = NoCaller
  ParseNum = 1
  DealNum = 1
  IntMax = 100
  MaxRequests = 2
  MaxAnswers = 0
  SendMayFail = FALSE
  SpuriousWakeups = FALSE
  Cancelling = FALSE
SPECIFICATION FairSpec
PROPERTIES EveryRequestEnds
