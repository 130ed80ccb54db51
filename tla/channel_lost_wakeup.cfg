CONSTANTS
  SyncCallers = {s1}
  AsyncCallers = {}
  ParseThreads = {p1}
  WorkThreads = {w1}
  NoCaller = NoCaller
  ParseNum = 1
  DealNum = 1
  IntMax = 100
  MaxRequests = 1
  MaxAnswers = 1
  SendMayFail = FALSE
  SpuriousWakeups = FALSE
  Cancelling = FALSE
SPECIFICATION FairSpec
PROPERTIES SyncCallReturns
