CONSTANTS
  SyncCallers = {s1}
  AsyncCallers = {}
  ParseThreads = {p1}
  WorkThreads = {w1}
  NoCaller = NoCaller
  ParseNum = 2
  DealNum = 2
  IntMax = 100
  MaxRequests = 2
  MaxAnswers = 2
  SendMayFail = FALSE
  SpuriousWakeups = FALSE
  Cancelling = TRUE
SPECIFICATION FairSpec
INVARIANTS ReturnedIsFinished DeadlineKept
PROPERTIES TimeoutFires AnswerIsDelivered
