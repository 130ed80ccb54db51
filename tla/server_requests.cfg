CONSTANTS
  RouteNum = 2
  WorkThreads = {w1, w2}
  Sockets = {9}
  FetchNum = 2
  Methods = {"now", "twice", "later", "bad"}
  MaxRequests = 2
  Quitting = TRUE
SPECIFICATION FairSpec
INVARIANTS TypeOK AnswerGoesToAsker AnsweredOnce
PROPERTIES DoneIsAnswered
CHECK_DEADLOCK FALSE
