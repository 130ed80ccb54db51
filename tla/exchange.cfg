CONSTANTS
  RouteNum = 2
  Channels = {c1, c2}
  Sockets = {1, 2}
  Free <- OneAtRoute1
  EchoService = EchoService
  Refused = {c2}
  Breaking = {1}
  Impatient = {c1}
  NoPart = NoPart
  MaxRequests = 1
  MaxUnasked = 2
SPECIFICATION FairSpec
INVARIANTS TypeOK AnswerIsMine NotesAreMine RequestIsSingle
PROPERTIES OnlyUnwantedAreClosed RequestIsKept NoteIsKept RequestIsAnswered NoteArrives
CHECK_DEADLOCK FALSE
