SPECIFICATION FairSpec
CONSTANTS
  Requests = {r1, r2}
  ClientTimeout = 9
  ReadTimeout = 4
  WriteTimeout = 7
  GogTimeout = 3
INVARIANTS
  HandlersAreBounded
  FastAnswersArrive
PROPERTIES
  NothingIsDoneForTheGone
  HandlersEnd
