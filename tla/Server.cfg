SPECIFICATION FairSpec
CONSTANTS
  Brokers = {b1, b2}
  Clients = {c1, c2}
INVARIANTS
  ServingIsReachable
  OnlyFilesStopAStart
PROPERTIES
  QueueOutlivesBrokers
  OnlyCrashesLeaveSockets
  FileIsKept
  ConnectionsEnd
