SPECIFICATION Spec
CONSTANTS
  Requests = {r1}
  Inputs <- AllInputs
  PolicyFile <- ActionPolicies
  GogAccount <- Carol
  Mailbox <- ActionMailbox
  Windows = {72, 73}
INVARIANTS
  TypeOK
  RunMatchesPhase
  JudgedAsSent
  TypedReachesGog
  ClientCommandsRun
PROPERTIES
  OneTrueRun
  KeepsPromise
