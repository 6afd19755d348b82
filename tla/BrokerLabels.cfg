SPECIFICATION FairSpec
CONSTANTS
  Requests = {r1, r2}
  Inputs <- LabelInputs
  PolicyFile <- LabelPolicies
  GogAccount <- Alice
  Mailbox <- LabelMailbox
  Windows = {72, 73}
INVARIANTS
  LookupDiscipline
  LabelsKnown
  SingleLookup
  AllowedChangesPass
PROPERTIES
  LookupIsFinal
  OneTrueRun
  KeepsPromise
  EveryRequestEnds
