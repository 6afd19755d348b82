SPECIFICATION Spec
CONSTANTS
  Requests = {r1}
  Inputs <- UnlimitedInputs
  PolicyFile <- ActionPolicies
  GogAccount <- Carol
  Mailbox <- ActionMailbox
  Windows = {72, 73}
INVARIANT EveryRunKeepsLimits
