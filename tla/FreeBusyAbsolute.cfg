SPECIFICATION CalmSpec
CONSTANTS
  Requests = {r1, r2}
  Inputs <- FreeBusyInputs
  PolicyFile <- ActionPolicies
  GogAccount <- Carol
  Mailbox <- ActionMailbox
  Windows = {72, 73}
INVARIANT NoRequestIsLost
