SPECIFICATION Spec
CONSTANTS
  Requests = {r1}
  Inputs <- UnrunnableInputs
  PolicyFile <- ActionPolicies
  GogAccount <- Carol
  Mailbox <- ActionMailbox
  Windows = {72, 73}
INVARIANT AcceptedIsRunnable
