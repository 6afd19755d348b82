SPECIFICATION Spec
CONSTANTS
  Inits = {i1, i2}
  Invocations <- MCInvocations
  Edits <- MCEdits
  Flags <- MCFlags
  Mails <- MCMails
SYMMETRY Symmetry
INVARIANTS
  InitTakesEffect
  ConfigSurvivesCrashes
  UnnamedIsServed
  WrittenPoliciesApply
  DirectMailIsAskedFor
