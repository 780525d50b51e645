SPECIFICATION Spec
CONSTANTS
  Artifacts = {a1, a2}
  Required = {a1}
  OnSuccess = "delete"
  OnFailure = "delete"
  SshAttempts = 2
  LogProbes = 2
  Polls = 2
  MaxInterrupts = 0
  MaxRows = 2
CHECK_DEADLOCK FALSE
INVARIANT ManifestBeforeDelete
