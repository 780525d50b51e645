SPECIFICATION FairSpec
CONSTANTS
  Artifacts = {a1, a2}
  Required = {a1}
  OnSuccess = "delete"
  OnFailure = "stop"
  SshAttempts = 2
  LogProbes = 2
  Polls = 2
  MaxInterrupts = 1
  MaxRows = 2
CHECK_DEADLOCK FALSE
INVARIANTS TypeOK SuccessActionMeansResults ManifestCoversArtifacts SamplerToldToStop AtMostOneLateRow
PROPERTIES RunEnds EndsInBoundedSteps HonoursJobContract
