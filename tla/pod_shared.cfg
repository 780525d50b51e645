SPECIFICATION Spec
CONSTANTS
  Invocations = {i1, i2, i3}
  Pods = {p1, p2, p3}
  Triples = {t1, t2}
  NoPod = NoPod
  NoTriple = NoTriple
  Commands <- SharedStateFile
  Serial = FALSE
  StrictStart = TRUE
  MaxFaults = 1
CHECK_DEADLOCK FALSE
SYMMETRY Symmetry
VIEW View
INVARIANTS JobRunsOnRequestedPod NoSilentLeak OneLeakPerFault ExclusiveUse
PROPERTIES UndisturbedByOtherRuns HonoursContract
