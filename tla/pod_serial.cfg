SPECIFICATION Spec
CONSTANTS
  Invocations = {i1, i2, i3, i4}
  Pods = {p1, p2, p3}
  Triples = {t1, t2}
  NoPod = NoPod
  NoTriple = NoTriple
  Commands <- RecycledWorkflow
  Serial = TRUE
  StrictStart = FALSE
  MaxFaults = 2
CHECK_DEADLOCK FALSE
SYMMETRY Symmetry
VIEW View
INVARIANTS TypeOK NoSilentLeak NoForgottenPod OneLossPerFault
PROPERTIES UnlinkOnlyOwnPointer HonoursContract
