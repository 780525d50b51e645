SPECIFICATION Spec
CONSTANTS
  Invocations = {i1, i2, i3}
  Pods = {p1, p2}
  Triples = {t1}
  NoPod = NoPod
  NoTriple = NoTriple
  Commands <- RecipeAndSweep
  Serial = FALSE
  StrictStart = TRUE
  MaxFaults = 0
CHECK_DEADLOCK FALSE
PROPERTY SweepDeletesStoppedPods
