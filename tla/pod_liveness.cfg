SPECIFICATION FairSpec
CONSTANTS
  Invocations = {i1, i2}
  Pods = {p1, p2}
  Triples = {t1}
  NoPod = NoPod
  NoTriple = NoTriple
  Commands <- WithFallback
  Serial = FALSE
  StrictStart = FALSE
  MaxFaults = 1
CHECK_DEADLOCK FALSE
INVARIANT DeletedByTheEnd
PROPERTIES EveryInvocationEnds DeletedInTheEnd EndsInBoundedSteps
