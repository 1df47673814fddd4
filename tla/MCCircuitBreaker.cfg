CONSTANTS
  c1 = c1
  c2 = c2
  c3 = c3
  c4 = c4
  Callers <- MCCallers
  FailThreshold = 3
  OpenTimeout = 3
SPECIFICATION FairSpec
INVARIANTS ProbeRight CountsConsecutiveFailures
PROPERTIES LateResultsDecideNothing NeverWedged
