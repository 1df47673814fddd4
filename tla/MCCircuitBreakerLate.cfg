CONSTANTS
  c1 = c1
  c2 = c2
  c3 = c3
  c4 = c4
  Callers <- MCCallers
  FailThreshold = 1
  OpenTimeout = 2
SPECIFICATION Spec
PROPERTIES OpenForTimeout
