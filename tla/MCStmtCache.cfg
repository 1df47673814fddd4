CONSTANTS
  c1 = c1
  c2 = c2
  c3 = c3
  k1 = k1
  k2 = k2
  k3 = k3
  s1 = s1
  s2 = s2
  s3 = s3
  s4 = s4
  s5 = s5
  Callers <- MCCallers
  Keys <- MCKeys
  Stmts <- MCStmts
  Size = 2
  None = None
SPECIFICATION Spec
SYMMETRY Symmetry
INVARIANTS InUseIsOpen NoLeak Bookkeeping
