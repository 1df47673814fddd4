CONSTANTS
  c1 = c1
  a1 = a1
  a2 = a2
  x1 = x1
  x2 = x2
  x3 = x3
  x4 = x4
  g1 = g1
  g2 = g2
  Absent = Absent
  Callers <- MCCallers
  Admins <- MCAdmins
  Runtimes <- MCRuntimes
  None = None
  RetryAttempts = 3
  Scenes = {"runtime", "condition", "named", "loader", "bulk"}
  Renderers = {g1, g2}
  Files <- MCFiles
  Calls <- MCCalls
  Datas <- MCDatas
  Dialect = "postgres"
  Identifiers = {"a", "b"}
  SortCols <- MCSortCols
  Bindables <- MCValues
  Jobs <- MCJobs
  Tables <- MCTables
  Keys <- MCKeys
  Cells <- MCCells
  Statements = 2
SPECIFICATION MCSpec
SYMMETRY Symmetry
INVARIANT EmptyListsHarmless
CHECK_DEADLOCK FALSE
