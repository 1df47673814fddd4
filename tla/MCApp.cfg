CONSTANTS
  Scenes = {"bus", "signal", "policy", "seeder", "menu", "login", "session", "chain", "tree", "route"}
  None = None
  Users = {u1, u2}
  Emitters = {e1}
  Signals = {g1, g2, g3, g4}
  SigEmitters = {e1, e2}
  MaxSubs = 3
  Arrays = {a1, a2, a3, a4}
  NilArray = NilArray
  Callers = {c1, c2}
  Managers = {m1, m2}
  File = File
  Db = Db
  s1 = s1
  s2 = s2
  SeedRuns = {seedRun1, seedRun2}
  SeedNames = {s1, s2}
  Forcings <- MCForcings
  TTL = 3
  LoadTime = 2
  Addresses = {ip1, ip2}
  Attempts = 2
  Window = 2
  IdleTime = 3
  MaxMsg = 2
  MaxOps = 4
  SessionUsers = {user}
  Chains <- MCChains
  HandlerOps = 3
  RouteNames = {"r"}
  RoutePatterns <- MCPatterns
  ChiPatterns <- MCChiPatterns
  SubPatterns <- MCSubPatterns
  Mounts <- MCMounts
  MaxPrefix = 4
  RouteValues <- MCValues
  MaxArgs = 3
  Unknown = "other"
  Queries <- MCQueries
  NoRoute <- MCNoRoute
SPECIFICATION MCSpec
INVARIANTS SignalsDeliver  HistoryExact MenuFreshEnough SweepGivesNothing SessionsHold   MenuTells
CHECK_DEADLOCK FALSE
