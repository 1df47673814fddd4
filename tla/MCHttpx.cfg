CONSTANTS
  Calls = {d1, d2}
  Old = old
  NoFile = NoFile
  Size = 2
  Configs <- MCConfigs
  DefaultMaxAttempts = 4
  OkStatuses = {200}
  BadStatuses = {404, 503}
  RetryAfters <- MCRetryAfters
  NoHeader = NoHeader
  Records = 3
  Idle = 2
  g1 = g1
  g2 = g2
  g3 = g3
  Loggers = {g1, g2, g3}
  Length <- MCLength
  MaxSize = 4
  Nobody = Nobody
SPECIFICATION HttpxSpec
INVARIANTS RepeatsJustified PauseKeepsToBoth AnswerTellsTheStory NoPartLeft StreamIsComplete LogIsWhole
PROPERTIES DestinationWhole StreamEnds
CHECK_DEADLOCK FALSE
