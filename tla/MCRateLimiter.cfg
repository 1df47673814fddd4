CONSTANTS
  c1 = c1
  c2 = c2
  Callers <- MCCallers
  Rate = 2
  Token = 7
  Burst = 2
  MinSleep = 1
SPECIFICATION FairSpec
INVARIANTS NoTokenLost NoSleepBesideAToken
PROPERTIES Throughput CloseFrees
