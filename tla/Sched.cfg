SPECIFICATION FairSpec
CONSTANTS
  t1 = t1
  t2 = t2
  t3 = t3
  Threads = {t1, t2, t3}
  Idle = Idle
  Null = Null
  MaxPrio = 1
  DefaultPrio = 1
  DefaultLen = 2
  Lengths = {0}
  Delays = {1}
  MaxDebt = 1
  Env <- MCEnv
INVARIANT RingsExact
PROPERTIES ImplementsReadySet RoundRobin
