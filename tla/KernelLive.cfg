CONSTANTS
  t1 = t1
  t2 = t2
  t3 = t3
  Threads = {t1, t2}
  Idle = Idle
  Nil = Nil
  AnyThread = AnyThread
  AnyLocal = AnyLocal
  Bad = Bad
  Prio <- MCPrio
  Space <- OneSpace
  Pager <- PairPager
  Privileged <- MCPrivileged
  Env = {"call", "snd_timeout", "rcv_timeout", "abort", "fault", "switch"}
SPECIFICATION FairSpec
PROPERTY TimeoutEndsWait
