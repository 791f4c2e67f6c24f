CONSTANTS
  t1 = t1
  t2 = t2
  t3 = t3
  Threads = {t1, t2, t3}
  Idle = Idle
  Nil = Nil
  AnyThread = AnyThread
  AnyLocal = AnyLocal
  Bad = Bad
  Prio <- MCPrio
  Space <- MCSpace
  Pager <- MCPager
  Privileged <- MCPrivileged
  Env = {"anylocal", "wait_local"}
SPECIFICATION Spec
INVARIANT Rendezvous
