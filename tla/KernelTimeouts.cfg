CONSTANTS
  t1 = t1
  t2 = t2
  t3 = t3
  Threads = {t1, t2, t3}
  Idle = Idle
  Nil = Nil
  AnyThread = AnyThread
  AnyLocal = AnyLocal
  Bad = Bad
  Prio <- MCPrio
  Space <- MCSpace
  Pager <- MCPager
  Privileged <- MCPrivileged
  Env = {"snd_timeout", "rcv_timeout", "poll", "abort", "halt", "delete", "create"}
SPECIFICATION Spec
INVARIANTS TimeoutArmed NoStaleTimeout DeletedLeavesQueues SendQueueExact
