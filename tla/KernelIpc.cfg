CONSTANTS
  t1 = t1
  t2 = t2
  t3 = t3
  Threads = {t1, t2, t3}
  Idle = Idle
  Nil = Nil
  AnyThread = AnyThread
  AnyLocal = AnyLocal
  Bad = Bad
  Prio <- MCPrio
  Space <- MCSpace
  Pager <- MCPager
  Privileged <- MCPrivileged
  Env = {"call", "fault", "switch", "propagate", "anylocal", "bad_to", "bad_from"}
SPECIFICATION Spec
INVARIANTS TypeOK NoAssertionFails NoLostThread SendQueueExact Rendezvous LockedPair NoMissedRendezvous UserLevelRuns DeliveryEndsWait
