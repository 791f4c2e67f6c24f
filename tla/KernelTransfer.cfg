CONSTANTS
  t1 = t1
  t2 = t2
  t3 = t3
  Threads = {t1, t2, t3}
  Idle = Idle
  Nil = Nil
  AnyThread = AnyThread
  AnyLocal = AnyLocal
  Bad = Bad
  Prio <- MCPrio
  Space <- MCSpace
  Pager <- LonePager
  Privileged <- MCPrivileged
  Env = {"call", "typed", "copyfault", "overflow", "xfer_zero", "xfer_timeout", "abort"}
SPECIFICATION Spec
INVARIANTS CopyLocked SavedStateClean LockedPair NoStaleTimeout
