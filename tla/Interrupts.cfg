CONSTANTS
  t1 = t1
  t2 = t2
  irq1 = irq1
  Threads = {t1, t2, irq1}
  Irqs = {irq1}
  Idle = Idle
  Nil = Nil
  AnyThread = AnyThread
  AnyLocal = AnyLocal
  Bad = Bad
  Prio <- MCPrio
  Space <- MCSpace
  Pager <- MCPager
  Privileged <- MCPrivileged
  Env = {"call", "attach", "abort", "fault", "rcv_timeout"}
SPECIFICATION IrqSpec
INVARIANTS IrqLine SendQueueExact InterruptMeetsHandler EdgeRemembered
