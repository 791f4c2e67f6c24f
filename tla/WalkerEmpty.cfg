CONSTANTS
  Width = 4
  Slots = 3
  Kernel <- MCKernel
  Calls <- MCEmpty
  Env = {"all"}
SPECIFICATION Spec
INVARIANT MapExact
CHECK_DEADLOCK FALSE
