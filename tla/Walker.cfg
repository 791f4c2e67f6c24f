CONSTANTS
  Width = 4
  Slots = 3
  Kernel <- MCKernel
  Calls <- MCCalls
  Env = {}
SPECIFICATION Spec
INVARIANTS MapExact UnmapExact
