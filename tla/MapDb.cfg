SPECIFICATION Spec
CONSTANTS
  sp1 = sp1
  sp2 = sp2
  Large = Large
  Pages <- MCPages
  Width = 2
  Spare = {}
  Granted <- MCGranted
  Asked = {TRUE, FALSE}
  Top = Top
  Sigma0 = Sigma0
  Null = Null
  None = None
  Env = {}
INVARIANTS LinksExact FlushExact
PROPERTIES ImplementsDerivation
