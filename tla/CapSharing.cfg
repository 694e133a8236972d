CONSTANTS
  Tasks = {root, child}
  Root = root
  Spaces = {s0, s1}
  RootSpace = s0
  SlotsPerSpace = 7
  TableEntries = 3
  MemBase = 4
  MemSize = 5
  MaxPhys = 16
  WordSize = 64
  MemRequests <- NoRequests
  TableArgs = {"valid"}
  ReuseSpaces = FALSE
  MaxId = 0
  MaxCaps = 8
  Syscalls = {"create_endpoint", "create_cap_space", "create_task", "copy", "revoke", "destroy", "transfer", "delegate", "resume", "message", "query"}
  Handled = {"endpoint", "zombie"}
  Nil = Nil
SPECIFICATION Spec
INVARIANTS ListsLinked SlotsAccounted ZombieBacked ObjectsDie
PROPERTIES DelegationReturns CapsConserved
