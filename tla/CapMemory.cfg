CONSTANTS
  Tasks = {root, child}
  Root = root
  Spaces = {s0, s1}
  RootSpace = s0
  SlotsPerSpace = 7
  TableEntries = 3
  MemBase = 4
  MemSize = 6
  MaxPhys = 16
  WordSize = 64
  MemRequests <- PageRequests
  TableArgs = {"valid"}
  ReuseSpaces = FALSE
  MaxId = 0
  MaxCaps = 8
  Syscalls = {"create_mem", "create_endpoint", "create_cap_space", "create_task", "revoke", "destroy", "delegate", "resume", "query"}
  Handled = {"mem", "zombie"}
  Nil = Nil
SPECIFICATION Spec
INVARIANTS MemoryDisjoint AssertionsHold SlotInvariant
