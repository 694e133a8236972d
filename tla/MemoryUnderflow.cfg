CONSTANTS
  Tasks = {root, child}
  Root = root
  Spaces = {s0, s1}
  RootSpace = s0
  SlotsPerSpace = 7
  TableEntries = 3
  MemBase = 4
  MemSize = 8
  MaxPhys = 64
  WordSize = 64
  MemRequests <- SmallRequests
  TableArgs = {"valid"}
  ReuseSpaces = FALSE
  MaxId = 0
  MaxCaps = 12
  Syscalls = {"query", "create_mem", "create_page_table"}
  Handled = {}
  Nil = Nil
SPECIFICATION Spec
INVARIANT UsedFits
