CONSTANTS
  Tasks = {root, child}
  Root = root
  Spaces = {s0, s1, s2}
  RootSpace = s0
  SlotsPerSpace = 6
  TableEntries = 3
  MemBase = 4
  MemSize = 6
  MaxPhys = 16
  WordSize = 64
  MemRequests <- NoRequests
  TableArgs = {"valid", "bad_root"}
  ReuseSpaces = FALSE
  MaxId = 1
  MaxCaps = 6
  Syscalls = {"create_id", "create_cap_space", "create_page_table", "create_task", "copy", "revoke", "destroy", "delegate", "insert_cap_space", "extend_cap_space", "resume", "suspend", "kill", "query"}
  Handled = {"task", "id", "page_table", "zombie"}
  Nil = Nil
SPECIFICATION Spec
INVARIANTS TypeOK ObjectsDie SlotsAccounted
