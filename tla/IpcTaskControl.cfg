CONSTANTS
  Tasks = {r, a, b}
  Root = r
  Endpoints = {e1, e2}
  Targets = {a, b}
  Syscalls = {"send_long", "receive", "reply", "call", "destroy_endpoint", "create_task", "yield", "switch", "suspend", "resume", "destroy_task", "set_kill_notify"}
  TransferMayFail = FALSE
  Idle = idle
  None = none
SPECIFICATION Spec
SYMMETRY Symmetry
INVARIANTS NoTaskLost KernelInvariant
PROPERTIES ImplementsProtocol
