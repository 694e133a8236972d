CONSTANTS
  Tasks = {r, a}
  Root = r
  Endpoints = {e1}
  Targets = {a}
  Syscalls = {"create_task", "resume", "yield", "receive", "suspend"}
  TransferMayFail = FALSE
  Idle = idle
  None = none
SPECIFICATION Spec
INVARIANTS WokenIsServed
