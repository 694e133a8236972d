CONSTANTS
  Tasks = {r, s, a, b, c}
  Root = r
  Endpoints = {e1}
  Targets = {s, a, b, c}
  Syscalls = {"reply_and_receive", "call", "create_task", "yield", "resume"}
  TransferMayFail = FALSE
  Idle = idle
  None = none
  Server = s
  Service = e1
SPECIFICATION RpcSpec
PROPERTIES CallAnswered
