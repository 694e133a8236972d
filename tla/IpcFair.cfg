CONSTANTS
  Tasks = {r, a, b}
  Root = r
  Endpoints = {e1}
  Targets = {a, b}
  Syscalls = {"send_long", "nb_send_long", "receive", "nb_receive", "reply", "reply_and_receive", "call", "destroy_endpoint", "create_task", "yield", "resume"}
  TransferMayFail = TRUE
  Idle = idle
  None = none
SPECIFICATION FairSpec
INVARIANTS KernelSurvives
PROPERTIES ReadyRuns ImplementsProtocol
