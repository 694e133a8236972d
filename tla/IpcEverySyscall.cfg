CONSTANTS
  Tasks = {r, a}
  Root = r
  Endpoints = {e1, e2}
  Targets = {r, a}
  Syscalls = {"send_short", "nb_send_short", "send_long", "nb_send_long", "receive", "nb_receive", "reply", "reply_and_receive", "call", "destroy_endpoint", "create_task", "yield", "switch", "suspend", "resume", "kill", "destroy_task", "set_kill_notify"}
  TransferMayFail = TRUE
  Idle = idle
  None = none
SPECIFICATION Spec
INVARIANTS TypeOK Rendezvous WaitQueues CallPairing LockInventory AssertionsHold
PROPERTIES KilledForGood
