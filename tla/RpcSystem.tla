----------------------------- MODULE RpcSystem -----------------------------
(***************************************************************************)
(* The kernel of Ipc.tla running the programs the call/reply primitives    *)
(* are made for: the root task creates and resumes every task and then     *)
(* yields, one server loops on reply_and_receive, the clients call it.     *)
(***************************************************************************)
EXTENDS Ipc

CONSTANTS Server, Service   \* the server task and its endpoint

ASSUME RpcAssumption == Server \in Tasks \ {Root} /\ Service \in Endpoints

Clients == Tasks \ {Root, Server}

RootProgram ==
  /\ cur = Root
  /\ \/ \E v \in Tasks : CreateTask(v)
     \/ \E v \in Tasks \ {Root} : task[v].state = "suspended" /\ Resume(v)
     \/ (\A v \in Tasks \ {Root} : task[v].state \notin {"unused", "suspended"}) /\ Yield

ServerProgram == cur = Server /\ (ReplyAndReceive(Service) \/ ThenReceive(Service))

ClientProgram == cur \in Clients /\ (Call(Service) \/ Yield)

RpcNext == RootProgram \/ ServerProgram \/ ClientProgram \/ Continue \/ Dispatch \/ Halted

RpcSpec == Init /\ [][RpcNext]_vars /\ WF_vars(RpcNext)

(* Every call is answered: a client that calls the server comes back to    *)
(* user mode with its reply, however the other clients call, because the   *)
(* server serves whoever waits before it gives up the processor and the    *)
(* reply half of reply_and_receive readies a caller before the next        *)
(* receive.                                                                *)
CallAnswered ==
  \A c \in Clients :
    task[c].ipc = "calling" ~> (cur = c /\ cont[c] = User /\ task[c].ipc = "none")
=============================================================================
