--------------------------- MODULE IpcRefinement ---------------------------
(* The scheduler and IPC of Ipc.tla keep the promises of CallProtocol.tla. *)
EXTENDS Ipc

(* A task in the kernel behind the resched() of ipc_send_short,            *)
(* ipc_send_long or ipc_call has the operation that its queue, its callee  *)
(* and its ipc_state tell.  The message of one that still has a sender's   *)
(* ipc_state and is in neither was lost in a failed transfer.              *)
Queued(t) == \E e \in Endpoints : t \in Members(sendQ[e])

OpOf(t) ==
  CASE task[t].state = "killed" -> "dead"
    [] task[t].state # "killed" /\ cont[t].at # "sent" -> "idle"
    [] OTHER ->
         CASE task[t].ipc = "none" -> "done"
           [] task[t].ipc = "canceled" -> "canceled"
           [] task[t].ipc = "sending" /\ Queued(t) -> "sending"
           [] task[t].ipc = "calling" /\ Queued(t) -> "asking"
           [] task[t].ipc = "calling" /\ ~Queued(t) /\ task[t].callee # None -> "served"
           [] OTHER -> "lost"

ServerOf(t) == IF OpOf(t) = "served" THEN task[t].callee ELSE None

Protocol ==
  INSTANCE CallProtocol WITH
    run <- cur,
    op <- [t \in Tasks |-> OpOf(t)],
    server <- [t \in Tasks |-> ServerOf(t)]

(* Every step of the kernel is a step of the call protocol, or none: a     *)
(* blocking send reports success only if a running task received the       *)
(* message, a call is ended only by the one task that received it, which   *)
(* cannot take another message and report success, and a task owes at most *)
(* one reply, through suspensions, switches, canceled endpoints, servers   *)
(* that receive again, and kills on either side.  The caller of a server   *)
(* that died stays where it is until it is killed.                         *)
ImplementsProtocol == Protocol!Spec
=============================================================================
