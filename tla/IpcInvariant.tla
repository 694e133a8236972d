---------------------------- MODULE IpcInvariant ----------------------------
(***************************************************************************)
(* The inductive invariant of Ipc.tla: what every system call of ipc.cpp   *)
(* and task.cpp can rely on about the fields of every task_t, and in turn  *)
(* keeps.  WaitQueues, CallPairing and LockInventory say what matters to a *)
(* reader; they hold because the parts below hold together.                *)
(***************************************************************************)
EXTENDS Ipc

Waits(t) == \E e \in Endpoints : t \in Members(sendQ[e]) \/ t \in Members(recvQ[e])

(* A member of sender_queue.  The message of a queued caller is long: its  *)
(* reply is written there.                                                 *)
QueuedSender(t, e) ==
  /\ task[t].ep = e /\ task[t].ipc \in {"sending", "calling"}
  /\ task[t].event = "send" /\ task[t].callee = None
  /\ task[t].ipc = "calling" => task[t].msg = "long"
  /\ cont[t].at = "sent"

(* A member of receiver_queue: its buffer is recorded and it owes nobody   *)
(* a reply.                                                                *)
QueuedReceiver(t, e) ==
  /\ task[t].ep = e /\ task[t].ipc = "receiving" /\ task[t].msg = "long"
  /\ task[t].callee = None /\ task[t].caller = None
  /\ cont[t].at = "received"

Queues ==
  \A e \in Endpoints :
    /\ Once(sendQ[e]) /\ Once(recvQ[e])
    /\ \A t \in Members(sendQ[e]) : QueuedSender(t, e)
    /\ \A t \in Members(recvQ[e]) : QueuedReceiver(t, e)

(* c is blocked in ipc_call until s replies.                               *)
BlockedOn(c, s) ==
  /\ task[c].callee = s /\ c # s
  /\ task[c].ipc = "calling" /\ task[c].event = "send" /\ task[c].msg = "long"
  /\ cont[c].at = "sent" /\ ~Waits(c)

Pairs ==
  \A s, c \in Tasks :
    /\ task[s].caller = c => BlockedOn(c, s)
    /\ task[c].callee = s => task[s].caller = c \/ task[c].state = "killed"

(* The task on the hart exists and was not killed.                         *)
Current == cur \in Tasks => task[cur].state \notin {"killed", "unused"}

(* Nothing touches a task_t before create_task_object.                     *)
Fresh ==
  \A t \in Tasks : task[t].state = "unused" =>
    task[t] = FreshTask("unused") /\ cont[t] = User

(* A waiting task waits in a role.                                         *)
Roles ==
  \A t \in Tasks : task[t].state = "waiting" =>
    task[t].ipc \in {"sending", "receiving", "calling"}

(* A task that was served or canceled and has not noticed yet finds its    *)
(* message taken and, if it sent, its event reset.                         *)
Served ==
  \A t \in Tasks : task[t].ipc \in {"none", "canceled"} =>
    /\ cont[t].at = "sent" => task[t].event = "none" /\ task[t].msg = "empty"
    /\ cont[t].at = "received" => task[t].msg = "empty"

(* The inductive invariant: every task waits, calls, holds locks and is    *)
(* woken in the ways ipc.cpp and task.cpp foresee, all at once.            *)
KernelInvariant ==
  Rendezvous /\ Queues /\ Pairs /\ Current /\ Fresh /\ Roles /\ Served /\ LockInventory

(* What NoTaskLost needs besides: the task on the hart is running.  The    *)
(* root task starts there in the state it was created in, suspended.       *)
OnHart ==
  cur \in Tasks =>
    \/ task[cur].state = "running"
    \/ cur = Root /\ task[cur].state = "suspended"
=============================================================================
