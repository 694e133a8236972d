-------------------------------- MODULE Ipc --------------------------------
(***************************************************************************)
(* The task scheduler and the synchronous IPC of the caprese microkernel   *)
(* (src/kernel/task.cpp, src/kernel/ipc.cpp and the system calls on task   *)
(* and endpoint capabilities that lead to them).                           *)
(*                                                                         *)
(* The kernel runs on one hart with interrupts masked, so the code between *)
(* two context switches is one atomic step.  A system call that gives up   *)
(* the processor leaves the rest of its code in cont[t]; that rest runs    *)
(* when t is next dispatched, and the steps of other tasks come between.   *)
(*                                                                         *)
(* The default build has its assertions enabled: a failed assert, a        *)
(* panic(), a null dereference in the kernel and a spin on a lock whose    *)
(* owner cannot run all stop the machine.  They are recorded in fault.     *)
(***************************************************************************)
EXTENDS Naturals, Sequences

CONSTANTS
  Tasks,            \* the pages that hold or will hold a task_t
  Root,             \* the root task, tid.index = 1
  Endpoints,        \* the endpoint objects
  Targets,          \* the tasks some user program invokes task syscalls on
  Syscalls,         \* the system calls the user programs make
  TransferMayFail,  \* can ipc_transfer_ipc_msg fail on a message?
  Idle,             \* the idle task of the hart
  None              \* a null map_ptr

ASSUME ConstantsAssumption ==
  /\ Root \in Tasks
  /\ Targets \subseteq Tasks
  /\ TransferMayFail \in BOOLEAN
  /\ Idle \notin Tasks
  /\ None \notin Tasks \cup Endpoints

VARIABLES
  cur,       \* get_cls()->current_task
  task,      \* the scheduling and IPC fields of every task_t
  readyQ,    \* ready_queue
  sendQ,     \* endpoint_t::sender_queue
  recvQ,     \* endpoint_t::receiver_queue
  epLock,    \* owner of endpoint_t::lock across a context switch
  taskLock,  \* owner of task_t::lock across a context switch
  cont,      \* what a task still has to execute in the kernel
  fault      \* why the machine stopped

vars == <<cur, task, readyQ, sendQ, recvQ, epLock, taskLock, cont, fault>>

-----------------------------------------------------------------------------
(* Types.                                                                  *)

NoFault == "none"
Hang == "spins on a lock forever"
NullDeref == "null dereference"

TaskState == {"unused", "running", "ready", "waiting", "suspended", "killed"}
IpcState == {"none", "sending", "receiving", "calling", "canceled"}
EventType == {"none", "send", "kill"}
MsgState == {"empty", "short", "long"}

TaskRecord ==
  [state  : TaskState,
   ipc    : IpcState,
   event  : EventType,
   msg    : MsgState,
   ep     : Endpoints \cup {None},
   callee : Tasks \cup {None},
   caller : Tasks \cup {None},
   notify : Endpoints \cup {None}]

(* Where a task resumes: in user mode, after the resched() of a blocking   *)
(* send, call or receive, after the switch_task of a short send (with the  *)
(* endpoint lock held) or of a long send or a receive (which take it       *)
(* again), after the resched() of suspend_task or ipc_send_kill_notify, or *)
(* at the receive half of reply_and_receive.                               *)
Cont ==
  [at : {"user", "sent", "received", "short_switched", "switched",
         "suspended", "notified", "replied"},
   on : Tasks \cup Endpoints \cup {None}]

At(place, x) == [at |-> place, on |-> x]
User == At("user", None)

Members(q) == {q[i] : i \in 1..Len(q)}

Waiters == UNION {Members(sendQ[e]) \cup Members(recvQ[e]) : e \in Endpoints}

FreshTask(state) ==
  [state |-> state, ipc |-> "none", event |-> "none", msg |-> "empty",
   ep |-> None, callee |-> None, caller |-> None, notify |-> None]

Init ==
  /\ cur = Root
  /\ task = [t \in Tasks |-> FreshTask(IF t = Root THEN "suspended" ELSE "unused")]
  /\ readyQ = <<>>
  /\ sendQ = [e \in Endpoints |-> <<>>]
  /\ recvQ = [e \in Endpoints |-> <<>>]
  /\ epLock = [e \in Endpoints |-> None]
  /\ taskLock = [t \in Tasks |-> None]
  /\ cont = [t \in Tasks |-> User]
  /\ fault = NoFault

-----------------------------------------------------------------------------
(* Faults.  f ?? g is the first of the checks f and g, in the order the    *)
(* code makes them, that stops the machine.                                *)

f ?? g == IF f # NoFault THEN f ELSE g

Check(ok, why) == IF ok THEN NoFault ELSE why

(* A handler that meets the fault f stops there; otherwise it does A.      *)
Try(f, A) ==
  IF f = NoFault
  THEN A /\ fault' = NoFault
  ELSE /\ fault' = f
       /\ UNCHANGED <<cur, task, readyQ, sendQ, recvQ, epLock, taskLock, cont>>

(* recursive_spinlock_t::lock on one hart: only the owner gets past it.    *)
Acquire(owner) == Check(owner \in {None, cur}, Hang)

(* push_ready_queue.  The assertions on the links miss a task that is      *)
(* alone in the queue: pushing it again links it to itself.                *)
PushReady(q, t) ==
  Check(t \notin Members(q) \/ Len(q) = 1, "push_ready_queue: links") ??
  Check(t \notin Members(q), "push_ready_queue: linked to itself")

(* remove_ready_queue and remove_waiting_queue on a task that is not in    *)
(* the queue follow a null prev link.                                      *)
Unlinkable(q, t) == Check(t \in Members(q), NullDeref)

RemoveWaiting(t) == Check(task[t].state = "waiting", "remove_waiting_queue: state")

(* push_waiting_queue adds at the tail.                                    *)
PushWaiting(q, t) == Append(q, t)

Unlink(q, t) ==
  LET n == CHOOSE i \in 1..Len(q) : q[i] = t
  IN  [i \in 1..(Len(q) - 1) |-> IF i < n THEN q[i] ELSE q[i + 1]]

-----------------------------------------------------------------------------
(* What the operations do to the record of one task.                       *)

InState(r, s) == [r EXCEPT !.state = s]

WithMsg(r, m) == [r EXCEPT !.msg = m]

(* A task that starts to wait: cur as a sender, a caller or a receiver.    *)

(* Mutated form of AsSender: the endpoint is not recorded.                 *)
AsSenderNoEndpoint(r, e, m) ==
  [r EXCEPT !.msg = m, !.state = "waiting", !.ipc = "sending", !.event = "send"]

AsSender(r, e, m) ==
  [r EXCEPT !.msg = m, !.state = "waiting", !.ipc = "sending", !.event = "send", !.ep = e]

AsCaller(r, e) ==
  [r EXCEPT !.msg = "long", !.state = "waiting", !.ipc = "calling", !.event = "send", !.ep = e]

AsReceiver(r, e) == [r EXCEPT !.state = "waiting", !.ipc = "receiving", !.ep = e]

(* A task that is woken: a receiver keeps its event type, a sender does    *)
(* not, a caller also forgets its callee.                                  *)
WakeReceiver(r, ipc) ==
  [r EXCEPT !.state = "ready", !.ipc = ipc, !.msg = "empty", !.ep = None]

(* Mutated form of WakeSender: the event type is not reset.                *)
WakeSenderKeepsEvent(r, ipc) == WakeReceiver(r, ipc)

WakeSender(r, ipc) == [WakeReceiver(r, ipc) EXCEPT !.event = "none"]

(* Mutated form of WakeCaller: the callee is not reset.                    *)
WakeCallerKeepsCallee(r, ipc) == WakeSender(r, ipc)

WakeCaller(r, ipc) == [WakeSender(r, ipc) EXCEPT !.callee = None]

(* The two ends of a call.                                                 *)
WithCallee(r, t) == [r EXCEPT !.callee = t]
WithCaller(r, t) == [r EXCEPT !.caller = t]

-----------------------------------------------------------------------------
(* What they do to the machine.  tk, q and place are the new task records, *)
(* ready queue and continuation of cur.                                    *)

One(tk, t, r) == [tk EXCEPT ![t] = r]
Two(tk, t, r, u, s) == [tk EXCEPT ![t] = r, ![u] = s]

(* The system call returns to cur.                                         *)
Return(tk, q) ==
  /\ task' = tk
  /\ readyQ' = q
  /\ UNCHANGED <<cur, sendQ, recvQ, epLock, taskLock, cont>>

Leave(place) == cont' = [cont EXCEPT ![cur] = place]

(* switch_task(to), to # cur: mine and theirs are the records so far.      *)
SwitchTask(tk, mine, q, to, theirs) ==
  /\ task' = Two(tk, cur, InState(mine, "ready"), to, InState(theirs, "running"))
  /\ readyQ' = Append(q, cur)
  /\ cur' = to

(* Mutated form of Resched: the hart is left with no current task.         *)
ReschedToNull == cur' = None

(* resched(): the idle task takes over; the state of cur is not touched.   *)
Resched == cur' = Idle

InUserMode == fault = NoFault /\ cur \in Tasks /\ cont[cur] = User

(* The task in user mode makes the system call c.  Before anything else,   *)
(* lookup_cap (or yield) takes the lock of the task itself.                *)
Calls(c) ==
  /\ InUserMode
  /\ c \in Syscalls
  /\ Acquire(taskLock[cur]) = NoFault

(* Any system call of a task whose lock another task holds.                *)
LookupSpins == InUserMode /\ Try(Acquire(taskLock[cur]), FALSE)

TransferResults == IF TransferMayFail THEN BOOLEAN ELSE {TRUE}

-----------------------------------------------------------------------------
(* ipc.cpp: ipc_send_short, ipc_send_long                                  *)

(* The assertions at the head of the sends and of ipc_receive, and the     *)
(* lock of the endpoint.                                                   *)
Enter(e) ==
  Check(cur \notin Waiters, "ipc: waiting links") ??
  Check(task[cur].callee = None, "ipc: callee") ??
  Acquire(epLock[e])

(* The receiver r of a message: its lock, and the panic of                 *)
(* ipc_transfer_ipc_msg and ipc_transfer_kill_msg.                         *)
TransferTo(r) ==
  Acquire(taskLock[r]) ??
  Check(task[r].msg = "long", "ipc_transfer: msg state")

Deliver(e) ==
  Check(sendQ[e] = <<>>, "ipc_send: sender_queue") ?? TransferTo(Head(recvQ[e]))

(* The message is transferred to the receiver at the head of the queue,    *)
(* which runs next.  ep is what becomes of the endpoint locks.             *)
HandOver(e, msg, ep, place) ==
  LET r == Head(recvQ[e])
  IN  /\ SwitchTask(task, WithMsg(task[cur], msg), readyQ, r,
                    WakeReceiver(task[r], "none"))
      /\ recvQ' = [recvQ EXCEPT ![e] = Tail(@)]
      /\ epLock' = ep
      /\ Leave(place)
      /\ UNCHANGED <<sendQ, taskLock>>

HandOverChecks(e) ==
  Enter(e) ?? Deliver(e) ?? RemoveWaiting(Head(recvQ[e])) ?? PushReady(readyQ, cur)

(* No receiver: the sender joins the queue and gives up the processor.     *)
BlockSender(e, r) ==
  /\ task' = One(task, cur, r)
  /\ sendQ' = [sendQ EXCEPT ![e] = PushWaiting(@, cur)]
  /\ Leave(At("sent", None))
  /\ Resched
  /\ UNCHANGED <<readyQ, recvQ, epLock, taskLock>>

(* ipc_send_short with a receiver waiting.  The result of the transfer is  *)
(* ignored, and the endpoint stays locked while the receiver runs.         *)
SendShortDeliver(e) ==
  /\ recvQ[e] # <<>>
  /\ Try(HandOverChecks(e),
         HandOver(e, "short", [epLock EXCEPT ![e] = cur], At("short_switched", e)))

SendShort(e) ==
  /\ Calls("send_short")
  /\ \/ SendShortDeliver(e)
     \/ /\ recvQ[e] = <<>>
        /\ Try(Enter(e), BlockSender(e, AsSender(task[cur], e, "short")))

NbSendShort(e) ==
  /\ Calls("nb_send_short")
  /\ \/ SendShortDeliver(e)
     \/ /\ recvQ[e] = <<>>
        /\ Try(Enter(e), Return(One(task, cur, WithMsg(task[cur], "short")), readyQ))

(* ipc_send_long with a receiver waiting: a failed transfer returns        *)
(* before the receiver is dequeued, and the lock is released for the       *)
(* switch.                                                                 *)
SendLongDeliver(e) ==
  /\ recvQ[e] # <<>>
  /\ \/ Try(HandOverChecks(e), HandOver(e, "long", epLock, At("switched", e)))
     \/ /\ FALSE \in TransferResults
        /\ Try(Enter(e) ?? Deliver(e),
               Return(One(task, cur, WithMsg(task[cur], "long")), readyQ))

SendLong(e) ==
  /\ Calls("send_long")
  /\ \/ SendLongDeliver(e)
     \/ /\ recvQ[e] = <<>>
        /\ Try(Enter(e), BlockSender(e, AsSender(task[cur], e, "long")))

NbSendLong(e) ==
  /\ Calls("nb_send_long")
  /\ \/ SendLongDeliver(e)
     \/ /\ recvQ[e] = <<>>
        /\ Try(Enter(e), Return(One(task, cur, WithMsg(task[cur], "long")), readyQ))

-----------------------------------------------------------------------------
(* ipc.cpp: ipc_receive                                                    *)

(* A server that receives again without having replied cancels its caller. *)
CancelCaller(e) ==
  LET c == task[cur].caller
  IN  IF c = None THEN NoFault
      ELSE Acquire(taskLock[c]) ??
           Check(task[c].state = "waiting", "ipc_receive: caller state") ??
           Check(task[c].ipc = "calling" /\ task[c].event = "send",
                 "ipc_receive: caller ipc state") ??
           Check(c \notin Waiters, "ipc_receive: caller links") ??
           Check(task[c].callee = cur, "ipc_receive: caller's callee") ??
           Check(task[c].ep = e, "ipc_receive: caller's endpoint") ??
           PushReady(readyQ, c)

(* cur, the other records and the ready queue once the receive buffer is   *)
(* recorded and the caller canceled.                                       *)
Receiver == WithCaller(WithMsg(task[cur], "long"), None)

(* Mutated form of TasksAtReceive: the caller is told that it was served.  *)
TasksAtReceiveServed ==
  LET c == task[cur].caller
  IN  IF c = None THEN task ELSE One(task, c, WakeCaller(task[c], "none"))

TasksAtReceive ==
  LET c == task[cur].caller
  IN  IF c = None THEN task ELSE One(task, c, WakeCaller(task[c], "canceled"))

ReadyAtReceive ==
  IF task[cur].caller = None THEN readyQ ELSE Append(readyQ, task[cur].caller)

(* A queued kill event cannot get past the assertion of                    *)
(* remove_waiting_queue, since its task is not waiting: the branch of      *)
(* ipc_receive that forwards it is dead code.                              *)
TakeSender(e) ==
  LET s == Head(sendQ[e])
  IN  Check(recvQ[e] = <<>>, "ipc_receive: receiver_queue") ??
      Acquire(taskLock[s]) ??
      Check(task[s].callee = None, "ipc_receive: sender's callee") ??
      RemoveWaiting(s)

(* The sender is off the queue and cur returns with the records tk.        *)
Take(e, tk) ==
  /\ task' = tk
  /\ readyQ' = ReadyAtReceive
  /\ sendQ' = [sendQ EXCEPT ![e] = Tail(@)]
  /\ Leave(User)
  /\ UNCHANGED <<cur, recvQ, epLock, taskLock>>

(* The sender is off the queue and is switched to.                         *)
TakeAndSwitch(e) ==
  LET s == Head(sendQ[e])
  IN  /\ SwitchTask(TasksAtReceive, Receiver, ReadyAtReceive, s,
                    WakeSender(task[s], "none"))
      /\ sendQ' = [sendQ EXCEPT ![e] = Tail(@)]
      /\ Leave(At("switched", e))
      /\ UNCHANGED <<recvQ, epLock, taskLock>>

(* A sender is waiting.  When the transfer fails the sender has already    *)
(* left the queue.  A plain sender is woken and switched to, a caller      *)
(* waits on for the reply.                                                 *)
ReceiveFrom(e) ==
  LET s == Head(sendQ[e])
      checks == Enter(e) ?? CancelCaller(e) ?? TakeSender(e)
  IN  /\ sendQ[e] # <<>>
      /\ \/ /\ FALSE \in TransferResults
            /\ Try(checks, Take(e, One(TasksAtReceive, cur, Receiver)))
         \/ /\ task[s].ipc = "calling"
            /\ Try(checks, Take(e, Two(TasksAtReceive, cur, WithCaller(Receiver, s),
                                       s, WithCallee(task[s], cur))))
         \/ /\ task[s].ipc # "calling"
            /\ Try(checks ?? PushReady(ReadyAtReceive, cur), TakeAndSwitch(e))

WaitForSender(e) ==
  /\ task' = One(TasksAtReceive, cur, AsReceiver(Receiver, e))
  /\ readyQ' = ReadyAtReceive
  /\ recvQ' = [recvQ EXCEPT ![e] = PushWaiting(@, cur)]
  /\ Leave(At("received", None))
  /\ Resched
  /\ UNCHANGED <<sendQ, epLock, taskLock>>

(* Mutated form of BlockReceiver: the sender queue is not looked at.       *)
BlockReceiverUnchecked(e) == Try(Enter(e) ?? CancelCaller(e), WaitForSender(e))

(* No sender: the receiver joins the queue and gives up the processor.     *)
BlockReceiver(e) ==
  /\ sendQ[e] = <<>>
  /\ Try(Enter(e) ?? CancelCaller(e), WaitForSender(e))

Receive(e) == Calls("receive") /\ (ReceiveFrom(e) \/ BlockReceiver(e))

NbReceive(e) ==
  /\ Calls("nb_receive")
  /\ \/ ReceiveFrom(e)
     \/ /\ sendQ[e] = <<>>
        /\ Try(Enter(e) ?? CancelCaller(e),
               Return(One(TasksAtReceive, cur, Receiver), ReadyAtReceive))

-----------------------------------------------------------------------------
(* ipc.cpp: ipc_reply; ns_endpoint_cap.cpp: reply_and_receive              *)

ReplyTo(e, c) ==
  Check(task[c].callee = cur, "ipc_reply: caller's callee") ??
  Check(task[c].state = "waiting", "ipc_reply: caller state") ??
  Check(task[c].ipc = "calling" /\ task[c].event = "send" /\ task[c].msg = "long",
        "ipc_reply: caller ipc state") ??
  Check(task[c].ep = e, "ipc_reply: caller's endpoint") ??
  Acquire(taskLock[c])

(* The reply is delivered, or not owed: the task goes on at next.          *)
Replied(tk, q, next) ==
  /\ task' = tk
  /\ readyQ' = q
  /\ Leave(next)
  /\ UNCHANGED <<cur, sendQ, recvQ, epLock, taskLock>>

DoReply(e, next) ==
  LET c == task[cur].caller
  IN  \/ /\ c = None
         /\ Try(Acquire(epLock[e]), Replied(task, readyQ, next))
      \/ /\ c # None
         /\ FALSE \in TransferResults
         /\ Try(Acquire(epLock[e]) ?? ReplyTo(e, c),
                Return(One(task, cur, WithMsg(task[cur], "long")), readyQ))
      \/ /\ c # None
         /\ Try(Acquire(epLock[e]) ?? ReplyTo(e, c) ?? PushReady(readyQ, c),
                Replied(Two(task, cur, WithCaller(WithMsg(task[cur], "empty"), None),
                            c, WakeCaller(task[c], "none")),
                        Append(readyQ, c), next))

Reply(e) == Calls("reply") /\ DoReply(e, User)

ReplyAndReceive(e) == Calls("reply_and_receive") /\ DoReply(e, At("replied", e))

(* The receive half, which follows the reply with no switch in between.    *)
ThenReceive(e) ==
  /\ fault = NoFault
  /\ cur \in Tasks
  /\ cont[cur] = At("replied", e)
  /\ ReceiveFrom(e) \/ BlockReceiver(e)

-----------------------------------------------------------------------------
(* ipc.cpp: ipc_call, ipc_cancel                                           *)

(* Mutated form of CallReceiver: the receiver is not made ready.           *)
CallReceiverUnqueued(e) ==
  LET r == Head(recvQ[e])
  IN  /\ task' = Two(task, cur, WithCallee(AsCaller(task[cur], e), r),
                     r, WithCaller(WakeReceiver(task[r], "none"), cur))
      /\ recvQ' = [recvQ EXCEPT ![e] = Tail(@)]
      /\ Leave(At("sent", None))
      /\ Resched
      /\ UNCHANGED <<readyQ, sendQ, epLock, taskLock>>

(* The receiver becomes the callee; the caller waits for its reply.        *)
CallReceiver(e) ==
  LET r == Head(recvQ[e])
  IN  /\ task' = Two(task, cur, WithCallee(AsCaller(task[cur], e), r),
                     r, WithCaller(WakeReceiver(task[r], "none"), cur))
      /\ readyQ' = Append(readyQ, r)
      /\ recvQ' = [recvQ EXCEPT ![e] = Tail(@)]
      /\ Leave(At("sent", None))
      /\ Resched
      /\ UNCHANGED <<sendQ, epLock, taskLock>>

(* The caller is marked waiting before the endpoint is looked at, and      *)
(* stays so when the transfer to a waiting receiver fails.                 *)
Call(e) ==
  LET r == Head(recvQ[e])
  IN  /\ Calls("call")
      /\ \/ /\ recvQ[e] # <<>>
            /\ FALSE \in TransferResults
            /\ Try(Acquire(epLock[e]) ?? Deliver(e),
                   Return(One(task, cur, AsCaller(task[cur], e)), readyQ))
         \/ /\ recvQ[e] # <<>>
            /\ Try(Acquire(epLock[e]) ?? Deliver(e) ?? RemoveWaiting(r) ??
                   PushReady(readyQ, r), CallReceiver(e))
         \/ /\ recvQ[e] = <<>>
            /\ Try(Acquire(epLock[e]) ??
                   Check(cur \notin Waiters, "push_waiting_queue: links"),
                   BlockSender(e, AsCaller(task[cur], e)))

(* ipc_cancel, reached when the last capability of an endpoint is          *)
(* destroyed: every receiver, then every sender, is made ready.            *)
CancelOne(q, t) == Acquire(taskLock[t]) ?? RemoveWaiting(t) ?? PushReady(q, t)

CancelAll(e) ==
  LET all == recvQ[e] \o sendQ[e]
      CancelNth(i) == CancelOne(readyQ \o SubSeq(all, 1, i - 1), all[i])
      bad == {i \in 1..Len(all) : CancelNth(i) # NoFault}
  IN  IF bad = {} THEN NoFault
      ELSE CancelNth(CHOOSE i \in bad : \A j \in bad : i <= j)

Canceled(e) ==
  /\ task' = [t \in Tasks |->
                IF t \in Members(recvQ[e]) THEN WakeReceiver(task[t], "canceled")
                ELSE IF t \in Members(sendQ[e]) THEN WakeSender(task[t], "canceled")
                ELSE task[t]]
  /\ readyQ' = readyQ \o recvQ[e] \o sendQ[e]
  /\ recvQ' = [recvQ EXCEPT ![e] = <<>>]
  /\ sendQ' = [sendQ EXCEPT ![e] = <<>>]
  /\ UNCHANGED <<cur, epLock, taskLock, cont>>

Cancel(e) ==
  /\ Calls("destroy_endpoint")
  /\ Try(Acquire(epLock[e]) ?? CancelAll(e), Canceled(e))

-----------------------------------------------------------------------------
(* task.cpp: create, yield, switch, suspend, resume, set_kill_notify       *)

(* create_task_object and init_task: the new task is suspended.            *)
CreateTask(v) ==
  /\ Calls("create_task")
  /\ task[v].state = "unused"
  /\ Try(NoFault, Return(One(task, v, FreshTask("suspended")), readyQ))

(* cur becomes ready and the idle task runs the head of the queue q.       *)
GiveUp(q) ==
  /\ task' = One(task, cur, InState(task[cur], "ready"))
  /\ readyQ' = q
  /\ Resched
  /\ UNCHANGED <<sendQ, recvQ, epLock, taskLock, cont>>

(* Mutated form of Yield: the task goes to the head of the ready queue.    *)
YieldAtHead ==
  /\ Calls("yield")
  /\ Try(Acquire(taskLock[cur]) ?? PushReady(readyQ, cur), GiveUp(<<cur>> \o readyQ))

Yield ==
  /\ Calls("yield")
  /\ Try(Acquire(taskLock[cur]) ?? PushReady(readyQ, cur), GiveUp(Append(readyQ, cur)))

(* A task syscall on v; a task that was never created has no capability.   *)
CallsOn(c, v) == Calls(c) /\ v \in Targets /\ task[v].state # "unused"

SwitchTo(v) ==
  /\ SwitchTask(task, task[cur], Unlink(readyQ, v), v, task[v])
  /\ UNCHANGED <<sendQ, recvQ, epLock, taskLock, cont>>

(* A task that is not ready is refused; switching to oneself only leaves   *)
(* the ready queue.                                                        *)
Switch(v) ==
  /\ CallsOn("switch", v)
  /\ \/ /\ task[v].state # "ready"
        /\ Try(Acquire(taskLock[v]), Return(task, readyQ))
     \/ /\ task[v].state = "ready" /\ v # cur
        /\ Try(Acquire(taskLock[v]) ?? Unlinkable(readyQ, v) ??
               PushReady(Unlink(readyQ, v), cur), SwitchTo(v))
     \/ /\ task[v].state = "ready" /\ v = cur
        /\ Try(Acquire(taskLock[v]) ?? Unlinkable(readyQ, v),
               Return(task, Unlink(readyQ, v)))

(* A running task that suspends itself keeps its own lock until it runs    *)
(* again.                                                                  *)
SuspendSelf ==
  /\ task' = One(task, cur, InState(task[cur], "suspended"))
  /\ taskLock' = [taskLock EXCEPT ![cur] = cur]
  /\ Leave(At("suspended", None))
  /\ Resched
  /\ UNCHANGED <<readyQ, sendQ, recvQ, epLock>>

(* A waiting task stays in the queue of its endpoint.  A running task that *)
(* is not current has been left behind by ipc_send_kill_notify.            *)
Suspend(v) ==
  LET suspended == One(task, v, InState(task[v], "suspended"))
  IN  /\ CallsOn("suspend", v)
      /\ \/ /\ task[v].state = "running" /\ v = cur
            /\ Try(Acquire(taskLock[v]), SuspendSelf)
         \/ /\ task[v].state = "ready"
            /\ Try(Acquire(taskLock[v]) ?? Unlinkable(readyQ, v),
                   Return(suspended, Unlink(readyQ, v)))
         \/ /\ task[v].state = "waiting" \/ (task[v].state = "running" /\ v # cur)
            /\ Try(Acquire(taskLock[v]), Return(suspended, readyQ))
         \/ /\ task[v].state \in {"suspended", "killed"}
            /\ Try(Acquire(taskLock[v]), Return(task, readyQ))

MadeReady(v) == Return(One(task, v, InState(task[v], "ready")), Append(readyQ, v))

(* Mutated form of Resume: any task that is not queued can be resumed.     *)
ResumeAnyState(v) ==
  /\ CallsOn("resume", v)
  /\ Try(Acquire(taskLock[v]) ?? PushReady(readyQ, v), MadeReady(v))

(* resume_task does nothing to a task that is not suspended.               *)
Resume(v) ==
  /\ CallsOn("resume", v)
  /\ \/ /\ task[v].state = "suspended"
        /\ Try(Acquire(taskLock[v]) ?? PushReady(readyQ, v), MadeReady(v))
     \/ /\ task[v].state # "suspended"
        /\ Try(Acquire(taskLock[v]), Return(task, readyQ))

SetKillNotify(v, e) ==
  /\ CallsOn("set_kill_notify", v)
  /\ Try(Acquire(taskLock[v]),
         Return(One(task, v, [task[v] EXCEPT !.notify = e]), readyQ))

-----------------------------------------------------------------------------
(* task.cpp: kill_task; ipc.cpp: ipc_send_kill_notify                      *)

(* Taking v out of the queue or the call it is in.                         *)
Detach(v) ==
  CASE task[v].state = "ready" -> Unlinkable(readyQ, v)
    [] task[v].state = "waiting" /\ task[v].ep # None ->
         LET e == task[v].ep
             c == task[v].callee
         IN  Acquire(epLock[e]) ??
             (CASE task[v].ipc = "sending" -> Unlinkable(sendQ[e], v)
                [] task[v].ipc = "receiving" -> Unlinkable(recvQ[e], v)
                [] task[v].ipc = "calling" ->
                     Check(c # None, "kill_task: no callee") ??
                     Acquire(taskLock[c]) ??
                     Check(task[c].caller = v, "kill_task: callee's caller")
                [] OTHER -> "kill_task: ipc state")
    [] OTHER -> NoFault

WaitsAs(v, e, ipc) == task[v].state = "waiting" /\ task[v].ep = e /\ task[v].ipc = ipc

(* Mutated form of ReadyWithout: the killed task stays in the ready queue. *)
ReadyWithoutRemoval(v) == readyQ

ReadyWithout(v) == IF task[v].state = "ready" THEN Unlink(readyQ, v) ELSE readyQ

SendersWithout(v) ==
  [e \in Endpoints |-> IF WaitsAs(v, e, "sending") THEN Unlink(sendQ[e], v) ELSE sendQ[e]]

ReceiversWithout(v) ==
  [e \in Endpoints |-> IF WaitsAs(v, e, "receiving") THEN Unlink(recvQ[e], v) ELSE recvQ[e]]

(* The records once v is killed: its callee no longer owes it a reply.     *)
TasksWithout(v) ==
  LET c == task[v].callee
      killed == InState(task[v], "killed")
  IN  IF WaitsAs(v, task[v].ep, "calling") /\ task[v].ep # None
      THEN Two(task, v, killed, c, WithCaller(task[c], None))
      ELSE One(task, v, killed)

(* ipc_send_kill_notify: with no receiver waiting it queues the killed     *)
(* task, which push_waiting_queue asserts to be waiting.                   *)
Notify(v) ==
  LET n == task[v].notify
      r == Head(ReceiversWithout(v)[n])
  IN  Acquire(epLock[n]) ??
      Check(ReceiversWithout(v)[n] # <<>>, "push_waiting_queue: state") ??
      Check(SendersWithout(v)[n] = <<>>, "ipc_send_kill_notify: sender_queue") ??
      TransferTo(r) ??
      Check(TasksWithout(v)[r].state = "waiting", "remove_waiting_queue: state") ??
      PushReady(ReadyWithout(v), r)

(* Who calls kill_task: the kill system call, and destroy_task_object when *)
(* the last capability of v is destroyed.  destroy_cap does that with no   *)
(* lock held (o is None); revoke_cap holds the lock of cur meanwhile, and  *)
(* destroy_cap_slot that of the owner o of the capability.  A revocation   *)
(* that destroys several objects is several calls, as no other task runs   *)
(* between them; what they do to the slots is in CapSpace.tla.             *)
KillsUnder(v, o) ==
  \/ CallsOn("kill", v) /\ o = None
  \/ CallsOn("destroy_task", v) /\ o \in {None} \cup {t \in Tasks : task[t].state # "unused"}

AcquireOwner(o) == IF o = None THEN NoFault ELSE Acquire(taskLock[o])

(* The locks that cur holds inside kill_task.                              *)
LocksOfKill(v, o) ==
  [t \in Tasks |-> IF t = v \/ (o # None /\ t \in {cur, o}) THEN cur ELSE taskLock[t]]

(* Without a notification the kill returns to its caller, unless the task  *)
(* killed itself: then the locks it holds are never released.              *)
Killed(v, o) ==
  /\ task' = TasksWithout(v)
  /\ readyQ' = ReadyWithout(v)
  /\ sendQ' = SendersWithout(v)
  /\ recvQ' = ReceiversWithout(v)
  /\ \/ v # cur /\ UNCHANGED <<cur, taskLock>>
     \/ v = cur /\ Resched /\ taskLock' = LocksOfKill(v, o)
  /\ UNCHANGED <<epLock, cont>>

Kill(v, o) ==
  /\ KillsUnder(v, o)
  /\ task[v].notify = None
  /\ Try(AcquireOwner(o) ?? Acquire(taskLock[v]) ?? Detach(v) ??
         Check(v # Root, "kill_task: root killed"), Killed(v, o))

(* With a notification the killer always reschedules, holding its locks.   *)
Notified(v, o) ==
  LET n == task[v].notify
      r == Head(ReceiversWithout(v)[n])
      tk == TasksWithout(v)
  IN  /\ task' = One(tk, r, WakeReceiver(tk[r], "none"))
      /\ readyQ' = Append(ReadyWithout(v), r)
      /\ sendQ' = SendersWithout(v)
      /\ recvQ' = [ReceiversWithout(v) EXCEPT ![n] = Tail(@)]
      /\ taskLock' = LocksOfKill(v, o)
      /\ Leave(At("notified", v))
      /\ Resched
      /\ UNCHANGED epLock

KillAndNotify(v, o) ==
  /\ KillsUnder(v, o)
  /\ task[v].notify # None
  /\ Try(AcquireOwner(o) ?? Acquire(taskLock[v]) ?? Detach(v) ?? Notify(v), Notified(v, o))

-----------------------------------------------------------------------------
(* The rest of a system call, when its task is dispatched again.           *)

(* Mutated form of BackToUser: the endpoint lock held across the switch is *)
(* not released.                                                           *)
BackWithEndpointLock(ep, tl) ==
  Leave(User) /\ taskLock' = tl /\ UNCHANGED <<cur, task, readyQ, sendQ, recvQ, epLock>>

(* Return to user mode with the endpoint locks ep and the task locks tl.   *)
BackToUser(ep, tl) ==
  /\ Leave(User)
  /\ epLock' = ep
  /\ taskLock' = tl
  /\ UNCHANGED <<cur, task, readyQ, sendQ, recvQ>>

(* Mutated form of Woken: a task that wakes up does not look at why.       *)
WokenUnchecked == NoFault

(* The lock guards of kill_task, destroy_cap_slot and revoke_cap.          *)
ReleasedByKiller == [t \in Tasks |-> IF taskLock[t] = cur THEN None ELSE taskLock[t]]

(* The assertions after the resched() of a blocking operation.             *)
Woken ==
  Check(task[cur].ipc \in {"none", "canceled"}, "woken: ipc state") ??
  Check(cont[cur].at = "sent" => task[cur].event = "none", "woken: event") ??
  Check(task[cur].msg = "empty", "woken: msg state")

Continue ==
  LET x == cont[cur].on
  IN  /\ fault = NoFault
      /\ cur \in Tasks
      /\ \/ /\ cont[cur].at \in {"sent", "received"}
            /\ Try(Woken, BackToUser(epLock, taskLock))
         \/ /\ cont[cur].at = "short_switched"
            /\ Try(NoFault, BackToUser([epLock EXCEPT ![x] = None], taskLock))
         \/ /\ cont[cur].at = "switched"
            /\ Try(Acquire(epLock[x]), BackToUser(epLock, taskLock))
         \/ /\ cont[cur].at = "suspended"
            /\ Try(NoFault, BackToUser(epLock, [taskLock EXCEPT ![cur] = None]))
         \/ /\ cont[cur].at = "notified"
            /\ Try(Check(x # Root, "kill_task: root killed"),
                   BackToUser(epLock, ReleasedByKiller))

(* idle(): run the head of the ready queue, or spin.                       *)
Run(t) ==
  /\ cur' = t
  /\ task' = One(task, t, InState(task[t], "running"))
  /\ readyQ' = Tail(readyQ)
  /\ UNCHANGED <<sendQ, recvQ, epLock, taskLock, cont>>

Dispatch ==
  /\ fault = NoFault
  /\ cur = Idle
  /\ readyQ # <<>>
  /\ Try(Check(task[Head(readyQ)].state = "ready", "remove_ready_queue: state"),
         Run(Head(readyQ)))

IdleSpin == fault = NoFault /\ cur = Idle /\ readyQ = <<>> /\ UNCHANGED vars

(* panic() and the failed assertion loop forever.                          *)
Halted == fault # NoFault /\ UNCHANGED vars

Next ==
  \/ \E e \in Endpoints :
       \/ SendShort(e) \/ NbSendShort(e) \/ SendLong(e) \/ NbSendLong(e)
       \/ Receive(e) \/ NbReceive(e) \/ Reply(e) \/ ReplyAndReceive(e)
       \/ ThenReceive(e) \/ Call(e) \/ Cancel(e)
  \/ \E v \in Tasks :
       \/ CreateTask(v) \/ Switch(v) \/ Suspend(v) \/ Resume(v)
       \/ \E o \in Tasks \cup {None} : Kill(v, o) \/ KillAndNotify(v, o)
       \/ \E e \in Endpoints : SetKillNotify(v, e)
  \/ Yield \/ LookupSpins \/ Continue \/ Dispatch \/ IdleSpin \/ Halted

Spec == Init /\ [][Next]_vars

(* The programs are cooperative: nothing in the kernel takes the processor *)
(* from a task (a timer interrupt in user mode panics), so progress needs  *)
(* a running task to give it up eventually.  The kernel's own steps        *)
(* (dispatching, and finishing a system call) are never put off.           *)
GivesUpProcessor == Next /\ cur' # cur

KernelStep == Continue \/ Dispatch \/ \E e \in Endpoints : ThenReceive(e)

FairSpec == Spec /\ WF_vars(KernelStep) /\ WF_vars(GivesUpProcessor)

-----------------------------------------------------------------------------
(* Properties.                                                             *)

(* The fields of task_t, the queues and the locks hold values of their     *)
(* types, and the current task is never null.                              *)
TypeOK ==
  /\ cur \in Tasks \cup {Idle}
  /\ task \in [Tasks -> TaskRecord]
  /\ readyQ \in Seq(Tasks)
  /\ sendQ \in [Endpoints -> Seq(Tasks)]
  /\ recvQ \in [Endpoints -> Seq(Tasks)]
  /\ epLock \in [Endpoints -> Tasks \cup {None}]
  /\ taskLock \in [Tasks -> Tasks \cup {None}]
  /\ cont \in [Tasks -> Cont]

(* No endpoint ever has senders and receivers waiting at the same time:    *)
(* whoever comes second is matched.  ipc_send_short, ipc_send_long,        *)
(* ipc_receive, ipc_call and ipc_send_kill_notify assert it, each about    *)
(* the queue the others fill.                                              *)
Rendezvous == \A e \in Endpoints : sendQ[e] = <<>> \/ recvQ[e] = <<>>

Once(q) == \A i, j \in 1..Len(q) : q[i] = q[j] => i = j

(* A task in a waiting queue is there once, waits on that endpoint in that *)
(* role, is not in a call and has not returned to user mode, whatever      *)
(* suspend, resume, kill and failed transfers did to it or to its peers.   *)
WaitQueues ==
  \A e \in Endpoints :
    /\ Once(sendQ[e]) /\ Once(recvQ[e])
    /\ \A t \in Members(sendQ[e]) :
         /\ task[t].ep = e /\ task[t].ipc \in {"sending", "calling"}
         /\ task[t].event = "send" /\ task[t].callee = None
         /\ cont[t].at = "sent"
    /\ \A t \in Members(recvQ[e]) :
         /\ task[t].ep = e /\ task[t].ipc = "receiving" /\ task[t].msg = "long"
         /\ task[t].callee = None /\ task[t].caller = None
         /\ cont[t].at = "received"

(* caller_task and callee_task are inverse of each other: a task that owes *)
(* a reply owes it to a task blocked in ipc_call on it and on nobody else, *)
(* and only a killed caller is forgotten by its callee.                    *)
CallPairing ==
  \A s, c \in Tasks :
    /\ task[s].caller = c =>
         /\ task[c].callee = s /\ task[c].ipc = "calling"
         /\ c \notin Waiters /\ cont[c].at = "sent"
    /\ task[c].callee = s => task[s].caller = c \/ task[c].state = "killed"

(* Whoever can go on running holds no lock while another task runs, unless *)
(* it goes on by releasing it: an endpoint's lock is held by a task inside *)
(* the switch of ipc_send_short, on that endpoint; a task's lock by itself *)
(* while it is suspended by its own call, or by a killer whose kill        *)
(* notification rescheduled, which holds those of revoke_cap and           *)
(* destroy_cap_slot besides the killed task's.  Only the locks of a task   *)
(* that was killed, by itself or after such a switch, are never released.  *)
LockInventory ==
  /\ \A e \in Endpoints : epLock[e] # None => cont[epLock[e]] = At("short_switched", e)
  /\ \A t \in Tasks : taskLock[t] # None =>
       \/ taskLock[t] = t /\ cont[t].at = "suspended"
       \/ cont[taskLock[t]].at = "notified"
       \/ task[taskLock[t]].state = "killed"

(* The assertions and panics of ipc.cpp and task.cpp that no sequence of   *)
(* system calls can trip.                                                  *)
AssertionsHold ==
  fault \notin
    {"ipc: waiting links", "ipc: callee", "ipc_send: sender_queue",
     "ipc_send_kill_notify: sender_queue", "ipc_transfer: msg state",
     "ipc_receive: caller ipc state", "ipc_receive: caller links",
     "ipc_receive: caller's callee", "ipc_receive: receiver_queue",
     "ipc_receive: sender's callee", "ipc_reply: caller's callee",
     "ipc_reply: caller ipc state", "kill_task: callee's caller",
     "kill_task: ipc state", "push_waiting_queue: links",
     "woken: event", "woken: msg state"}

(* Nothing brings a killed task back: not a resume, a reply, a canceled    *)
(* endpoint or a queue it was left in.                                     *)
KilledForGood ==
  [][\A t \in Tasks : task[t].state = "killed" => task'[t].state = "killed"]_vars

(* No assertion fails, nothing panics and no lock is spun on forever.      *)
KernelSurvives == fault = NoFault

(* Every task can be found by whoever has to act on it: a ready task is in *)
(* the ready queue, a waiting one is queued at an endpoint or known to the *)
(* callee that owes it a reply, and a running one is current.  The only    *)
(* task that is ever lost is a killer whose kill notification rescheduled  *)
(* while it was running: ipc_send_kill_notify puts it in no queue.         *)
NoTaskLost ==
  \A t \in Tasks :
    /\ task[t].state = "ready" <=> t \in Members(readyQ)
    /\ task[t].state = "running" => cur = t \/ cont[t].at = "notified"
    /\ task[t].state = "waiting" =>
         \/ t \in Waiters
         \/ task[t].callee # None /\ task[task[t].callee].caller = t
    /\ Once(readyQ)

(* Every ready task gets the processor, although sends and receives switch *)
(* directly to their peer, past the ready queue.                           *)
ReadyRuns == \A t \in Tasks : task[t].state = "ready" ~> cur = t

-----------------------------------------------------------------------------
(* What an assertion of the code claims, and the code does not keep.  The  *)
(* other checks that AssertionsHold leaves out fail too.                   *)

(* ipc.cpp:74, 246 and 342: a task that comes back from a blocking         *)
(* operation was served or canceled.                                       *)
WokenIsServed == fault # "woken: ipc state"
=============================================================================
