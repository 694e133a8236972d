----------------------------- MODULE IpcProofs -----------------------------
(***************************************************************************)
(* Proofs about Ipc.tla: type correctness, the rendezvous invariant and    *)
(* the finality of a kill, for any number of tasks and endpoints and any   *)
(* set of system calls.                                                    *)
(***************************************************************************)
EXTENDS Ipc, WellFoundedInduction, TLAPS

TaskTable == [Tasks -> TaskRecord]
Machine == <<cur, task, readyQ, sendQ, recvQ, epLock, taskLock, cont>>

-----------------------------------------------------------------------------
(* Lemmas about the operators of the model.                                *)

(* Taking a task out of a queue leaves a queue of tasks.                   *)
LEMMA UnlinkType ==
  ASSUME NEW q \in Seq(Tasks), NEW t
  PROVE  Unlink(q, t) \in Seq(Tasks)
BY DEF Unlink

(* The head of a queue is a task and the rest of it a queue.               *)
LEMMA HeadType ==
  ASSUME NEW q \in Seq(Tasks), q # <<>>
  PROVE  Head(q) \in Tasks /\ Tail(q) \in Seq(Tasks)
OBVIOUS

(* What the operations make of a task record is a task record.             *)
LEMMA RecordTypes ==
  ASSUME NEW r \in TaskRecord
  PROVE  /\ \A s \in TaskState : InState(r, s) \in TaskRecord
         /\ \A m \in MsgState : WithMsg(r, m) \in TaskRecord
         /\ \A e \in Endpoints, m \in MsgState : AsSender(r, e, m) \in TaskRecord
         /\ \A e \in Endpoints : AsCaller(r, e) \in TaskRecord
         /\ \A e \in Endpoints : AsReceiver(r, e) \in TaskRecord
         /\ \A x \in IpcState : WakeReceiver(r, x) \in TaskRecord
         /\ \A x \in IpcState : WakeSender(r, x) \in TaskRecord
         /\ \A x \in IpcState : WakeCaller(r, x) \in TaskRecord
         /\ \A t \in Tasks \cup {None} : WithCallee(r, t) \in TaskRecord
         /\ \A t \in Tasks \cup {None} : WithCaller(r, t) \in TaskRecord
         /\ \A e \in Endpoints \cup {None} : [r EXCEPT !.notify = e] \in TaskRecord
<1> USE DEF TaskRecord, TaskState, MsgState, IpcState, EventType
<1>1. \A s \in TaskState : InState(r, s) \in TaskRecord
  BY DEF InState
<1>2. \A m \in MsgState : WithMsg(r, m) \in TaskRecord
  BY DEF WithMsg
<1>3. \A e \in Endpoints, m \in MsgState : AsSender(r, e, m) \in TaskRecord
  BY ZenonT(30) DEF AsSender
<1>4. \A e \in Endpoints : AsCaller(r, e) \in TaskRecord
  BY DEF AsCaller
<1>5. \A e \in Endpoints : AsReceiver(r, e) \in TaskRecord
  BY DEF AsReceiver
<1>6. \A x \in IpcState : WakeReceiver(r, x) \in TaskRecord
  BY DEF WakeReceiver
<1>7. \A x \in IpcState : WakeSender(r, x) \in TaskRecord
  BY DEF WakeReceiver, WakeSender
<1>8. \A x \in IpcState : WakeCaller(r, x) \in TaskRecord
  BY DEF WakeReceiver, WakeSender, WakeCaller
<1>9. \A t \in Tasks \cup {None} : WithCallee(r, t) \in TaskRecord
  BY DEF WithCallee
<1>10. \A t \in Tasks \cup {None} : WithCaller(r, t) \in TaskRecord
  BY DEF WithCaller
<1>11. \A e \in Endpoints \cup {None} : [r EXCEPT !.notify = e] \in TaskRecord
  OBVIOUS
<1> QED
  BY <1>1, <1>2, <1>3, <1>4, <1>5, <1>6, <1>7, <1>8, <1>9, <1>10, <1>11

(* Changing one or two records of the table.                               *)
LEMMA TableTypes ==
  ASSUME NEW tk \in TaskTable, NEW t, NEW u, NEW r \in TaskRecord, NEW s \in TaskRecord
  PROVE  /\ One(tk, t, r) \in TaskTable
         /\ Two(tk, t, r, u, s) \in TaskTable
BY DEF One, Two, TaskTable

(* A chain of checks passes only if each of them does.                     *)
LEMMA ChecksPass ==
  ASSUME NEW f, NEW g, (f ?? g) = NoFault
  PROVE  f = NoFault /\ g = NoFault
BY DEF ??, NoFault

(* The types in terms of the task table, and of single tasks.              *)
LEMMA Typing ==
  ASSUME TypeOK
  PROVE  /\ task \in TaskTable
         /\ \A t \in Tasks : /\ task[t] \in TaskRecord
                             /\ task[t].caller \in Tasks \cup {None}
                             /\ task[t].callee \in Tasks \cup {None}
                             /\ task[t].notify \in Endpoints \cup {None}
BY DEF TypeOK, TaskTable, TaskRecord

(* The places a task can be left at.                                       *)
LEMMA ContTypes ==
  /\ User \in Cont
  /\ At("sent", None) \in Cont /\ At("received", None) \in Cont
  /\ At("suspended", None) \in Cont
  /\ \A e \in Endpoints : /\ At("short_switched", e) \in Cont
                          /\ At("switched", e) \in Cont
                          /\ At("replied", e) \in Cont
  /\ \A v \in Tasks : At("notified", v) \in Cont
BY DEF User, At, Cont

-----------------------------------------------------------------------------
(* Each effect keeps the types.                                            *)

(* switch_task leaves well-typed tasks, ready queue and current task.      *)
LEMMA SwitchTaskType ==
  ASSUME NEW tk \in TaskTable, NEW mine \in TaskRecord, NEW q \in Seq(Tasks),
         NEW to \in Tasks, NEW theirs \in TaskRecord, cur \in Tasks,
         SwitchTask(tk, mine, q, to, theirs)
  PROVE  task' \in TaskTable /\ readyQ' \in Seq(Tasks) /\ cur' \in Tasks
<1>1. InState(mine, "ready") \in TaskRecord /\ InState(theirs, "running") \in TaskRecord
  BY RecordTypes DEF TaskState
<1> QED BY <1>1, TableTypes DEF SwitchTask

(* A system call that returns at once keeps the types.                     *)
LEMMA ReturnType ==
  ASSUME TypeOK, NEW tk \in TaskTable, NEW q \in Seq(Tasks), Return(tk, q)
  PROVE  TypeOK'
BY DEF TypeOK, Return, TaskTable

(* Delivering a message to a waiting receiver keeps the types.             *)
LEMMA HandOverType ==
  ASSUME TypeOK, cur \in Tasks, NEW e \in Endpoints, recvQ[e] # <<>>,
         NEW msg \in MsgState, NEW ep \in [Endpoints -> Tasks \cup {None}],
         NEW place \in Cont, HandOver(e, msg, ep, place)
  PROVE  TypeOK'
<1> DEFINE r == Head(recvQ[e])
<1>1. r \in Tasks /\ Tail(recvQ[e]) \in Seq(Tasks)
  BY HeadType DEF TypeOK
<1>2. WithMsg(task[cur], msg) \in TaskRecord
  BY RecordTypes, Typing
<1>3. WakeReceiver(task[r], "none") \in TaskRecord
  BY <1>1, RecordTypes, Typing DEF IpcState
<1>4. task' \in TaskTable /\ readyQ' \in Seq(Tasks) /\ cur' \in Tasks
  BY <1>1, <1>2, <1>3, SwitchTaskType, Typing DEF HandOver, TypeOK
<1>5. recvQ' \in [Endpoints -> Seq(Tasks)]
  BY <1>1 DEF HandOver, TypeOK
<1>6. cont' \in [Tasks -> Cont]
  BY DEF HandOver, Leave, TypeOK
<1>7. epLock' = ep /\ UNCHANGED <<sendQ, taskLock>>
  BY DEF HandOver
<1> QED BY <1>4, <1>5, <1>6, <1>7 DEF TypeOK, TaskTable

(* Leaving a system call at one of its places keeps cont typed.            *)
LEMMA LeaveType ==
  ASSUME TypeOK, NEW place \in Cont, Leave(place)
  PROVE  cont' \in [Tasks -> Cont]
BY DEF Leave, TypeOK

(* A sender or caller that joins the sender queue keeps the types.         *)
LEMMA BlockSenderType ==
  ASSUME TypeOK, cur \in Tasks, NEW e \in Endpoints, NEW r \in TaskRecord,
         BlockSender(e, r)
  PROVE  TypeOK'
<1>1. task' \in TaskTable
  BY TableTypes, Typing DEF BlockSender
<1>2. sendQ' \in [Endpoints -> Seq(Tasks)]
  BY DEF BlockSender, PushWaiting, TypeOK
<1>3. cont' \in [Tasks -> Cont]
  BY ContTypes, LeaveType DEF BlockSender
<1>4. cur' = Idle /\ UNCHANGED <<readyQ, recvQ, epLock, taskLock>>
  BY DEF BlockSender, Resched
<1> QED BY <1>1, <1>2, <1>3, <1>4 DEF TypeOK, TaskTable

(* The records and the ready queue of a receive.                           *)
LEMMA AtReceiveTypes ==
  ASSUME TypeOK, cur \in Tasks
  PROVE  /\ Receiver \in TaskRecord
         /\ TasksAtReceive \in TaskTable
         /\ ReadyAtReceive \in Seq(Tasks)
<1>1. Receiver \in TaskRecord
  <2>1. WithMsg(task[cur], "long") \in TaskRecord
    BY RecordTypes, Typing DEF MsgState
  <2> QED BY <2>1, RecordTypes DEF Receiver
<1>2. TasksAtReceive \in TaskTable
  <2>1. CASE task[cur].caller = None
    BY <2>1, Typing DEF TasksAtReceive
  <2>2. CASE task[cur].caller # None
    <3>1. task[cur].caller \in Tasks
      BY <2>2, Typing
    <3>2. WakeCaller(task[task[cur].caller], "canceled") \in TaskRecord
      BY <3>1, RecordTypes, Typing DEF IpcState
    <3> QED BY <2>2, <3>2, TableTypes, Typing DEF TasksAtReceive
  <2> QED BY <2>1, <2>2
<1>3. ReadyAtReceive \in Seq(Tasks)
  BY Typing DEF ReadyAtReceive, TypeOK
<1> QED BY <1>1, <1>2, <1>3

(* Taking a sender off its queue and returning keeps the types.            *)
LEMMA TakeType ==
  ASSUME TypeOK, cur \in Tasks, NEW e \in Endpoints, sendQ[e] # <<>>,
         NEW tk \in TaskTable, Take(e, tk)
  PROVE  TypeOK'
<1>1. Tail(sendQ[e]) \in Seq(Tasks)
  BY HeadType DEF TypeOK
<1>2. sendQ' \in [Endpoints -> Seq(Tasks)]
  BY <1>1 DEF Take, TypeOK
<1>3. cont' \in [Tasks -> Cont]
  BY ContTypes, LeaveType DEF Take
<1>4. readyQ' \in Seq(Tasks)
  BY AtReceiveTypes DEF Take
<1>5. task' = tk /\ UNCHANGED <<cur, recvQ, epLock, taskLock>>
  BY DEF Take
<1> QED BY <1>2, <1>3, <1>4, <1>5 DEF TypeOK, TaskTable

(* Taking a sender off its queue to switch to it keeps the types.          *)
LEMMA TakeAndSwitchType ==
  ASSUME TypeOK, cur \in Tasks, NEW e \in Endpoints, sendQ[e] # <<>>, TakeAndSwitch(e)
  PROVE  TypeOK'
<1> DEFINE s == Head(sendQ[e])
<1>1. s \in Tasks /\ Tail(sendQ[e]) \in Seq(Tasks)
  BY HeadType DEF TypeOK
<1>2. WakeSender(task[s], "none") \in TaskRecord
  BY <1>1, RecordTypes, Typing DEF IpcState
<1>3. task' \in TaskTable /\ readyQ' \in Seq(Tasks) /\ cur' \in Tasks
  BY <1>1, <1>2, AtReceiveTypes, SwitchTaskType DEF TakeAndSwitch
<1>4. sendQ' \in [Endpoints -> Seq(Tasks)]
  BY <1>1 DEF TakeAndSwitch, TypeOK
<1>5. cont' \in [Tasks -> Cont]
  BY ContTypes, LeaveType DEF TakeAndSwitch
<1>6. UNCHANGED <<recvQ, epLock, taskLock>>
  BY DEF TakeAndSwitch
<1> QED BY <1>3, <1>4, <1>5, <1>6 DEF TypeOK, TaskTable

(* A receiver that joins the receiver queue keeps the types.               *)
LEMMA WaitForSenderType ==
  ASSUME TypeOK, cur \in Tasks, NEW e \in Endpoints, WaitForSender(e)
  PROVE  TypeOK'
<1>1. AsReceiver(Receiver, e) \in TaskRecord
  BY AtReceiveTypes, RecordTypes
<1>2. task' \in TaskTable /\ readyQ' \in Seq(Tasks)
  BY <1>1, AtReceiveTypes, TableTypes DEF WaitForSender
<1>3. recvQ' \in [Endpoints -> Seq(Tasks)]
  BY DEF WaitForSender, PushWaiting, TypeOK
<1>4. cont' \in [Tasks -> Cont]
  BY ContTypes, LeaveType DEF WaitForSender
<1>5. cur' = Idle /\ UNCHANGED <<sendQ, epLock, taskLock>>
  BY DEF WaitForSender, Resched
<1> QED BY <1>2, <1>3, <1>4, <1>5 DEF TypeOK, TaskTable

(* A delivered reply keeps the types.                                      *)
LEMMA RepliedType ==
  ASSUME TypeOK, NEW tk \in TaskTable, NEW q \in Seq(Tasks), NEW next \in Cont,
         Replied(tk, q, next)
  PROVE  TypeOK'
<1>1. cont' \in [Tasks -> Cont]
  BY LeaveType DEF Replied
<1> QED BY <1>1 DEF Replied, TypeOK, TaskTable

(* A call to a waiting receiver keeps the types.                           *)
LEMMA CallReceiverType ==
  ASSUME TypeOK, cur \in Tasks, NEW e \in Endpoints, recvQ[e] # <<>>, CallReceiver(e)
  PROVE  TypeOK'
<1> DEFINE r == Head(recvQ[e])
           mine == WithCallee(AsCaller(task[cur], e), r)
           theirs == WithCaller(WakeReceiver(task[r], "none"), cur)
<1>1. r \in Tasks /\ Tail(recvQ[e]) \in Seq(Tasks)
  BY HeadType DEF TypeOK
<1>2. AsCaller(task[cur], e) \in TaskRecord /\ WakeReceiver(task[r], "none") \in TaskRecord
  BY <1>1, RecordTypes, Typing DEF IpcState
<1>3. mine \in TaskRecord /\ theirs \in TaskRecord
  BY <1>1, <1>2, RecordTypes
<1>4. Two(task, cur, mine, r, theirs) \in TaskTable
  BY <1>3, TableTypes, Typing
<1>5. recvQ' \in [Endpoints -> Seq(Tasks)]
  BY <1>1 DEF CallReceiver, TypeOK
<1>6. cont' \in [Tasks -> Cont]
  BY ContTypes, LeaveType DEF CallReceiver
<1>7. readyQ' \in Seq(Tasks)
  BY <1>1 DEF CallReceiver, TypeOK
<1>8. task' = Two(task, cur, mine, r, theirs) /\ cur' = Idle
      /\ UNCHANGED <<sendQ, epLock, taskLock>>
  BY DEF CallReceiver, Resched
<1> QED BY <1>4, <1>5, <1>6, <1>7, <1>8 DEF TypeOK, TaskTable

(* The cancellation of an endpoint keeps the types.                        *)
LEMMA CanceledType ==
  ASSUME TypeOK, NEW e \in Endpoints, Canceled(e)
  PROVE  TypeOK'
<1>1. \A t \in Tasks : /\ WakeReceiver(task[t], "canceled") \in TaskRecord
                       /\ WakeSender(task[t], "canceled") \in TaskRecord
                       /\ task[t] \in TaskRecord
  BY RecordTypes, Typing DEF IpcState
<1>2. task' \in [Tasks -> TaskRecord]
  BY <1>1 DEF Canceled
<1>3. readyQ' \in Seq(Tasks)
  BY DEF Canceled, TypeOK
<1>4. recvQ' \in [Endpoints -> Seq(Tasks)] /\ sendQ' \in [Endpoints -> Seq(Tasks)]
  BY DEF Canceled, TypeOK
<1> QED BY <1>2, <1>3, <1>4 DEF Canceled, TypeOK

(* Giving up the processor for a queue of tasks keeps the types.           *)
LEMMA GiveUpType ==
  ASSUME TypeOK, cur \in Tasks, GiveUp(Append(readyQ, cur))
  PROVE  TypeOK'
<1>1. InState(task[cur], "ready") \in TaskRecord
  BY RecordTypes, Typing DEF TaskState
<1>2. task' \in TaskTable
  BY <1>1, TableTypes, Typing DEF GiveUp
<1> QED BY <1>2 DEF GiveUp, Resched, TypeOK, TaskTable

(* The switch system call keeps the types.                                 *)
LEMMA SwitchToType ==
  ASSUME TypeOK, cur \in Tasks, NEW v \in Tasks, SwitchTo(v)
  PROVE  TypeOK'
<1>1. task' \in TaskTable /\ readyQ' \in Seq(Tasks) /\ cur' \in Tasks
  BY UnlinkType, SwitchTaskType, Typing DEF SwitchTo, TypeOK
<1> QED BY <1>1 DEF SwitchTo, TypeOK, TaskTable

(* A task that suspends itself keeps the types.                            *)
LEMMA SuspendSelfType ==
  ASSUME TypeOK, cur \in Tasks, SuspendSelf
  PROVE  TypeOK'
<1>1. InState(task[cur], "suspended") \in TaskRecord
  BY RecordTypes, Typing DEF TaskState
<1>2. task' \in TaskTable
  BY <1>1, TableTypes, Typing DEF SuspendSelf
<1>3. cont' \in [Tasks -> Cont]
  BY ContTypes, LeaveType DEF SuspendSelf
<1> QED BY <1>2, <1>3 DEF SuspendSelf, Resched, TypeOK, TaskTable

(* The queues and the records without a killed task.                       *)
LEMMA WithoutTypes ==
  ASSUME TypeOK, NEW v \in Tasks
  PROVE  /\ TasksWithout(v) \in TaskTable
         /\ ReadyWithout(v) \in Seq(Tasks)
         /\ SendersWithout(v) \in [Endpoints -> Seq(Tasks)]
         /\ ReceiversWithout(v) \in [Endpoints -> Seq(Tasks)]
<1>1. ReadyWithout(v) \in Seq(Tasks)
  BY UnlinkType DEF ReadyWithout, TypeOK
<1>2. \A e \in Endpoints : /\ Unlink(sendQ[e], v) \in Seq(Tasks)
                           /\ Unlink(recvQ[e], v) \in Seq(Tasks)
  BY UnlinkType DEF TypeOK
<1>3. SendersWithout(v) \in [Endpoints -> Seq(Tasks)]
  BY <1>2 DEF SendersWithout, TypeOK
<1>4. ReceiversWithout(v) \in [Endpoints -> Seq(Tasks)]
  BY <1>2 DEF ReceiversWithout, TypeOK
<1>5. InState(task[v], "killed") \in TaskRecord
  BY RecordTypes, Typing DEF TaskState
<1>6. TasksWithout(v) \in TaskTable
  <2>1. CASE task[v].callee \in Tasks
    <3>1. WithCaller(task[task[v].callee], None) \in TaskRecord
      BY <2>1, RecordTypes, Typing
    <3> QED BY <1>5, <3>1, TableTypes, Typing DEF TasksWithout
  <2>2. CASE task[v].callee \notin Tasks
    <3>1. One(task, v, InState(task[v], "killed")) \in TaskTable
      BY <1>5, TableTypes, Typing
    <3>2. Two(task, v, InState(task[v], "killed"), task[v].callee,
              WithCaller(task[task[v].callee], None))
            = One(task, v, InState(task[v], "killed"))
      BY <2>2 DEF One, Two, TypeOK
    <3> QED BY <3>1, <3>2 DEF TasksWithout
  <2> QED BY <2>1, <2>2
<1> QED BY <1>1, <1>3, <1>4, <1>6

(* A kill without a notification keeps the types.                          *)
LEMMA KilledType ==
  ASSUME TypeOK, cur \in Tasks, NEW v \in Tasks, NEW o, Killed(v, o)
  PROVE  TypeOK'
<1>1. taskLock' \in [Tasks -> Tasks \cup {None}] /\ cur' \in Tasks \cup {Idle}
  BY DEF Killed, LocksOfKill, Resched, TypeOK
<1> QED BY <1>1, WithoutTypes DEF Killed, TypeOK, TaskTable

(* A kill with a notification keeps the types.                             *)
LEMMA NotifiedType ==
  ASSUME TypeOK, cur \in Tasks, NEW v \in Tasks, NEW o,
         task[v].notify # None, ReceiversWithout(v)[task[v].notify] # <<>>, Notified(v, o)
  PROVE  TypeOK'
<1> DEFINE n == task[v].notify
           r == Head(ReceiversWithout(v)[n])
           tk == TasksWithout(v)
<1>1. n \in Endpoints
  BY Typing
<1>2. r \in Tasks /\ Tail(ReceiversWithout(v)[n]) \in Seq(Tasks)
  BY <1>1, HeadType, WithoutTypes
<1>3. WakeReceiver(tk[r], "none") \in TaskRecord
  BY <1>2, RecordTypes, WithoutTypes DEF IpcState, TaskTable
<1>4. task' \in TaskTable
  BY <1>3, TableTypes, WithoutTypes DEF Notified
<1>5. recvQ' \in [Endpoints -> Seq(Tasks)]
  BY <1>1, <1>2, WithoutTypes DEF Notified
<1>6. readyQ' \in Seq(Tasks) /\ sendQ' \in [Endpoints -> Seq(Tasks)]
  BY <1>2, WithoutTypes DEF Notified
<1>7. cont' \in [Tasks -> Cont]
  BY ContTypes, LeaveType DEF Notified
<1>8. cur' = Idle /\ taskLock' \in [Tasks -> Tasks \cup {None}] /\ UNCHANGED epLock
  BY DEF Notified, LocksOfKill, Resched, TypeOK
<1> QED BY <1>4, <1>5, <1>6, <1>7, <1>8 DEF TypeOK, TaskTable

(* The end of a system call keeps the types.                               *)
LEMMA BackToUserType ==
  ASSUME TypeOK, NEW ep \in [Endpoints -> Tasks \cup {None}],
         NEW tl \in [Tasks -> Tasks \cup {None}], BackToUser(ep, tl)
  PROVE  TypeOK'
<1>1. cont' \in [Tasks -> Cont]
  BY ContTypes, LeaveType DEF BackToUser
<1> QED BY <1>1 DEF BackToUser, TypeOK

(* Dispatching the head of the ready queue keeps the types.                *)
LEMMA RunType ==
  ASSUME TypeOK, readyQ # <<>>, Run(Head(readyQ))
  PROVE  TypeOK'
<1>1. Head(readyQ) \in Tasks /\ Tail(readyQ) \in Seq(Tasks)
  BY HeadType DEF TypeOK
<1>2. InState(task[Head(readyQ)], "running") \in TaskRecord
  BY <1>1, RecordTypes, Typing DEF TaskState
<1>3. task' \in TaskTable
  BY <1>2, TableTypes, Typing DEF Run
<1> QED BY <1>1, <1>3 DEF Run, TypeOK, TaskTable

-----------------------------------------------------------------------------
(* Each action keeps the types.                                            *)

(* A step that faults changes nothing but fault, which has no type.        *)
LEMMA FaultType ==
  ASSUME TypeOK, UNCHANGED Machine
  PROVE  TypeOK'
BY DEF Machine, TypeOK

(* Type correctness of the four sends.                                     *)
LEMMA SendTypes ==
  ASSUME TypeOK, NEW e \in Endpoints,
         SendShort(e) \/ NbSendShort(e) \/ SendLong(e) \/ NbSendLong(e)
  PROVE  TypeOK'
<1>1. cur \in Tasks
  BY DEF SendShort, NbSendShort, SendLong, NbSendLong, Calls, InUserMode
<1>2. ASSUME SendShortDeliver(e) PROVE TypeOK'
  <2>1. [epLock EXCEPT ![e] = cur] \in [Endpoints -> Tasks \cup {None}]
    BY <1>1 DEF TypeOK
  <2>2. CASE recvQ[e] # <<>> /\ HandOver(e, "short", [epLock EXCEPT ![e] = cur],
                                         At("short_switched", e))
    BY <1>1, <2>1, <2>2, HandOverType, ContTypes DEF MsgState
  <2> QED BY <1>2, <2>2, FaultType DEF SendShortDeliver, Try, Machine
<1>3. \A m \in MsgState : /\ One(task, cur, WithMsg(task[cur], m)) \in TaskTable
                          /\ AsSender(task[cur], e, m) \in TaskRecord
  BY <1>1, RecordTypes, TableTypes, Typing
<1>4. ASSUME SendLongDeliver(e) PROVE TypeOK'
  <2>1. CASE recvQ[e] # <<>> /\ HandOver(e, "long", epLock, At("switched", e))
    BY <1>1, <2>1, HandOverType, ContTypes DEF MsgState, TypeOK
  <2>2. CASE Return(One(task, cur, WithMsg(task[cur], "long")), readyQ)
    BY <1>3, <2>2, ReturnType DEF MsgState, TypeOK
  <2> QED BY <1>4, <2>1, <2>2, FaultType DEF SendLongDeliver, Try, Machine
<1>5. ASSUME NEW m \in MsgState, Return(One(task, cur, WithMsg(task[cur], m)), readyQ)
      PROVE  TypeOK'
  BY <1>3, <1>5, ReturnType DEF TypeOK
<1>6. ASSUME NEW m \in MsgState, BlockSender(e, AsSender(task[cur], e, m))
      PROVE  TypeOK'
  BY <1>1, <1>3, <1>6, BlockSenderType
<1> QED
  BY <1>2, <1>4, <1>5, <1>6, FaultType
  DEF SendShort, NbSendShort, SendLong, NbSendLong, Try, Machine, MsgState

(* Type correctness of a receive that finds a sender.                      *)
LEMMA ReceiveFromType ==
  ASSUME TypeOK, cur \in Tasks, NEW e \in Endpoints, ReceiveFrom(e)
  PROVE  TypeOK'
<1> DEFINE s == Head(sendQ[e])
           served == Two(TasksAtReceive, cur, WithCaller(Receiver, s),
                         s, WithCallee(task[s], cur))
<1>1. sendQ[e] # <<>> /\ s \in Tasks
  BY HeadType DEF ReceiveFrom, TypeOK
<1>2. One(TasksAtReceive, cur, Receiver) \in TaskTable
  BY AtReceiveTypes, TableTypes
<1>3. WithCaller(Receiver, s) \in TaskRecord /\ WithCallee(task[s], cur) \in TaskRecord
  BY <1>1, AtReceiveTypes, RecordTypes, Typing
<1>4. served \in TaskTable
  BY <1>3, AtReceiveTypes, TableTypes
<1>5. CASE Take(e, One(TasksAtReceive, cur, Receiver))
  BY <1>1, <1>2, <1>5, TakeType
<1>6. CASE Take(e, served)
  BY <1>1, <1>4, <1>6, TakeType
<1>7. CASE TakeAndSwitch(e)
  BY <1>1, <1>7, TakeAndSwitchType
<1> QED BY <1>5, <1>6, <1>7, FaultType DEF ReceiveFrom, Try, Machine

(* Type correctness of the receives.                                       *)
LEMMA ReceiveTypes ==
  ASSUME TypeOK, NEW e \in Endpoints, Receive(e) \/ NbReceive(e) \/ ThenReceive(e)
  PROVE  TypeOK'
<1>1. cur \in Tasks
  BY DEF Receive, NbReceive, ThenReceive, Calls, InUserMode
<1>2. One(TasksAtReceive, cur, Receiver) \in TaskTable
  BY <1>1, AtReceiveTypes, TableTypes
<1>3. CASE ReceiveFrom(e)
  BY <1>1, <1>3, ReceiveFromType
<1>4. CASE WaitForSender(e)
  BY <1>1, <1>4, WaitForSenderType
<1>5. CASE Return(One(TasksAtReceive, cur, Receiver), ReadyAtReceive)
  BY <1>1, <1>2, <1>5, AtReceiveTypes, ReturnType
<1> QED
  BY <1>3, <1>4, <1>5, FaultType
  DEF Receive, NbReceive, ThenReceive, BlockReceiver, Try, Machine

(* Type correctness of the replies.                                        *)
LEMMA ReplyTypes ==
  ASSUME TypeOK, NEW e \in Endpoints, Reply(e) \/ ReplyAndReceive(e)
  PROVE  TypeOK'
<1>1. cur \in Tasks
  BY DEF Reply, ReplyAndReceive, Calls, InUserMode
<1> DEFINE c == task[cur].caller
           mine == WithCaller(WithMsg(task[cur], "empty"), None)
           theirs == WakeCaller(task[c], "none")
<1>2. ASSUME NEW next \in Cont, DoReply(e, next) PROVE TypeOK'
  <2>1. CASE Replied(task, readyQ, next)
    BY <2>1, RepliedType, Typing DEF TypeOK
  <2>2. CASE Return(One(task, cur, WithMsg(task[cur], "long")), readyQ)
    <3>1. WithMsg(task[cur], "long") \in TaskRecord
      BY <1>1, RecordTypes, Typing DEF MsgState
    <3> QED BY <2>2, <3>1, ReturnType, TableTypes, Typing DEF TypeOK
  <2>3. CASE /\ c # None
             /\ Replied(Two(task, cur, mine, c, theirs), Append(readyQ, c), next)
    <3>1. c \in Tasks
      BY <1>1, <2>3, Typing
    <3>2. WithMsg(task[cur], "empty") \in TaskRecord
      BY <1>1, RecordTypes, Typing DEF MsgState
    <3>3. mine \in TaskRecord
      BY <3>2, RecordTypes
    <3>4. theirs \in TaskRecord
      BY <3>1, RecordTypes, Typing DEF IpcState
    <3>5. Append(readyQ, c) \in Seq(Tasks)
      BY <3>1 DEF TypeOK
    <3>6. Two(task, cur, mine, c, theirs) \in TaskTable
      BY <3>3, <3>4, TableTypes, Typing
    <3> QED BY <2>3, <3>5, <3>6, RepliedType
  <2> QED BY <1>2, <2>1, <2>2, <2>3, FaultType DEF DoReply, Try, Machine
<1> QED BY <1>2, ContTypes DEF Reply, ReplyAndReceive

(* Type correctness of ipc_call and ipc_cancel.                            *)
LEMMA CallTypes ==
  ASSUME TypeOK, NEW e \in Endpoints, Call(e) \/ Cancel(e)
  PROVE  TypeOK'
<1>1. cur \in Tasks
  BY DEF Call, Cancel, Calls, InUserMode
<1>2. AsCaller(task[cur], e) \in TaskRecord
  BY <1>1, RecordTypes, Typing
<1>3. One(task, cur, AsCaller(task[cur], e)) \in TaskTable
  BY <1>2, TableTypes, Typing
<1>4. CASE Return(One(task, cur, AsCaller(task[cur], e)), readyQ)
  BY <1>3, <1>4, ReturnType DEF TypeOK
<1>5. CASE recvQ[e] # <<>> /\ CallReceiver(e)
  BY <1>1, <1>5, CallReceiverType
<1>6. CASE BlockSender(e, AsCaller(task[cur], e))
  BY <1>1, <1>2, <1>6, BlockSenderType
<1>7. CASE Canceled(e)
  BY <1>7, CanceledType
<1> QED BY <1>4, <1>5, <1>6, <1>7, FaultType DEF Call, Cancel, Try, Machine

(* Type correctness of the system calls on tasks, less the kills.          *)
LEMMA TaskSyscallTypes ==
  ASSUME TypeOK, NEW v \in Tasks,
         \/ CreateTask(v) \/ Switch(v) \/ Suspend(v) \/ Resume(v) \/ Yield
         \/ \E e \in Endpoints : SetKillNotify(v, e)
  PROVE  TypeOK'
<1>1. cur \in Tasks
  BY DEF CreateTask, Switch, Suspend, Resume, Yield, SetKillNotify, CallsOn, Calls, InUserMode
<1>2. /\ \A s \in TaskState : One(task, v, InState(task[v], s)) \in TaskTable
      /\ \A e \in Endpoints : One(task, v, [task[v] EXCEPT !.notify = e]) \in TaskTable
  BY RecordTypes, TableTypes, Typing
<1>3. One(task, v, FreshTask("suspended")) \in TaskTable
  <2>1. FreshTask("suspended") \in TaskRecord
    BY DEF FreshTask, TaskRecord, TaskState, IpcState, EventType, MsgState
  <2> QED BY <2>1, TableTypes, Typing
<1>4. /\ readyQ \in Seq(Tasks) /\ Append(readyQ, v) \in Seq(Tasks)
      /\ Unlink(readyQ, v) \in Seq(Tasks)
  BY UnlinkType DEF TypeOK
<1>5. CASE CreateTask(v)
  BY <1>3, <1>4, <1>5, FaultType, ReturnType DEF CreateTask, Try, Machine
<1>6. CASE Switch(v)
  BY <1>1, <1>4, <1>6, FaultType, ReturnType, SwitchToType, Typing
  DEF Switch, Try, Machine
<1>7. CASE Suspend(v)
  <2>1. One(task, v, InState(task[v], "suspended")) \in TaskTable
    BY <1>2 DEF TaskState
  <2> QED
    BY <1>1, <1>4, <1>7, <2>1, FaultType, ReturnType, SuspendSelfType, Typing
    DEF Suspend, Try, Machine
<1>8. CASE Resume(v)
  <2>1. One(task, v, InState(task[v], "ready")) \in TaskTable
    BY <1>2 DEF TaskState
  <2> QED
    BY <1>4, <1>8, <2>1, FaultType, ReturnType, Typing DEF Resume, MadeReady, Try, Machine
<1>9. CASE Yield
  BY <1>1, <1>9, FaultType, GiveUpType DEF Yield, Try, Machine
<1>10. CASE \E e \in Endpoints : SetKillNotify(v, e)
  BY <1>2, <1>4, <1>10, FaultType, ReturnType DEF SetKillNotify, Try, Machine
<1> QED BY <1>5, <1>6, <1>7, <1>8, <1>9, <1>10

(* Type correctness of the kills.                                          *)
LEMMA KillTypes ==
  ASSUME TypeOK, NEW v \in Tasks, NEW o \in Tasks \cup {None},
         Kill(v, o) \/ KillAndNotify(v, o)
  PROVE  TypeOK'
<1>1. cur \in Tasks
  BY DEF Kill, KillAndNotify, KillsUnder, CallsOn, Calls, InUserMode
<1>2. CASE Kill(v, o)
  BY <1>1, <1>2, FaultType, KilledType DEF Kill, Try, Machine
<1>3. CASE KillAndNotify(v, o)
  <2>1. CASE UNCHANGED Machine
    BY <2>1, FaultType
  <2>2. CASE ~UNCHANGED Machine
    <3>1. /\ task[v].notify # None
          /\ Notified(v, o)
          /\ (AcquireOwner(o) ?? Acquire(taskLock[v]) ?? Detach(v) ?? Notify(v)) = NoFault
      BY <1>3, <2>2 DEF KillAndNotify, Try, Machine
    <3>2. Notify(v) = NoFault
      BY <3>1, ChecksPass
    <3>3. ReceiversWithout(v)[task[v].notify] # <<>>
      BY <3>2 DEF Notify, ??, Check, NoFault
    <3> QED BY <1>1, <3>1, <3>3, NotifiedType
  <2> QED BY <2>1, <2>2
<1> QED BY <1>2, <1>3

(* Type correctness of the kernel's own steps.                             *)
LEMMA KernelTypes ==
  ASSUME TypeOK, Continue \/ Dispatch \/ LookupSpins \/ IdleSpin \/ Halted
  PROVE  TypeOK'
<1>1. CASE Continue
  <2> DEFINE x == cont[cur].on
  <2>1. /\ [epLock EXCEPT ![x] = None] \in [Endpoints -> Tasks \cup {None}]
        /\ ReleasedByKiller \in [Tasks -> Tasks \cup {None}]
        /\ [taskLock EXCEPT ![cur] = None] \in [Tasks -> Tasks \cup {None}]
        /\ epLock \in [Endpoints -> Tasks \cup {None}]
        /\ taskLock \in [Tasks -> Tasks \cup {None}]
    BY DEF TypeOK, ReleasedByKiller
  <2> QED BY <1>1, <2>1, FaultType, BackToUserType DEF Continue, Try, Machine
<1>2. CASE Dispatch
  BY <1>2, FaultType, RunType DEF Dispatch, Try, Machine
<1>3. CASE IdleSpin \/ Halted
  BY <1>3 DEF IdleSpin, Halted, vars, TypeOK
<1>4. CASE LookupSpins
  BY <1>4, FaultType DEF LookupSpins, Try, Machine
<1> QED BY <1>1, <1>2, <1>3, <1>4

-----------------------------------------------------------------------------

(* Type correctness: whatever system calls the tasks make, every field of  *)
(* a task_t, every queue and every lock holds a value of its type and the  *)
(* hart always has a current task.                                         *)
THEOREM TypeCorrect == Spec => []TypeOK
<1>1. Init => TypeOK
  BY ConstantsAssumption
  DEF Init, TypeOK, FreshTask, TaskRecord, TaskState, IpcState, EventType, MsgState,
      User, At, Cont
<1>2. TypeOK /\ [Next]_vars => TypeOK'
  <2> SUFFICES ASSUME TypeOK, [Next]_vars PROVE TypeOK'
    OBVIOUS
  <2>1. CASE UNCHANGED vars
    BY <2>1 DEF vars, TypeOK
  <2>2. CASE Next
    BY <2>2, ConstantsAssumption, SendTypes, ReceiveTypes, ReplyTypes, CallTypes,
       TaskSyscallTypes, KillTypes, KernelTypes DEF Next
  <2> QED BY <2>1, <2>2
<1> QED BY <1>1, <1>2, PTL DEF Spec

-----------------------------------------------------------------------------
(* The rendezvous invariant: each effect that touches a waiting queue.     *)

(* Nothing can be taken out of an empty queue.                             *)
LEMMA UnlinkEmpty == ASSUME NEW t PROVE Unlink(<<>>, t) = <<>>
BY DEF Unlink

(* A queue is only joined when the opposite one is empty, and only left    *)
(* otherwise.                                                              *)
LEMMA JoinOrLeave ==
  ASSUME TypeOK, Rendezvous, NEW e \in Endpoints,
         \/ recvQ[e] # <<>> /\ recvQ' = [recvQ EXCEPT ![e] = Tail(@)] /\ UNCHANGED sendQ
         \/ sendQ[e] # <<>> /\ sendQ' = [sendQ EXCEPT ![e] = Tail(@)] /\ UNCHANGED recvQ
         \/ /\ recvQ[e] = <<>> /\ UNCHANGED recvQ
            /\ sendQ' = [sendQ EXCEPT ![e] = PushWaiting(@, cur)]
         \/ /\ sendQ[e] = <<>> /\ UNCHANGED sendQ
            /\ recvQ' = [recvQ EXCEPT ![e] = PushWaiting(@, cur)]
  PROVE  Rendezvous'
BY DEF Rendezvous, TypeOK

(* Removing a killed task from its queue never fills one.                  *)
LEMMA RendezvousWithout ==
  ASSUME TypeOK, Rendezvous, NEW v \in Tasks, NEW e \in Endpoints
  PROVE  SendersWithout(v)[e] = <<>> \/ ReceiversWithout(v)[e] = <<>>
BY UnlinkEmpty DEF Rendezvous, SendersWithout, ReceiversWithout

(* A step that leaves the waiting queues alone.                            *)
LEMMA RendezvousStutter ==
  ASSUME Rendezvous, UNCHANGED <<sendQ, recvQ>>
  PROVE  Rendezvous'
BY DEF Rendezvous

(* The sends and the calls.                                                *)
LEMMA RendezvousSends ==
  ASSUME TypeOK, Rendezvous, NEW e \in Endpoints,
         SendShort(e) \/ NbSendShort(e) \/ SendLong(e) \/ NbSendLong(e) \/ Call(e)
  PROVE  Rendezvous'
<1>1. ASSUME NEW msg, NEW ep, NEW place, recvQ[e] # <<>>, HandOver(e, msg, ep, place)
      PROVE  Rendezvous'
  BY <1>1, JoinOrLeave DEF HandOver
<1>2. ASSUME NEW r, recvQ[e] = <<>>, BlockSender(e, r) PROVE Rendezvous'
  BY <1>2, JoinOrLeave DEF BlockSender
<1>3. ASSUME NEW tk, NEW q, Return(tk, q) PROVE Rendezvous'
  BY <1>3, RendezvousStutter DEF Return
<1>4. ASSUME recvQ[e] # <<>>, CallReceiver(e) PROVE Rendezvous'
  BY <1>4, JoinOrLeave DEF CallReceiver
<1> QED
  BY <1>1, <1>2, <1>3, <1>4, RendezvousStutter
  DEF SendShort, NbSendShort, SendLong, NbSendLong, SendShortDeliver, SendLongDeliver,
      Call, Try

(* The receives.                                                           *)
LEMMA RendezvousReceives ==
  ASSUME TypeOK, Rendezvous, NEW e \in Endpoints,
         Receive(e) \/ NbReceive(e) \/ ThenReceive(e)
  PROVE  Rendezvous'
<1>1. ASSUME NEW tk, sendQ[e] # <<>>, Take(e, tk) PROVE Rendezvous'
  BY <1>1, JoinOrLeave DEF Take
<1>2. ASSUME sendQ[e] # <<>>, TakeAndSwitch(e) PROVE Rendezvous'
  BY <1>2, JoinOrLeave DEF TakeAndSwitch
<1>3. ASSUME sendQ[e] = <<>>, WaitForSender(e) PROVE Rendezvous'
  BY <1>3, JoinOrLeave DEF WaitForSender
<1>4. ASSUME NEW tk, NEW q, Return(tk, q) PROVE Rendezvous'
  BY <1>4, RendezvousStutter DEF Return
<1> QED
  BY <1>1, <1>2, <1>3, <1>4, RendezvousStutter
  DEF Receive, NbReceive, ThenReceive, ReceiveFrom, BlockReceiver, Try

(* Replies, the destruction of an endpoint and kills.                      *)
LEMMA RendezvousRemovals ==
  ASSUME TypeOK, Rendezvous,
         \/ \E e \in Endpoints : Reply(e) \/ ReplyAndReceive(e) \/ Cancel(e)
         \/ \E v \in Tasks, o \in Tasks \cup {None} : Kill(v, o) \/ KillAndNotify(v, o)
  PROVE  Rendezvous'
<1>1. ASSUME NEW tk, NEW q, NEW next, Replied(tk, q, next) \/ Return(tk, q)
      PROVE  Rendezvous'
  BY <1>1, RendezvousStutter DEF Replied, Return
<1>2. ASSUME NEW e \in Endpoints, Canceled(e) PROVE Rendezvous'
  BY <1>2 DEF Canceled, Rendezvous, TypeOK
<1>3. ASSUME NEW v \in Tasks, NEW o, Killed(v, o) PROVE Rendezvous'
  BY <1>3, RendezvousWithout DEF Killed, Rendezvous
<1>4. ASSUME NEW v \in Tasks, NEW o, KillAndNotify(v, o) PROVE Rendezvous'
  <2>1. CASE UNCHANGED Machine
    BY <2>1, RendezvousStutter DEF Machine
  <2>2. CASE ~UNCHANGED Machine
    <3>1. /\ Notified(v, o)
          /\ (AcquireOwner(o) ?? Acquire(taskLock[v]) ?? Detach(v) ?? Notify(v)) = NoFault
      BY <1>4, <2>2 DEF KillAndNotify, Try, Machine
    <3>2. Notify(v) = NoFault
      BY <3>1, ChecksPass
    <3>3. SendersWithout(v)[task[v].notify] = <<>>
      BY <3>2 DEF Notify, ??, Check, NoFault
    <3> QED BY <3>1, <3>3, RendezvousWithout, WithoutTypes DEF Notified, Rendezvous
  <2> QED BY <2>1, <2>2
<1>5. CASE \E e \in Endpoints : Reply(e) \/ ReplyAndReceive(e) \/ Cancel(e)
  BY <1>1, <1>2, <1>5, RendezvousStutter DEF Reply, ReplyAndReceive, DoReply, Cancel, Try
<1>6. CASE \E v \in Tasks, o \in Tasks \cup {None} : Kill(v, o)
  BY <1>3, <1>6, RendezvousStutter DEF Kill, Try
<1> QED BY <1>4, <1>5, <1>6

(* The other task syscalls and the kernel's own steps touch no waiting     *)
(* queue: a suspended or resumed task stays where it waits.                *)
LEMMA RendezvousOthers ==
  ASSUME TypeOK, Rendezvous,
         \/ \E v \in Tasks :
              \/ CreateTask(v) \/ Switch(v) \/ Suspend(v) \/ Resume(v)
              \/ \E e \in Endpoints : SetKillNotify(v, e)
         \/ Yield \/ Continue \/ Dispatch \/ LookupSpins \/ IdleSpin \/ Halted
  PROVE  Rendezvous'
<1>1. UNCHANGED <<sendQ, recvQ>>
  BY DEF CreateTask, Switch, Suspend, Resume, SetKillNotify, Yield, Continue, Dispatch,
         LookupSpins, IdleSpin, Halted, Try, Return, SwitchTo, SuspendSelf, MadeReady, GiveUp,
         BackToUser, Run, vars
<1> QED BY <1>1, RendezvousStutter

(* An endpoint never has senders and receivers waiting at the same time,   *)
(* so the assertions on the opposite queue in ipc_send_short,              *)
(* ipc_send_long, ipc_call, ipc_receive and ipc_send_kill_notify hold.     *)
THEOREM RendezvousHolds == Spec => []Rendezvous
<1>1. Init => Rendezvous
  BY DEF Init, Rendezvous
<1>2. TypeOK /\ Rendezvous /\ [Next]_vars => Rendezvous'
  <2> SUFFICES ASSUME TypeOK, Rendezvous, [Next]_vars PROVE Rendezvous'
    OBVIOUS
  <2>1. CASE UNCHANGED vars
    BY <2>1, RendezvousStutter DEF vars
  <2>2. CASE Next
    BY <2>2, RendezvousSends, RendezvousReceives, RendezvousRemovals, RendezvousOthers
    DEF Next
  <2> QED BY <2>1, <2>2
<1> QED BY <1>1, <1>2, TypeCorrect, PTL DEF Spec

-----------------------------------------------------------------------------
(* Killed for good.  The strengthening: the current task is never killed,  *)
(* since a system call ends by making its task ready.                      *)

Keeps(tk) == \A t \in Tasks : task[t].state = "killed" => tk[t].state = "killed"

Alive(tk, c) == c \in Tasks => tk[c].state # "killed"

CurrentAlive == Alive(task, cur)

(* What the operations on records do to the state of the task.             *)
LEMMA RecordStates ==
  ASSUME NEW r \in TaskRecord
  PROVE  /\ \A s : InState(r, s).state = s
         /\ \A m : WithMsg(r, m).state = r.state
         /\ \A e, m : AsSender(r, e, m).state = "waiting"
         /\ \A e : AsCaller(r, e).state = "waiting"
         /\ \A e : AsReceiver(r, e).state = "waiting"
         /\ \A x : WakeReceiver(r, x).state = "ready"
         /\ \A x : WakeSender(r, x).state = "ready"
         /\ \A x : WakeCaller(r, x).state = "ready"
         /\ \A t : WithCallee(r, t).state = r.state
         /\ \A t : WithCaller(r, t).state = r.state
         /\ \A e : [r EXCEPT !.notify = e].state = r.state
BY DEF TaskRecord, InState, WithMsg, AsSender, AsCaller, AsReceiver, WakeReceiver,
       WakeSender, WakeCaller, WithCallee, WithCaller

(* Looking up a table after one or two records changed.                    *)
LEMMA TableLookup ==
  ASSUME NEW tk \in TaskTable, NEW t, NEW u, NEW r, NEW s, NEW x \in Tasks
  PROVE  /\ One(tk, t, r)[x] = IF x = t THEN r ELSE tk[x]
         /\ Two(tk, t, r, u, s)[x] = IF x = u THEN s ELSE IF x = t THEN r ELSE tk[x]
BY DEF One, Two, TaskTable

(* A change to a task that is not killed, or that leaves it killed.        *)
LEMMA KeepsOne ==
  ASSUME NEW tk \in TaskTable, Keeps(tk), NEW t, NEW r,
         t \in Tasks => (task[t].state = "killed" => r.state = "killed")
  PROVE  Keeps(One(tk, t, r))
BY TableLookup DEF Keeps

(* The same for two records.                                               *)
LEMMA KeepsTwo ==
  ASSUME NEW tk \in TaskTable, Keeps(tk), NEW t, NEW r, NEW u, NEW s,
         t \in Tasks => (task[t].state = "killed" => r.state = "killed"),
         u \in Tasks => (task[u].state = "killed" => s.state = "killed")
  PROVE  Keeps(Two(tk, t, r, u, s))
BY TableLookup DEF Keeps

(* The goal of every action: nobody is revived and cur' is alive.          *)
Spared == Keeps(task') /\ Alive(task', cur')

(* A step that leaves the tasks alone.                                     *)
LEMMA SparedStutter ==
  ASSUME CurrentAlive, UNCHANGED <<cur, task>>
  PROVE  Spared
BY DEF CurrentAlive, Spared, Keeps, Alive

(* A step that changes only the record of the current task.                *)
LEMMA SparedReturn ==
  ASSUME TypeOK, CurrentAlive, cur \in Tasks, NEW r, r.state # "killed", NEW q,
         Return(One(task, cur, r), q)
  PROVE  Spared
<1>1. task[cur].state # "killed" /\ task \in TaskTable /\ Keeps(task)
  BY Typing DEF CurrentAlive, Alive, Keeps
<1>2. task' = One(task, cur, r) /\ cur' = cur
  BY DEF Return
<1>3. One(task, cur, r)[cur] = r
  BY <1>1 DEF One, TaskTable
<1> QED BY <1>1, <1>2, <1>3, KeepsOne DEF Spared, Alive

(* switch_task to a task that is not killed.                               *)
LEMMA SparedSwitch ==
  ASSUME NEW tk \in TaskTable, Keeps(tk), NEW mine \in TaskRecord, NEW q,
         NEW to \in Tasks, NEW theirs \in TaskRecord,
         CurrentAlive, cur \in Tasks, task[to].state # "killed",
         SwitchTask(tk, mine, q, to, theirs)
  PROVE  Spared
<1> DEFINE a == InState(mine, "ready")
           b == InState(theirs, "running")
<1>1. a.state = "ready" /\ b.state = "running"
  BY RecordStates
<1>2. task' = Two(tk, cur, a, to, b) /\ cur' = to
  BY DEF SwitchTask
<1>3. Two(tk, cur, a, to, b)[to] = b
  BY TableLookup
<1>4. Keeps(Two(tk, cur, a, to, b))
  BY <1>1, KeepsTwo DEF CurrentAlive, Alive
<1> QED BY <1>1, <1>2, <1>3, <1>4 DEF Spared, Alive

(* A step that ends in resched(): the idle task is not a task.             *)
LEMMA SparedResched ==
  ASSUME Keeps(task'), Resched
  PROVE  Spared
BY ConstantsAssumption DEF Spared, Alive, Resched

(* The sends and the calls: the receiver passed remove_waiting_queue.      *)
LEMMA SparedSends ==
  ASSUME TypeOK, CurrentAlive, NEW e \in Endpoints,
         SendShort(e) \/ NbSendShort(e) \/ SendLong(e) \/ NbSendLong(e) \/ Call(e)
  PROVE  Spared
<1> DEFINE r == Head(recvQ[e])
<1>1. /\ cur \in Tasks /\ task[cur] \in TaskRecord /\ task[cur].state # "killed"
      /\ task \in TaskTable /\ Keeps(task)
  BY Typing DEF SendShort, NbSendShort, SendLong, NbSendLong, Call, Calls, InUserMode,
                CurrentAlive, Alive, Keeps
<1>2. ASSUME recvQ[e] # <<>> PROVE r \in Tasks /\ task[r] \in TaskRecord
  BY <1>2, HeadType, Typing DEF TypeOK
<1>3. ASSUME RemoveWaiting(r) = NoFault PROVE task[r].state # "killed"
  BY <1>3 DEF RemoveWaiting, Check, NoFault
<1>4. ASSUME HandOverChecks(e) = NoFault PROVE task[r].state # "killed"
  BY <1>3, <1>4, ChecksPass DEF HandOverChecks
<1>5. ASSUME NEW msg \in MsgState, NEW ep, NEW place, recvQ[e] # <<>>,
             HandOverChecks(e) = NoFault, HandOver(e, msg, ep, place)
      PROVE  Spared
  <2>1. WithMsg(task[cur], msg) \in TaskRecord /\ WakeReceiver(task[r], "none") \in TaskRecord
    BY <1>1, <1>2, <1>5, RecordTypes DEF IpcState
  <2>2. SwitchTask(task, WithMsg(task[cur], msg), readyQ, r, WakeReceiver(task[r], "none"))
    BY <1>5 DEF HandOver
  <2> QED BY <1>1, <1>2, <1>4, <1>5, <2>1, <2>2, SparedSwitch
<1>6. ASSUME NEW w, BlockSender(e, w) PROVE Spared
  <2>1. task' = One(task, cur, w) /\ Resched
    BY <1>6 DEF BlockSender
  <2> QED BY <1>1, <2>1, KeepsOne, SparedResched
<1>7. ASSUME NEW m, NEW q, Return(One(task, cur, WithMsg(task[cur], m)), q) PROVE Spared
  BY <1>1, <1>7, RecordStates, SparedReturn
<1>8. CASE Call(e)
  <2>1. ASSUME Return(One(task, cur, AsCaller(task[cur], e)), readyQ) PROVE Spared
    BY <1>1, <2>1, RecordStates, SparedReturn
  <2>2. ASSUME recvQ[e] # <<>>, RemoveWaiting(r) = NoFault, CallReceiver(e) PROVE Spared
    <3>1. PICK a, b : task' = Two(task, cur, a, r, b) /\ Resched
      BY <2>2 DEF CallReceiver
    <3> QED BY <1>1, <1>3, <2>2, <3>1, KeepsTwo, SparedResched
  <2>3. ASSUME (Acquire(epLock[e]) ?? Deliver(e) ?? RemoveWaiting(r) ??
                 PushReady(readyQ, r)) = NoFault
        PROVE  RemoveWaiting(r) = NoFault
    BY <2>3, ChecksPass
  <2> QED BY <1>6, <1>8, <2>1, <2>2, <2>3, SparedStutter DEF Call, Try
<1> QED
  BY <1>5, <1>6, <1>7, <1>8, SparedStutter
  DEF SendShort, NbSendShort, SendLong, NbSendLong, SendShortDeliver, SendLongDeliver,
      Try, MsgState

(* The records at a receive: the canceled caller was waiting.              *)
LEMMA KeepsAtReceive ==
  ASSUME TypeOK, cur \in Tasks, NEW e, CancelCaller(e) = NoFault
  PROVE  Keeps(TasksAtReceive)
<1> DEFINE c == task[cur].caller
<1>1. Keeps(task) /\ task \in TaskTable
  BY Typing DEF Keeps
<1>2. CASE c = None
  BY <1>1, <1>2 DEF TasksAtReceive
<1>3. CASE c # None
  <2>1. task[c].state = "waiting"
    BY <1>3 DEF CancelCaller, ??, Check, NoFault
  <2> QED BY <1>1, <1>3, <2>1, KeepsOne DEF TasksAtReceive
<1> QED BY <1>2, <1>3

(* The receives: the sender passed remove_waiting_queue.                   *)
LEMMA SparedReceives ==
  ASSUME TypeOK, CurrentAlive, NEW e \in Endpoints,
         Receive(e) \/ NbReceive(e) \/ ThenReceive(e)
  PROVE  Spared
<1> DEFINE s == Head(sendQ[e])
           served == Two(TasksAtReceive, cur, WithCaller(Receiver, s),
                         s, WithCallee(task[s], cur))
<1>1. /\ cur \in Tasks /\ task[cur] \in TaskRecord /\ task[cur].state # "killed"
      /\ Receiver \in TaskRecord /\ TasksAtReceive \in TaskTable
  BY AtReceiveTypes, Typing
     DEF Receive, NbReceive, ThenReceive, Calls, InUserMode, CurrentAlive, Alive
<1>2. Receiver.state = task[cur].state
  <2>1. WithMsg(task[cur], "long") \in TaskRecord
    BY <1>1, RecordTypes DEF MsgState
  <2> QED BY <1>1, <2>1, RecordStates DEF Receiver
<1>3. ASSUME Enter(e) ?? CancelCaller(e) = NoFault PROVE Keeps(TasksAtReceive)
  BY <1>1, <1>3, ChecksPass, KeepsAtReceive
<1>4. Alive(One(TasksAtReceive, cur, Receiver), cur)
  BY <1>1, <1>2 DEF Alive, One, TaskTable
<1>5. ASSUME Keeps(TasksAtReceive) PROVE Keeps(One(TasksAtReceive, cur, Receiver))
  BY <1>1, <1>2, <1>5, KeepsOne
<1>6. CASE ReceiveFrom(e)
  <2>1. s \in Tasks /\ task[s] \in TaskRecord /\ sendQ[e] # <<>>
    BY <1>6, HeadType, Typing DEF ReceiveFrom, TypeOK
  <2> DEFINE checks == Enter(e) ?? CancelCaller(e) ?? TakeSender(e)
  <2>2. ASSUME checks = NoFault PROVE Keeps(TasksAtReceive) /\ task[s].state # "killed"
    <3>1. CancelCaller(e) = NoFault /\ TakeSender(e) = NoFault
      BY <2>2, ChecksPass
    <3>2. RemoveWaiting(s) = NoFault
      BY <3>1, ChecksPass DEF TakeSender
    <3> QED BY <1>1, <3>1, <3>2, KeepsAtReceive DEF RemoveWaiting, Check, NoFault
  <2>3. ASSUME checks = NoFault, Take(e, One(TasksAtReceive, cur, Receiver)) PROVE Spared
    BY <1>4, <1>5, <2>2, <2>3 DEF Take, Spared
  <2>4. ASSUME checks = NoFault, Take(e, served) PROVE Spared
    <3>1. /\ WithCaller(Receiver, s).state = task[cur].state
          /\ WithCallee(task[s], cur).state = task[s].state
      BY <1>1, <1>2, <2>1, RecordStates
    <3>2. Keeps(served)
      BY <1>1, <2>2, <2>4, <3>1, KeepsTwo
    <3>3. Alive(served, cur)
      BY <1>1, <2>1, <2>2, <2>4, <3>1 DEF Alive, Two, TaskTable
    <3> QED BY <2>4, <3>2, <3>3 DEF Take, Spared
  <2>5. ASSUME checks = NoFault, TakeAndSwitch(e) PROVE Spared
    <3>1. WakeSender(task[s], "none") \in TaskRecord
      BY <2>1, RecordTypes DEF IpcState
    <3>2. SwitchTask(TasksAtReceive, Receiver, ReadyAtReceive, s, WakeSender(task[s], "none"))
      BY <2>5 DEF TakeAndSwitch
    <3> QED BY <1>1, <2>1, <2>2, <2>5, <3>1, <3>2, SparedSwitch
  <2>6. ASSUME (checks ?? PushReady(ReadyAtReceive, cur)) = NoFault PROVE checks = NoFault
    BY <2>6, ChecksPass
  <2> QED BY <1>6, <2>3, <2>4, <2>5, <2>6, SparedStutter DEF ReceiveFrom, Try
<1>7. ASSUME Enter(e) ?? CancelCaller(e) = NoFault, WaitForSender(e) PROVE Spared
  <2>1. task' = One(TasksAtReceive, cur, AsReceiver(Receiver, e)) /\ Resched
    BY <1>7 DEF WaitForSender
  <2> QED BY <1>1, <1>3, <1>7, <2>1, KeepsOne, SparedResched
<1>8. ASSUME Enter(e) ?? CancelCaller(e) = NoFault,
             Return(One(TasksAtReceive, cur, Receiver), ReadyAtReceive)
      PROVE  Spared
  BY <1>3, <1>4, <1>5, <1>8 DEF Return, Spared
<1> QED
  BY <1>6, <1>7, <1>8, SparedStutter
  DEF Receive, NbReceive, ThenReceive, BlockReceiver, Try

(* The replies: the caller was asserted to be waiting.                     *)
LEMMA SparedReplies ==
  ASSUME TypeOK, CurrentAlive, NEW e \in Endpoints, Reply(e) \/ ReplyAndReceive(e)
  PROVE  Spared
<1> DEFINE c == task[cur].caller
           mine == WithCaller(WithMsg(task[cur], "empty"), None)
           theirs == WakeCaller(task[c], "none")
<1>1. /\ cur \in Tasks /\ task[cur] \in TaskRecord /\ task[cur].state # "killed"
      /\ task \in TaskTable /\ Keeps(task)
  BY Typing DEF Reply, ReplyAndReceive, Calls, InUserMode, CurrentAlive, Alive, Keeps
<1>2. ASSUME NEW next, NEW q, Replied(task, q, next) PROVE Spared
  BY <1>2, SparedStutter DEF Replied
<1>3. ASSUME NEW m, NEW q, Return(One(task, cur, WithMsg(task[cur], m)), q) PROVE Spared
  BY <1>1, <1>3, RecordStates, SparedReturn
<1>4. ASSUME NEW next, NEW q, c # None, ReplyTo(e, c) = NoFault,
             Replied(Two(task, cur, mine, c, theirs), q, next)
      PROVE  Spared
  <2>1. c \in Tasks /\ task[c] \in TaskRecord
    BY <1>1, <1>4, Typing
  <2>2. task[c].state = "waiting"
    BY <1>4 DEF ReplyTo, ??, Check, NoFault
  <2>3. WithMsg(task[cur], "empty") \in TaskRecord
    BY <1>1, RecordTypes DEF MsgState
  <2>4. mine.state = task[cur].state /\ theirs.state = "ready"
    BY <1>1, <2>1, <2>3, RecordStates
  <2>5. Keeps(Two(task, cur, mine, c, theirs))
    BY <1>1, <2>2, KeepsTwo
  <2>6. Alive(Two(task, cur, mine, c, theirs), cur)
    BY <1>1, <2>4 DEF Alive, Two, TaskTable
  <2> QED BY <1>4, <2>5, <2>6 DEF Replied, Spared
<1>5. ASSUME (Acquire(epLock[e]) ?? ReplyTo(e, c) ?? PushReady(readyQ, c)) = NoFault
      PROVE  ReplyTo(e, c) = NoFault
  BY <1>5, ChecksPass
<1> QED
  BY <1>2, <1>3, <1>4, <1>5, SparedStutter DEF Reply, ReplyAndReceive, DoReply, Try

(* A non-empty set of naturals has a least element.                        *)
LEMMA LeastNatural ==
  ASSUME NEW S \in SUBSET Nat, S # {}
  PROVE  \E i \in S : \A j \in S : i <= j
<1>1. PICK i \in S : \A j \in S : ~(<<j, i>> \in OpToRel(<, Nat))
  BY NatLessThanWellFounded, WFMin
<1>2. \A j \in S : ~(j < i)
  BY <1>1 DEF OpToRel
<1> QED BY <1>2

(* A member of one of two queues is a member of their concatenation.       *)
LEMMA ConcatMember ==
  ASSUME NEW p \in Seq(Tasks), NEW q \in Seq(Tasks), NEW t,
         t \in Members(p) \/ t \in Members(q)
  PROVE  t \in Members(p \o q)
<1>1. /\ Len(p \o q) = Len(p) + Len(q) /\ Len(p) \in Nat /\ Len(q) \in Nat
      /\ \A i \in 1..Len(p) : (p \o q)[i] = p[i]
      /\ \A i \in 1..Len(q) : (p \o q)[Len(p) + i] = q[i]
  OBVIOUS
<1>2. CASE t \in Members(p)
  <2>1. PICK k \in 1..Len(p) : p[k] = t
    BY <1>2 DEF Members
  <2> QED BY <1>1, <2>1 DEF Members
<1>3. CASE t \in Members(q)
  <2>1. PICK k \in 1..Len(q) : q[k] = t
    BY <1>3 DEF Members
  <2>2. Len(p) + k \in 1..Len(p \o q) /\ (p \o q)[Len(p) + k] = t
    BY <1>1, <2>1
  <2> QED BY <2>2 DEF Members
<1> QED BY <1>2, <1>3

(* ipc_cancel gets through only if everybody it wakes was waiting.         *)
LEMMA CancelAllWaiting ==
  ASSUME TypeOK, NEW e \in Endpoints, CancelAll(e) = NoFault,
         NEW t \in Members(recvQ[e]) \cup Members(sendQ[e])
  PROVE  task[t].state = "waiting"
<1> DEFINE all == recvQ[e] \o sendQ[e]
           CancelNth(i) == CancelOne(readyQ \o SubSeq(all, 1, i - 1), all[i])
           bad == {i \in 1..Len(all) : CancelNth(i) # NoFault}
           least == CHOOSE i \in bad : \A j \in bad : i <= j
<1>1. CASE bad = {}
  <2>1. recvQ[e] \in Seq(Tasks) /\ sendQ[e] \in Seq(Tasks)
    BY DEF TypeOK
  <2>2. t \in Members(recvQ[e] \o sendQ[e])
    BY <2>1, ConcatMember
  <2> PICK n \in 1..Len(all) : all[n] = t
    BY <2>2 DEF Members
  <2>3. CancelNth(n) = NoFault
    BY <1>1
  <2>4. RemoveWaiting(all[n]) = NoFault
    BY <2>3, ChecksPass DEF CancelOne
  <2> QED BY <2>4 DEF RemoveWaiting, Check, NoFault
<1>2. CASE bad # {}
  <2>1. bad \in SUBSET Nat
    BY DEF TypeOK
  <2>2. \E i \in bad : \A j \in bad : i <= j
    BY <1>2, <2>1, LeastNatural
  <2>3. least \in bad
    BY <2>2
  <2>4. CancelNth(least) # NoFault
    BY <2>3
  <2>5. CancelAll(e) = CancelNth(least)
    BY <1>2 DEF CancelAll
  <2> QED BY <2>4, <2>5
<1> QED BY <1>1, <1>2

(* The destruction of an endpoint.                                         *)
LEMMA SparedCancel ==
  ASSUME TypeOK, CurrentAlive, NEW e \in Endpoints, Cancel(e)
  PROVE  Spared
<1>1. CASE CancelAll(e) = NoFault /\ Canceled(e)
  <2>1. \A t \in Tasks :
          /\ t \in Members(recvQ[e]) => task'[t] = WakeReceiver(task[t], "canceled")
          /\ t \in Members(sendQ[e]) \ Members(recvQ[e]) =>
               task'[t] = WakeSender(task[t], "canceled")
          /\ t \notin Members(sendQ[e]) \cup Members(recvQ[e]) => task'[t] = task[t]
    BY <1>1 DEF Canceled
  <2>2. \A t \in Tasks : /\ WakeReceiver(task[t], "canceled").state = "ready"
                         /\ WakeSender(task[t], "canceled").state = "ready"
    <3> SUFFICES ASSUME NEW t \in Tasks
                 PROVE  /\ WakeReceiver(task[t], "canceled").state = "ready"
                        /\ WakeSender(task[t], "canceled").state = "ready"
      OBVIOUS
    <3>1. task[t] \in TaskRecord
      BY Typing
    <3> QED BY <3>1, RecordStates
  <2>3. \A t \in Members(recvQ[e]) \cup Members(sendQ[e]) : task[t].state = "waiting"
    BY <1>1, CancelAllWaiting
  <2>4. Keeps(task')
    BY <2>1, <2>3 DEF Keeps
  <2>5. cur' = cur
    BY <1>1 DEF Canceled
  <2>6. Alive(task', cur')
    BY <2>1, <2>2, <2>5 DEF Alive, CurrentAlive
  <2> QED BY <2>4, <2>6 DEF Spared
<1>2. ASSUME (Acquire(epLock[e]) ?? CancelAll(e)) = NoFault PROVE CancelAll(e) = NoFault
  BY <1>2, ChecksPass
<1> QED BY <1>1, <1>2, SparedStutter DEF Cancel, Try

(* The task syscalls other than kill: only a suspended task is resumed and *)
(* only a ready one switched to.                                           *)
LEMMA SparedTaskSyscalls ==
  ASSUME TypeOK, CurrentAlive, NEW v \in Tasks,
         \/ CreateTask(v) \/ Switch(v) \/ Suspend(v) \/ Resume(v) \/ Yield
         \/ \E e \in Endpoints : SetKillNotify(v, e)
  PROVE  Spared
<1>1. /\ cur \in Tasks /\ task[cur] \in TaskRecord /\ task[cur].state # "killed"
      /\ task \in TaskTable /\ Keeps(task) /\ task[v] \in TaskRecord
  BY Typing
     DEF CreateTask, Switch, Suspend, Resume, Yield, SetKillNotify, CallsOn, Calls, InUserMode,
                CurrentAlive, Alive, Keeps
<1>2. ASSUME NEW r, task[v].state # "killed", r.state # "killed", NEW q,
             Return(One(task, v, r), q)
      PROVE  Spared
  <2>1. Keeps(One(task, v, r))
    BY <1>1, <1>2, KeepsOne
  <2>2. Alive(One(task, v, r), cur)
    BY <1>1, <1>2 DEF Alive, One, TaskTable
  <2> QED BY <1>2, <2>1, <2>2 DEF Return, Spared
<1>3. ASSUME NEW q, Return(task, q) PROVE Spared
  BY <1>3, SparedStutter DEF Return
<1>4. /\ InState(task[v], "suspended").state = "suspended"
      /\ InState(task[v], "ready").state = "ready"
  BY <1>1, RecordStates
<1>5. CASE CreateTask(v)
  <2>1. FreshTask("suspended").state = "suspended"
    BY DEF FreshTask
  <2> QED BY <1>2, <1>5, <2>1, SparedStutter DEF CreateTask, Try
<1>6. CASE Switch(v)
  <2>1. ASSUME task[v].state = "ready", SwitchTo(v) PROVE Spared
    BY <1>1, <2>1, SparedSwitch DEF SwitchTo
  <2> QED BY <1>3, <1>6, <2>1, SparedStutter DEF Switch, Try
<1>7. CASE Suspend(v)
  <2>1. ASSUME SuspendSelf PROVE Spared
    <3>1. task' = One(task, cur, InState(task[cur], "suspended")) /\ Resched
      BY <2>1 DEF SuspendSelf
    <3> QED BY <1>1, <3>1, KeepsOne, SparedResched
  <2> QED BY <1>2, <1>3, <1>4, <1>7, <2>1, SparedStutter DEF Suspend, Try
<1>8. CASE Resume(v)
  BY <1>2, <1>3, <1>4, <1>8, SparedStutter DEF Resume, MadeReady, Try
<1>9. CASE Yield
  <2>1. ASSUME NEW q, GiveUp(q) PROVE Spared
    <3>1. task' = One(task, cur, InState(task[cur], "ready")) /\ Resched
      BY <2>1 DEF GiveUp
    <3> QED BY <1>1, <3>1, KeepsOne, SparedResched
  <2> QED BY <1>9, <2>1, SparedStutter DEF Yield, Try
<1>10. CASE \E e \in Endpoints : SetKillNotify(v, e)
  <2>1. PICK e \in Endpoints : SetKillNotify(v, e)
    BY <1>10
  <2> DEFINE r == [task[v] EXCEPT !.notify = e]
  <2>2. r.state = task[v].state
    BY <1>1, RecordStates
  <2>3. ASSUME Return(One(task, v, r), readyQ) PROVE Spared
    <3>1. Keeps(One(task, v, r))
      BY <1>1, <2>2, KeepsOne
    <3>2. Alive(One(task, v, r), cur)
      BY <1>1, <2>2 DEF Alive, One, TaskTable
    <3> QED BY <2>3, <3>1, <3>2 DEF Return, Spared
  <2> QED BY <2>1, <2>3, SparedStutter DEF SetKillNotify, Try
<1> QED BY <1>5, <1>6, <1>7, <1>8, <1>9, <1>10

(* What a kill makes of the records.                                       *)
LEMMA KeepsWithout ==
  ASSUME TypeOK, NEW v \in Tasks
  PROVE  /\ Keeps(TasksWithout(v))
         /\ \A t \in Tasks \ {v} : TasksWithout(v)[t].state = task[t].state
<1> DEFINE c == task[v].callee
           killed == InState(task[v], "killed")
           freed == WithCaller(task[c], None)
<1>1. task \in TaskTable /\ Keeps(task) /\ task[v] \in TaskRecord
  BY Typing DEF Keeps
<1>2. killed.state = "killed"
  BY <1>1, RecordStates
<1>3. c \in Tasks => freed.state = task[c].state
  BY RecordStates, Typing
<1>4. Keeps(One(task, v, killed)) /\ Keeps(Two(task, v, killed, c, freed))
  BY <1>1, <1>2, <1>3, KeepsOne, KeepsTwo
<1>5. ASSUME NEW t \in Tasks \ {v}
      PROVE  /\ One(task, v, killed)[t].state = task[t].state
             /\ Two(task, v, killed, c, freed)[t].state = task[t].state
  <2> HIDE DEF killed, freed, c
  <2>1. One(task, v, killed)[t] = task[t]
    BY <1>1 DEF One, TaskTable
  <2>2. Two(task, v, killed, c, freed)[t] = IF t = c THEN freed ELSE task[t]
    BY <1>1, TableLookup
  <2> QED BY <1>3, <2>1, <2>2
<1> QED BY <1>4, <1>5 DEF TasksWithout

(* Kills: the receiver of a notification passed remove_waiting_queue after *)
(* the victim was marked, so it is neither the victim nor killed before.   *)
LEMMA SparedKills ==
  ASSUME TypeOK, CurrentAlive, NEW v \in Tasks, NEW o \in Tasks \cup {None},
         Kill(v, o) \/ KillAndNotify(v, o)
  PROVE  Spared
<1>1. cur \in Tasks /\ task[cur].state # "killed"
  BY DEF Kill, KillAndNotify, KillsUnder, CallsOn, Calls, InUserMode, CurrentAlive, Alive
<1>2. ASSUME Killed(v, o) PROVE Spared
  <2>1. task' = TasksWithout(v) /\ Keeps(task')
    BY <1>2, KeepsWithout DEF Killed
  <2>2. CASE v = cur
    BY <1>2, <2>1, <2>2, SparedResched DEF Killed
  <2>3. CASE v # cur
    <3>1. cur' = cur
      BY <1>2, <2>3 DEF Killed
    <3>2. TasksWithout(v)[cur].state = task[cur].state
      BY <1>1, <2>3, KeepsWithout
    <3> QED BY <1>1, <2>1, <3>1, <3>2 DEF Spared, Alive
  <2> QED BY <2>2, <2>3
<1>3. CASE Kill(v, o)
  BY <1>2, <1>3, SparedStutter DEF Kill, Try
<1>4. CASE KillAndNotify(v, o)
  <2> DEFINE tk == TasksWithout(v)
             r == Head(ReceiversWithout(v)[task[v].notify])
  <2>1. CASE UNCHANGED Machine
    BY <2>1, SparedStutter DEF Machine
  <2>2. CASE ~UNCHANGED Machine
    <3>1. /\ Notified(v, o)
          /\ (AcquireOwner(o) ?? Acquire(taskLock[v]) ?? Detach(v) ?? Notify(v)) = NoFault
      BY <1>4, <2>2 DEF KillAndNotify, Try, Machine
    <3>2. Notify(v) = NoFault
      BY <3>1, ChecksPass
    <3>3. tk[r].state = "waiting"
      BY <3>2 DEF Notify, ??, Check, NoFault
    <3>4. tk \in TaskTable /\ Keeps(tk)
      BY KeepsWithout, WithoutTypes
    <3>5. r \in Tasks => task[r].state # "killed"
      BY <3>3, <3>4 DEF Keeps
    <3>6. task' = One(tk, r, WakeReceiver(tk[r], "none")) /\ Resched
      BY <3>1 DEF Notified
    <3> QED BY <3>4, <3>5, <3>6, KeepsOne, SparedResched
  <2> QED BY <2>1, <2>2
<1> QED BY <1>3, <1>4

(* The kernel's own steps: only a ready task is dispatched.                *)
LEMMA SparedKernel ==
  ASSUME TypeOK, CurrentAlive, Continue \/ Dispatch \/ LookupSpins \/ IdleSpin \/ Halted
  PROVE  Spared
<1>1. CASE Continue \/ LookupSpins \/ IdleSpin \/ Halted
  <2>1. UNCHANGED <<cur, task>>
    BY <1>1 DEF Continue, LookupSpins, IdleSpin, Halted, BackToUser, Try, vars
  <2> QED BY <2>1, SparedStutter
<1>2. CASE Dispatch
  <2> DEFINE h == Head(readyQ)
             r == InState(task[h], "running")
  <2>1. h \in Tasks /\ task \in TaskTable /\ Keeps(task) /\ task[h] \in TaskRecord
    BY <1>2, HeadType, Typing DEF Dispatch, TypeOK, Keeps
  <2>2. ASSUME Check(task[h].state = "ready", "remove_ready_queue: state") = NoFault, Run(h)
        PROVE  Spared
    <3>1. task[h].state = "ready"
      BY <2>2 DEF Check, NoFault
    <3>2. task' = One(task, h, r) /\ cur' = h
      BY <2>2 DEF Run
    <3>3. r.state = "running"
      BY <2>1, RecordStates
    <3>4. Keeps(One(task, h, r))
      BY <2>1, <3>1, KeepsOne
    <3>5. One(task, h, r)[h] = r
      BY <2>1 DEF One, TaskTable
    <3> QED BY <3>2, <3>3, <3>4, <3>5 DEF Spared, Alive
  <2> QED BY <1>2, <2>2, SparedStutter DEF Dispatch, Try
<1> QED BY <1>1, <1>2

(* Every step spares the killed and leaves an alive task on the hart.      *)
LEMMA SparedNext ==
  ASSUME TypeOK, CurrentAlive, [Next]_vars
  PROVE  Spared
<1>1. CASE UNCHANGED vars
  BY <1>1, SparedStutter DEF vars
<1>2. CASE Next
  BY <1>2, ConstantsAssumption, SparedSends, SparedReceives, SparedReplies, SparedCancel,
     SparedTaskSyscalls, SparedKills, SparedKernel DEF Next
<1> QED BY <1>1, <1>2

(* A killed task stays killed whatever queue, call or notification it was  *)
(* in when kill_task found it: no resume, reply, send, receive, canceled   *)
(* endpoint or dispatch makes it ready again.                              *)
THEOREM KilledStaysKilled == Spec => KilledForGood
<1>1. Init => CurrentAlive
  BY ConstantsAssumption DEF Init, CurrentAlive, Alive, FreshTask
<1>2. TypeOK /\ CurrentAlive /\ [Next]_vars => CurrentAlive'
  BY SparedNext DEF Spared, CurrentAlive, Alive
<1>3. TypeOK /\ CurrentAlive /\ [Next]_vars
        => [\A t \in Tasks : task[t].state = "killed" => task'[t].state = "killed"]_vars
  BY SparedNext DEF Spared, Keeps
<1> QED BY <1>1, <1>2, <1>3, TypeCorrect, PTL DEF Spec, KilledForGood
=============================================================================
