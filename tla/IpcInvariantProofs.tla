------------------------- MODULE IpcInvariantProofs -------------------------
(***************************************************************************)
(* KernelInvariant is inductive, and with it the waiting queues, the       *)
(* pairing of callers and callees, the inventory of locks and the          *)
(* assertions of ipc.cpp and task.cpp hold, for any number of tasks and    *)
(* endpoints and any set of system calls.                                  *)
(***************************************************************************)
EXTENDS IpcInvariant, IpcProofs

-----------------------------------------------------------------------------
(* Lemmas about queues.                                                    *)

(* The members of an empty queue, of a queue that is joined at the tail.   *)
LEMMA AppendMembers ==
  ASSUME NEW q \in Seq(Tasks), NEW t \in Tasks
  PROVE  /\ Members(<<>>) = {}
         /\ Members(Append(q, t)) = Members(q) \cup {t}
         /\ Once(q) /\ t \notin Members(q) => Once(Append(q, t))
<1>1. Members(<<>>) = {}
  BY DEF Members
<1>2. /\ Len(Append(q, t)) = Len(q) + 1 /\ Len(q) \in Nat
      /\ \A i \in 1..Len(q) : Append(q, t)[i] = q[i]
      /\ Append(q, t)[Len(q) + 1] = t
  OBVIOUS
<1>3. Members(Append(q, t)) = Members(q) \cup {t}
  BY <1>2 DEF Members
<1>4. ASSUME Once(q), t \notin Members(q) PROVE Once(Append(q, t))
  BY <1>2, <1>4 DEF Members, Once
<1> QED BY <1>1, <1>3, <1>4

(* A queue that is left at the head.                                       *)
LEMMA TailMembers ==
  ASSUME NEW q \in Seq(Tasks), q # <<>>, Once(q)
  PROVE  /\ Head(q) \in Members(q)
         /\ Members(Tail(q)) = Members(q) \ {Head(q)}
         /\ Once(Tail(q))
<1>1. /\ Len(q) \in Nat /\ Len(q) > 0 /\ Len(Tail(q)) = Len(q) - 1
      /\ Head(q) = q[1]
      /\ \A i \in 1..(Len(q) - 1) : Tail(q)[i] = q[i + 1]
  OBVIOUS
<1>2. Head(q) \in Members(q)
  BY <1>1 DEF Members
<1>3. Once(Tail(q))
  BY <1>1 DEF Once
<1>4. ASSUME NEW t \in Members(Tail(q)) PROVE t \in Members(q) \ {Head(q)}
  BY <1>1, <1>4 DEF Members, Once
<1>5. ASSUME NEW t \in Members(q) \ {Head(q)} PROVE t \in Members(Tail(q))
  <2>1. PICK i \in 1..Len(q) : q[i] = t
    BY <1>5 DEF Members
  <2>2. i # 1
    BY <1>1, <1>5, <2>1
  <2>3. i - 1 \in 1..(Len(q) - 1) /\ Tail(q)[i - 1] = t
    BY <1>1, <2>1, <2>2
  <2> QED BY <1>1, <2>3 DEF Members
<1> QED BY <1>2, <1>3, <1>4, <1>5

(* A queue that is left from anywhere.                                     *)
LEMMA UnlinkMembers ==
  ASSUME NEW q \in Seq(Tasks), NEW t \in Members(q), Once(q)
  PROVE  /\ Members(Unlink(q, t)) = Members(q) \ {t}
         /\ Once(Unlink(q, t))
<1> DEFINE n == CHOOSE i \in 1..Len(q) : q[i] = t
           p == Unlink(q, t)
<1>1. n \in 1..Len(q) /\ q[n] = t
  BY DEF Members
<1> HIDE DEF n
<1>2. /\ Len(q) \in Nat
      /\ p = [i \in 1..(Len(q) - 1) |-> IF i < n THEN q[i] ELSE q[i + 1]]
  BY DEF Unlink, n
<1>3. Len(p) = Len(q) - 1
  BY <1>1, <1>2
<1>4. \A i \in 1..(Len(q) - 1) : p[i] = IF i < n THEN q[i] ELSE q[i + 1]
  BY <1>2
<1> HIDE DEF p
<1>5. Once(p)
  BY <1>1, <1>2, <1>3, <1>4 DEF Once
<1>6. ASSUME NEW u \in Members(p) PROVE u \in Members(q) \ {t}
  <2>1. PICK i \in 1..(Len(q) - 1) : p[i] = u
    BY <1>3, <1>6 DEF Members
  <2>2. PICK k \in 1..Len(q) : q[k] = u /\ k # n
    BY <1>1, <1>2, <1>4, <2>1
  <2> QED BY <1>1, <2>2 DEF Members, Once
<1>7. ASSUME NEW u \in Members(q) \ {t} PROVE u \in Members(p)
  <2>1. PICK i \in 1..Len(q) : q[i] = u
    BY <1>7 DEF Members
  <2>2. i # n
    BY <1>1, <1>7, <2>1
  <2>3. PICK k \in 1..(Len(q) - 1) : p[k] = u
    <3>1. CASE i < n
      BY <1>1, <1>2, <1>4, <2>1, <3>1
    <3>2. CASE i > n
      <4>1. i - 1 \in 1..(Len(q) - 1) /\ p[i - 1] = u
        BY <1>1, <1>2, <1>4, <2>1, <3>2
      <4> QED BY <4>1
    <3> QED BY <1>1, <1>2, <2>2, <3>1, <3>2
  <2> QED BY <1>3, <2>3 DEF Members
<1> QED BY <1>5, <1>6, <1>7 DEF p

-----------------------------------------------------------------------------
(* Lemmas about records.                                                   *)

Has(r, state, ipc, event, msg, ep, callee, caller) ==
  /\ r.state = state /\ r.ipc = ipc /\ r.event = event /\ r.msg = msg
  /\ r.ep = ep /\ r.callee = callee /\ r.caller = caller

(* The fields that the operations leave in a record.                       *)
LEMMA RecordFields ==
  ASSUME NEW r \in TaskRecord
  PROVE  /\ \A s : Has(InState(r, s),
                      s, r.ipc, r.event, r.msg, r.ep, r.callee, r.caller)
         /\ \A m : Has(WithMsg(r, m),
                      r.state, r.ipc, r.event, m, r.ep, r.callee, r.caller)
         /\ \A e, m : Has(AsSender(r, e, m),
                         "waiting", "sending", "send", m, e, r.callee, r.caller)
         /\ \A e : Has(AsCaller(r, e),
                      "waiting", "calling", "send", "long", e, r.callee, r.caller)
         /\ \A e : Has(AsReceiver(r, e),
                      "waiting", "receiving", r.event, r.msg, e, r.callee, r.caller)
         /\ \A x : Has(WakeReceiver(r, x),
                      "ready", x, r.event, "empty", None, r.callee, r.caller)
         /\ \A x : Has(WakeSender(r, x),
                      "ready", x, "none", "empty", None, r.callee, r.caller)
         /\ \A x : Has(WakeCaller(r, x),
                      "ready", x, "none", "empty", None, None, r.caller)
         /\ \A t : Has(WithCallee(r, t),
                      r.state, r.ipc, r.event, r.msg, r.ep, t, r.caller)
         /\ \A t : Has(WithCaller(r, t),
                      r.state, r.ipc, r.event, r.msg, r.ep, r.callee, t)
         /\ \A e : Has([r EXCEPT !.notify = e],
                      r.state, r.ipc, r.event, r.msg, r.ep, r.callee, r.caller)
BY DEF TaskRecord, Has, InState, WithMsg, AsSender, AsCaller, AsReceiver, WakeReceiver,
       WakeSender, WakeCaller, WithCallee, WithCaller

(* Looking up a table after a change to one record, or to two.             *)
LEMMA OneLookup ==
  ASSUME NEW tk \in TaskTable, NEW t, NEW r
  PROVE  \A x \in Tasks : One(tk, t, r)[x] = IF x = t THEN r ELSE tk[x]
BY DEF One, TaskTable

(* The same for two records; the second one wins.                          *)
LEMMA TwoLookup ==
  ASSUME NEW tk \in TaskTable, NEW t, NEW r, NEW u, NEW s
  PROVE  \A x \in Tasks :
           Two(tk, t, r, u, s)[x] = IF x = u THEN s ELSE IF x = t THEN r ELSE tk[x]
BY DEF Two, TaskTable

(* A receiver once its buffer is recorded and its caller forgotten.        *)
LEMMA ReceiverFields ==
  ASSUME TypeOK, cur \in Tasks
  PROVE  /\ Receiver \in TaskRecord
         /\ Has(Receiver, task[cur].state, task[cur].ipc, task[cur].event, "long",
                task[cur].ep, task[cur].callee, None)
<1>1. task[cur] \in TaskRecord
  BY Typing
<1>2. WithMsg(task[cur], "long") \in TaskRecord
  BY <1>1, RecordTypes DEF MsgState
<1> QED BY <1>1, <1>2, RecordTypes, RecordFields DEF Receiver, Has

-----------------------------------------------------------------------------
(* Frames: what a step keeps when it leaves most tasks alone.              *)

(* Each action below starts in a state where Given holds.                  *)
Given == TypeOK /\ TypeOK' /\ KernelInvariant /\ Spared

(* The parts of the invariant that speak of one task.                      *)
Sound(t) ==
  /\ task[t].state = "unused" => task[t] = FreshTask("unused") /\ cont[t] = User
  /\ task[t].state = "waiting" => task[t].ipc \in {"sending", "receiving", "calling"}
  /\ task[t].ipc \in {"none", "canceled"} =>
       /\ cont[t].at = "sent" => task[t].event = "none" /\ task[t].msg = "empty"
       /\ cont[t].at = "received" => task[t].msg = "empty"

(* What each action is shown to do.                                        *)
Kept ==
  /\ Queues' /\ Pairs' /\ LockInventory' /\ Current'
  /\ \A t \in Tasks : Sound(t)'

(* The IPC fields and the place of t stay as they are, but perhaps for its *)
(* caller.                                                                 *)
Alike(t) ==
  /\ task'[t].ipc = task[t].ipc /\ task'[t].event = task[t].event
  /\ task'[t].msg = task[t].msg /\ task'[t].ep = task[t].ep
  /\ task'[t].callee = task[t].callee /\ cont'[t] = cont[t]

Same(t) == Alike(t) /\ task'[t].caller = task[t].caller

(* The same, but for a caller that is forgotten.                           *)
Near(t) == Alike(t) /\ task'[t].caller \in {task[t].caller, None}

(* A task that is left alone, but perhaps for a state that needs no role.  *)
Quiet(t) ==
  /\ Same(t)
  /\ task'[t].state = "waiting" => task[t].state = "waiting"
  /\ task'[t].state = "unused" => task'[t] = task[t]

Shrunk ==
  \A e \in Endpoints :
    /\ Once(sendQ'[e]) /\ Members(sendQ'[e]) \subseteq Members(sendQ[e])
    /\ Once(recvQ'[e]) /\ Members(recvQ'[e]) \subseteq Members(recvQ[e])

(* A task that is left alone stays sound.                                  *)
LEMMA QuietSound ==
  ASSUME NEW t, Sound(t), Quiet(t)
  PROVE  Sound(t)'
BY DEF Sound, Quiet, Same, Alike

(* The one-task parts together.                                            *)
LEMMA SoundTasks ==
  /\ Fresh /\ Roles /\ Served <=> \A t \in Tasks : Sound(t)
  /\ Fresh' /\ Roles' /\ Served' <=> \A t \in Tasks : Sound(t)'
BY DEF Fresh, Roles, Served, Sound

(* Queue members are tasks.                                                *)
LEMMA MembersAreTasks ==
  ASSUME NEW q \in Seq(Tasks)
  PROVE  Members(q) \subseteq Tasks
BY DEF Members

(* Queues that only get shorter, and whose remaining members are left      *)
(* alone, except that a killed caller may be forgotten.                    *)
LEMMA FrameNear ==
  ASSUME Queues, TypeOK', Shrunk, \A t \in Tasks : Waits(t)' => Near(t)
  PROVE  Queues'
<1> SUFFICES ASSUME NEW e \in Endpoints
             PROVE  /\ Once(sendQ'[e]) /\ Once(recvQ'[e])
                    /\ \A t \in Members(sendQ'[e]) : QueuedSender(t, e)'
                    /\ \A t \in Members(recvQ'[e]) : QueuedReceiver(t, e)'
  BY DEF Queues
<1>1. Members(sendQ'[e]) \subseteq Tasks /\ Members(recvQ'[e]) \subseteq Tasks
  BY MembersAreTasks DEF TypeOK
<1>2. ASSUME NEW t \in Members(sendQ'[e]) PROVE QueuedSender(t, e)'
  <2>1. Near(t) /\ QueuedSender(t, e)
    BY <1>1, <1>2 DEF Waits, Shrunk, Queues
  <2> QED BY <2>1 DEF Near, Alike, QueuedSender
<1>3. ASSUME NEW t \in Members(recvQ'[e]) PROVE QueuedReceiver(t, e)'
  <2>1. Near(t) /\ QueuedReceiver(t, e)
    BY <1>1, <1>3 DEF Waits, Shrunk, Queues
  <2> QED BY <2>1 DEF Near, Alike, QueuedReceiver
<1> QED BY <1>2, <1>3 DEF Shrunk

(* The same when they are left alone altogether.                           *)
LEMMA FrameQueues ==
  ASSUME Queues, TypeOK', Shrunk, \A t \in Tasks : Waits(t)' => Same(t)
  PROVE  Queues'
<1>1. \A t \in Tasks : Waits(t)' => Near(t)
  BY DEF Near, Same
<1> QED BY <1>1, FrameNear

(* A step that changes neither end of a call.                              *)
LEMMA FramePairs ==
  ASSUME Pairs, Keeps(task'),
         \A t \in Tasks : /\ task'[t].caller = task[t].caller
                          /\ task'[t].callee = task[t].callee,
         \A s, c \in Tasks : task[s].caller = c => Same(c) /\ ~Waits(c)'
  PROVE  Pairs'
<1> SUFFICES ASSUME NEW s \in Tasks, NEW c \in Tasks
             PROVE  /\ task'[s].caller = c => BlockedOn(c, s)'
                    /\ task'[c].callee = s => \/ task'[s].caller = c
                                             \/ task'[c].state = "killed"
  BY DEF Pairs
<1>1. ASSUME task'[s].caller = c PROVE BlockedOn(c, s)'
  <2>1. BlockedOn(c, s) /\ Same(c) /\ ~Waits(c)'
    BY <1>1 DEF Pairs
  <2> QED BY <2>1 DEF BlockedOn, Same, Alike
<1>2. ASSUME task'[c].callee = s PROVE task'[s].caller = c \/ task'[c].state = "killed"
  BY <1>2 DEF Pairs, Keeps
<1> QED BY <1>1, <1>2

(* Why a task may hold the lock of t while another task runs.              *)
Excused(t) ==
  \/ taskLock[t] = t /\ cont[t].at = "suspended"
  \/ cont[taskLock[t]].at = "notified"
  \/ task[taskLock[t]].state = "killed"

(* An owner that does not move, or that is killed, is still excused.       *)
LEMMA StillExcused ==
  ASSUME LockInventory, Keeps(task'), NEW t \in Tasks,
         taskLock[t] \in Tasks, taskLock'[t] = taskLock[t],
         \/ cont'[taskLock[t]] = cont[taskLock[t]]
         \/ cont[taskLock[t]].at \notin {"suspended", "notified"}
  PROVE  Excused(t)'
<1>1. taskLock[t] # None
  BY ConstantsAssumption
<1>2. CASE taskLock[t] = t /\ cont[t].at = "suspended"
  BY <1>2 DEF Excused
<1>3. CASE cont[taskLock[t]].at = "notified"
  BY <1>3 DEF Excused
<1>4. CASE task[taskLock[t]].state = "killed"
  BY <1>4 DEF Excused, Keeps
<1> QED BY <1>1, <1>2, <1>3, <1>4 DEF LockInventory

(* A step that takes and releases no lock, and in which a task that is     *)
(* still inside a switch or a kill does not move.                          *)
LEMMA FrameLocks ==
  ASSUME LockInventory, TypeOK, Keeps(task'), UNCHANGED <<epLock, taskLock>>,
         \A t \in Tasks : \/ cont'[t] = cont[t]
                         \/ cont[t].at \notin {"short_switched", "suspended", "notified"}
  PROVE  LockInventory'
<1>1. ASSUME NEW e \in Endpoints, epLock'[e] # None
      PROVE  cont'[epLock'[e]] = At("short_switched", e)
  BY <1>1 DEF LockInventory, TypeOK, At
<1>2. ASSUME NEW t \in Tasks, taskLock'[t] # None
      PROVE  Excused(t)'
  <2>1. taskLock[t] \in Tasks /\ taskLock'[t] = taskLock[t]
    BY <1>2 DEF TypeOK
  <2> QED BY <2>1, StillExcused
<1> QED BY <1>1, <1>2 DEF LockInventory, Excused

(* Everything of the invariant, by name.                                   *)
LEMMA GivenParts ==
  ASSUME Given
  PROVE  /\ TypeOK /\ TypeOK' /\ Rendezvous /\ Queues /\ Pairs /\ Current /\ LockInventory
         /\ \A t \in Tasks : Sound(t)
         /\ Keeps(task') /\ Alive(task', cur')
         /\ task \in TaskTable
         /\ \A t \in Tasks : task[t] \in TaskRecord
BY SoundTasks, Typing DEF Given, KernelInvariant, Spared

(* A step in which the tasks of D alone change, none of which is queued    *)
(* afterwards or is being waited for by a callee.                          *)
LEMMA FrameAround ==
  ASSUME Given, Shrunk, NEW D,
         \A t \in Tasks \ D : Quiet(t),
         \A t \in Tasks \cap D : /\ Sound(t)' /\ ~Waits(t)'
                                 /\ task'[t].caller = task[t].caller
                                 /\ task'[t].callee = task[t].callee
                                 /\ \A s \in Tasks : task[s].caller # t
  PROVE  Queues' /\ Pairs' /\ \A t \in Tasks : Sound(t)'
<1>1. Queues /\ Pairs /\ TypeOK' /\ Keeps(task') /\ \A t \in Tasks : Sound(t)
  BY GivenParts
<1>2. \A t \in Tasks : Sound(t)'
  BY <1>1, QuietSound
<1>3. \A t \in Tasks : Waits(t)' => Same(t)
  BY DEF Quiet
<1>4. Queues'
  BY <1>1, <1>3, FrameQueues
<1>5. \A t \in Tasks : task'[t].caller = task[t].caller /\ task'[t].callee = task[t].callee
  BY DEF Quiet, Same, Alike
<1>6. ASSUME NEW s \in Tasks, NEW c \in Tasks, task[s].caller = c
      PROVE  Same(c) /\ ~Waits(c)'
  <2>1. ~Waits(c)
    BY <1>1, <1>6 DEF Pairs, BlockedOn
  <2>2. ~Waits(c)'
    BY <2>1 DEF Waits, Shrunk
  <2>3. c \notin D
    BY <1>6
  <2> QED BY <2>2, <2>3 DEF Quiet
<1>7. Pairs'
  BY <1>1, <1>5, <1>6, FramePairs
<1> QED BY <1>2, <1>4, <1>7

(* Nothing moves.                                                          *)
LEMMA ShrunkStutter ==
  ASSUME Queues, UNCHANGED <<sendQ, recvQ>>
  PROVE  Shrunk
BY DEF Queues, Shrunk

(* The current task when it runs in user mode or finishes a system call.   *)
LEMMA CurrentFacts ==
  ASSUME TypeOK, KernelInvariant, cur \in Tasks, cont[cur].at \notin {"sent", "received"}
  PROVE  /\ ~Waits(cur) /\ task[cur].callee = None
         /\ \A s \in Tasks : task[s].caller # cur
         /\ task[cur].state \notin {"killed", "unused"}
<1>1. task[cur].state \notin {"killed", "unused"}
  BY DEF KernelInvariant, Current
<1>2. ASSUME Waits(cur) PROVE FALSE
  <2>1. PICK e \in Endpoints : cur \in Members(sendQ[e]) \/ cur \in Members(recvQ[e])
    BY <1>2 DEF Waits
  <2> QED BY <2>1 DEF KernelInvariant, Queues, QueuedSender, QueuedReceiver
<1>3. ASSUME NEW s \in Tasks PROVE task[s].caller # cur
  <2>1. task[s].caller = cur => BlockedOn(cur, s)
    BY DEF KernelInvariant, Pairs
  <2> QED BY <2>1 DEF BlockedOn
<1>4. task[cur].callee = None
  BY <1>1, <1>3, Typing DEF KernelInvariant, Pairs
<1> QED BY <1>1, <1>2, <1>3, <1>4

(* A task in a waiting queue.                                              *)
LEMMA WaiterFacts ==
  ASSUME TypeOK, KernelInvariant, NEW t, Waits(t)
  PROVE  /\ t \in Tasks /\ task[t].state # "unused"
         /\ cont[t].at \in {"sent", "received"}
         /\ task[t].callee = None
         /\ \A s \in Tasks : task[s].caller # t
<1>1. PICK e \in Endpoints : t \in Members(sendQ[e]) \/ t \in Members(recvQ[e])
  BY DEF Waits
<1>2. t \in Tasks
  BY <1>1, MembersAreTasks DEF TypeOK
<1>3. cont[t].at \in {"sent", "received"} /\ task[t].callee = None
  BY <1>1 DEF KernelInvariant, Queues, QueuedSender, QueuedReceiver
<1>4. task[t].state # "unused"
  BY <1>2, <1>3 DEF KernelInvariant, Fresh, User, At
<1>5. \A s \in Tasks : task[s].caller # t
  BY <1>2 DEF KernelInvariant, Pairs, BlockedOn
<1> QED BY <1>2, <1>3, <1>4, <1>5

(* The receiver at the head of a queue, and the queue without it.          *)
LEMMA HeadReceiver ==
  ASSUME TypeOK, KernelInvariant, NEW e \in Endpoints, recvQ[e] # <<>>,
         NEW r, r = Head(recvQ[e])
  PROVE  /\ r \in Tasks /\ Waits(r) /\ QueuedReceiver(r, e)
         /\ recvQ' = [recvQ EXCEPT ![e] = Tail(@)] /\ UNCHANGED sendQ =>
              Shrunk /\ ~Waits(r)'
<1>1. /\ recvQ[e] \in Seq(Tasks) /\ Once(recvQ[e])
      /\ recvQ \in [Endpoints -> Seq(Tasks)]
  BY DEF TypeOK, KernelInvariant, Queues
<1>2. /\ r \in Members(recvQ[e]) /\ Once(Tail(recvQ[e]))
      /\ Members(Tail(recvQ[e])) = Members(recvQ[e]) \ {r}
  BY <1>1, TailMembers
<1>3. r \in Tasks /\ Waits(r) /\ QueuedReceiver(r, e)
  BY <1>1, <1>2, MembersAreTasks DEF Waits, KernelInvariant, Queues
<1>4. ASSUME recvQ' = [recvQ EXCEPT ![e] = Tail(@)], UNCHANGED sendQ
      PROVE  Shrunk /\ ~Waits(r)'
  <2>1. \A d \in Endpoints : recvQ'[d] = IF d = e THEN Tail(recvQ[e]) ELSE recvQ[d]
    BY <1>1, <1>4
  <2>2. Shrunk
    BY <1>2, <1>4, <2>1 DEF Shrunk, KernelInvariant, Queues
  <2>3. ASSUME NEW d \in Endpoints PROVE r \notin Members(sendQ'[d]) /\ r \notin Members(recvQ'[d])
    BY <1>2, <1>3, <1>4, <2>1 DEF KernelInvariant, Queues, QueuedSender, QueuedReceiver
  <2> QED BY <2>2, <2>3 DEF Waits
<1> QED BY <1>3, <1>4

(* The sender at the head of a queue, and the queue without it.            *)
LEMMA HeadSender ==
  ASSUME TypeOK, KernelInvariant, NEW e \in Endpoints, sendQ[e] # <<>>,
         NEW s, s = Head(sendQ[e])
  PROVE  /\ s \in Tasks /\ Waits(s) /\ QueuedSender(s, e)
         /\ sendQ' = [sendQ EXCEPT ![e] = Tail(@)] /\ UNCHANGED recvQ =>
              Shrunk /\ ~Waits(s)'
<1>1. /\ sendQ[e] \in Seq(Tasks) /\ Once(sendQ[e])
      /\ sendQ \in [Endpoints -> Seq(Tasks)]
  BY DEF TypeOK, KernelInvariant, Queues
<1>2. /\ s \in Members(sendQ[e]) /\ Once(Tail(sendQ[e]))
      /\ Members(Tail(sendQ[e])) = Members(sendQ[e]) \ {s}
  BY <1>1, TailMembers
<1>3. s \in Tasks /\ Waits(s) /\ QueuedSender(s, e)
  BY <1>1, <1>2, MembersAreTasks DEF Waits, KernelInvariant, Queues
<1>4. ASSUME sendQ' = [sendQ EXCEPT ![e] = Tail(@)], UNCHANGED recvQ
      PROVE  Shrunk /\ ~Waits(s)'
  <2>1. \A d \in Endpoints : sendQ'[d] = IF d = e THEN Tail(sendQ[e]) ELSE sendQ[d]
    BY <1>1, <1>4
  <2>2. Shrunk
    BY <1>2, <1>4, <2>1 DEF Shrunk, KernelInvariant, Queues
  <2>3. ASSUME NEW d \in Endpoints PROVE s \notin Members(sendQ'[d]) /\ s \notin Members(recvQ'[d])
    BY <1>2, <1>3, <1>4, <2>1 DEF KernelInvariant, Queues, QueuedSender, QueuedReceiver
  <2> QED BY <2>2, <2>3 DEF Waits
<1> QED BY <1>3, <1>4

(* A sender joins the queue of an endpoint.                                *)
LEMMA JoinSenders ==
  ASSUME TypeOK, TypeOK', Queues, NEW t \in Tasks, ~Waits(t), NEW e \in Endpoints,
         sendQ' = [sendQ EXCEPT ![e] = PushWaiting(@, t)], UNCHANGED recvQ,
         QueuedSender(t, e)', \A u \in Tasks \ {t} : Waits(u) => Same(u)
  PROVE  Queues' /\ \A u : Waits(u)' => Waits(u) \/ u = t
<1>1. \A d \in Endpoints : sendQ'[d] = IF d = e THEN Append(sendQ[e], t) ELSE sendQ[d]
  BY DEF TypeOK, PushWaiting
<1>2. /\ Members(Append(sendQ[e], t)) = Members(sendQ[e]) \cup {t}
      /\ Once(Append(sendQ[e], t))
  BY AppendMembers DEF TypeOK, Waits, Queues
<1>3. \A d \in Endpoints : /\ Once(sendQ'[d]) /\ Once(recvQ'[d])
                           /\ Members(sendQ'[d]) \subseteq Members(sendQ[d]) \cup {t}
                           /\ t \in Members(sendQ'[d]) => d = e
  BY <1>1, <1>2 DEF Queues, Waits
<1>4. ASSUME NEW d \in Endpoints, NEW u \in Members(sendQ'[d]) PROVE QueuedSender(u, d)'
  <2>1. CASE u = t
    BY <1>3, <1>4, <2>1
  <2>2. CASE u # t
    <3>1. u \in Members(sendQ[d])
      BY <1>3, <2>2
    <3>2. Same(u) /\ QueuedSender(u, d)
      BY <2>2, <3>1, MembersAreTasks DEF Waits, TypeOK, Queues
    <3> QED BY <3>2 DEF Same, Alike, QueuedSender
  <2> QED BY <2>1, <2>2
<1>5. ASSUME NEW d \in Endpoints, NEW u \in Members(recvQ'[d]) PROVE QueuedReceiver(u, d)'
  <2>1. u \in Members(recvQ[d]) /\ u # t
    BY <1>5 DEF Waits
  <2>2. Same(u) /\ QueuedReceiver(u, d)
    BY <2>1, MembersAreTasks DEF Waits, TypeOK, Queues
  <2> QED BY <2>2 DEF Same, Alike, QueuedReceiver
<1>6. \A u : Waits(u)' => Waits(u) \/ u = t
  BY <1>3 DEF Waits
<1> QED BY <1>3, <1>4, <1>5, <1>6 DEF Queues

(* A receiver joins the queue of an endpoint.                              *)
LEMMA JoinReceivers ==
  ASSUME TypeOK, TypeOK', Queues, NEW t \in Tasks, ~Waits(t), NEW e \in Endpoints,
         recvQ' = [recvQ EXCEPT ![e] = PushWaiting(@, t)], UNCHANGED sendQ,
         QueuedReceiver(t, e)', \A u \in Tasks \ {t} : Waits(u) => Same(u)
  PROVE  Queues' /\ \A u : Waits(u)' => Waits(u) \/ u = t
<1>1. \A d \in Endpoints : recvQ'[d] = IF d = e THEN Append(recvQ[e], t) ELSE recvQ[d]
  BY DEF TypeOK, PushWaiting
<1>2. /\ Members(Append(recvQ[e], t)) = Members(recvQ[e]) \cup {t}
      /\ Once(Append(recvQ[e], t))
  BY AppendMembers DEF TypeOK, Waits, Queues
<1>3. \A d \in Endpoints : /\ Once(sendQ'[d]) /\ Once(recvQ'[d])
                           /\ Members(recvQ'[d]) \subseteq Members(recvQ[d]) \cup {t}
                           /\ t \in Members(recvQ'[d]) => d = e
  BY <1>1, <1>2 DEF Queues, Waits
<1>4. ASSUME NEW d \in Endpoints, NEW u \in Members(recvQ'[d]) PROVE QueuedReceiver(u, d)'
  <2>1. CASE u = t
    BY <1>3, <1>4, <2>1
  <2>2. CASE u # t
    <3>1. u \in Members(recvQ[d])
      BY <1>3, <2>2
    <3>2. Same(u) /\ QueuedReceiver(u, d)
      BY <2>2, <3>1, MembersAreTasks DEF Waits, TypeOK, Queues
    <3> QED BY <3>2 DEF Same, Alike, QueuedReceiver
  <2> QED BY <2>1, <2>2
<1>5. ASSUME NEW d \in Endpoints, NEW u \in Members(sendQ'[d]) PROVE QueuedSender(u, d)'
  <2>1. u \in Members(sendQ[d]) /\ u # t
    BY <1>5 DEF Waits
  <2>2. Same(u) /\ QueuedSender(u, d)
    BY <2>1, MembersAreTasks DEF Waits, TypeOK, Queues
  <2> QED BY <2>2 DEF Same, Alike, QueuedSender
<1>6. \A u : Waits(u)' => Waits(u) \/ u = t
  BY <1>3 DEF Waits
<1> QED BY <1>3, <1>4, <1>5, <1>6 DEF Queues

-----------------------------------------------------------------------------
(* Effects that involve nobody but the current task.                       *)

(* The task on the hart is alive; it remains to see that it exists.        *)
LEMMA CurrentNext ==
  ASSUME Given, cur' \in Tasks => task'[cur'].state # "unused"
  PROVE  Current'
BY DEF Given, Spared, Alive, Current

(* Only the states of tasks change, and nobody starts to wait.             *)
LEMMA KeptStates ==
  ASSUME Given, UNCHANGED <<sendQ, recvQ, epLock, taskLock, cont>>,
         \A t \in Tasks : Quiet(t),
         cur' \in Tasks => task'[cur'].state # "unused"
  PROVE  Kept
<1>1. Queues' /\ Pairs' /\ \A t \in Tasks : Sound(t)'
  <2>1. Shrunk
    BY ShrunkStutter, GivenParts
  <2>2. ASSUME NEW D, D = {} PROVE Queues' /\ Pairs' /\ \A t \in Tasks : Sound(t)'
    <3>1. (\A t \in Tasks \ D : Quiet(t)) /\ (\A t \in Tasks \cap D : FALSE)
      BY <2>2
    <3> QED BY <2>1, <3>1, FrameAround
  <2> QED BY <2>2
<1>2. LockInventory'
  BY FrameLocks, GivenParts
<1> QED BY <1>1, <1>2, CurrentNext DEF Kept

(* Nothing changes.                                                        *)
LEMMA KeptStutter ==
  ASSUME Given, UNCHANGED Machine
  PROVE  Kept
BY KeptStates, GivenParts DEF Machine, Quiet, Same, Alike, Current

(* The current task changes, in user mode, and stays in user mode.         *)
LEMMA KeptOwn ==
  ASSUME Given, cur \in Tasks, cont[cur] = User,
         UNCHANGED <<cur, sendQ, recvQ, epLock, taskLock, cont>>,
         NEW r, task' = One(task, cur, r),
         r.callee = task[cur].callee, r.caller = task[cur].caller,
         r.state # "unused",
         r.state = "waiting" => r.ipc \in {"sending", "receiving", "calling"}
  PROVE  Kept
<1>1. \A t \in Tasks : task'[t] = IF t = cur THEN r ELSE task[t]
  BY OneLookup, GivenParts
<1>2. /\ ~Waits(cur) /\ cont[cur].at = "user"
      /\ \A s \in Tasks : task[s].caller # cur
  BY CurrentFacts DEF Given, User, At
<1>3. \A t \in Tasks \ {cur} : Quiet(t)
  BY <1>1 DEF Quiet, Same, Alike
<1>4. ASSUME NEW t, t = cur
      PROVE /\ Sound(t)' /\ ~Waits(t)'
            /\ task'[t].caller = task[t].caller
            /\ task'[t].callee = task[t].callee
            /\ \A s \in Tasks : task[s].caller # t
  <2>1. task'[t] = r /\ cont'[t].at = "user"
    BY <1>1, <1>2, <1>4
  <2>2. Sound(t)'
    BY <2>1 DEF Sound
  <2>3. ~Waits(t)'
    BY <1>2, <1>4 DEF Waits
  <2> QED BY <1>2, <1>4, <2>1, <2>2, <2>3
<1>5. Queues' /\ Pairs' /\ \A t \in Tasks : Sound(t)'
  <2>1. Shrunk
    BY ShrunkStutter, GivenParts
  <2>2. \A t \in Tasks \cap {cur} : t = cur
    OBVIOUS
  <2> QED BY <1>3, <1>4, <2>1, <2>2, FrameAround
<1>6. LockInventory'
  BY FrameLocks, GivenParts
<1> QED BY <1>1, <1>5, <1>6, CurrentNext DEF Kept

(* A change of state, of the kill notification, and nothing else.          *)
LEMMA KeptOne ==
  ASSUME Given, cur \in Tasks, NEW v \in Tasks, NEW r, NEW q, Return(One(task, v, r), q),
         Has(r, r.state, task[v].ipc, task[v].event, task[v].msg, task[v].ep,
             task[v].callee, task[v].caller),
         r.state # "unused", r.state = "waiting" => task[v].state = "waiting"
  PROVE  Kept
<1>1. \A t \in Tasks : task'[t] = IF t = v THEN r ELSE task[t]
  BY OneLookup, GivenParts DEF Return
<1>2. \A t \in Tasks : Quiet(t)
  BY <1>1 DEF Quiet, Same, Alike, Has, Return
<1>3. cur' \in Tasks => task'[cur'].state # "unused"
  BY <1>1, GivenParts DEF Current, Return
<1> QED BY <1>2, <1>3, KeptStates DEF Return

(* A task in user mode, or at the receive half of reply_and_receive, holds *)
(* no lock.                                                                *)
LEMMA HoldsNothing ==
  ASSUME TypeOK, KernelInvariant, cur \in Tasks,
         cont[cur].at \notin {"short_switched", "suspended", "notified"}
  PROVE  /\ \A e \in Endpoints : epLock[e] # cur
         /\ \A t \in Tasks : taskLock[t] # cur
<1>1. cur # None
  BY ConstantsAssumption
<1>2. ASSUME NEW e \in Endpoints, epLock[e] = cur PROVE FALSE
  <2>1. cont[cur] = At("short_switched", e)
    BY <1>1, <1>2 DEF KernelInvariant, LockInventory
  <2> QED BY <2>1 DEF At
<1>3. ASSUME NEW t \in Tasks, taskLock[t] = cur PROVE FALSE
  <2>1. \/ cur = t /\ cont[t].at = "suspended"
        \/ cont[cur].at = "notified" \/ task[cur].state = "killed"
    BY <1>1, <1>3 DEF KernelInvariant, LockInventory
  <2> QED BY <2>1 DEF KernelInvariant, Current
<1> QED BY <1>2, <1>3

(* suspend_task on the current task: it takes its own lock with it.        *)
LEMMA KeptSuspendSelf ==
  ASSUME Given, cur \in Tasks, cont[cur] = User, SuspendSelf
  PROVE  Kept
<1> DEFINE r == InState(task[cur], "suspended")
<1>1. /\ ~Waits(cur) /\ cont[cur].at = "user"
      /\ \A s \in Tasks : task[s].caller # cur
  BY CurrentFacts DEF Given, User, At
<1>2. Has(r, "suspended", task[cur].ipc, task[cur].event, task[cur].msg, task[cur].ep,
          task[cur].callee, task[cur].caller)
  BY GivenParts, RecordFields
<1>3. /\ \A t \in Tasks : task'[t] = IF t = cur THEN r ELSE task[t]
      /\ \A t \in Tasks : cont'[t] = IF t = cur THEN At("suspended", None) ELSE cont[t]
      /\ UNCHANGED <<sendQ, recvQ, epLock>> /\ cur' = Idle
      /\ \A t \in Tasks : taskLock'[t] = IF t = cur THEN cur ELSE taskLock[t]
  BY OneLookup, GivenParts DEF SuspendSelf, Leave, Resched, TypeOK
<1> HIDE DEF r
<1>4. \A t \in Tasks \ {cur} : Quiet(t)
  BY <1>3 DEF Quiet, Same, Alike
<1>5. ASSUME NEW t \in Tasks \cap {cur}
      PROVE /\ Sound(t)' /\ ~Waits(t)'
            /\ task'[t].caller = task[t].caller
            /\ task'[t].callee = task[t].callee
            /\ \A s \in Tasks : task[s].caller # t
  <2>1. task'[t] = r /\ cont'[t].at = "suspended"
    BY <1>3 DEF At
  <2>2. Sound(t)'
    BY <1>2, <2>1 DEF Sound, Has
  <2>3. ~Waits(t)'
    BY <1>1, <1>3 DEF Waits
  <2> QED BY <1>1, <1>2, <2>1, <2>2, <2>3 DEF Has
<1>6. Queues' /\ Pairs' /\ \A t \in Tasks : Sound(t)'
  <2>1. Shrunk
    BY <1>3, ShrunkStutter, GivenParts
  <2> QED BY <1>4, <1>5, <2>1, FrameAround
<1>7. LockInventory'
  <2>1. /\ \A e \in Endpoints : epLock[e] # cur
        /\ \A t \in Tasks : taskLock[t] # cur
    BY <1>1, HoldsNothing DEF Given
  <2>2. ASSUME NEW e \in Endpoints, epLock'[e] # None
        PROVE  cont'[epLock'[e]] = At("short_switched", e)
    BY <1>3, <2>1, <2>2, GivenParts DEF LockInventory, TypeOK
  <2>3. ASSUME NEW t \in Tasks, taskLock'[t] # None
        PROVE  Excused(t)'
    <3>1. CASE t = cur
      BY <1>3, <3>1 DEF At, Excused
    <3>2. CASE t # cur
      <4>1. taskLock'[t] = taskLock[t] /\ taskLock[t] \in Tasks \ {cur}
        BY <1>3, <2>1, <2>3, <3>2, GivenParts DEF TypeOK
      <4>2. cont'[taskLock[t]] = cont[taskLock[t]]
        BY <1>3, <4>1
      <4> QED BY <4>1, <4>2, StillExcused, GivenParts
    <3> QED BY <3>1, <3>2
  <2> QED BY <2>2, <2>3 DEF LockInventory, Excused
<1>8. Current'
  BY <1>3, ConstantsAssumption DEF Current
<1> QED BY <1>6, <1>7, <1>8 DEF Kept

(* The rest of a system call: the locks it held across the switch are      *)
(* released.                                                               *)
LEMMA KeptContinue ==
  ASSUME Given, Continue
  PROVE  Kept
<1>1. CASE UNCHANGED Machine
  BY <1>1, KeptStutter
<1>2. CASE ~UNCHANGED Machine
  <2> DEFINE x == cont[cur].on
  <2>1. /\ cur \in Tasks
        /\ \/ /\ cont[cur].at \in {"sent", "received"} /\ Woken = NoFault
              /\ BackToUser(epLock, taskLock)
           \/ /\ cont[cur].at = "short_switched"
              /\ BackToUser([epLock EXCEPT ![x] = None], taskLock)
           \/ cont[cur].at = "switched" /\ BackToUser(epLock, taskLock)
           \/ /\ cont[cur].at = "suspended"
              /\ BackToUser(epLock, [taskLock EXCEPT ![cur] = None])
           \/ /\ cont[cur].at = "notified"
              /\ BackToUser(epLock, ReleasedByKiller)
    BY <1>2 DEF Continue, Try, Machine
  <2>2. /\ UNCHANGED <<cur, task, readyQ, sendQ, recvQ>>
        /\ \A t \in Tasks : cont'[t] = IF t = cur THEN User ELSE cont[t]
    BY <2>1, GivenParts DEF BackToUser, Leave, TypeOK
  <2>3. ~Waits(cur) /\ \A s \in Tasks : task[s].caller # cur
    <3>1. CASE cont[cur].at \notin {"sent", "received"}
      BY <2>1, <3>1, CurrentFacts DEF Given
    <3>2. CASE cont[cur].at \in {"sent", "received"}
      <4>1. Woken = NoFault
        BY <2>1, <3>2
      <4>2. task[cur].ipc \in {"none", "canceled"}
        BY <4>1 DEF Woken, ??, Check, NoFault
      <4>3. ASSUME Waits(cur) PROVE FALSE
        <5>1. PICK e \in Endpoints : cur \in Members(sendQ[e]) \/ cur \in Members(recvQ[e])
          BY <4>3 DEF Waits
        <5> QED BY <4>2, <5>1, GivenParts DEF Queues, QueuedSender, QueuedReceiver
      <4>4. ASSUME NEW s \in Tasks PROVE task[s].caller # cur
        <5>1. task[s].caller = cur => BlockedOn(cur, s)
          BY <2>1, GivenParts DEF Pairs
        <5> QED BY <4>2, <5>1 DEF BlockedOn
      <4> QED BY <4>3, <4>4
    <3> QED BY <3>1, <3>2
  <2>4. \A t \in Tasks \ {cur} : Quiet(t)
    BY <2>2 DEF Quiet, Same, Alike
  <2>5. ASSUME NEW t \in Tasks \cap {cur}
        PROVE /\ Sound(t)' /\ ~Waits(t)'
              /\ task'[t].caller = task[t].caller
              /\ task'[t].callee = task[t].callee
              /\ \A s \in Tasks : task[s].caller # t
    <3>1. task'[t] = task[t] /\ cont'[t] = User /\ cont'[t].at = "user" /\ Sound(t)
      BY <2>2, GivenParts DEF User, At
    <3>2. Sound(t)'
      BY <3>1 DEF Sound
    <3>3. ~Waits(t)'
      BY <2>2, <2>3 DEF Waits
    <3> QED BY <2>3, <3>1, <3>2, <3>3
  <2>6. Queues' /\ Pairs' /\ \A t \in Tasks : Sound(t)'
    <3>1. Shrunk
      BY <2>2, ShrunkStutter, GivenParts
    <3> QED BY <2>4, <2>5, <3>1, FrameAround
  <2>7. Current'
    BY <2>2, GivenParts DEF Current
  <2>8. ASSUME NEW e \in Endpoints, epLock'[e] # None
        PROVE  cont'[epLock'[e]] = At("short_switched", e)
    <3>1. /\ epLock'[e] = epLock[e] /\ epLock[e] \in Tasks
          /\ cont[epLock[e]] = At("short_switched", e)
      BY <2>1, <2>8, GivenParts DEF BackToUser, LockInventory, TypeOK
    <3>2. epLock[e] # cur
      BY <2>1, <2>8, <3>1, GivenParts DEF BackToUser, TypeOK, At
    <3> QED BY <2>2, <3>1, <3>2
  <2>9. ASSUME NEW t \in Tasks, taskLock'[t] # None
        PROVE  Excused(t)'
    <3>1. taskLock'[t] = taskLock[t] /\ taskLock[t] \in Tasks
      BY <2>1, <2>9, GivenParts DEF BackToUser, ReleasedByKiller, TypeOK
    <3>2. taskLock[t] # cur
      <4>1. CASE cont[cur].at = "notified"
        BY <2>1, <2>9, <3>1, <4>1, ConstantsAssumption DEF BackToUser, ReleasedByKiller
      <4>2. CASE cont[cur].at # "notified" /\ taskLock[t] = cur
        <5>1. t = cur /\ cont[cur].at = "suspended"
          BY <2>1, <4>2, ConstantsAssumption, GivenParts DEF LockInventory, Current
        <5> QED BY <2>1, <2>9, <5>1, GivenParts DEF BackToUser, TypeOK
      <4> QED BY <4>1, <4>2
    <3>3. cont'[taskLock[t]] = cont[taskLock[t]]
      BY <2>2, <3>1, <3>2
    <3> QED BY <3>1, <3>3, StillExcused, GivenParts
  <2> QED BY <2>6, <2>7, <2>8, <2>9 DEF Kept, LockInventory, Excused
<1> QED BY <1>1, <1>2

-----------------------------------------------------------------------------
(* The sends and the calls.                                                *)

(* A receiver is woken and switched to; a short send keeps the endpoint's  *)
(* lock.                                                                   *)
LEMMA KeptHandOver ==
  ASSUME Given, cur \in Tasks, cont[cur] = User, NEW e \in Endpoints, recvQ[e] # <<>>,
         NEW msg \in MsgState, NEW ep, NEW place, HandOver(e, msg, ep, place),
         \/ ep = epLock /\ place = At("switched", e)
         \/ ep = [epLock EXCEPT ![e] = cur] /\ place = At("short_switched", e)
  PROVE  Kept
<1>1. PICK r : r = Head(recvQ[e])
  OBVIOUS
<1>2. PICK mine : mine = InState(WithMsg(task[cur], msg), "ready")
  OBVIOUS
<1>3. PICK theirs : theirs = InState(WakeReceiver(task[r], "none"), "running")
  OBVIOUS
<1>4. /\ ~Waits(cur) /\ cont[cur].at = "user"
      /\ \A s \in Tasks : task[s].caller # cur
  BY CurrentFacts DEF Given, User, At
<1>5. r \in Tasks /\ QueuedReceiver(r, e) /\ Waits(r)
  BY <1>1, HeadReceiver DEF Given
<1>6. (\A s \in Tasks : task[s].caller # r) /\ task[r].state # "unused" /\ r # cur
  BY <1>4, <1>5, WaiterFacts DEF Given
<1>7. Has(mine, "ready", task[cur].ipc, task[cur].event, msg, task[cur].ep,
          task[cur].callee, task[cur].caller)
  <2>1. WithMsg(task[cur], msg) \in TaskRecord
    BY GivenParts, RecordTypes
  <2> QED BY <1>2, <2>1, GivenParts, RecordFields DEF Has
<1>8. Has(theirs, "running", "none", task[r].event, "empty", None,
          task[r].callee, task[r].caller)
  <2>1. WakeReceiver(task[r], "none") \in TaskRecord
    BY <1>5, GivenParts, RecordTypes DEF IpcState
  <2> QED BY <1>3, <1>5, <2>1, GivenParts, RecordFields DEF Has
<1>9. /\ \A t \in Tasks : task'[t] = IF t = r THEN theirs ELSE IF t = cur THEN mine ELSE task[t]
      /\ cur' = r
      /\ recvQ' = [recvQ EXCEPT ![e] = Tail(@)]
      /\ \A t \in Tasks : cont'[t] = IF t = cur THEN place ELSE cont[t]
      /\ epLock' = ep /\ UNCHANGED <<sendQ, taskLock>>
  BY <1>1, <1>2, <1>3, TwoLookup, GivenParts DEF HandOver, SwitchTask, Leave, TypeOK
<1>10. Shrunk /\ ~Waits(r)'
  BY <1>1, <1>9, HeadReceiver DEF Given
<1>11. \A t \in Tasks \ {cur, r} : Quiet(t)
  BY <1>9 DEF Quiet, Same, Alike
<1>12. ASSUME NEW t \in Tasks \cap {cur, r}
       PROVE /\ Sound(t)' /\ ~Waits(t)'
             /\ task'[t].caller = task[t].caller
             /\ task'[t].callee = task[t].callee
             /\ \A s \in Tasks : task[s].caller # t
  <2>1. CASE t = cur
    <3>1. task'[t] = mine /\ cont'[t].at \in {"switched", "short_switched"}
      BY <1>6, <1>9, <2>1 DEF At
    <3>2. Sound(t)'
      BY <1>7, <3>1 DEF Sound, Has
    <3>3. ~Waits(t)'
      BY <1>4, <1>10, <2>1 DEF Waits, Shrunk
    <3> QED BY <1>4, <1>7, <2>1, <3>1, <3>2, <3>3 DEF Has
  <2>2. CASE t = r
    <3>1. task'[t] = theirs /\ cont'[t].at = "received"
      BY <1>5, <1>6, <1>9, <2>2 DEF QueuedReceiver
    <3>2. Sound(t)'
      BY <1>8, <3>1 DEF Sound, Has
    <3> QED BY <1>6, <1>8, <1>10, <2>2, <3>1, <3>2 DEF Has
  <2> QED BY <2>1, <2>2
<1>13. Queues' /\ Pairs' /\ \A t \in Tasks : Sound(t)'
  BY <1>10, <1>11, <1>12, FrameAround
<1>14. LockInventory'
  <2>1. CASE ep = epLock
    BY <1>4, <1>9, <2>1, FrameLocks, GivenParts
  <2>2. CASE ep = [epLock EXCEPT ![e] = cur] /\ place = At("short_switched", e)
    <3>1. /\ \A d \in Endpoints : epLock[d] # cur
          /\ \A t \in Tasks : taskLock[t] # cur
      BY <1>4, HoldsNothing DEF Given
    <3>2. ASSUME NEW d \in Endpoints, epLock'[d] # None
          PROVE  cont'[epLock'[d]] = At("short_switched", d)
      <4>1. CASE d = e
        BY <1>9, <2>2, <4>1, GivenParts DEF TypeOK
      <4>2. CASE d # e
        BY <1>9, <2>2, <3>1, <3>2, <4>2, GivenParts DEF LockInventory, TypeOK
      <4> QED BY <4>1, <4>2
    <3>3. ASSUME NEW t \in Tasks, taskLock'[t] # None
          PROVE  Excused(t)'
      <4>1. taskLock'[t] = taskLock[t] /\ taskLock[t] \in Tasks \ {cur}
        BY <1>9, <3>1, <3>3, GivenParts DEF TypeOK
      <4>2. cont'[taskLock[t]] = cont[taskLock[t]]
        BY <1>9, <4>1
      <4> QED BY <4>1, <4>2, StillExcused, GivenParts
    <3> QED BY <3>2, <3>3 DEF LockInventory, Excused
  <2> QED BY <2>1, <2>2
<1>15. Current'
  BY <1>5, <1>8, <1>9, CurrentNext DEF Has
<1> QED BY <1>13, <1>14, <1>15 DEF Kept

(* The current task joins the senders of an endpoint.                      *)
LEMMA KeptBlockSender ==
  ASSUME Given, cur \in Tasks, cont[cur] = User, NEW e \in Endpoints, NEW r,
         NEW ipc \in {"sending", "calling"}, NEW msg, ipc = "calling" => msg = "long",
         Has(r, "waiting", ipc, "send", msg, e, task[cur].callee, task[cur].caller),
         BlockSender(e, r)
  PROVE  Kept
<1>1. /\ ~Waits(cur) /\ cont[cur].at = "user" /\ task[cur].callee = None
      /\ \A s \in Tasks : task[s].caller # cur
  BY CurrentFacts DEF Given, User, At
<1>2. /\ \A t \in Tasks : task'[t] = IF t = cur THEN r ELSE task[t]
      /\ \A t \in Tasks : cont'[t] = IF t = cur THEN At("sent", None) ELSE cont[t]
      /\ sendQ' = [sendQ EXCEPT ![e] = PushWaiting(@, cur)]
      /\ cur' = Idle /\ UNCHANGED <<readyQ, recvQ, epLock, taskLock>>
  BY OneLookup, GivenParts DEF BlockSender, Leave, Resched, TypeOK
<1>3. \A t \in Tasks \ {cur} : Quiet(t)
  BY <1>2 DEF Quiet, Same, Alike
<1>4. PICK me : me = cur
  OBVIOUS
<1>5. task'[me] = r /\ cont'[me].at = "sent"
  BY <1>2, <1>4 DEF At
<1>6. QueuedSender(me, e)' /\ Sound(me)'
  BY <1>1, <1>5 DEF QueuedSender, Sound, Has
<1>7. Queues' /\ \A u : Waits(u)' => Waits(u) \/ u = me
  BY <1>1, <1>2, <1>3, <1>4, <1>6, JoinSenders, GivenParts DEF Quiet
<1>8. Pairs'
  <2>1. \A t \in Tasks : task'[t].caller = task[t].caller /\ task'[t].callee = task[t].callee
    BY <1>2 DEF Has
  <2>2. ASSUME NEW s \in Tasks, NEW c \in Tasks, task[s].caller = c
        PROVE  Same(c) /\ ~Waits(c)'
    <3>1. c # cur /\ ~Waits(c)
      BY <1>1, <2>2, GivenParts DEF Pairs, BlockedOn
    <3> QED BY <1>3, <1>4, <1>7, <3>1 DEF Quiet
  <2> QED BY <2>1, <2>2, FramePairs, GivenParts
<1>9. \A t \in Tasks : Sound(t)'
  BY <1>3, <1>4, <1>6, QuietSound, GivenParts
<1>10. LockInventory'
  BY <1>1, <1>2, FrameLocks, GivenParts
<1>11. Current'
  BY <1>2, ConstantsAssumption DEF Current
<1> QED BY <1>7, <1>8, <1>9, <1>10, <1>11 DEF Kept

(* The task s0 gets the caller c0, or none: the caller it had is freed or  *)
(* killed, and nobody else's call changes.                                 *)
LEMMA PairsChange ==
  ASSUME Pairs, Keeps(task'), NEW s0 \in Tasks, NEW c0 \in Tasks \cup {None},
         task'[s0].caller = c0,
         c0 \in Tasks => BlockedOn(c0, s0)' /\ task'[c0].callee = s0,
         \A t \in Tasks \ {s0} : task'[t].caller = task[t].caller,
         \A t \in Tasks \ {c0} : \/ task'[t].callee = task[t].callee
                                 \/ task'[t].callee = None,
         \A t \in Tasks \ {c0} : task[s0].caller = t =>
            task'[t].callee = None \/ task'[t].state = "killed",
         \A s \in Tasks \ {s0}, c \in Tasks : task[s].caller = c => Alike(c) /\ ~Waits(c)'
  PROVE  Pairs'
<1> SUFFICES ASSUME NEW s \in Tasks, NEW c \in Tasks
             PROVE  /\ task'[s].caller = c => BlockedOn(c, s)'
                    /\ task'[c].callee = s => \/ task'[s].caller = c
                                              \/ task'[c].state = "killed"
  BY DEF Pairs
<1>1. ASSUME task'[s].caller = c PROVE BlockedOn(c, s)'
  <2>1. CASE s = s0
    BY <1>1, <2>1
  <2>2. CASE s # s0
    <3>1. BlockedOn(c, s) /\ Alike(c) /\ ~Waits(c)'
      BY <1>1, <2>2 DEF Pairs
    <3> QED BY <3>1 DEF BlockedOn, Alike
  <2> QED BY <2>1, <2>2
<1>2. ASSUME task'[c].callee = s PROVE task'[s].caller = c \/ task'[c].state = "killed"
  <2>1. CASE c = c0
    BY <1>2, <2>1
  <2>2. CASE c # c0
    <3>1. s # None
      BY ConstantsAssumption
    <3>2. task[c].callee = s
      BY <1>2, <2>2, <3>1
    <3>3. task[s].caller = c \/ task'[c].state = "killed"
      BY <3>2 DEF Pairs, Keeps
    <3> QED BY <1>2, <2>2, <3>1, <3>3
  <2> QED BY <2>1, <2>2
<1> QED BY <1>1, <1>2

(* ipc_call with a receiver waiting: it becomes the callee.                *)
LEMMA KeptCallReceiver ==
  ASSUME Given, cur \in Tasks, cont[cur] = User, NEW e \in Endpoints, recvQ[e] # <<>>,
         CallReceiver(e)
  PROVE  Kept
<1>1. PICK r : r = Head(recvQ[e])
  OBVIOUS
<1>2. PICK mine : mine = WithCallee(AsCaller(task[cur], e), r)
  OBVIOUS
<1>3. PICK theirs : theirs = WithCaller(WakeReceiver(task[r], "none"), cur)
  OBVIOUS
<1>4. /\ ~Waits(cur) /\ cont[cur].at = "user" /\ task[cur].callee = None
      /\ \A s \in Tasks : task[s].caller # cur
  BY CurrentFacts DEF Given, User, At
<1>5. r \in Tasks /\ QueuedReceiver(r, e) /\ Waits(r)
  BY <1>1, HeadReceiver DEF Given
<1>6. (\A s \in Tasks : task[s].caller # r) /\ r # cur
  BY <1>4, <1>5, WaiterFacts DEF Given
<1>7. Has(mine, "waiting", "calling", "send", "long", e, r, task[cur].caller)
  <2>1. AsCaller(task[cur], e) \in TaskRecord
    BY GivenParts, RecordTypes
  <2> QED BY <1>2, <2>1, GivenParts, RecordFields DEF Has
<1>8. Has(theirs, "ready", "none", task[r].event, "empty", None, task[r].callee, cur)
  <2>1. WakeReceiver(task[r], "none") \in TaskRecord
    BY <1>5, GivenParts, RecordTypes DEF IpcState
  <2> QED BY <1>3, <1>5, <2>1, GivenParts, RecordFields DEF Has
<1>9. /\ \A t \in Tasks : task'[t] = IF t = r THEN theirs ELSE IF t = cur THEN mine ELSE task[t]
      /\ recvQ' = [recvQ EXCEPT ![e] = Tail(@)]
      /\ \A t \in Tasks : cont'[t] = IF t = cur THEN At("sent", None) ELSE cont[t]
      /\ cur' = Idle /\ UNCHANGED <<sendQ, epLock, taskLock>>
  BY <1>1, <1>2, <1>3, TwoLookup, GivenParts DEF CallReceiver, Resched, Leave, TypeOK
<1>10. Shrunk /\ ~Waits(r)'
  BY <1>1, <1>9, HeadReceiver DEF Given
<1>11. \A t \in Tasks \ {cur, r} : Quiet(t)
  BY <1>9 DEF Quiet, Same, Alike
<1>12. PICK me : me = cur
  OBVIOUS
<1>13. /\ task'[me] = mine /\ cont'[me].at = "sent" /\ ~Waits(me)'
       /\ task'[r] = theirs /\ cont'[r].at = "received"
  BY <1>4, <1>5, <1>6, <1>9, <1>10, <1>12, SMTT(20) DEF At, QueuedReceiver, Waits, Shrunk
<1>14. Sound(me)' /\ Sound(r)'
  BY <1>7, <1>8, <1>13 DEF Sound, Has
<1>15. \A t \in Tasks : Sound(t)'
  BY <1>11, <1>12, <1>14, QuietSound, GivenParts
<1>16. Queues'
  <2>1. \A t \in Tasks : Waits(t)' => Same(t)
    BY <1>10, <1>11, <1>12, <1>13 DEF Quiet
  <2> QED BY <1>10, <2>1, FrameQueues, GivenParts
<1>17. Pairs'
  <2>1. BlockedOn(me, r)' /\ task'[me].callee = r /\ task'[r].caller = me /\ task[r].caller = None
    BY <1>5, <1>6, <1>7, <1>8, <1>12, <1>13 DEF BlockedOn, Has, QueuedReceiver
  <2>2. /\ \A t \in Tasks \ {r} : task'[t].caller = task[t].caller
        /\ \A t \in Tasks \ {me} : task'[t].callee = task[t].callee
    BY <1>7, <1>8, <1>9, <1>12 DEF Has
  <2>3. ASSUME NEW s \in Tasks, NEW c \in Tasks, task[s].caller = c
        PROVE  Same(c) /\ ~Waits(c)'
    <3>1. c \notin {cur, r} /\ ~Waits(c)
      BY <1>4, <1>6, <2>3, GivenParts DEF Pairs, BlockedOn
    <3> QED BY <1>10, <1>11, <3>1 DEF Quiet, Waits, Shrunk
  <2>4. me \in Tasks \cup {None} /\ r \in Tasks /\ \A t \in Tasks : task[r].caller # t
    BY <1>5, <1>12, <2>1, ConstantsAssumption
  <2> QED BY <2>1, <2>2, <2>3, <2>4, PairsChange, GivenParts DEF Same
<1>18. LockInventory'
  BY <1>4, <1>9, FrameLocks, GivenParts
<1>19. Current'
  BY <1>9, ConstantsAssumption DEF Current
<1> QED BY <1>15, <1>16, <1>17, <1>18, <1>19 DEF Kept

(* The sends and the calls keep the invariant.                             *)
LEMMA KeptSends ==
  ASSUME Given, NEW e \in Endpoints,
         SendShort(e) \/ NbSendShort(e) \/ SendLong(e) \/ NbSendLong(e) \/ Call(e)
  PROVE  Kept
<1>1. cur \in Tasks /\ cont[cur] = User /\ task[cur] \in TaskRecord
      /\ task[cur].state \notin {"killed", "unused"} /\ Sound(cur)
  BY GivenParts DEF SendShort, NbSendShort, SendLong, NbSendLong, Call, Calls, InUserMode, Current
<1>2. ASSUME NEW msg \in MsgState, Return(One(task, cur, WithMsg(task[cur], msg)), readyQ)
      PROVE  Kept
  BY <1>1, <1>2, RecordFields, KeptOwn DEF Return, Has, Sound
<1>3. ASSUME Return(One(task, cur, AsCaller(task[cur], e)), readyQ) PROVE Kept
  BY <1>1, <1>3, RecordFields, KeptOwn DEF Return, Has
<1>4. ASSUME NEW msg, BlockSender(e, AsSender(task[cur], e, msg)) PROVE Kept
  <2>1. Has(AsSender(task[cur], e, msg), "waiting", "sending", "send", msg, e,
            task[cur].callee, task[cur].caller)
    BY <1>1, RecordFields
  <2> QED BY <1>1, <1>4, <2>1, KeptBlockSender
<1>5. ASSUME BlockSender(e, AsCaller(task[cur], e)) PROVE Kept
  <2>1. Has(AsCaller(task[cur], e), "waiting", "calling", "send", "long", e,
            task[cur].callee, task[cur].caller)
    BY <1>1, RecordFields
  <2> QED BY <1>1, <1>5, <2>1, KeptBlockSender
<1>6. ASSUME recvQ[e] # <<>>,
             \/ HandOver(e, "short", [epLock EXCEPT ![e] = cur], At("short_switched", e))
             \/ HandOver(e, "long", epLock, At("switched", e))
      PROVE  Kept
  BY <1>1, <1>6, KeptHandOver DEF MsgState
<1>7. ASSUME recvQ[e] # <<>>, CallReceiver(e) PROVE Kept
  BY <1>1, <1>7, KeptCallReceiver
<1>8. CASE UNCHANGED Machine
  BY <1>8, KeptStutter
<1>9. CASE ~UNCHANGED Machine
  <2>2. CASE SendShort(e) \/ NbSendShort(e)
    BY <1>2, <1>4, <1>6, <2>2, <1>9
    DEF SendShort, NbSendShort, SendShortDeliver, Try, Machine, MsgState
  <2>3. CASE SendLong(e) \/ NbSendLong(e)
    BY <1>2, <1>4, <1>6, <2>3, <1>9
    DEF SendLong, NbSendLong, SendLongDeliver, Try, Machine, MsgState
  <2>4. CASE Call(e)
    BY <1>3, <1>5, <1>7, <1>9, <2>4 DEF Call, Try, Machine
  <2> QED BY <2>2, <2>3, <2>4
<1> QED BY <1>8, <1>9

-----------------------------------------------------------------------------
(* The receives.                                                           *)

(* The task that waits for a reply of the current task, if there is one,   *)
(* and what waking it makes of it.                                         *)
LEMMA OwedReply ==
  ASSUME Given, cur \in Tasks, NEW c, c = task[cur].caller,
         NEW why, NEW woken, woken = WakeCaller(task[c], why)
  PROVE  /\ c \in Tasks \cup {None}
         /\ c \in Tasks =>
              /\ BlockedOn(c, cur) /\ \A s \in Tasks \ {cur} : task[s].caller # c
              /\ Has(woken, "ready", why, "none", "empty", None, None, task[c].caller)
<1>1. c \in Tasks \cup {None}
  BY Typing, GivenParts
<1>2. ASSUME c \in Tasks
      PROVE  /\ BlockedOn(c, cur) /\ \A s \in Tasks \ {cur} : task[s].caller # c
             /\ Has(woken, "ready", why, "none", "empty", None, None, task[c].caller)
  <2>1. BlockedOn(c, cur)
    BY <1>2, GivenParts DEF Pairs
  <2>2. ASSUME NEW s \in Tasks \ {cur}, task[s].caller = c PROVE FALSE
    <3>1. BlockedOn(c, s)
      BY <1>2, <2>2, GivenParts DEF Pairs
    <3> QED BY <2>1, <3>1 DEF BlockedOn
  <2>3. Has(woken, "ready", why, "none", "empty", None, None, task[c].caller)
    BY <1>2, GivenParts, RecordFields
  <2> QED BY <2>1, <2>2, <2>3
<1> QED BY <1>1, <1>2

(* The table once a receive has canceled the caller, if there is one.      *)
LEMMA CanceledCaller ==
  ASSUME Given, cur \in Tasks, NEW c, c = task[cur].caller,
         NEW woken, woken = WakeCaller(task[c], "canceled")
  PROVE  /\ TasksAtReceive \in TaskTable
         /\ \A t \in Tasks : TasksAtReceive[t] = IF t = c THEN woken ELSE task[t]
<1>1. TasksAtReceive \in TaskTable
  BY AtReceiveTypes, GivenParts
<1> QED BY <1>1, OneLookup, GivenParts, ConstantsAssumption DEF TasksAtReceive

(* A reply, or a receive that ends without a new caller: the old one is    *)
(* woken, s may be a sender that was served, and everybody else is left    *)
(* alone.                                                                  *)
LEMMA CallerWoken ==
  ASSUME Given, cur \in Tasks, cont[cur].at \notin {"sent", "received"},
         NEW c, c = task[cur].caller,
         NEW why, NEW woken, woken = WakeCaller(task[c], why),
         NEW mine, mine.caller = None, mine.callee = task[cur].callee,
         NEW s, s \in Tasks => s # cur /\ Waits(s), NEW theirs,
         s \in Tasks => theirs.caller = task[s].caller /\ theirs.callee = task[s].callee,
         \A t \in Tasks : task'[t] = IF t = cur THEN mine ELSE
                                     IF t = s THEN theirs ELSE IF t = c THEN woken ELSE task[t],
         \A t \in Tasks \ {cur} : cont'[t] = cont[t],
         \A t : Waits(t)' => Waits(t) \/ t = cur
  PROVE  /\ Pairs'
         /\ \A t \in Tasks \ {cur, s} : Sound(t)'
         /\ \A t \in Tasks \ {cur, s} : Waits(t) => Same(t)
<1>1. PICK me \in Tasks : me = cur
  OBVIOUS
<1>2. (\A t \in Tasks : task[t].caller # cur) /\ task[cur].callee = None
  BY CurrentFacts DEF Given
<1>3. /\ c \in Tasks \cup {None}
      /\ c \in Tasks =>
           /\ BlockedOn(c, cur) /\ \A t \in Tasks \ {cur} : task[t].caller # c
           /\ Has(woken, "ready", why, "none", "empty", None, None, task[c].caller)
  BY OwedReply
<1>4. s \in Tasks => task[s].callee = None /\ \A t \in Tasks : task[t].caller # s
  BY WaiterFacts DEF Given
<1>5. c \in Tasks => c # cur /\ c # s /\ ~Waits(c)
  BY <1>3 DEF BlockedOn
<1>6. \A t \in Tasks \ {cur, s, c} : Quiet(t)
  BY DEF Quiet, Same, Alike
<1>7. c \in Tasks => task'[c] = woken /\ cont'[c].at = "sent"
  BY <1>3, <1>5 DEF BlockedOn
<1>8. c \in Tasks => Sound(c)'
  BY <1>3, <1>7 DEF Sound, Has
<1>9. \A t \in Tasks \ {cur, s} : Sound(t)'
  BY <1>6, <1>8, QuietSound, GivenParts
<1>10. \A t \in Tasks \ {cur, s} : Waits(t) => Same(t)
  BY <1>5, <1>6 DEF Quiet
<1>11. Pairs'
  <2>1. task'[me].caller = None /\ None \in Tasks \cup {None} /\ None \notin Tasks
    BY <1>1, ConstantsAssumption
  <2>2. \A t \in Tasks \ {me} : task'[t].caller = task[t].caller
    BY <1>1, <1>3 DEF Has
  <2>3. \A t \in Tasks : task'[t].callee = task[t].callee \/ task'[t].callee = None
    BY <1>3 DEF Has
  <2>4. \A t \in Tasks : task[me].caller = t => task'[t].callee = None
    BY <1>1, <1>3, <1>5, <1>7 DEF Has
  <2>5. ASSUME NEW u \in Tasks \ {me}, NEW d \in Tasks, task[u].caller = d
        PROVE  Same(d) /\ ~Waits(d)'
    <3>1. d \notin {cur, s, c}
      BY <1>1, <1>2, <1>3, <1>4, <2>5
    <3>2. ~Waits(d)
      BY <2>5, GivenParts DEF Pairs, BlockedOn
    <3> QED BY <1>6, <3>1, <3>2 DEF Quiet
  <2> QED BY <2>1, <2>2, <2>3, <2>4, <2>5, PairsChange, GivenParts DEF Same
<1> QED BY <1>9, <1>10, <1>11

(* No sender: the current task joins the receivers.                        *)
LEMMA KeptWaitForSender ==
  ASSUME Given, cur \in Tasks, NEW e \in Endpoints, cont[cur] \in {User, At("replied", e)},
         WaitForSender(e)
  PROVE  Kept
<1>1. PICK c : c = task[cur].caller
  OBVIOUS
<1>2. PICK woken : woken = WakeCaller(task[c], "canceled")
  OBVIOUS
<1>3. PICK mine : mine = AsReceiver(Receiver, e)
  OBVIOUS
<1>4. cont[cur].at \in {"user", "replied"} /\ ~Waits(cur) /\ task[cur].callee = None
  BY CurrentFacts DEF Given, User, At
<1>5. Has(mine, "waiting", "receiving", task[cur].event, "long", e, task[cur].callee, None)
  BY <1>3, ReceiverFields, RecordFields, GivenParts DEF Has
<1>6. /\ \A t \in Tasks : task'[t] = IF t = cur THEN mine ELSE IF t = c THEN woken ELSE task[t]
      /\ \A t \in Tasks : cont'[t] = IF t = cur THEN At("received", None) ELSE cont[t]
      /\ recvQ' = [recvQ EXCEPT ![e] = PushWaiting(@, cur)]
      /\ cur' = Idle /\ UNCHANGED <<sendQ, epLock, taskLock>>
  BY <1>1, <1>2, <1>3, CanceledCaller, OneLookup, GivenParts
  DEF WaitForSender, Leave, Resched, TypeOK
<1>7. PICK me \in Tasks : me = cur
  OBVIOUS
<1>8. task'[me] = mine /\ cont'[me].at = "received"
  BY <1>6, <1>7 DEF At
<1>9. QueuedReceiver(me, e)' /\ Sound(me)'
  BY <1>4, <1>5, <1>8 DEF QueuedReceiver, Sound, Has
<1>10. \A t : Waits(t)' => Waits(t) \/ t = cur
  <2>1. \A d \in Endpoints : recvQ'[d] = IF d = e THEN Append(recvQ[e], cur) ELSE recvQ[d]
    BY <1>6, GivenParts DEF TypeOK, PushWaiting
  <2>2. Members(Append(recvQ[e], cur)) = Members(recvQ[e]) \cup {cur}
    BY AppendMembers, GivenParts DEF TypeOK
  <2> QED BY <1>6, <2>1, <2>2 DEF Waits
<1>11. PICK s : s = None
  OBVIOUS
<1>12. s \notin Tasks
  BY <1>11, ConstantsAssumption
<1>13. /\ Pairs'
       /\ \A t \in Tasks \ {cur, s} : Sound(t)'
       /\ \A t \in Tasks \ {cur, s} : Waits(t) => Same(t)
  BY <1>1, <1>2, <1>4, <1>5, <1>6, <1>10, <1>12, CallerWoken DEF Has
<1>14. Queues'
  BY <1>4, <1>6, <1>7, <1>9, <1>12, <1>13, JoinReceivers, GivenParts
<1>15. LockInventory'
  BY <1>4, <1>6, FrameLocks, GivenParts
<1>16. Current'
  BY <1>6, ConstantsAssumption DEF Current
<1> QED BY <1>7, <1>9, <1>12, <1>13, <1>14, <1>15, <1>16 DEF Kept

(* The receive ends with no sender served: none was waiting, or the        *)
(* transfer from the one taken off the queue failed.                       *)
LEMMA KeptReceiveNone ==
  ASSUME Given, cur \in Tasks, NEW e \in Endpoints, cont[cur] \in {User, At("replied", e)},
         task' = One(TasksAtReceive, cur, Receiver),
         cont' = [cont EXCEPT ![cur] = User], Shrunk,
         UNCHANGED <<cur, epLock, taskLock>>
  PROVE  Kept
<1>1. PICK c : c = task[cur].caller
  OBVIOUS
<1>2. PICK woken : woken = WakeCaller(task[c], "canceled")
  OBVIOUS
<1>3. PICK mine : mine = Receiver
  OBVIOUS
<1>4. /\ cont[cur].at \in {"user", "replied"} /\ ~Waits(cur)
      /\ task[cur].state \notin {"killed", "unused"}
  BY CurrentFacts DEF Given, User, At
<1>5. Has(mine, task[cur].state, task[cur].ipc, task[cur].event, "long", task[cur].ep,
          task[cur].callee, None)
  BY <1>3, ReceiverFields, GivenParts
<1>6. /\ \A t \in Tasks : task'[t] = IF t = cur THEN mine ELSE IF t = c THEN woken ELSE task[t]
      /\ \A t \in Tasks : cont'[t] = IF t = cur THEN User ELSE cont[t]
  BY <1>1, <1>2, <1>3, CanceledCaller, OneLookup, GivenParts DEF TypeOK
<1>7. PICK me \in Tasks : me = cur
  OBVIOUS
<1>8. task'[me] = mine /\ cont'[me].at = "user" /\ Sound(cur)
  BY <1>6, <1>7, GivenParts DEF User, At
<1>9. Sound(me)'
  BY <1>4, <1>5, <1>8 DEF Sound, Has
<1>10. \A t : Waits(t)' => Waits(t)
  BY DEF Shrunk, Waits
<1>11. PICK s : s = None
  OBVIOUS
<1>12. s \notin Tasks
  BY <1>11, ConstantsAssumption
<1>13. /\ Pairs'
       /\ \A t \in Tasks \ {cur, s} : Sound(t)'
       /\ \A t \in Tasks \ {cur, s} : Waits(t) => Same(t)
  BY <1>1, <1>2, <1>4, <1>5, <1>6, <1>10, <1>12, CallerWoken DEF Has
<1>14. Queues'
  <2>1. \A t \in Tasks : Waits(t)' => Same(t)
    BY <1>4, <1>10, <1>12, <1>13
  <2> QED BY <2>1, FrameQueues, GivenParts
<1>15. LockInventory'
  BY <1>4, <1>6, FrameLocks, GivenParts
<1>16. Current'
  BY <1>4, <1>5, <1>6, CurrentNext DEF Has
<1> QED BY <1>7, <1>9, <1>12, <1>13, <1>14, <1>15, <1>16 DEF Kept

(* A plain sender is woken and switched to.                                *)
LEMMA KeptTakeAndSwitch ==
  ASSUME Given, cur \in Tasks, NEW e \in Endpoints, cont[cur] \in {User, At("replied", e)},
         sendQ[e] # <<>>, TakeAndSwitch(e)
  PROVE  Kept
<1>1. PICK c : c = task[cur].caller
  OBVIOUS
<1>2. PICK woken : woken = WakeCaller(task[c], "canceled")
  OBVIOUS
<1>3. PICK s : s = Head(sendQ[e])
  OBVIOUS
<1>4. PICK mine : mine = InState(Receiver, "ready")
  OBVIOUS
<1>5. PICK theirs : theirs = InState(WakeSender(task[s], "none"), "running")
  OBVIOUS
<1>6. cont[cur].at \in {"user", "replied"} /\ ~Waits(cur)
  BY CurrentFacts DEF Given, User, At
<1>7. s \in Tasks /\ QueuedSender(s, e) /\ Waits(s) /\ s # cur
  BY <1>3, <1>6, HeadSender DEF Given
<1>8. Has(mine, "ready", task[cur].ipc, task[cur].event, "long", task[cur].ep,
          task[cur].callee, None)
  BY <1>4, ReceiverFields, RecordFields, GivenParts DEF Has
<1>9. Has(theirs, "running", "none", "none", "empty", None, task[s].callee, task[s].caller)
  <2>1. WakeSender(task[s], "none") \in TaskRecord
    BY <1>7, GivenParts, RecordTypes DEF IpcState
  <2> QED BY <1>5, <1>7, <2>1, GivenParts, RecordFields DEF Has
<1>10. /\ \A t \in Tasks : task'[t] = IF t = cur THEN mine ELSE
                                     IF t = s THEN theirs ELSE IF t = c THEN woken ELSE task[t]
       /\ \A t \in Tasks : cont'[t] = IF t = cur THEN At("switched", e) ELSE cont[t]
       /\ sendQ' = [sendQ EXCEPT ![e] = Tail(@)]
       /\ cur' = s /\ UNCHANGED <<recvQ, epLock, taskLock>>
  BY <1>1, <1>2, <1>3, <1>4, <1>5, <1>7, CanceledCaller, TwoLookup, GivenParts
  DEF TakeAndSwitch, SwitchTask, Leave, TypeOK
<1>11. Shrunk /\ ~Waits(s)'
  BY <1>3, <1>10, HeadSender DEF Given
<1>12. PICK me \in Tasks : me = cur
  OBVIOUS
<1>13. /\ task'[me] = mine /\ cont'[me].at = "switched"
       /\ task'[s] = theirs /\ cont'[s].at = "sent"
  BY <1>7, <1>10, <1>12 DEF At, QueuedSender
<1>14. Sound(me)' /\ Sound(s)'
  BY <1>8, <1>9, <1>13 DEF Sound, Has
<1>15. \A t : Waits(t)' => Waits(t)
  BY <1>11 DEF Shrunk, Waits
<1>16. /\ Pairs'
       /\ \A t \in Tasks \ {cur, s} : Sound(t)'
       /\ \A t \in Tasks \ {cur, s} : Waits(t) => Same(t)
  BY <1>1, <1>2, <1>6, <1>7, <1>8, <1>9, <1>10, <1>15, CallerWoken DEF Has
<1>17. Queues'
  <2>1. \A t \in Tasks : Waits(t)' => Same(t)
    BY <1>6, <1>11, <1>15, <1>16
  <2> QED BY <1>11, <2>1, FrameQueues, GivenParts
<1>18. LockInventory'
  BY <1>6, <1>10, FrameLocks, GivenParts
<1>19. Current'
  BY <1>7, <1>9, <1>10, <1>13, CurrentNext DEF Has
<1> QED BY <1>12, <1>14, <1>16, <1>17, <1>18, <1>19 DEF Kept

(* A caller is taken off the queue and waits on for the reply.             *)
LEMMA KeptTakeCaller ==
  ASSUME Given, cur \in Tasks, NEW e \in Endpoints, cont[cur] \in {User, At("replied", e)},
         sendQ[e] # <<>>, NEW s, s = Head(sendQ[e]), task[s].ipc = "calling",
         Take(e, Two(TasksAtReceive, cur, WithCaller(Receiver, s), s, WithCallee(task[s], cur)))
  PROVE  Kept
<1>1. PICK c : c = task[cur].caller
  OBVIOUS
<1>2. PICK woken : woken = WakeCaller(task[c], "canceled")
  OBVIOUS
<1>3. PICK mine : mine = WithCaller(Receiver, s)
  OBVIOUS
<1>4. PICK theirs : theirs = WithCallee(task[s], cur)
  OBVIOUS
<1>5. /\ cont[cur].at \in {"user", "replied"} /\ ~Waits(cur) /\ task[cur].callee = None
      /\ task[cur].state \notin {"killed", "unused"}
      /\ \A t \in Tasks : task[t].caller # cur
  BY CurrentFacts DEF Given, User, At
<1>6. s \in Tasks /\ QueuedSender(s, e) /\ Waits(s) /\ s # cur
  BY <1>5, HeadSender DEF Given
<1>7. task[s].state # "unused" /\ \A t \in Tasks : task[t].caller # s
  BY <1>6, WaiterFacts DEF Given
<1>8. Has(mine, task[cur].state, task[cur].ipc, task[cur].event, "long", task[cur].ep,
          task[cur].callee, s)
  BY <1>3, ReceiverFields, RecordFields, GivenParts DEF Has
<1>9. Has(theirs, task[s].state, task[s].ipc, task[s].event, task[s].msg, task[s].ep,
          cur, task[s].caller)
  BY <1>4, <1>6, GivenParts, RecordFields
<1>10. /\ \A t \in Tasks : task'[t] = IF t = cur THEN mine ELSE
                                     IF t = s THEN theirs ELSE IF t = c THEN woken ELSE task[t]
       /\ \A t \in Tasks : cont'[t] = IF t = cur THEN User ELSE cont[t]
       /\ sendQ' = [sendQ EXCEPT ![e] = Tail(@)]
       /\ UNCHANGED <<cur, recvQ, epLock, taskLock>>
  BY <1>1, <1>2, <1>3, <1>4, <1>6, CanceledCaller, TwoLookup, GivenParts
  DEF Take, Leave, TypeOK
<1>11. Shrunk /\ ~Waits(s)'
  BY <1>10, HeadSender DEF Given
<1>12. PICK me \in Tasks : me = cur
  OBVIOUS
<1>13. /\ task'[me] = mine /\ cont'[me].at = "user" /\ Sound(cur)
       /\ task'[s] = theirs /\ cont'[s].at = "sent"
  BY <1>6, <1>10, <1>12, GivenParts DEF User, At, QueuedSender
<1>14. Sound(me)' /\ Sound(s)'
  BY <1>5, <1>7, <1>8, <1>9, <1>12, <1>13 DEF Sound, Has
<1>15. /\ c \in Tasks \cup {None}
       /\ c \in Tasks =>
            /\ BlockedOn(c, cur) /\ \A t \in Tasks \ {cur} : task[t].caller # c
            /\ Has(woken, "ready", "canceled", "none", "empty", None, None, task[c].caller)
  BY <1>1, <1>2, OwedReply
<1>16. \A t \in Tasks \ {cur, s, c} : Quiet(t)
  BY <1>10 DEF Quiet, Same, Alike
<1>17. c \in Tasks => c \notin {cur, s} /\ ~Waits(c) /\ task'[c] = woken /\ cont'[c].at = "sent"
  BY <1>6, <1>10, <1>15 DEF BlockedOn
<1>18. \A t \in Tasks : Sound(t)'
  <2>1. c \in Tasks => Sound(c)'
    BY <1>15, <1>17 DEF Sound, Has
  <2> QED BY <1>12, <1>14, <1>16, <2>1, QuietSound, GivenParts
<1>19. Queues'
  <2>1. \A t \in Tasks : Waits(t)' => Waits(t)
    BY <1>11 DEF Shrunk, Waits
  <2>2. \A t \in Tasks : Waits(t)' => Same(t)
    BY <1>5, <1>11, <1>16, <1>17, <2>1 DEF Quiet
  <2> QED BY <1>11, <2>2, FrameQueues, GivenParts
<1>20. Pairs'
  <2>1. /\ BlockedOn(s, me)' /\ task'[me].caller = s /\ task'[s].callee = me
    BY <1>6, <1>8, <1>9, <1>11, <1>12, <1>13 DEF BlockedOn, Has, QueuedSender
  <2>2. \A t \in Tasks \ {me} : task'[t].caller = task[t].caller
    BY <1>9, <1>10, <1>12, <1>15 DEF Has
  <2>3. \A t \in Tasks \ {s} : task'[t].callee = task[t].callee \/ task'[t].callee = None
    BY <1>5, <1>8, <1>10, <1>15 DEF Has
  <2>4. \A t \in Tasks \ {s} : task[me].caller = t => task'[t].callee = None
    BY <1>1, <1>12, <1>15, <1>17 DEF Has
  <2>5. ASSUME NEW u \in Tasks \ {me}, NEW d \in Tasks, task[u].caller = d
        PROVE  Same(d) /\ ~Waits(d)'
    <3>1. d \notin {cur, s, c}
      BY <1>5, <1>7, <1>12, <1>15, <2>5
    <3>2. ~Waits(d)
      BY <2>5, GivenParts DEF Pairs, BlockedOn
    <3> QED BY <1>11, <1>16, <3>1, <3>2 DEF Quiet, Shrunk, Waits
  <2>6. s \in Tasks \cup {None}
    BY <1>6
  <2> QED BY <2>1, <2>2, <2>3, <2>4, <2>5, <2>6, PairsChange, GivenParts DEF Same
<1>21. LockInventory'
  BY <1>5, <1>10, FrameLocks, GivenParts
<1>22. Current'
  BY <1>5, <1>8, <1>10, <1>12, <1>13, CurrentNext DEF Has
<1> QED BY <1>18, <1>19, <1>20, <1>21, <1>22 DEF Kept

(* The receives keep the invariant.                                        *)
LEMMA KeptReceives ==
  ASSUME Given, NEW e \in Endpoints, Receive(e) \/ NbReceive(e) \/ ThenReceive(e)
  PROVE  Kept
<1>1. cur \in Tasks /\ cont[cur] \in {User, At("replied", e)}
  BY DEF Receive, NbReceive, ThenReceive, Calls, InUserMode
<1>2. CASE UNCHANGED Machine
  BY <1>2, KeptStutter
<1>3. CASE ~UNCHANGED Machine
  <2>1. ASSUME ReceiveFrom(e) PROVE Kept
    <3>1. PICK s : s = Head(sendQ[e])
      OBVIOUS
    <3>2. ASSUME sendQ[e] # <<>>, Take(e, One(TasksAtReceive, cur, Receiver)) PROVE Kept
      <4>1. Shrunk
        BY <3>2, HeadSender DEF Take, Given
      <4> QED BY <1>1, <3>2, <4>1, KeptReceiveNone DEF Take, Leave
    <3>3. ASSUME sendQ[e] # <<>>, task[s].ipc = "calling",
                 Take(e, Two(TasksAtReceive, cur, WithCaller(Receiver, s),
                             s, WithCallee(task[s], cur)))
          PROVE  Kept
      BY <1>1, <3>1, <3>3, KeptTakeCaller
    <3>4. ASSUME sendQ[e] # <<>>, TakeAndSwitch(e) PROVE Kept
      BY <1>1, <3>4, KeptTakeAndSwitch
    <3> QED BY <1>3, <2>1, <3>1, <3>2, <3>3, <3>4 DEF ReceiveFrom, Try, Machine
  <2>2. ASSUME BlockReceiver(e) PROVE Kept
    BY <1>1, <1>3, <2>2, KeptWaitForSender DEF BlockReceiver, Try, Machine
  <2>3. ASSUME cont[cur] = User,
               Return(One(TasksAtReceive, cur, Receiver), ReadyAtReceive)
        PROVE  Kept
    <3>1. Shrunk
      BY <2>3, ShrunkStutter, GivenParts DEF Return
    <3>2. cont' = [cont EXCEPT ![cur] = User]
      BY <2>3, GivenParts DEF Return, TypeOK
    <3> QED BY <1>1, <2>3, <3>1, <3>2, KeptReceiveNone DEF Return
  <2> QED
    BY <1>3, <2>1, <2>2, <2>3 DEF Receive, NbReceive, ThenReceive, Calls, InUserMode, Try, Machine
<1> QED BY <1>2, <1>3

-----------------------------------------------------------------------------
(* The replies.                                                            *)

(* The task goes on in user mode or at the receive half, nothing is owed.  *)
LEMMA KeptMoved ==
  ASSUME Given, cur \in Tasks, NEW e \in Endpoints, cont[cur] = User,
         NEW next \in {User, At("replied", e)}, NEW q, Replied(task, q, next)
  PROVE  Kept
<1>1. PICK me \in Tasks : me = cur
  OBVIOUS
<1>2. /\ cont[cur].at = "user" /\ ~Waits(cur) /\ next.at \in {"user", "replied"}
      /\ task[cur].state # "unused" /\ \A t \in Tasks : task[t].caller # cur
  BY CurrentFacts DEF Given, User, At
<1>3. /\ UNCHANGED <<cur, task, sendQ, recvQ, epLock, taskLock>>
      /\ \A t \in Tasks : cont'[t] = IF t = cur THEN next ELSE cont[t]
  BY GivenParts DEF Replied, Leave, TypeOK
<1>4. \A t \in Tasks \ {cur} : Quiet(t)
  BY <1>3 DEF Quiet, Same, Alike
<1>5. ASSUME NEW t \in Tasks \cap {cur}
      PROVE /\ Sound(t)' /\ ~Waits(t)'
            /\ task'[t].caller = task[t].caller
            /\ task'[t].callee = task[t].callee
            /\ \A s \in Tasks : task[s].caller # t
  <2>1. task'[t] = task[t] /\ cont'[t].at \in {"user", "replied"} /\ Sound(t) /\ t = cur
    BY <1>2, <1>3, GivenParts
  <2>2. Sound(t)'
    BY <1>2, <2>1 DEF Sound
  <2>3. ~Waits(t)'
    BY <1>2, <1>3, <2>1 DEF Waits
  <2> QED BY <1>2, <2>1, <2>2, <2>3
<1>6. Queues' /\ Pairs' /\ \A t \in Tasks : Sound(t)'
  <2>1. Shrunk
    BY <1>3, ShrunkStutter, GivenParts
  <2> QED BY <1>4, <1>5, <2>1, FrameAround
<1>7. LockInventory'
  BY <1>2, <1>3, FrameLocks, GivenParts
<1>8. Current'
  BY <1>2, <1>3, CurrentNext
<1> QED BY <1>6, <1>7, <1>8 DEF Kept

(* The reply is delivered: the caller is woken and forgotten.              *)
LEMMA KeptReplied ==
  ASSUME Given, cur \in Tasks, NEW e \in Endpoints, cont[cur] = User,
         NEW next \in {User, At("replied", e)}, NEW q,
         NEW c \in Tasks, c = task[cur].caller,
         Replied(Two(task, cur, WithCaller(WithMsg(task[cur], "empty"), None),
                     c, WakeCaller(task[c], "none")), q, next)
  PROVE  Kept
<1>1. PICK mine : mine = WithCaller(WithMsg(task[cur], "empty"), None)
  OBVIOUS
<1>2. PICK woken : woken = WakeCaller(task[c], "none")
  OBVIOUS
<1>3. /\ cont[cur].at = "user" /\ ~Waits(cur) /\ next.at \in {"user", "replied"}
      /\ task[cur].state \notin {"killed", "unused"}
  BY CurrentFacts DEF Given, User, At
<1>4. Has(mine, task[cur].state, task[cur].ipc, task[cur].event, "empty", task[cur].ep,
          task[cur].callee, None)
  <2>1. WithMsg(task[cur], "empty") \in TaskRecord
    BY GivenParts, RecordTypes DEF MsgState
  <2> QED BY <1>1, <2>1, GivenParts, RecordFields DEF Has
<1>5. c # cur
  BY <1>2, OwedReply DEF BlockedOn
<1>6. /\ \A t \in Tasks : task'[t] = IF t = cur THEN mine ELSE IF t = c THEN woken ELSE task[t]
      /\ \A t \in Tasks : cont'[t] = IF t = cur THEN next ELSE cont[t]
      /\ UNCHANGED <<cur, sendQ, recvQ, epLock, taskLock>>
  BY <1>1, <1>2, <1>5, TwoLookup, GivenParts DEF Replied, Leave, TypeOK
<1>7. PICK me \in Tasks : me = cur
  OBVIOUS
<1>8. task'[me] = mine /\ cont'[me].at \in {"user", "replied"} /\ Sound(cur)
  BY <1>3, <1>6, <1>7, GivenParts
<1>9. Sound(me)'
  BY <1>3, <1>4, <1>8 DEF Sound, Has
<1>10. \A t : Waits(t)' <=> Waits(t)
  BY <1>6 DEF Waits
<1>11. PICK s : s = None
  OBVIOUS
<1>12. s \notin Tasks
  BY <1>11, ConstantsAssumption
<1>13. /\ Pairs'
       /\ \A t \in Tasks \ {cur, s} : Sound(t)'
       /\ \A t \in Tasks \ {cur, s} : Waits(t) => Same(t)
  BY <1>2, <1>3, <1>4, <1>6, <1>10, <1>12, CallerWoken DEF Has
<1>14. Queues'
  <2>1. \A t \in Tasks : Waits(t)' => Same(t)
    BY <1>3, <1>10, <1>12, <1>13
  <2>2. Shrunk
    BY <1>6, ShrunkStutter, GivenParts
  <2> QED BY <2>1, <2>2, FrameQueues, GivenParts
<1>15. LockInventory'
  BY <1>3, <1>6, FrameLocks, GivenParts
<1>16. Current'
  BY <1>3, <1>4, <1>6, CurrentNext DEF Has
<1> QED BY <1>7, <1>9, <1>12, <1>13, <1>14, <1>15, <1>16 DEF Kept

(* The replies keep the invariant.                                         *)
LEMMA KeptReplies ==
  ASSUME Given, NEW e \in Endpoints, Reply(e) \/ ReplyAndReceive(e)
  PROVE  Kept
<1>1. cur \in Tasks /\ cont[cur] = User /\ task[cur] \in TaskRecord
      /\ task[cur].state \notin {"killed", "unused"} /\ Sound(cur)
  BY GivenParts DEF Reply, ReplyAndReceive, Calls, InUserMode, Current
<1>2. CASE UNCHANGED Machine
  BY <1>2, KeptStutter
<1>3. CASE ~UNCHANGED Machine
  <2>1. PICK c \in Tasks \cup {None} : c = task[cur].caller
    BY <1>1, Typing, GivenParts
  <2>2. PICK next \in {User, At("replied", e)} : DoReply(e, next)
    BY DEF Reply, ReplyAndReceive
  <2>3. ASSUME Return(One(task, cur, WithMsg(task[cur], "long")), readyQ) PROVE Kept
    BY <1>1, <2>3, RecordFields, KeptOwn DEF Return, Has, Sound
  <2>4. ASSUME Replied(task, readyQ, next) PROVE Kept
    BY <1>1, <2>4, KeptMoved
  <2>5. ASSUME c # None,
               Replied(Two(task, cur, WithCaller(WithMsg(task[cur], "empty"), None),
                           c, WakeCaller(task[c], "none")), Append(readyQ, c), next)
        PROVE  Kept
    BY <1>1, <2>1, <2>5, KeptReplied
  <2> QED BY <1>3, <2>1, <2>2, <2>3, <2>4, <2>5 DEF DoReply, Try, Machine
<1> QED BY <1>2, <1>3

-----------------------------------------------------------------------------
(* The destruction of an endpoint, and the task syscalls other than kill.  *)

(* ipc_cancel wakes everybody who waits on the endpoint.                   *)
LEMMA KeptCanceled ==
  ASSUME Given, cur \in Tasks, cont[cur] = User, NEW e \in Endpoints, Canceled(e)
  PROVE  Kept
<1>1. PICK R : R = Members(recvQ[e])
  OBVIOUS
<1>2. PICK S : S = Members(sendQ[e])
  OBVIOUS
<1>3. cont[cur].at = "user" /\ ~Waits(cur) /\ task[cur].state # "unused"
  BY CurrentFacts DEF Given, User, At
<1>4. /\ \A t \in R : QueuedReceiver(t, e) /\ Waits(t)
      /\ \A t \in S : QueuedSender(t, e) /\ Waits(t)
      /\ R \cap S = {}
  BY <1>1, <1>2, GivenParts DEF Queues, Waits, QueuedReceiver, QueuedSender
<1>5. /\ \A t \in Tasks : task'[t] = IF t \in R THEN WakeReceiver(task[t], "canceled")
                                     ELSE IF t \in S THEN WakeSender(task[t], "canceled")
                                     ELSE task[t]
      /\ \A d \in Endpoints : /\ sendQ'[d] = IF d = e THEN <<>> ELSE sendQ[d]
                              /\ recvQ'[d] = IF d = e THEN <<>> ELSE recvQ[d]
      /\ UNCHANGED <<cur, epLock, taskLock, cont>>
  BY <1>1, <1>2, GivenParts DEF Canceled, TypeOK
<1>6. Shrunk
  <2>1. Once(<<>>) /\ Members(<<>>) = {}
    BY DEF Once, Members
  <2> QED BY <1>5, <2>1, GivenParts DEF Shrunk, Queues
<1>7. \A t \in Tasks \ (R \cup S) : Quiet(t)
  BY <1>5 DEF Quiet, Same, Alike
<1>8. ASSUME NEW t \in Tasks \cap (R \cup S)
      PROVE /\ Sound(t)' /\ ~Waits(t)'
            /\ task'[t].caller = task[t].caller
            /\ task'[t].callee = task[t].callee
            /\ \A s \in Tasks : task[s].caller # t
  <2>1. \A s \in Tasks : task[s].caller # t
    BY <1>4, WaiterFacts DEF Given
  <2>2. ASSUME Waits(t)' PROVE FALSE
    <3>1. PICK d \in Endpoints : t \in Members(sendQ'[d]) \/ t \in Members(recvQ'[d])
      BY <2>2 DEF Waits
    <3>2. d # e
      BY <1>5, <3>1 DEF Members
    <3>3. t \in Members(sendQ[d]) \/ t \in Members(recvQ[d])
      BY <1>5, <3>1, <3>2
    <3> QED BY <1>4, <3>2, <3>3, GivenParts DEF Queues, QueuedReceiver, QueuedSender
  <2>3. CASE t \in R
    <3>1. task'[t] = WakeReceiver(task[t], "canceled") /\ cont'[t].at = "received"
      BY <1>4, <1>5, <2>3 DEF QueuedReceiver
    <3>2. Has(task'[t], "ready", "canceled", task[t].event, "empty", None,
              task[t].callee, task[t].caller)
      BY <3>1, GivenParts, RecordFields
    <3>3. Sound(t)'
      BY <3>1, <3>2 DEF Sound, Has
    <3> QED BY <2>1, <2>2, <3>2, <3>3 DEF Has
  <2>4. CASE t \in S
    <3>1. task'[t] = WakeSender(task[t], "canceled") /\ cont'[t].at = "sent"
      BY <1>4, <1>5, <2>4 DEF QueuedSender
    <3>2. Has(task'[t], "ready", "canceled", "none", "empty", None,
              task[t].callee, task[t].caller)
      BY <3>1, GivenParts, RecordFields
    <3>3. Sound(t)'
      BY <3>1, <3>2 DEF Sound, Has
    <3> QED BY <2>1, <2>2, <3>2, <3>3 DEF Has
  <2> QED BY <2>3, <2>4
<1>9. Queues' /\ Pairs' /\ \A t \in Tasks : Sound(t)'
  BY <1>6, <1>7, <1>8, FrameAround
<1>10. LockInventory'
  BY <1>5, FrameLocks, GivenParts
<1>11. Current'
  BY <1>3, <1>4, <1>5, CurrentNext
<1> QED BY <1>9, <1>10, <1>11 DEF Kept

(* destroy_endpoint keeps the invariant.                                   *)
LEMMA KeptCancel ==
  ASSUME Given, NEW e \in Endpoints, Cancel(e)
  PROVE  Kept
<1>1. CASE UNCHANGED Machine
  BY <1>1, KeptStutter
<1>2. CASE ~UNCHANGED Machine
  BY <1>2, KeptCanceled DEF Cancel, Calls, InUserMode, Try, Machine
<1> QED BY <1>1, <1>2

(* Two tasks change state and the rest is left alone.                      *)
LEMMA KeptTwoStates ==
  ASSUME Given, cur \in Tasks, NEW v \in Tasks, NEW a \in TaskState \ {"waiting", "unused"},
         NEW b \in TaskState \ {"waiting", "unused"},
         task' = Two(task, cur, InState(task[cur], a), v, InState(task[v], b)),
         cur' \in {cur, v, Idle}, UNCHANGED <<sendQ, recvQ, epLock, taskLock, cont>>
  PROVE  Kept
<1>1. /\ Has(InState(task[cur], a), a, task[cur].ipc, task[cur].event, task[cur].msg,
             task[cur].ep, task[cur].callee, task[cur].caller)
      /\ Has(InState(task[v], b), b, task[v].ipc, task[v].event, task[v].msg,
             task[v].ep, task[v].callee, task[v].caller)
  BY RecordFields, GivenParts
<1>2. \A t \in Tasks : task'[t] = IF t = v THEN InState(task[v], b)
                                  ELSE IF t = cur THEN InState(task[cur], a) ELSE task[t]
  BY TwoLookup, GivenParts
<1>3. \A t \in Tasks : Quiet(t)
  BY <1>1, <1>2 DEF Quiet, Same, Alike, Has
<1>4. cur' \in Tasks => task'[cur'].state # "unused"
  BY <1>1, <1>2, ConstantsAssumption DEF Has
<1> QED BY <1>3, <1>4, KeptStates

(* create, switch, suspend, resume, set_kill_notify and yield keep the     *)
(* invariant.                                                              *)
LEMMA KeptTaskSyscalls ==
  ASSUME Given, NEW v \in Tasks,
         \/ CreateTask(v) \/ Switch(v) \/ Suspend(v) \/ Resume(v) \/ Yield
         \/ \E e \in Endpoints : SetKillNotify(v, e)
  PROVE  Kept
<1>1. /\ cur \in Tasks /\ cont[cur] = User /\ task[cur] \in TaskRecord
      /\ task[v] \in TaskRecord /\ Sound(v)
  BY GivenParts
     DEF CreateTask, Switch, Suspend, Resume, Yield, SetKillNotify, CallsOn, Calls, InUserMode
<1>2. CASE UNCHANGED Machine
  BY <1>2, KeptStutter
<1>3. ASSUME NEW q, Return(task, q) PROVE Kept
  <2>1. \A t \in Tasks : Quiet(t)
    BY <1>3 DEF Return, Quiet, Same, Alike
  <2>2. cur' \in Tasks => task'[cur'].state # "unused"
    BY <1>3, GivenParts DEF Return, Current
  <2> QED BY <1>3, <2>1, <2>2, KeptStates DEF Return
<1>4. ASSUME NEW s \in {"suspended", "ready"}, NEW q, Return(One(task, v, InState(task[v], s)), q)
      PROVE  Kept
  <2>1. Has(InState(task[v], s), s, task[v].ipc, task[v].event, task[v].msg, task[v].ep,
            task[v].callee, task[v].caller)
    BY <1>1, RecordFields
  <2> QED BY <1>1, <1>4, <2>1, KeptOne DEF Has
<1>5. CASE ~UNCHANGED Machine
  <2>1. CASE CreateTask(v)
    <3>1. task[v] = FreshTask("unused")
      BY <1>1, <2>1 DEF CreateTask, Sound
    <3>2. Has(FreshTask("suspended"), "suspended", task[v].ipc, task[v].event, task[v].msg,
              task[v].ep, task[v].callee, task[v].caller)
      BY <3>1 DEF Has, FreshTask
    <3>3. Return(One(task, v, FreshTask("suspended")), readyQ)
      BY <1>5, <2>1 DEF CreateTask, Try, Machine
    <3> QED BY <1>1, <3>2, <3>3, KeptOne DEF Has
  <2>2. CASE Switch(v)
    <3>1. ASSUME SwitchTo(v) PROVE Kept
      BY <1>1, <3>1, KeptTwoStates DEF SwitchTo, SwitchTask, TaskState
    <3> QED BY <1>3, <1>5, <2>2, <3>1 DEF Switch, Try, Machine
  <2>3. CASE Suspend(v)
    <3>1. ASSUME SuspendSelf PROVE Kept
      BY <1>1, <3>1, KeptSuspendSelf
    <3> QED BY <1>3, <1>4, <1>5, <2>3, <3>1 DEF Suspend, Try, Machine
  <2>4. CASE Resume(v)
    BY <1>3, <1>4, <1>5, <2>4 DEF Resume, MadeReady, Try, Machine
  <2>5. CASE Yield
    <3>1. GiveUp(Append(readyQ, cur))
      BY <1>5, <2>5 DEF Yield, Try, Machine
    <3>2. One(task, cur, InState(task[cur], "ready"))
            = Two(task, cur, InState(task[cur], "ready"), cur, InState(task[cur], "ready"))
      BY <1>1, GivenParts DEF One, Two, TaskTable
    <3> QED BY <1>1, <3>1, <3>2, KeptTwoStates DEF GiveUp, Resched, TaskState
  <2>6. CASE \E e \in Endpoints : SetKillNotify(v, e)
    <3>1. PICK e \in Endpoints : SetKillNotify(v, e)
      BY <2>6
    <3>2. PICK r : r = [task[v] EXCEPT !.notify = e]
      OBVIOUS
    <3>3. Has(r, task[v].state, task[v].ipc, task[v].event, task[v].msg, task[v].ep,
              task[v].callee, task[v].caller)
      BY <1>1, <3>2, RecordFields
    <3>4. task[v].state # "unused" /\ Return(One(task, v, r), readyQ)
      BY <1>5, <3>1, <3>2 DEF SetKillNotify, CallsOn, Try, Machine
    <3> QED BY <1>1, <3>3, <3>4, KeptOne DEF Has
  <2> QED BY <2>1, <2>2, <2>3, <2>4, <2>5, <2>6
<1> QED BY <1>2, <1>5

(* Dispatching and idling keep the invariant.                              *)
LEMMA KeptDispatch ==
  ASSUME Given, Dispatch \/ LookupSpins \/ IdleSpin \/ Halted
  PROVE  Kept
<1>1. CASE UNCHANGED Machine
  BY <1>1, KeptStutter
<1>2. CASE ~UNCHANGED Machine
  <2>1. readyQ # <<>> /\ Run(Head(readyQ))
    BY <1>2 DEF Dispatch, LookupSpins, IdleSpin, Halted, Try, Machine, vars
  <2>2. PICK h : h = Head(readyQ)
    OBVIOUS
  <2>3. h \in Tasks
    BY <2>1, <2>2, HeadType, GivenParts DEF TypeOK
  <2>4. PICK r : r = InState(task[h], "running")
    OBVIOUS
  <2>5. Has(r, "running", task[h].ipc, task[h].event, task[h].msg, task[h].ep,
            task[h].callee, task[h].caller)
    BY <2>3, <2>4, RecordFields, GivenParts
  <2>6. /\ \A t \in Tasks : task'[t] = IF t = h THEN r ELSE task[t]
        /\ cur' = h /\ UNCHANGED <<sendQ, recvQ, epLock, taskLock, cont>>
    BY <2>1, <2>2, <2>4, OneLookup, GivenParts DEF Run
  <2>7. \A t \in Tasks : Quiet(t)
    BY <2>5, <2>6 DEF Quiet, Same, Alike, Has
  <2>8. task'[cur'].state # "unused"
    BY <2>3, <2>5, <2>6 DEF Has
  <2> QED BY <2>6, <2>7, <2>8, KeptStates
<1> QED BY <1>1, <1>2

-----------------------------------------------------------------------------
(* Kills.                                                                  *)

(* kill_task on a task that is in a call: its callee forgets it.           *)
LEMMA CallLeft ==
  ASSUME Given, NEW v \in Tasks, Detach(v) = NoFault
  PROVE  \E c \in Tasks \cup {None} :
           /\ c \in Tasks => c # v /\ task[c].caller = v
           /\ \A t \in Tasks : TasksWithout(v)[t] =
                IF t = v THEN InState(task[v], "killed")
                ELSE IF t = c THEN WithCaller(task[c], None) ELSE task[t]
<1>1. CASE WaitsAs(v, task[v].ep, "calling") /\ task[v].ep # None
  <2>1. PICK c : c = task[v].callee
    OBVIOUS
  <2> DEFINE f == Check(c # None, "kill_task: no callee") ?? Acquire(taskLock[c]) ??
                  Check(task[c].caller = v, "kill_task: callee's caller")
  <2>2. f = NoFault
    <3>1. Detach(v) = Acquire(epLock[task[v].ep]) ?? f
      BY <1>1, <2>1 DEF WaitsAs, Detach
    <3> HIDE DEF f
    <3> QED BY <3>1, ChecksPass
  <2>3. c # None /\ task[c].caller = v
    BY <2>2 DEF ??, Check, NoFault
  <2>4. c \in Tasks
    BY <2>1, <2>3, Typing, GivenParts
  <2>5. c # v
    BY <2>3, <2>4, GivenParts DEF Pairs, BlockedOn
  <2>6. \A t \in Tasks : TasksWithout(v)[t] =
          IF t = c THEN WithCaller(task[c], None)
          ELSE IF t = v THEN InState(task[v], "killed") ELSE task[t]
    BY <1>1, <2>1, TwoLookup, GivenParts DEF TasksWithout
  <2> QED BY <2>3, <2>4, <2>5, <2>6
<1>2. CASE ~(WaitsAs(v, task[v].ep, "calling") /\ task[v].ep # None)
  <2>1. \A t \in Tasks : TasksWithout(v)[t] =
          IF t = v THEN InState(task[v], "killed") ELSE task[t]
    BY <1>2, OneLookup, GivenParts DEF TasksWithout
  <2>2. None \in Tasks \cup {None} /\ None \notin Tasks
    BY ConstantsAssumption
  <2> QED BY <2>1, <2>2
<1> QED BY <1>1, <1>2

(* kill_task on a task that waits on an endpoint takes it out of there,    *)
(* and out of nowhere else.                                                *)
LEMMA QueuesLeft ==
  ASSUME TypeOK, KernelInvariant, NEW v \in Tasks, Detach(v) = NoFault, NEW e \in Endpoints
  PROVE  /\ Once(SendersWithout(v)[e]) /\ Members(SendersWithout(v)[e]) \subseteq Members(sendQ[e])
         /\ Once(ReceiversWithout(v)[e])
         /\ Members(ReceiversWithout(v)[e]) \subseteq Members(recvQ[e])
<1>1. /\ sendQ[e] \in Seq(Tasks) /\ recvQ[e] \in Seq(Tasks)
      /\ Once(sendQ[e]) /\ Once(recvQ[e]) /\ e # None
  BY ConstantsAssumption DEF TypeOK, KernelInvariant, Queues
<1>2. ASSUME WaitsAs(v, e, "sending") PROVE v \in Members(sendQ[e])
  <2>1. Unlinkable(sendQ[e], v) = NoFault
    BY <1>1, <1>2, ChecksPass DEF WaitsAs, Detach
  <2> QED BY <2>1 DEF Unlinkable, Check, NoFault, NullDeref
<1>3. ASSUME WaitsAs(v, e, "receiving") PROVE v \in Members(recvQ[e])
  <2>1. Unlinkable(recvQ[e], v) = NoFault
    BY <1>1, <1>3, ChecksPass DEF WaitsAs, Detach
  <2> QED BY <2>1 DEF Unlinkable, Check, NoFault, NullDeref
<1> QED BY <1>1, <1>2, <1>3, UnlinkMembers DEF SendersWithout, ReceiversWithout

(* The victim v is marked, its callee c forgets it, the receiver r of the  *)
(* notification is woken, and everybody else is left alone.                *)
LEMMA KillRest ==
  ASSUME Given, cur \in Tasks, cont[cur] = User, NEW v \in Tasks, task[v].state # "unused",
         NEW c \in Tasks \cup {None}, c \in Tasks => c # v /\ task[c].caller = v,
         NEW r \in Tasks \cup {None},
         r \in Tasks => /\ r # v /\ Waits(r) /\ task[r].caller = None
                        /\ cont[r].at = "received" /\ ~Waits(r)',
         \A t \in Tasks : task'[t] =
            IF t = v THEN InState(task[v], "killed")
            ELSE IF t = r THEN WakeReceiver(task[r], "none")
            ELSE IF t = c THEN WithCaller(task[c], None) ELSE task[t],
         \A t \in Tasks \ {cur} : cont'[t] = cont[t],
         \A t \in Tasks : t = cur => cont'[t].at \notin {"sent", "received"},
         Shrunk
  PROVE  Queues' /\ Pairs' /\ \A t \in Tasks : Sound(t)'
<1>1. ~Waits(cur) /\ task[cur].state # "unused" /\ \A t \in Tasks : task[t].caller # cur
  BY CurrentFacts DEF Given, User, At
<1>2. r \in Tasks => \A t \in Tasks : task[t].caller # r
  BY WaiterFacts DEF Given
<1>3. (r \in Tasks => r # cur /\ r # c) /\ None \notin Tasks
  BY <1>1, ConstantsAssumption
<1>4. Has(InState(task[v], "killed"), "killed", task[v].ipc, task[v].event, task[v].msg,
          task[v].ep, task[v].callee, task[v].caller)
  BY RecordFields, GivenParts
<1>5. c \in Tasks => Has(WithCaller(task[c], None), task[c].state, task[c].ipc, task[c].event,
                         task[c].msg, task[c].ep, task[c].callee, None)
  BY RecordFields, GivenParts
<1>6. r \in Tasks => Has(WakeReceiver(task[r], "none"), "ready", "none", task[r].event, "empty",
                         None, task[r].callee, task[r].caller)
  BY RecordFields, GivenParts
<1>7. \A t \in Tasks \ {cur, r, c} : Same(t)
  BY <1>4 DEF Same, Alike, Has
<1>8. c \in Tasks \ {cur} => Near(c)
  BY <1>3, <1>5 DEF Near, Alike, Has
<1>9. Queues'
  <2>1. \A t \in Tasks : Waits(t)' => Waits(t)
    BY DEF Shrunk, Waits
  <2>2. \A t \in Tasks : Waits(t)' => Near(t)
    BY <1>1, <1>7, <1>8, <2>1 DEF Near, Same
  <2> QED BY <2>2, FrameNear, GivenParts
<1>10. Pairs'
  <2>1. \A t \in Tasks : task'[t].callee = task[t].callee
    BY <1>4, <1>5, <1>6 DEF Has
  <2>2. \A t \in Tasks \ {c} : task'[t].caller = task[t].caller
    BY <1>4, <1>6 DEF Has
  <2>3. ASSUME NEW s \in Tasks, NEW d \in Tasks, task[s].caller = d
        PROVE  /\ Alike(d) /\ ~Waits(d)' /\ (d # c => Same(d))
    <3>1. d # cur /\ d # r /\ ~Waits(d)
      BY <1>1, <1>2, <2>3, GivenParts DEF Pairs, BlockedOn
    <3> QED BY <1>7, <1>8, <3>1, ZenonT(30) DEF Same, Near, Shrunk, Waits
  <2>4. CASE c \in Tasks
    <3>1. task'[c].caller = None /\ task'[v].state = "killed"
      BY <1>3, <1>4, <1>5, <2>4 DEF Has
    <3>2. \A t \in Tasks : task[c].caller = t => task'[t].state = "killed"
      BY <2>4, <3>1
    <3>3. None \in Tasks \cup {None}
      OBVIOUS
    <3> QED BY <1>3, <2>1, <2>2, <2>3, <2>4, <3>1, <3>2, <3>3, PairsChange, GivenParts
  <2>5. CASE c \notin Tasks
    BY <2>1, <2>2, <2>3, <2>5, FramePairs, GivenParts
  <2> QED BY <2>4, <2>5
<1>11. ASSUME NEW t \in Tasks PROVE Sound(t)'
  <2>1. Sound(t)
    BY GivenParts
  <2>2. CASE t = v
    <3>1. cont'[t] = cont[t] \/ cont'[t].at \notin {"sent", "received"}
      OBVIOUS
    <3> QED BY <1>4, <2>1, <2>2, <3>1 DEF Sound, Has
  <2>3. CASE t = r
    BY <1>3, <1>6, <2>3 DEF Sound, Has
  <2>4. CASE t = c /\ t # v
    <3>1. task[c].state # "unused"
      BY <1>3, <2>1, <2>4 DEF Sound, FreshTask
    <3>2. cont'[t] = cont[t] \/ cont'[t].at \notin {"sent", "received"}
      OBVIOUS
    <3>3. task'[t] = WithCaller(task[c], None)
      BY <1>3, <2>4
    <3> QED BY <1>5, <2>1, <2>4, <3>1, <3>2, <3>3 DEF Sound, Has
  <2>5. CASE t \notin {v, r, c}
    <3>1. task'[t] = task[t]
      BY <2>5
    <3>2. t = cur => task[t].state # "unused"
      BY <1>1
    <3> QED BY <2>1, <3>1, <3>2 DEF Sound
  <2> QED BY <2>2, <2>3, <2>4, <2>5
<1> QED BY <1>9, <1>10, <1>11

(* A kill without a notification.                                          *)
LEMMA KeptKilled ==
  ASSUME Given, cur \in Tasks, cont[cur] = User, NEW v \in Tasks, NEW o,
         task[v].state # "unused", Detach(v) = NoFault, Killed(v, o)
  PROVE  Kept
<1>1. PICK c \in Tasks \cup {None} :
           /\ c \in Tasks => c # v /\ task[c].caller = v
           /\ \A t \in Tasks : TasksWithout(v)[t] =
                IF t = v THEN InState(task[v], "killed")
                ELSE IF t = c THEN WithCaller(task[c], None) ELSE task[t]
  BY CallLeft
<1>2. PICK r : r = None
  OBVIOUS
<1>3. r \in Tasks \cup {None} /\ r \notin Tasks
  BY <1>2, ConstantsAssumption
<1>4. \A t \in Tasks : task'[t] =
            IF t = v THEN InState(task[v], "killed")
            ELSE IF t = r THEN WakeReceiver(task[r], "none")
            ELSE IF t = c THEN WithCaller(task[c], None) ELSE task[t]
  BY <1>1, <1>3 DEF Killed
<1>5. Shrunk
  BY QueuesLeft DEF Shrunk, Killed, Given
<1>6. cont' = cont /\ cont[cur].at = "user" /\ epLock' = epLock
  BY DEF Killed, User, At
<1>7. Queues' /\ Pairs' /\ \A t \in Tasks : Sound(t)'
  BY <1>1, <1>3, <1>4, <1>5, <1>6, KillRest
<1>8. task'[v].state = "killed"
  BY <1>4, RecordFields, GivenParts DEF Has
<1>9. LockInventory'
  <2>1. CASE v # cur
    BY <1>6, <2>1, FrameLocks, GivenParts DEF Killed
  <2>2. CASE v = cur
    <3>1. \A t \in Tasks : taskLock'[t] \in {cur, taskLock[t]}
      BY <2>2 DEF Killed, LocksOfKill
    <3>2. ASSUME NEW t \in Tasks, taskLock'[t] # None
          PROVE  Excused(t)'
      <4>1. CASE taskLock'[t] = cur
        BY <1>8, <2>2, <4>1 DEF Excused
      <4>2. CASE taskLock'[t] = taskLock[t]
        <5>1. taskLock[t] \in Tasks
          BY <3>2, <4>2, GivenParts DEF TypeOK
        <5> QED BY <1>6, <4>2, <5>1, StillExcused, GivenParts
      <4> QED BY <3>1, <4>1, <4>2
    <3> QED BY <1>6, <3>2, GivenParts DEF LockInventory, Excused
  <2> QED BY <2>1, <2>2
<1>10. Current'
  <2>1. CASE v = cur
    BY <2>1, ConstantsAssumption DEF Killed, Resched, Current
  <2>2. CASE v # cur
    <3>1. TasksWithout(v)[cur].state = task[cur].state
      BY <2>2, KeepsWithout, GivenParts
    <3> QED BY <2>2, <3>1, GivenParts, CurrentNext DEF Killed, Current
  <2> QED BY <2>1, <2>2
<1> QED BY <1>7, <1>9, <1>10 DEF Kept

(* A kill with a notification: the killer reschedules with the victim's    *)
(* lock.                                                                   *)
LEMMA KeptNotified ==
  ASSUME Given, cur \in Tasks, cont[cur] = User, NEW v \in Tasks, NEW o,
         task[v].state # "unused", task[v].notify # None,
         Detach(v) = NoFault, Notify(v) = NoFault, Notified(v, o)
  PROVE  Kept
<1>1. PICK c \in Tasks \cup {None} :
           /\ c \in Tasks => c # v /\ task[c].caller = v
           /\ \A t \in Tasks : TasksWithout(v)[t] =
                IF t = v THEN InState(task[v], "killed")
                ELSE IF t = c THEN WithCaller(task[c], None) ELSE task[t]
  BY CallLeft
<1>2. PICK n \in Endpoints : n = task[v].notify
  BY Typing, GivenParts
<1>3. PICK q : q = ReceiversWithout(v)[n]
  OBVIOUS
<1>4. PICK r : r = Head(q)
  OBVIOUS
<1>5. PICK tk : tk = TasksWithout(v)
  OBVIOUS
<1>6. q # <<>> /\ tk[r].state = "waiting"
  BY <1>2, <1>3, <1>4, <1>5 DEF Notify, ??, Check, NoFault
<1>7. /\ q \in Seq(Tasks) /\ Once(q) /\ Members(q) \subseteq Members(recvQ[n])
      /\ ReceiversWithout(v) \in [Endpoints -> Seq(Tasks)] /\ tk \in TaskTable
  BY <1>2, <1>3, <1>5, QueuesLeft, WithoutTypes DEF Given
<1>8. r \in Members(q) /\ Once(Tail(q)) /\ Members(Tail(q)) = Members(q) \ {r}
  BY <1>4, <1>6, <1>7, TailMembers
<1>9. r \in Tasks /\ QueuedReceiver(r, n) /\ Waits(r)
  BY <1>7, <1>8, MembersAreTasks, GivenParts DEF Queues, Waits
<1>10. /\ Has(InState(task[v], "killed"), "killed", task[v].ipc, task[v].event, task[v].msg,
             task[v].ep, task[v].callee, task[v].caller)
  BY RecordFields, GivenParts
<1>11. r # v
  BY <1>1, <1>5, <1>6, <1>10 DEF Has
<1>12. r # c /\ r # cur /\ cont[cur].at = "user"
  BY <1>1, <1>9, ConstantsAssumption DEF QueuedReceiver, User, At
<1>13. tk[r] = task[r]
  BY <1>1, <1>5, <1>9, <1>11, <1>12
<1>14. /\ task' = One(tk, r, WakeReceiver(tk[r], "none"))
       /\ recvQ' = [ReceiversWithout(v) EXCEPT ![n] = Tail(@)]
       /\ sendQ' = SendersWithout(v)
       /\ \A t \in Tasks : taskLock'[t] \in {cur, taskLock[t]}
       /\ \A t \in Tasks : cont'[t] = IF t = cur THEN At("notified", v) ELSE cont[t]
       /\ cur' = Idle /\ epLock' = epLock
  BY <1>2, <1>3, <1>4, <1>5, GivenParts DEF Notified, LocksOfKill, Leave, Resched, TypeOK
<1>15. \A t \in Tasks : task'[t] =
            IF t = v THEN InState(task[v], "killed")
            ELSE IF t = r THEN WakeReceiver(task[r], "none")
            ELSE IF t = c THEN WithCaller(task[c], None) ELSE task[t]
  <2>1. \A t \in Tasks : task'[t] = IF t = r THEN WakeReceiver(task[r], "none") ELSE tk[t]
    BY <1>7, <1>13, <1>14, OneLookup
  <2> QED BY <1>1, <1>5, <1>11, <2>1
<1>16. \A d \in Endpoints : recvQ'[d] = IF d = n THEN Tail(q) ELSE ReceiversWithout(v)[d]
  BY <1>2, <1>3, <1>7, <1>14
<1>17. Shrunk
  BY <1>7, <1>8, <1>14, <1>16, QueuesLeft DEF Shrunk, Given
<1>18. ~Waits(r)'
  <2>1. ASSUME NEW d \in Endpoints PROVE r \notin Members(sendQ'[d]) /\ r \notin Members(recvQ'[d])
    <3>1. r \notin Members(sendQ[d]) /\ (d # n => r \notin Members(recvQ[d]))
      BY <1>9, GivenParts DEF Queues, QueuedSender, QueuedReceiver
    <3> QED BY <1>8, <1>16, <1>17, <3>1 DEF Shrunk
  <2> QED BY <2>1 DEF Waits
<1>19. Queues' /\ Pairs' /\ \A t \in Tasks : Sound(t)'
  <2>1. /\ \A t \in Tasks \ {cur} : cont'[t] = cont[t]
        /\ \A t \in Tasks : t = cur => cont'[t].at \notin {"sent", "received"}
    BY <1>14 DEF At
  <2>2. r \in Tasks => /\ r # v /\ Waits(r) /\ task[r].caller = None
                       /\ cont[r].at = "received" /\ ~Waits(r)'
    BY <1>9, <1>11, <1>18 DEF QueuedReceiver
  <2> QED BY <1>1, <1>9, <1>15, <1>17, <2>1, <2>2, KillRest
<1>20. LockInventory'
  <2>1. \A d \in Endpoints : epLock[d] # cur
    BY <1>12, HoldsNothing DEF Given
  <2>2. ASSUME NEW d \in Endpoints, epLock'[d] # None
        PROVE  cont'[epLock'[d]] = At("short_switched", d)
    BY <1>14, <2>1, <2>2, GivenParts DEF LockInventory, TypeOK
  <2>3. ASSUME NEW t \in Tasks, taskLock'[t] # None
        PROVE  Excused(t)'
    <3>1. CASE taskLock'[t] = cur
      BY <1>14, <3>1 DEF At, Excused
    <3>2. CASE taskLock'[t] # cur
      <4>1. taskLock'[t] = taskLock[t] /\ taskLock[t] \in Tasks \ {cur}
        BY <1>14, <2>3, <3>2, GivenParts DEF TypeOK
      <4>2. cont'[taskLock[t]] = cont[taskLock[t]]
        BY <1>14, <4>1
      <4> QED BY <4>1, <4>2, StillExcused, GivenParts
    <3> QED BY <3>1, <3>2
  <2> QED BY <2>2, <2>3 DEF LockInventory, Excused
<1>21. Current'
  BY <1>14, ConstantsAssumption DEF Current
<1> QED BY <1>19, <1>20, <1>21 DEF Kept

(* The kills keep the invariant.                                           *)
LEMMA KeptKills ==
  ASSUME Given, NEW v \in Tasks, NEW o \in Tasks \cup {None},
         Kill(v, o) \/ KillAndNotify(v, o)
  PROVE  Kept
<1>1. cur \in Tasks /\ cont[cur] = User /\ task[v].state # "unused"
  BY DEF Kill, KillAndNotify, KillsUnder, CallsOn, Calls, InUserMode
<1>2. CASE UNCHANGED Machine
  BY <1>2, KeptStutter
<1>3. CASE ~UNCHANGED Machine
  <2>1. CASE Kill(v, o)
    <3>1. /\ Killed(v, o)
          /\ (AcquireOwner(o) ?? Acquire(taskLock[v]) ?? Detach(v) ??
              Check(v # Root, "kill_task: root killed")) = NoFault
      BY <1>3, <2>1 DEF Kill, Try, Machine
    <3>2. Detach(v) = NoFault
      BY <3>1, ChecksPass
    <3> QED BY <1>1, <3>1, <3>2, KeptKilled
  <2>2. CASE KillAndNotify(v, o)
    <3>1. /\ Notified(v, o) /\ task[v].notify # None
          /\ (AcquireOwner(o) ?? Acquire(taskLock[v]) ?? Detach(v) ?? Notify(v)) = NoFault
      BY <1>3, <2>2 DEF KillAndNotify, Try, Machine
    <3>2. Detach(v) = NoFault /\ Notify(v) = NoFault
      BY <3>1, ChecksPass
    <3> QED BY <1>1, <3>1, <3>2, KeptNotified
  <2> QED BY <2>1, <2>2
<1> QED BY <1>2, <1>3

-----------------------------------------------------------------------------
(* The invariant.                                                          *)

(* KernelInvariant is inductive, given the types and the rendezvous.       *)
LEMMA InvariantNext ==
  ASSUME TypeOK, TypeOK', Rendezvous', KernelInvariant, [Next]_vars
  PROVE  KernelInvariant'
<1>1. CurrentAlive
  BY DEF KernelInvariant, Current, CurrentAlive, Alive
<1>2. Given
  BY <1>1, SparedNext DEF Given
<1>3. Kept
  <2>1. CASE UNCHANGED vars
    BY <1>2, <2>1, KeptStutter DEF vars, Machine
  <2>2. CASE Next
    BY <1>2, <2>2, ConstantsAssumption, KeptSends, KeptReceives, KeptReplies, KeptCancel,
       KeptTaskSyscalls, KeptKills, KeptContinue, KeptDispatch DEF Next
  <2> QED BY <2>1, <2>2
<1> QED BY <1>3, SoundTasks DEF Kept, KernelInvariant

(* At boot nobody waits, calls or holds a lock.                            *)
LEMMA InvariantInit ==
  ASSUME Init
  PROVE  KernelInvariant
<1>1. \A e \in Endpoints : Members(sendQ[e]) = {} /\ Members(recvQ[e]) = {}
  BY DEF Init, Members
<1>2. Rendezvous /\ Queues
  BY <1>1 DEF Init, Rendezvous, Queues, Once
<1>3. \A t \in Tasks : /\ task[t] = FreshTask(IF t = Root THEN "suspended" ELSE "unused")
                       /\ cont[t] = User
  BY DEF Init
<1>4. \A t \in Tasks : task[t].caller = None /\ task[t].callee = None /\ cont[t].at = "user"
  <2>1. User.at = "user" /\ \A x : FreshTask(x).caller = None /\ FreshTask(x).callee = None
    BY DEF FreshTask, User, At
  <2> QED BY <1>3, <2>1
<1>5. Current /\ Fresh /\ Roles
  BY <1>3, ConstantsAssumption DEF Init, Current, Fresh, Roles, FreshTask
<1>6. Pairs /\ Served
  BY <1>4, ConstantsAssumption DEF Pairs, Served
<1>7. LockInventory
  BY DEF Init, LockInventory
<1> QED BY <1>2, <1>5, <1>6, <1>7 DEF KernelInvariant

(* The inductive invariant holds, whatever system calls the tasks make and *)
(* in whatever order the kernel runs them.                                 *)
THEOREM KernelInvariantHolds == Spec => []KernelInvariant
<1>1. Init => KernelInvariant
  BY InvariantInit
<1>2. TypeOK /\ TypeOK' /\ Rendezvous' /\ KernelInvariant /\ [Next]_vars => KernelInvariant'
  BY InvariantNext
<1> QED BY <1>1, <1>2, TypeCorrect, RendezvousHolds, PTL DEF Spec

(* A task in sender_queue or receiver_queue is there once, waits on that   *)
(* endpoint in that role, is in no call and has not returned to user mode. *)
THEOREM WaitQueuesHold == Spec => []WaitQueues
<1>1. KernelInvariant => WaitQueues
  BY DEF KernelInvariant, Queues, QueuedSender, QueuedReceiver, WaitQueues
<1> QED BY <1>1, KernelInvariantHolds, PTL

(* caller_task and callee_task are inverse of each other, except that a    *)
(* killed caller is forgotten.                                             *)
THEOREM CallPairingHolds == Spec => []CallPairing
<1>1. ASSUME NEW t PROVE t \in Waiters <=> Waits(t)
  BY DEF Waiters, Waits
<1>2. KernelInvariant => CallPairing
  BY <1>1 DEF KernelInvariant, Pairs, BlockedOn, CallPairing
<1> QED BY <1>2, KernelInvariantHolds, PTL

(* A lock held while another task runs is an endpoint's, held by a task    *)
(* inside the switch of ipc_send_short; a task's own, held by its          *)
(* suspension of itself; or one of those that kill_task, reached from the  *)
(* kill syscall or inside revoke_cap and destroy_cap_slot, keeps when it   *)
(* reschedules: its owner goes on by releasing them, or was killed.        *)
THEOREM LockInventoryHolds == Spec => []LockInventory
<1>1. KernelInvariant => LockInventory
  BY DEF KernelInvariant
<1> QED BY <1>1, KernelInvariantHolds, PTL

-----------------------------------------------------------------------------
(* The assertions.                                                         *)

(* What can stop the machine.                                              *)
PossibleFaults ==
  {NoFault, Hang, NullDeref, "push_ready_queue: links", "push_ready_queue: linked to itself",
   "remove_waiting_queue: state", "remove_ready_queue: state", "ipc_receive: caller state",
   "ipc_receive: caller's endpoint", "ipc_reply: caller state",
   "ipc_reply: caller's endpoint", "kill_task: no callee", "kill_task: root killed",
   "push_waiting_queue: state", "woken: ipc state"}

(* A chain of checks stops the machine in a possible way if each of them   *)
(* does that gets to run.                                                  *)
LEMMA ChainPossible ==
  ASSUME NEW f \in PossibleFaults, NEW g, f = NoFault => g \in PossibleFaults
  PROVE  (f ?? g) \in PossibleFaults
BY DEF ??

(* A check that passes, and the checks that may fail.                      *)
LEMMA ChecksPossible ==
  /\ \A why : Check(TRUE, why) = NoFault
  /\ \A ok, why : why \in PossibleFaults => Check(ok, why) \in PossibleFaults
  /\ \A o : Acquire(o) \in PossibleFaults
  /\ \A q, t : PushReady(q, t) \in PossibleFaults
  /\ \A q, t : Unlinkable(q, t) \in PossibleFaults
  /\ \A t : RemoveWaiting(t) \in PossibleFaults
  /\ NoFault \in PossibleFaults
BY DEF Check, Acquire, PushReady, Unlinkable, RemoveWaiting, ??, PossibleFaults

(* The assertions at the head of the sends and the receives.               *)
LEMMA EnterPossible ==
  ASSUME TypeOK, KernelInvariant, cur \in Tasks, cont[cur].at \notin {"sent", "received"},
         NEW e
  PROVE  /\ Enter(e) \in PossibleFaults
         /\ Check(cur \notin Waiters, "push_waiting_queue: links") = NoFault
<1>1. cur \notin Waiters /\ task[cur].callee = None
  BY CurrentFacts DEF Waiters, Waits
<1>2. /\ Check(cur \notin Waiters, "ipc: waiting links") = NoFault
      /\ Check(task[cur].callee = None, "ipc: callee") = NoFault
      /\ Check(cur \notin Waiters, "push_waiting_queue: links") = NoFault
  BY <1>1 DEF Check
<1> QED BY <1>2, ChainPossible, ChecksPossible DEF Enter

(* Delivering to a receiver that waits.                                    *)
LEMMA DeliverPossible ==
  ASSUME TypeOK, KernelInvariant, NEW e \in Endpoints, recvQ[e] # <<>>
  PROVE  Deliver(e) \in PossibleFaults
<1>1. PICK r : r = Head(recvQ[e])
  OBVIOUS
<1>2. Check(sendQ[e] = <<>>, "ipc_send: sender_queue") = NoFault
  BY DEF KernelInvariant, Rendezvous, Check
<1>3. Check(task[r].msg = "long", "ipc_transfer: msg state") = NoFault
  BY <1>1, HeadReceiver DEF QueuedReceiver, Check
<1>4. TransferTo(r) \in PossibleFaults
  BY <1>3, ChainPossible, ChecksPossible DEF TransferTo
<1> QED BY <1>1, <1>2, <1>4, ChainPossible, ChecksPossible DEF Deliver

(* The sends and the calls.                                                *)
LEMMA PossibleSends ==
  ASSUME TypeOK, KernelInvariant, NEW e \in Endpoints,
         SendShort(e) \/ NbSendShort(e) \/ SendLong(e) \/ NbSendLong(e) \/ Call(e)
  PROVE  fault' \in PossibleFaults
<1>1. cur \in Tasks /\ cont[cur].at \notin {"sent", "received"}
  <2>1. cur \in Tasks /\ cont[cur] = User
    BY DEF SendShort, NbSendShort, SendLong, NbSendLong, Call, Calls, InUserMode
  <2> QED BY <2>1 DEF User, At
<1>2. /\ Enter(e) \in PossibleFaults
      /\ Check(cur \notin Waiters, "push_waiting_queue: links") = NoFault
  BY <1>1, EnterPossible
<1>3. recvQ[e] # <<>> => Deliver(e) \in PossibleFaults
  BY DeliverPossible
<1>4. recvQ[e] # <<>> => /\ HandOverChecks(e) \in PossibleFaults
                         /\ (Enter(e) ?? Deliver(e)) \in PossibleFaults
  <2>1. (RemoveWaiting(Head(recvQ[e])) ?? PushReady(readyQ, cur)) \in PossibleFaults
    BY ChainPossible, ChecksPossible
  <2>2. recvQ[e] # <<>> =>
          (Deliver(e) ?? RemoveWaiting(Head(recvQ[e])) ?? PushReady(readyQ, cur))
             \in PossibleFaults
    BY <1>3, ChainPossible, ChecksPossible DEF ??
  <2> QED BY <1>2, <1>3, <2>2 DEF HandOverChecks, ??
<1>5. CASE Call(e)
  <2> DEFINE r == Head(recvQ[e])
  <2>1. recvQ[e] # <<>> =>
          /\ (Acquire(epLock[e]) ?? Deliver(e)) \in PossibleFaults
          /\ (Acquire(epLock[e]) ?? Deliver(e) ?? RemoveWaiting(r) ?? PushReady(readyQ, r))
               \in PossibleFaults
    BY <1>3, ChecksPossible DEF ??
  <2>2. (Acquire(epLock[e]) ?? Check(cur \notin Waiters, "push_waiting_queue: links"))
          \in PossibleFaults
    BY <1>2, ChecksPossible DEF ??
  <2> QED BY <1>5, <2>1, <2>2, ChecksPossible DEF Call, Try
<1>6. CASE SendShort(e) \/ NbSendShort(e)
  BY <1>2, <1>4, <1>6, ChecksPossible DEF SendShort, NbSendShort, SendShortDeliver, Try
<1>7. CASE SendLong(e) \/ NbSendLong(e)
  <2>1. ASSUME SendLongDeliver(e) PROVE fault' \in PossibleFaults
    BY <1>4, <2>1, ChecksPossible DEF SendLongDeliver, Try
  <2> QED BY <1>2, <1>7, <2>1, ChecksPossible DEF SendLong, NbSendLong, Try
<1> QED BY <1>5, <1>6, <1>7

(* The receives.                                                           *)
LEMMA PossibleReceives ==
  ASSUME TypeOK, KernelInvariant, NEW e \in Endpoints,
         Receive(e) \/ NbReceive(e) \/ ThenReceive(e)
  PROVE  fault' \in PossibleFaults
<1>1. cur \in Tasks /\ cont[cur].at \notin {"sent", "received"}
  <2>1. cur \in Tasks /\ cont[cur] \in {User, At("replied", e)}
    BY DEF Receive, NbReceive, ThenReceive, Calls, InUserMode
  <2> QED BY <2>1 DEF User, At
<1>2. Enter(e) \in PossibleFaults
  BY <1>1, EnterPossible
<1>3. CancelCaller(e) \in PossibleFaults
  <2>1. PICK c : c = task[cur].caller
    OBVIOUS
  <2>2. CASE c = None
    BY <2>1, <2>2, ChecksPossible DEF CancelCaller
  <2>3. CASE c # None
    <3>1. BlockedOn(c, cur)
      BY <1>1, <2>1, <2>3, Typing DEF KernelInvariant, Pairs
    <3>2. c \notin Waiters
      BY <3>1 DEF BlockedOn, Waits, Waiters
    <3>3. /\ Check(task[c].ipc = "calling" /\ task[c].event = "send",
                   "ipc_receive: caller ipc state") = NoFault
          /\ Check(c \notin Waiters, "ipc_receive: caller links") = NoFault
          /\ Check(task[c].callee = cur, "ipc_receive: caller's callee") = NoFault
      BY <3>1, <3>2 DEF BlockedOn, Check
    <3>4. /\ Check(task[c].state = "waiting", "ipc_receive: caller state") \in PossibleFaults
          /\ Check(task[c].ep = e, "ipc_receive: caller's endpoint") \in PossibleFaults
      BY DEF Check, PossibleFaults
    <3> QED BY <2>1, <2>3, <3>3, <3>4, ChecksPossible DEF CancelCaller, ??
  <2> QED BY <2>2, <2>3
<1>4. (Enter(e) ?? CancelCaller(e)) \in PossibleFaults
  BY <1>2, <1>3, ChainPossible
<1>5. sendQ[e] # <<>> => TakeSender(e) \in PossibleFaults
  <2>1. PICK s : s = Head(sendQ[e])
    OBVIOUS
  <2>2. sendQ[e] # <<>> =>
          /\ Check(recvQ[e] = <<>>, "ipc_receive: receiver_queue") = NoFault
          /\ Check(task[s].callee = None, "ipc_receive: sender's callee") = NoFault
    BY <2>1, HeadSender, ZenonT(30) DEF KernelInvariant, Rendezvous, QueuedSender, Check
  <2> QED BY <2>1, <2>2, ChecksPossible DEF TakeSender, ??
<1>6. sendQ[e] # <<>> =>
        /\ (Enter(e) ?? CancelCaller(e) ?? TakeSender(e)) \in PossibleFaults
        /\ ((Enter(e) ?? CancelCaller(e) ?? TakeSender(e)) ?? PushReady(ReadyAtReceive, cur))
             \in PossibleFaults
  BY <1>2, <1>3, <1>5, ChecksPossible DEF ??
<1>7. ASSUME ReceiveFrom(e) PROVE fault' \in PossibleFaults
  BY <1>6, <1>7, ChecksPossible DEF ReceiveFrom, Try
<1>8. ASSUME BlockReceiver(e) PROVE fault' \in PossibleFaults
  BY <1>4, <1>8, ChecksPossible DEF BlockReceiver, Try
<1> QED BY <1>4, <1>7, <1>8, ChecksPossible DEF Receive, NbReceive, ThenReceive, Try

(* The replies, and the destruction of an endpoint.                        *)
LEMMA PossibleReplies ==
  ASSUME TypeOK, KernelInvariant, NEW e \in Endpoints,
         Reply(e) \/ ReplyAndReceive(e) \/ Cancel(e)
  PROVE  fault' \in PossibleFaults
<1>1. cur \in Tasks
  BY DEF Reply, ReplyAndReceive, Cancel, Calls, InUserMode
<1>2. CASE Cancel(e)
  <2>1. \A q, t : CancelOne(q, t) \in PossibleFaults
    BY ChecksPossible DEF CancelOne, ??
  <2>2. CancelAll(e) \in PossibleFaults
    BY <2>1, ChecksPossible DEF CancelAll
  <2>3. (Acquire(epLock[e]) ?? CancelAll(e)) \in PossibleFaults
    BY <2>2, ChecksPossible DEF ??
  <2> QED BY <1>2, <2>3, ChecksPossible DEF Cancel, Try
<1>3. CASE Reply(e) \/ ReplyAndReceive(e)
  <2>1. PICK c : c = task[cur].caller
    OBVIOUS
  <2>2. ASSUME c # None PROVE ReplyTo(e, c) \in PossibleFaults
    <3>1. BlockedOn(c, cur)
      BY <1>1, <2>1, <2>2, Typing DEF KernelInvariant, Pairs
    <3>2. /\ Check(task[c].callee = cur, "ipc_reply: caller's callee") = NoFault
          /\ Check(task[c].ipc = "calling" /\ task[c].event = "send" /\ task[c].msg = "long",
                   "ipc_reply: caller ipc state") = NoFault
      BY <3>1 DEF BlockedOn, Check
    <3>3. /\ Check(task[c].state = "waiting", "ipc_reply: caller state") \in PossibleFaults
          /\ Check(task[c].ep = e, "ipc_reply: caller's endpoint") \in PossibleFaults
      BY DEF Check, PossibleFaults
    <3> QED BY <3>2, <3>3, ChecksPossible DEF ReplyTo, ??
  <2>3. c # None =>
          /\ (Acquire(epLock[e]) ?? ReplyTo(e, c)) \in PossibleFaults
          /\ (Acquire(epLock[e]) ?? ReplyTo(e, c) ?? PushReady(readyQ, c)) \in PossibleFaults
    BY <2>2, ChecksPossible DEF ??
  <2>4. ASSUME NEW next, DoReply(e, next) PROVE fault' \in PossibleFaults
    BY <2>1, <2>3, <2>4, ChecksPossible DEF DoReply, Try
  <2> QED BY <1>3, <2>4 DEF Reply, ReplyAndReceive
<1> QED BY <1>2, <1>3

(* The receiver at the head of a queue that the victim has left.           *)
LEMMA HeadLeft ==
  ASSUME TypeOK, KernelInvariant, NEW v \in Tasks, Detach(v) = NoFault, NEW n \in Endpoints,
         ReceiversWithout(v)[n] # <<>>
  PROVE  Head(ReceiversWithout(v)[n]) \in Members(recvQ[n])
<1>1. /\ ReceiversWithout(v)[n] \in Seq(Tasks) /\ Once(ReceiversWithout(v)[n])
      /\ Members(ReceiversWithout(v)[n]) \subseteq Members(recvQ[n])
  BY QueuesLeft, WithoutTypes
<1> QED BY <1>1, TailMembers

(* Kills: the victim is where its fields say, and the receiver of the      *)
(* notification has a buffer.                                              *)
LEMMA PossibleKills ==
  ASSUME TypeOK, KernelInvariant, NEW v \in Tasks, NEW o \in Tasks \cup {None},
         Kill(v, o) \/ KillAndNotify(v, o)
  PROVE  fault' \in PossibleFaults
<1>1. Detach(v) \in PossibleFaults
  <2>1. PICK c : c = task[v].callee
    OBVIOUS
  <2>2. PICK e : e = task[v].ep
    OBVIOUS
  <2> DEFINE g == Check(c # None, "kill_task: no callee") ?? Acquire(taskLock[c]) ??
                  Check(task[c].caller = v, "kill_task: callee's caller")
  <2>3. CASE task[v].state = "waiting" /\ e # None
    <3>1. task[v].ipc \in {"sending", "receiving", "calling"}
      BY <2>3 DEF KernelInvariant, Roles
    <3>2. c # None => Check(task[c].caller = v, "kill_task: callee's caller") = NoFault
      BY <2>1, <2>3, Typing DEF KernelInvariant, Pairs, Check
    <3>3. Check(c # None, "kill_task: no callee") \in PossibleFaults
      BY DEF Check, PossibleFaults
    <3>4. c = None => Check(c # None, "kill_task: no callee") # NoFault
      BY DEF Check, NoFault
    <3>5. g \in PossibleFaults
      BY <3>2, <3>3, <3>4, ChecksPossible DEF ??
    <3> HIDE DEF g
    <3>6. Detach(v) = Acquire(epLock[e]) ??
            (IF task[v].ipc = "sending" THEN Unlinkable(sendQ[e], v)
             ELSE IF task[v].ipc = "receiving" THEN Unlinkable(recvQ[e], v) ELSE g)
      BY <2>1, <2>2, <2>3, <3>1 DEF Detach, g
    <3> QED BY <3>5, <3>6, ChecksPossible DEF ??
  <2>4. CASE ~(task[v].state = "waiting" /\ e # None)
    BY <2>2, <2>4, ChecksPossible DEF Detach
  <2> QED BY <2>3, <2>4
<1>2. CASE Kill(v, o)
  <2>1. Check(v # Root, "kill_task: root killed") \in PossibleFaults
    BY DEF Check, PossibleFaults
  <2>2. (AcquireOwner(o) ?? Acquire(taskLock[v]) ?? Detach(v) ??
         Check(v # Root, "kill_task: root killed")) \in PossibleFaults
    BY <1>1, <2>1, ChecksPossible DEF AcquireOwner, ??
  <2> QED BY <1>2, <2>2, ChecksPossible DEF Kill, Try
<1>3. CASE KillAndNotify(v, o)
  <2>1. PICK n \in Endpoints : n = task[v].notify
    BY <1>3, Typing DEF KillAndNotify
  <2>2. PICK q : q = ReceiversWithout(v)[n]
    OBVIOUS
  <2>3. PICK r : r = Head(q)
    OBVIOUS
  <2>4. ASSUME Detach(v) = NoFault PROVE Notify(v) \in PossibleFaults
    <3>1. Check(q # <<>>, "push_waiting_queue: state") \in PossibleFaults
      BY DEF Check, PossibleFaults
    <3>2. q # <<>> => /\ task[r].msg = "long" /\ SendersWithout(v)[n] = <<>>
      <4>1. q # <<>> => r \in Members(recvQ[n])
        BY <2>1, <2>2, <2>3, <2>4, HeadLeft
      <4> QED BY <2>1, <2>2, <4>1, RendezvousWithout
              DEF KernelInvariant, Queues, QueuedReceiver
    <3>3. q # <<>> =>
            /\ Check(task[r].msg = "long", "ipc_transfer: msg state") = NoFault
            /\ Check(SendersWithout(v)[n] = <<>>, "ipc_send_kill_notify: sender_queue") = NoFault
      BY <3>2 DEF Check
    <3>4. q # <<>> => TransferTo(r) \in PossibleFaults
      BY <3>3, ChecksPossible DEF TransferTo, ??
    <3>5. Check(TasksWithout(v)[r].state = "waiting", "remove_waiting_queue: state")
            \in PossibleFaults
      BY DEF Check, PossibleFaults
    <3>6. q = <<>> => Check(q # <<>>, "push_waiting_queue: state") # NoFault
      BY DEF Check, NoFault
    <3> QED
      BY <2>1, <2>2, <2>3, <3>1, <3>3, <3>4, <3>5, <3>6, ChecksPossible DEF Notify, ??
  <2>5. (AcquireOwner(o) ?? Acquire(taskLock[v]) ?? Detach(v) ?? Notify(v)) \in PossibleFaults
    BY <1>1, <2>4, ChecksPossible DEF AcquireOwner, ??
  <2> QED BY <1>3, <2>5, ChecksPossible DEF KillAndNotify, Try
<1> QED BY <1>2, <1>3

(* The other task syscalls and the kernel's own steps.                     *)
LEMMA PossibleOthers ==
  ASSUME TypeOK, KernelInvariant, fault \in PossibleFaults,
         \/ \E v \in Tasks :
              \/ CreateTask(v) \/ Switch(v) \/ Suspend(v) \/ Resume(v)
              \/ \E e \in Endpoints : SetKillNotify(v, e)
         \/ Yield \/ Continue \/ Dispatch \/ LookupSpins \/ IdleSpin \/ Halted
  PROVE  fault' \in PossibleFaults
<1>1. ASSUME NEW v \in Tasks, CreateTask(v) PROVE fault' \in PossibleFaults
  BY <1>1, ChecksPossible DEF CreateTask, Try
<1>2. ASSUME NEW v \in Tasks, Switch(v) PROVE fault' \in PossibleFaults
  BY <1>2, ChecksPossible DEF Switch, Try, ??
<1>3. ASSUME NEW v \in Tasks, Suspend(v) PROVE fault' \in PossibleFaults
  BY <1>3, ChecksPossible DEF Suspend, Try, ??
<1>4. ASSUME NEW v \in Tasks, Resume(v) PROVE fault' \in PossibleFaults
  BY <1>4, ChecksPossible DEF Resume, Try, ??
<1>5. ASSUME NEW v \in Tasks, NEW e \in Endpoints, SetKillNotify(v, e)
      PROVE  fault' \in PossibleFaults
  BY <1>5, ChecksPossible DEF SetKillNotify, Try
<1>6. CASE Yield
  BY <1>6, ChecksPossible DEF Yield, Try, ??
<1>7. CASE Continue
  <2>1. ASSUME cur \in Tasks, cont[cur].at \in {"sent", "received"}
        PROVE  Woken \in PossibleFaults
    <3>1. CASE task[cur].ipc \in {"none", "canceled"}
      <4>1. /\ task[cur].msg = "empty"
            /\ cont[cur].at = "sent" => task[cur].event = "none"
        BY <2>1, <3>1 DEF KernelInvariant, Served
      <4> QED BY <3>1, <4>1, ChecksPossible DEF Woken, Check, ??
    <3>2. CASE task[cur].ipc \notin {"none", "canceled"}
      BY <3>2 DEF Woken, Check, ??, NoFault, PossibleFaults
    <3> QED BY <3>1, <3>2
  <2>2. \A x : Check(x # Root, "kill_task: root killed") \in PossibleFaults
    BY DEF Check, PossibleFaults
  <2> QED BY <1>7, <2>1, <2>2, ChecksPossible DEF Continue, Try
<1>8. CASE Dispatch
  <2>1. Check(task[Head(readyQ)].state = "ready", "remove_ready_queue: state") \in PossibleFaults
    BY DEF Check, PossibleFaults
  <2> QED BY <1>8, <2>1, ChecksPossible DEF Dispatch, Try
<1>9. CASE LookupSpins \/ IdleSpin \/ Halted
  BY <1>9, ChecksPossible DEF LookupSpins, Try, IdleSpin, Halted, vars
<1> QED BY <1>1, <1>2, <1>3, <1>4, <1>5, <1>6, <1>7, <1>8, <1>9

(* The assertion that has failed, if any, is one AssertionsHold allows.    *)
FaultPossible == fault \in PossibleFaults

(* None of the assertions of ipc.cpp and task.cpp that AssertionsHold      *)
(* lists ever fails, whatever the tasks do.                                *)
THEOREM AssertionsNeverFail == Spec => []AssertionsHold
<1>1. Init => FaultPossible
  BY DEF Init, FaultPossible, PossibleFaults
<1>2. TypeOK /\ KernelInvariant /\ FaultPossible /\ [Next]_vars => FaultPossible'
  <2> SUFFICES ASSUME TypeOK, KernelInvariant, FaultPossible, [Next]_vars
               PROVE  fault' \in PossibleFaults
    BY DEF FaultPossible, PossibleFaults
  <2>1. CASE UNCHANGED vars
    BY <2>1 DEF vars, FaultPossible
  <2>2. CASE Next
    BY <2>2, PossibleSends, PossibleReceives, PossibleReplies, PossibleKills,
       PossibleOthers DEF Next, FaultPossible
  <2> QED BY <2>1, <2>2
<1>3. FaultPossible => AssertionsHold
  BY DEF FaultPossible, PossibleFaults, AssertionsHold, NoFault, Hang, NullDeref
<1> QED BY <1>1, <1>2, <1>3, TypeCorrect, KernelInvariantHolds, PTL DEF Spec
=============================================================================
