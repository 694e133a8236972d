------------------------- MODULE IpcScheduleProofs -------------------------
(***************************************************************************)
(* No task is lost: every ready task is in the ready queue, every waiting  *)
(* one in a queue or in a call, and every running one on the hart, for any *)
(* number of tasks and endpoints and any set of system calls.              *)
(*                                                                         *)
(* This needs two hypotheses.  The root task runs from boot in the state   *)
(* suspended, so that a program that resumes it queues a task that is      *)
(* already running: it is nobody's target.  A call whose transfer to a     *)
(* waiting receiver fails returns with its task marked waiting: transfers  *)
(* succeed.                                                                *)
(***************************************************************************)
EXTENDS IpcInvariantProofs

(* The ready queue holds the ready tasks, each of them once.               *)
ReadyQueued ==
  /\ Once(readyQ)
  /\ \A t \in Tasks : task[t].state = "ready" <=> t \in Members(readyQ)

(* What NoTaskLost and OnHart say of one task, but for its being ready.    *)
Found(t) ==
  /\ task[t].state = "running" => cur = t \/ cont[t].at = "notified"
  /\ task[t].state = "waiting" => Waits(t) \/ task[t].callee # None
  /\ t = cur => task[t].state = "running" \/ (t = Root /\ task[t].state = "suspended")

(* Each action below starts in a state where Known holds and ends in one   *)
(* where Tracked does.                                                     *)
Known ==
  /\ Given /\ Root \notin Targets /\ ~TransferMayFail
  /\ ReadyQueued /\ \A t \in Tasks : Found(t)

Tracked == ReadyQueued' /\ \A t \in Tasks : Found(t)'

-----------------------------------------------------------------------------
(* The property by its parts.                                              *)

(* Waiters are the tasks that wait.                                        *)
LEMMA WaitersWait == \A t : t \in Waiters <=> Waits(t)
BY DEF Waiters, Waits

(* A task that is in a call is known to its callee.                        *)
LEMMA KnownToCallee ==
  ASSUME TypeOK, KernelInvariant, NEW t \in Tasks, task[t].state = "waiting"
  PROVE  task[t].callee # None <=>
           task[t].callee # None /\ task[task[t].callee].caller = t
<1>1. task[t].callee \in Tasks \cup {None}
  BY Typing
<1> QED BY <1>1 DEF KernelInvariant, Pairs

(* In a state of the kernel the parts amount to the property.              *)
LEMMA PartsOfSchedule ==
  ASSUME TypeOK, KernelInvariant
  PROVE  NoTaskLost /\ OnHart <=> ReadyQueued /\ \A t \in Tasks : Found(t)
<1>1. Root \in Tasks
  BY ConstantsAssumption
<1>2. ASSUME NoTaskLost, OnHart PROVE ReadyQueued /\ \A t \in Tasks : Found(t)
  BY <1>1, <1>2, WaitersWait DEF NoTaskLost, OnHart, ReadyQueued, Found
<1>3. ASSUME ReadyQueued, \A t \in Tasks : Found(t) PROVE NoTaskLost /\ OnHart
  <2>1. OnHart
    BY <1>3 DEF OnHart, Found
  <2>2. NoTaskLost
    BY <1>3, WaitersWait, KnownToCallee DEF NoTaskLost, ReadyQueued, Found
  <2> QED BY <2>1, <2>2
<1> QED BY <1>2, <1>3

(* What the current task is known to be.                                   *)
LEMMA CurrentNotReady ==
  ASSUME Known, cur \in Tasks
  PROVE  /\ task[cur].state \in {"running", "suspended"}
         /\ cur \in Targets => task[cur].state = "running"
         /\ cur \notin Members(readyQ)
BY DEF Known, Found, ReadyQueued

-----------------------------------------------------------------------------
(* Frames.                                                                 *)

(* A task that keeps its state: the current task, or one that is left      *)
(* where it is.                                                            *)
LEMMA StillFound ==
  ASSUME NEW t, Found(t), task'[t].state = task[t].state,
         \/ t = cur /\ cur' = cur
         \/ /\ t # cur /\ t # cur' /\ cont'[t] = cont[t]
            /\ task'[t].callee = task[t].callee /\ (Waits(t) => Waits(t)')
  PROVE  Found(t)'
BY DEF Found

(* A task that is neither running, waiting nor current needs nothing.      *)
LEMMA FoundAside ==
  ASSUME NEW t, task'[t].state \notin {"running", "waiting"}, t # cur'
  PROVE  Found(t)'
BY DEF Found

(* push_ready_queue lets a task in that is not there.                      *)
LEMMA PushPasses ==
  ASSUME NEW q, NEW t, PushReady(q, t) = NoFault
  PROVE  t \notin Members(q)
BY DEF PushReady, Check, ??, NoFault

(* The ready queue stays as it is.                                         *)
LEMMA ReadyStays ==
  ASSUME ReadyQueued, readyQ' = readyQ,
         \A t \in Tasks : task'[t].state = "ready" <=> task[t].state = "ready"
  PROVE  ReadyQueued'
BY DEF ReadyQueued

(* One task is made ready.                                                 *)
LEMMA ReadyJoins ==
  ASSUME TypeOK, ReadyQueued, NEW u \in Tasks, readyQ' = Append(readyQ, u),
         u \notin Members(readyQ), task'[u].state = "ready",
         \A t \in Tasks \ {u} : task'[t].state = "ready" <=> task[t].state = "ready"
  PROVE  ReadyQueued'
<1>1. readyQ \in Seq(Tasks)
  BY DEF TypeOK
<1> QED BY <1>1, AppendMembers DEF ReadyQueued

(* One task leaves the ready queue from anywhere.                          *)
LEMMA ReadyLeaves ==
  ASSUME TypeOK, ReadyQueued, NEW u \in Members(readyQ), readyQ' = Unlink(readyQ, u),
         task'[u].state # "ready",
         \A t \in Tasks \ {u} : task'[t].state = "ready" <=> task[t].state = "ready"
  PROVE  ReadyQueued'
<1>1. readyQ \in Seq(Tasks)
  BY DEF TypeOK
<1> QED BY <1>1, UnlinkMembers DEF ReadyQueued

(* Nothing changes.                                                        *)
LEMMA TrackedStutter ==
  ASSUME Known, UNCHANGED Machine
  PROVE  Tracked
<1>1. ReadyQueued'
  BY ReadyStays DEF Known, Machine
<1>2. ASSUME NEW t \in Tasks PROVE Found(t)'
  <2>1. Waits(t)' <=> Waits(t)
    BY DEF Machine, Waits
  <2> QED BY <2>1 DEF Known, Found, Machine
<1> QED BY <1>1, <1>2 DEF Tracked

(* The head of a receiver queue leaves it, and nobody else does.           *)
LEMMA OthersStayReceivers ==
  ASSUME TypeOK, KernelInvariant, NEW e \in Endpoints, recvQ[e] # <<>>,
         recvQ' = [recvQ EXCEPT ![e] = Tail(@)], UNCHANGED sendQ
  PROVE  \A t : t # Head(recvQ[e]) /\ Waits(t) => Waits(t)'
<1>1. recvQ[e] \in Seq(Tasks) /\ Once(recvQ[e]) /\ recvQ \in [Endpoints -> Seq(Tasks)]
  BY DEF TypeOK, KernelInvariant, Queues
<1>2. Members(Tail(recvQ[e])) = Members(recvQ[e]) \ {Head(recvQ[e])}
  BY <1>1, TailMembers
<1>3. \A d \in Endpoints : recvQ'[d] = IF d = e THEN Tail(recvQ[e]) ELSE recvQ[d]
  BY <1>1
<1> QED BY <1>2, <1>3 DEF Waits

(* The same for the head of a sender queue.                                *)
LEMMA OthersStaySenders ==
  ASSUME TypeOK, KernelInvariant, NEW e \in Endpoints, sendQ[e] # <<>>,
         sendQ' = [sendQ EXCEPT ![e] = Tail(@)], UNCHANGED recvQ
  PROVE  \A t : t # Head(sendQ[e]) /\ Waits(t) => Waits(t)'
<1>1. sendQ[e] \in Seq(Tasks) /\ Once(sendQ[e]) /\ sendQ \in [Endpoints -> Seq(Tasks)]
  BY DEF TypeOK, KernelInvariant, Queues
<1>2. Members(Tail(sendQ[e])) = Members(sendQ[e]) \ {Head(sendQ[e])}
  BY <1>1, TailMembers
<1>3. \A d \in Endpoints : sendQ'[d] = IF d = e THEN Tail(sendQ[e]) ELSE sendQ[d]
  BY <1>1
<1> QED BY <1>2, <1>3 DEF Waits

(* A task joins a waiting queue, and nobody leaves one.                    *)
LEMMA JoinsWaiting ==
  ASSUME TypeOK, NEW u \in Tasks, NEW e \in Endpoints,
         \/ sendQ' = [sendQ EXCEPT ![e] = PushWaiting(@, u)] /\ UNCHANGED recvQ
         \/ recvQ' = [recvQ EXCEPT ![e] = PushWaiting(@, u)] /\ UNCHANGED sendQ
  PROVE  Waits(u)' /\ \A t : Waits(t) => Waits(t)'
<1>1. /\ sendQ \in [Endpoints -> Seq(Tasks)] /\ recvQ \in [Endpoints -> Seq(Tasks)]
      /\ sendQ[e] \in Seq(Tasks) /\ recvQ[e] \in Seq(Tasks)
  BY DEF TypeOK
<1>2. /\ Members(Append(sendQ[e], u)) = Members(sendQ[e]) \cup {u}
      /\ Members(Append(recvQ[e], u)) = Members(recvQ[e]) \cup {u}
  BY <1>1, AppendMembers
<1>3. CASE sendQ' = [sendQ EXCEPT ![e] = PushWaiting(@, u)] /\ UNCHANGED recvQ
  <2>1. \A d \in Endpoints : sendQ'[d] = IF d = e THEN Append(sendQ[e], u) ELSE sendQ[d]
    BY <1>1, <1>3 DEF PushWaiting
  <2> QED BY <1>2, <1>3, <2>1 DEF Waits
<1>4. CASE recvQ' = [recvQ EXCEPT ![e] = PushWaiting(@, u)] /\ UNCHANGED sendQ
  <2>1. \A d \in Endpoints : recvQ'[d] = IF d = e THEN Append(recvQ[e], u) ELSE recvQ[d]
    BY <1>1, <1>4 DEF PushWaiting
  <2> QED BY <1>2, <1>4, <2>1 DEF Waits
<1> QED BY <1>3, <1>4

-----------------------------------------------------------------------------
(* The sends and the calls.                                                *)

(* A receiver is switched to: it takes the hart, the sender is ready.      *)
LEMMA TrackedHandOver ==
  ASSUME Known, cur \in Tasks, cont[cur] = User, NEW e \in Endpoints, recvQ[e] # <<>>,
         NEW msg \in MsgState, NEW ep, NEW place, HandOver(e, msg, ep, place),
         HandOverChecks(e) = NoFault
  PROVE  Tracked
<1>1. PICK r : r = Head(recvQ[e])
  OBVIOUS
<1>2. PICK mine : mine = InState(WithMsg(task[cur], msg), "ready")
  OBVIOUS
<1>3. PICK theirs : theirs = InState(WakeReceiver(task[r], "none"), "running")
  OBVIOUS
<1>4. Given /\ TypeOK /\ KernelInvariant /\ ReadyQueued /\ \A t \in Tasks : Found(t)
  BY DEF Known, Given
<1>5. r \in Tasks /\ Waits(r) /\ ~Waits(cur)
  BY <1>1, <1>4, HeadReceiver, CurrentFacts DEF User, At
<1>6. task[r].state = "waiting" /\ cur \notin Members(readyQ)
  <2>1. RemoveWaiting(r) = NoFault /\ PushReady(readyQ, cur) = NoFault
    BY <1>1, ChecksPass DEF HandOverChecks
  <2> QED BY <2>1, PushPasses DEF RemoveWaiting, Check, NoFault
<1>7. mine.state = "ready" /\ theirs.state = "running"
  <2>1. WithMsg(task[cur], msg) \in TaskRecord /\ WakeReceiver(task[r], "none") \in TaskRecord
    BY <1>4, <1>5, GivenParts, RecordTypes DEF IpcState
  <2> QED BY <1>2, <1>3, <2>1, RecordStates
<1>8. /\ \A t \in Tasks : task'[t] = IF t = r THEN theirs ELSE IF t = cur THEN mine ELSE task[t]
      /\ cur' = r /\ readyQ' = Append(readyQ, cur)
      /\ recvQ' = [recvQ EXCEPT ![e] = Tail(@)] /\ UNCHANGED sendQ
      /\ \A t \in Tasks \ {cur} : cont'[t] = cont[t]
  BY <1>1, <1>2, <1>3, <1>4, TwoLookup, GivenParts DEF HandOver, SwitchTask, Leave, TypeOK
<1>9. ReadyQueued'
  BY <1>4, <1>5, <1>6, <1>7, <1>8, ReadyJoins
<1>10. ASSUME NEW t \in Tasks PROVE Found(t)'
  <2>1. CASE t = r
    BY <1>7, <1>8, <2>1 DEF Found
  <2>2. CASE t = cur
    BY <1>5, <1>7, <1>8, <2>2, FoundAside
  <2>3. CASE t \notin {r, cur}
    <3>1. Waits(t) => Waits(t)'
      BY <1>1, <1>4, <1>8, <2>3, OthersStayReceivers
    <3> QED BY <1>4, <1>8, <2>3, <3>1, StillFound
  <2> QED BY <2>1, <2>2, <2>3
<1> QED BY <1>9, <1>10 DEF Tracked

(* A sender or caller joins the queue of the endpoint.                     *)
LEMMA TrackedBlockSender ==
  ASSUME Known, cur \in Tasks, NEW e \in Endpoints, NEW r, r.state = "waiting",
         BlockSender(e, r)
  PROVE  Tracked
<1>1. Given /\ TypeOK /\ KernelInvariant /\ ReadyQueued /\ \A t \in Tasks : Found(t)
  BY DEF Known, Given
<1>2. /\ \A t \in Tasks : task'[t] = IF t = cur THEN r ELSE task[t]
      /\ \A t \in Tasks \ {cur} : cont'[t] = cont[t]
      /\ cur' = Idle /\ Idle \notin Tasks /\ readyQ' = readyQ
  BY <1>1, OneLookup, GivenParts, ConstantsAssumption DEF BlockSender, Leave, Resched, TypeOK
<1>3. PICK me \in Tasks : me = cur
  OBVIOUS
<1>4. Waits(me)' /\ \A t : Waits(t) => Waits(t)'
  BY <1>1, <1>3, JoinsWaiting DEF BlockSender
<1>5. ReadyQueued'
  BY <1>1, <1>2, CurrentNotReady, ReadyStays
<1>6. ASSUME NEW t \in Tasks PROVE Found(t)'
  <2>1. CASE t = me
    BY <1>2, <1>3, <1>4, <2>1 DEF Found
  <2>2. CASE t # me
    BY <1>1, <1>2, <1>3, <1>4, <2>2, StillFound
  <2> QED BY <2>1, <2>2
<1> QED BY <1>5, <1>6 DEF Tracked

(* The call returns and no task changes state or leaves its place.         *)
LEMMA TrackedReturn ==
  ASSUME Known, cur \in Tasks, NEW tk, Return(tk, readyQ),
         \A t \in Tasks : tk[t].state = task[t].state /\ tk[t].callee = task[t].callee
  PROVE  Tracked
<1>1. ReadyQueued /\ \A t \in Tasks : Found(t)
  BY DEF Known
<1>2. ReadyQueued'
  BY <1>1, ReadyStays DEF Return
<1>3. ASSUME NEW t \in Tasks PROVE Found(t)'
  <2>1. Waits(t)' <=> Waits(t)
    BY DEF Return, Waits
  <2> QED BY <1>1, <2>1, StillFound DEF Return
<1> QED BY <1>2, <1>3 DEF Tracked

(* ipc_call with a receiver waiting: the caller waits for it, it is ready. *)
LEMMA TrackedCallReceiver ==
  ASSUME Known, cur \in Tasks, cont[cur] = User, NEW e \in Endpoints, recvQ[e] # <<>>,
         CallReceiver(e), RemoveWaiting(Head(recvQ[e])) = NoFault,
         PushReady(readyQ, Head(recvQ[e])) = NoFault
  PROVE  Tracked
<1>1. PICK r : r = Head(recvQ[e])
  OBVIOUS
<1>2. PICK mine : mine = WithCallee(AsCaller(task[cur], e), r)
  OBVIOUS
<1>3. PICK theirs : theirs = WithCaller(WakeReceiver(task[r], "none"), cur)
  OBVIOUS
<1>4. Given /\ TypeOK /\ KernelInvariant /\ ReadyQueued /\ \A t \in Tasks : Found(t)
  BY DEF Known, Given
<1>5. r \in Tasks /\ Waits(r) /\ ~Waits(cur)
  BY <1>1, <1>4, HeadReceiver, CurrentFacts DEF User, At
<1>6. task[r].state = "waiting" /\ r \notin Members(readyQ)
  BY <1>1, PushPasses DEF RemoveWaiting, Check, NoFault
<1>7. mine.state = "waiting" /\ mine.callee = r /\ theirs.state = "ready"
  <2>1. AsCaller(task[cur], e) \in TaskRecord /\ WakeReceiver(task[r], "none") \in TaskRecord
    BY <1>4, <1>5, GivenParts, RecordTypes DEF IpcState
  <2>2. AsCaller(task[cur], e).state = "waiting" /\ WakeReceiver(task[r], "none").state = "ready"
    BY <1>4, <1>5, GivenParts, RecordStates
  <2> QED BY <1>2, <1>3, <2>1, <2>2, RecordFields DEF Has
<1>8. /\ \A t \in Tasks : task'[t] = IF t = r THEN theirs ELSE IF t = cur THEN mine ELSE task[t]
      /\ cur' = Idle /\ Idle \notin Tasks /\ readyQ' = Append(readyQ, r)
      /\ recvQ' = [recvQ EXCEPT ![e] = Tail(@)] /\ UNCHANGED sendQ
      /\ \A t \in Tasks \ {cur} : cont'[t] = cont[t]
  BY <1>1, <1>2, <1>3, <1>4, TwoLookup, GivenParts, ConstantsAssumption
  DEF CallReceiver, Resched, Leave, TypeOK
<1>9. ReadyQueued'
  <2>1. \A t \in Tasks \ {r} : task'[t].state = "ready" <=> task[t].state = "ready"
    BY <1>7, <1>8, CurrentNotReady
  <2> QED BY <1>4, <1>5, <1>6, <1>7, <1>8, <2>1, ReadyJoins
<1>10. ASSUME NEW t \in Tasks PROVE Found(t)'
  <2>1. CASE t = r
    BY <1>7, <1>8, <2>1, FoundAside
  <2>2. CASE t = cur
    <3>1. task'[t] = mine /\ r # None
      BY <1>5, <1>8, <2>2, ConstantsAssumption
    <3> QED BY <1>7, <1>8, <3>1 DEF Found
  <2>3. CASE t \notin {r, cur}
    <3>1. Waits(t) => Waits(t)'
      BY <1>1, <1>4, <1>8, <2>3, OthersStayReceivers
    <3> QED BY <1>4, <1>8, <2>3, <3>1, StillFound
  <2> QED BY <2>1, <2>2, <2>3
<1> QED BY <1>9, <1>10 DEF Tracked

(* The sends and the calls lose nobody.                                    *)
LEMMA TrackedSends ==
  ASSUME Known, NEW e \in Endpoints,
         SendShort(e) \/ NbSendShort(e) \/ SendLong(e) \/ NbSendLong(e) \/ Call(e)
  PROVE  Tracked
<1>1. /\ cur \in Tasks /\ cont[cur] = User /\ task[cur] \in TaskRecord
      /\ FALSE \notin TransferResults /\ Given
  BY GivenParts DEF Known, SendShort, NbSendShort, SendLong, NbSendLong, Call, Calls, InUserMode,
                    TransferResults
<1>2. ASSUME NEW msg \in MsgState, Return(One(task, cur, WithMsg(task[cur], msg)), readyQ)
      PROVE  Tracked
  <2>1. \A t \in Tasks : /\ One(task, cur, WithMsg(task[cur], msg))[t].state = task[t].state
                         /\ One(task, cur, WithMsg(task[cur], msg))[t].callee = task[t].callee
    BY <1>1, OneLookup, GivenParts, RecordFields DEF Has
  <2> QED BY <1>1, <1>2, <2>1, TrackedReturn
<1>3. ASSUME NEW msg, BlockSender(e, AsSender(task[cur], e, msg)) PROVE Tracked
  BY <1>1, <1>3, RecordStates, TrackedBlockSender
<1>4. ASSUME BlockSender(e, AsCaller(task[cur], e)) PROVE Tracked
  BY <1>1, <1>4, RecordStates, TrackedBlockSender
<1>5. ASSUME recvQ[e] # <<>>, HandOverChecks(e) = NoFault,
             \/ HandOver(e, "short", [epLock EXCEPT ![e] = cur], At("short_switched", e))
             \/ HandOver(e, "long", epLock, At("switched", e))
      PROVE  Tracked
  BY <1>1, <1>5, TrackedHandOver DEF MsgState
<1>6. ASSUME recvQ[e] # <<>>, CallReceiver(e),
             (Acquire(epLock[e]) ?? Deliver(e) ?? RemoveWaiting(Head(recvQ[e])) ??
              PushReady(readyQ, Head(recvQ[e]))) = NoFault
      PROVE  Tracked
  <2>1. RemoveWaiting(Head(recvQ[e])) = NoFault /\ PushReady(readyQ, Head(recvQ[e])) = NoFault
    BY <1>6, ChecksPass
  <2> QED BY <1>1, <1>6, <2>1, TrackedCallReceiver
<1>7. CASE UNCHANGED Machine
  BY <1>7, TrackedStutter
<1>8. CASE ~UNCHANGED Machine
  <2>1. CASE SendShort(e) \/ NbSendShort(e)
    BY <1>2, <1>3, <1>5, <1>8, <2>1
    DEF SendShort, NbSendShort, SendShortDeliver, Try, Machine, MsgState
  <2>2. CASE SendLong(e) \/ NbSendLong(e)
    BY <1>1, <1>2, <1>3, <1>5, <1>8, <2>2
    DEF SendLong, NbSendLong, SendLongDeliver, Try, Machine, MsgState
  <2>3. CASE Call(e)
    BY <1>1, <1>4, <1>6, <1>8, <2>3 DEF Call, Try, Machine
  <2> QED BY <2>1, <2>2, <2>3
<1> QED BY <1>7, <1>8

-----------------------------------------------------------------------------
(* The receives.                                                           *)

(* The caller a receive cancels was waiting and joins the ready queue.     *)
LEMMA CanceledIsReady ==
  ASSUME Known, cur \in Tasks, NEW e \in Endpoints, CancelCaller(e) = NoFault,
         NEW c, c = task[cur].caller
  PROVE  /\ ReadyAtReceive \in Seq(Tasks) /\ Once(ReadyAtReceive)
         /\ \A t \in Tasks : t \in Members(ReadyAtReceive) <=> t = c \/ t \in Members(readyQ)
         /\ c \in Tasks => c # cur /\ ~Waits(c) /\ task[c].state = "waiting"
         /\ c \in Tasks => WakeCaller(task[c], "canceled").state = "ready"
<1>1. /\ Given /\ TypeOK /\ ReadyQueued /\ c \in Tasks \cup {None} /\ None \notin Tasks
      /\ readyQ \in Seq(Tasks) /\ Once(readyQ)
  BY Typing, ConstantsAssumption DEF Known, Given, TypeOK, ReadyQueued
<1>2. CASE c \notin Tasks
  BY <1>1, <1>2, MembersAreTasks DEF ReadyAtReceive
<1>3. CASE c \in Tasks
  <2>1. /\ Check(task[c].state = "waiting", "ipc_receive: caller state") = NoFault
        /\ PushReady(readyQ, c) = NoFault
    BY <1>1, <1>3 DEF CancelCaller, ??, NoFault
  <2>2. task[c].state = "waiting" /\ c \notin Members(readyQ)
    BY <2>1, PushPasses DEF Check, NoFault
  <2>3. c # cur /\ ~Waits(c)
    BY <1>1, <1>3, GivenParts DEF Pairs, BlockedOn
  <2>4. WakeCaller(task[c], "canceled").state = "ready"
    BY <1>1, <1>3, GivenParts, RecordStates
  <2>5. ReadyAtReceive = Append(readyQ, c)
    BY <1>1, <1>3 DEF ReadyAtReceive
  <2> QED BY <1>1, <1>3, <2>2, <2>3, <2>4, <2>5, AppendMembers
<1> QED BY <1>1, <1>2, <1>3

(* No sender: the receiver joins the queue of the endpoint.                *)
LEMMA TrackedWaitForSender ==
  ASSUME Known, cur \in Tasks, NEW e \in Endpoints, CancelCaller(e) = NoFault, WaitForSender(e)
  PROVE  Tracked
<1>1. PICK c : c = task[cur].caller
  OBVIOUS
<1>2. PICK woken : woken = WakeCaller(task[c], "canceled")
  OBVIOUS
<1>3. PICK mine : mine = AsReceiver(Receiver, e)
  OBVIOUS
<1>4. Given /\ TypeOK /\ KernelInvariant /\ ReadyQueued /\ \A t \in Tasks : Found(t)
  BY DEF Known, Given
<1>5. mine.state = "waiting"
  BY <1>3, <1>4, ReceiverFields, RecordStates
<1>6. /\ \A t \in Tasks : task'[t] = IF t = cur THEN mine ELSE IF t = c THEN woken ELSE task[t]
      /\ \A t \in Tasks \ {cur} : cont'[t] = cont[t]
      /\ cur' = Idle /\ Idle \notin Tasks /\ readyQ' = ReadyAtReceive
  BY <1>1, <1>2, <1>3, <1>4, CanceledCaller, OneLookup, GivenParts, ConstantsAssumption
  DEF WaitForSender, Leave, Resched, TypeOK
<1>7. PICK me \in Tasks : me = cur
  OBVIOUS
<1>8. Waits(me)' /\ \A t : Waits(t) => Waits(t)'
  BY <1>4, <1>7, JoinsWaiting DEF WaitForSender
<1>9. c \in Tasks => c # cur /\ woken.state = "ready"
  BY <1>1, <1>2, CanceledIsReady
<1>10. ReadyQueued'
  <2>1. /\ Once(ReadyAtReceive)
        /\ \A t \in Tasks : t \in Members(ReadyAtReceive) <=> t = c \/ t \in Members(readyQ)
    BY <1>1, CanceledIsReady
  <2> QED BY <1>4, <1>5, <1>6, <1>9, <2>1, CurrentNotReady DEF ReadyQueued
<1>11. ASSUME NEW t \in Tasks PROVE Found(t)'
  <2>1. CASE t = me
    BY <1>5, <1>6, <1>7, <1>8, <2>1 DEF Found
  <2>2. CASE t = c
    BY <1>6, <1>9, <2>2, FoundAside
  <2>3. CASE t \notin {me, c}
    BY <1>4, <1>6, <1>7, <1>8, <2>3, StillFound
  <2> QED BY <2>1, <2>2, <2>3
<1> QED BY <1>10, <1>11 DEF Tracked

(* The receive returns: its old caller is ready, the sender s (if any) now *)
(* waits in a call, and the current task runs on.                          *)
LEMMA TrackedTake ==
  ASSUME Known, cur \in Tasks, NEW e \in Endpoints, CancelCaller(e) = NoFault,
         NEW c, c = task[cur].caller, NEW woken, woken = WakeCaller(task[c], "canceled"),
         NEW mine, mine.state = task[cur].state, NEW s, NEW theirs,
         s \in Tasks => /\ s # cur /\ s # c /\ theirs.state = task[s].state
                        /\ theirs.callee # None,
         \A t \in Tasks : task'[t] = IF t = cur THEN mine ELSE
                                     IF t = s THEN theirs ELSE IF t = c THEN woken ELSE task[t],
         \A t \in Tasks \ {cur} : cont'[t] = cont[t],
         cur' = cur, readyQ' = ReadyAtReceive,
         \A t \in Tasks : t # s /\ Waits(t) => Waits(t)'
  PROVE  Tracked
<1>1. ReadyQueued /\ \A t \in Tasks : Found(t)
  BY DEF Known
<1>2. c \in Tasks => c # cur /\ woken.state = "ready"
  BY CanceledIsReady
<1>3. ReadyQueued'
  <2>1. /\ Once(ReadyAtReceive)
        /\ \A t \in Tasks : t \in Members(ReadyAtReceive) <=> t = c \/ t \in Members(readyQ)
    BY CanceledIsReady
  <2> QED BY <1>1, <1>2, <2>1 DEF ReadyQueued
<1>4. ASSUME NEW t \in Tasks PROVE Found(t)'
  <2>1. CASE t = cur
    BY <1>1, <2>1, StillFound
  <2>2. CASE t = s
    <3>1. /\ t # cur /\ t # cur' /\ task'[t] = theirs /\ cont'[t] = cont[t] /\ Found(t)
          /\ theirs.state = task[t].state /\ theirs.callee # None
      BY <1>1, <2>2
    <3> QED BY <3>1 DEF Found
  <2>3. CASE t = c /\ t # s
    BY <1>2, <2>3, FoundAside
  <2>4. CASE t \notin {cur, s, c}
    BY <1>1, <2>4, StillFound
  <2> QED BY <2>1, <2>2, <2>3, <2>4
<1> QED BY <1>3, <1>4 DEF Tracked

(* A plain sender is switched to: it takes the hart, the receiver and the  *)
(* caller it had are ready.                                                *)
LEMMA TrackedTakeAndSwitch ==
  ASSUME Known, cur \in Tasks, NEW e \in Endpoints, cont[cur] \in {User, At("replied", e)},
         sendQ[e] # <<>>, CancelCaller(e) = NoFault, RemoveWaiting(Head(sendQ[e])) = NoFault,
         PushReady(ReadyAtReceive, cur) = NoFault, TakeAndSwitch(e)
  PROVE  Tracked
<1>1. PICK c : c = task[cur].caller
  OBVIOUS
<1>2. PICK woken : woken = WakeCaller(task[c], "canceled")
  OBVIOUS
<1>3. PICK s : s = Head(sendQ[e])
  OBVIOUS
<1>4. PICK mine : mine = InState(Receiver, "ready")
  OBVIOUS
<1>5. PICK theirs : theirs = InState(WakeSender(task[s], "none"), "running")
  OBVIOUS
<1>6. Given /\ TypeOK /\ KernelInvariant /\ ReadyQueued /\ \A t \in Tasks : Found(t)
  BY DEF Known, Given
<1>7. s \in Tasks /\ Waits(s) /\ ~Waits(cur)
  BY <1>3, <1>6, HeadSender, CurrentFacts DEF User, At
<1>8. task[s].state = "waiting" /\ cur \notin Members(ReadyAtReceive)
  BY <1>3, PushPasses DEF RemoveWaiting, Check, NoFault
<1>9. mine.state = "ready" /\ theirs.state = "running"
  <2>1. WakeSender(task[s], "none") \in TaskRecord /\ Receiver \in TaskRecord
    BY <1>6, <1>7, GivenParts, RecordTypes, ReceiverFields DEF IpcState
  <2> QED BY <1>4, <1>5, <2>1, RecordStates
<1>10. /\ \A t \in Tasks : task'[t] = IF t = cur THEN mine ELSE
                                      IF t = s THEN theirs ELSE IF t = c THEN woken ELSE task[t]
       /\ \A t \in Tasks \ {cur} : cont'[t] = cont[t]
       /\ sendQ' = [sendQ EXCEPT ![e] = Tail(@)] /\ UNCHANGED recvQ
       /\ cur' = s /\ readyQ' = Append(ReadyAtReceive, cur)
  BY <1>1, <1>2, <1>3, <1>4, <1>5, <1>6, <1>7, CanceledCaller, TwoLookup, GivenParts
  DEF TakeAndSwitch, SwitchTask, Leave, TypeOK
<1>11. c \in Tasks => c \notin {cur, s} /\ woken.state = "ready"
  BY <1>1, <1>2, <1>7, CanceledIsReady
<1>12. ReadyQueued'
  <2>1. /\ Once(ReadyAtReceive) /\ ReadyAtReceive \in Seq(Tasks)
        /\ \A t \in Tasks : t \in Members(ReadyAtReceive) <=> t = c \/ t \in Members(readyQ)
    BY <1>1, CanceledIsReady
  <2>2. /\ Once(readyQ')
        /\ Members(readyQ') = Members(ReadyAtReceive) \cup {cur}
    BY <1>8, <1>10, <2>1, AppendMembers
  <2> QED BY <1>6, <1>7, <1>8, <1>9, <1>10, <1>11, <2>1, <2>2 DEF ReadyQueued
<1>13. ASSUME NEW t \in Tasks PROVE Found(t)'
  <2>1. CASE t = s
    BY <1>7, <1>9, <1>10, <2>1 DEF Found
  <2>2. CASE t = cur
    BY <1>7, <1>9, <1>10, <2>2, FoundAside
  <2>3. CASE t = c
    BY <1>10, <1>11, <2>3, FoundAside
  <2>4. CASE t \notin {s, cur, c}
    <3>1. Waits(t) => Waits(t)'
      BY <1>3, <1>6, <1>10, <2>4, OthersStaySenders
    <3> QED BY <1>6, <1>10, <2>4, <3>1, StillFound
  <2> QED BY <2>1, <2>2, <2>3, <2>4
<1> QED BY <1>12, <1>13 DEF Tracked

(* The receives lose nobody.                                               *)
LEMMA TrackedReceives ==
  ASSUME Known, NEW e \in Endpoints, Receive(e) \/ NbReceive(e) \/ ThenReceive(e)
  PROVE  Tracked
<1>1. /\ cur \in Tasks /\ cont[cur] \in {User, At("replied", e)}
      /\ FALSE \notin TransferResults /\ Given /\ TypeOK /\ KernelInvariant
  BY DEF Known, Receive, NbReceive, ThenReceive, Calls, InUserMode, TransferResults, Given
<1>2. PICK c : c = task[cur].caller
  OBVIOUS
<1>3. PICK woken : woken = WakeCaller(task[c], "canceled")
  OBVIOUS
<1>4. Receiver.state = task[cur].state /\ Receiver \in TaskRecord
  BY <1>1, ReceiverFields DEF Has
<1>5. CASE UNCHANGED Machine
  BY <1>5, TrackedStutter
<1>6. CASE ~UNCHANGED Machine
  <2>1. PICK s : s = Head(sendQ[e])
    OBVIOUS
  <2>2. PICK checks : checks = Enter(e) ?? CancelCaller(e) ?? TakeSender(e)
    OBVIOUS
  <2>3. ASSUME checks = NoFault
        PROVE  CancelCaller(e) = NoFault /\ RemoveWaiting(s) = NoFault
    <3>1. CancelCaller(e) = NoFault /\ TakeSender(e) = NoFault
      BY <2>2, <2>3, ChecksPass
    <3> QED BY <2>1, <3>1, ChecksPass DEF TakeSender
  <2>4. ASSUME sendQ[e] # <<>>, checks = NoFault,
               Take(e, Two(TasksAtReceive, cur, WithCaller(Receiver, s),
                           s, WithCallee(task[s], cur)))
        PROVE  Tracked
    <3>1. PICK mine : mine = WithCaller(Receiver, s)
      OBVIOUS
    <3>2. PICK theirs : theirs = WithCallee(task[s], cur)
      OBVIOUS
    <3>3. s \in Tasks /\ Waits(s) /\ ~Waits(cur)
      BY <1>1, <2>1, <2>4, HeadSender, CurrentFacts DEF User, At
    <3>4. s # cur /\ s # c /\ CancelCaller(e) = NoFault
      BY <1>1, <1>2, <2>3, <2>4, <3>3, CanceledIsReady
    <3>5. mine.state = task[cur].state /\ theirs.state = task[s].state /\ theirs.callee # None
      BY <1>1, <1>4, <3>1, <3>2, <3>3, RecordFields, GivenParts, ConstantsAssumption DEF Has
    <3>6. /\ \A t \in Tasks : task'[t] = IF t = cur THEN mine ELSE
                                  IF t = s THEN theirs ELSE IF t = c THEN woken ELSE task[t]
          /\ \A t \in Tasks \ {cur} : cont'[t] = cont[t]
          /\ cur' = cur /\ readyQ' = ReadyAtReceive
          /\ sendQ' = [sendQ EXCEPT ![e] = Tail(@)] /\ UNCHANGED recvQ
      BY <1>1, <1>2, <1>3, <2>4, <3>1, <3>2, <3>4, CanceledCaller, TwoLookup, GivenParts
      DEF Take, Leave, TypeOK
    <3>7. \A t \in Tasks : t # s /\ Waits(t) => Waits(t)'
      BY <1>1, <2>1, <2>4, <3>6, OthersStaySenders
    <3> QED BY <1>1, <1>2, <1>3, <3>4, <3>5, <3>6, <3>7, TrackedTake, SMTT(20)
  <2>5. ASSUME sendQ[e] # <<>>, (checks ?? PushReady(ReadyAtReceive, cur)) = NoFault,
               TakeAndSwitch(e)
        PROVE  Tracked
    <3>1. checks = NoFault /\ PushReady(ReadyAtReceive, cur) = NoFault
      BY <2>5, ChecksPass
    <3> QED BY <1>1, <2>1, <2>3, <2>5, <3>1, TrackedTakeAndSwitch
  <2>6. ASSUME ReceiveFrom(e) PROVE Tracked
    BY <1>1, <1>6, <2>1, <2>2, <2>4, <2>5, <2>6 DEF ReceiveFrom, Try, Machine
  <2>7. ASSUME (Enter(e) ?? CancelCaller(e)) = NoFault PROVE CancelCaller(e) = NoFault
    BY <2>7, ChecksPass
  <2>8. ASSUME BlockReceiver(e) PROVE Tracked
    BY <1>1, <1>6, <2>7, <2>8, TrackedWaitForSender DEF BlockReceiver, Try, Machine
  <2>9. ASSUME CancelCaller(e) = NoFault,
               Return(One(TasksAtReceive, cur, Receiver), ReadyAtReceive)
        PROVE  Tracked
    <3>1. PICK n : n = None
      OBVIOUS
    <3>2. PICK mine : mine = Receiver
      OBVIOUS
    <3>3. n \notin Tasks
      BY <3>1, ConstantsAssumption
    <3>4. /\ \A t \in Tasks : task'[t] = IF t = cur THEN mine ELSE
                                  IF t = n THEN n ELSE IF t = c THEN woken ELSE task[t]
          /\ cur' = cur /\ readyQ' = ReadyAtReceive /\ cont' = cont
          /\ \A t : Waits(t)' <=> Waits(t)
      BY <1>1, <1>2, <1>3, <2>9, <3>2, <3>3, CanceledCaller, OneLookup, GivenParts
      DEF Return, Waits
    <3> QED BY <1>1, <1>2, <1>3, <1>4, <2>9, <3>2, <3>3, <3>4, TrackedTake
  <2> QED BY <1>6, <2>6, <2>7, <2>8, <2>9 DEF Receive, NbReceive, ThenReceive, Try, Machine
<1> QED BY <1>5, <1>6

-----------------------------------------------------------------------------
(* The replies and the destruction of an endpoint.                         *)

(* The replies lose nobody: the caller joins the ready queue.              *)
LEMMA TrackedReplies ==
  ASSUME Known, NEW e \in Endpoints, Reply(e) \/ ReplyAndReceive(e)
  PROVE  Tracked
<1>1. /\ cur \in Tasks /\ FALSE \notin TransferResults /\ Given /\ TypeOK
      /\ ReadyQueued /\ \A t \in Tasks : Found(t)
  BY DEF Known, Reply, ReplyAndReceive, Calls, InUserMode, TransferResults, Given
<1>2. PICK c \in Tasks \cup {None} : c = task[cur].caller
  BY <1>1, Typing
<1>3. PICK next \in {User, At("replied", e)} : DoReply(e, next)
  BY DEF Reply, ReplyAndReceive
<1>4. CASE UNCHANGED Machine
  BY <1>4, TrackedStutter
<1>5. ASSUME Replied(task, readyQ, next) PROVE Tracked
  <2>1. /\ UNCHANGED <<cur, task, readyQ, sendQ, recvQ>>
        /\ \A t \in Tasks \ {cur} : cont'[t] = cont[t]
    BY <1>1, <1>5 DEF Replied, Leave, TypeOK
  <2>2. ReadyQueued'
    BY <1>1, <2>1, ReadyStays
  <2>3. ASSUME NEW t \in Tasks PROVE Found(t)'
    <3>1. Waits(t)' <=> Waits(t)
      BY <2>1 DEF Waits
    <3> QED BY <1>1, <2>1, <3>1, StillFound
  <2> QED BY <2>2, <2>3 DEF Tracked
<1>6. ASSUME c # None, (Acquire(epLock[e]) ?? ReplyTo(e, c) ?? PushReady(readyQ, c)) = NoFault,
             Replied(Two(task, cur, WithCaller(WithMsg(task[cur], "empty"), None),
                         c, WakeCaller(task[c], "none")), Append(readyQ, c), next)
      PROVE  Tracked
  <2>1. PICK mine : mine = WithCaller(WithMsg(task[cur], "empty"), None)
    OBVIOUS
  <2>2. PICK woken : woken = WakeCaller(task[c], "none")
    OBVIOUS
  <2>3. c \in Tasks /\ c # cur
    BY <1>1, <1>2, <1>6, <2>2, OwedReply DEF BlockedOn
  <2>4. mine.state = task[cur].state /\ woken.state = "ready"
    <3>1. task[cur] \in TaskRecord /\ task[c] \in TaskRecord
      BY <1>1, <2>3, GivenParts
    <3>2. WithMsg(task[cur], "empty") \in TaskRecord
      BY <3>1, RecordTypes DEF MsgState
    <3> QED BY <2>1, <2>2, <3>1, <3>2, RecordStates
  <2>5. c \notin Members(readyQ)
    <3>1. PushReady(readyQ, c) = NoFault
      BY <1>6, ChecksPass
    <3> QED BY <3>1, PushPasses
  <2>6. /\ \A t \in Tasks : task'[t] = IF t = c THEN woken ELSE IF t = cur THEN mine ELSE task[t]
        /\ UNCHANGED <<cur, sendQ, recvQ>> /\ readyQ' = Append(readyQ, c)
        /\ \A t \in Tasks \ {cur} : cont'[t] = cont[t]
    BY <1>1, <1>6, <2>1, <2>2, TwoLookup, GivenParts DEF Replied, Leave, TypeOK
  <2>7. ReadyQueued'
    BY <1>1, <2>3, <2>4, <2>5, <2>6, ReadyJoins
  <2>8. ASSUME NEW t \in Tasks PROVE Found(t)'
    <3>1. Waits(t)' <=> Waits(t)
      BY <2>6 DEF Waits
    <3>2. CASE t = c
      BY <2>3, <2>4, <2>6, <3>2, FoundAside
    <3>3. CASE t # c
      BY <1>1, <2>3, <2>4, <2>6, <3>1, <3>3, StillFound
    <3> QED BY <3>2, <3>3
  <2> QED BY <2>7, <2>8 DEF Tracked
<1>7. CASE ~UNCHANGED Machine
  BY <1>1, <1>2, <1>3, <1>5, <1>6, <1>7 DEF DoReply, Try, Machine
<1> QED BY <1>4, <1>7

(* Two queues without a common member, one behind the other.               *)
LEMMA ConcatMembers ==
  ASSUME NEW p \in Seq(Tasks), NEW q \in Seq(Tasks), Once(p), Once(q),
         Members(p) \cap Members(q) = {}
  PROVE  /\ Members(p \o q) = Members(p) \cup Members(q)
         /\ Once(p \o q)
<1>1. /\ Len(p \o q) = Len(p) + Len(q) /\ Len(p) \in Nat /\ Len(q) \in Nat
      /\ \A i \in 1..Len(p \o q) : (p \o q)[i] = IF i <= Len(p) THEN p[i] ELSE q[i - Len(p)]
  OBVIOUS
<1>2. ASSUME NEW t \in Members(p \o q) PROVE t \in Members(p) \cup Members(q)
  <2>1. PICK i \in 1..Len(p \o q) : (p \o q)[i] = t
    BY <1>2 DEF Members
  <2>2. CASE i <= Len(p)
    BY <1>1, <2>1, <2>2 DEF Members
  <2>3. CASE i > Len(p)
    <3>1. i - Len(p) \in 1..Len(q) /\ q[i - Len(p)] = t
      BY <1>1, <2>1, <2>3
    <3> QED BY <3>1 DEF Members
  <2> QED BY <1>1, <2>1, <2>2, <2>3
<1>3. Members(p \o q) = Members(p) \cup Members(q)
  BY <1>2, ConcatMember
<1>4. Once(p \o q)
  <2> SUFFICES ASSUME NEW i \in 1..Len(p \o q), NEW j \in 1..Len(p \o q),
                      (p \o q)[i] = (p \o q)[j]
               PROVE  i = j
    BY DEF Once
  <2>1. CASE i <= Len(p) /\ j <= Len(p)
    BY <1>1, <2>1 DEF Once
  <2>2. CASE i > Len(p) /\ j > Len(p)
    <3>1. /\ i - Len(p) \in 1..Len(q) /\ j - Len(p) \in 1..Len(q)
          /\ q[i - Len(p)] = q[j - Len(p)]
      BY <1>1, <2>2
    <3>2. i - Len(p) = j - Len(p)
      BY <3>1 DEF Once
    <3> QED BY <1>1, <3>2
  <2>3. ASSUME NEW k \in 1..Len(p \o q), NEW l \in 1..Len(p \o q), k <= Len(p), l > Len(p)
        PROVE  (p \o q)[k] # (p \o q)[l]
    <3>1. k \in 1..Len(p) /\ (p \o q)[k] = p[k]
      BY <1>1, <2>3
    <3>2. l - Len(p) \in 1..Len(q) /\ (p \o q)[l] = q[l - Len(p)]
      BY <1>1, <2>3
    <3>3. (p \o q)[k] \in Members(p) /\ (p \o q)[l] \in Members(q)
      BY <3>1, <3>2 DEF Members
    <3> QED BY <3>3
  <2> QED BY <1>1, <2>1, <2>2, <2>3
<1> QED BY <1>3, <1>4

(* destroy_endpoint loses nobody: whoever waited there is ready.           *)
LEMMA TrackedCancel ==
  ASSUME Known, NEW e \in Endpoints, Cancel(e)
  PROVE  Tracked
<1>1. CASE UNCHANGED Machine
  BY <1>1, TrackedStutter
<1>2. CASE ~UNCHANGED Machine
  <2>1. /\ Canceled(e) /\ cur \in Tasks /\ cont[cur] = User
        /\ (Acquire(epLock[e]) ?? CancelAll(e)) = NoFault
    BY <1>2 DEF Cancel, Calls, InUserMode, Try, Machine
  <2>2. Given /\ TypeOK /\ KernelInvariant /\ ReadyQueued /\ \A t \in Tasks : Found(t)
    BY DEF Known, Given
  <2>3. PICK R : R = Members(recvQ[e])
    OBVIOUS
  <2>4. PICK S : S = Members(sendQ[e])
    OBVIOUS
  <2>5. \A t \in R \cup S : task[t].state = "waiting" /\ Waits(t)
    <3>1. CancelAll(e) = NoFault
      BY <2>1, ChecksPass
    <3> QED BY <2>2, <2>3, <2>4, <3>1, CancelAllWaiting DEF Waits
  <2>6. ~Waits(cur)
    BY <2>1, <2>2, CurrentFacts DEF User, At
  <2>7. /\ \A t \in Tasks : task'[t] = IF t \in R THEN WakeReceiver(task[t], "canceled")
                                       ELSE IF t \in S THEN WakeSender(task[t], "canceled")
                                       ELSE task[t]
        /\ \A d \in Endpoints : /\ sendQ'[d] = IF d = e THEN <<>> ELSE sendQ[d]
                                /\ recvQ'[d] = IF d = e THEN <<>> ELSE recvQ[d]
        /\ UNCHANGED <<cur, cont>> /\ readyQ' = readyQ \o recvQ[e] \o sendQ[e]
    BY <2>1, <2>2, <2>3, <2>4, GivenParts DEF Canceled, TypeOK
  <2>8. \A t \in Tasks \cap (R \cup S) : task'[t].state = "ready"
    BY <2>2, <2>7, GivenParts, RecordStates
  <2>9. Once(readyQ') /\ Members(readyQ') = Members(readyQ) \cup R \cup S
    <3>1. /\ readyQ \in Seq(Tasks) /\ recvQ[e] \in Seq(Tasks) /\ sendQ[e] \in Seq(Tasks)
          /\ Once(readyQ) /\ Once(recvQ[e]) /\ Once(sendQ[e])
      BY <2>2, GivenParts DEF TypeOK, Queues, ReadyQueued
    <3>2. Members(readyQ) \cap (R \cup S) = {} /\ R \cap S = {}
      <4>1. R \cap S = {}
        BY <2>2, <2>3, <2>4, GivenParts DEF Queues, QueuedReceiver, QueuedSender
      <4>2. \A t \in Members(readyQ) : task[t].state = "ready"
        BY <2>2, <3>1, MembersAreTasks DEF ReadyQueued
      <4> QED BY <2>5, <4>1, <4>2
    <3>3. /\ Members(readyQ \o recvQ[e]) = Members(readyQ) \cup R /\ Once(readyQ \o recvQ[e])
          /\ readyQ \o recvQ[e] \in Seq(Tasks)
      BY <2>3, <3>1, <3>2, ConcatMembers
    <3>4. PICK p : p = readyQ \o recvQ[e]
      OBVIOUS
    <3>5. PICK q : q = sendQ[e]
      OBVIOUS
    <3>6. Once(p \o q) /\ Members(p \o q) = Members(p) \cup Members(q)
      <4>1. p \in Seq(Tasks) /\ q \in Seq(Tasks) /\ Once(p) /\ Once(q)
        BY <3>1, <3>3, <3>4, <3>5
      <4>2. Members(p) \cap Members(q) = {}
        BY <2>4, <3>2, <3>3, <3>4, <3>5
      <4> QED BY <4>1, <4>2, ConcatMembers
    <3>7. readyQ' = p \o q
      BY <2>7, <3>4, <3>5
    <3> QED BY <2>4, <3>3, <3>4, <3>5, <3>6, <3>7
  <2>10. ReadyQueued'
    BY <2>2, <2>7, <2>8, <2>9 DEF ReadyQueued
  <2>11. ASSUME NEW t \in Tasks PROVE Found(t)'
    <3>1. CASE t \in R \cup S
      BY <2>5, <2>6, <2>7, <2>8, <3>1, FoundAside
    <3>2. CASE t \notin R \cup S
      <4>1. Waits(t) => Waits(t)'
        BY <2>3, <2>4, <2>7, <3>2 DEF Waits
      <4> QED BY <2>2, <2>7, <3>2, <4>1, StillFound
    <3> QED BY <3>1, <3>2
  <2> QED BY <2>10, <2>11 DEF Tracked
<1> QED BY <1>1, <1>2

-----------------------------------------------------------------------------
(* The task syscalls.                                                      *)

(* One task other than the current one gets a state in which it need not   *)
(* be found anywhere but in the ready queue.                               *)
LEMMA TrackedOne ==
  ASSUME Known, cur \in Tasks, NEW v \in Tasks \ {cur}, NEW r, NEW q,
         r.state \notin {"running", "waiting"}, Return(One(task, v, r), q), ReadyQueued'
  PROVE  Tracked
<1>1. Given /\ \A t \in Tasks : Found(t)
  BY DEF Known
<1>2. /\ \A t \in Tasks : task'[t] = IF t = v THEN r ELSE task[t]
      /\ UNCHANGED <<cur, sendQ, recvQ, cont>>
  BY <1>1, OneLookup, GivenParts DEF Return
<1>3. ASSUME NEW t \in Tasks PROVE Found(t)'
  <2>1. Waits(t)' <=> Waits(t)
    BY <1>2 DEF Waits
  <2>2. CASE t = v
    BY <1>2, <2>2, FoundAside
  <2>3. CASE t # v
    BY <1>1, <1>2, <2>1, <2>3, StillFound
  <2> QED BY <2>2, <2>3
<1> QED BY <1>3 DEF Tracked

(* The current task gives up the hart in a state in which it need not be   *)
(* found anywhere but in the ready queue, perhaps to another task.         *)
LEMMA TrackedGiveUp ==
  ASSUME Known, cur \in Tasks, NEW to, to # cur,
         task'[cur].state \notin {"running", "waiting"}, cur' = to,
         to \in Tasks => task'[to].state = "running",
         \A t \in Tasks \ {cur, to} : task'[t] = task[t],
         \A t \in Tasks \ {cur} : cont'[t] = cont[t],
         UNCHANGED <<sendQ, recvQ>>, ReadyQueued'
  PROVE  Tracked
<1>1. ASSUME NEW t \in Tasks PROVE Found(t)'
  <2>1. (Waits(t)' <=> Waits(t)) /\ Found(t)
    BY DEF Waits, Known
  <2>2. CASE t = cur
    BY <2>2, FoundAside
  <2>3. CASE t = to
    BY <2>3 DEF Found
  <2>4. CASE t \notin {cur, to}
    BY <2>1, <2>4, StillFound
  <2> QED BY <2>2, <2>3, <2>4
<1> QED BY <1>1 DEF Tracked

(* create, switch, suspend, resume, set_kill_notify and yield lose nobody. *)
LEMMA TrackedTaskSyscalls ==
  ASSUME Known, NEW v \in Tasks,
         \/ CreateTask(v) \/ Switch(v) \/ Suspend(v) \/ Resume(v) \/ Yield
         \/ \E e \in Endpoints : SetKillNotify(v, e)
  PROVE  Tracked
<1>1. /\ Given /\ TypeOK /\ cur \in Tasks /\ ReadyQueued /\ task \in TaskTable
      /\ task[cur] \in TaskRecord /\ task[v] \in TaskRecord
  BY GivenParts DEF Known, Given, CreateTask, Switch, Suspend, Resume, Yield, SetKillNotify,
                    CallsOn, Calls, InUserMode
<1>2. /\ task[cur].state \in {"running", "suspended"} /\ cur \notin Members(readyQ)
      /\ cur \in Targets => task[cur].state = "running"
  BY <1>1, CurrentNotReady
<1>3. CASE UNCHANGED Machine
  BY <1>3, TrackedStutter
<1>4. ASSUME Return(task, readyQ) PROVE Tracked
  BY <1>1, <1>4, TrackedReturn
<1>5. CASE ~UNCHANGED Machine
  <2>1. CASE CreateTask(v)
    <3>1. PICK r : r = FreshTask("suspended")
      OBVIOUS
    <3>2. task[v].state = "unused" /\ Return(One(task, v, r), readyQ) /\ r.state = "suspended"
      BY <1>5, <2>1, <3>1 DEF CreateTask, Try, Machine, FreshTask
    <3>3. ReadyQueued'
      BY <1>1, <3>2, OneLookup, ReadyStays DEF Return
    <3> QED BY <1>1, <1>2, <3>2, <3>3, TrackedOne
  <2>2. CASE Switch(v)
    <3>1. task[v].state = "ready" => v # cur
      BY <1>2
    <3>2. ASSUME task[v].state = "ready", SwitchTo(v), PushReady(Unlink(readyQ, v), cur) = NoFault
          PROVE  Tracked
      <4>1. PICK mine : mine = InState(task[cur], "ready")
        OBVIOUS
      <4>2. PICK theirs : theirs = InState(task[v], "running")
        OBVIOUS
      <4>3. mine.state = "ready" /\ theirs.state = "running"
        BY <1>1, <4>1, <4>2, RecordStates
      <4>4. /\ \A t \in Tasks : task'[t] = IF t = v THEN theirs
                                           ELSE IF t = cur THEN mine ELSE task[t]
            /\ cur' = v /\ readyQ' = Append(Unlink(readyQ, v), cur)
            /\ UNCHANGED <<sendQ, recvQ, cont>>
        BY <1>1, <3>2, <4>1, <4>2, TwoLookup DEF SwitchTo, SwitchTask
      <4>5. ReadyQueued'
        <5>1. /\ readyQ \in Seq(Tasks) /\ Once(readyQ) /\ v \in Members(readyQ)
              /\ Unlink(readyQ, v) \in Seq(Tasks)
          BY <1>1, <3>2, UnlinkType DEF TypeOK, ReadyQueued
        <5>2. /\ Once(Unlink(readyQ, v)) /\ Members(Unlink(readyQ, v)) = Members(readyQ) \ {v}
              /\ cur \notin Members(Unlink(readyQ, v))
          BY <3>2, <5>1, UnlinkMembers, PushPasses
        <5>3. Once(readyQ') /\ Members(readyQ') = (Members(readyQ) \ {v}) \cup {cur}
          BY <1>1, <4>4, <5>1, <5>2, AppendMembers
        <5> QED BY <1>1, <3>1, <3>2, <4>3, <4>4, <5>3 DEF ReadyQueued
      <4> QED BY <1>1, <3>1, <3>2, <4>3, <4>4, <4>5, TrackedGiveUp
    <3>3. ASSUME (Acquire(taskLock[v]) ?? Unlinkable(readyQ, v) ??
                  PushReady(Unlink(readyQ, v), cur)) = NoFault
          PROVE  PushReady(Unlink(readyQ, v), cur) = NoFault
      BY <3>3, ChecksPass
    <3> QED BY <1>4, <1>5, <2>2, <3>1, <3>2, <3>3 DEF Switch, Try, Machine
  <2>3. CASE Suspend(v)
    <3>1. PICK r : r = InState(task[v], "suspended")
      OBVIOUS
    <3>2. r.state = "suspended"
      BY <1>1, <3>1, RecordStates
    <3>3. ASSUME v = cur, SuspendSelf PROVE Tracked
      <4>1. /\ \A t \in Tasks : task'[t] = IF t = cur THEN r ELSE task[t]
            /\ \A t \in Tasks \ {cur} : cont'[t] = cont[t]
            /\ cur' = Idle /\ Idle \notin Tasks /\ UNCHANGED <<readyQ, sendQ, recvQ>>
        BY <1>1, <3>1, <3>3, OneLookup, ConstantsAssumption
        DEF SuspendSelf, Leave, Resched, TypeOK
      <4>2. ReadyQueued'
        BY <1>1, <1>2, <3>2, <4>1, ReadyStays
      <4> QED BY <1>1, <3>2, <4>1, <4>2, TrackedGiveUp
    <3>4. ASSUME task[v].state = "ready", Return(One(task, v, r), Unlink(readyQ, v))
          PROVE  Tracked
      <4>1. v # cur /\ v \in Members(readyQ)
        BY <1>1, <1>2, <3>4 DEF ReadyQueued
      <4>2. ReadyQueued'
        BY <1>1, <3>2, <3>4, <4>1, OneLookup, ReadyLeaves DEF Return
      <4> QED BY <1>1, <3>2, <3>4, <4>1, <4>2, TrackedOne
    <3>5. ASSUME v # cur, task[v].state # "ready", Return(One(task, v, r), readyQ)
          PROVE  Tracked
      <4>1. ReadyQueued'
        BY <1>1, <3>2, <3>5, OneLookup, ReadyStays DEF Return
      <4> QED BY <1>1, <3>2, <3>5, <4>1, TrackedOne
    <3>6. task[v].state = "waiting" => v # cur
      BY <1>2
    <3> QED BY <1>4, <1>5, <2>3, <3>1, <3>3, <3>4, <3>5, <3>6 DEF Suspend, Try, Machine
  <2>4. CASE Resume(v)
    <3>1. PICK r : r = InState(task[v], "ready")
      OBVIOUS
    <3>2. r.state = "ready"
      BY <1>1, <3>1, RecordStates
    <3>3. ASSUME task[v].state = "suspended", PushReady(readyQ, v) = NoFault,
                 Return(One(task, v, r), Append(readyQ, v))
          PROVE  Tracked
      <4>1. v # cur
        BY <1>2, <2>4, <3>3 DEF Resume, CallsOn
      <4>2. ReadyQueued'
        BY <1>1, <3>2, <3>3, OneLookup, PushPasses, ReadyJoins DEF Return
      <4> QED BY <1>1, <3>2, <3>3, <4>1, <4>2, TrackedOne
    <3>4. ASSUME (Acquire(taskLock[v]) ?? PushReady(readyQ, v)) = NoFault
          PROVE  PushReady(readyQ, v) = NoFault
      BY <3>4, ChecksPass
    <3> QED BY <1>4, <1>5, <2>4, <3>1, <3>3, <3>4 DEF Resume, MadeReady, Try, Machine
  <2>5. CASE Yield
    <3>1. /\ GiveUp(Append(readyQ, cur))
      BY <1>5, <2>5 DEF Yield, Try, Machine
    <3>2. PICK r : r = InState(task[cur], "ready")
      OBVIOUS
    <3>3. /\ \A t \in Tasks : task'[t] = IF t = cur THEN r ELSE task[t]
          /\ r.state = "ready" /\ cur' = Idle /\ Idle \notin Tasks
          /\ readyQ' = Append(readyQ, cur) /\ UNCHANGED <<sendQ, recvQ, cont>>
      BY <1>1, <3>1, <3>2, OneLookup, RecordStates, ConstantsAssumption DEF GiveUp, Resched
    <3>4. ReadyQueued'
      BY <1>1, <1>2, <3>3, ReadyJoins
    <3> QED BY <1>1, <3>3, <3>4, TrackedGiveUp
  <2>6. CASE \E e \in Endpoints : SetKillNotify(v, e)
    <3>1. PICK e \in Endpoints : SetKillNotify(v, e)
      BY <2>6
    <3>2. PICK r : r = [task[v] EXCEPT !.notify = e]
      OBVIOUS
    <3>3. r.state = task[v].state /\ r.callee = task[v].callee
      BY <1>1, <3>2, RecordFields DEF Has
    <3>4. Return(One(task, v, r), readyQ)
      BY <1>5, <3>1, <3>2 DEF SetKillNotify, Try, Machine
    <3>5. \A t \in Tasks : /\ One(task, v, r)[t].state = task[t].state
                           /\ One(task, v, r)[t].callee = task[t].callee
      BY <1>1, <3>3, OneLookup
    <3> QED BY <1>1, <3>4, <3>5, TrackedReturn
  <2> QED BY <2>1, <2>2, <2>3, <2>4, <2>5, <2>6
<1> QED BY <1>3, <1>5

-----------------------------------------------------------------------------
(* Kills.                                                                  *)

(* A kill takes the victim out of the ready queue, if it is there, and     *)
(* nobody else out of any queue.                                           *)
LEMMA OthersStayQueued ==
  ASSUME Known, NEW v \in Tasks, Detach(v) = NoFault
  PROVE  /\ Once(ReadyWithout(v)) /\ ReadyWithout(v) \in Seq(Tasks)
         /\ Members(ReadyWithout(v)) = Members(readyQ) \ {v}
         /\ \A e \in Endpoints :
              /\ Members(sendQ[e]) \ {v} \subseteq Members(SendersWithout(v)[e])
              /\ Members(recvQ[e]) \ {v} \subseteq Members(ReceiversWithout(v)[e])
<1>1. /\ TypeOK /\ KernelInvariant /\ ReadyQueued
      /\ readyQ \in Seq(Tasks) /\ Once(readyQ)
  BY DEF Known, Given, TypeOK, ReadyQueued
<1>2. Once(ReadyWithout(v)) /\ Members(ReadyWithout(v)) = Members(readyQ) \ {v}
  <2>1. CASE task[v].state = "ready"
    <3>1. v \in Members(readyQ)
      BY <1>1, <2>1 DEF ReadyQueued
    <3> QED BY <1>1, <2>1, <3>1, UnlinkMembers DEF ReadyWithout
  <2>2. CASE task[v].state # "ready"
    BY <1>1, <2>2 DEF ReadyWithout, ReadyQueued
  <2> QED BY <2>1, <2>2
<1>3. ASSUME NEW e \in Endpoints
      PROVE  /\ Members(sendQ[e]) \ {v} \subseteq Members(SendersWithout(v)[e])
             /\ Members(recvQ[e]) \ {v} \subseteq Members(ReceiversWithout(v)[e])
  <2>1. /\ sendQ[e] \in Seq(Tasks) /\ recvQ[e] \in Seq(Tasks)
        /\ Once(sendQ[e]) /\ Once(recvQ[e]) /\ e # None
    BY <1>1, ConstantsAssumption DEF TypeOK, KernelInvariant, Queues
  <2>2. ASSUME WaitsAs(v, e, "sending") PROVE v \in Members(sendQ[e])
    <3>1. Unlinkable(sendQ[e], v) = NoFault
      BY <2>1, <2>2, ChecksPass DEF WaitsAs, Detach
    <3> QED BY <3>1 DEF Unlinkable, Check, NoFault, NullDeref
  <2>3. ASSUME WaitsAs(v, e, "receiving") PROVE v \in Members(recvQ[e])
    <3>1. Unlinkable(recvQ[e], v) = NoFault
      BY <2>1, <2>3, ChecksPass DEF WaitsAs, Detach
    <3> QED BY <3>1 DEF Unlinkable, Check, NoFault, NullDeref
  <2> QED BY <2>1, <2>2, <2>3, UnlinkMembers DEF SendersWithout, ReceiversWithout
<1> QED BY <1>1, <1>2, <1>3, WithoutTypes

(* The victim v dies, the receiver r of the notification (if any) is       *)
(* ready, and everybody else is found where it was.                        *)
LEMMA TrackedDeath ==
  ASSUME Known, cur \in Tasks, NEW v \in Tasks, Detach(v) = NoFault,
         NEW r, r \in Tasks => r # v /\ r # cur /\ task'[r].state = "ready",
         task'[v].state = "killed",
         \A t \in Tasks \ {v, r} : /\ task'[t].state = task[t].state
                                   /\ task'[t].callee = task[t].callee,
         \A t \in Tasks \ {v, r} : Waits(t) => Waits(t)',
         \A t \in Tasks \ {cur} : cont'[t] = cont[t],
         \/ cur' = cur /\ v # cur
         \/ cur' = Idle /\ (v = cur \/ cont'[cur].at = "notified"),
         ReadyQueued'
  PROVE  Tracked
<1>1. (\A t \in Tasks : Found(t)) /\ Idle \notin Tasks
  BY ConstantsAssumption DEF Known
<1>2. ASSUME NEW t \in Tasks PROVE Found(t)'
  <2>1. CASE t \in {v, r}
    BY <1>1, <2>1, FoundAside
  <2>2. CASE t = cur /\ t \notin {v, r}
    <3>1. CASE cur' = cur
      BY <1>1, <2>2, <3>1, StillFound
    <3>2. CASE cur' = Idle
      <4>1. /\ task'[t].state \in {"running", "suspended"} /\ cont'[t].at = "notified"
            /\ t # cur'
        BY <1>1, <2>2, <3>2, CurrentNotReady
      <4> QED BY <4>1 DEF Found
    <3> QED BY <3>1, <3>2
  <2>3. CASE t \notin {cur, v, r}
    BY <1>1, <2>3, StillFound
  <2> QED BY <2>1, <2>2, <2>3
<1> QED BY <1>2 DEF Tracked

(* The kills lose nobody but the killer they leave behind.                 *)
LEMMA TrackedKills ==
  ASSUME Known, NEW v \in Tasks, NEW o \in Tasks \cup {None},
         Kill(v, o) \/ KillAndNotify(v, o)
  PROVE  Tracked
<1>1. /\ cur \in Tasks /\ cont[cur] = User /\ Given /\ TypeOK /\ KernelInvariant /\ ReadyQueued
      /\ task[v] \in TaskRecord
  BY Typing DEF Known, Given, Kill, KillAndNotify, KillsUnder, CallsOn, Calls, InUserMode
<1>2. CASE UNCHANGED Machine
  BY <1>2, TrackedStutter
<1>3. CASE ~UNCHANGED Machine
  <2>1. Detach(v) = NoFault
    <3>1. \/ (AcquireOwner(o) ?? Acquire(taskLock[v]) ?? Detach(v) ??
              Check(v # Root, "kill_task: root killed")) = NoFault
          \/ (AcquireOwner(o) ?? Acquire(taskLock[v]) ?? Detach(v) ?? Notify(v)) = NoFault
      BY <1>3 DEF Kill, KillAndNotify, Try, Machine
    <3>2. CASE (AcquireOwner(o) ?? Acquire(taskLock[v]) ?? Detach(v) ??
                Check(v # Root, "kill_task: root killed")) = NoFault
      BY <3>2, ChecksPass
    <3>3. CASE (AcquireOwner(o) ?? Acquire(taskLock[v]) ?? Detach(v) ?? Notify(v)) = NoFault
      BY <3>3, ChecksPass
    <3> QED BY <3>1, <3>2, <3>3
  <2>2. PICK c \in Tasks \cup {None} :
           /\ c \in Tasks => c # v /\ task[c].caller = v
           /\ \A t \in Tasks : TasksWithout(v)[t] =
                IF t = v THEN InState(task[v], "killed")
                ELSE IF t = c THEN WithCaller(task[c], None) ELSE task[t]
    BY <1>1, <2>1, CallLeft
  <2>3. PICK tk : tk = TasksWithout(v)
    OBVIOUS
  <2>4. /\ tk \in TaskTable /\ tk[v].state = "killed"
        /\ \A t \in Tasks \ {v} : tk[t].state = task[t].state /\ tk[t].callee = task[t].callee
    <3>1. tk \in TaskTable
      BY <1>1, <2>3, WithoutTypes
    <3>2. InState(task[v], "killed").state = "killed"
      BY <1>1, RecordStates
    <3>3. c \in Tasks => /\ WithCaller(task[c], None).state = task[c].state
                         /\ WithCaller(task[c], None).callee = task[c].callee
      BY <1>1, GivenParts, RecordFields DEF Has
    <3> QED BY <2>2, <2>3, <3>1, <3>2, <3>3
  <2>5. PICK q : q = ReadyWithout(v)
    OBVIOUS
  <2>6. Once(q) /\ q \in Seq(Tasks) /\ Members(q) = Members(readyQ) \ {v}
    BY <2>1, <2>5, OthersStayQueued
  <2>7. CASE Kill(v, o)
    <3>1. Killed(v, o)
      BY <1>3, <2>7 DEF Kill, Try, Machine
    <3>2. task' = tk /\ readyQ' = q /\ cont' = cont
      BY <2>3, <2>5, <3>1 DEF Killed
    <3>3. ReadyQueued'
      BY <1>1, <2>4, <2>6, <3>2 DEF ReadyQueued
    <3>4. \A t \in Tasks \ {v} : Waits(t) => Waits(t)'
      BY <2>1, <3>1, OthersStayQueued DEF Waits, Killed
    <3>5. \/ cur' = cur /\ v # cur
          \/ cur' = Idle /\ v = cur
      BY <3>1 DEF Killed, Resched
    <3>6. PICK r : r = None
      OBVIOUS
    <3>7. r \notin Tasks
      BY <3>6, ConstantsAssumption
    <3> QED BY <1>1, <2>1, <2>4, <3>2, <3>3, <3>4, <3>5, <3>7, TrackedDeath
  <2>8. CASE KillAndNotify(v, o)
    <3>1. Notified(v, o) /\ Notify(v) = NoFault /\ task[v].notify # None
      <4>1. /\ Notified(v, o) /\ task[v].notify # None
            /\ (AcquireOwner(o) ?? Acquire(taskLock[v]) ?? Detach(v) ?? Notify(v)) = NoFault
        BY <1>3, <2>8 DEF KillAndNotify, Try, Machine
      <4> QED BY <4>1, ChecksPass
    <3>2. PICK n \in Endpoints : n = task[v].notify
      BY <1>1, <3>1, Typing
    <3>3. PICK w : w = ReceiversWithout(v)[n]
      OBVIOUS
    <3>4. PICK r : r = Head(w)
      OBVIOUS
    <3>5. w # <<>> /\ tk[r].state = "waiting" /\ PushReady(q, r) = NoFault
      BY <2>3, <2>5, <3>1, <3>2, <3>3, <3>4 DEF Notify, ??, Check, NoFault
    <3>6. /\ w \in Seq(Tasks) /\ Once(w) /\ Members(w) \subseteq Members(recvQ[n])
          /\ ReceiversWithout(v) \in [Endpoints -> Seq(Tasks)]
      BY <1>1, <2>1, <3>2, <3>3, QueuesLeft, WithoutTypes
    <3>7. r \in Members(w) /\ Members(Tail(w)) = Members(w) \ {r}
      BY <3>4, <3>5, <3>6, TailMembers
    <3>8. r \in Tasks /\ r # v /\ r # cur /\ r \notin Members(q)
      <4>1. r \in Tasks /\ cont[r].at = "received"
        BY <1>1, <3>6, <3>7, MembersAreTasks, GivenParts DEF Queues, QueuedReceiver
      <4>2. cont[cur].at = "user"
        BY <1>1 DEF User, At
      <4> QED BY <2>4, <3>5, <4>1, <4>2, PushPasses
    <3>9. WakeReceiver(tk[r], "none").state = "ready"
      BY <2>4, <3>8, RecordStates DEF TaskTable
    <3>10. /\ \A t \in Tasks : task'[t] = IF t = r THEN WakeReceiver(tk[r], "none") ELSE tk[t]
           /\ readyQ' = Append(q, r) /\ sendQ' = SendersWithout(v)
           /\ \A d \in Endpoints : recvQ'[d] = IF d = n THEN Tail(w) ELSE ReceiversWithout(v)[d]
           /\ \A t \in Tasks : cont'[t] = IF t = cur THEN At("notified", v) ELSE cont[t]
           /\ cur' = Idle
      <4>1. /\ task' = One(tk, r, WakeReceiver(tk[r], "none"))
            /\ readyQ' = Append(q, r) /\ sendQ' = SendersWithout(v)
        BY <2>3, <2>5, <3>1, <3>2, <3>3, <3>4 DEF Notified
      <4>2. recvQ' = [ReceiversWithout(v) EXCEPT ![n] = Tail(w)]
        BY <3>1, <3>2, <3>3 DEF Notified
      <4>3. \A d \in Endpoints : recvQ'[d] = IF d = n THEN Tail(w) ELSE ReceiversWithout(v)[d]
        BY <3>6, <4>2
      <4>4. /\ \A t \in Tasks : cont'[t] = IF t = cur THEN At("notified", v) ELSE cont[t]
            /\ cur' = Idle
        BY <1>1, <3>1 DEF Notified, Leave, Resched, TypeOK
      <4>5. \A t \in Tasks : task'[t] = IF t = r THEN WakeReceiver(tk[r], "none") ELSE tk[t]
        BY <2>4, <4>1, OneLookup
      <4> QED BY <4>1, <4>3, <4>4, <4>5
    <3>11. ReadyQueued'
      <4>1. Once(readyQ') /\ Members(readyQ') = (Members(readyQ) \ {v}) \cup {r}
        BY <2>6, <3>8, <3>10, AppendMembers
      <4> QED BY <1>1, <2>4, <3>8, <3>9, <3>10, <4>1 DEF ReadyQueued
    <3>12. ASSUME NEW t \in Tasks \ {v, r}, Waits(t) PROVE Waits(t)'
      <4>1. PICK d \in Endpoints : t \in Members(sendQ[d]) \/ t \in Members(recvQ[d])
        BY <3>12 DEF Waits
      <4>2. \/ t \in Members(SendersWithout(v)[d])
            \/ t \in Members(ReceiversWithout(v)[d])
        BY <2>1, <3>12, <4>1, OthersStayQueued
      <4>3. t \in Members(sendQ'[d]) \/ t \in Members(recvQ'[d])
        BY <3>3, <3>7, <3>10, <3>12, <4>2
      <4> QED BY <4>3 DEF Waits
    <3>13. /\ task'[v].state = "killed" /\ task'[r].state = "ready"
           /\ \A t \in Tasks \ {v, r} : /\ task'[t].state = task[t].state
                                        /\ task'[t].callee = task[t].callee
      BY <2>4, <3>8, <3>9, <3>10
    <3>14. /\ \A t \in Tasks \ {cur} : cont'[t] = cont[t]
           /\ cont'[cur].at = "notified"
      BY <1>1, <3>10 DEF At
    <3> QED BY <1>1, <2>1, <3>8, <3>10, <3>11, <3>12, <3>13, <3>14, TrackedDeath
  <2> QED BY <2>7, <2>8
<1> QED BY <1>2, <1>3

-----------------------------------------------------------------------------
(* The kernel's own steps, and the theorem.                                *)

(* The end of a system call loses nobody.                                  *)
LEMMA TrackedContinue ==
  ASSUME Known, Continue
  PROVE  Tracked
<1>1. /\ cur \in Tasks /\ ReadyQueued /\ \A t \in Tasks : Found(t)
      /\ cont \in [Tasks -> Cont]
  BY DEF Known, Continue, Given, TypeOK
<1>2. CASE UNCHANGED Machine
  BY <1>2, TrackedStutter
<1>3. CASE ~UNCHANGED Machine
  <2>1. /\ UNCHANGED <<cur, task, readyQ, sendQ, recvQ>> /\ cont' = [cont EXCEPT ![cur] = User]
    BY <1>3 DEF Continue, BackToUser, Leave, Try, Machine
  <2>2. ReadyQueued'
    BY <1>1, <2>1, ReadyStays
  <2>3. ASSUME NEW t \in Tasks PROVE Found(t)'
    <3>1. (Waits(t)' <=> Waits(t)) /\ (t # cur => cont'[t] = cont[t])
      BY <1>1, <2>1 DEF Waits
    <3> QED BY <1>1, <2>1, <3>1, StillFound
  <2> QED BY <2>2, <2>3 DEF Tracked
<1> QED BY <1>2, <1>3

(* Neither does dispatching: the head of the ready queue takes the hart.   *)
LEMMA TrackedDispatch ==
  ASSUME Known, Dispatch \/ LookupSpins \/ IdleSpin \/ Halted
  PROVE  Tracked
<1>1. CASE UNCHANGED Machine
  BY <1>1, TrackedStutter
<1>2. CASE ~UNCHANGED Machine
  <2>1. readyQ # <<>> /\ Run(Head(readyQ)) /\ cur = Idle /\ Idle \notin Tasks
    BY <1>2, ConstantsAssumption
       DEF Dispatch, LookupSpins, IdleSpin, Halted, Try, Machine, vars
  <2>2. Given /\ TypeOK /\ ReadyQueued /\ \A t \in Tasks : Found(t)
    BY DEF Known, Given
  <2>3. PICK h : h = Head(readyQ)
    OBVIOUS
  <2>4. /\ readyQ \in Seq(Tasks) /\ Once(readyQ) /\ h \in Tasks
        /\ Once(Tail(readyQ)) /\ Members(Tail(readyQ)) = Members(readyQ) \ {h}
    BY <2>1, <2>2, <2>3, HeadType, TailMembers DEF TypeOK, ReadyQueued
  <2>5. PICK r : r = InState(task[h], "running")
    OBVIOUS
  <2>6. /\ \A t \in Tasks : task'[t] = IF t = h THEN r ELSE task[t]
        /\ r.state = "running" /\ cur' = h /\ readyQ' = Tail(readyQ)
        /\ UNCHANGED <<sendQ, recvQ, cont>>
    BY <2>1, <2>2, <2>3, <2>4, <2>5, OneLookup, RecordStates, GivenParts DEF Run
  <2>7. ReadyQueued'
    BY <2>2, <2>4, <2>6 DEF ReadyQueued
  <2>8. ASSUME NEW t \in Tasks PROVE Found(t)'
    <3>1. Waits(t)' <=> Waits(t)
      BY <2>6 DEF Waits
    <3>2. CASE t = h
      BY <2>6, <3>2 DEF Found
    <3>3. CASE t # h
      BY <2>1, <2>2, <2>6, <3>1, <3>3, StillFound
    <3> QED BY <3>2, <3>3
  <2> QED BY <2>7, <2>8 DEF Tracked
<1> QED BY <1>1, <1>2

(* Every task is found by its state, the ready queue being exact.          *)
Scheduled == ReadyQueued /\ \A t \in Tasks : Found(t)

(* No step loses a task.                                                   *)
LEMMA ScheduleNext ==
  ASSUME Root \notin Targets, ~TransferMayFail, TypeOK, TypeOK', KernelInvariant,
         KernelInvariant', Scheduled, [Next]_vars
  PROVE  Scheduled'
<1>1. CurrentAlive
  BY DEF KernelInvariant, Current, CurrentAlive, Alive
<1>2. Known
  BY <1>1, SparedNext DEF Known, Given, Scheduled
<1>3. Tracked
  <2>1. CASE UNCHANGED vars
    BY <1>2, <2>1, TrackedStutter DEF vars, Machine
  <2>2. CASE Next
    BY <1>2, <2>2, ConstantsAssumption, TrackedSends, TrackedReceives, TrackedReplies,
       TrackedCancel, TrackedTaskSyscalls, TrackedKills, TrackedContinue, TrackedDispatch
    DEF Next
  <2> QED BY <2>1, <2>2
<1> QED BY <1>3 DEF Tracked, Scheduled

(* At boot the root task is on the hart and there is no other.             *)
LEMMA ScheduleInit ==
  ASSUME Init
  PROVE  NoTaskLost /\ OnHart
<1>1. \A t \in Tasks : task[t].state = IF t = Root THEN "suspended" ELSE "unused"
  BY DEF Init, FreshTask
<1>2. readyQ = <<>> /\ cur = Root /\ Root \in Tasks
  BY ConstantsAssumption DEF Init
<1>3. Members(readyQ) = {} /\ Once(readyQ)
  BY <1>2 DEF Members, Once
<1> QED BY <1>1, <1>2, <1>3 DEF NoTaskLost, OnHart

(* No task is ever lost, whatever system calls the tasks make and in       *)
(* whatever order: a ready task is in the ready queue, exactly once, a     *)
(* waiting one is queued or known to its callee, a running one is current  *)
(* (but for a killer that ipc_send_kill_notify left behind).               *)
THEOREM NoTaskEverLost ==
  ASSUME Root \notin Targets, ~TransferMayFail
  PROVE  Spec => []NoTaskLost
<1>1. Init => NoTaskLost /\ OnHart
  BY ScheduleInit
<1>2. TypeOK /\ KernelInvariant => (NoTaskLost /\ OnHart <=> Scheduled)
  BY PartsOfSchedule DEF Scheduled
<1>3. /\ TypeOK /\ TypeOK' /\ KernelInvariant /\ KernelInvariant'
      /\ Scheduled /\ [Next]_vars
      => Scheduled'
  BY ScheduleNext
<1> QED BY <1>1, <1>2, <1>3, TypeCorrect, KernelInvariantHolds, PTL DEF Spec
=============================================================================
