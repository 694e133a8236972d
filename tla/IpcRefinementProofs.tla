------------------------ MODULE IpcRefinementProofs ------------------------
(***************************************************************************)
(* The scheduler and IPC of Ipc.tla implement CallProtocol.tla, for any    *)
(* tasks, endpoints and system calls: the machine starts as the protocol   *)
(* does, and each system call, dispatch and return is one step of the      *)
(* protocol or none.                                                       *)
(*                                                                         *)
(* The first lemmas restate the steps of the protocol task by task.  The   *)
(* next ones say what the operation of a task is when the kernel invariant *)
(* holds.  Then there is one lemma per effect of a system call.            *)
(***************************************************************************)
EXTENDS IpcRefinement, IpcInvariantProofs

-----------------------------------------------------------------------------
(* The protocol, task by task.                                             *)

(* Whoever runs next was not killed.                                       *)
Scheduled == cur' \in {t \in Tasks : OpOf(t)' # "dead"} \cup {Idle}

Unmoved(t) == OpOf(t)' = OpOf(t) /\ ServerOf(t)' = ServerOf(t)

(* The running task me is in no blocking operation.                        *)
ActiveIdle(me) == me = cur /\ OpOf(me) = "idle"

(* Only the scheduler moves.                                               *)
LEMMA MapNone ==
  ASSUME Scheduled, \A t \in Tasks : Unmoved(t)
  PROVE  Protocol!Next
BY DEF Scheduled, Unmoved, Protocol!Next

(* A send or a call that nobody has received yet starts.                   *)
LEMMA MapStart ==
  ASSUME Scheduled, NEW me \in Tasks, ActiveIdle(me), OpOf(me)' \in {"sending", "asking"},
         ServerOf(me)' = ServerOf(me), \A t \in Tasks \ {me} : Unmoved(t)
  PROVE  Protocol!Next
<1>1. Protocol!Start
  <2>1. [t \in Tasks |-> ServerOf(t)'] = [t \in Tasks |-> ServerOf(t)]
    BY DEF Unmoved
  <2>2. [t \in Tasks |-> OpOf(t)'] = [[t \in Tasks |-> OpOf(t)] EXCEPT ![me] = OpOf(me)']
    BY DEF Unmoved
  <2> QED BY <2>1, <2>2 DEF ActiveIdle, Protocol!Start
<1> QED BY <1>1 DEF Scheduled, Protocol!Next

(* A call that the receiver s was waiting for starts.                      *)
LEMMA MapServe ==
  ASSUME Scheduled, NEW me \in Tasks, ActiveIdle(me), NEW s \in Tasks \ {me},
         OpOf(s) = "idle", \A c \in Tasks : ServerOf(c) # s,
         OpOf(me)' = "served", ServerOf(me)' = s,
         \A t \in Tasks \ {me} : Unmoved(t)
  PROVE  Protocol!Next
<1>1. Protocol!Start
  <2>1. [t \in Tasks |-> ServerOf(t)'] = [[t \in Tasks |-> ServerOf(t)] EXCEPT ![me] = s]
    BY DEF Unmoved
  <2>2. [t \in Tasks |-> OpOf(t)'] = [[t \in Tasks |-> OpOf(t)] EXCEPT ![me] = "served"]
    BY DEF Unmoved
  <2> QED BY <2>1, <2>2 DEF ActiveIdle, Protocol!Start, Protocol!OwesNothing
<1> QED BY <1>1 DEF Scheduled, Protocol!Next

(* The call that me owes a reply to, if any, ends.                         *)
EndsLike(me, c, how) ==
  IF ServerOf(c) = me
  THEN OpOf(c)' = how /\ ServerOf(c)' = None
  ELSE Unmoved(c)

(* The running task answers its caller c, or cancels it.                   *)
LEMMA MapFinish ==
  ASSUME Scheduled, NEW me \in Tasks, ActiveIdle(me), NEW how \in {"done", "canceled"},
         NEW c \in Tasks, ServerOf(c) = me,
         \A t \in Tasks : EndsLike(me, t, how)
  PROVE  Protocol!Next
<1>1. Protocol!Finish
  <2>1. [t \in Tasks |-> ServerOf(t)'] =
          [t \in Tasks |-> IF ServerOf(t) = me THEN None ELSE ServerOf(t)]
    BY DEF EndsLike, Unmoved
  <2>2. [t \in Tasks |-> OpOf(t)'] =
          [t \in Tasks |-> IF ServerOf(t) = me THEN how ELSE OpOf(t)]
    BY DEF EndsLike, Unmoved
  <2> QED BY <2>1, <2>2 DEF ActiveIdle, Protocol!Finish, Protocol!OwesNothing,
                            Protocol!Ended, Protocol!Forgotten
<1> QED BY <1>1 DEF Scheduled, Protocol!Next

(* What a receiver may make of a sender, or of a caller.                   *)
TakenAs(me, s) ==
  \/ OpOf(s) = "sending" /\ OpOf(s)' \in {"done", "lost"} /\ ServerOf(s)' = None
  \/ OpOf(s) = "asking" /\ OpOf(s)' = "served" /\ ServerOf(s)' = me
  \/ OpOf(s) = "asking" /\ OpOf(s)' = "lost" /\ ServerOf(s)' = None

(* The running task takes the message of s and cancels whom it owed a      *)
(* reply.                                                                  *)
LEMMA MapTake ==
  ASSUME Scheduled, NEW me \in Tasks, ActiveIdle(me), NEW s \in Tasks \ {me},
         TakenAs(me, s), ServerOf(s) = None, me # None,
         \A t \in Tasks \ {s} : EndsLike(me, t, "canceled")
  PROVE  Protocol!Next
<1> DEFINE servers == [t \in Tasks |-> IF ServerOf(t) = me THEN None ELSE ServerOf(t)]
           ops == [t \in Tasks |-> IF ServerOf(t) = me THEN "canceled" ELSE OpOf(t)]
<1>1. Protocol!Take
  <2>1. [t \in Tasks |-> OpOf(t)'] = [ops EXCEPT ![s] = OpOf(s)']
    BY DEF EndsLike, Unmoved
  <2>2. [t \in Tasks |-> ServerOf(t)'] = [servers EXCEPT ![s] = ServerOf(s)']
    BY DEF EndsLike, Unmoved
  <2>3. [servers EXCEPT ![s] = None] = servers
    OBVIOUS
  <2>4. CASE OpOf(s) = "sending" /\ OpOf(s)' \in {"done", "lost"} /\ ServerOf(s)' = None
    BY <2>1, <2>2, <2>3, <2>4 DEF ActiveIdle, Protocol!Take, Protocol!Ended, Protocol!Forgotten
  <2>5. CASE OpOf(s) = "asking" /\ OpOf(s)' = "served" /\ ServerOf(s)' = me
    <3>1. /\ [t \in Tasks |-> OpOf(t)'] = [ops EXCEPT ![s] = "served"]
          /\ [t \in Tasks |-> ServerOf(t)'] = [servers EXCEPT ![s] = cur]
      BY <2>1, <2>2, <2>5 DEF ActiveIdle
    <3>2. /\ ops = [t \in Tasks |-> IF ServerOf(t) = cur THEN "canceled" ELSE OpOf(t)]
          /\ servers = [t \in Tasks |-> IF ServerOf(t) = cur THEN None ELSE ServerOf(t)]
      BY DEF ActiveIdle
    <3> HIDE DEF ops, servers
    <3> QED BY <2>5, <3>1, <3>2, ZenonT(30) DEF ActiveIdle, Protocol!Take, Protocol!Ended, Protocol!Forgotten
  <2>6. CASE OpOf(s) = "asking" /\ OpOf(s)' = "lost" /\ ServerOf(s)' = None
    BY <2>1, <2>2, <2>3, <2>6, ZenonT(30) DEF ActiveIdle, Protocol!Take, Protocol!Ended, Protocol!Forgotten
  <2> QED BY <2>4, <2>5, <2>6 DEF TakenAs
<1> QED BY <1>1 DEF Scheduled, Protocol!Next

(* The operations of gone, which nobody has received, are canceled.        *)
LEMMA MapCancel ==
  ASSUME Scheduled, NEW me \in Tasks, ActiveIdle(me), NEW gone \in SUBSET Tasks,
         \A t \in gone : OpOf(t) \in {"sending", "asking"} /\ OpOf(t)' = "canceled",
         \A t \in gone : ServerOf(t)' = ServerOf(t),
         \A t \in Tasks \ gone : Unmoved(t)
  PROVE  Protocol!Next
<1>1. Protocol!Cancel
  <2>1. [t \in Tasks |-> ServerOf(t)'] = [t \in Tasks |-> ServerOf(t)]
    BY DEF Unmoved
  <2>2. [t \in Tasks |-> OpOf(t)'] =
          [t \in Tasks |-> IF t \in gone THEN "canceled" ELSE OpOf(t)]
    BY DEF Unmoved
  <2> QED BY <2>1, <2>2 DEF ActiveIdle, Protocol!Cancel
<1> QED BY <1>1 DEF Scheduled, Protocol!Next

(* The operation of the running task returns.                              *)
LEMMA MapReturn ==
  ASSUME Scheduled, NEW me \in Tasks, me = cur, OpOf(me) \in {"done", "canceled"},
         OpOf(me)' = "idle", ServerOf(me)' = ServerOf(me),
         \A t \in Tasks \ {me} : Unmoved(t)
  PROVE  Protocol!Next
<1>1. Protocol!Return
  <2>1. [t \in Tasks |-> ServerOf(t)'] = [t \in Tasks |-> ServerOf(t)]
    BY DEF Unmoved
  <2>2. [t \in Tasks |-> OpOf(t)'] = [[t \in Tasks |-> OpOf(t)] EXCEPT ![me] = "idle"]
    BY DEF Unmoved
  <2> QED BY <2>1, <2>2 DEF Protocol!Return
<1> QED BY <1>1 DEF Scheduled, Protocol!Next

(* The task v dies.                                                        *)
LEMMA MapDie ==
  ASSUME Scheduled, NEW me \in Tasks, ActiveIdle(me), NEW v \in Tasks,
         OpOf(v)' = "dead", ServerOf(v)' = None,
         \A t \in Tasks \ {v} : Unmoved(t)
  PROVE  Protocol!Next
<1>1. Protocol!Die
  <2>1. [t \in Tasks |-> ServerOf(t)'] = [[t \in Tasks |-> ServerOf(t)] EXCEPT ![v] = None]
    BY DEF Unmoved
  <2>2. [t \in Tasks |-> OpOf(t)'] = [[t \in Tasks |-> OpOf(t)] EXCEPT ![v] = "dead"]
    BY DEF Unmoved
  <2> QED BY <2>1, <2>2 DEF ActiveIdle, Protocol!Die
<1> QED BY <1>1 DEF Scheduled, Protocol!Next

-----------------------------------------------------------------------------
(* The operation of a task under the kernel invariant.                     *)

(* The operation that each task is in, case by case.                       *)
Values ==
  \A t \in Tasks :
    /\ task[t].state = "killed" <=> OpOf(t) = "dead"
    /\ task[t].state # "killed" /\ cont[t].at # "sent" => OpOf(t) = "idle"
    /\ task[t].state # "killed" /\ cont[t].at = "sent" =>
         /\ task[t].ipc = "none" => OpOf(t) = "done"
         /\ task[t].ipc = "canceled" => OpOf(t) = "canceled"
         /\ task[t].ipc = "sending" => OpOf(t) = IF Queued(t) THEN "sending" ELSE "lost"
         /\ task[t].ipc = "calling" =>
              OpOf(t) = IF Queued(t) THEN "asking"
                        ELSE IF task[t].callee # None THEN "served" ELSE "lost"
    /\ ServerOf(t) = IF OpOf(t) = "served" THEN task[t].callee ELSE None

(* The definitions of OpOf and ServerOf.                                   *)
LEMMA OpValues == Values
<1> SUFFICES ASSUME NEW t \in Tasks
             PROVE  /\ task[t].state = "killed" <=> OpOf(t) = "dead"
                    /\ task[t].state # "killed" /\ cont[t].at # "sent" => OpOf(t) = "idle"
                    /\ task[t].state # "killed" /\ cont[t].at = "sent" =>
                         /\ task[t].ipc = "none" => OpOf(t) = "done"
                         /\ task[t].ipc = "canceled" => OpOf(t) = "canceled"
                         /\ task[t].ipc = "sending" =>
                              OpOf(t) = IF Queued(t) THEN "sending" ELSE "lost"
                         /\ task[t].ipc = "calling" =>
                              OpOf(t) = IF Queued(t) THEN "asking"
                                        ELSE IF task[t].callee # None THEN "served" ELSE "lost"
  BY DEF Values, ServerOf
<1>1. CASE task[t].state = "killed"
  BY <1>1 DEF OpOf
<1>2. CASE task[t].state # "killed" /\ cont[t].at # "sent"
  BY <1>2 DEF OpOf
<1>3. CASE task[t].state # "killed" /\ cont[t].at = "sent"
  <2>1. OpOf(t) = CASE task[t].ipc = "none" -> "done"
                    [] task[t].ipc = "canceled" -> "canceled"
                    [] task[t].ipc = "sending" /\ Queued(t) -> "sending"
                    [] task[t].ipc = "calling" /\ Queued(t) -> "asking"
                    [] task[t].ipc = "calling" /\ ~Queued(t) /\ task[t].callee # None -> "served"
                    [] OTHER -> "lost"
    BY <1>3 DEF OpOf
  <2>2. OpOf(t) # "dead"
    BY <2>1
  <2> QED BY <1>3, <2>1, <2>2
<1> QED BY <1>1, <1>2, <1>3

(* The same in the next state.                                             *)
LEMMA OpValuesNext == Values'
BY OpValues, PTL

(* The task that owes a reply is the callee, until the caller is killed.   *)
Servers ==
  \A t \in Tasks : ServerOf(t) = IF task[t].state = "killed" THEN None ELSE task[t].callee

(* The pairs of the kernel invariant are the pairs of the protocol.        *)
LEMMA ServerValues == TypeOK /\ KernelInvariant => Servers
<1> SUFFICES ASSUME TypeOK, KernelInvariant, NEW t \in Tasks
             PROVE  ServerOf(t) = IF task[t].state = "killed" THEN None ELSE task[t].callee
  BY DEF Servers
<1>1. CASE task[t].state = "killed"
  BY <1>1, OpValues DEF Values
<1>2. CASE task[t].state # "killed" /\ task[t].callee # None
  <2>1. PICK s \in Tasks : s = task[t].callee
    BY <1>2, Typing
  <2>2. BlockedOn(t, s)
    BY <1>2, <2>1 DEF KernelInvariant, Pairs
  <2>3. ~Queued(t)
    BY <2>2 DEF BlockedOn, Waits, Queued
  <2> QED BY <1>2, <2>2, <2>3, OpValues DEF Values, BlockedOn
<1>3. CASE task[t].state # "killed" /\ task[t].callee = None
  BY <1>3, OpValues DEF Values
<1> QED BY <1>1, <1>2, <1>3

(* The same in the next state.                                             *)
LEMMA ServerValuesNext == (TypeOK /\ KernelInvariant => Servers)'
BY ServerValues, PTL

(* Each effect below is a step between two states of the invariant.        *)
Step == Given /\ KernelInvariant'

(* A killed task is never on the hart.                                     *)
LEMMA StepScheduled ==
  ASSUME Step
  PROVE  Scheduled
<1>1. cur' \in Tasks \cup {Idle} /\ Current'
  BY DEF Step, Given, TypeOK, KernelInvariant
<1> QED BY <1>1, OpValuesNext DEF Values, Scheduled, Current

(* The running task in user mode, or between a reply and a receive.        *)
LEMMA StepActive ==
  ASSUME Step, NEW me \in Tasks, me = cur, cont[me].at # "sent"
  PROVE  ActiveIdle(me)
<1>1. task[me].state # "killed"
  BY DEF Step, Given, KernelInvariant, Current
<1> QED BY <1>1, OpValues DEF Values, ActiveIdle

Idles(t) == task[t].state # "killed" /\ cont[t].at # "sent"

Undead(t) == task'[t].state = "killed" <=> task[t].state = "killed"

(* A task that is outside the blocking sends and calls before and after.   *)
LEMMA UnmovedIdle ==
  ASSUME NEW t \in Tasks, Idles(t), Idles(t)'
  PROVE  Unmoved(t)
BY OpValues, OpValuesNext DEF Values, Idles, Unmoved

(* A task that is left alone.                                              *)
LEMMA UnmovedAlike ==
  ASSUME NEW t \in Tasks, Alike(t), Undead(t), Queued(t)' <=> Queued(t)
  PROVE  Unmoved(t)
<1>1. OpOf(t)' = OpOf(t)
  BY DEF OpOf, Alike, Undead
<1> QED BY <1>1 DEF ServerOf, Alike, Unmoved

(* Only the states of tasks change, and nobody dies.                       *)
LEMMA StepStates ==
  ASSUME Step, UNCHANGED <<sendQ, cont>>,
         \A t \in Tasks : /\ task'[t].ipc = task[t].ipc /\ task'[t].event = task[t].event
                          /\ task'[t].msg = task[t].msg /\ task'[t].ep = task[t].ep
                          /\ task'[t].callee = task[t].callee /\ Undead(t)
  PROVE  Protocol!Next
<1>1. \A t : Queued(t)' <=> Queued(t)
  BY DEF Queued
<1>2. \A t \in Tasks : Unmoved(t)
  BY <1>1, UnmovedAlike DEF Alike
<1> QED BY <1>2, StepScheduled, MapNone

(* Nothing changes.                                                        *)
LEMMA StepStutter ==
  ASSUME Step, UNCHANGED Machine
  PROVE  Protocol!Next
BY StepStates DEF Machine, Undead

(* The tasks of D are in no blocking send or call before and after, and    *)
(* the others are left alone.                                              *)
LEMMA StepIdle ==
  ASSUME Step, UNCHANGED sendQ, NEW D,
         \A t \in Tasks \ D : Alike(t) /\ Undead(t),
         \A t \in Tasks \cap D : Idles(t) /\ Idles(t)'
  PROVE  Protocol!Next
<1>1. \A t : Queued(t)' <=> Queued(t)
  BY DEF Queued
<1>2. \A t \in Tasks : Unmoved(t)
  BY <1>1, UnmovedAlike, UnmovedIdle
<1> QED BY <1>2, StepScheduled, MapNone

(* A sender that joins a queue, and one that leaves it at the head.        *)
LEMMA QueuedMoves ==
  ASSUME TypeOK, KernelInvariant, NEW e \in Endpoints
  PROVE  /\ \A t \in Tasks : sendQ' = [sendQ EXCEPT ![e] = PushWaiting(@, t)] =>
              \A u : Queued(u)' <=> Queued(u) \/ u = t
         /\ sendQ[e] # <<>> /\ sendQ' = [sendQ EXCEPT ![e] = Tail(@)] =>
              \A u : Queued(u)' <=> Queued(u) /\ u # Head(sendQ[e])
<1>1. sendQ[e] \in Seq(Tasks) /\ Once(sendQ[e]) /\ sendQ \in [Endpoints -> Seq(Tasks)]
  BY DEF TypeOK, KernelInvariant, Queues
<1>2. ASSUME NEW t \in Tasks, sendQ' = [sendQ EXCEPT ![e] = PushWaiting(@, t)], NEW u
      PROVE  Queued(u)' <=> Queued(u) \/ u = t
  <2>1. /\ \A d \in Endpoints : sendQ'[d] = IF d = e THEN Append(sendQ[e], t) ELSE sendQ[d]
        /\ Members(Append(sendQ[e], t)) = Members(sendQ[e]) \cup {t}
    BY <1>1, <1>2, AppendMembers DEF PushWaiting
  <2> QED BY <2>1 DEF Queued
<1>3. ASSUME sendQ[e] # <<>>, sendQ' = [sendQ EXCEPT ![e] = Tail(@)], NEW u
      PROVE  Queued(u)' <=> Queued(u) /\ u # Head(sendQ[e])
  <2>1. PICK s : s = Head(sendQ[e])
    OBVIOUS
  <2>2. /\ \A d \in Endpoints : sendQ'[d] = IF d = e THEN Tail(sendQ[e]) ELSE sendQ[d]
        /\ Members(Tail(sendQ[e])) = Members(sendQ[e]) \ {s} /\ s \in Members(sendQ[e])
    BY <1>1, <1>3, <2>1, TailMembers
  <2>3. \A d \in Endpoints : s \in Members(sendQ[d]) => d = e
    BY <2>2 DEF KernelInvariant, Queues, QueuedSender
  <2> QED BY <2>1, <2>2, <2>3 DEF Queued
<1> QED BY <1>2, <1>3

-----------------------------------------------------------------------------
(* The sends and the calls.                                                *)

(* The current task changes outside the blocking sends and calls.          *)
LEMMA StepOwn ==
  ASSUME Step, cur \in Tasks, cont[cur].at # "sent", NEW r, NEW place, place.at # "sent",
         \A t \in Tasks : task'[t] = IF t = cur THEN r ELSE task[t],
         \A t \in Tasks : cont'[t] = IF t = cur THEN place ELSE cont[t],
         r.state # "killed", UNCHANGED sendQ
  PROVE  Protocol!Next
<1>1. PICK D : D = {cur}
  OBVIOUS
<1>2. \A t \in Tasks \ D : Alike(t) /\ Undead(t)
  BY <1>1 DEF Alike, Undead
<1>3. task[cur].state # "killed"
  BY GivenParts DEF Step, Current
<1>4. ASSUME NEW t \in Tasks \cap D PROVE Idles(t) /\ Idles(t)'
  BY <1>1, <1>3, <1>4 DEF Idles
<1> QED BY <1>2, <1>4, StepIdle

(* A receiver is woken and switched to: neither end is in a blocking send. *)
LEMMA StepHandOver ==
  ASSUME Step, cur \in Tasks, cont[cur] = User, NEW e \in Endpoints, recvQ[e] # <<>>,
         NEW msg \in MsgState, NEW ep, NEW place, HandOver(e, msg, ep, place),
         RemoveWaiting(Head(recvQ[e])) = NoFault, place.at # "sent"
  PROVE  Protocol!Next
<1>1. PICK r : r = Head(recvQ[e])
  OBVIOUS
<1>2. /\ r \in Tasks /\ cont[r].at = "received" /\ task[r].state = "waiting"
      /\ cont[cur].at = "user" /\ task[cur].state # "killed" /\ task[cur] \in TaskRecord
      /\ task[r] \in TaskRecord
  BY <1>1, HeadReceiver, GivenParts DEF Step, Given, QueuedReceiver, User, At, RemoveWaiting,
     Check, NoFault, KernelInvariant, Current
<1>3. PICK mine : mine = InState(WithMsg(task[cur], msg), "ready")
  OBVIOUS
<1>4. PICK theirs : theirs = InState(WakeReceiver(task[r], "none"), "running")
  OBVIOUS
<1>5. mine.state = "ready" /\ theirs.state = "running"
  <2>1. WithMsg(task[cur], msg) \in TaskRecord /\ WakeReceiver(task[r], "none") \in TaskRecord
    BY <1>2, RecordTypes DEF IpcState
  <2> QED BY <1>3, <1>4, <2>1, RecordStates
<1>6. /\ \A t \in Tasks : task'[t] = IF t = r THEN theirs ELSE IF t = cur THEN mine ELSE task[t]
      /\ \A t \in Tasks : cont'[t] = IF t = cur THEN place ELSE cont[t]
      /\ UNCHANGED sendQ
  BY <1>1, <1>3, <1>4, TwoLookup, GivenParts DEF Step, HandOver, SwitchTask, Leave, TypeOK
<1>7. PICK D : D = {cur, r}
  OBVIOUS
<1>8. \A t \in Tasks \ D : Alike(t) /\ Undead(t)
  BY <1>6, <1>7 DEF Alike, Undead
<1>9. ASSUME NEW t \in Tasks \cap D PROVE Idles(t) /\ Idles(t)'
  BY <1>2, <1>5, <1>6, <1>7, <1>9 DEF Idles
<1> QED BY <1>6, <1>8, <1>9, StepIdle

(* The current task starts a send or a call and joins the queue.           *)
LEMMA StepBlockSender ==
  ASSUME Step, cur \in Tasks, cont[cur] = User, NEW e \in Endpoints, NEW r,
         r.state = "waiting", r.ipc \in {"sending", "calling"}, r.callee = task[cur].callee,
         BlockSender(e, r)
  PROVE  Protocol!Next
<1>1. PICK me \in Tasks : me = cur
  OBVIOUS
<1>2. /\ \A t \in Tasks : task'[t] = IF t = me THEN r ELSE task[t]
      /\ \A t \in Tasks : cont'[t] = IF t = me THEN At("sent", None) ELSE cont[t]
      /\ sendQ' = [sendQ EXCEPT ![e] = PushWaiting(@, me)]
  BY <1>1, OneLookup, GivenParts DEF Step, BlockSender, Leave, TypeOK
<1>3. \A u : Queued(u)' <=> Queued(u) \/ u = me
  BY <1>2, QueuedMoves DEF Step, Given
<1>4. ActiveIdle(me)
  BY <1>1, StepActive DEF User, At
<1>5. /\ task'[me].state = "waiting" /\ task'[me].ipc \in {"sending", "calling"}
      /\ cont'[me].at = "sent" /\ Queued(me)' /\ task'[me].callee = task[me].callee
  BY <1>1, <1>2, <1>3 DEF At
<1>6. OpOf(me)' \in {"sending", "asking"}
  BY <1>5, OpValuesNext DEF Values
<1>7. ServerOf(me)' = ServerOf(me)
  <2>1. Servers /\ Servers'
    BY ServerValues, ServerValuesNext DEF Step, Given
  <2>2. task[me].state # "killed"
    BY <1>1, CurrentFacts DEF Step, Given, User, At
  <2> QED BY <1>5, <2>1, <2>2 DEF Servers
<1>8. \A t \in Tasks \ {me} : Unmoved(t)
  BY <1>2, <1>3, UnmovedAlike DEF Alike, Undead
<1> QED BY <1>4, <1>6, <1>7, <1>8, StepScheduled, MapStart

(* ipc_call with a receiver waiting: it owes the reply.                    *)
LEMMA StepCallReceiver ==
  ASSUME Step, cur \in Tasks, cont[cur] = User, NEW e \in Endpoints, recvQ[e] # <<>>,
         RemoveWaiting(Head(recvQ[e])) = NoFault, CallReceiver(e)
  PROVE  Protocol!Next
<1>1. PICK r : r = Head(recvQ[e])
  OBVIOUS
<1>2. PICK me \in Tasks : me = cur
  OBVIOUS
<1>3. /\ r \in Tasks /\ cont[r].at = "received" /\ task[r].state = "waiting"
      /\ task[r].caller = None /\ r # me
      /\ cont[me].at = "user" /\ task[me].state # "killed" /\ task[me] \in TaskRecord
      /\ task[r] \in TaskRecord /\ ~Waits(me)
  BY <1>1, <1>2, HeadReceiver, CurrentFacts, GivenParts
  DEF Step, Given, QueuedReceiver, User, At, RemoveWaiting, Check, NoFault
<1>4. PICK mine : mine = WithCallee(AsCaller(task[me], e), r)
  OBVIOUS
<1>5. PICK theirs : theirs = WithCaller(WakeReceiver(task[r], "none"), me)
  OBVIOUS
<1>6. Has(mine, "waiting", "calling", "send", "long", e, r, task[me].caller)
  <2>1. AsCaller(task[me], e) \in TaskRecord
    BY <1>3, RecordTypes
  <2> QED BY <1>3, <1>4, <2>1, RecordFields DEF Has
<1>7. theirs.state = "ready"
  <2>1. WakeReceiver(task[r], "none") \in TaskRecord
    BY <1>3, RecordTypes DEF IpcState
  <2> QED BY <1>3, <1>5, <2>1, RecordStates
<1>8. /\ \A t \in Tasks : task'[t] = IF t = r THEN theirs ELSE IF t = me THEN mine ELSE task[t]
      /\ \A t \in Tasks : cont'[t] = IF t = me THEN At("sent", None) ELSE cont[t]
      /\ UNCHANGED sendQ
  BY <1>1, <1>2, <1>4, <1>5, TwoLookup, GivenParts DEF Step, CallReceiver, Leave, TypeOK
<1>9. \A t : Queued(t)' <=> Queued(t)
  BY <1>8 DEF Queued
<1>10. ActiveIdle(me) /\ OpOf(r) = "idle"
  BY <1>2, <1>3, StepActive, OpValues DEF Values
<1>11. \A c \in Tasks : ServerOf(c) # r
  <2>1. Servers /\ None \notin Tasks
    BY ServerValues, ConstantsAssumption DEF Step, Given
  <2>2. ASSUME NEW c \in Tasks, task[c].callee = r, task[c].state # "killed" PROVE FALSE
    <3>1. task[r].caller = c
      BY <1>3, <2>2, GivenParts DEF Step, Pairs
    <3> QED BY <1>3, <2>1, <3>1
  <2> QED BY <1>3, <2>1, <2>2 DEF Servers
<1>12. /\ task'[me].state = "waiting" /\ task'[me].ipc = "calling" /\ task'[me].callee = r
       /\ cont'[me].at = "sent" /\ ~Queued(me)' /\ r # None
  BY <1>3, <1>6, <1>8, <1>9, ConstantsAssumption DEF Has, At, Waits, Queued
<1>13. OpOf(me)' = "served" /\ ServerOf(me)' = r
  BY <1>12, OpValuesNext DEF Values
<1>14. \A t \in Tasks \ {me, r} : Unmoved(t)
  BY <1>8, <1>9, UnmovedAlike DEF Alike, Undead
<1>15. Unmoved(r)
  BY <1>3, <1>7, <1>8, UnmovedIdle DEF Idles
<1>16. \A t \in Tasks \ {me} : Unmoved(t)
  BY <1>14, <1>15
<1> QED BY <1>3, <1>10, <1>11, <1>13, <1>16, StepScheduled, MapServe

(* The sends and the calls are steps of the protocol.                      *)
LEMMA StepSends ==
  ASSUME Step, NEW e \in Endpoints,
         SendShort(e) \/ NbSendShort(e) \/ SendLong(e) \/ NbSendLong(e) \/ Call(e)
  PROVE  Protocol!Next
<1>1. /\ cur \in Tasks /\ cont[cur] = User /\ task[cur] \in TaskRecord /\ task \in TaskTable
      /\ task[cur].state # "killed" /\ cont \in [Tasks -> Cont]
  BY GivenParts
     DEF Step, SendShort, NbSendShort, SendLong, NbSendLong, Call, Calls, InUserMode, Current,
         TypeOK
<1>2. ASSUME NEW r, r.state # "killed", Return(One(task, cur, r), readyQ)
      PROVE  Protocol!Next
  <2>1. User.at = "user" /\ \A t \in Tasks : cont'[t] = IF t = cur THEN User ELSE cont[t]
    BY <1>1, <1>2 DEF Return, User, At
  <2>2. \A t \in Tasks : task'[t] = IF t = cur THEN r ELSE task[t]
    BY <1>1, <1>2, OneLookup DEF Return
  <2> QED BY <1>1, <1>2, <2>1, <2>2, StepOwn DEF Return
<1>3. /\ \A msg : WithMsg(task[cur], msg).state # "killed"
      /\ AsCaller(task[cur], e).state # "killed"
  BY <1>1, RecordStates
<1>4. ASSUME NEW msg, BlockSender(e, AsSender(task[cur], e, msg)) PROVE Protocol!Next
  <2>1. Has(AsSender(task[cur], e, msg), "waiting", "sending", "send", msg, e,
            task[cur].callee, task[cur].caller)
    BY <1>1, RecordFields
  <2> QED BY <1>1, <1>4, <2>1, StepBlockSender DEF Has
<1>5. ASSUME BlockSender(e, AsCaller(task[cur], e)) PROVE Protocol!Next
  <2>1. Has(AsCaller(task[cur], e), "waiting", "calling", "send", "long", e,
            task[cur].callee, task[cur].caller)
    BY <1>1, RecordFields
  <2> QED BY <1>1, <1>5, <2>1, StepBlockSender DEF Has
<1>6. ASSUME recvQ[e] # <<>>, HandOverChecks(e) = NoFault,
             \/ HandOver(e, "short", [epLock EXCEPT ![e] = cur], At("short_switched", e))
             \/ HandOver(e, "long", epLock, At("switched", e))
      PROVE  Protocol!Next
  <2>1. RemoveWaiting(Head(recvQ[e])) = NoFault
    BY <1>6, ChecksPass DEF HandOverChecks
  <2>2. At("short_switched", e).at # "sent" /\ At("switched", e).at # "sent"
    BY DEF At
  <2> QED BY <1>1, <1>6, <2>1, <2>2, StepHandOver DEF MsgState
<1>7. ASSUME recvQ[e] # <<>>, CallReceiver(e),
             (Acquire(epLock[e]) ?? Deliver(e) ?? RemoveWaiting(Head(recvQ[e])) ??
              PushReady(readyQ, Head(recvQ[e]))) = NoFault
      PROVE  Protocol!Next
  <2>1. RemoveWaiting(Head(recvQ[e])) = NoFault
    BY <1>7, ChecksPass
  <2> QED BY <1>1, <1>7, <2>1, StepCallReceiver
<1>8. CASE UNCHANGED Machine
  BY <1>8, StepStutter
<1>9. CASE ~UNCHANGED Machine
  <2>2. CASE SendShort(e) \/ NbSendShort(e)
    BY <1>2, <1>3, <1>4, <1>6, <2>2, <1>9
    DEF SendShort, NbSendShort, SendShortDeliver, Try, Machine
  <2>3. CASE SendLong(e) \/ NbSendLong(e)
    BY <1>2, <1>3, <1>4, <1>6, <2>3, <1>9
    DEF SendLong, NbSendLong, SendLongDeliver, Try, Machine
  <2>4. CASE Call(e)
    BY <1>2, <1>3, <1>5, <1>7, <1>9, <2>4 DEF Call, Try, Machine
  <2> QED BY <2>2, <2>3, <2>4
<1> QED BY <1>8, <1>9

-----------------------------------------------------------------------------
(* The receives and the replies.                                           *)

(* The running task me wakes the caller c that it owes a reply, if there   *)
(* is one; s may be a sender that it takes a message from.                 *)
Wakes(me, c, why, s) ==
  /\ me = cur /\ cont[me].at \notin {"sent", "received"}
  /\ c = task[me].caller /\ (c \in Tasks => task[c].state = "waiting")
  /\ s \in Tasks => s # me /\ Waits(s)
  /\ task'[me].state # "killed" /\ cont'[me].at # "sent"
  /\ c \in Tasks => task'[c] = WakeCaller(task[c], why)
  /\ \A t \in Tasks \ {me, c, s} : task'[t] = task[t]
  /\ \A t \in Tasks \ {me} : cont'[t] = cont[t]
  /\ \A t \in Tasks \ {s} : Queued(t)' <=> Queued(t)

Outcome(why) == IF why = "none" THEN "done" ELSE "canceled"

(* The call that the running task owes a reply to ends, and only that.     *)
LEMMA CallerEnds ==
  ASSUME Step, NEW me \in Tasks, NEW c, NEW why \in {"none", "canceled"}, NEW s,
         Wakes(me, c, why, s)
  PROVE  /\ c \in Tasks \cup {None}
         /\ c \in Tasks => ServerOf(c) = me
         /\ \A t \in Tasks \ {c} : ServerOf(t) # me
         /\ \A t \in Tasks \ {s} : EndsLike(me, t, Outcome(why))
<1>1. PICK woken : woken = WakeCaller(task[c], why)
  OBVIOUS
<1>2. /\ c \in Tasks \cup {None}
      /\ c \in Tasks =>
           /\ BlockedOn(c, me)
           /\ Has(woken, "ready", why, "none", "empty", None, None, task[c].caller)
  BY <1>1, OwedReply DEF Step, Wakes
<1>3. Servers /\ None \notin Tasks
  BY ServerValues, ConstantsAssumption DEF Step, Given
<1>4. c \in Tasks => c # me /\ ServerOf(c) = me
  BY <1>2, <1>3 DEF Servers, Wakes, BlockedOn
<1>5. ASSUME NEW t \in Tasks \ {c} PROVE ServerOf(t) # me
  <2>1. task[t].state # "killed" => task[t].callee # me
    BY <1>5, GivenParts DEF Step, Pairs, Wakes
  <2> QED BY <1>3, <2>1 DEF Servers
<1>6. s \in Tasks => s # c
  BY <1>2 DEF Wakes, BlockedOn
<1>7. c \in Tasks => EndsLike(me, c, Outcome(why))
  <2> SUFFICES ASSUME c \in Tasks PROVE EndsLike(me, c, Outcome(why))
    OBVIOUS
  <2>1. /\ task'[c].state = "ready" /\ task'[c].ipc = why /\ cont'[c].at = "sent"
    BY <1>1, <1>2, <1>4 DEF Wakes, Has, BlockedOn
  <2>2. OpOf(c)' = Outcome(why) /\ ServerOf(c)' = None
    BY <2>1, OpValuesNext DEF Values, Outcome
  <2> QED BY <1>4, <2>2 DEF EndsLike
<1>8. Unmoved(me)
  <2>1. task[me].state # "killed"
    BY CurrentFacts DEF Step, Given, Wakes
  <2> QED BY <2>1, UnmovedIdle DEF Idles, Wakes
<1>9. \A t \in Tasks \ {me, c, s} : Unmoved(t)
  BY UnmovedAlike DEF Wakes, Alike, Undead
<1>10. \A t \in Tasks \ {s} : EndsLike(me, t, Outcome(why))
  BY <1>4, <1>5, <1>7, <1>8, <1>9 DEF EndsLike
<1> QED BY <1>2, <1>4, <1>5, <1>10

(* A reply, or a receive that takes no message.                            *)
LEMMA StepFinish ==
  ASSUME Step, NEW me \in Tasks, NEW c, NEW why \in {"none", "canceled"},
         Wakes(me, c, why, None)
  PROVE  Protocol!Next
<1>1. None \notin Tasks
  BY ConstantsAssumption
<1>2. /\ c \in Tasks \cup {None}
      /\ c \in Tasks => ServerOf(c) = me
      /\ \A t \in Tasks \ {c} : ServerOf(t) # me
      /\ \A t \in Tasks : EndsLike(me, t, Outcome(why))
  BY <1>1, CallerEnds
<1>3. ActiveIdle(me) /\ Scheduled
  BY StepActive, StepScheduled DEF Wakes
<1>4. CASE c \in Tasks
  <2>1. Outcome(why) \in {"done", "canceled"}
    BY DEF Outcome
  <2> QED BY <1>2, <1>3, <1>4, <2>1, MapFinish
<1>5. CASE c \notin Tasks
  BY <1>2, <1>3, <1>5, MapNone DEF EndsLike
<1> QED BY <1>4, <1>5

(* A receive that takes the message of s.                                  *)
LEMMA StepTake ==
  ASSUME Step, NEW me \in Tasks, NEW c, NEW s \in Tasks, Wakes(me, c, "canceled", s),
         TakenAs(me, s), ServerOf(s) = None
  PROVE  Protocol!Next
<1>1. \A t \in Tasks \ {s} : EndsLike(me, t, "canceled")
  BY CallerEnds DEF Outcome
<1>2. ActiveIdle(me) /\ Scheduled /\ s # me /\ me # None
  BY StepActive, StepScheduled, ConstantsAssumption DEF Wakes
<1> QED BY <1>1, <1>2, MapTake

(* The checks of ipc_receive: the caller and the sender wait.              *)
LEMMA ReceiveChecks ==
  ASSUME TypeOK, cur \in Tasks, NEW e \in Endpoints
  PROVE  /\ CancelCaller(e) = NoFault =>
              (task[cur].caller \in Tasks => task[task[cur].caller].state = "waiting")
         /\ TakeSender(e) = NoFault => task[Head(sendQ[e])].state = "waiting"
<1>1. PICK c : c = task[cur].caller
  OBVIOUS
<1>2. ASSUME CancelCaller(e) = NoFault, c \in Tasks PROVE task[c].state = "waiting"
  <2>1. c # None
    BY <1>2, ConstantsAssumption
  <2>2. Check(task[c].state = "waiting", "ipc_receive: caller state") = NoFault
    BY <1>1, <1>2, <2>1 DEF CancelCaller, ??
  <2> QED BY <2>2 DEF Check, NoFault
<1>3. ASSUME TakeSender(e) = NoFault PROVE task[Head(sendQ[e])].state = "waiting"
  <2>1. RemoveWaiting(Head(sendQ[e])) = NoFault
    BY <1>3, ChecksPass DEF TakeSender
  <2> QED BY <2>1 DEF RemoveWaiting, Check, NoFault
<1> QED BY <1>1, <1>2, <1>3

(* A receive with no sender: the task waits, or returns empty-handed.      *)
LEMMA StepReceiveNone ==
  ASSUME Step, cur \in Tasks, NEW e \in Endpoints, cont[cur].at \notin {"sent", "received"},
         CancelCaller(e) = NoFault, UNCHANGED sendQ, NEW mine, mine.state # "killed",
         task' = One(TasksAtReceive, cur, mine),
         NEW place, place.at # "sent", \A t \in Tasks : cont'[t] = IF t = cur THEN place ELSE cont[t]
  PROVE  Protocol!Next
<1>1. PICK me \in Tasks : me = cur
  OBVIOUS
<1>2. PICK c : c = task[me].caller
  OBVIOUS
<1>3. PICK woken : woken = WakeCaller(task[c], "canceled")
  OBVIOUS
<1>4. \A t \in Tasks : task'[t] = IF t = me THEN mine ELSE IF t = c THEN woken ELSE task[t]
  BY <1>1, <1>2, <1>3, CanceledCaller, OneLookup DEF Step
<1>5. c \in Tasks => task[c].state = "waiting" /\ c # me
  <2>1. c \in Tasks => BlockedOn(c, me)
    BY <1>1, <1>2, OwedReply DEF Step
  <2> QED BY <1>1, <1>2, <2>1, ReceiveChecks DEF Step, Given, BlockedOn
<1>6. Wakes(me, c, "canceled", None)
  BY <1>1, <1>2, <1>3, <1>4, <1>5, ConstantsAssumption DEF Wakes, Queued
<1> QED BY <1>6, StepFinish

(* A receive that takes the sender s off the queue: mine and theirs are    *)
(* what becomes of the two records.                                        *)
Takes(e, s, c, mine, theirs, place) ==
  /\ s = Head(sendQ[e]) /\ c = task[cur].caller
  /\ sendQ' = [sendQ EXCEPT ![e] = Tail(@)]
  /\ mine.state # "killed" /\ theirs.state # "killed" /\ place.at # "sent"
  /\ \/ theirs.ipc = task[s].ipc /\ theirs.callee = None
     \/ theirs.ipc = "calling" /\ task[s].ipc = "calling" /\ theirs.callee = cur
     \/ theirs.ipc = "none" /\ task[s].ipc # "calling"
  /\ \A t \in Tasks : task'[t] = IF t = cur THEN mine ELSE IF t = s THEN theirs ELSE
                                  IF t = c THEN WakeCaller(task[c], "canceled") ELSE task[t]
  /\ \A t \in Tasks : cont'[t] = IF t = cur THEN place ELSE cont[t]

(* Such a receive is a Take of the protocol.                               *)
LEMMA StepReceiveFrom ==
  ASSUME Step, cur \in Tasks, NEW e \in Endpoints, cont[cur].at \notin {"sent", "received"},
         sendQ[e] # <<>>, CancelCaller(e) = NoFault, TakeSender(e) = NoFault,
         NEW s, NEW c, NEW mine, NEW theirs, NEW place, Takes(e, s, c, mine, theirs, place)
  PROVE  Protocol!Next
<1>1. PICK me \in Tasks : me = cur
  OBVIOUS
<1>2. /\ s \in Tasks /\ Waits(s) /\ QueuedSender(s, e) /\ Queued(s)
      /\ task[s].state = "waiting"
  <2>1. s \in Tasks /\ Waits(s) /\ QueuedSender(s, e)
    BY HeadSender DEF Step, Given, Takes
  <2>2. sendQ[e] \in Seq(Tasks) /\ Once(sendQ[e])
    BY GivenParts DEF Step, TypeOK, Queues
  <2>3. Queued(s)
    BY <2>2, TailMembers DEF Queued, Takes
  <2> QED BY <2>1, <2>3, ReceiveChecks DEF Step, Given, Takes
<1>3. s # me /\ None \notin Tasks
  BY <1>1, <1>2, CurrentFacts, ConstantsAssumption DEF Step, Given
<1>4. c \in Tasks => task[c].state = "waiting" /\ c # me /\ c # s
  <2>1. c \in Tasks => BlockedOn(c, me)
    BY <1>1, OwedReply DEF Step, Takes
  <2> QED BY <1>2, <2>1, ReceiveChecks DEF Step, Given, BlockedOn, Takes
<1>5. \A u : Queued(u)' <=> Queued(u) /\ u # s
  BY QueuedMoves DEF Step, Given, Takes
<1>6. Wakes(me, c, "canceled", s)
  BY <1>1, <1>2, <1>3, <1>4, <1>5 DEF Wakes, Takes
<1>7. /\ task'[s] = theirs /\ cont'[s].at = "sent" /\ cont[s].at = "sent"
      /\ task[s].ipc \in {"sending", "calling"} /\ task[s].callee = None
      /\ ~Queued(s)'
  BY <1>1, <1>2, <1>3, <1>5 DEF QueuedSender, Takes
<1>8. OpOf(s) = (IF task[s].ipc = "sending" THEN "sending" ELSE "asking") /\ ServerOf(s) = None
  BY <1>2, <1>7, OpValues DEF Values
<1>9. TakenAs(me, s)
  <2>1. CASE theirs.ipc = task[s].ipc /\ theirs.callee = None
    <3>1. OpOf(s)' = "lost" /\ ServerOf(s)' = None
      BY <1>2, <1>7, <2>1, OpValuesNext DEF Values, Takes
    <3> QED BY <1>7, <1>8, <3>1 DEF TakenAs
  <2>2. CASE theirs.ipc = "calling" /\ task[s].ipc = "calling" /\ theirs.callee = cur
    <3>1. task'[s].callee = me /\ me # None
      BY <1>1, <1>3, <1>7, <2>2
    <3>2. OpOf(s)' = "served" /\ ServerOf(s)' = me
      BY <1>2, <1>7, <2>2, <3>1, OpValuesNext DEF Values, Takes
    <3> QED BY <1>7, <1>8, <2>2, <3>2 DEF TakenAs
  <2>3. CASE theirs.ipc = "none" /\ task[s].ipc # "calling"
    <3>1. OpOf(s)' = "done" /\ ServerOf(s)' = None
      BY <1>2, <1>7, <2>3, OpValuesNext DEF Values, Takes
    <3> QED BY <1>7, <1>8, <2>3, <3>1 DEF TakenAs
  <2> QED BY <2>1, <2>2, <2>3 DEF Takes
<1> QED BY <1>2, <1>6, <1>8, <1>9, StepTake

(* The receives are steps of the protocol.                                 *)
LEMMA StepReceives ==
  ASSUME Step, NEW e \in Endpoints, Receive(e) \/ NbReceive(e) \/ ThenReceive(e)
  PROVE  Protocol!Next
<1>1. /\ cur \in Tasks /\ cont[cur].at \in {"user", "replied"} /\ cont \in [Tasks -> Cont]
      /\ task[cur] \in TaskRecord /\ task[cur].state # "killed"
      /\ NbReceive(e) => cont[cur] = User
  BY GivenParts
     DEF Step, Receive, NbReceive, ThenReceive, Calls, InUserMode, User, At, Current, TypeOK
<1>2. PICK c : c = task[cur].caller
  OBVIOUS
<1>3. PICK s : s = Head(sendQ[e])
  OBVIOUS
<1>4. /\ Receiver \in TaskRecord /\ Receiver.state = task[cur].state
      /\ AsReceiver(Receiver, e).state = "waiting" /\ InState(Receiver, "ready").state = "ready"
      /\ \A t : WithCaller(Receiver, t).state = task[cur].state
  BY <1>1, ReceiverFields, RecordStates DEF Step, Given, Has
<1>5. /\ TasksAtReceive \in TaskTable
      /\ \A t \in Tasks : TasksAtReceive[t] =
           IF t = c THEN WakeCaller(task[c], "canceled") ELSE task[t]
  BY <1>1, <1>2, CanceledCaller DEF Step
<1>6. User.at = "user" /\ At("received", None).at = "received" /\ At("switched", e).at = "switched"
  BY DEF User, At
<1>7. ASSUME sendQ[e] = <<>>, (Enter(e) ?? CancelCaller(e)) = NoFault,
             WaitForSender(e) \/ /\ NbReceive(e)
                                 /\ Return(One(TasksAtReceive, cur, Receiver), ReadyAtReceive)
      PROVE  Protocol!Next
  <2>1. CancelCaller(e) = NoFault
    BY <1>7, ChecksPass
  <2>2. CASE WaitForSender(e)
    <3>1. \A t \in Tasks : cont'[t] = IF t = cur THEN At("received", None) ELSE cont[t]
      BY <1>1, <2>2 DEF WaitForSender, Leave
    <3> QED BY <1>1, <1>4, <1>6, <2>1, <2>2, <3>1, StepReceiveNone DEF WaitForSender
  <2>3. CASE NbReceive(e) /\ Return(One(TasksAtReceive, cur, Receiver), ReadyAtReceive)
    <3>1. \A t \in Tasks : cont'[t] = IF t = cur THEN User ELSE cont[t]
      BY <1>1, <2>3 DEF Return
    <3> QED BY <1>1, <1>4, <1>6, <2>1, <2>3, <3>1, StepReceiveNone DEF Return
  <2> QED BY <1>7, <2>2, <2>3
<1>8. ASSUME sendQ[e] # <<>>, (Enter(e) ?? CancelCaller(e) ?? TakeSender(e)) = NoFault,
             \/ Take(e, One(TasksAtReceive, cur, Receiver))
             \/ /\ task[s].ipc = "calling"
                /\ Take(e, Two(TasksAtReceive, cur, WithCaller(Receiver, s),
                               s, WithCallee(task[s], cur)))
             \/ task[s].ipc # "calling" /\ TakeAndSwitch(e)
      PROVE  Protocol!Next
  <2>1. CancelCaller(e) = NoFault /\ TakeSender(e) = NoFault
    BY <1>8, ChecksPass
  <2>2. /\ s \in Tasks /\ Waits(s) /\ QueuedSender(s, e) /\ task[s].state = "waiting"
        /\ task[s] \in TaskRecord
    BY <1>1, <1>3, <1>8, <2>1, HeadSender, ReceiveChecks, GivenParts DEF Step, Given
  <2>3. s # cur /\ s # c
    <3>1. c \in Tasks => BlockedOn(c, cur)
      BY <1>1, <1>2, OwedReply DEF Step
    <3> QED BY <1>1, <2>2, <3>1, CurrentFacts DEF Step, Given, BlockedOn
  <2>4. CASE Take(e, One(TasksAtReceive, cur, Receiver))
    <3>1. /\ \A t \in Tasks : task'[t] =
               IF t = cur THEN Receiver ELSE IF t = s THEN task[s] ELSE
               IF t = c THEN WakeCaller(task[c], "canceled") ELSE task[t]
          /\ \A t \in Tasks : cont'[t] = IF t = cur THEN User ELSE cont[t]
          /\ sendQ' = [sendQ EXCEPT ![e] = Tail(@)]
      BY <1>1, <1>5, <2>3, <2>4, OneLookup DEF Take, Leave
    <3>2. task[s].state # "killed" /\ task[s].callee = None
      BY <2>2 DEF QueuedSender
    <3>3. Takes(e, s, c, Receiver, task[s], User)
      BY <1>1, <1>2, <1>3, <1>4, <1>6, <3>1, <3>2 DEF Takes
    <3> QED BY <1>1, <1>8, <2>1, <3>3, StepReceiveFrom
  <2>5. CASE /\ task[s].ipc = "calling"
             /\ Take(e, Two(TasksAtReceive, cur, WithCaller(Receiver, s),
                            s, WithCallee(task[s], cur)))
    <3>1. PICK theirs : theirs = WithCallee(task[s], cur)
      OBVIOUS
    <3>2. PICK mine : mine = WithCaller(Receiver, s)
      OBVIOUS
    <3>3. /\ \A t \in Tasks : task'[t] =
               IF t = cur THEN mine ELSE IF t = s THEN theirs ELSE
               IF t = c THEN WakeCaller(task[c], "canceled") ELSE task[t]
          /\ \A t \in Tasks : cont'[t] = IF t = cur THEN User ELSE cont[t]
          /\ sendQ' = [sendQ EXCEPT ![e] = Tail(@)]
      BY <1>1, <1>5, <2>3, <2>5, <3>1, <3>2, TwoLookup DEF Take, Leave
    <3>4. theirs.state = "waiting" /\ theirs.ipc = "calling" /\ theirs.callee = cur
      BY <2>2, <2>5, <3>1, RecordFields DEF Has
    <3>5. mine.state # "killed"
      BY <1>1, <1>4, <3>2
    <3>6. Takes(e, s, c, mine, theirs, User)
      BY <1>2, <1>3, <1>6, <2>5, <3>3, <3>4, <3>5 DEF Takes
    <3> QED BY <1>1, <1>8, <2>1, <3>6, StepReceiveFrom
  <2>6. CASE task[s].ipc # "calling" /\ TakeAndSwitch(e)
    <3>1. PICK theirs : theirs = InState(WakeSender(task[s], "none"), "running")
      OBVIOUS
    <3>2. PICK mine : mine = InState(Receiver, "ready")
      OBVIOUS
    <3>3. /\ \A t \in Tasks : task'[t] =
               IF t = cur THEN mine ELSE IF t = s THEN theirs ELSE
               IF t = c THEN WakeCaller(task[c], "canceled") ELSE task[t]
          /\ \A t \in Tasks : cont'[t] = IF t = cur THEN At("switched", e) ELSE cont[t]
          /\ sendQ' = [sendQ EXCEPT ![e] = Tail(@)]
      BY <1>1, <1>3, <1>5, <2>3, <2>6, <3>1, <3>2, TwoLookup
      DEF TakeAndSwitch, SwitchTask, Leave
    <3>4. theirs.state = "running" /\ theirs.ipc = "none"
      <4>1. WakeSender(task[s], "none") \in TaskRecord
        BY <2>2, RecordTypes DEF IpcState
      <4> QED BY <2>2, <3>1, <4>1, RecordFields DEF Has
    <3>5. mine.state # "killed"
      BY <1>4, <3>2
    <3>6. Takes(e, s, c, mine, theirs, At("switched", e))
      BY <1>2, <1>3, <1>6, <2>6, <3>3, <3>4, <3>5 DEF Takes
    <3> QED BY <1>1, <1>8, <2>1, <3>6, StepReceiveFrom
  <2> QED BY <1>8, <2>4, <2>5, <2>6
<1>9. CASE UNCHANGED Machine
  BY <1>9, StepStutter
<1>10. CASE ~UNCHANGED Machine
  <2>1. ASSUME ReceiveFrom(e) PROVE Protocol!Next
    <3>1. ASSUME NEW f, (Enter(e) ?? CancelCaller(e) ?? TakeSender(e) ?? f) = NoFault
          PROVE  (Enter(e) ?? CancelCaller(e) ?? TakeSender(e)) = NoFault
      BY <3>1 DEF ??
    <3> QED BY <1>3, <1>8, <1>10, <2>1, <3>1 DEF ReceiveFrom, Try, Machine
  <2>2. ASSUME BlockReceiver(e) PROVE Protocol!Next
    BY <1>7, <1>10, <2>2 DEF BlockReceiver, Try, Machine
  <2> QED BY <1>7, <1>10, <2>1, <2>2 DEF Receive, NbReceive, ThenReceive, Try, Machine
<1> QED BY <1>9, <1>10

(* The replies are steps of the protocol.                                  *)
LEMMA StepReplies ==
  ASSUME Step, NEW e \in Endpoints, Reply(e) \/ ReplyAndReceive(e)
  PROVE  Protocol!Next
<1>1. /\ cur \in Tasks /\ cont[cur] = User /\ cont[cur].at = "user" /\ cont \in [Tasks -> Cont]
      /\ task[cur] \in TaskRecord /\ task[cur].state # "killed" /\ task \in TaskTable
      /\ task[cur].caller \in Tasks \cup {None}
  BY GivenParts, Typing
     DEF Step, Reply, ReplyAndReceive, Calls, InUserMode, User, At, Current, TypeOK
<1>2. PICK me \in Tasks : me = cur
  BY <1>1
<1>3. PICK c : c = task[me].caller
  OBVIOUS
<1>4. PICK next \in {User, At("replied", e)} : DoReply(e, next)
  BY DEF Reply, ReplyAndReceive
<1>5. next.at \in {"user", "replied"}
  BY <1>4 DEF User, At
<1>6. ASSUME Replied(task, readyQ, next) PROVE Protocol!Next
  <2>1. /\ \A t \in Tasks : task'[t] = IF t = cur THEN task[me] ELSE task[t]
        /\ \A t \in Tasks : cont'[t] = IF t = cur THEN next ELSE cont[t]
        /\ UNCHANGED sendQ
    BY <1>1, <1>2, <1>6 DEF Replied, Leave
  <2> QED BY <1>1, <1>2, <1>5, <2>1, StepOwn
<1>7. ASSUME Return(One(task, cur, WithMsg(task[cur], "long")), readyQ) PROVE Protocol!Next
  <2>1. PICK r : r = WithMsg(task[cur], "long")
    OBVIOUS
  <2>2. /\ \A t \in Tasks : task'[t] = IF t = cur THEN r ELSE task[t]
        /\ \A t \in Tasks : cont'[t] = IF t = cur THEN User ELSE cont[t]
        /\ UNCHANGED sendQ /\ r.state # "killed" /\ User.at = "user"
    BY <1>1, <1>7, <2>1, OneLookup, RecordStates DEF Return
  <2> QED BY <1>1, <2>2, StepOwn
<1>8. ASSUME c # None,
             (Acquire(epLock[e]) ?? ReplyTo(e, c) ?? PushReady(readyQ, c)) = NoFault,
             Replied(Two(task, cur, WithCaller(WithMsg(task[cur], "empty"), None),
                         c, WakeCaller(task[c], "none")), Append(readyQ, c), next)
      PROVE  Protocol!Next
  <2>1. PICK mine : mine = WithCaller(WithMsg(task[cur], "empty"), None)
    OBVIOUS
  <2>2. mine.state # "killed"
    <3>1. WithMsg(task[cur], "empty") \in TaskRecord
      BY <1>1, RecordTypes DEF MsgState
    <3> QED BY <1>1, <2>1, <3>1, RecordStates
  <2>3. c \in Tasks /\ c # me
    <3>1. c \in Tasks
      BY <1>1, <1>2, <1>3, <1>8
    <3> QED BY <1>2, <1>3, <3>1, OwedReply DEF Step, BlockedOn
  <2>4. task[c].state = "waiting"
    <3>1. ReplyTo(e, c) = NoFault
      BY <1>8, ChecksPass
    <3>2. Check(task[c].state = "waiting", "ipc_reply: caller state") = NoFault
      BY <3>1 DEF ReplyTo, ??
    <3> QED BY <3>2 DEF Check, NoFault
  <2>5. /\ \A t \in Tasks : task'[t] = IF t = c THEN WakeCaller(task[c], "none")
                                       ELSE IF t = me THEN mine ELSE task[t]
        /\ \A t \in Tasks : cont'[t] = IF t = me THEN next ELSE cont[t]
        /\ UNCHANGED sendQ
    BY <1>1, <1>2, <1>8, <2>1, TwoLookup DEF Replied, Leave
  <2>6. Wakes(me, c, "none", None)
    BY <1>1, <1>2, <1>3, <1>5, <2>2, <2>3, <2>4, <2>5, ConstantsAssumption DEF Wakes, Queued
  <2> QED BY <2>6, StepFinish
<1>9. CASE UNCHANGED Machine
  BY <1>9, StepStutter
<1>10. CASE ~UNCHANGED Machine
  BY <1>2, <1>3, <1>4, <1>6, <1>7, <1>8, <1>10 DEF DoReply, Try, Machine
<1> QED BY <1>9, <1>10

-----------------------------------------------------------------------------
(* The destruction of an endpoint, and the task syscalls.                  *)

(* ipc_cancel cancels the messages that nobody received.                   *)
LEMMA StepCancel ==
  ASSUME Step, NEW e \in Endpoints, Cancel(e)
  PROVE  Protocol!Next
<1>1. CASE UNCHANGED Machine
  BY <1>1, StepStutter
<1>2. CASE ~UNCHANGED Machine
  <2>1. /\ cur \in Tasks /\ cont[cur] = User /\ Canceled(e)
        /\ (Acquire(epLock[e]) ?? CancelAll(e)) = NoFault
    BY <1>2 DEF Cancel, Calls, InUserMode, Try, Machine
  <2>2. CancelAll(e) = NoFault
    BY <2>1, ChecksPass
  <2>3. PICK R : R = Members(recvQ[e])
    OBVIOUS
  <2>4. PICK S : S = Members(sendQ[e])
    OBVIOUS
  <2>5. PICK me \in Tasks : me = cur
    BY <2>1
  <2>6. /\ R \subseteq Tasks /\ S \subseteq Tasks
        /\ \A t \in R \cup S : task[t].state = "waiting"
        /\ \A t \in R : cont[t].at = "received"
        /\ \A t \in S : QueuedSender(t, e) /\ Queued(t)
    <3>1. \A t \in R \cup S : task[t].state = "waiting"
      BY <2>2, <2>3, <2>4, CancelAllWaiting DEF Step, Given
    <3>2. R \subseteq Tasks /\ S \subseteq Tasks
      BY <2>3, <2>4, MembersAreTasks, GivenParts DEF Step, TypeOK
    <3> QED BY <2>3, <2>4, <3>1, <3>2, GivenParts DEF Step, Queues, QueuedReceiver, Queued
  <2>7. /\ \A t \in Tasks : task'[t] = IF t \in R THEN WakeReceiver(task[t], "canceled")
                                       ELSE IF t \in S THEN WakeSender(task[t], "canceled")
                                       ELSE task[t]
        /\ \A d \in Endpoints : sendQ'[d] = IF d = e THEN <<>> ELSE sendQ[d]
        /\ UNCHANGED cont
    BY <2>1, <2>3, <2>4, GivenParts DEF Step, Canceled, TypeOK
  <2>8. \A t \in Tasks \ S : Queued(t)' <=> Queued(t)
    <3>1. Members(<<>>) = {}
      BY DEF Members
    <3> QED BY <2>4, <2>7, <3>1 DEF Queued
  <2>9. \A t \in Tasks \ (R \cup S) : Unmoved(t)
    BY <2>7, <2>8, UnmovedAlike DEF Alike, Undead
  <2>10. ASSUME NEW t \in R PROVE Unmoved(t)
    <3>1. WakeReceiver(task[t], "canceled").state = "ready"
      BY <2>6, <2>10, RecordStates, GivenParts DEF Step
    <3> QED BY <2>6, <2>7, <2>10, <3>1, UnmovedIdle DEF Idles
  <2>11. ASSUME NEW t \in S
         PROVE  /\ OpOf(t) \in {"sending", "asking"} /\ OpOf(t)' = "canceled"
                /\ ServerOf(t)' = ServerOf(t)
    <3>1. t \in Tasks /\ t \notin R /\ task[t] \in TaskRecord
      BY <2>6, <2>11, GivenParts DEF Step, QueuedSender
    <3>2. task'[t].state = "ready" /\ task'[t].ipc = "canceled" /\ cont'[t].at = "sent"
      BY <2>6, <2>7, <2>11, <3>1, RecordFields DEF Has, QueuedSender
    <3>3. OpOf(t)' = "canceled" /\ ServerOf(t)' = None
      BY <3>1, <3>2, OpValuesNext DEF Values
    <3>4. OpOf(t) \in {"sending", "asking"} /\ ServerOf(t) = None
      BY <2>6, <2>11, <3>1, OpValues DEF Values, QueuedSender
    <3> QED BY <3>3, <3>4
  <2>12. ActiveIdle(me)
    BY <2>1, <2>5, StepActive DEF User, At
  <2>13. \A t \in Tasks \ S : Unmoved(t)
    BY <2>9, <2>10
  <2> QED BY <2>6, <2>11, <2>12, <2>13, StepScheduled, MapCancel
<1> QED BY <1>1, <1>2

(* One task changes its state, or its kill notification.                   *)
LEMMA StepOne ==
  ASSUME Step, UNCHANGED <<sendQ, cont>>, NEW v \in Tasks, NEW r, task' = One(task, v, r),
         r.state \in {task[v].state, "ready", "running", "suspended"},
         Has(r, r.state, task[v].ipc, task[v].event, task[v].msg, task[v].ep,
             task[v].callee, task[v].caller)
  PROVE  Protocol!Next
<1>1. \A t \in Tasks : task'[t] = IF t = v THEN r ELSE task[t]
  BY OneLookup, GivenParts DEF Step
<1>2. Keeps(task')
  BY GivenParts DEF Step
<1>3. \A t \in Tasks : Undead(t)
  BY <1>1, <1>2 DEF Undead, Keeps
<1> QED BY <1>1, <1>3, StepStates DEF Has

(* Nobody starts, ends or loses an operation by being created, switched    *)
(* to, suspended, resumed or by yielding.                                  *)
LEMMA StepTaskSyscalls ==
  ASSUME Step, NEW v \in Tasks,
         \/ CreateTask(v) \/ Switch(v) \/ Suspend(v) \/ Resume(v) \/ Yield
         \/ \E e \in Endpoints : SetKillNotify(v, e)
  PROVE  Protocol!Next
<1>1. /\ cur \in Tasks /\ cont[cur] = User /\ task[cur] \in TaskRecord /\ cont[cur].at = "user"
      /\ task[v] \in TaskRecord /\ Sound(v) /\ task \in TaskTable /\ cont \in [Tasks -> Cont]
  <2>1. cur \in Tasks /\ cont[cur] = User
    BY DEF CreateTask, Switch, Suspend, Resume, Yield, SetKillNotify, CallsOn, Calls, InUserMode
  <2> QED BY <2>1, GivenParts DEF Step, User, At, TypeOK
<1>2. CASE UNCHANGED Machine
  BY <1>2, StepStutter
<1>3. ASSUME NEW q, Return(task, q) PROVE Protocol!Next
  BY <1>3, StepStates DEF Return, Undead
<1>4. ASSUME NEW u \in Tasks, NEW s \in {"suspended", "ready"},
             task' = One(task, u, InState(task[u], s)), UNCHANGED <<sendQ, cont>>
      PROVE  Protocol!Next
  <2>1. PICK r : r = InState(task[u], s)
    OBVIOUS
  <2>2. Has(r, s, task[u].ipc, task[u].event, task[u].msg, task[u].ep,
            task[u].callee, task[u].caller)
    BY <2>1, RecordFields, GivenParts DEF Step
  <2> QED BY <1>4, <2>1, <2>2, StepOne DEF Has
<1>5. CASE ~UNCHANGED Machine
  <2>1. CASE CreateTask(v)
    <3>1. PICK r : r = FreshTask("suspended")
      OBVIOUS
    <3>2. Has(r, "suspended", task[v].ipc, task[v].event, task[v].msg,
              task[v].ep, task[v].callee, task[v].caller)
      <4>1. task[v] = FreshTask("unused")
        BY <1>1, <2>1 DEF CreateTask, Sound
      <4> QED BY <3>1, <4>1 DEF Has, FreshTask
    <3>3. Return(One(task, v, r), readyQ)
      BY <1>5, <2>1, <3>1 DEF CreateTask, Try, Machine
    <3> QED BY <3>2, <3>3, StepOne DEF Has, Return
  <2>2. CASE Switch(v)
    <3>1. ASSUME SwitchTo(v), task[v].state = "ready" PROVE Protocol!Next
      <4>1. /\ Has(InState(task[cur], "ready"), "ready", task[cur].ipc, task[cur].event,
                   task[cur].msg, task[cur].ep, task[cur].callee, task[cur].caller)
            /\ Has(InState(task[v], "running"), "running", task[v].ipc, task[v].event,
                   task[v].msg, task[v].ep, task[v].callee, task[v].caller)
        BY <1>1, RecordFields
      <4>2. \A t \in Tasks : task'[t] =
              IF t = v THEN InState(task[v], "running")
              ELSE IF t = cur THEN InState(task[cur], "ready") ELSE task[t]
        BY <1>1, <3>1, TwoLookup DEF SwitchTo, SwitchTask
      <4>3. task[cur].state # "killed"
        BY <1>1, GivenParts DEF Step, Current
      <4>4. \A t \in Tasks : Undead(t)
        BY <3>1, <4>1, <4>2, <4>3 DEF Undead, Has
      <4> QED BY <3>1, <4>1, <4>2, <4>4, StepStates DEF SwitchTo, Has
    <3> QED BY <1>3, <1>5, <2>2, <3>1 DEF Switch, Try, Machine
  <2>3. CASE Suspend(v)
    <3>1. ASSUME SuspendSelf PROVE Protocol!Next
      <4>1. PICK r : r = InState(task[cur], "suspended")
        OBVIOUS
      <4>2. /\ \A t \in Tasks : task'[t] = IF t = cur THEN r ELSE task[t]
            /\ \A t \in Tasks : cont'[t] = IF t = cur THEN At("suspended", None) ELSE cont[t]
            /\ r.state = "suspended" /\ At("suspended", None).at = "suspended" /\ UNCHANGED sendQ
        BY <1>1, <3>1, <4>1, OneLookup, RecordStates DEF SuspendSelf, Leave, At
      <4> QED BY <1>1, <4>2, StepOwn
    <3> QED BY <1>3, <1>4, <1>5, <2>3, <3>1 DEF Suspend, Return, Try, Machine
  <2>4. CASE Resume(v)
    BY <1>3, <1>4, <1>5, <2>4 DEF Resume, MadeReady, Return, Try, Machine
  <2>5. CASE Yield
    BY <1>1, <1>4, <1>5, <2>5 DEF Yield, GiveUp, Try, Machine
  <2>6. CASE \E e \in Endpoints : SetKillNotify(v, e)
    <3>1. PICK e \in Endpoints : SetKillNotify(v, e)
      BY <2>6
    <3>2. PICK r : r = [task[v] EXCEPT !.notify = e]
      OBVIOUS
    <3>3. Has(r, task[v].state, task[v].ipc, task[v].event, task[v].msg, task[v].ep,
              task[v].callee, task[v].caller)
      BY <1>1, <3>2, RecordFields
    <3>4. Return(One(task, v, r), readyQ)
      BY <1>5, <3>1, <3>2 DEF SetKillNotify, Try, Machine
    <3> QED BY <3>3, <3>4, StepOne DEF Has, Return
  <2> QED BY <2>1, <2>2, <2>3, <2>4, <2>5, <2>6
<1> QED BY <1>2, <1>5

(* A kill takes the victim out of the queues and leaves everybody else.    *)
LEMMA KillLeavesQueued ==
  ASSUME TypeOK, KernelInvariant, NEW v \in Tasks, Detach(v) = NoFault, sendQ' = SendersWithout(v)
  PROVE  \A t \in Tasks \ {v} : Queued(t)' <=> Queued(t)
<1>1. ASSUME NEW e \in Endpoints PROVE Members(sendQ'[e]) \in {Members(sendQ[e]), Members(sendQ[e]) \ {v}}
  <2>1. sendQ[e] \in Seq(Tasks) /\ Once(sendQ[e]) /\ e # None
    BY ConstantsAssumption DEF TypeOK, KernelInvariant, Queues
  <2>2. CASE WaitsAs(v, e, "sending")
    <3>1. Unlinkable(sendQ[e], v) = NoFault
      BY <2>1, <2>2, ChecksPass DEF WaitsAs, Detach
    <3>2. v \in Members(sendQ[e])
      BY <3>1 DEF Unlinkable, Check, NoFault, NullDeref
    <3> QED BY <2>1, <2>2, <3>2, UnlinkMembers DEF SendersWithout
  <2>3. CASE ~WaitsAs(v, e, "sending")
    BY <2>3 DEF SendersWithout
  <2> QED BY <2>2, <2>3
<1> QED BY <1>1 DEF Queued

(* What a kill changes: v dies, its callee c (if any) no longer has it     *)
(* as its caller, the receiver r (if any) is woken with the notification,  *)
(* the caller goes to place, and no other task enters or leaves a queue.   *)
Dies(v, c, r, place) ==
  /\ r \in Tasks => cont[r].at = "received" /\ task[r].state # "killed"
  /\ \A t \in Tasks : task'[t] =
        IF t = v THEN InState(task[v], "killed")
        ELSE IF t = r THEN WakeReceiver(task[r], "none")
        ELSE IF t = c THEN WithCaller(task[c], None) ELSE task[t]
  /\ place.at # "sent"
  /\ \A t \in Tasks : cont'[t] = IF t = cur THEN place ELSE cont[t]
  /\ \A t \in Tasks \ {v} : Queued(t)' <=> Queued(t)

(* The victim v dies, its callee c forgets it, the receiver r of the       *)
(* notification is woken.                                                  *)
LEMMA StepDies ==
  ASSUME Step, cur \in Tasks, cont[cur] = User, NEW v \in Tasks,
         NEW c \in Tasks \cup {None}, NEW r, NEW place, Dies(v, c, r, place)
  PROVE  Protocol!Next
<1> USE DEF Dies
<1>1. PICK me \in Tasks : me = cur
  OBVIOUS
<1>2. /\ cont[me].at = "user" /\ task[me].state # "killed" /\ task \in TaskTable
      /\ \A t \in Tasks : task[t] \in TaskRecord
  BY <1>1, GivenParts DEF Step, Current, User, At
<1>3. OpOf(v)' = "dead" /\ ServerOf(v)' = None
  <2>1. task'[v].state = "killed"
    BY <1>2, RecordStates
  <2> QED BY <2>1, OpValuesNext DEF Values
<1>4. ASSUME NEW t \in Tasks \ {v}
      PROVE  /\ task'[t].state = "killed" <=> task[t].state = "killed"
             /\ t # r => /\ task'[t].ipc = task[t].ipc /\ task'[t].event = task[t].event
                         /\ task'[t].msg = task[t].msg /\ task'[t].ep = task[t].ep
                         /\ task'[t].callee = task[t].callee
  <2>1. CASE t = r
    BY <1>2, <1>4, <2>1, RecordStates
  <2>2. CASE t # r /\ t = c
    <3>1. task'[t] = WithCaller(task[t], None)
      BY <1>4, <2>2
    <3> QED BY <1>2, <2>2, <3>1, RecordFields DEF Has
  <2>3. CASE t # r /\ t # c
    BY <1>4, <2>3
  <2> QED BY <2>1, <2>2, <2>3
<1>5. ASSUME NEW t \in Tasks \ {v} PROVE Unmoved(t)
  <2>1. CASE t \in {r, me}
    <3>1. Idles(t) /\ Idles(t)'
      BY <1>1, <1>2, <1>4, <1>5, <2>1 DEF Idles
    <3> QED BY <3>1, UnmovedIdle
  <2>2. CASE t \notin {r, me}
    <3>1. Alike(t) /\ Undead(t)
      BY <1>1, <1>4, <1>5, <2>2 DEF Alike, Undead
    <3> QED BY <1>5, <3>1, UnmovedAlike
  <2> QED BY <2>1, <2>2
<1>6. ActiveIdle(me)
  BY <1>1, <1>2, StepActive
<1> QED BY <1>3, <1>5, <1>6, StepScheduled, MapDie

(* A kill, with or without a notification, is a death in the protocol.     *)
LEMMA StepKills ==
  ASSUME Step, NEW v \in Tasks, NEW o \in Tasks \cup {None},
         Kill(v, o) \/ KillAndNotify(v, o)
  PROVE  Protocol!Next
<1>1. cur \in Tasks /\ cont[cur] = User /\ cont \in [Tasks -> Cont] /\ User.at = "user"
  BY GivenParts
     DEF Step, Kill, KillAndNotify, KillsUnder, CallsOn, Calls, InUserMode, TypeOK, User, At
<1>2. CASE UNCHANGED Machine
  BY <1>2, StepStutter
<1>3. CASE ~UNCHANGED Machine
  <2>1. Detach(v) = NoFault
    <3>1. \/ (AcquireOwner(o) ?? Acquire(taskLock[v]) ?? Detach(v) ??
              Check(v # Root, "kill_task: root killed")) = NoFault
          \/ (AcquireOwner(o) ?? Acquire(taskLock[v]) ?? Detach(v) ?? Notify(v)) = NoFault
      BY <1>3 DEF Kill, KillAndNotify, Try, Machine
    <3>2. CASE (AcquireOwner(o) ?? Acquire(taskLock[v]) ?? Detach(v) ??
                Check(v # Root, "kill_task: root killed")) = NoFault
      BY <3>2, ChecksPass
    <3>3. CASE (AcquireOwner(o) ?? Acquire(taskLock[v]) ?? Detach(v) ?? Notify(v)) = NoFault
      BY <3>3, ChecksPass
    <3> QED BY <3>1, <3>2, <3>3
  <2>2. PICK c \in Tasks \cup {None} :
           /\ c \in Tasks => c # v /\ task[c].caller = v
           /\ \A t \in Tasks : TasksWithout(v)[t] =
                IF t = v THEN InState(task[v], "killed")
                ELSE IF t = c THEN WithCaller(task[c], None) ELSE task[t]
    BY <2>1, CallLeft DEF Step
  <2>3. CASE Kill(v, o)
    <3>1. Killed(v, o)
      BY <1>3, <2>3 DEF Kill, Try, Machine
    <3>2. PICK r : r = None
      OBVIOUS
    <3>3. r \notin Tasks
      BY <3>2, ConstantsAssumption
    <3>4. /\ \A t \in Tasks : task'[t] =
               IF t = v THEN InState(task[v], "killed")
               ELSE IF t = r THEN WakeReceiver(task[r], "none")
               ELSE IF t = c THEN WithCaller(task[c], None) ELSE task[t]
          /\ \A t \in Tasks : cont'[t] = IF t = cur THEN User ELSE cont[t]
      BY <1>1, <2>2, <3>1, <3>3 DEF Killed
    <3>5. \A t \in Tasks \ {v} : Queued(t)' <=> Queued(t)
      BY <2>1, <3>1, KillLeavesQueued DEF Killed, Step, Given
    <3>6. Dies(v, c, r, User)
      BY <1>1, <3>3, <3>4, <3>5 DEF Dies
    <3> QED BY <1>1, <3>6, StepDies
  <2>4. CASE KillAndNotify(v, o)
    <3>1. Notified(v, o) /\ Notify(v) = NoFault /\ task[v].notify # None
      <4>1. /\ Notified(v, o) /\ task[v].notify # None
            /\ (AcquireOwner(o) ?? Acquire(taskLock[v]) ?? Detach(v) ?? Notify(v)) = NoFault
        BY <1>3, <2>4 DEF KillAndNotify, Try, Machine
      <4> QED BY <4>1, ChecksPass
    <3>2. PICK n \in Endpoints : n = task[v].notify
      BY <3>1, Typing, GivenParts DEF Step
    <3>3. PICK q : q = ReceiversWithout(v)[n]
      OBVIOUS
    <3>4. PICK r : r = Head(q)
      OBVIOUS
    <3>5. PICK tk : tk = TasksWithout(v)
      OBVIOUS
    <3>6. q # <<>> /\ tk[r].state = "waiting"
      BY <3>1, <3>2, <3>3, <3>4, <3>5 DEF Notify, ??, Check, NoFault
    <3>7. r \in Tasks /\ cont[r].at = "received" /\ tk \in TaskTable
      <4>1. /\ q \in Seq(Tasks) /\ Once(q) /\ Members(q) \subseteq Members(recvQ[n])
            /\ tk \in TaskTable
        BY <2>1, <3>2, <3>3, <3>5, QueuesLeft, WithoutTypes DEF Step, Given
      <4>2. r \in Members(q)
        BY <3>4, <3>6, <4>1, TailMembers
      <4> QED BY <4>1, <4>2, MembersAreTasks, GivenParts DEF Step, Queues, QueuedReceiver
    <3>8. r # v /\ task[r].state = "waiting"
      <4>1. \A t \in Tasks \ {v} : tk[t].state = task[t].state
        BY <3>5, KeepsWithout DEF Step, Given
      <4>2. tk[v].state = "killed"
        BY <2>2, <3>5, RecordStates, GivenParts DEF Step
      <4> QED BY <3>6, <3>7, <4>1, <4>2
    <3>9. r # c
      <4>1. c \in Tasks => task[c].caller = v
        BY <2>2
      <4>2. task[r].caller = None
        <5>1. r \in Members(recvQ[n])
          <6>1. q \in Seq(Tasks) /\ Once(q) /\ Members(q) \subseteq Members(recvQ[n])
            BY <2>1, <3>2, <3>3, QueuesLeft, WithoutTypes DEF Step, Given
          <6> QED BY <3>4, <3>6, <6>1, TailMembers
        <5> QED BY <5>1, GivenParts DEF Step, Queues, QueuedReceiver
      <4> QED BY <3>7, <4>1, <4>2, ConstantsAssumption
    <3>10. tk[r] = task[r]
      BY <2>2, <3>5, <3>7, <3>8, <3>9
    <3>11. \A t \in Tasks : task'[t] = IF t = r THEN WakeReceiver(task[r], "none") ELSE tk[t]
      <4>1. task' = One(tk, r, WakeReceiver(tk[r], "none"))
        BY <3>1, <3>2, <3>3, <3>4, <3>5 DEF Notified
      <4> QED BY <3>7, <3>10, <4>1, OneLookup
    <3>12. \A t \in Tasks : task'[t] =
               IF t = v THEN InState(task[v], "killed")
               ELSE IF t = r THEN WakeReceiver(task[r], "none")
               ELSE IF t = c THEN WithCaller(task[c], None) ELSE task[t]
      BY <2>2, <3>5, <3>8, <3>11
    <3>13. /\ \A t \in Tasks : cont'[t] = IF t = cur THEN At("notified", v) ELSE cont[t]
           /\ At("notified", v).at # "sent"
      BY <1>1, <3>1 DEF Notified, Leave, At
    <3>14. \A t \in Tasks \ {v} : Queued(t)' <=> Queued(t)
      BY <2>1, <3>1, KillLeavesQueued DEF Notified, Step, Given
    <3>15. task[r].state # "killed"
      BY <3>8
    <3>16. Dies(v, c, r, At("notified", v))
      BY <3>7, <3>12, <3>13, <3>14, <3>15 DEF Dies
    <3> QED BY <1>1, <3>16, StepDies
  <2> QED BY <2>3, <2>4
<1> QED BY <1>2, <1>3

-----------------------------------------------------------------------------
(* The kernel's own steps.                                                 *)

(* A served or canceled operation returns; the other system calls that     *)
(* were left half-way end without a step of the protocol.                  *)
LEMMA StepContinue ==
  ASSUME Step, Continue
  PROVE  Protocol!Next
<1>1. CASE UNCHANGED Machine
  BY <1>1, StepStutter
<1>2. CASE ~UNCHANGED Machine
  <2>1. /\ cur \in Tasks /\ UNCHANGED <<cur, task, sendQ>>
        /\ \A t \in Tasks : cont'[t] = IF t = cur THEN User ELSE cont[t]
        /\ cont[cur].at = "sent" => Woken = NoFault
    <3>1. cur \in Tasks /\ cont[cur].at = "sent" => Woken = NoFault
      BY <1>2 DEF Continue, Try, Machine
    <3>2. cur \in Tasks /\ Leave(User) /\ UNCHANGED <<cur, task, sendQ>>
      BY <1>2 DEF Continue, BackToUser, Try, Machine
    <3> QED BY <3>1, <3>2, GivenParts DEF Step, TypeOK, Leave
  <2>2. PICK me \in Tasks : me = cur
    BY <2>1
  <2>3. User.at = "user" /\ task[me].state # "killed"
    BY <2>2, GivenParts DEF User, At, Step, Current
  <2>4. CASE cont[me].at = "sent"
    <3>1. task[me].ipc \in {"none", "canceled"}
      BY <2>1, <2>2, <2>4 DEF Woken, ??, Check, NoFault
    <3>2. OpOf(me) \in {"done", "canceled"} /\ ServerOf(me) = None
      BY <2>3, <2>4, <3>1, OpValues DEF Values
    <3>3. task'[me].state # "killed" /\ cont'[me].at = "user"
      BY <2>1, <2>2, <2>3
    <3>4. OpOf(me)' = "idle" /\ ServerOf(me)' = None
      BY <3>3, OpValuesNext DEF Values
    <3>5. \A t : Queued(t)' <=> Queued(t)
      BY <2>1 DEF Queued
    <3>6. \A t \in Tasks \ {me} : Unmoved(t)
      BY <2>1, <2>2, <3>5, UnmovedAlike DEF Alike, Undead
    <3> QED BY <2>2, <3>2, <3>4, <3>6, StepScheduled, MapReturn
  <2>5. CASE cont[me].at # "sent"
    <3>1. \A t \in Tasks : task'[t] = IF t = cur THEN task[me] ELSE task[t]
      BY <2>1, <2>2
    <3> QED BY <2>1, <2>2, <2>3, <2>5, <3>1, StepOwn
  <2> QED BY <2>4, <2>5
<1> QED BY <1>1, <1>2

(* Dispatching and idling.                                                 *)
LEMMA StepDispatch ==
  ASSUME Step, Dispatch \/ LookupSpins \/ IdleSpin \/ Halted
  PROVE  Protocol!Next
<1>1. CASE UNCHANGED Machine
  BY <1>1, StepStutter
<1>2. CASE ~UNCHANGED Machine
  <2>1. readyQ # <<>> /\ Run(Head(readyQ))
    BY <1>2 DEF Dispatch, LookupSpins, IdleSpin, Halted, Try, Machine, vars
  <2>2. PICK h : h = Head(readyQ)
    OBVIOUS
  <2>3. h \in Tasks
    BY <2>1, <2>2, HeadType, GivenParts DEF Step, TypeOK
  <2>4. PICK r : r = InState(task[h], "running")
    OBVIOUS
  <2>5. Has(r, "running", task[h].ipc, task[h].event, task[h].msg, task[h].ep,
            task[h].callee, task[h].caller)
    BY <2>3, <2>4, RecordFields, GivenParts DEF Step
  <2> QED BY <2>1, <2>2, <2>3, <2>4, <2>5, StepOne DEF Run, Has
<1> QED BY <1>1, <1>2

-----------------------------------------------------------------------------
(* The refinement.                                                         *)

(* At boot the root task runs and nobody is in an operation.               *)
LEMMA ProtocolInit ==
  ASSUME Init
  PROVE  Protocol!Init
<1>1. \A t \in Tasks : /\ task[t].state # "killed" /\ cont[t].at = "user"
  BY DEF Init, FreshTask, User, At
<1>2. \A t \in Tasks : OpOf(t) = "idle" /\ ServerOf(t) = None
  BY <1>1, OpValues DEF Values
<1> QED BY <1>2, ConstantsAssumption DEF Init, Protocol!Init

(* Every step between states of the invariant is a step of the protocol.   *)
LEMMA ProtocolNext ==
  ASSUME TypeOK, TypeOK', KernelInvariant, KernelInvariant', [Next]_vars
  PROVE  Protocol!Next
<1>1. CurrentAlive
  BY DEF KernelInvariant, Current, CurrentAlive, Alive
<1>2. Step
  BY <1>1, SparedNext DEF Step, Given
<1>3. CASE UNCHANGED vars
  BY <1>2, <1>3, StepStutter DEF vars, Machine
<1>4. CASE Next
  BY <1>2, <1>4, ConstantsAssumption, StepSends, StepReceives, StepReplies, StepCancel,
     StepTaskSyscalls, StepKills, StepContinue, StepDispatch DEF Next
<1> QED BY <1>3, <1>4

(* The kernel implements the call protocol: a blocking send reports        *)
(* success only if a running task received the message, a call is answered *)
(* only by the task that received it, and nobody owes two replies.         *)
THEOREM KernelImplementsProtocol == Spec => ImplementsProtocol
<1>1. Init => Protocol!Init
  BY ProtocolInit
<1>2. TypeOK /\ TypeOK' /\ KernelInvariant /\ KernelInvariant' /\ [Next]_vars
        => [Protocol!Next]_Protocol!vars
  BY ProtocolNext
<1> QED
  BY <1>1, <1>2, TypeCorrect, KernelInvariantHolds, PTL DEF Spec, ImplementsProtocol, Protocol!Spec
=============================================================================
