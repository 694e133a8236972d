---------------------------- MODULE CallProtocol ----------------------------
(***************************************************************************)
(* What the blocking sends and calls of the kernel promise the programs,   *)
(* without queues, endpoints, locks or scheduling: whose message was       *)
(* received, who owes whom a reply, and what a send or a call that returns *)
(* may report.  Only the running task acts.                                *)
(*                                                                         *)
(* A promise is only as good as the programs: a receiver whose buffer does *)
(* not take the message loses it ("lost"), and nobody answers for a server *)
(* that died.                                                              *)
(***************************************************************************)

CONSTANTS Tasks, Idle, None

VARIABLES
  run,    \* the task that runs, or Idle
  op,     \* where the blocking operation of every task stands
  server  \* the task that owes it a reply

vars == <<run, op, server>>

OpState ==
  {"idle", "sending", "asking", "served", "lost", "done", "canceled", "dead"}

Init ==
  /\ run \in Tasks
  /\ op = [t \in Tasks |-> "idle"]
  /\ server = [t \in Tasks |-> None]

-----------------------------------------------------------------------------
OwesNothing(s) == \A c \in Tasks : server[c] # s

(* A task in user mode starts a send, or a call that some task is already  *)
(* waiting for or that nobody has received yet.                            *)
Start ==
  /\ run \in Tasks /\ op[run] = "idle"
  /\ \/ /\ \E waits \in {"sending", "asking"} : op' = [op EXCEPT ![run] = waits]
        /\ UNCHANGED server
     \/ \E s \in Tasks \ {run} :
          /\ op[s] \notin {"dead", "sending", "asking", "served", "lost"} /\ OwesNothing(s)
          /\ op' = [op EXCEPT ![run] = "served"]
          /\ server' = [server EXCEPT ![run] = s]

(* The operations once the call that run owes a reply to ends like that.   *)
Ended(how) == [c \in Tasks |-> IF server[c] = run THEN how ELSE op[c]]
Forgotten == [c \in Tasks |-> IF server[c] = run THEN None ELSE server[c]]

(* The server answers, or turns to something else without an answer.       *)
Finish ==
  /\ run \in Tasks /\ op[run] = "idle" /\ ~OwesNothing(run)
  /\ \E how \in {"done", "canceled"} : op' = Ended(how)
  /\ server' = Forgotten

(* A receiver takes a message; whoever it owed a reply is canceled.  A     *)
(* sender is done, a caller is owed a reply; the message may be lost.      *)
Take ==
  /\ run \in Tasks /\ op[run] = "idle"
  /\ \E c \in Tasks \ {run} :
       \/ /\ op[c] = "sending"
          /\ \E how \in {"done", "lost"} : op' = [Ended("canceled") EXCEPT ![c] = how]
          /\ server' = Forgotten
       \/ /\ op[c] = "asking"
          /\ op' = [Ended("canceled") EXCEPT ![c] = "served"]
          /\ server' = [Forgotten EXCEPT ![c] = run]
       \/ /\ op[c] = "asking"
          /\ op' = [Ended("canceled") EXCEPT ![c] = "lost"]
          /\ server' = Forgotten

(* An endpoint goes away, with the messages that nobody received.          *)
Cancel ==
  /\ run \in Tasks /\ op[run] = "idle"
  /\ \E gone \in SUBSET {c \in Tasks : op[c] \in {"sending", "asking"}} :
       op' = [c \in Tasks |-> IF c \in gone THEN "canceled" ELSE op[c]]
  /\ UNCHANGED server

(* The operation of the running task returns.                              *)
Return ==
  /\ run \in Tasks /\ op[run] \in {"done", "canceled"}
  /\ op' = [op EXCEPT ![run] = "idle"]
  /\ UNCHANGED server

(* A task is killed.  A reply that it owes is owed for ever.               *)
Die ==
  /\ run \in Tasks /\ op[run] = "idle"
  /\ \E v \in Tasks :
       /\ op' = [op EXCEPT ![v] = "dead"]
       /\ server' = [server EXCEPT ![v] = None]

Next ==
  /\ run' \in {t \in Tasks : op'[t] # "dead"} \cup {Idle}
  /\ UNCHANGED <<op, server>> \/ Start \/ Finish \/ Take \/ Cancel \/ Return \/ Die

Spec == Init /\ [][Next]_vars
=============================================================================
