# A TLA+ model of the caprese microkernel

caprese is a capability-based microkernel for 64-bit RISC-V. This directory holds TLA+ modules
translated from its source, the TLC configurations that check them on small instances, and
proofs checked by TLAPS. `PROJECT.json` maps every definition to the source lines it models.

## 1. The system

| Component | State it keeps | Operations |
|---|---|---|
| IPC (`ipc.cpp`, `ns_endpoint_cap.cpp`) | sender and receiver queue of every endpoint, its lock; IPC state, message state, caller and callee of every task | send (short, long, non-blocking), receive, reply, call, reply_and_receive, cancel, kill notification |
| Tasks and scheduler (`task.cpp`, `ns_task_cap.cpp`) | ready queue, `current_task`, task state, task lock | create, yield, switch, suspend, resume, kill, set_kill_notify, idle loop |
| Locks (`lock.cpp`) | owner and count | lock, unlock |
| Capability slots (`cap_space.cpp`, `ns_cap.cpp`) | slots linked into derivation lists and into one free list per task, cap spaces and extensions of every task | insert, transfer, delegate, copy, revoke, destroy, insert and extend cap space |
| Capability objects (`cap.cpp`, `cap.h`) | base, size and used size of memory capabilities, the objects | create, compare, destroy |
| System call layer (`syscall.cpp`, `syscall/`) | none | decoding, lookup of the capability arguments |
| Page tables and virtual pages (`page.h`, `cap.cpp` 437-842) | page table entries; level, address and parent table in every capability | create, map, unmap, remap, destroy |
| User memory (`user_memory.cpp`) | none | read, write and forward across address spaces |
| Boot (`start.cpp`, `setup.cpp`, `dtb.cpp`) | boot information, regions of memory | walk of the device tree, memory capabilities, the pages of the root task |
| Traps and contexts (`trap.cpp`, `trap.S`, `context.S`) | frames and contexts | system call entry, context switch |

How they interact. A trap from user mode is a system call; it looks capabilities up in the caller's
cap spaces and calls into one component. IPC moves tasks between the endpoint queues and the ready
queue; a send or a receive that finds a peer switches to it directly. Transferring a message copies
user memory and may move capabilities. Destroying the last capability of an endpoint cancels its
waiters; that of a task kills it, and killing a task may send a notification to an endpoint. Slots of
one derivation list belong to several tasks, so revoking in one task frees slots of another.

What is hard. One hart is started, the kernel runs with interrupts masked and is not preemptive, so
the interleavings are those of *context switches inside system calls*: what a task checked before
`resched()` or `switch_task()` it uses again after any sequence of other tasks' calls. Locks are held
across some of these switches. Several operations can fail half way (a message transfer, the creation
of a task). Suspending, resuming and killing act on tasks in the middle of a rendezvous. The lists of
slots thread through several tasks. Page tables can be filled, unmapped and destroyed in any order, and a
capability remembers its last place. A user-mode timer interrupt or exception panics, so there are no
timeouts; nothing is persistent, so there is no recovery.

What makes each component correct:

* IPC: senders and receivers never wait together at an endpoint; a queued task waits for just that;
  caller and callee know each other; a call is answered; a message exchange never stops the kernel.
* Scheduler: every task is where whoever must act on it looks for it; a ready task runs; a killed
  task stays dead; a task that can go on holds no lock across a switch but one it then releases.
* Slots: lists are sound, no slot is lost or handed out twice, a delegation can be taken back and
  gives back what was delegated.
* Messages with capabilities: passing capabilities on neither loses nor duplicates one, also when the
  message stops half way.
* Objects: no two objects overlap unless one was carved from the other; an object lives exactly as
  long as its capabilities.
* Page tables: a capability names exactly the entry that leads to its object; no call of a user's
  makes capabilities unreachable.
* User memory: the kernel touches the bytes that the capabilities put at an address, and no others.
* Boot: the root task gets exactly the memory that is there and free, in aligned blocks, and its pages.

`PROJECT.json` lists the hazards behind these properties, each at its line.

## 2. Modules

| Module | Models | Used by |
|---|---|---|
| `Ipc` | scheduler, IPC, task control, locks across switches | `IpcRefinement`, `IpcInvariant`, `RpcSystem`, `IpcProofs` |
| `CallProtocol` | abstract: what a blocking send or call promises | `IpcRefinement` |
| `IpcRefinement` | the refinement mapping from `Ipc` to `CallProtocol` | `MCIpc`, `IpcRefinementProofs` |
| `RpcSystem` | `Ipc` running a root task, a server and clients | run `RpcLoop` |
| `IpcInvariant` | the inductive invariant of `Ipc` | `MCIpc`, `IpcInvariantProofs` |
| `IpcProofs`, `IpcInvariantProofs`, `IpcRefinementProofs`, `IpcScheduleProofs` | theorems about `Ipc`, each on top of the one before | TLAPS |
| `CapSpace` | slots, derivation lists, free lists, objects, messages, their system calls | `CapSpaceInvariant` |
| `CapSpaceInvariant` | the inductive invariant of `CapSpace` | `MCCapSpace`, `CapSpaceProofs` |
| `CapSpaceProofs` | theorems about `CapSpace` | TLAPS |
| `PageTable` | page table entries, capabilities of tables and pages, the tables of a task | `UserMemory`, `PageTableInvariant` |
| `PageTableInvariant` | the inductive invariant of `PageTable` | `MCPageTable`, `PageTableProofs` |
| `PageTableProofs` | theorems about `PageTable` | TLAPS |
| `Iteration` | lemmas: least elements, iterates of a step function, quotients and remainders | the proofs about loops and walks |
| `UserMemory` | reading, writing and forwarding user memory over `PageTable` | `MCPageTable` |
| `Regions` | regions of memory and their difference | `BootMemory` |
| `DeviceTree` | the walk over the tokens of the device tree | `BootMemory` |
| `BootMemory` | regions, memory capabilities and pages at boot, on top of `DeviceTree` and `Regions` | `BootInvariant` |
| `BootInvariant` | the inductive invariant of `BootMemory` | `MCBootMemory`, `BootMemoryProofs` |
| `BootMemoryProofs` | theorems about `Regions` and `BootMemory` | TLAPS |
| `MCIpc`, `MCCapSpace`, `MCPageTable`, `MCBootMemory` | instances for TLC | the runs |

### Ipc

`task` holds the fields of `task_t` the scheduler and IPC use; `readyQ`, `sendQ` and `recvQ` are the
queues (sequences for the linked lists: what the code does to a task that is in no queue, or in it
already, is a fault). The code between two context switches is one step. A system call that gives up
the processor leaves the place it will resume at in `cont[t]`; `Continue` is the code behind that
place. `epLock` and `taskLock` record only the locks held *across* a switch; a lock taken by somebody
else then is the fault `Hang`. Every system call begins with the lock of its own task (`Calls`; if another
task holds it, `LookupSpins`).

`kill_task` is reached in two ways: by the `kill` system call, and by destroying the last capability of a
task (`destroy_task`). The second may be inside `revoke_cap`, which holds the lock of the current task
(`cap_space.cpp:406`), and `destroy_cap_slot`, which holds that of the owner of the slot
(`cap_space.cpp:57`), and `kill_task` reschedules with them held, when a task kills itself or a notification
is sent. `Kill(v, o)` and `KillAndNotify(v, o)` take that owner as `o`, or `None` for a destruction outside
of a revocation, and `LocksOfKill` says what stays locked. Any task that exists can be the owner: which
slots there are is in `CapSpace`. A revocation that destroys several objects is several calls, since no
other task runs between them.

`reply_and_receive` is two steps of one task (`ReplyAndReceive`,
`ThenReceive`) with nothing in between. A message is its state (`empty`, `short`, `long`) and the
result of its transfer, which may fail when `TransferMayFail`. `Init` is the state after
`setup_root_task`: the root task runs, in state `suspended`, as in the code.

The default build keeps assertions. Every assertion, panic and null dereference that depends on state
is a check, made in the order of the code (`f ?? g`); the first that fails is recorded in `fault` and
the machine stops. So the invariants are about all states up to the one that halts, and a separate
property says which checks never fail.

### CallProtocol and IpcRefinement

`CallProtocol` knows no queues, endpoints, locks or scheduling. A task's blocking operation is `idle`,
`sending` or `asking` (nobody has received the message), `served` (its server owes a reply), `lost`,
`done`, `canceled`, or the task is `dead`. Only the running task acts: it starts an operation, takes
another's message, answers or abandons the one caller it owes a reply, cancels messages that nobody
received, kills, or returns from an operation that is `done` or `canceled`. `IpcRefinement` reads this
state off `Ipc`: an operation is what the continuation, the queue, the IPC state and the callee of a
task say. `ImplementsProtocol` is the abstract specification itself, so TLC checks every step of `Ipc`
against it. What is promised is weak in two places, because the code is: the message of a failed
transfer is `lost` and its sender stays there, and nobody answers for a server that died.

### CapSpace

A slot is `<<space, index>>`; `heap` is the kernel's memory (capabilities, links, owners, free lists,
counts, spaces, extensions, task states) and the functions of the code are operators from heaps to
heaps, composed as in the code. `heap.halt` carries the first failed check. Memory is counted in
half pages: an endpoint takes one unit and a page two, so that rounding up happens; addresses wrap at
`WordSize`. Page tables passed to a task creation are classified by `TableArgs` (valid, bad root table,
bad inner table). Any task that is not suspended or killed may make the next call; blocking and the
ready queue are in `Ipc`. `heap.stuck` holds the tasks whose lock was left behind by a self-kill or a
self-suspension. `Message` passes one or two capabilities on, each transferred or delegated, as
`ipc_transfer_ipc_msg` does: the first that is refused ends the message, and the ones before it have
moved. A failed access to the buffers ends a message like a shorter one.

The two modules meet where `Ipc` creates and destroys endpoints and tasks (`CreateTask`, `Cancel`) and
where `CapSpace` records what it canceled or killed.

### PageTable and UserMemory

A virtual address counts pages. `cap` holds for every table and page what its capability records
(mapped, level, index, address, parent table), `entries` the page table entries with their kind (off,
table, leaf for user mode, kernel). Tables and pages cannot be copied, so object and capability are one.
A call the code refuses is no step. As in the code, `MapTable` and `MapPage` do not ask whether the table
they map into is mapped, `Released` keeps the level and address of the last place, a new task's capability
space tables get no parent, and an extension is its own parent. `create_object` asks of the tables given to
a new task only that they are not mapped. Whether programs also give tables that hold entries, or one table
twice, is the constant `ReuseTables`: `init_task` clears what they held (`InitTask`), and the capabilities of
the pages and tables in them then name entries that are gone (run `PagesFound`). `EntriesAgree` depends on
`~ReuseTables`, in the run and in the theorem; with `ReuseTables` TLC finds that `TypeOK` and `CapsKept`
hold all the same (340,580 states). A root table that lost the mapped space of the kernel belongs to a task
that can make no call (`MapsKernel`).

`UserMemory` adds no kernel state. An access is the sequence of physical bytes `<<page, offset>>` that
the loops of `user_memory.cpp` touch, and the reference is `CapBytes`, what the capabilities say is at
an address. `topDown` is a history variable: have programs so far put entries only into mapped tables
and taken only empty tables away? If not, a page can end up in a table of another level, and capabilities
and memory disagree: `LevelsAgree`, `AccessExact` and `ForwardExact` are about programs that do.

### DeviceTree, Regions and BootMemory

A device tree is a sequence of nodes with depths, and its token stream is derived from it, with no-ops
inserted or cut off. The recursion of `_parse_dtb_node` is the stack `frames`; one token is one step.
`BootMemory` collects the regions of the nodes handed to the callback, takes the device tree out of the
memory regions, subtracts the reserved regions one after the other (the recursion of
`insert_memory_region_caps` is the list `work` of calls still to be made), cuts what is left into blocks
with the two loops over `size_bit`, and maps the pages of program, stack and device tree. `TreesAssumption`
says what the firmware's stream has in any case: property data are cells, and a property that gives a number
of cells holds one.

## 3. Runs

All run with `tlc -workers 2 -config X.cfg M`.

| Run | Instance | Shows |
|---|---|---|
| `IpcEverySyscall` | 2 tasks, 2 endpoints, all system calls, kills under the locks of slot owners, failing transfers, tasks act on themselves and on the root | `TypeOK`, `Rendezvous`, `WaitQueues`, `CallPairing`, `LockInventory`, `AssertionsHold`, `KilledForGood` |
| `IpcTaskControl` | 3 tasks, 2 endpoints, task control, destroyed tasks and kill notification around IPC (`destroy_task` with no owner is the step of `kill`) | `NoTaskLost`, `ImplementsProtocol`, and the inductive invariant `KernelInvariant` of the proofs, with a third task in between |
| `IpcFair` | 3 tasks, 1 endpoint, long messages, failing transfers, fair | `KernelSurvives`, `ReadyRuns`, `ImplementsProtocol` |
| `RpcLoop` | root, server, 3 clients, fair | `CallAnswered` |
| `CapSharing` | 2 tasks, endpoint capabilities copied, transferred, delegated, sent in messages, revoked, destroyed | `ListsLinked`, `SlotsAccounted`, `ZombieBacked`, `ObjectsDie`, `DelegationReturns`, `CapsConserved` |
| `CapMemory` | 2 tasks, memory capabilities split, delegated, revoked, destroyed | `MemoryDisjoint`, `AssertionsHold`, and the inductive invariant `SlotInvariant` of the proofs |
| `CapTasks` | 2 tasks, 3 spaces, task, id and page table capabilities, kills, inserted and extended spaces | `TypeOK`, `ObjectsDie`, `SlotsAccounted` |
| `PageTables` | 2 tasks, the 5 tables of the boot and 3 more, 2 pages, 4 entries per table, 3 levels, `~ReuseTables` | `TypeOK`, `EntriesAgree`, `CapsKept`, the inductive invariant `PageInvariant` of the proofs, `LevelsAgree`, `AccessExact`, `ForwardExact` |
| `BootMemory` | about 300 device trees, addresses below 64, fair | `BootTypeOK`, `WalkFindsTree`, `CapsExact`, `CapsFit`, `PagesMapped`, `BootEnds`, and the inductive invariant `BootInvariant` of the proofs |
| `AssertWokenIsServed` | violation | `ipc.cpp:246` fails after suspend and resume of a waiting task |
| `MemoryUnderflow` | violation | an object is created behind the end of its memory capability |
| `PagesFound` | violation | `PageTables` with `ReuseTables`: a task is created on a table with a page in it, and destroying the page fails (`cap.cpp:457`) |

Bounds. Two endpoints are needed for a task that waits at one and acts on another; three tasks for a
sender, a receiver and a third that suspends or kills one of them, and for a kill notification (killer,
victim, receiver); three clients so that two are queued while one is served. Queues are bounded by the
tasks. In `CapSpace`, `MaxCaps` bounds the capabilities in use, `MaxId` the ids, `MemSize` the memory,
`Handled` the types a run copies, passes on and destroys (each run looks at one or two types so that
chains get long: a capability, its copies and a chain of two delegations fit), and `SlotsPerSpace`
leaves the space one short of full. In `PageTables` three tables suffice to build a second address
space, or a chain of two below the root table; programs use the first two indices, and pages of the two
larger sizes besides the boot's small one. A page has two bytes, and the accessed ranges start and end
inside pages, at their ends and across pages of different sizes. In `BootMemory` a cell is an octal digit,
a page four addresses and a table four entries; memory starts at 0, at an odd address or at a page, and
the firmware's region falls inside, at the edge of, or over the reserved ones. `MemRequests` are page multiples in the passing runs: a request
that is not leads to `MemoryUnderflow`. `ReuseSpaces` is false: otherwise two tasks share slots (below). `ReuseTables` is false but in `PagesFound`.
Tasks other than the root, and endpoints, are symmetric in `IpcTaskControl`, and fresh tables and pages in `PageTables`;
`ImplementsProtocol`, a property of single steps, treats all tasks and endpoints alike. Runs with liveness properties use
no symmetry. Deadlock checking is on, since the halted and the idle machine have explicit steps, except in
`PageTables` and `PagesFound`: their calls are bounded by the objects that exist, so there is a last one.

Fairness. Nothing in the kernel takes the processor from a task, so `FairSpec` assumes that programs
are cooperative (a running task that could give up the processor eventually does: weak fairness of
`GivesUpProcessor`) and that the kernel's own steps are taken (weak fairness of `KernelStep`).
`RpcSpec` has weak fairness of its programs' steps as a whole: some step is taken as long as one is
possible. `BootSpec` has weak fairness of `BootStep`: the one hart that boots keeps running.

### Checks that fail

These assertions and panics, which `AssertionsHold` leaves out, are reached by the model, and so are some
wrong results. Those marked (run) have a run of their own; each other fault shows up when
`fault # "<name>"` (`heap.halt` in `CapSpace`) is checked as an invariant.

| Fault | Where | How it comes about | Steps |
|---|---|---|---|
| `push_waiting_queue: state` | ipc.cpp:574 | kill notification, no receiver; the branch ipc.cpp 219-221 for a queued kill event can never run | 2 |
| `woken: ipc state` | ipc.cpp:74, 246, 342 | a waiting task is suspended and resumed (run) | 9 |
| `remove_waiting_queue: state` | ipc.cpp:590 | a suspended waiter is matched | 6 |
| `ipc_receive: caller state`, `ipc_reply: caller state` | ipc.cpp:171, 268 | the caller was suspended | 7 |
| `ipc_receive: caller's endpoint`, `ipc_reply: caller's endpoint` | ipc.cpp:177, 272 | the server turns to another endpoint | 6-7 |
| `kill_task: no callee` | task.cpp:217 | a queued caller is killed | 5 |
| `push_ready_queue: ...`, `remove_ready_queue: state`, null dereference | task.cpp:326-364 | the running root task, whose state is suspended, is resumed | 3-4 |
| spin on a lock | lock.cpp:31 | a short send's receiver uses the endpoint; a self-suspended task is resumed; an operation on a task that killed itself; any call of a task whose slots a revocation was destroying when it killed its caller or sent a notification | 6 |
| `insert_after: slot` | cap_space.cpp:126 | copying a task or an endpoint with no free slot | |
| `insert_cap_space: page table` | cap_space.cpp:221 | off by one in the capacity check at 209 (`TableEntries` = 2) | |
| `create_task_object: page tables` | cap.cpp:92 | the inner `break` of create_object (`TableArgs` with `bad_inter`) | |
| `create_object: is_unused` | cap.cpp:51, 255 | two tasks created on one cap space (`ReuseSpaces`) | |
| `destroy_memory_object: tail` | cap.cpp:420 | a delegated memory capability with children is destroyed at the zombie | |
| `extend_cap_space: page table entry` | cap_space.cpp:268 | another task extends a cap space after the tables that lead to it were destroyed (`Handled` with `cap1`, four fresh tables) | 7 |
| `ipc_transfer_ipc_msg: null slot` | ipc.cpp:507, cap_space.cpp:285 | a message names an empty slot, names one slot twice, or is sent again after it stopped half way: the sender's `data_type_map` still names what has moved | |
| `destroy_virt_page_object: entry` | cap.cpp:457 | a page is put into an unmapped table of level 0, a task is created on the table, the page is destroyed (run) | 6 |
| `insert_cap_space: page table entry` | cap_space.cpp:226 | one table is given twice for the capability space of a task (`ReuseTables`) | |
| `destroy_page_table_object: entry` | cap.cpp:444 | the same as for a page, with a table (`ReuseTables`); or the page table of an extension is destroyed | 3 |
| page in a table of another level | cap.cpp:533, 645 | `LevelsAgree` without `topDown`: a page of 4 KiB is put into a table of level 0 that is not mapped, and the table is mapped one level up | 3 |
| copy behind the destination page | user_memory.cpp:107 | `ForwardExact` without `InPhase`: the destination page ends before the source page | |
| boot halts | setup.cpp:359, start.cpp:170 | program and device tree do not fit into one table | |
| boot halts | setup.cpp:164, 173, 182; cap.h:171; dtb.cpp:47 | too many regions; a device beyond the physical addresses; a parent with `#address-cells = 0` | |
| memory not handed out | setup.cpp:194 | what is connected to address 0 | |
| memory handed out twice | setup.cpp:186 | two devices in one page: the rounded regions overlap (`CapsFit` without `RegionsApart`) | |
| `make_memory_cap: address` | cap.h:171 | after the underflow, an address beyond physical memory | |

(`kill_task: root killed` is the intended panic.)

## 4. Proofs

All theorems are about every value of the constants that satisfies the named assumptions: any number of
tasks, endpoints, spaces, slots, tables, pages, levels and table entries, any device tree. TLC evaluates the assumptions on the runs.

| Theorem | Statement |
|---|---|
| `TypeCorrect`, `RendezvousHolds`, `KilledStaysKilled` (`IpcProofs`) | `TypeOK`, `Rendezvous`, `KilledForGood` |
| `KernelInvariantHolds`, `WaitQueuesHold`, `CallPairingHolds`, `LockInventoryHolds`, `AssertionsNeverFail` (`IpcInvariantProofs`) | `KernelInvariant`, `WaitQueues`, `CallPairing`, `LockInventory`, `AssertionsHold` of `Ipc` |
| `KernelImplementsProtocol` (`IpcRefinementProofs`) | `Ipc` implements `CallProtocol` |
| `NoTaskEverLost` (`IpcScheduleProofs`) | `NoTaskLost`, if the root is no target and transfers succeed |
| `SlotsStaySound`, `AssertionsAlwaysHold`, `HeapTypeCorrect`, `DelegationsBacked`, `ListsStayLinked`, `SlotsStayAccounted` (`CapSpaceProofs`) | `SlotInvariant`, `AssertionsHold`, `TypeOK`, `ZombieBacked`, `ListsLinked`, `SlotsAccounted` of `CapSpace`, if no cap space is given to two tasks |
| `PageTypesCorrect` (`PageTableProofs`) | `TypeOK` of `PageTable` |
| `PageInvariantHolds`, `EntriesAlwaysAgree`, `CapsAlwaysKept` (`PageTableProofs`) | `PageInvariant`, `EntriesAgree`, `CapsKept`, if no task is created on tables in use (`~ReuseTables`) |
| `BootInvariantHolds`, `BootTypesHold`, `PagesAreMapped` (`BootMemoryProofs`) | `BootInvariant`, `BootTypeOK`, `PagesMapped` |
| `CapsAreExact`, `CapsFitTogether` (`BootMemoryProofs`) | `CapsExact`, `CapsFit`, if no reserved region is inverted |
| `SubtractExact`, `SubtractDisjoint` (`BootMemoryProofs`) | `subtract_region` is set difference |

**`IpcProofs`.** `TypeOK` is inductive: one lemma per record operation and per effect (`HandOver`, `Take`,
`Notified`, ...), then one per group of system calls. `Rendezvous` is inductive with it: a task joins a
queue only in a branch that has seen the other queue empty (`JoinOrLeave`); every other step shortens the
queues. `KilledForGood` is about steps, and not provable from `TypeOK`: a yield makes the *current* task
ready, so one needs `CurrentAlive`. Every step keeps that, because whoever is dispatched or switched to
was ready.

**`IpcInvariantProofs`.** None of `WaitQueues`, `CallPairing` and `LockInventory` is inductive. Serving a
sender from the queue turns a queued caller into one that waits for its reply, so what the pairing says of
a caller must already be known of a *queued* one (its message is long, its event is `send`, it has no
callee), and that is said in `Queues`; a caller is never queued while it is paired (`Pairs`, `BlockedOn`),
or a cancellation of its endpoint would wake it in the middle of a call; a task that was woken finds its
event and message reset (`Served`), or its next operation would trip an assertion; a task that does not
exist yet is untouched (`Fresh`); and the current task is a live one (`Current`), or a kill would leave
locks with a task that is neither at the place where it releases them nor dead. `KernelInvariant` is
their conjunction, model-checked in `IpcTaskControl`. The proof has one lemma per effect on the state
(a sender is taken, a receiver handed a message, a queue joined, a caller canceled, a task killed, ...),
each saying what it does to each part, and one step per system call that composes them. `AssertionsHold`
follows in a second pass: for every check of every action, either its name is one that `AssertionsHold`
allows, or the invariant says it succeeds. Only `ConstantsAssumption` of `Ipc` is used.

**`IpcRefinementProofs`.** The initial state maps to the initial state of `CallProtocol`, and every action
maps to one of its steps or to a stutter, given `KernelInvariant` before and after the step. Lemmas say when
the mapped operation of a task is unchanged (its continuation, queue membership, IPC state, callee and
message are) and what it becomes when the task blocks, is served, answered, woken or killed. The server of
the abstract protocol is the task whose `caller` field names the client; `Pairs` makes it unique.

**`IpcScheduleProofs`.** `NoTaskLost` needs two more facts than the invariant: a ready task is in the ready
queue exactly once and nothing else is in it, and a waiting task is queued or has a callee (`Found`). Two
hypotheses, both about what the code does and not about the proof. `Root \notin Targets`: the root task
boots in state `suspended` while it runs, so resuming it queues a running task. `~TransferMayFail`: a failed
transfer in `ipc_call` leaves the running task marked as waiting, and one in `ipc_receive` leaves the sender
in no queue. Both are listed in section 3 as checks that fail; the run makes the same two choices.

**`PageTableProofs`.** `TypeOK` needs arithmetic only: levels stay in range because a table of level 0
takes no tables, indices because `get_page_table_index` is a remainder. `EntriesAgree` and `CapsKept` depend
on each other. That an entry leads to the object whose capability names it breaks where tables have no
recorded parent (the tables of a capability space, and extensions), so one needs that programs never write
there; and that nobody cuts a capability space off depends on what a destructor finds at the entry its
capability names. `PageInvariant` therefore says

* `Agreement`: in a table that is not *shielded* (destroyed, or with an address of the kernel's), an entry
  leads to a table or page whose capability names that entry; pages are reached by one entry only, anywhere;
  tables that are or were mapped have aligned addresses, without which the index computed back from the
  address would be another; a kernel entry of a reachable table is in a root table and behind the user's;
* `Spines`: the tables that lead to the capability space of a task (its spine) are shielded below the root
  table, are in no other task's spine, are not the child of another table as far as their capabilities know
  (the root task's excepted), and lead to the space unless the root task has destroyed its own.

For each call there is a lemma that it keeps `Agreement` (all but the creation of a task through
`AgreeLink`, one entry and its capability are linked, or `AgreeUnlink`, a capability gives up its entry) and one that it keeps
`Spines` (through `SpinesKept`: no call writes a spine's entry, but to disable one that leads to a page or
to a destroyed table of the root task's). The walk is a recursive function, so its defining equation is proved first
(`Iterates`, `WalkSteps`), and so is that of `PageSizes`. Assumptions: `PageTableAssumption`;
`BootAssumption`, that the tables set up at boot are different pages; `SpaceAssumption`, that the
capability space starts at a boundary of the largest page inside the address space, which
`declare_arch.cmake` sets up. The hypothesis of all three theorems but `PageTypesCorrect` is `~ReuseTables`: without it
`Agreement` fails as in the run `PagesFound`. It is used where a task is created (`UnusedTables`).

**`CapSpaceProofs`.** None of `ListsLinked`, `SlotsAccounted` and `ZombieBacked` is inductive, and
`AssertionsHold` depends on all three. That a slot is not lost needs to be said of one list at a time: one
pair of links serves derivation lists and free lists, so `erase_this` on a capability must be known not to
touch a free list (`Unmixed`: a list holds capabilities, or free slots of one task), `push_free_slots` and
`pop_free_slots` must start at the one head of it (`FreeHeads`, `NoOtherHead`), and the count is the
cardinality of a set, not the length of a walk (`Counted`). A zombie is backed because the slot behind it is
there (`ZombiesLead`) and its list ends (`Ends`). Who owns a slot is what its space says, so a space must be
mapped by its owner and by nobody else (`SpacesOwned`). `SlotInvariant` is the conjunction of these.

A system call composes functions of the code, each of which keeps the invariant but for the slots it has
taken out and not yet put back: the first slot of a task, a slot popped from a free list that gets its
capability later, the rest of a space whose slots are pushed one by one. `Sound(h, K)` and `Whole(h, K)` say
that `h` is sound except for a set `K` of unused slots that are kept back, and there is one lemma per function of
`cap_space.cpp`, `task.cpp` and `cap.cpp` that says how it changes `K`; each system call is then a chain of
them. That a list has no cycle is carried through as "no set of slots is closed under `next`", because links
change in the middle of lists while walks are defined from an end; `Ends` follows by taking the slots of a
walk, and back. The three loops (`PushSlots`, `DestroySlots`, `FreeSlots`) and the walk itself are recursive
functions: their defining equations are proved first (`Iterates`), and an invariant of a loop by looking at
the first round that would break it (`LeastOf`). For revoking a memory capability the invariant is that
what is still to be destroyed is the end of the list; for revoking a zombie, that everything behind it up to
its capability is of the same list, wherever its slots are. `RevokeMemory` takes the slots from the tail, and the
proof needs that: from the head, the assertion of `destroy_cap_slot` fails (the mutant of
`AssertionsHold`).

The hypothesis of all six is `~ReuseSpaces`: creating two tasks on one cap space gives one set of
slots to two free lists, which the code does not refuse (section 3, `create_object: is_unused`). Of the
constants they use `CapAssumption`: a space has at least four slots (the boot fills the first ones), and there are
finitely many spaces.

**`BootMemoryProofs`.** `CapsExact` speaks of the end of the boot, and the loops before it are three deep: the
regions, the recursion of `insert_memory_region_caps` over the reserved regions, the cutting into blocks.
`BootInvariant` says of every step in between

* `Exact`: an address has been handed out, is in the region being cut up, or is in a call still to be made and
  in none of the reserved regions this call has yet to subtract, exactly if it is in one of the regions taken
  so far and nothing keeps it back. That a region is cut out of pieces, and the pieces again, is
  `SubtractExact` at every level; what starts at address 0 is lost when its call is made, so `AtZero` has to
  come out of the call;
* `Aligned`: the block size divides the address at which a region is being cut up. The first loop doubles the
  size only where the quotient is even, or has just become even; the second only halves it;
* `Separate`, for `CapsFit`: what was handed out, what is being cut up, the calls still to be made and the
  regions not yet taken are pairwise apart. A step replaces one of them by parts of it (`PartsOf`), and what is
  apart from the whole is apart from the parts;
* `Mapping`: the pages mapped so far are at their places, so a page behind the end of the table wraps around
  onto one that is there already, and the boot stops;
* `TokensRead`, `BootTypes` and `Phases`: what tokens, regions, calls and blocks are, and what each phase
  finds. `Number`, `PropsFrom` and `BlockSizes` are recursive functions, so their defining equations are
  proved first (`Iterates`).

`Upright`, the hypothesis of two theorems, is about the machine: a reserved region does not end in front of
its start. The end of a region is computed modulo the word, so a device tree with a region beyond the last
address would have one, and `subtract_region` would then return two overlapping pieces. The alignment of the
blocks and the other theorems hold without it. Assumptions: `TreesAssumption` and `BootAssumption`, which has
room for the three regions of the kernel itself and a stack of at most a table.

Model-checked only, and why:

* liveness (`ReadyRuns`, `CallAnswered`, `BootEnds`) and `KernelSurvives`, which is about one choice of
  system calls in one program;
* `LevelsAgree`, `AccessExact` and `ForwardExact`, about the programs of `UserMemory` that map from the root
  down. The last two say what its recursive functions compute for every length;
* `ObjectsDie`, `MemoryDisjoint`, `DelegationReturns` and `CapsConserved` of `CapSpace`: they say which
  objects the capabilities of a list name, and how often, where `SlotInvariant` says how the slots are
  linked. `ObjectsDie` would need that the capabilities for one object are neighbours, `MemoryDisjoint` that
  the list behind a memory capability is a tree of the regions carved from it;
* `WalkFindsTree`: induction over the device tree, which the abstract side of the property is defined by.

## 5. Not modelled, and the plan

Not modelled, and why:

* several harts and the atomic instructions of the locks: the code starts one hart;
* registers, exit status and the getters: they copy values no other operation looks at;
* the contents of pages (that mapping clears a page), the access flags of pages and the device flag of
  memory: no operation of the kernel but the getters and the hardware depends on them, except that device
  memory refuses most objects;
* malformed device trees other than truncated ones, property types other than `reg` and the cell counts;
* firmware calls, logging, dump and libc; `lookup_tid` and signals, which nothing calls;
* `Ipc` and `CapSpace` as one specification: their product is out of TLC's reach at sizes where either is
  interesting. They share `destroy_endpoint_object`, `kill_task` and message transfer, and each models its side:
  `CapSpace.KillTask` leaves out the kill notification and the switch it makes in the middle of a destruction,
  `Ipc.Kill` leaves out the slots, and `Ipc.Cancel` destroys an endpoint with no owner's lock held;
* at boot, the bound of the array `root_boot_info->caps`, which the code does not check, and the slots of the page table
  capabilities that `map_root_task` makes, which are not counted against `MaxCaps`;
* a `reg` property whose length is not a whole number of cells: the model rounds it down, the code reads on.

Also outside the passing runs, because the code leaves it to the programs and breaks otherwise: a task created
on tables in use (`ReuseTables`) and on a cap space in use (`ReuseSpaces`).

What would come next: on top of `SlotInvariant`, that the capabilities for one object are neighbours in one
list (`ObjectsDie`), that revoking a zombie keeps what all other zombies stand for (`DelegationReturns`),
and the tree of regions behind a memory capability (`MemoryDisjoint`).
