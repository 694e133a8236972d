------------------------------ MODULE CapSpace ------------------------------
(***************************************************************************)
(* The capability slots of the caprese microkernel: the derivation lists   *)
(* that thread them (src/kernel/cap_space.cpp), the free list of every     *)
(* task (src/kernel/task.cpp), the objects carved out of memory            *)
(* capabilities (src/kernel/cap.cpp) and the system calls that create,     *)
(* copy, transfer, delegate, revoke and destroy capabilities.              *)
(*                                                                         *)
(* A cap_slot_t is <<space, index>>; its prev and next links serve both    *)
(* the derivation list of the capability in it and, while it holds none,   *)
(* the free list of the task that owns the space.  The kernel's memory is  *)
(* one record, heap; the functions of the code are operators from heaps to *)
(* heaps.  A failed assertion, a panic or a spin on a lock that is never   *)
(* released sets heap.halt, and the machine stops with that fault.         *)
(*                                                                         *)
(* Scheduling is left to Ipc.tla: any task that is not suspended or killed *)
(* may make the next system call (the root task even while suspended: it   *)
(* boots in that state, and runs).  A system call runs to its end in one   *)
(* step, unless it kills the task that makes it.                           *)
(***************************************************************************)
EXTENDS Integers, FiniteSets, Sequences, SequencesExt

CONSTANTS
  Tasks, Root,       \* the pages that hold or will hold a task_t; the root task
  Spaces, RootSpace, \* the pages that hold or will hold a cap_space_t
  SlotsPerSpace,     \* std::size(cap_space_t::slots)
  TableEntries,      \* NUM_PAGE_TABLE_ENTRY
  MemBase, MemSize,  \* the memory capability the root task boots with
  MaxPhys,           \* CONFIG_MAX_PHYSICAL_ADDRESS
  WordSize,          \* 2^64: addresses are computed modulo this
  MemRequests,       \* the <<size, alignment>> pairs user programs ask for
  TableArgs,         \* the page tables they pass to a task creation
  ReuseSpaces,       \* do they give one cap space to two tasks?
  MaxId, MaxCaps,    \* bounds on the ids created and the capabilities in use
  Syscalls,          \* the system calls they make
  Handled,           \* the types of capability they copy, pass on, revoke or destroy
  Nil                \* a null map_ptr

CapType ==
  {"null", "mem", "task", "endpoint", "page_table", "cap_space", "id", "zombie"}

Slots == Spaces \X (0..SlotsPerSpace - 1)

ASSUME CapAssumption ==
  /\ Root \in Tasks /\ RootSpace \in Spaces /\ IsFiniteSet(Spaces)
  /\ SlotsPerSpace \in Nat /\ SlotsPerSpace > 3
  /\ TableEntries \in Nat \ {0}
  /\ {MemBase, MemSize, MaxPhys, WordSize, MaxId, MaxCaps} \subseteq Nat /\ WordSize > 0
  /\ MemRequests \subseteq Nat \X Nat
  /\ TableArgs \subseteq {"valid", "bad_root", "bad_inter"}
  /\ ReuseSpaces \in BOOLEAN
  /\ Handled \subseteq CapType
  /\ Nil \notin Tasks \cup Spaces \cup Slots

VARIABLES heap, fault

vars == <<heap, fault>>

NoFault == "none"
Hang == "spins on a lock forever"
SelfKill == "the calling task killed itself"

-----------------------------------------------------------------------------
(* Capabilities.  obj is the task, the cap space or the id; flag is used   *)
(* (cap space) or mapped with a parent table (page table).                 *)

MakeCap(type, obj, base, size) ==
  [type |-> type, obj |-> obj, base |-> base, size |-> size, used |-> 0, flag |-> FALSE]

NullCap == MakeCap("null", Nil, 0, 0)
ZombieCap == MakeCap("zombie", Nil, 0, 0)

IsEmpty(c) == c.type = "null"
IsZombie(c) == c.type = "zombie"

Copyable == {"task", "endpoint", "id"}

(* get_cap_size: an endpoint takes one unit of memory, a page two.         *)
ObjectSize(type) == IF type = "endpoint" THEN 1 ELSE 2

CapAt(h, s) == IF s = Nil THEN NullCap ELSE h.cap[s]

OwnerOf(h, s) == h.owner[s[1]]

SpacesOf(h, t) == Range(h.spaces[t])

(* lookup_cap: the slots a task can name, less the empty ones.             *)
Lookup(h, t) == {s \in Slots : s[1] \in SpacesOf(h, t) /\ ~IsEmpty(h.cap[s])}

LookupType(h, t, type) == {s \in Lookup(h, t) : h.cap[s].type = type}

-----------------------------------------------------------------------------
(* Halting.  The first failed check sticks.                                *)

Require(h, ok, why) == IF h.halt = NoFault /\ ~ok THEN [h EXCEPT !.halt = why] ELSE h

(* recursive_spinlock_t::lock.  A task that killed itself inside the       *)
(* kernel never releases the locks it held.                                *)
Lock(h, t) == Require(h, t \notin h.stuck, Hang)

(* Go on with h unless it halted.                                          *)
Then(h, Op(_)) == IF h.halt = NoFault THEN Op(h) ELSE h

-----------------------------------------------------------------------------
(* cap_slot_t: the linked list.                                            *)

(* The slots from s to the tail of its list.                               *)
Chain(h, s) ==
  LET most == Cardinality(Slots)
      walk[n \in 0..most] ==
        IF n = 0 THEN <<s>>
        ELSE LET q == walk[n - 1]
             IN  IF h.next[Last(q)] = Nil THEN q ELSE Append(q, h.next[Last(q)])
  IN  walk[most]

IsHead(h, s) == h.prev[s] = Nil
IsTail(h, s) == h.next[s] = Nil
IsIsolated(h, s) == IsHead(h, s) /\ IsTail(h, s)
IsUnused(h, s) == IsEmpty(h.cap[s]) /\ IsIsolated(h, s)

(* Mutated form of EraseThis: the next slot keeps its link to s.           *)
EraseForwardOnly(h, s) ==
  [Lock(h, OwnerOf(h, s)) EXCEPT
     !.next = [u \in Slots |-> IF u = s THEN Nil ELSE IF u = h.prev[s] THEN h.next[s] ELSE @[u]],
     !.prev = [u \in Slots |-> IF u = s THEN Nil ELSE @[u]]]

EraseThis(h, s) ==
  [Lock(h, OwnerOf(h, s)) EXCEPT
     !.next = [u \in Slots |-> IF u = s THEN Nil ELSE IF u = h.prev[s] THEN h.next[s] ELSE @[u]],
     !.prev = [u \in Slots |-> IF u = s THEN Nil ELSE IF u = h.next[s] THEN h.prev[s] ELSE @[u]]]

InsertBefore(h, this, s) ==
  [Lock(Require(h, IsIsolated(h, s), "insert_before: isolated"), OwnerOf(h, s)) EXCEPT
     !.next = [u \in Slots |-> IF u = s THEN this ELSE IF u = h.prev[this] THEN s ELSE @[u]],
     !.prev = [u \in Slots |-> IF u = s THEN h.prev[this] ELSE IF u = this THEN s ELSE @[u]]]

(* insert_after links the list that s heads behind this.                   *)
InsertAfter(h, this, s) ==
  LET tail == Last(Chain(h, s))
  IN  [Lock(Require(h, IsHead(h, s), "insert_after: head"), OwnerOf(h, s)) EXCEPT
         !.next = [u \in Slots |-> IF u = this THEN s
                                   ELSE IF u = tail /\ h.next[this] # Nil THEN h.next[this]
                                   ELSE @[u]],
         !.prev = [u \in Slots |-> IF u = s THEN this
                                   ELSE IF u = h.next[this] THEN tail
                                   ELSE @[u]]]

(* this takes the place of s.                                              *)
Replace(h, this, s) ==
  [Lock(Require(h, IsIsolated(h, this), "replace: isolated"), OwnerOf(h, s)) EXCEPT
     !.next = [u \in Slots |-> IF u = s THEN Nil
                               ELSE IF u = this THEN h.next[s]
                               ELSE IF u = h.prev[s] THEN this ELSE @[u]],
     !.prev = [u \in Slots |-> IF u = s THEN Nil
                               ELSE IF u = this THEN h.prev[s]
                               ELSE IF u = h.next[s] THEN this ELSE @[u]]]

-----------------------------------------------------------------------------
(* task.cpp: the free slots of a task.                                     *)

(* Mutated form of PushFreeSlots: the slot is not counted.                 *)
PushFreeSlotsUncounted(h, t, s) ==
  LET erased == [EraseThis(h, s) EXCEPT !.cap[s] = NullCap]
      linked == IF h.free[t] = Nil THEN erased ELSE InsertBefore(erased, h.free[t], s)
  IN  [linked EXCEPT !.free[t] = s]

PushFreeSlots(h, t, s) ==
  LET owned == Require(h, OwnerOf(h, s) = t, "push_free_slots: owner")
      erased == [EraseThis(Lock(owned, t), s) EXCEPT !.cap[s] = NullCap]
      linked == IF h.free[t] = Nil THEN erased ELSE InsertBefore(erased, h.free[t], s)
  IN  [linked EXCEPT !.free[t] = s, !.count[t] = @ + 1]

Free(h, s) == PushFreeSlots(h, OwnerOf(h, s), s)

(* pop_free_slots of a list that is not empty; erase_this returns the next *)
(* slot, or else the previous one.                                         *)
PopFreeSlots(h, t) ==
  LET s == h.free[t]
  IN  [EraseThis(Lock(h, t), s) EXCEPT
         !.free[t] = IF h.next[s] # Nil THEN h.next[s] ELSE h.prev[s],
         !.count[t] = @ - 1]

(* insert_cap, into the slot at the head of the free list; it fails on a   *)
(* task that is unused or killed or has no free slot.                      *)
CanInsertCap(h, t) == h.state[t] \notin {"unused", "killed"} /\ h.free[t] # Nil

InsertCap(h, t, c) == [PopFreeSlots(h, t) EXCEPT !.cap[h.free[t]] = c]

-----------------------------------------------------------------------------
(* cap_space.cpp: insert_cap_space, extend_cap_space; task.cpp: init_task  *)

CanInsertCapSpace(h, t) == ~(Len(h.spaces[t]) \div TableEntries > h.ext[t])

(* The slots of a new space that are kept back: the very first slot of a   *)
(* task.  Mutated form: the first slot of every space.                     *)
ReservedAlways(h, t) == 1

Reserved(h, t) == IF h.spaces[t] = <<>> THEN 1 ELSE 0

(* The heap after each round of the loop that frees slots of p, the last   *)
(* one first.                                                              *)
PushSlots(h, t, p) ==
  LET after[n \in 0..SlotsPerSpace] ==
        IF n = 0 THEN h ELSE PushFreeSlots(after[n - 1], t, <<p, SlotsPerSpace - n>>)
  IN  after

(* insert_cap_space: the slots of p that are not kept back become free.    *)
InsertCapSpace(h, t, p) ==
  LET first == Reserved(h, t)
      mapped == Require(Lock(h, t), Len(h.spaces[t]) < h.ext[t] * TableEntries,
                        "insert_cap_space: page table")
      cleared == IF first = 1
                 THEN [mapped EXCEPT !.cap[<<p, 0>>] = NullCap,
                                     !.prev[<<p, 0>>] = Nil, !.next[<<p, 0>>] = Nil]
                 ELSE mapped
      owned == [cleared EXCEPT !.owner[p] = t]
  IN  [PushSlots(owned, t, p)[SlotsPerSpace - first] EXCEPT !.spaces[t] = Append(@, p)]

CanExtendCapSpace(h, t) == h.ext[t] # TableEntries - 1

ExtendCapSpace(h, t) == [Lock(h, t) EXCEPT !.ext[t] = @ + 1]

(* A new task is suspended and has one extension and one cap space.        *)
InitTask(h, t, p) ==
  InsertCapSpace([h EXCEPT !.state[t] = "suspended", !.free[t] = Nil, !.count[t] = 0,
                           !.spaces[t] = <<>>, !.ext[t] = 1], t, p)

-----------------------------------------------------------------------------
(* cap.cpp: is_same_object, destroy_*_object; task.cpp: kill_task          *)

(* The capability a zombie stands for.                                     *)
Resolve(h, s) ==
  LET chain == Chain(h, s)
      live == {i \in 1..Len(chain) : ~IsZombie(h.cap[chain[i]])}
  IN  IF live = {} THEN Nil ELSE chain[Min(live)]

SameObject(c, d) ==
  /\ c.type = d.type
  /\ c.type \in Copyable
  /\ <<c.obj, c.base>> = <<d.obj, d.base>>

(* Mutated form of IsSameObject: zombies are not resolved.                 *)
IsSameObjectUnresolved(h, a, b) == a = b \/ SameObject(h.cap[a], h.cap[b])

IsSameObject(h, a, b) ==
  LET x == Resolve(h, a)
      y == Resolve(h, b)
  IN  x = y \/ SameObject(CapAt(h, x), CapAt(h, y))

(* kill_task by the task me, which holds the locks of the tasks in held.   *)
KillTask(h, me, v, held) ==
  LET killed == [Lock(h, v) EXCEPT !.state[v] = "killed"]
      alive == Require(killed, v # Root, "kill_task: root killed")
  IN  IF v = me /\ alive.halt = NoFault
      THEN [alive EXCEPT !.stuck = @ \cup held \cup {v}, !.halt = SelfKill]
      ELSE alive

(* Mutated form of DestroyObject: a task outlives its capabilities.        *)
DestroyObjectKeepsTask(h, me, s, held) ==
  IF h.cap[s].type = "endpoint" THEN [h EXCEPT !.canceled = @ \cup {h.cap[s].base}] ELSE h

(* The page table of an extension records itself as its parent, so that    *)
(* the assertions of destroy_page_table_object cannot hold for it.         *)
DestroyObject(h, me, s, held) ==
  LET c == h.cap[s]
      last == Require(h, IsTail(h, s) \/ ~IsSameObject(h, s, h.next[s]),
                      "destroy_object: copies left")
  IN  CASE c.type = "mem" -> Require(h, IsTail(h, s), "destroy_memory_object: tail")
        [] c.type = "task" -> KillTask(last, me, c.obj, held)
        [] c.type = "endpoint" -> [last EXCEPT !.canceled = @ \cup {c.base}]
        [] c.type = "page_table" -> Require(last, ~c.flag, "destroy_page_table_object: pte")
        [] c.type \in {"cap_space", "id"} -> last
        [] OTHER -> Require(h, FALSE, "destroy_object: cap type")

-----------------------------------------------------------------------------
(* cap_space.cpp: destroy_cap_slot, revoke_cap, destroy_cap                *)

DestroyCapSlot(h, me, s, held) ==
  LET t == OwnerOf(h, s)
      p == h.prev[s]
      tail == Lock(Require(h, IsTail(h, s), "destroy_cap_slot: tail"), t)
      freed(x) == Free(EraseThis(x, s), s)
  IN  CASE p # Nil /\ IsZombie(CapAt(h, p)) -> freed([tail EXCEPT !.cap[p] = h.cap[s]])
        [] p # Nil /\ ~IsZombie(CapAt(h, p)) /\ IsSameObject(h, p, s) -> freed(tail)
        [] OTHER -> Then(DestroyObject(tail, me, s, held \cup {t}), freed)

(* The loops of revoke_cap: the heap after each round.                     *)
DestroySlots(h, me, slots, held) ==
  LET after[n \in 0..Len(slots)] ==
        IF n = 0 THEN h
        ELSE Then(after[n - 1], LAMBDA x : DestroyCapSlot(x, me, slots[n], held))
  IN  after

FreeSlots(h, slots) ==
  LET after[n \in 0..Len(slots)] ==
        IF n = 0 THEN h ELSE Free(EraseThis(after[n - 1], slots[n]), slots[n])
  IN  after

(* Mutated form of RevokeMemory: the list is destroyed from its head.      *)
RevokeMemoryForward(h, me, s) ==
  LET behind == Tail(Chain(h, s))
  IN  DestroySlots(Lock(h, OwnerOf(h, s)), me, behind, {OwnerOf(h, s)})[Len(behind)]

(* A memory capability: everything behind it, from the tail, is destroyed. *)
RevokeMemory(h, me, s) ==
  LET behind == Reverse(Tail(Chain(h, s)))
  IN  DestroySlots(Lock(h, OwnerOf(h, s)), me, behind, {OwnerOf(h, s)})[Len(behind)]

(* Mutated form of RevokeZombie: the whole tail of the list is taken back. *)
RevokeZombieToTail(h, s) ==
  LET behind == Reverse(Tail(Chain(h, s)))
  IN  [FreeSlots(Lock(h, OwnerOf(h, s)), behind)[Len(behind)]
         EXCEPT !.cap[s] = h.cap[Head(behind)]]

(* A zombie: the capability comes back from the last delegate, and the     *)
(* slots in between are freed.                                             *)
RevokeZombie(h, s) ==
  LET chain == Chain(h, s)
      live == Resolve(h, s)
      delegates == Reverse(SubSeq(chain, 2, CHOOSE i \in 1..Len(chain) : chain[i] = live))
      freed == FreeSlots(Lock(h, OwnerOf(h, s)), delegates)[Len(delegates)]
  IN  IF live = Nil THEN Require(h, FALSE, "revoke_cap: null dereference")
      ELSE [freed EXCEPT !.cap[s] = h.cap[live]]

(* revoke_cap; other types are refused.                                    *)
Revoke(h, me, s) ==
  IF IsZombie(h.cap[s]) THEN RevokeZombie(h, s) ELSE RevokeMemory(h, me, s)

Revocable == {"mem", "zombie"}

(* Mutated form of DestroyRevoked: a delegate is freed like a copy.        *)
DestroyRevokedLeavesZombie(h, me, s) ==
  LET same(u) == u # Nil /\ IsSameObject(h, u, s)
  IN  IF same(h.prev[s]) \/ same(h.next[s]) THEN Free(EraseThis(h, s), s)
      ELSE Then(DestroyObject(h, me, s, {}), LAMBDA x : Free(x, s))

(* Mutated form: the slot of a copy is cleared and never given back.       *)
DestroyRevokedLeaksSlot(h, me, s) ==
  LET same(u) == u # Nil /\ IsSameObject(h, u, s)
  IN  IF same(h.prev[s]) \/ same(h.next[s])
      THEN [EraseThis(h, s) EXCEPT !.cap[s] = NullCap]
      ELSE Then(DestroyObject(h, me, s, {}), LAMBDA x : Free(x, s))

(* The rest of destroy_cap, once what hangs on s has been revoked.         *)
DestroyRevoked(h, me, s) ==
  LET p == h.prev[s]
      n == h.next[s]
      same(u) == u # Nil /\ IsSameObject(h, u, s)
  IN  CASE ~same(p) /\ ~same(n) -> Then(DestroyObject(h, me, s, {}), LAMBDA x : Free(x, s))
        [] (same(p) \/ same(n)) /\ IsZombie(CapAt(h, p)) ->
             Then(Require(h, same(p), "destroy_cap: same object"), LAMBDA x : RevokeZombie(x, p))
        [] OTHER -> Free(EraseThis(h, s), s)

Destroy(h, me, s) ==
  Then(IF h.cap[s].type \in Revocable THEN Revoke(h, me, s) ELSE h,
       LAMBDA x : DestroyRevoked(x, me, s))

-----------------------------------------------------------------------------
(* cap.cpp: create_object and its create_*_object                          *)

(* round_up on words.                                                      *)
RoundUp(v, align) ==
  IF align = 0 THEN v ELSE ((((v + align - 1) % WordSize) \div align) * align) % WordSize

BaseFor(c, align) == RoundUp((c.base + c.used) % WordSize, align)

(* What is left behind base, computed with words.                          *)
Remaining(c, base) == (c.base + c.size - base) % WordSize

Fits(c, size, align) == size > 0 /\ Remaining(c, BaseFor(c, align)) >= size

(* The memory capability once the object at base is carved out.            *)

(* Mutated form of Carved: the padding in front of the object is lost.     *)
CarvedUnpadded(c, base, size) == [c EXCEPT !.used = (@ + size) % WordSize]

Carved(c, base, size) == [c EXCEPT !.used = (base + size - c.base) % WordSize]

(* create_memory_object into the slot at the head of me's free list; the   *)
(* capability made there is then replaced by the one of the object.        *)
CreateMemoryObject(h, me, m, size, align, type, obj) ==
  LET c == h.cap[m]
      base == BaseFor(c, align)
      dst == h.free[me]
      popped == PopFreeSlots(h, me)
      unused == Require(popped, IsUnused(popped, dst), "create_object: is_unused")
      valid == Require(unused, base < MaxPhys /\ size < MaxPhys, "make_memory_cap: address")
  IN  InsertAfter([valid EXCEPT !.cap[dst] = MakeCap(type, obj, base, size),
                                !.cap[m] = Carved(c, base, size)], m, dst)

(* create_task_object: the capability of the space is neither checked nor  *)
(* marked.                                                                 *)
CreateTaskObject(h, me, m, sp, t) ==
  InitTask(CreateMemoryObject(h, me, m, ObjectSize("task"), ObjectSize("task"), "task", t),
           t, h.cap[sp].obj)

-----------------------------------------------------------------------------
(* cap_space.cpp: transfer_cap, delegate_cap, copy_cap                     *)

Transfer(h, v, s) ==
  Free(Replace(InsertCap(Lock(h, v), v, h.cap[s]), h.free[v], s), s)

Delegate(h, v, s) ==
  InsertAfter([InsertCap(Lock(h, v), v, h.cap[s]) EXCEPT !.cap[s] = ZombieCap], s, h.free[v])

(* A copy of a task or an endpoint joins the list; insert_cap's failure is *)
(* only noticed for an id.                                                 *)
Copy(h, t, s) ==
  LET c == h.cap[s]
  IN  CASE c.type \in {"task", "endpoint"} ->
             IF CanInsertCap(h, t) THEN InsertAfter(InsertCap(h, t, c), s, h.free[t])
             ELSE Require(h, FALSE, "insert_after: slot")
        [] c.type = "id" -> IF CanInsertCap(h, t) THEN InsertCap(h, t, c) ELSE h
        [] OTHER -> h

-----------------------------------------------------------------------------
(* The system calls.  h is the heap the call leaves; a call that kills its *)
(* own task leaves what it did so far.                                     *)

MayRun(t) == heap.state[t] = "active" \/ t = Root

Calls(t, c) == fault = NoFault /\ MayRun(t) /\ c \in Syscalls

BelowMaxCaps == Cardinality({s \in Slots : ~IsEmpty(heap.cap[s])}) < MaxCaps

LookupHandled(t) == UNION {LookupType(heap, t, type) : type \in Handled}

(* Every system call looks capabilities up under the caller's lock.        *)
Entered(t) == Lock(heap, t)

Commit(h) ==
  IF h.halt \in {NoFault, SelfKill}
  THEN heap' = [h EXCEPT !.halt = NoFault] /\ fault' = NoFault
  ELSE heap' = heap /\ fault' = h.halt

(* The error path of create_object: the slot goes back to the free list.   *)
GiveBack(h, t) == PushFreeSlots(PopFreeSlots(h, t), t, h.free[t])

(* sys_mem_cap_create_object on the memory capability in m.                *)
Create(t, m, size, align, type, obj) ==
  /\ heap.free[t] # Nil
  /\ BelowMaxCaps
  /\ Commit(IF Fits(heap.cap[m], size, align)
            THEN CreateMemoryObject(Entered(t), t, m, size, align, type, obj)
            ELSE GiveBack(Entered(t), t))

CreateMem(t, m) ==
  /\ Calls(t, "create_mem")
  /\ \E r \in MemRequests : Create(t, m, r[1], r[2], "mem", Nil)

CreateOf(type, t, m, obj) ==
  /\ Calls(t, "create_" \o type)
  /\ Create(t, m, ObjectSize(type), ObjectSize(type), type, obj)

FreshSpaces ==
  {p \in Spaces : heap.owner[p] = Nil /\ \A s \in Slots : heap.cap[s].obj # p}

CreateCapSpace(t, m) ==
  /\ FreshSpaces # {}
  /\ CreateOf("cap_space", t, m, CHOOSE p \in FreshSpaces : TRUE)

(* A space that a task already has is given to another only if user        *)
(* programs do so.                                                         *)
MayGive(p) == heap.owner[p] = Nil \/ ReuseSpaces

(* The loop over the inner page tables leaves only itself on an error, and *)
(* create_task_object asserts that they are valid.                         *)
CreateTask(t, m, sp) ==
  LET fresh == {v \in Tasks : heap.state[v] = "unused"}
      new == CHOOSE v \in fresh : TRUE
      size == ObjectSize("task")
  IN  /\ Calls(t, "create_task")
      /\ heap.free[t] # Nil
      /\ fresh # {}
      /\ MayGive(heap.cap[sp].obj)
      /\ \E tables \in TableArgs :
           Commit(CASE tables = "bad_root" -> GiveBack(Entered(t), t)
                    [] tables = "bad_inter" ->
                         Require(Entered(t), FALSE, "create_task_object: page tables")
                    [] tables = "valid" /\ Fits(heap.cap[m], size, size) ->
                         CreateTaskObject(Entered(t), t, m, sp, new)
                    [] OTHER -> GiveBack(Entered(t), t))

(* sys_id_cap_create                                                       *)
CreateId(t) ==
  LET dst == heap.free[t]
      popped == PopFreeSlots(Entered(t), t)
      unused == Require(popped, IsUnused(popped, dst), "create_object: is_unused")
  IN  /\ Calls(t, "create_id")
      /\ dst # Nil
      /\ heap.nextId < MaxId
      /\ Commit([unused EXCEPT !.cap[dst] = MakeCap("id", heap.nextId, 0, 0),
                               !.nextId = @ + 1])

CopyCap(t, s) ==
  /\ Calls(t, "copy")
  /\ BelowMaxCaps
  /\ Commit(Copy(Entered(t), OwnerOf(heap, s), s))

RevokeCap(t, s) ==
  /\ Calls(t, "revoke")
  /\ heap.cap[s].type \in Revocable
  /\ Commit(Then(Entered(t), LAMBDA x : Revoke(x, t, s)))

DestroyCap(t, s) ==
  /\ Calls(t, "destroy")
  /\ Commit(Then(Entered(t), LAMBDA x : Destroy(x, t, s)))

(* When transfer_cap and delegate_cap do not refuse.                       *)
CanPass(h, v, s) ==
  /\ ~IsZombie(h.cap[s])
  /\ h.state[OwnerOf(h, s)] \notin {"unused", "killed"}
  /\ CanInsertCap(h, v)

(* sys_task_cap_transfer_cap and sys_task_cap_delegate_cap hand the        *)
(* capability in s to the suspended task v.                                *)
CanHandOver(v, s) == heap.state[v] = "suspended" /\ CanPass(heap, v, s)

TransferCap(t, v, s) ==
  Calls(t, "transfer") /\ CanHandOver(v, s) /\ Commit(Transfer(Entered(t), v, s))

DelegateCap(t, v, s) ==
  /\ Calls(t, "delegate")
  /\ BelowMaxCaps
  /\ CanHandOver(v, s)
  /\ Commit(Delegate(Entered(t), v, s))

(* Mutated form of PassItem: a delegated capability stays with the sender. *)
PassItemKeeps(h, v, item) ==
  LET s == item.slot
  IN  IF IsEmpty(h.cap[s]) THEN Require(h, FALSE, "ipc_transfer_ipc_msg: null slot")
      ELSE IF item.delegate THEN InsertAfter(InsertCap(h, v, h.cap[s]), s, h.free[v])
      ELSE Transfer(h, v, s)

(* ipc.cpp: ipc_transfer_ipc_msg.  Neither function it calls gets past the *)
(* null slot that lookup_cap returns for an empty one.                     *)
PassItem(h, v, item) ==
  LET s == item.slot
  IN  IF IsEmpty(h.cap[s]) THEN Require(h, FALSE, "ipc_transfer_ipc_msg: null slot")
      ELSE IF item.delegate THEN Delegate(h, v, s) ELSE Transfer(h, v, s)

(* The first capability that is refused ends the message; those before it  *)
(* have been passed on.                                                    *)
PassNext(m, v, item) ==
  IF ~m.going \/ m.heap.halt # NoFault THEN m
  ELSE IF IsEmpty(m.heap.cap[item.slot]) \/ CanPass(m.heap, v, item.slot)
       THEN [m EXCEPT !.heap = PassItem(@, v, item)]
       ELSE [m EXCEPT !.going = FALSE]

(* A message of at most two capabilities from t to v.  One of them runs    *)
(* and the other waits at the endpoint, or for the reply (Ipc.tla).  The   *)
(* failure of an access to the buffers ends it like a shorter message.     *)
Items(t) == [slot : LookupHandled(t), delegate : BOOLEAN]

Message(t, v) ==
  /\ Calls(t, "message")
  /\ v # t /\ MayRun(v)
  /\ BelowMaxCaps
  /\ \E first \in Items(t) :
       LET one == PassNext([heap |-> Lock(Entered(t), v), going |-> TRUE], v, first)
       IN  \/ Commit(one.heap)
           \/ \E second \in Items(t) : Commit(PassNext(one, v, second).heap)

(* sys_task_cap_insert_cap_space and sys_task_cap_extend_cap_space.        *)
InsertSpace(t, v, sp) ==
  LET p == heap.cap[sp].obj
  IN  /\ Calls(t, "insert_cap_space")
      /\ heap.state[v] \notin {"unused", "killed"}
      /\ ~heap.cap[sp].flag
      /\ MayGive(p)
      /\ CanInsertCapSpace(heap, v)
      /\ Commit([InsertCapSpace(Entered(t), v, p) EXCEPT !.cap[sp].flag = TRUE])

ExtendSpace(t, v, pt) ==
  /\ Calls(t, "extend_cap_space")
  /\ heap.state[v] \notin {"unused", "killed"}
  /\ ~heap.cap[pt].flag
  /\ CanExtendCapSpace(heap, v)
  /\ Commit([ExtendCapSpace(Entered(t), v) EXCEPT !.cap[pt].flag = TRUE])

(* sys_task_cap_resume, _suspend and _kill.  A task that suspends itself   *)
(* keeps its own lock.  The root task is resumed and suspended in Ipc.tla. *)
ResumeTask(t, v) ==
  /\ Calls(t, "resume")
  /\ v # Root /\ heap.state[v] = "suspended"
  /\ Commit([Lock(Entered(t), v) EXCEPT !.state[v] = "active"])

SuspendTask(t, v) ==
  /\ Calls(t, "suspend")
  /\ v # Root /\ heap.state[v] = "active"
  /\ Commit([Lock(Entered(t), v) EXCEPT !.state[v] = "suspended",
                                         !.stuck = IF v = t THEN @ \cup {t} ELSE @])

Kill(t, v) == Calls(t, "kill") /\ Commit(KillTask(Entered(t), t, v, {}))

(* A system call that is refused, or that only reads.                      *)
Query(t) == Calls(t, "query") /\ Commit(Entered(t))

Halted == fault # NoFault /\ UNCHANGED vars

-----------------------------------------------------------------------------
(* The root task boots with capabilities for itself, its space and memory. *)
EmptyHeap ==
  [cap      |-> [s \in Slots |-> NullCap],
   prev     |-> [s \in Slots |-> Nil],
   next     |-> [s \in Slots |-> Nil],
   owner    |-> [p \in Spaces |-> Nil],
   state    |-> [t \in Tasks |-> "unused"],
   free     |-> [t \in Tasks |-> Nil],
   count    |-> [t \in Tasks |-> 0],
   spaces   |-> [t \in Tasks |-> <<>>],
   ext      |-> [t \in Tasks |-> 0],
   canceled |-> {},
   stuck    |-> {},
   nextId   |-> 0,
   halt     |-> NoFault]

BootHeap ==
  LET started == InitTask(EmptyHeap, Root, RootSpace)
      itself == InsertCap(started, Root, MakeCap("task", Root, 0, 0))
      space == [MakeCap("cap_space", RootSpace, 0, 0) EXCEPT !.flag = TRUE]
  IN  InsertCap(InsertCap(itself, Root, space), Root, MakeCap("mem", Nil, MemBase, MemSize))

Init == heap = BootHeap /\ fault = NoFault

Next ==
  \/ \E t \in Tasks :
       \/ CreateId(t) \/ Query(t)
       \/ \E v \in Tasks : Message(t, v)
       \/ \E s \in LookupHandled(t) : CopyCap(t, s) \/ RevokeCap(t, s) \/ DestroyCap(t, s)
       \/ \E m \in LookupType(heap, t, "mem") :
            \/ CreateMem(t, m) \/ CreateCapSpace(t, m)
            \/ \E type \in {"endpoint", "page_table"} : CreateOf(type, t, m, Nil)
            \/ \E sp \in LookupType(heap, t, "cap_space") : CreateTask(t, m, sp)
       \/ \E tc \in LookupType(heap, t, "task") :
            LET v == heap.cap[tc].obj
            IN  \/ ResumeTask(t, v) \/ SuspendTask(t, v) \/ Kill(t, v)
                \/ \E s \in LookupHandled(t) : TransferCap(t, v, s) \/ DelegateCap(t, v, s)
                \/ \E sp \in LookupType(heap, t, "cap_space") : InsertSpace(t, v, sp)
                \/ \E pt \in LookupType(heap, t, "page_table") : ExtendSpace(t, v, pt)
  \/ Halted

Spec == Init /\ [][Next]_vars

-----------------------------------------------------------------------------
(* Properties.                                                             *)

(* The slots hold capabilities of their types, links lead to slots, and    *)
(* every count is a number.                                                *)
TypeOK ==
  /\ \A s \in Slots :
       LET c == heap.cap[s]
       IN  /\ c.type \in CapType /\ {c.base, c.size, c.used} \subseteq Nat
           /\ c.type = "task" => c.obj \in Tasks
           /\ c.type = "cap_space" => c.obj \in Spaces
           /\ c.flag \in BOOLEAN
           /\ {heap.prev[s], heap.next[s]} \subseteq Slots \cup {Nil}
  /\ \A t \in Tasks :
       /\ heap.state[t] \in {"unused", "suspended", "active", "killed"}
       /\ heap.free[t] \in Slots \cup {Nil}
       /\ heap.count[t] \in Nat /\ heap.ext[t] \in Nat
       /\ heap.spaces[t] \in Seq(Spaces)
  /\ heap.stuck \subseteq Tasks
  /\ heap.halt = NoFault

(* The lists are sound, whatever system calls did to the slots and in      *)
(* which tasks those are: next and prev are inverse of each other, no list *)
(* is a cycle, and none mixes free slots with capabilities.                *)
ListsLinked ==
  \A s \in Slots :
    LET n == heap.next[s]
    IN  n # Nil =>
          /\ heap.prev[n] = s
          /\ s \notin Range(Chain(heap, n))
          /\ IsEmpty(heap.cap[s]) <=> IsEmpty(heap.cap[n])

(* No slot is lost and none is handed out twice: the free list of a task   *)
(* is exactly the empty slots of its spaces, less the first slot of all,   *)
(* and free_slots_count counts it.                                         *)
SlotsAccounted ==
  \A t \in Tasks :
    LET free == IF heap.free[t] = Nil THEN <<>> ELSE Chain(heap, heap.free[t])
    IN  /\ heap.count[t] = Len(free)
        /\ heap.free[t] # Nil => IsHead(heap, heap.free[t])
        /\ Range(free) =
              {s \in Slots : /\ OwnerOf(heap, s) = t /\ IsEmpty(heap.cap[s])
                             /\ s # <<heap.spaces[t][1], 0>>}

(* A delegated capability can always be revoked: what follows a zombie in  *)
(* its list leads to the capability it stands for.                         *)
ZombieBacked ==
  \A s \in Slots : IsZombie(heap.cap[s]) => Resolve(heap, s) # Nil

Covers(c, d) == c.base <= d.base /\ d.base + d.size <= c.base + c.size
Disjoint(c, d) == c.base + c.size <= d.base \/ d.base + d.size <= c.base

(* Two capabilities share memory only if they are copies of each other or  *)
(* one is the memory capability the other was carved from; then a          *)
(* revocation of the first reaches the second, however far both have been  *)
(* transferred and delegated.                                              *)
MemoryDisjoint ==
  LET sized == {s \in Slots : heap.cap[s].size > 0}
  IN  \A s, u \in sized :
        LET c == heap.cap[s]
            d == heap.cap[u]
        IN  s = u \/ SameObject(c, d) \/ Disjoint(c, d)
            \/ \E a, b \in {s, u} :
                 /\ a # b /\ heap.cap[a].type = "mem" /\ Covers(heap.cap[a], heap.cap[b])
                 /\ b \in Range(Chain(heap, a))

(* An object outlives every capability but its last: an endpoint is        *)
(* canceled when no capability for it is left and not before, and a task   *)
(* nobody has a capability for is dead.                                    *)
ObjectsDie ==
  /\ \A s \in Slots : heap.cap[s].type = "endpoint" => heap.cap[s].base \notin heap.canceled
  /\ \A t \in Tasks :
       heap.state[t] \notin {"unused", "killed"} =>
         \E s \in Slots : heap.cap[s].type = "task" /\ heap.cap[s].obj = t

(* Revoking a delegation gives back the very capability that the last      *)
(* delegate held.                                                          *)
DelegationReturns ==
  [][\A s \in Slots :
       IsZombie(heap.cap[s]) /\ ~IsZombie(heap'.cap[s]) =>
         heap'.cap[s] \in {NullCap, heap.cap[Resolve(heap, s)]}]_vars

Holders(h, c) == Cardinality({s \in Slots : h.cap[s] = c})

(* A slot of t was filled, or changed.                                     *)
Gains(t) == \E s \in Slots : OwnerOf(heap, s) = t /\ IsEmpty(heap.cap[s]) /\ ~IsEmpty(heap'.cap[s])
Touched(t) == \E s \in Slots : OwnerOf(heap, s) = t /\ heap.cap[s] # heap'.cap[s]

(* Passing capabilities on neither loses nor duplicates one: a step that   *)
(* gives a task a capability at the expense of another task leaves as many *)
(* of each as there were, also when a message names a capability twice,    *)
(* names one that was delegated, or is cut short by a receiver whose slots *)
(* run out (ipc_transfer_ipc_msg, transfer_cap, delegate_cap).             *)
CapsConserved ==
  [][\A t, u \in Tasks :
       t # u /\ Gains(t) /\ Touched(u) =>
         \A c \in Range(heap.cap) \cup Range(heap'.cap) :
           c \in {NullCap, ZombieCap} \/ Holders(heap', c) = Holders(heap, c)]_vars

Failures ==
  {"insert_before: isolated", "insert_after: head", "replace: isolated",
   "push_free_slots: owner", "create_object: is_unused", "destroy_cap_slot: tail",
   "destroy_object: cap type", "destroy_object: copies left", "destroy_cap: same object",
   "revoke_cap: null dereference"}

(* The assertions of cap_space.cpp, cap.cpp and task.cpp that no sequence  *)
(* of system calls can trip, as long as no space is given to two tasks.    *)
AssertionsHold == fault \notin Failures

-----------------------------------------------------------------------------
(* What a comment of the code claims, and the code does not keep.  The     *)
(* other checks AssertionsHold leaves out fail too.                        *)

(* cap.cpp:65, "Not enough memory.": a memory capability is never used     *)
(* beyond its size.                                                        *)
UsedFits == \A s \in Slots : heap.cap[s].type = "mem" => heap.cap[s].used <= heap.cap[s].size
=============================================================================
