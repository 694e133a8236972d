------------------------- MODULE CapSpaceInvariant -------------------------
(***************************************************************************)
(* What holds of the capability slots between system calls: the inductive  *)
(* invariant from which the properties of CapSpace.tla follow, in parts.   *)
(***************************************************************************)
EXTENDS CapSpace

CapSet ==
  [type : CapType, obj : Tasks \cup Spaces \cup Nat \cup {Nil},
   base : Nat, size : Nat, used : Nat, flag : BOOLEAN]

(* Why a system call may stop.                                             *)
Halts ==
  Failures \cup
    {NoFault, Hang, SelfKill, "insert_cap_space: page table", "kill_task: root killed",
     "destroy_memory_object: tail", "destroy_page_table_object: pte", "make_memory_cap: address",
     "insert_after: slot", "create_task_object: page tables", "ipc_transfer_ipc_msg: null slot"}

HeapType ==
  [cap      : [Slots -> CapSet],
   prev     : [Slots -> Slots \cup {Nil}],
   next     : [Slots -> Slots \cup {Nil}],
   owner    : [Spaces -> Tasks \cup {Nil}],
   state    : [Tasks -> {"unused", "suspended", "active", "killed"}],
   free     : [Tasks -> Slots \cup {Nil}],
   count    : [Tasks -> Int],
   spaces   : [Tasks -> Seq(Spaces)],
   ext      : [Tasks -> Nat],
   canceled : SUBSET Nat,
   stuck    : SUBSET Tasks,
   nextId   : Nat,
   halt     : Halts]

(* A capability for a task or a space names one.                           *)
ObjectsNamed(h) ==
  \A s \in Slots :
    /\ h.cap[s].type = "task" => h.cap[s].obj \in Tasks
    /\ h.cap[s].type = "cap_space" => h.cap[s].obj \in Spaces

(* next and prev are inverse of each other.                                *)
Linked(h) ==
  \A s \in Slots :
    /\ h.next[s] # Nil => h.prev[h.next[s]] = s
    /\ h.prev[s] # Nil => h.next[h.prev[s]] = s

(* No list is a cycle: every walk comes to a tail.                         *)
Ends(h) == \A s \in Slots : IsTail(h, Last(Chain(h, s)))

(* A list holds capabilities, or free slots of one task.                   *)
Unmixed(h) ==
  \A s \in Slots :
    h.next[s] # Nil =>
      /\ IsEmpty(h.cap[s]) <=> IsEmpty(h.cap[h.next[s]])
      /\ IsEmpty(h.cap[s]) => OwnerOf(h, s) = OwnerOf(h, h.next[s])

(* The empty slots that are in no free list: those of spaces nobody owns,  *)
(* and the first slot of every task.                                       *)
Kept(h) ==
  {s \in Slots : OwnerOf(h, s) = Nil}
    \cup {<<h.spaces[t][1], 0>> : t \in {u \in Tasks : h.spaces[u] # <<>>}}

(* In what follows K is a set of slots that are kept back.                 *)
KeptBack(h, K) == K \subseteq Slots /\ \A s \in K : IsUnused(h, s)

(* free_slots is the head of a list of empty slots of the task.            *)
FreeHeads(h, K) ==
  \A t \in Tasks :
    h.free[t] # Nil =>
      /\ h.free[t] \notin K
      /\ IsEmpty(h.cap[h.free[t]])
      /\ IsHead(h, h.free[t])
      /\ OwnerOf(h, h.free[t]) = t

(* There is no other such list.                                            *)
NoOtherHead(h, K) ==
  \A s \in Slots \ K :
    /\ OwnerOf(h, s) \in Tasks
    /\ IsEmpty(h.cap[s]) /\ IsHead(h, s) => h.free[OwnerOf(h, s)] = s

EmptySlots(h, t, K) == {s \in Slots \ K : OwnerOf(h, s) = t /\ IsEmpty(h.cap[s])}

Counted(h, K) == \A t \in Tasks : h.count[t] = Cardinality(EmptySlots(h, t, K))

(* Behind a zombie comes the slot its capability was delegated to.         *)
ZombiesLead(h) == \A s \in Slots : IsZombie(h.cap[s]) => h.next[s] # Nil

(* A space is mapped by the task that owns it and by no other, and a task  *)
(* that was not created yet has none.                                      *)
SpacesOwned(h) ==
  \A t \in Tasks :
    /\ \A p \in Spaces : p \in SpacesOf(h, t) <=> h.owner[p] = t
    /\ h.state[t] = "unused" => h.spaces[t] = <<>>

(* What a system call finds, and leaves: every slot is in one sound list,  *)
(* and each list is a derivation list or the free list of a task           *)
(* (cap_slot_t, task_t::free_slots, task_t::free_slots_count).             *)
SlotInvariant ==
  /\ heap \in HeapType /\ heap.halt = NoFault
  /\ ObjectsNamed(heap)
  /\ Linked(heap) /\ Ends(heap) /\ Unmixed(heap)
  /\ KeptBack(heap, Kept(heap))
  /\ FreeHeads(heap, Kept(heap)) /\ NoOtherHead(heap, Kept(heap))
  /\ Counted(heap, Kept(heap))
  /\ ZombiesLead(heap)
  /\ SpacesOwned(heap)
=============================================================================
