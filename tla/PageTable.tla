----------------------------- MODULE PageTable -----------------------------
(***************************************************************************)
(* Page tables and virtual pages of the caprese microkernel: the page      *)
(* table entries (include/arch/rv64/kernel/page.h), the capabilities that  *)
(* say where a table or a page is mapped (src/kernel/cap.cpp), and the     *)
(* tables a task needs for its capability space (src/kernel/task.cpp,      *)
(* src/kernel/cap_space.cpp, src/kernel/start.cpp).                        *)
(*                                                                         *)
(* Virtual addresses count pages of 4 KiB.  Neither tables nor pages can   *)
(* be copied, and memory is never reused, so an object and its capability  *)
(* are the same thing here; which task holds it is in CapSpace.tla.  What  *)
(* a page contains is left out.  A call that is refused changes nothing    *)
(* and is not a step.                                                      *)
(***************************************************************************)
EXTENDS Naturals

CONSTANTS
  Tables, Pages,     \* the objects that exist or will be created
  Tasks, RootTask,   \* the tasks, and the one that is started at boot
  N,                 \* NUM_PAGE_TABLE_ENTRY
  MaxLevel,          \* MAX_PAGE_TABLE_LEVEL
  KernelBase,        \* CONFIG_KERNEL_SPACE_BASE, where the mapped space starts
  CapSpaceBase,      \* CONFIG_CAPABILITY_SPACE_BASE, where it ends
  RootTable,         \* boot_info->root_page_table
  CapTables,         \* boot_info->cap_space_page_tables, by level
  PayloadTables,     \* boot_info->payload_page_tables, by level
  PayloadPage,       \* the page of the root task's program
  PayloadBase,       \* CONFIG_ROOT_TASK_PAYLOAD_BASE_ADDRESS
  Handled,           \* the objects that user programs map, unmap and destroy
  Indices,           \* the indices they pass
  PageLevels,        \* the levels of the pages they create
  ReuseTables,       \* do they create tasks on tables that are in use?
  Nil                \* a null map_ptr

ASSUME PageTableAssumption ==
  /\ N \in Nat \ {0, 1} /\ MaxLevel \in Nat \ {0, 1}
  /\ {KernelBase, CapSpaceBase, PayloadBase} \subseteq Nat
  /\ PayloadBase < KernelBase /\ KernelBase <= CapSpaceBase
  /\ RootTask \in Tasks /\ RootTable \in Tables /\ PayloadPage \in Pages
  /\ CapTables \in [0..(MaxLevel - 1) -> Tables]
  /\ PayloadTables \in [0..(MaxLevel - 1) -> Tables]
  /\ Handled \subseteq Tables \cup Pages
  /\ Indices \subseteq 0..(N - 1) /\ PageLevels \subseteq 0..MaxLevel
  /\ Tables \cap Pages = {} /\ Nil \notin Tables \cup Pages
  /\ ReuseTables \in BOOLEAN

(* Every table that is set up at boot has a page of its own.               *)
ASSUME BootAssumption ==
  /\ \A l, m \in 0..(MaxLevel - 1) :
       /\ CapTables[l] # RootTable /\ PayloadTables[l] # RootTable
       /\ CapTables[l] # PayloadTables[m]
       /\ CapTables[l] = CapTables[m] \/ PayloadTables[l] = PayloadTables[m] => l = m

VARIABLES
  cap,      \* the capability of every object
  entries,  \* page_table_t::entries of every table
  rootOf,   \* task_t::root_page_table
  ext,      \* task_t::cap_count.num_extension
  fault     \* the assertion that stopped the machine

vars == <<cap, entries, rootOf, ext, fault>>

NoFault == "none"

Levels == 0..MaxLevel
Inner == 0..(MaxLevel - 1)
Objects == Tables \cup Pages
EntryIndex == 0..(N - 1)

-----------------------------------------------------------------------------
(* page.h: sizes, indices and entries.                                     *)

(* get_page_size, in pages of 4 KiB: every level is one shift by 9 bits.   *)
PageSizes[level \in Nat] == IF level = 0 THEN 1 ELSE N * PageSizes[level - 1]

PageSize(level) == PageSizes[level]

(* declare_arch.cmake: the capability space starts at a boundary of the    *)
(* largest pages, inside the address space.                                *)
ASSUME SpaceAssumption ==
  CapSpaceBase % PageSize(MaxLevel) = 0 /\ CapSpaceBase < PageSize(MaxLevel + 1)

(* get_page_table_index                                                    *)
Index(va, level) == (va \div PageSize(level)) % N

(* An entry leads to a table, or is a leaf for user mode, or belongs to    *)
(* the kernel (u is clear and some other flag is set); a disabled entry    *)
(* leads nowhere.                                                          *)
Kind == {"off", "table", "user", "kernel"}

Entry(to, kind) == [to |-> to, kind |-> kind]
Off == Entry(Nil, "off")
KernelPage == Entry(Nil, "kernel")

IsEnabled(t, i) == entries[t][i] # Off

Empty == [i \in EntryIndex |-> Off]

-----------------------------------------------------------------------------
(* cap.h: page table and virtual page capabilities.  base is               *)
(* virt_addr_base of a table and address of a page; index is only recorded *)
(* for a page.                                                             *)

Cap(st, mapped, level, index, base, parent) ==
  [st |-> st, mapped |-> mapped, level |-> level, index |-> index,
   base |-> base, parent |-> parent]

NoCap(st) == Cap(st, FALSE, 0, 0, 0, Nil)

Unmapped(level) == Cap("live", FALSE, level, 0, 0, Nil)

MappedAt(level, index, base, parent) == Cap("live", TRUE, level, index, base, parent)

Live(x) == cap[x].st = "live"

LiveTables == {t \in Tables : Live(t)}
LivePages == {p \in Pages : Live(p)}

-----------------------------------------------------------------------------
(* task.cpp: init_task.  The mapped space of the kernel and the tables     *)
(* that lead to the capability space.                                      *)

MappedSpace ==
  {i \in EntryIndex : i * PageSize(MaxLevel) \in KernelBase..(CapSpaceBase - 1)}

(* The entry of the table at that level that leads to the first cap space. *)
CapLink(level, tables) ==
  CASE level = 0 -> KernelPage
    [] level = 1 -> Entry(tables[0], "table")
    [] OTHER -> Entry(tables[level - 1], "kernel")

CapTableEntries(level, tables) ==
  [Empty EXCEPT ![Index(CapSpaceBase, level)] = CapLink(level, tables)]

RootEntries(tables) ==
  [i \in EntryIndex |-> IF i \in MappedSpace THEN KernelPage
                        ELSE CapTableEntries(MaxLevel, tables)[i]]

LevelIn(tables, x) == CHOOSE l \in Inner : tables[l] = x

(* The root table is cleared first: when it is given once more, as an inner *)
(* table, it is cleared again and loses the mapped space.                  *)
RootCleared(root, tables) ==
  [CapTableEntries(LevelIn(tables, root), tables) EXCEPT
     ![Index(CapSpaceBase, MaxLevel)] = CapLink(MaxLevel, tables)]

(* The entries once the tables of a new task are cleared and linked,       *)
(* whatever they held.                                                     *)
InitTask(ents, root, tables) ==
  [t \in Tables |->
     IF t = root /\ \A level \in Inner : tables[level] # t THEN RootEntries(tables)
     ELSE IF t = root THEN RootCleared(root, tables)
     ELSE IF \E level \in Inner : tables[level] = t
          THEN CapTableEntries(LevelIn(tables, t), tables)
          ELSE ents[t]]

-----------------------------------------------------------------------------
(* start.cpp: setup_root_task, map_root_task                               *)

ParentOf(tables, level) == IF level + 1 = MaxLevel THEN RootTable ELSE tables[level + 1]

BootCap(x) ==
  CASE x = RootTable -> MappedAt(MaxLevel, 0, 0, Nil)
    [] \E j \in Inner : CapTables[j] = x ->
         LET l == LevelIn(CapTables, x)
         IN  MappedAt(l, 0, CapSpaceBase, ParentOf(CapTables, l))
    [] \E j \in Inner : PayloadTables[j] = x ->
         LET l == LevelIn(PayloadTables, x)
         IN  MappedAt(l, 0, PayloadBase - (PayloadBase % PageSize(l + 1)),
                      ParentOf(PayloadTables, l))
    [] x = PayloadPage -> MappedAt(0, Index(PayloadBase, 0), PayloadBase, PayloadTables[0])
    [] OTHER -> NoCap("none")

BootEntries ==
  LET started == InitTask([t \in Tables |-> Empty], RootTable, CapTables)
      at(l) == IF l = MaxLevel THEN RootTable ELSE PayloadTables[l]
      link(l) == IF l = 0 THEN Entry(PayloadPage, "user") ELSE Entry(at(l - 1), "table")
  IN  [t \in Tables |->
         [i \in EntryIndex |->
            IF \E l \in Levels : at(l) = t /\ i = Index(PayloadBase, l)
            THEN link(CHOOSE l \in Levels : at(l) = t)
            ELSE started[t][i]]]

Init ==
  /\ cap = [x \in Objects |-> BootCap(x)]
  /\ entries = BootEntries
  /\ rootOf = [k \in Tasks |-> IF k = RootTask THEN RootTable ELSE Nil]
  /\ ext = [k \in Tasks |-> IF k = RootTask THEN 1 ELSE 0]
  /\ fault = NoFault

-----------------------------------------------------------------------------
(* Reaching the capability space of a task.                                *)

(* The tables a walk from the root table passes, by level.                 *)
WalkTables(root, va) ==
  LET at[level \in Levels] ==
        IF level = MaxLevel THEN root
        ELSE IF at[level + 1] \in Tables
             THEN entries[at[level + 1]][Index(va, level + 1)].to
             ELSE Nil
  IN  at

(* lookup_cap finds the first cap space of the task.                       *)
CapsReachable(k) ==
  LET last == WalkTables(rootOf[k], CapSpaceBase)[0]
  IN  rootOf[k] # Nil /\ last \in Tables /\ IsEnabled(last, Index(CapSpaceBase, 0))

Unused == {k \in Tasks : rootOf[k] = Nil}

(* The kernel goes on running in the address space of the task.            *)
MapsKernel(k) == \A i \in MappedSpace : entries[rootOf[k]][i] = KernelPage

(* A task that can run and look capabilities up makes a system call.       *)
CanCall == fault = NoFault /\ \E k \in Tasks : CapsReachable(k) /\ MapsKernel(k)

(* assert(ok), then A.                                                     *)
AssertThen(ok, why, A) ==
  IF ok THEN A /\ fault' = NoFault
  ELSE fault' = why /\ UNCHANGED <<cap, entries, rootOf, ext>>

SetEntry(t, i, e) == entries' = [entries EXCEPT ![t][i] = e]

SetCap(x, c) == cap' = [cap EXCEPT ![x] = c]

-----------------------------------------------------------------------------
(* cap.cpp: create_page_table_object, create_virt_page_object              *)

CreateTable(t) ==
  /\ cap[t].st = "none"
  /\ SetCap(t, Unmapped(0))
  /\ UNCHANGED <<entries, rootOf, ext, fault>>

CreatePage(p, level) ==
  /\ cap[p].st = "none"
  /\ SetCap(p, Unmapped(level))
  /\ UNCHANGED <<entries, rootOf, ext, fault>>

-----------------------------------------------------------------------------
(* cap.cpp: map_page_table_cap, unmap_page_table_cap                       *)

(* The address behind entry i of table t, for an object of that level.     *)
AddressAt(t, level, i) == cap[t].base + PageSize(level) * i

(* Mutated form of UserEntry: the kernel's addresses are not refused.      *)
UserEntryAny(t, level, i) == TRUE

UserEntry(t, level, i) == AddressAt(t, level, i) < KernelBase

(* Mutated form of HoldsTables: a table of level 0 is not refused.         *)
HoldsTablesAny(t) == TRUE

HoldsTables(t) == cap[t].level # 0

(* Mutated form of SameLevel: a page goes into a table of any level.       *)
SameLevelAny(t, p) == TRUE

SameLevel(t, p) == cap[p].level = cap[t].level

(* Nobody asks whether t itself is mapped.                                 *)
MapTable(t, i, c) ==
  LET level == cap[t].level
  IN  /\ UserEntry(t, level, i)
      /\ HoldsTables(t)
      /\ ~IsEnabled(t, i)
      /\ ~cap[c].mapped
      /\ SetEntry(t, i, Entry(c, "table"))
      /\ SetCap(c, MappedAt(level - 1, 0, AddressAt(t, level, i), t))
      /\ UNCHANGED <<rootOf, ext, fault>>

(* The capability keeps its last level and address, which still count when *)
(* something is mapped into the table.                                     *)
Released(c) == [c EXCEPT !.mapped = FALSE, !.parent = Nil]

(* Mutated form of CanUnmap: any mapped object will do.                    *)
CanUnmapOther(t, level, i, x) ==
  UserEntry(t, level, i) /\ IsEnabled(t, i) /\ cap[x].mapped

CanUnmap(t, level, i, x) ==
  UserEntry(t, level, i) /\ IsEnabled(t, i) /\ cap[x].mapped /\ entries[t][i].to = x

UnmapTable(t, i, c) ==
  /\ CanUnmap(t, cap[t].level, i, c)
  /\ SetEntry(t, i, Off)
  /\ SetCap(c, Released(cap[c]))
  /\ UNCHANGED <<rootOf, ext, fault>>

-----------------------------------------------------------------------------
(* cap.cpp: map_virt_page_cap, unmap_virt_page_cap, remap_virt_page_cap    *)

MapPage(t, i, p) ==
  LET level == cap[p].level
  IN  /\ UserEntry(t, level, i)
      /\ ~IsEnabled(t, i)
      /\ ~cap[p].mapped
      /\ SameLevel(t, p)
      /\ SetEntry(t, i, Entry(p, "user"))
      /\ SetCap(p, MappedAt(level, i, AddressAt(t, level, i), t))
      /\ UNCHANGED <<rootOf, ext, fault>>

(* The address and index of a page that is not mapped are never read.      *)
UnmapPage(t, i, p) ==
  /\ CanUnmap(t, cap[p].level, i, p)
  /\ SetEntry(t, i, Off)
  /\ SetCap(p, Unmapped(cap[p].level))
  /\ UNCHANGED <<rootOf, ext, fault>>

(* The page leaves the entry its capability names in the old table.        *)
Moved(t, i, p, old) ==
  [entries EXCEPT ![old][cap[p].index] = Off, ![t][i] = Entry(p, "user")]

RemapPage(t, i, p, old) ==
  LET level == cap[p].level
  IN  /\ UserEntry(t, level, i)
      /\ cap[p].mapped
      /\ cap[t].level = cap[old].level /\ SameLevel(t, p)
      /\ ~IsEnabled(t, i)
      /\ entries[old][cap[p].index].to = p
      /\ entries' = Moved(t, i, p, old)
      /\ SetCap(p, MappedAt(level, i, AddressAt(t, level, i), t))
      /\ UNCHANGED <<rootOf, ext, fault>>

-----------------------------------------------------------------------------
(* cap.cpp: destroy_page_table_object, destroy_virt_page_object            *)

(* Where the capability says its entry is.                                 *)
OwnIndex(x) == Index(cap[x].base, IF x \in Tables THEN cap[x].level + 1 ELSE cap[x].level)

(* What the assertions of the destructors say.                             *)
EntryFound(x) == cap[x].parent # Nil => entries[cap[x].parent][OwnIndex(x)].to = x

DestructorAssertion(x) ==
  IF x \in Pages THEN "destroy_virt_page_object: entry" ELSE "destroy_page_table_object: entry"

(* Mutated form of Disabled: the entry outlives its object.                *)
DisabledNever(x) == entries

Disabled(x) ==
  IF cap[x].parent = Nil THEN entries
  ELSE [entries EXCEPT ![cap[x].parent][OwnIndex(x)] = Off]

(* The contents of a table outlive its capability.                         *)
Destroy(x) ==
  /\ AssertThen(EntryFound(x), DestructorAssertion(x),
            /\ entries' = Disabled(x)
            /\ SetCap(x, NoCap("dead"))
            /\ UNCHANGED <<rootOf, ext>>)

-----------------------------------------------------------------------------
(* cap.cpp: create_task_object, extend_cap_space                           *)

Untouched(root, tables) ==
  /\ \A t \in {root} \cup {tables[l] : l \in Inner} : entries[t] = Empty
  /\ \A l, m \in Inner : tables[l] # root /\ (tables[l] = tables[m] => l = m)

(* The tables given to a new task must be unmapped.  Nobody asks whether   *)
(* they are empty and different.                                           *)
TaskTables(root, tables) ==
  /\ \A t \in {root} \cup {tables[l] : l \in Inner} : Live(t) /\ ~cap[t].mapped
  /\ ReuseTables \/ Untouched(root, tables)

(* The assertions that the entries init_task links are disabled: the inner *)
(* tables all use the first entry.                                         *)
EntriesFree(tables) == \A l, m \in Inner : tables[l] = tables[m] => l = m

(* The parents of the tables for the capability space are not recorded.    *)
CreateTask(k, root, tables) ==
  /\ TaskTables(root, tables)
  /\ AssertThen(EntriesFree(tables), "insert_cap_space: page table entry",
         /\ entries' = InitTask(entries, root, tables)
         /\ cap' = [x \in Objects |->
                      IF \E l \in Inner : tables[l] = x
                      THEN MappedAt(LevelIn(tables, x), 0, CapSpaceBase, cap[x].parent)
                      ELSE IF x = root THEN MappedAt(MaxLevel, 0, 0, cap[x].parent)
                      ELSE cap[x]]
         /\ rootOf' = [rootOf EXCEPT ![k] = root]
         /\ ext' = [ext EXCEPT ![k] = 1])

(* The table of an extension is recorded as its own parent.                *)
ExtendCapSpace(k, t) ==
  LET va == CapSpaceBase + N * ext[k]
      mid == WalkTables(rootOf[k], va)[1]
      i == Index(va, 1)
  IN  /\ ~cap[t].mapped
      /\ ext[k] # N - 1
      /\ AssertThen(mid \in Tables /\ ~IsEnabled(mid, i), "extend_cap_space: page table entry",
                /\ SetEntry(mid, i, Entry(t, "table"))
                /\ SetCap(t, MappedAt(0, 0, va, t))
                /\ ext' = [ext EXCEPT ![k] = @ + 1]
                /\ UNCHANGED rootOf)

-----------------------------------------------------------------------------
(* A system call of some task.                                             *)
Next ==
  /\ CanCall
  /\ \/ \E t \in Tables : CreateTable(t)
     \/ \E p \in Pages, level \in PageLevels : CreatePage(p, level)
     \/ \E t \in LiveTables, i \in Indices :
          \/ \E c \in LiveTables \cap Handled : MapTable(t, i, c) \/ UnmapTable(t, i, c)
          \/ \E p \in LivePages \cap Handled :
               \/ MapPage(t, i, p) \/ UnmapPage(t, i, p)
               \/ \E old \in LiveTables : RemapPage(t, i, p, old)
     \/ \E x \in (LiveTables \cup LivePages) \cap Handled : Destroy(x)
     \/ \E k \in Unused, r \in LiveTables, ts \in [Inner -> LiveTables] : CreateTask(k, r, ts)
     \/ \E k \in Tasks \ Unused, t \in LiveTables \cap Handled : ExtendCapSpace(k, t)

Spec == Init /\ [][Next]_vars

-----------------------------------------------------------------------------
(* Properties.                                                             *)

Capability ==
  [st : {"none", "live", "dead"}, mapped : BOOLEAN, level : Levels,
   index : EntryIndex, base : Nat, parent : Tables \cup {Nil}]

PageTableEntry == [to : Objects \cup {Nil}, kind : Kind]

(* Capabilities, entries and tasks hold values of their types: no call     *)
(* leaves a level or an index out of range, or more extensions than a      *)
(* table has entries.                                                      *)
TypeOK ==
  /\ cap \in [Objects -> Capability]
  /\ entries \in [Tables -> [EntryIndex -> PageTableEntry]]
  /\ rootOf \in [Tasks -> Tables \cup {Nil}]
  /\ ext \in [Tasks -> 0..(N - 1)]

(* Capabilities and page tables agree, in whatever order tables and pages  *)
(* are mapped, unmapped, moved and destroyed, the tables above them        *)
(* included: an entry for user mode leads to the object whose capability   *)
(* names that very entry, so that nothing is mapped twice, no entry leads  *)
(* to a destroyed object, and every destructor finds its entry.  That is   *)
(* so as long as no task is created on tables in use (~ReuseTables):       *)
(* init_task clears them and tells no capability.                          *)
Agrees(x, t, i) == cap[x].mapped /\ cap[x].parent = t /\ OwnIndex(x) = i

EntriesAgree ==
  /\ \A t \in Tables, i \in EntryIndex :
       entries[t][i].to # Nil /\ entries[t][i].kind \in {"table", "user"} =>
         \/ Agrees(entries[t][i].to, t, i)
         \/ cap[t].base >= KernelBase \/ ~Live(t)
  /\ \A x \in Objects : cap[x].base < KernelBase => EntryFound(x)

(* No call that maps, unmaps, moves or destroys a user's tables and pages  *)
(* cuts a task off from its capabilities; only destroying the capabilities *)
(* that the root task holds for the tables of its own capability space     *)
(* does.                                                                   *)
CapsKept ==
  \A k \in Tasks :
    \/ rootOf[k] = Nil \/ CapsReachable(k)
    \/ k = RootTask /\ \E l \in Inner : ~Live(CapTables[l])

-----------------------------------------------------------------------------
(* What an assertion of the code claims, and the code does not keep.       *)

(* cap.cpp:457 and 458, the assertions of destroy_virt_page_object: the    *)
(* entry that the capability of a page names leads to the page.  They fail *)
(* once a task was created on the table the page is in (ReuseTables).      *)
PagesFound == fault # "destroy_virt_page_object: entry"
=============================================================================
