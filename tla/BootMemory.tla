----------------------------- MODULE BootMemory -----------------------------
(***************************************************************************)
(* What the kernel gives the root task at boot: memory capabilities for    *)
(* the regions the device tree names (src/arch/rv64/kernel/setup.cpp), and *)
(* the pages of its program, its stack and the device tree, mapped         *)
(* (src/kernel/start.cpp).                                                 *)
(*                                                                         *)
(* One hart runs this alone, one loop round to a step.  Addresses are      *)
(* small numbers; PageSz of them make a page.                              *)
(***************************************************************************)
EXTENDS DeviceTree, Regions, FiniteSets

CONSTANTS
  KernelRegion, PayloadRegion, StackRegion,  \* from the linker
  DtbStart, DtbLength,    \* where the firmware left the device tree
  ReservedNames,          \* the names that begin with mmode_resv
  CellBase,               \* 2^32: a cell is one digit of an address
  PageSz,                 \* PAGE_SIZE
  MaxPhys,                \* CONFIG_MAX_PHYSICAL_ADDRESS
  MaxReserved, MaxMemory, MaxDevice,  \* CONFIG_MAX_*_REGIONS
  MaxCaps,                \* the free slots of the root task
  N,                      \* NUM_PAGE_TABLE_ENTRY
  BootPages,              \* the <<payload, stack, dtb>> page counts that occur
  Nil

RegionSet == [start : Nat, end : Nat]

(* A region that is being cut up: size_bit, and which of the two loops.    *)
SplitSet == [start : Nat, end : Nat, device : BOOLEAN, bit : Nat, up : BOOLEAN]

ASSUME BootAssumption ==
  /\ {CellBase, DtbLength, PageSz, MaxPhys, N} \subseteq Nat \ {0}
  /\ {DtbStart, MaxReserved, MaxMemory, MaxDevice, MaxCaps} \subseteq Nat
  /\ MaxReserved >= 3
  /\ {KernelRegion, PayloadRegion, StackRegion} \subseteq RegionSet
  /\ BootPages \subseteq Nat \X (0..N) \X Nat
  /\ Nil \notin Nat \cup SplitSet

VARIABLES
  phase,    \* "walk", "memory", "device", "map", "done" or "halted"
  regions,  \* reserved_region, memory_region and device_region
  taken,    \* how many regions of the phase have been taken
  work,     \* the calls of insert_memory_region_caps still to be made
  split,    \* the region being cut into capabilities, or Nil
  caps,     \* the memory capabilities of the root task
  pages,    \* how many pages are to be mapped: payload, stack, dtb
  tables    \* the last-level tables of the payload and of the stack

bootVars == <<dtbVars, phase, regions, taken, work, split, caps, pages, tables>>

-----------------------------------------------------------------------------
(* setup.cpp: collecting the regions                                       *)

Kinds == {"reserved", "memory", "device"}

Limit(kind) == CASE kind = "reserved" -> MaxReserved
                 [] kind = "memory" -> MaxMemory
                 [] kind = "device" -> MaxDevice

RoundUp(n) == ((n + PageSz - 1) \div PageSz) * PageSz

(* Cells are read from the most significant one, into a word of two.       *)
Number(cells) ==
  LET number[j \in 0..Len(cells)] ==
        IF j = 0 THEN 0 ELSE (number[j - 1] * CellBase + cells[j]) % (CellBase * CellBase)
  IN  number[Len(cells)]

(* for_each_reg                                                            *)
RegRegions(c, data) ==
  LET block == c.addr + c.size
      from(i) == (i - 1) * block
      base(i) == Number(SubSeq(data, from(i) + 1, from(i) + c.addr))
      size(i) == Number(SubSeq(data, from(i) + c.addr + 1, from(i) + block))
  IN  [i \in 1..(Len(data) \div block) |->
         Region(base(i), (base(i) + size(i)) % (CellBase * CellBase))]

KindOf(name) == CASE name \in ReservedNames -> "reserved"
                  [] name = "memory" -> "memory"
                  [] OTHER -> "device"

(* push_device_region: a device takes whole pages.                         *)
Pushed(kind, r) == IF kind = "device" THEN Region(r.start, RoundUp(r.end)) ELSE r

(* The callback of setup_memory_capabilities: the regions of a node are    *)
(* those of its first reg.                                                 *)
NodeRegions(node) ==
  LET regs == {i \in 1..Len(node.props) : node.props[i].name = "reg"}
      first == CHOOSE i \in regs : \A j \in regs : i <= j
  IN  IF node.name = PrunedName \/ node.cells.size = 0 \/ regs = {} THEN <<>>
      ELSE LET found == RegRegions(node.cells, node.props[first].cells)
           IN  [i \in 1..Len(found) |-> Pushed(KindOf(node.name), found[i])]

(* One token; a node that is handed over has its regions pushed, unless    *)
(* there are too many of them.                                             *)
Walk ==
  /\ phase = "walk"
  /\ DtbNext
  /\ IF handed' = handed THEN UNCHANGED <<phase, regions>>
     ELSE LET node == Last(handed')
              kind == KindOf(node.name)
              more == NodeRegions(node)
          IN  IF Len(regions[kind]) + Len(more) > Limit(kind)
              THEN phase' = "halted" /\ UNCHANGED regions
              ELSE regions' = [regions EXCEPT ![kind] = @ \o more] /\ UNCHANGED phase
  /\ UNCHANGED <<taken, work, split, caps, pages, tables>>

WalkEnds ==
  /\ phase = "walk"
  /\ walking # "yes"
  /\ phase' = IF walking = "done" THEN "memory" ELSE "halted"
  /\ UNCHANGED <<dtbVars, regions, taken, work, split, caps, pages, tables>>

-----------------------------------------------------------------------------
(* setup.cpp: insert_memory_region_caps                                    *)

DtbRegion == Region(DtbStart, DtbStart + RoundUp(DtbLength))

(* The calls made for the two pieces, if they are not empty.               *)
Calls(pieces, device, index) ==
  LET call(r) == IF r.start < r.end
                 THEN <<[region |-> r, device |-> device, index |-> index]>> ELSE <<>>
  IN  call(pieces[1]) \o call(pieces[2])

Idle(p) == phase = p /\ work = <<>> /\ split = Nil

(* The dtb region is taken out of memory regions only.                     *)
TakeMemory ==
  /\ Idle("memory")
  /\ IF taken < Len(regions["memory"])
     THEN /\ work' = Calls(SubtractRegion(regions["memory"][taken + 1], DtbRegion), FALSE, 1)
          /\ taken' = taken + 1
          /\ UNCHANGED phase
     ELSE taken' = 0 /\ phase' = "device" /\ UNCHANGED work
  /\ UNCHANGED <<dtbVars, regions, split, caps, pages, tables>>

TakeDevice ==
  /\ Idle("device")
  /\ IF taken < Len(regions["device"])
     THEN /\ work' = <<[region |-> regions["device"][taken + 1], device |-> TRUE, index |-> 1]>>
          /\ taken' = taken + 1
          /\ UNCHANGED phase
     ELSE taken' = 0 /\ phase' = "map" /\ UNCHANGED work
  /\ UNCHANGED <<dtbVars, regions, split, caps, pages, tables>>

(* Mutated form of FirstBit: regions are thought to be made of pages.      *)
FirstBitOfPage == 2

FirstBit == 0

(* A call: nothing for an empty region or one at address 0; one level      *)
(* deeper for what the next reserved region leaves; or the loops.          *)
Call ==
  LET c == Head(work)
      r == c.region
  IN  /\ work # <<>> /\ split = Nil
      /\ IF r.start >= r.end \/ r.start = 0
         THEN work' = Tail(work) /\ UNCHANGED split
         ELSE IF c.index <= Len(regions["reserved"])
              THEN /\ work' = Calls(SubtractRegion(r, regions["reserved"][c.index]),
                                    c.device, c.index + 1) \o Tail(work)
                   /\ UNCHANGED split
              ELSE /\ work' = Tail(work)
                   /\ split' = [start |-> r.start, end |-> r.end, device |-> c.device,
                                bit |-> FirstBit, up |-> TRUE]
      /\ UNCHANGED <<dtbVars, phase, regions, taken, caps, pages, tables>>

(* 1ull << size_bit                                                        *)
BlockSizes[bit \in Nat] == IF bit = 0 THEN 1 ELSE 2 * BlockSizes[bit - 1]

BlockSize(bit) == BlockSizes[bit]

(* make_memory_cap and insert_cap, then size_bit becomes bit.              *)
Emit(bit) ==
  LET size == BlockSize(split.bit)
  IN  IF split.start < MaxPhys /\ size < MaxPhys /\ Len(caps) < MaxCaps
      THEN /\ caps' = Append(caps, [base |-> split.start, size |-> size, device |-> split.device])
           /\ split' = [split EXCEPT !.start = @ + size, !.bit = bit]
           /\ UNCHANGED phase
      ELSE phase' = "halted" /\ UNCHANGED <<caps, split>>

(* Mutated form of Holds: a region is never used up.                       *)
HoldsMore(size, bit) == size > BlockSize(bit)

Holds(size, bit) == size >= BlockSize(bit)

Splitting == split # Nil /\ split.start < split.end

Left == split.end - split.start

(* The first loop: ever larger blocks, while the address asks for them.    *)
Grow ==
  /\ phase # "halted" /\ Splitting /\ split.up
  /\ IF (split.start \div BlockSize(split.bit)) % 2 = 1
     THEN IF Holds(Left, split.bit) THEN Emit(split.bit + 1)
          ELSE split' = [split EXCEPT !.up = FALSE] /\ UNCHANGED <<caps, phase>>
     ELSE split' = [split EXCEPT !.bit = @ + 1] /\ UNCHANGED <<caps, phase>>
  /\ UNCHANGED <<dtbVars, regions, taken, work, pages, tables>>

(* Mutated form of Smaller: the block size stays.                          *)
SmallerNot(bit) == bit

Smaller(bit) == bit - 1

(* The second loop: ever smaller blocks.                                   *)
Shrink ==
  /\ phase # "halted" /\ Splitting /\ ~split.up
  /\ IF Holds(Left, split.bit) THEN Emit(split.bit)
     ELSE split' = [split EXCEPT !.bit = Smaller(@)] /\ UNCHANGED <<caps, phase>>
  /\ UNCHANGED <<dtbVars, regions, taken, work, pages, tables>>

SplitEnds ==
  /\ split # Nil /\ ~Splitting
  /\ split' = Nil
  /\ UNCHANGED <<dtbVars, phase, regions, taken, work, caps, pages, tables>>

-----------------------------------------------------------------------------
(* start.cpp: map_root_task; setup.cpp: setup_arch_root_boot_info          *)

(* The pages in the order in which they are mapped.  The payload starts a  *)
(* table, the stack ends at the top of user space, and the device tree     *)
(* follows the payload.                                                    *)
BootPage(n) ==
  LET payload == pages[1]
      stack == pages[2]
  IN  CASE n <= payload -> [area |-> "payload", offset |-> n - 1]
        [] n > payload /\ n <= payload + stack ->
             [area |-> "stack", offset |-> (N - stack) + (n - payload - 1)]
        [] OTHER -> [area |-> "payload", offset |-> n - stack - 1]

PageCount == pages[1] + pages[2] + pages[3]

(* Mutated form of Unmapped: the assertion is not there.                   *)
UnmappedAny(p) == TRUE

(* assert(pte->is_disabled())                                              *)
Unmapped(p) == tables[p.area][p.offset % N] = Nil

MapPage ==
  LET p == BootPage(taken + 1)
  IN  /\ phase = "map"
      /\ taken < PageCount
      /\ IF Unmapped(p) /\ Len(caps) + taken < MaxCaps
         THEN /\ tables' = [tables EXCEPT ![p.area][p.offset % N] = taken + 1]
              /\ taken' = taken + 1
              /\ UNCHANGED phase
         ELSE phase' = "halted" /\ UNCHANGED <<taken, tables>>
      /\ UNCHANGED <<dtbVars, regions, work, split, caps, pages>>

MapEnds ==
  /\ phase = "map"
  /\ taken = PageCount
  /\ phase' = "done"
  /\ UNCHANGED <<dtbVars, regions, taken, work, split, caps, pages, tables>>

-----------------------------------------------------------------------------
BootInit ==
  /\ DtbInit
  /\ phase = "walk"
  /\ regions = [kind \in Kinds |->
                  IF kind = "reserved" THEN <<KernelRegion, PayloadRegion, StackRegion>> ELSE <<>>]
  /\ taken = 0 /\ work = <<>> /\ split = Nil /\ caps = <<>>
  /\ pages \in BootPages
  /\ tables = [area \in {"payload", "stack"} |-> [i \in 0..(N - 1) |-> Nil]]

(* The boot is over: the root task runs, or nothing does.                  *)
Over == phase \in {"done", "halted"} /\ UNCHANGED bootVars

BootStep ==
  \/ Walk \/ WalkEnds
  \/ TakeMemory \/ TakeDevice \/ Call
  \/ Grow \/ Shrink \/ SplitEnds
  \/ MapPage \/ MapEnds

BootNext == BootStep \/ Over

(* The hart that boots keeps running.                                      *)
BootSpec == BootInit /\ [][BootNext]_bootVars /\ WF_bootVars(BootStep)

-----------------------------------------------------------------------------
(* Properties.                                                             *)

(* Block sizes stay within a word, and counts within their limits.         *)
BootTypeOK ==
  /\ phase \in {"walk", "memory", "device", "map", "done", "halted"}
  /\ \A kind \in Kinds : Len(regions[kind]) <= Limit(kind)
  /\ split # Nil => split.bit \in Nat /\ split.start \in Nat /\ split.end \in Nat
  /\ Len(caps) + (IF phase = "done" THEN PageCount ELSE 0) <= MaxCaps

Covered(x, device) ==
  \E i \in 1..Len(caps) :
    caps[i].device = device /\ x \in caps[i].base..(caps[i].base + caps[i].size - 1)

Elements(q) == {q[i] : i \in 1..Len(q)}

Free(x) == \A r \in Elements(regions["reserved"]) : ~In(x, r)

(* What is in front of the first gap of a region that starts at address 0. *)
AtZero(x, r) == \A y \in 0..x : In(y, r)
AtZeroBeforeDtb(x, r) == \A y \in 0..x : In(y, r) /\ ~In(y, DtbRegion)

(* The root task gets exactly the memory that is there and not taken: an   *)
(* address is in a memory capability if and only if it is in a memory      *)
(* region, and neither in the device tree nor in a reserved region, and    *)
(* likewise for devices, however the regions overlap and however the       *)
(* pieces are nested; only what is connected to address 0 is lost          *)
(* (subtract_region, insert_memory_region_caps).                           *)
CapsExact ==
  phase = "done" =>
    \A x \in 0..(CellBase * CellBase) :
      /\ Covered(x, FALSE) <=>
           /\ Free(x) /\ ~In(x, DtbRegion)
           /\ \E r \in Elements(regions["memory"]) : In(x, r) /\ ~AtZeroBeforeDtb(x, r)
      /\ Covered(x, TRUE) <=>
           Free(x) /\ \E r \in Elements(regions["device"]) : In(x, r) /\ ~AtZero(x, r)

Apart(a, b) == a.end <= b.start \/ b.end <= a.start

(* No two regions of the tree overlap.                                     *)
RegionsApart ==
  LET all == regions["memory"] \o regions["device"]
  IN  \A i, j \in 1..Len(all) : i # j => Apart(all[i], all[j])

(* At any moment every capability is a block aligned to its own size, and  *)
(* no two of them share an address if no two regions do: the loops that    *)
(* cut a region up neither misalign a block nor hand out memory twice.     *)
CapsFit ==
  /\ \A i \in 1..Len(caps) : caps[i].base % caps[i].size = 0
  /\ RegionsApart =>
       \A i, j \in 1..Len(caps) :
         i # j => Apart(Region(caps[i].base, caps[i].base + caps[i].size),
                        Region(caps[j].base, caps[j].base + caps[j].size))

(* Once the root task runs, its program, its stack and the device tree are *)
(* all mapped, each page at its own address: a program and a device tree   *)
(* that do not fit into one table stop the boot (map_root_task,            *)
(* setup_arch_root_boot_info).                                             *)
PagesMapped ==
  phase = "done" =>
    \A n \in 1..PageCount :
      LET p == BootPage(n) IN p.offset < N /\ tables[p.area][p.offset] = n

(* The boot comes to an end: all tokens are read, all regions are cut up,  *)
(* and the loops over block sizes terminate.                               *)
BootEnds == <>(phase \in {"done", "halted"})
=============================================================================
