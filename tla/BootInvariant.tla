--------------------------- MODULE BootInvariant ---------------------------
(***************************************************************************)
(* What holds at every step of the boot: the inductive invariant from      *)
(* which the properties of BootMemory.tla follow, in parts.                *)
(***************************************************************************)
EXTENDS BootMemory

CellCounts == [addr : Nat, size : Nat]
CallSet == [region : RegionSet, device : BOOLEAN, index : Nat \ {0}]
CapSet == [base : Nat, size : Nat \ {0}, device : BOOLEAN]

Tokens == {dtb[i] : i \in 1..Len(dtb)}
Props == {t \in Tokens : t.type = "prop"}
NodeSet == [name : {t.name : t \in Tokens}, cells : CellCounts, props : Seq(Props)]

(* The tokens are read as they are written, and never change.              *)
TokensRead ==
  /\ dtb \in Seq(Tokens)
  /\ \A t \in Props :
       /\ t.cells \in Seq(Nat)
       /\ t.name \in {"#address-cells", "#size-cells"} => t.cells # <<>>
  /\ src \in Nat \ {0}
  /\ frames \in Seq([cells : CellCounts, go : BOOLEAN, inProps : BOOLEAN])
  /\ handed \in Seq(NodeSet)

BootTypes ==
  /\ phase \in {"walk", "memory", "device", "map", "done", "halted"}
  /\ regions \in [Kinds -> Seq(RegionSet)]
  /\ \A kind \in Kinds : Len(regions[kind]) <= Limit(kind)
  /\ taken \in Nat
  /\ work \in Seq(CallSet)
  /\ split \in SplitSet \cup {Nil}
  /\ caps \in Seq(CapSet)
  /\ pages \in Nat \X (0..N) \X Nat
  /\ tables \in [{"payload", "stack"} -> [0..(N - 1) -> Nat \cup {Nil}]]

(* What each phase finds.                                                  *)
Phases ==
  /\ phase = "walk" => taken = 0 /\ work = <<>> /\ split = Nil /\ caps = <<>>
  /\ phase \in {"memory", "device"} => taken <= Len(regions[phase])
  /\ phase \in {"map", "done"} => work = <<>> /\ split = Nil /\ taken <= PageCount
  /\ phase = "done" => taken = PageCount

(* How many regions of a kind have been taken.                             *)
TakenOf(kind) ==
  CASE phase = "walk" -> 0
    [] phase = kind -> taken
    [] phase = "memory" /\ kind = "device" -> 0
    [] OTHER -> Len(regions[kind])

-----------------------------------------------------------------------------
(* Which addresses are handed out.                                         *)

FreeFrom(x, index) ==
  \A j \in 1..Len(regions["reserved"]) : j >= index => ~In(x, regions["reserved"][j])

(* A call that is still to be made, and the region that is being cut up,   *)
(* will hand out x.                                                        *)
ToCome(x, device) ==
  \E i \in 1..Len(work) :
    /\ work[i].device = device /\ work[i].region.start # 0
    /\ In(x, work[i].region) /\ FreeFrom(x, work[i].index)

InSplit(x, device) == split # Nil /\ split.device = device /\ In(x, split)

HandedOut(x, device) == Covered(x, device) \/ ToCome(x, device) \/ InSplit(x, device)

(* x is in one of the first n regions, and nothing keeps it back.          *)
DueMemory(x, n) ==
  /\ Free(x) /\ ~In(x, DtbRegion)
  /\ \E i \in 1..n :
       In(x, regions["memory"][i]) /\ ~AtZeroBeforeDtb(x, regions["memory"][i])

DueDevice(x, n) ==
  /\ Free(x)
  /\ \E i \in 1..n : In(x, regions["device"][i]) /\ ~AtZero(x, regions["device"][i])

Exact ==
  phase # "halted" =>
    \A x \in 0..(CellBase * CellBase) :
      /\ HandedOut(x, FALSE) <=> DueMemory(x, TakenOf("memory"))
      /\ HandedOut(x, TRUE) <=> DueDevice(x, TakenOf("device"))

(* A reserved region that ends before it starts, because its end wraps     *)
(* around, would be cut out of nothing, or out of twice as much.           *)
Upright == \A r \in Elements(regions["reserved"]) : r.start <= r.end

-----------------------------------------------------------------------------
(* How the blocks fit.                                                     *)

(* The block size divides the address: that is why blocks are aligned.     *)
Aligned ==
  /\ split # Nil => \E k \in 0..split.start : split.start = BlockSize(split.bit) * k
  /\ \A i \in 1..Len(caps) : \E k \in 0..caps[i].base : caps[i].base = caps[i].size * k

Block(c) == Region(c.base, c.base + c.size)

ApartFrom(r) ==
  /\ \A i \in 1..Len(caps) : Apart(Block(caps[i]), r)
  /\ \A i \in 1..Len(work) : Apart(work[i].region, r)
  /\ split # Nil => Apart(split, r)

(* What was handed out, what is to come and what has not been taken yet.   *)
Separate ==
  /\ \A i, j \in 1..Len(caps) : i # j => Apart(Block(caps[i]), Block(caps[j]))
  /\ \A i, j \in 1..Len(work) : i # j => Apart(work[i].region, work[j].region)
  /\ \A i \in 1..Len(caps), j \in 1..Len(work) : Apart(Block(caps[i]), work[j].region)
  /\ split # Nil =>
       /\ \A i \in 1..Len(caps) : Apart(Block(caps[i]), split)
       /\ \A i \in 1..Len(work) : Apart(work[i].region, split)
  /\ \A kind \in {"memory", "device"} : \A j \in 1..Len(regions[kind]) :
       j > TakenOf(kind) => ApartFrom(regions[kind][j])

-----------------------------------------------------------------------------
(* The pages that are mapped.                                              *)

(* The pages taken so far are where they belong; so one behind the end of  *)
(* the table wraps around onto a page that is there already.               *)
Mapping ==
  /\ phase \in {"walk", "memory", "device"} =>
       tables = [area \in {"payload", "stack"} |-> [i \in 0..(N - 1) |-> Nil]]
  /\ phase \in {"map", "done"} =>
       /\ Len(caps) + taken <= MaxCaps
       /\ \A n \in 1..taken :
            LET p == BootPage(n) IN p.offset < N /\ tables[p.area][p.offset] = n
  /\ Len(caps) <= MaxCaps

BootInvariant ==
  /\ TokensRead /\ BootTypes /\ Phases
  /\ Upright => Exact
  /\ Aligned
  /\ Upright /\ RegionsApart => phase = "walk" \/ Separate
  /\ Mapping
=============================================================================
