------------------------- MODULE PageTableInvariant -------------------------
(***************************************************************************)
(* The inductive invariant behind EntriesAgree and CapsKept of             *)
(* PageTable.tla.                                                          *)
(***************************************************************************)
EXTENDS PageTable

(* No call on tables and pages can write to t: its capability is gone, or  *)
(* says that it is mapped behind the space of the user.                    *)
Shielded(t) == cap[t].st = "dead" \/ cap[t].base >= KernelBase

(* The capability of a root table.                                         *)
IsRoot(t) ==
  cap[t].mapped /\ cap[t].level = MaxLevel /\ cap[t].base = 0 /\ cap[t].parent = Nil

(* What is not mapped has no parent, and was never a table of the kernel;  *)
(* only what has a capability is mapped.                                   *)
Unlinked ==
  \A x \in Objects : /\ ~cap[x].mapped => cap[x].parent = Nil /\ cap[x].base < KernelBase
                     /\ cap[x].mapped => Live(x)

(* A table covers an aligned part of the user's address space, whether it  *)
(* is mapped or was.                                                       *)
Aligned ==
  \A t \in Tables : cap[t].base < KernelBase => cap[t].base % PageSize(cap[t].level + 1) = 0

(* The only entry that leads to a page is the one its capability names.    *)
PageEntries ==
  \A t \in Tables, i \in EntryIndex, p \in Pages : entries[t][i].to = p => Agrees(p, t, i)

(* So it is for tables, in the tables that a user can write to.            *)
TableEntries ==
  \A t \in Tables, i \in EntryIndex, c \in Tables :
    entries[t][i].to = c /\ entries[t][i].kind # "kernel" /\ ~Shielded(t) =>
      Agrees(c, t, i) /\ cap[c].base < KernelBase

(* The entries of the kernel are out of reach of the user.                 *)
KernelEntries ==
  \A t \in Tables, i \in EntryIndex :
    entries[t][i].to \in Tables /\ entries[t][i].kind = "kernel" /\ ~Shielded(t) =>
      IsRoot(t) /\ PageSize(MaxLevel) * i >= KernelBase

(* A destructor finds the entry that its capability names.                 *)
Findable == \A x \in Objects : cap[x].base < KernelBase => EntryFound(x)

(* What every call on tables and pages preserves, if the tables that lead  *)
(* to the capability spaces are out of reach.                              *)
Agreement ==
  Unlinked /\ Aligned /\ PageEntries /\ TableEntries /\ KernelEntries /\ Findable

-----------------------------------------------------------------------------
(* The tables that lead to the capability space of a task.                 *)
Spine(k) == WalkTables(rootOf[k], CapSpaceBase)

Used == {k \in Tasks : rootOf[k] # Nil}

(* The root task can destroy the tables of its own capability space.       *)
Intact(k) == k # RootTask \/ \A l \in Inner : cap[CapTables[l]].st # "dead"

(* What follows is about the tasks of U.  Their root tables are such until *)
(* they are destroyed.                                                     *)
Roots(U) == \A k \in U : (cap[rootOf[k]].st = "dead" \/ IsRoot(rootOf[k])) /\ ext[k] >= 1

SpineShielded(U) ==
  \A k \in U, l \in Inner : Spine(k)[l] \in Tables => Shielded(Spine(k)[l])

(* A table is in one spine at most, and at one level of it.                *)
SpinesApart(U) ==
  \A k, m \in U, l, j \in Levels :
    Spine(k)[l] \in Tables /\ Spine(k)[l] = Spine(m)[j] => k = m /\ l = j

(* No destructor cuts a spine, but that of the root task's tables.         *)
SpineParents(U) ==
  \A k \in U, l \in Inner :
    Spine(k)[l] \in Tables =>
      IF k = RootTask THEN Spine(k)[l] = CapTables[l]
      ELSE Live(Spine(k)[l]) => cap[Spine(k)[l]].parent = Nil

SpineWhole(U) ==
  \A k \in U :
    Intact(k) => /\ \A l \in Inner : Spine(k)[l] \in Tables
                 /\ entries[Spine(k)[0]][Index(CapSpaceBase, 0)] = KernelPage

SpinesOf(U) ==
  /\ RootTask \in U
  /\ Roots(U) /\ SpineShielded(U) /\ SpinesApart(U) /\ SpineParents(U) /\ SpineWhole(U)

Spines == SpinesOf(Used)

(* Every step preserves this.                                              *)
PageInvariant == Agreement /\ Spines
=============================================================================
