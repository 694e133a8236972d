----------------------------- MODULE UserMemory -----------------------------
(***************************************************************************)
(* How the kernel reads and writes the memory of user tasks                *)
(* (src/kernel/user_memory.cpp), over the page tables of PageTable.tla.    *)
(*                                                                         *)
(* An address is a byte address; a page of 4 KiB has PageBytes bytes.  A   *)
(* copy is the sequence of the physical bytes it touches, a byte being     *)
(* <<page, offset>>; what is copied plays no part.                         *)
(***************************************************************************)
EXTENDS PageTable, Integers, Sequences

CONSTANTS
  PageBytes,  \* PAGE_SIZE
  Ranges      \* the <<address, size>> pairs messages are read from and written to

ASSUME UserMemoryAssumption ==
  PageBytes \in Nat \ {0} /\ Ranges \subseteq Nat \X Nat

VARIABLE topDown  \* have the programs so far mapped tables from the root down?

userVars == <<cap, entries, rootOf, ext, fault, topDown>>

-----------------------------------------------------------------------------
(* user_memory.cpp                                                         *)

NoLeaf == [to |-> Nil, level |-> 0]

(* walk: down the tables to the first entry that does not lead to a table, *)
(* which must be a leaf for user mode.                                     *)
Walk(k, va) ==
  LET page == va \div PageBytes
      down[level \in Levels] ==  \* the leaf below the table passed at that level
        [t \in Tables |->
           LET e == entries[t][Index(page, level)]
           IN  CASE e.kind = "user" -> [to |-> e.to, level |-> level]
                 [] e.kind = "table" /\ level > 0 -> down[level - 1][e.to]
                 [] OTHER -> NoLeaf]
  IN  IF rootOf[k] = Nil THEN NoLeaf ELSE down[MaxLevel][rootOf[k]]

BytesOf(level) == PageBytes * PageSize(level)

(* Mutated form of Length: the offset in the page is forgotten.            *)
LengthWholePage(at, level, left) ==
  IF BytesOf(level) > left THEN left ELSE BytesOf(level)

(* How much is copied from the page in one round of a loop.                *)
Length(at, level, left) ==
  LET rest == BytesOf(level) - (at % BytesOf(level))
  IN  IF rest > left THEN left ELSE rest

Bytes(page, offset, length) == [i \in 1..length |-> <<page, offset + i - 1>>]

(* read_user_memory and write_user_memory go through the same bytes; the   *)
(* rounds before the one that fails have been copied.                      *)
AccessUserMemory(k, start, size) ==
  LET round[done \in 0..size] ==
        LET at == start + done
            leaf == Walk(k, at)
            length == Length(at, leaf.level, size - done)
        IN  IF done = size THEN [ok |-> TRUE, bytes |-> <<>>]
            ELSE IF leaf = NoLeaf THEN [ok |-> FALSE, bytes |-> <<>>]
                 ELSE [round[done + length] EXCEPT
                         !.bytes = Bytes(leaf.to, at % BytesOf(leaf.level), length) \o @]
  IN  round[0]

(* Mutated form of DstOffset: the offset in the source page.               *)
DstOffsetOfSource(src, dst, level) == src % BytesOf(level)

DstOffset(src, dst, level) == dst % BytesOf(level)

(* forward_user_memory: the length of a round is that of the source page,  *)
(* wherever the destination page ends.                                     *)
ForwardUserMemory(k, m, src, dst, size) ==
  LET round[done \in 0..size] ==
        LET from == Walk(k, src + done)
            to == Walk(m, dst + done)
            length == Length(src + done, from.level, size - done)
        IN  IF done = size THEN [ok |-> TRUE, read |-> <<>>, written |-> <<>>]
            ELSE IF from = NoLeaf \/ to = NoLeaf
                 THEN [ok |-> FALSE, read |-> <<>>, written |-> <<>>]
                 ELSE [round[done + length] EXCEPT
                         !.read = Bytes(from.to, (src + done) % BytesOf(from.level), length) \o @,
                         !.written =
                           Bytes(to.to, DstOffset(src + done, dst + done, to.level), length) \o @]
  IN  round[0]

-----------------------------------------------------------------------------
(* A program that maps from the root down never puts an entry into a table *)
(* that is not mapped, and unmaps or destroys a table only once it is      *)
(* empty.                                                                  *)

TopDownStep ==
  /\ \A t \in Tables, i \in EntryIndex :
       entries[t][i] = Off /\ entries'[t][i] # Off => cap[t].mapped \/ rootOf' # rootOf
  /\ \A t \in Tables : cap[t].mapped /\ ~cap'[t].mapped => entries[t] = Empty

UserInit == Init /\ topDown = TRUE

UserNext == Next /\ topDown' = (topDown /\ TopDownStep)

UserSpec == UserInit /\ [][UserNext]_userVars

-----------------------------------------------------------------------------
(* Properties.  The reference is what the capabilities say: where a page   *)
(* is mapped, and through which parents the root table is reached.         *)

RootAbove(x) ==
  LET up[n \in 0..MaxLevel + 1] ==
        IF n = 0 THEN x
        ELSE IF up[n - 1] \in Objects /\ cap[up[n - 1]].parent # Nil
             THEN cap[up[n - 1]].parent ELSE up[n - 1]
  IN  up[MaxLevel + 1]

(* The bytes that the capabilities put at address at of task k.            *)
CapBytes(k, at) ==
  {<<p, at - (PageBytes * cap[p].base)>> :
     p \in {q \in LivePages :
              /\ cap[q].mapped
              /\ RootAbove(q) = rootOf[k]
              /\ at \div PageBytes \in cap[q].base..(cap[q].base + PageSize(cap[q].level) - 1)}}

Backed(k, start, size) == \A i \in 0..(size - 1) : CapBytes(k, start + i) # {}

(* A page is in a table of its own level ("Virt page cap must have the     *)
(* same level as page table cap.", cap.cpp:645), whatever becomes of the   *)
(* tables above it, as long as the programs map from the root down.        *)
(* Otherwise a table can be filled at one level and mapped at another.     *)
LevelsAgree ==
  topDown =>
    \A p \in LivePages :
      cap[p].mapped /\ Live(cap[p].parent) => cap[cap[p].parent].level = cap[p].level

(* What the kernel reads and writes for a task is what the task's          *)
(* capabilities say, as long as the programs map from the root down: an    *)
(* access of any length, across pages of any sizes, touches exactly the    *)
(* bytes mapped at its addresses, in order, up to the first address that   *)
(* is not mapped, and fails just when there is one (read_user_memory,      *)
(* write_user_memory).                                                     *)
AccessExact ==
  topDown =>
    \A k \in Tasks \ Unused, r \in Ranges :
      LET access == AccessUserMemory(k, r[1], r[2])
          touched == Len(access.bytes)
      IN  /\ \A i \in 1..touched : CapBytes(k, r[1] + i - 1) = {access.bytes[i]}
          /\ IF access.ok THEN touched = r[2]
             ELSE touched < r[2] /\ CapBytes(k, r[1] + touched) = {}

(* The source pages are no larger than the destination pages, and end      *)
(* where some page of that size ends in the destination.                   *)
InPhase(k, m, src, dst, size) ==
  \A i \in 0..(size - 1) :
    LET from == Walk(k, src + i).level
    IN  from <= Walk(m, dst + i).level /\ src % BytesOf(from) = dst % BytesOf(from)

(* A message is forwarded to the bytes of its destination and to no others *)
(* if source and destination are in phase (forward_user_memory); out of    *)
(* phase the last bytes of a round land behind the destination page.       *)
ForwardExact ==
  topDown =>
    \A k, m \in Tasks \ Unused, r, s \in Ranges :
      LET forward == ForwardUserMemory(k, m, r[1], s[1], r[2])
      IN  Backed(k, r[1], r[2]) /\ Backed(m, s[1], r[2]) /\ InPhase(k, m, r[1], s[1], r[2]) =>
            /\ forward.ok
            /\ forward.read = AccessUserMemory(k, r[1], r[2]).bytes
            /\ forward.written = AccessUserMemory(m, s[1], r[2]).bytes
=============================================================================
