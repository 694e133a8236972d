---------------------------- MODULE MCPageTable ----------------------------
(* UserMemory and PageTable on four entries per table and three levels:    *)
(* addresses 0..31 (in pages) are the user's, 32..47 the mapped space of   *)
(* the kernel, and the capability space starts at 48.                      *)
EXTENDS UserMemory, PageTableInvariant, TLC

CONSTANTS root, cap0, cap1, pay0, pay1, Fresh, FreshPages, pay

MCTables == {root, cap0, cap1, pay0, pay1} \cup Fresh
MCPages == {pay} \cup FreshPages
MCCapTables == 0 :> cap0 @@ 1 :> cap1
MCPayloadTables == 0 :> pay0 @@ 1 :> pay1

(* Ranges inside a page, over the ends of pages of each size, and from a   *)
(* large page into a small one.  A page has two bytes.                     *)
MCRanges == {<<0, 5>>, <<2, 2>>, <<7, 3>>, <<31, 3>>, <<32, 2>>}

Sym == Permutations(Fresh) \cup Permutations(FreshPages)
=============================================================================
